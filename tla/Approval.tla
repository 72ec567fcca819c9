------------------------------ MODULE Approval ------------------------------
(***************************************************************************)
(* The request list and the approval of a request, as app/services/        *)
(* playlist_ops.py runs it in one asyncio event loop.                      *)
(*                                                                         *)
(* An approval holds the request it read at its start over three Spotify   *)
(* calls: list the playlist, read what is playing, insert the track.       *)
(* Other handlers run at each of these awaits, so an approval of each      *)
(* member of Approvers (one per open admin request, one for the timeout    *)
(* loop) may be under way, and submissions, denials, configuration saves   *)
(* and edits made by hand on Spotify fall in between.  What runs between   *)
(* two awaits is one step.                                                 *)
(*                                                                         *)
(* A call may raise (the exception leaves approve_request), and the        *)
(* container may be restarted.  Each database helper commits on its own,   *)
(* so a restart also falls between two commits of one segment.  A POST     *)
(* whose caller gave up or died may still reach Spotify (LatePosts).       *)
(*                                                                         *)
(* The playlist fits in one page of the listing (100 items), so that a     *)
(* listing is one call.                                                    *)
(***************************************************************************)
EXTENDS Requests, PlaylistState, SpotifyPlaylist

CONSTANTS Approvers,       \* the tasks that may run approve_request
          Playlists, NoPlaylist,
          AheadChoices,    \* the values of insert_tracks_ahead an admin saves
          Backbone,        \* the tracks of each playlist at the start
          LatePosts,       \* may an abandoned POST still be applied?
          MaxSubmissions, MaxFaults, MaxEdits   \* bounds of the model

ConfigChoices == [playlist : Playlists \cup {NoPlaylist}, ahead : AheadChoices]

ASSUME ApprovalAssumption ==
    /\ NoPlaylist \notin Playlists
    /\ AheadChoices \subseteq Int
    /\ Backbone \in [Playlists -> Seq(Tracks)]
    /\ LatePosts \in BOOLEAN
    /\ MaxSubmissions \in Nat /\ MaxFaults \in Nat /\ MaxEdits \in Nat

VARIABLES requests,     \* table requests
          entries,      \* table playlist_state
          audit,        \* table audit_log: the decisions recorded
          config,       \* the config row
          tasks,        \* the approvals under way, one per approver
          playlists,    \* Spotify: the items of each playlist
          playing,      \* Spotify: the track playing, or NoTrack
          late,         \* POSTs abandoned by the program, not applied yet
          submissions,  \* history: the track of each ticket
          applied,      \* history: the tickets Spotify inserted a track for
          contested,    \* history: where a track came into a playlist beside an insertion
          faults, edits \* counters of the bounds

database == <<requests, entries, audit>>
spotify  == <<playlists, playing>>
history  == <<submissions, applied, contested>>
vars == <<database, config, tasks, spotify, late, history, faults, edits>>

NoTask == [pc |-> "idle", id |-> 0, uri |-> NoTrack, ticket |-> 0,
           playlist |-> NoPlaylist, ahead |-> 0, listed |-> <<>>, position |-> 0]

Idle(w) == tasks[w].pc = "idle"
Finish(w) == tasks' = [tasks EXCEPT ![w] = NoTask]

Init ==
    /\ requests = <<>>
    /\ entries = <<>>
    /\ audit = {}
    /\ config \in ConfigChoices
    /\ tasks = [w \in Approvers |-> NoTask]
    /\ playlists = [p \in Playlists |->
                      [i \in DOMAIN Backbone[p] |-> [uri |-> Backbone[p][i], owner |-> 0]]]
    /\ playing \in Tracks \cup {NoTrack}
    /\ late = {}
    /\ submissions = <<>>
    /\ applied = {}
    /\ contested = {}
    /\ faults = 0
    /\ edits = 0

-----------------------------------------------------------------------------
(* Guests submit.                                                          *)

\* create_request: the check, the insert and its commit run without an await.
CreateRequest(uri) ==
    /\ Len(submissions) < MaxSubmissions
    /\ ~HasPendingDuplicate(requests, uri)
    /\ \E id \in 1 .. Len(submissions) + 1 :
          /\ IsNextRowid(requests, id)
          /\ requests' = InsertRequest(requests, id, uri, Len(submissions) + 1)
    /\ submissions' = Append(submissions, uri)
    /\ UNCHANGED <<entries, audit, config, tasks, spotify, late, applied, contested, faults, edits>>

-----------------------------------------------------------------------------
(* approve_request, one action per segment between awaits.                 *)

\* Mutant: the configured playlist is not checked.
StartApproveUnconfigured(w, id) ==
    /\ Idle(w)
    /\ IsPending(requests, id)
    /\ tasks' = [tasks EXCEPT ![w] =
                    [NoTask EXCEPT !.pc = "listing", !.id = id,
                                   !.uri = requests[id].uri, !.ticket = requests[id].ticket,
                                   !.playlist = config.playlist, !.ahead = config.ahead]]
    /\ UNCHANGED <<database, config, spotify, late, history, faults, edits>>

\* Up to the first await: the row and the config are read once, here.
StartApprove(w, id) ==
    /\ Idle(w)
    /\ IsPending(requests, id)
    /\ config.playlist # NoPlaylist
    /\ tasks' = [tasks EXCEPT ![w] =
                    [NoTask EXCEPT !.pc = "listing", !.id = id,
                                   !.uri = requests[id].uri, !.ticket = requests[id].ticket,
                                   !.playlist = config.playlist, !.ahead = config.ahead]]
    /\ UNCHANGED <<database, config, spotify, late, history, faults, edits>>

\* Mutant: the listing is not searched for the track.
ListPlaylistUnsearched(w) ==
    /\ tasks[w].pc = "listing"
    /\ tasks' = [tasks EXCEPT ![w].pc = "locating",
                              ![w].listed = playlists[tasks[w].playlist]]
    /\ UNCHANGED <<database, config, spotify, late, history, faults, edits>>

\* "That track is already in the playlist" ends the approval.
ListPlaylist(w) ==
    /\ tasks[w].pc = "listing"
    /\ LET items == playlists[tasks[w].playlist]
       IN  IF InListing(items, tasks[w].uri)
           THEN Finish(w)
           ELSE tasks' = [tasks EXCEPT ![w].pc = "locating", ![w].listed = items]
    /\ UNCHANGED <<database, config, spotify, late, history, faults, edits>>

InsertPosition(listed, anchor, ahead) ==
    LET wanted == ListingIndex(listed, anchor) + ahead
    IN  IF wanted <= ListingLength(listed) THEN wanted ELSE ListingLength(listed)

\* "Can't determine the current playback position" ends the approval.
LocatePlayback(w) ==
    /\ tasks[w].pc = "locating"
    /\ IF playing # NoTrack /\ InListing(tasks[w].listed, playing)
       THEN tasks' = [tasks EXCEPT ![w].pc = "inserting",
                        ![w].position =
                            InsertPosition(tasks[w].listed, playing, tasks[w].ahead)]
       ELSE Finish(w)
    /\ UNCHANGED <<database, config, spotify, late, history, faults, edits>>

\* The insertions of a track that are past their listing: approvals under way, and
\* POSTs that were abandoned on their way.
Posting(p, uri) ==
    {w \in Approvers : /\ tasks[w].pc \in {"locating", "inserting"}
                       /\ tasks[w].playlist = p
                       /\ tasks[w].uri = uri}

Abandoned(p, uri) == {post \in late : post.playlist = p /\ post.uri = uri}

\* History: the track comes into the playlist, beside an insertion or a copy of it
\* or not.
EntersBeside(p, uri, others) ==
    contested' = IF others THEN contested \cup {<<p, uri>>} ELSE contested

\* Mutant: an error status does not raise.
SpotifyInsertUnraised(w) ==
    /\ tasks[w].pc = "inserting"
    /\ LET items == playlists[tasks[w].playlist]
           item == [uri |-> tasks[w].uri, owner |-> tasks[w].ticket]
       IN  IF CanInsertAt(items, tasks[w].position)
           THEN /\ playlists' = [playlists EXCEPT ![tasks[w].playlist] =
                                    InsertItem(items, tasks[w].position, item)]
                /\ applied' = applied \cup {tasks[w].ticket}
                /\ EntersBeside(tasks[w].playlist, tasks[w].uri,
                       \/ Posting(tasks[w].playlist, tasks[w].uri) # {w}
                       \/ Abandoned(tasks[w].playlist, tasks[w].uri) # {})
           ELSE UNCHANGED <<playlists, applied, contested>>
    /\ tasks' = [tasks EXCEPT ![w].pc = "inserted"]
    /\ UNCHANGED <<database, config, playing, late, submissions, faults, edits>>

\* Spotify handles the POST; a position it refuses raises HTTPStatusError.
SpotifyInsert(w) ==
    /\ tasks[w].pc = "inserting"
    /\ LET items == playlists[tasks[w].playlist]
           item == [uri |-> tasks[w].uri, owner |-> tasks[w].ticket]
       IN  IF CanInsertAt(items, tasks[w].position)
           THEN /\ playlists' = [playlists EXCEPT ![tasks[w].playlist] =
                                    InsertItem(items, tasks[w].position, item)]
                /\ applied' = applied \cup {tasks[w].ticket}
                /\ EntersBeside(tasks[w].playlist, tasks[w].uri,
                       \/ Posting(tasks[w].playlist, tasks[w].uri) # {w}
                       \/ Abandoned(tasks[w].playlist, tasks[w].uri) # {})
                /\ tasks' = [tasks EXCEPT ![w].pc = "inserted"]
           ELSE Finish(w) /\ UNCHANGED <<playlists, applied, contested>>
    /\ UNCHANGED <<database, config, playing, late, submissions, faults, edits>>

EntryWritten(w) ==
    entries' = CreateEntry(entries, tasks[w].uri, tasks[w].id, tasks[w].ticket)

\* Mutant: a request that is gone is not recorded.
RecordInsertionOfPending(w) ==
    /\ tasks[w].pc = "inserted"
    /\ IF IsPending(requests, tasks[w].id)
       THEN /\ EntryWritten(w)
            /\ requests' = MarkRequestAdded(requests, tasks[w].id)
            /\ audit' = audit \cup {[action |-> "request.approved", ticket |-> tasks[w].ticket]}
       ELSE UNCHANGED database
    /\ Finish(w)
    /\ UNCHANGED <<config, spotify, late, history, faults, edits>>

\* The answer arrives: three commits, no await between them.
RecordInsertion(w) ==
    /\ tasks[w].pc = "inserted"
    /\ EntryWritten(w)
    /\ requests' = MarkRequestAdded(requests, tasks[w].id)
    /\ audit' = audit \cup {[action |-> "request.approved", ticket |-> tasks[w].ticket]}
    /\ Finish(w)
    /\ UNCHANGED <<config, spotify, late, history, faults, edits>>

-----------------------------------------------------------------------------
(* deny_request: no await at all.                                          *)

\* Mutant: the status of the row is not checked.
DenyAnyRequest(id) ==
    /\ requests' = DeleteRequest(requests, id)
    /\ audit' = audit \cup {[action |-> "request.denied", ticket |-> requests[id].ticket]}
    /\ UNCHANGED <<entries, config, tasks, spotify, late, history, faults, edits>>

DenyRequest(id) ==
    /\ IsPending(requests, id)
    /\ requests' = DeleteRequest(requests, id)
    /\ audit' = audit \cup {[action |-> "request.denied", ticket |-> requests[id].ticket]}
    /\ UNCHANGED <<entries, config, tasks, spotify, late, history, faults, edits>>

-----------------------------------------------------------------------------
(* Failures.                                                               *)

\* The POSTs of these approvers that may be on their way to Spotify.
InFlight(ws) ==
    IF LatePosts
    THEN {[attempt |-> <<faults, w>>, playlist |-> tasks[w].playlist, uri |-> tasks[w].uri,
           ticket |-> tasks[w].ticket, position |-> tasks[w].position] :
              w \in {v \in ws : tasks[v].pc = "inserting"}}
    ELSE {}

\* A call raises: an error status, a timeout, a broken connection, a lost answer.
CallFails(w) ==
    /\ ~Idle(w)
    /\ faults < MaxFaults
    /\ faults' = faults + 1
    /\ late' = late \cup InFlight({w})
    /\ Finish(w)
    /\ UNCHANGED <<database, config, spotify, history, edits>>

LateInsert(post) ==
    /\ post \in late
    /\ CanInsertAt(playlists[post.playlist], post.position)
    /\ playlists' = [playlists EXCEPT ![post.playlist] =
                        InsertItem(@, post.position, [uri |-> post.uri, owner |-> post.ticket])]
    /\ applied' = applied \cup {post.ticket}
    /\ EntersBeside(post.playlist, post.uri,
           \/ Posting(post.playlist, post.uri) # {}
           \/ Abandoned(post.playlist, post.uri) # {post})
    /\ late' = late \ {post}
    /\ UNCHANGED <<database, config, tasks, playing, submissions, faults, edits>>

\* The process dies: every approval under way is forgotten.
Dies ==
    /\ faults < MaxFaults
    /\ faults' = faults + 1
    /\ late' = late \cup InFlight(Approvers)
    /\ tasks' = [w \in Approvers |-> NoTask]
    /\ UNCHANGED <<config, spotify, history, edits>>

Crash == Dies /\ UNCHANGED database

\* Mutant: the request is marked before its entry is written.
CrashRecordingMarkedFirst(w) ==
    /\ tasks[w].pc = "inserted"
    /\ requests' = MarkRequestAdded(requests, tasks[w].id)
    /\ UNCHANGED <<entries, audit>>
    /\ Dies

\* ... after the first or the second commit of RecordInsertion.
CrashRecording(w) ==
    /\ tasks[w].pc = "inserted"
    /\ EntryWritten(w)
    /\ \/ UNCHANGED requests
       \/ requests' = MarkRequestAdded(requests, tasks[w].id)
    /\ UNCHANGED audit
    /\ Dies

\* Mutant: the audit record is written before the row is deleted.
CrashDenyingAuditFirst(id) ==
    /\ IsPending(requests, id)
    /\ audit' = audit \cup {[action |-> "request.denied", ticket |-> requests[id].ticket]}
    /\ UNCHANGED <<requests, entries>>
    /\ Dies

\* ... between the deletion and the audit record of DenyRequest.
CrashDenying(id) ==
    /\ IsPending(requests, id)
    /\ requests' = DeleteRequest(requests, id)
    /\ UNCHANGED <<entries, audit>>
    /\ Dies

-----------------------------------------------------------------------------
(* The admin's settings, and what the venue does on Spotify itself.        *)

UpdateConfig ==
    /\ \E choice \in ConfigChoices : choice # config /\ config' = choice
    /\ UNCHANGED <<database, tasks, spotify, late, history, faults, edits>>

ChangePlayback ==
    /\ \E track \in Tracks \cup {NoTrack} : track # playing /\ playing' = track
    /\ UNCHANGED <<database, config, tasks, playlists, late, history, faults, edits>>

\* A track is added (perhaps a second time), taken out, or stops being available.
EditPlaylist(p) ==
    /\ edits < MaxEdits
    /\ edits' = edits + 1
    /\ \/ \E position \in 0 .. Len(playlists[p]), track \in Tracks :
             /\ playlists' = [playlists EXCEPT ![p] =
                                 InsertItem(@, position, [uri |-> track, owner |-> 0])]
             /\ EntersBeside(p, track, \/ Posting(p, track) # {}
                                       \/ Abandoned(p, track) # {}
                                       \/ InListing(playlists[p], track))
       \/ /\ \E position \in 0 .. Len(playlists[p]) - 1 :
                playlists' = [playlists EXCEPT ![p] = DeleteItem(@, position)]
          /\ UNCHANGED contested
       \/ /\ \E i \in DOMAIN playlists[p] :
                playlists' = [playlists EXCEPT ![p][i].uri = Unavailable]
          /\ UNCHANGED contested
    /\ UNCHANGED <<database, config, tasks, playing, late, submissions, applied, faults>>

-----------------------------------------------------------------------------

\* What an approval under way does next.
CallStep(w) ==
    \/ ListPlaylist(w)
    \/ LocatePlayback(w)
    \/ SpotifyInsert(w)
    \/ RecordInsertion(w)
    \/ CallFails(w)

ApproverStep(w) ==
    \/ \E id \in DOMAIN requests : StartApprove(w, id)
    \/ CallStep(w)
    \/ CrashRecording(w)

Next ==
    \/ \E uri \in Tracks : CreateRequest(uri)
    \/ \E w \in Approvers : ApproverStep(w)
    \/ \E id \in DOMAIN requests : DenyRequest(id) \/ CrashDenying(id)
    \/ \E post \in late : LateInsert(post)
    \/ Crash
    \/ UpdateConfig
    \/ ChangePlayback
    \/ \E p \in Playlists : EditPlaylist(p)

Spec == Init /\ [][Next]_vars

-----------------------------------------------------------------------------
(* Properties.                                                             *)

Tickets == 1 .. Len(submissions)

RowType == [uri : Tracks, status : Statuses, ticket : Tickets]

EntryType == [uri : Tracks, request_id : Nat, ticket : Tickets,
              played : BOOLEAN, removed : BOOLEAN]

DecisionType == [action : {"request.approved", "request.denied"}, ticket : Tickets]

TaskType == [pc : {"idle", "listing", "locating", "inserting", "inserted"},
             id : Nat, uri : Tracks \cup {NoTrack}, ticket : Nat,
             playlist : Playlists \cup {NoPlaylist}, ahead : Int, listed : Seq(Items),
             position : Int]

PostType == [attempt : Nat \X Approvers, playlist : Playlists, uri : Tracks,
             ticket : Tickets, position : Int]

\* The state keeps its shape, and an approval under way has a request and a
\* configured playlist to insert into.
TypeOK ==
    /\ requests \in [DOMAIN requests -> RowType]
    /\ DOMAIN requests \subseteq Tickets
    /\ entries \in Seq(EntryType)
    /\ audit \subseteq DecisionType
    /\ config \in ConfigChoices
    /\ tasks \in [Approvers -> TaskType]
    /\ \A w \in Approvers : ~Idle(w) => /\ tasks[w].ticket \in Tickets
                                        /\ tasks[w].uri \in Tracks
                                        /\ tasks[w].playlist \in Playlists
    /\ playlists \in [Playlists -> Seq(Items)]
    /\ playing \in Tracks \cup {NoTrack}
    /\ late \subseteq PostType
    /\ submissions \in Seq(Tracks)
    /\ applied \subseteq Tickets
    /\ contested \subseteq Playlists \X Tracks
    /\ faults \in Nat
    /\ edits \in Nat

\* Two guests never wait for the same track (the partial unique index of
\* migration 0005, and has_pending_duplicate in front of it).
OnePendingPerTrack ==
    \A i, j \in Pending(requests) : requests[i].uri = requests[j].uri => i = j

TicketsOf(ids) == {requests[id].ticket : id \in ids}

\* A request is shown as added only once the cleanup has an entry for it, whatever
\* crash cuts the commits of an approval apart: an entry of its own insertion, or
\* one of a request that had its rowid before and was denied (AddedMeansInserted).
AddedHasEntry ==
    \A id \in DOMAIN requests :
        requests[id].status = "added" =>
            \E e \in DOMAIN entries :
                /\ entries[e].request_id = id
                /\ \/ entries[e].ticket = requests[id].ticket
                   \/ entries[e].ticket \notin TicketsOf(DOMAIN requests)

\* SPEC.md: "approval and insertion happen atomically, so there's no separate
\* approved state": the track of an added request was inserted by an approval, or
\* is in a playlist anyway.
AddedMeansInserted ==
    \A id \in DOMAIN requests :
        requests[id].status = "added" =>
            \/ \E ticket \in applied : submissions[ticket] = requests[id].uri
            \/ \E p \in Playlists : InListing(playlists[p], requests[id].uri)

\* playlist_state never claims an insertion that Spotify did not make.
EntryMeansInserted ==
    \A e \in DOMAIN entries : /\ entries[e].ticket \in applied
                              /\ entries[e].uri = submissions[entries[e].ticket]

\* The audit log never runs ahead of the tables: what it calls approved has an
\* entry, what it calls denied has left the request list.
AuditNeverAhead ==
    \A decision \in audit :
        /\ decision.action = "request.approved" =>
              \E e \in DOMAIN entries : entries[e].ticket = decision.ticket
        /\ decision.action = "request.denied" =>
              \A id \in DOMAIN requests : requests[id].ticket # decision.ticket

\* An added request stays: no denial, late approval or crash takes it back.
AddedIsFinal ==
    [][\A id \in DOMAIN requests :
          requests[id].status = "added" =>
              /\ id \in DOMAIN requests'
              /\ requests'[id].status = "added"
              /\ requests'[id].ticket = requests[id].ticket]_vars

\* An approval puts a second copy of a track into a playlist only if the track came
\* in while the approval was between its listing and its POST (by another approval,
\* a POST applied late, the venue), and neither by a failure nor by the retry after
\* it; what the venue adds a second time is its own.
NoTrackTwice ==
    \A p \in Playlists : \A i, j \in DOMAIN playlists[p] :
        /\ playlists[p][i].uri = playlists[p][j].uri
        /\ playlists[p][i].uri # Unavailable
        /\ playlists[p][i].owner > 0
        /\ <<p, playlists[p][i].uri>> \notin contested
        => i = j

\* SPEC.md: denying a request "simply removes it from the request list - it
\* never reaches the playlist at all".
DeniedStaysOut ==
    \A p \in Playlists : \A i \in DOMAIN playlists[p] :
        playlists[p][i].owner > 0 =>
            \E id \in DOMAIN requests : requests[id].ticket = playlists[p][i].owner

\* SPEC.md: "approval and insertion happen atomically".  They do not, but unless a
\* call fails or the program restarts, what Spotify inserted has its entry once no
\* approval is under way, be the request denied in between or not.
InsertionsRecorded ==
    faults = 0 /\ (\A w \in Approvers : Idle(w)) =>
        \A ticket \in applied : \E e \in DOMAIN entries : entries[e].ticket = ticket

-----------------------------------------------------------------------------
(* The request list as guests and admins understand it.                    *)

Queue == INSTANCE RequestQueue WITH
            submitted <- submissions,
            waiting <- TicketsOf(Pending(requests)),
            added <- TicketsOf(DOMAIN requests \ Pending(requests))

\* The tables, the awaits and the crashes implement the promise of RequestQueue.
QueueSpec == Queue!Spec
=============================================================================
