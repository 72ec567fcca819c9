------------------------------- MODULE Poller -------------------------------
(***************************************************************************)
(* The cleanup worker (app/worker/poller.py): a loop in the same event     *)
(* loop as the handlers.  A tick reads the config once, sets the repeat    *)
(* mode, reads what is playing, and if the track of the last tick is over  *)
(* and was inserted by the program, looks it up in a fresh listing and     *)
(* deletes it there by position.  The tick awaits Spotify at each call, so *)
(* approvals, settings and playback move between its steps.                *)
(*                                                                         *)
(* What the loop knows of the past is last_known_uri, in memory: a tick    *)
(* that raises leaves it as it was, a restart forgets it.                  *)
(*                                                                         *)
(* Approvals are those of Approval without the request list: which tracks  *)
(* are approved, and where an insertion lands, is left open.  An item's    *)
(* owner is the number of the insertion that put it there, and so are the  *)
(* request_id and the ticket of its entry.                                 *)
(***************************************************************************)
EXTENDS PlaylistState, SpotifyPlaylist

CONSTANTS Playlists, NoPlaylist,
          ConfigChoices,     \* what an admin may save: a default playlist and repeat
          Backbone,          \* the tracks of each playlist at the start
          EditKinds,         \* what the venue does by hand on Spotify
          Requested,         \* the tracks that guests ask for
          Approvers,         \* who approves: the admins and the timeout loop
          LeastAhead,        \* no insertion lands at the head of the playlist if this is 1
          MaxInsertions,     \* bound: the insertions
          MaxUpsets          \* bound: faults, restarts, saved settings and edits by hand

ASSUME PollerAssumption ==
    /\ NoPlaylist \notin Playlists
    /\ ConfigChoices \subseteq [playlist : Playlists \cup {NoPlaylist}, repeat : BOOLEAN]
    /\ Backbone \in [Playlists -> Seq(Tracks)]
    /\ EditKinds \subseteq {"add", "remove", "unavailable"}
    /\ Requested \subseteq Tracks
    /\ LeastAhead \in {0, 1}
    /\ MaxInsertions \in Nat /\ MaxUpsets \in Nat

VARIABLES entries,     \* table playlist_state
          config,      \* the config row
          tick,        \* the tick under way: where it is and what it holds
          last_known,  \* poll_forever's last_known_uri
          playlists,   \* Spotify: the items of each playlist
          playing,     \* Spotify: the track playing, or NoTrack
          repeat,      \* Spotify: the repeat mode of the player
          approvals,   \* the approval each approver has under way
          inserted,    \* history: the track of each insertion
          doubled,     \* history: the tracks that were in the playlists twice at a time
          upsets       \* counter of the bound MaxUpsets

spotify == <<playlists, playing, repeat>>
history == <<inserted, doubled>>
vars == <<entries, config, tick, last_known, spotify, approvals, history, upsets>>

Sleeping == [pc |-> "sleeping", playlist |-> NoPlaylist, repeat |-> FALSE,
             current |-> NoTrack, entry |-> 0, position |-> 0]

NoApproval == [pc |-> "idle", uri |-> NoTrack, playlist |-> NoPlaylist, insertion |-> 0]

\* Is the track in two places of the playlists?
Twice(lists, uri) ==
    \E p, q \in Playlists : \E i \in DOMAIN lists[p], j \in DOMAIN lists[q] :
        <<p, i>> # <<q, j>> /\ lists[p][i].uri = uri /\ lists[q][j].uri = uri

NoteDoubles == doubled' = doubled \cup {uri \in Tracks : Twice(playlists', uri)}

Init ==
    /\ entries = <<>>
    /\ config \in ConfigChoices
    /\ tick = Sleeping
    /\ last_known = NoTrack
    /\ playlists = [p \in Playlists |->
                      [i \in DOMAIN Backbone[p] |-> [uri |-> Backbone[p][i], owner |-> 0]]]
    /\ playing \in Tracks \cup {NoTrack}
    /\ repeat \in BOOLEAN
    /\ approvals = [w \in Approvers |-> NoApproval]
    /\ inserted = <<>>
    /\ doubled = {uri \in Tracks : Twice(playlists, uri)}
    /\ upsets = 0

-----------------------------------------------------------------------------
(* A tick.                                                                 *)

StartTick ==
    /\ tick.pc = "sleeping"
    /\ tick' = [Sleeping EXCEPT !.pc = "repeating", !.playlist = config.playlist,
                                !.repeat = config.repeat]
    /\ UNCHANGED <<entries, config, last_known, spotify, approvals, history, upsets>>

\* Mutant: repeat is only ever switched on.
SetRepeatOn ==
    /\ tick.pc = "repeating"
    /\ repeat' = (repeat \/ tick.repeat)
    /\ tick' = [tick EXCEPT !.pc = "reading"]
    /\ UNCHANGED <<entries, config, last_known, playlists, playing, approvals, history, upsets>>

\* Spotify refuses (403) while no device is active; the refusal is swallowed.
SetRepeat ==
    /\ tick.pc = "repeating"
    /\ IF playing = NoTrack THEN UNCHANGED repeat ELSE repeat' = tick.repeat
    /\ tick' = [tick EXCEPT !.pc = "reading"]
    /\ UNCHANGED <<entries, config, last_known, playlists, playing, approvals, history, upsets>>

\* ... and so is every other error status (429, 500): the tick goes on.
RepeatRefused ==
    /\ tick.pc = "repeating"
    /\ upsets < MaxUpsets
    /\ upsets' = upsets + 1
    /\ tick' = [tick EXCEPT !.pc = "reading"]
    /\ UNCHANGED <<entries, config, last_known, spotify, approvals, history>>

\* run_poll_tick returns what is playing, and poll_forever remembers it.
FinishTick(current) ==
    /\ last_known' = current
    /\ tick' = Sleeping

\* Mutant: the default playlist is not checked.
ReadNowPlayingUnconfigured ==
    /\ tick.pc = "reading"
    /\ IF \/ last_known = NoTrack
          \/ playing = last_known
          \/ ActiveEntriesFor(entries, last_known) = {}
       THEN FinishTick(playing) /\ UNCHANGED entries
       ELSE \E entry \in DOMAIN entries :
               /\ IsActiveEntryFor(entries, last_known, entry)
               /\ entries' = MarkPlayed(entries, entry)
               /\ tick' = [tick EXCEPT !.pc = "listing", !.current = playing, !.entry = entry]
               /\ UNCHANGED last_known
    /\ UNCHANGED <<config, spotify, approvals, history, upsets>>

\* The answer to get_now_playing, up to the next await: the track that is over
\* is marked played if the program inserted it.
ReadNowPlaying ==
    /\ tick.pc = "reading"
    /\ IF \/ last_known = NoTrack
          \/ playing = last_known
          \/ ~\E entry \in DOMAIN entries : IsActiveEntryFor(entries, last_known, entry)
       THEN FinishTick(playing) /\ UNCHANGED entries
       ELSE \E entry \in DOMAIN entries :
               /\ IsActiveEntryFor(entries, last_known, entry)
               /\ entries' = MarkPlayed(entries, entry)
               /\ IF tick.playlist = NoPlaylist
                  THEN FinishTick(playing)
                  ELSE /\ tick' = [tick EXCEPT !.pc = "listing", !.current = playing,
                                               !.entry = entry]
                       /\ UNCHANGED last_known
    /\ UNCHANGED <<config, spotify, approvals, history, upsets>>

\* "already gone somehow": the entry stays as it is.
ListPlaylist ==
    /\ tick.pc = "listing"
    /\ LET items == playlists[tick.playlist]
       IN  IF InListing(items, last_known)
           THEN /\ tick' = [tick EXCEPT !.pc = "deleting",
                                        !.position = ListingIndex(items, last_known)]
                /\ UNCHANGED last_known
           ELSE FinishTick(tick.current)
    /\ UNCHANGED <<entries, config, spotify, approvals, history, upsets>>

\* Mutant: an error status does not raise.
SpotifyDeleteUnraised ==
    /\ tick.pc = "deleting"
    /\ LET items == playlists[tick.playlist]
       IN  IF CanDeleteAt(items, tick.position, last_known)
           THEN playlists' = [playlists EXCEPT ![tick.playlist] =
                                 DeleteItem(items, tick.position)]
           ELSE UNCHANGED playlists
    /\ tick' = [tick EXCEPT !.pc = "deleted"]
    /\ UNCHANGED <<entries, config, last_known, playing, repeat, approvals, history, upsets>>

\* Spotify handles the DELETE; a position that holds another track is refused,
\* the tick raises, and last_known_uri stays.
SpotifyDelete ==
    /\ tick.pc = "deleting"
    /\ LET items == playlists[tick.playlist]
       IN  IF CanDeleteAt(items, tick.position, last_known)
           THEN /\ playlists' = [playlists EXCEPT ![tick.playlist] =
                                    DeleteItem(items, tick.position)]
                /\ tick' = [tick EXCEPT !.pc = "deleted"]
           ELSE tick' = Sleeping /\ UNCHANGED playlists
    /\ UNCHANGED <<entries, config, last_known, playing, repeat, approvals, history, upsets>>

RecordRemoval ==
    /\ tick.pc = "deleted"
    /\ entries' = MarkRemoved(entries, tick.entry)
    /\ FinishTick(tick.current)
    /\ UNCHANGED <<config, spotify, approvals, history, upsets>>

\* Mutant: the track of a tick that raised is remembered all the same.
TickFailsForward ==
    /\ tick.pc # "sleeping"
    /\ upsets < MaxUpsets
    /\ upsets' = upsets + 1
    /\ FinishTick(playing)
    /\ UNCHANGED <<entries, config, spotify, approvals, history>>

\* A call raises or its answer is lost: poll_forever logs it and sleeps.
TickFails ==
    /\ tick.pc # "sleeping"
    /\ upsets < MaxUpsets
    /\ upsets' = upsets + 1
    /\ tick' = Sleeping
    /\ UNCHANGED <<entries, config, last_known, spotify, approvals, history>>

-----------------------------------------------------------------------------
(* Approvals.                                                              *)

\* approve_request up to its first await.
ApprovalStarts(w, uri) ==
    /\ approvals[w].pc = "idle"
    /\ config.playlist # NoPlaylist
    /\ approvals' = [approvals EXCEPT ![w] =
           [pc |-> "listing", uri |-> uri, playlist |-> config.playlist, insertion |-> 0]]
    /\ UNCHANGED <<entries, config, tick, last_known, spotify, history, upsets>>

\* The listing: a track that is in the playlist is refused.
ApprovalLists(w) ==
    /\ approvals[w].pc = "listing"
    /\ approvals' = [approvals EXCEPT ![w] =
           IF InListing(playlists[@.playlist], @.uri) THEN NoApproval
                                                      ELSE [@ EXCEPT !.pc = "cleared"]]
    /\ UNCHANGED <<entries, config, tick, last_known, spotify, history, upsets>>

\* After the answer to get_now_playing, which only moves the position, the POST
\* lands; it may do so when nobody waits for its answer any more.
ApprovalPosts(w) ==
    /\ approvals[w].pc \in {"cleared", "abandoned"}
    /\ Len(inserted) < MaxInsertions
    /\ LET p == approvals[w].playlist
           item == [uri |-> approvals[w].uri, owner |-> Len(inserted) + 1]
       IN  \E position \in LeastAhead .. Len(playlists[p]) :
              playlists' = [playlists EXCEPT ![p] = InsertItem(@, position, item)]
    /\ inserted' = Append(inserted, approvals[w].uri)
    /\ approvals' = [approvals EXCEPT ![w] =
           IF @.pc = "abandoned" THEN NoApproval
           ELSE [@ EXCEPT !.pc = "inserted", !.insertion = Len(inserted) + 1]]
    /\ NoteDoubles
    /\ UNCHANGED <<entries, config, tick, last_known, playing, repeat, upsets>>

ApprovalRecords(w) ==
    /\ approvals[w].pc = "inserted"
    /\ LET n == approvals[w].insertion
       IN  entries' = CreateEntry(entries, approvals[w].uri, n, n)
    /\ approvals' = [approvals EXCEPT ![w] = NoApproval]
    /\ UNCHANGED <<config, tick, last_known, spotify, history, upsets>>

\* What is left of an approval that is given up: its POST, if it is on its way.
GivenUp(approval) ==
    IF approval.pc \in {"cleared", "abandoned"} THEN [approval EXCEPT !.pc = "abandoned"]
                                                ELSE NoApproval

\* What is playing is not in the listing; or a POST nobody waits for never arrives.
ApprovalStops(w) ==
    /\ approvals[w].pc \in {"cleared", "abandoned"}
    /\ approvals' = [approvals EXCEPT ![w] = NoApproval]
    /\ UNCHANGED <<entries, config, tick, last_known, spotify, history, upsets>>

\* A call raises, or its answer is lost.
ApprovalFails(w) ==
    /\ approvals[w].pc \in {"listing", "cleared", "inserted"}
    /\ upsets < MaxUpsets
    /\ upsets' = upsets + 1
    /\ approvals' = [approvals EXCEPT ![w] = GivenUp(@)]
    /\ UNCHANGED <<entries, config, tick, last_known, spotify, history>>

\* The process restarts: the tick, last_known_uri and every approval are gone.
Crash ==
    /\ upsets < MaxUpsets
    /\ upsets' = upsets + 1
    /\ tick' = Sleeping
    /\ last_known' = NoTrack
    /\ approvals' = [w \in Approvers |-> GivenUp(approvals[w])]
    /\ UNCHANGED <<entries, config, spotify, history>>

-----------------------------------------------------------------------------
(* Settings, playback and the venue's own edits.                           *)

UpdateConfig ==
    /\ upsets < MaxUpsets
    /\ upsets' = upsets + 1
    /\ \E choice \in ConfigChoices : choice # config /\ config' = choice
    /\ UNCHANGED <<entries, tick, last_known, spotify, approvals, history>>

ChangePlayback ==
    /\ \E track \in Tracks \cup {NoTrack} : track # playing /\ playing' = track
    /\ UNCHANGED <<entries, config, tick, last_known, playlists, repeat, approvals, history,
                   upsets>>

\* A track is added, taken out, or stops being available.
EditPlaylist(p) ==
    /\ upsets < MaxUpsets
    /\ upsets' = upsets + 1
    /\ \/ /\ "add" \in EditKinds
          /\ \E position \in 0 .. Len(playlists[p]), track \in Tracks :
                playlists' = [playlists EXCEPT ![p] =
                                 InsertItem(@, position, [uri |-> track, owner |-> 0])]
       \/ /\ "remove" \in EditKinds
          /\ \E position \in 0 .. Len(playlists[p]) - 1 :
                playlists' = [playlists EXCEPT ![p] = DeleteItem(@, position)]
       \/ /\ "unavailable" \in EditKinds
          /\ \E i \in DOMAIN playlists[p] :
                playlists' = [playlists EXCEPT ![p][i].uri = Unavailable]
    /\ NoteDoubles
    /\ UNCHANGED <<entries, config, tick, last_known, playing, repeat, approvals, inserted>>

-----------------------------------------------------------------------------

TickStep == StartTick \/ SetRepeat \/ ReadNowPlaying \/ ListPlaylist \/ SpotifyDelete
            \/ RecordRemoval

ApproverStep(w) ==
    \/ \E uri \in Requested : ApprovalStarts(w, uri)
    \/ ApprovalLists(w)
    \/ ApprovalPosts(w)
    \/ ApprovalRecords(w)
    \/ ApprovalStops(w)
    \/ ApprovalFails(w)

Next ==
    \/ TickStep
    \/ TickFails
    \/ RepeatRefused
    \/ \E w \in Approvers : ApproverStep(w)
    \/ Crash
    \/ UpdateConfig
    \/ ChangePlayback
    \/ \E p \in Playlists : EditPlaylist(p)

Spec == Init /\ [][Next]_vars

\* poll_forever never stops, and every call of a tick returns or raises.
FairSpec == Spec /\ WF_vars(TickStep)

-----------------------------------------------------------------------------
(* Properties.                                                             *)

Insertions == 1 .. Len(inserted)

EntryType == [uri : Tracks, request_id : Insertions, ticket : Insertions,
              played : BOOLEAN, removed : BOOLEAN]

TickType == [pc : {"sleeping", "repeating", "reading", "listing", "deleting", "deleted"},
             playlist : Playlists \cup {NoPlaylist}, repeat : BOOLEAN,
             current : Tracks \cup {NoTrack}, entry : Nat, position : Int]

ApprovalType ==
    {NoApproval}
    \cup [pc : {"listing", "cleared", "abandoned"}, uri : Tracks, playlist : Playlists,
          insertion : {0}]
    \cup [pc : {"inserted"}, uri : Tracks, playlist : Playlists, insertion : Insertions]

\* The state keeps its shape; a tick that is past the now-playing answer has a
\* playlist, an entry, and the track that is over.
TypeOK ==
    /\ entries \in Seq(EntryType)
    /\ config \in ConfigChoices
    /\ tick \in TickType
    /\ tick.pc \in {"listing", "deleting", "deleted"} =>
          /\ tick.playlist \in Playlists
          /\ tick.entry \in DOMAIN entries
          /\ entries[tick.entry].uri = last_known
    /\ last_known \in Tracks \cup {NoTrack}
    /\ playlists \in [Playlists -> Seq(Items)]
    /\ playing \in Tracks \cup {NoTrack}
    /\ repeat \in BOOLEAN
    /\ approvals \in [Approvers -> ApprovalType]
    /\ inserted \in Seq(Tracks)
    /\ doubled \subseteq Tracks
    /\ upsets \in Nat

WorkerDeletes == tick.pc = "deleting" /\ tick'.pc = "deleted"

\* The worker takes nothing but a track of which the program has an insertion on
\* record that is played and not removed yet.  It cannot tell such an insertion from
\* a copy that the venue has in the playlist it lists: SPEC.md's promise for the
\* tracks that were there before is kept for each track, not for each item.
DeletesOnlyOnRecord ==
    [][WorkerDeletes =>
          \E e \in DOMAIN entries :
              /\ entries[e].uri = playlists[tick.playlist][tick.position + 1].uri
              /\ entries[e].played /\ ~entries[e].removed]_vars

InPlaylist(n) ==
    \E p \in Playlists : \E i \in DOMAIN playlists[p] :
        playlists[p][i].owner = n /\ playlists[p][i].uri # Unavailable

\* An entry is marked removed only when its own insertion plays in no playlist any
\* more, whatever moved between the listing and the deletion, and whichever playlist
\* was listed - as long as the playlists never had two copies of its track at a time.
RemovedMeansGone ==
    \A e \in DOMAIN entries :
        entries[e].removed /\ entries[e].uri \notin doubled => ~InPlaylist(entries[e].ticket)

\* Between two ticks: the track of the last one is over, and the program inserted it.
CleanupDue(e, p) ==
    /\ tick.pc = "sleeping"
    /\ config.playlist = p
    /\ IsActiveEntryFor(entries, last_known, e)
    /\ playing # last_known

\* What ends a cleanup that is due: it is done, or a newer insertion has taken its
\* place, or there is nothing left to do, or it is off.
CleanupSettled(e, p, uri) ==
    \/ ~IsActiveEntryFor(entries, uri, e)
    \/ ~InListing(playlists[p], uri)
    \/ playing = uri
    \/ config.playlist # p

\* The two ways in which the code loses a cleanup that is due: a restart, and an
\* unavailable item in the playlist, which makes the position wrong.
CleanupLost(p) ==
    \/ last_known = NoTrack
    \/ \E i \in DOMAIN playlists[p] : playlists[p][i].uri = Unavailable

\* A cleanup that is due is made, though ticks fail and the playlist moves under
\* them, unless the process restarts or an item of the playlist is unavailable.
CleanupHappens ==
    \A e \in 1 .. MaxInsertions, p \in Playlists, uri \in Requested :
        CleanupDue(e, p) /\ last_known = uri ~> CleanupSettled(e, p, uri) \/ CleanupLost(p)

\* The player ends up in the repeat mode the admin chose, if it keeps a device.
RepeatFollowsConfig ==
    \A choice \in BOOLEAN :
        <>[](config.repeat = choice /\ playing # NoTrack) => <>[](repeat = choice)
=============================================================================
