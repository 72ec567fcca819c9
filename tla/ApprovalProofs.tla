--------------------------- MODULE ApprovalProofs ---------------------------
(***************************************************************************)
(* What holds of Approval for every set of tracks, approvers, playlists,   *)
(* settings and bounds.                                                    *)
(***************************************************************************)
EXTENDS Approval, SpotifyPlaylistProofs

-----------------------------------------------------------------------------
(* The position of an insertion.                                           *)

\* A position computed from a listing is an integer.
LEMMA InsertPositionType ==
    ASSUME NEW items \in Seq(Items), NEW track, NEW ahead \in Int
    PROVE  InsertPosition(items, track, ahead) \in Int
BY ListingNumbers DEF InsertPosition

-----------------------------------------------------------------------------
(* Type correctness.                                                       *)

LEMMA NoTaskType == NoTask \in TaskType /\ NoTask.pc = "idle"
<1>1. <<>> \in Seq(Items)
  OBVIOUS
<1> QED BY <1>1 DEF NoTask, TaskType

\* A new submission leaves every ticket issued before it a ticket.
LEMMA SubmissionsGrow ==
    ASSUME TypeOK, NEW uri \in Tracks, submissions' = Append(submissions, uri)
    PROVE  /\ submissions' \in Seq(Tracks)
           /\ Tickets \subseteq Tickets'
           /\ Len(submissions) + 1 \in Tickets'
           /\ \A t \in Tickets : submissions'[t] = submissions[t]
           /\ submissions'[Len(submissions) + 1] = uri
           /\ Len(submissions) \in Nat /\ Tickets \subseteq Nat
BY AppendProperties, LenProperties DEF TypeOK, Tickets

\* What an approver that dies leaves under way is a POST.
LEMMA InFlightType ==
    ASSUME TypeOK, NEW ws \in SUBSET Approvers
    PROVE  InFlight(ws) \subseteq PostType
<1>1. ASSUME NEW w \in ws, tasks[w].pc = "inserting"
      PROVE  [attempt |-> <<faults, w>>, playlist |-> tasks[w].playlist, uri |-> tasks[w].uri,
              ticket |-> tasks[w].ticket, position |-> tasks[w].position] \in PostType
  <2>1. tasks[w] \in TaskType /\ ~Idle(w)
    BY <1>1 DEF TypeOK, Idle
  <2> QED BY <1>1, <2>1 DEF TypeOK, PostType, TaskType
<1> QED BY <1>1 DEF InFlight

\* The tasks have their types.
TasksTyped ==
    /\ tasks \in [Approvers -> TaskType]
    /\ \A w \in Approvers : ~Idle(w) => /\ tasks[w].ticket \in Tickets
                                        /\ tasks[w].uri \in Tracks
                                        /\ tasks[w].playlist \in Playlists

\* Moving one approval on to another state of the same request, or ending it.
LEMMA TaskMoves ==
    ASSUME TypeOK, UNCHANGED submissions, NEW w \in Approvers, NEW task \in TaskType,
           tasks' = [tasks EXCEPT ![w] = task],
           task.pc = "idle" \/ (/\ ~Idle(w) /\ task.ticket = tasks[w].ticket
                                /\ task.uri = tasks[w].uri
                                /\ task.playlist = tasks[w].playlist)
    PROVE  TasksTyped'
<1>1. Tickets' = Tickets
  BY DEF Tickets
<1>2. tasks' \in [Approvers -> TaskType]
  BY DEF TypeOK
<1>3. ASSUME NEW v \in Approvers, ~Idle(v)'
      PROVE  tasks'[v].ticket \in Tickets /\ tasks'[v].uri \in Tracks
             /\ tasks'[v].playlist \in Playlists
  <2>1. CASE v = w
    BY <1>3, <2>1 DEF TypeOK, Idle
  <2>2. CASE v # w
    BY <1>3, <2>2 DEF TypeOK, Idle
  <2> QED BY <2>1, <2>2
<1> QED BY <1>1, <1>2, <1>3 DEF TasksTyped

LEMMA TaskFinishes ==
    ASSUME TypeOK, UNCHANGED submissions, NEW w \in Approvers, Finish(w)
    PROVE  TasksTyped'
BY NoTaskType, TaskMoves DEF Finish

\* The history of the overlaps names playlists and tracks.
LEMMA EntersType ==
    ASSUME TypeOK, NEW p \in Playlists, NEW uri \in Tracks, NEW others,
           EntersBeside(p, uri, others)
    PROVE  contested' \subseteq Playlists \X Tracks
BY DEF EntersBeside, TypeOK

\* The initial state has the shape.
THEOREM InitTypeOK == Init => TypeOK
<1> SUFFICES ASSUME Init PROVE TypeOK
  OBVIOUS
<1>1. submissions \in Seq(Tracks) /\ entries \in Seq(EntryType)
  BY DEF Init
<1>2. playlists \in [Playlists -> Seq(Items)]
  <2>1. \A p \in Playlists : Backbone[p] \in Seq(Tracks)
    BY ApprovalAssumption
  <2> QED BY <2>1, VenuePlaylistType DEF Init
<1>3. tasks \in [Approvers -> TaskType] /\ \A w \in Approvers : Idle(w)
  BY NoTaskType DEF Init, Idle
<1>4. requests \in [DOMAIN requests -> RowType] /\ DOMAIN requests \subseteq Tickets
  BY DEF Init
<1> QED BY <1>1, <1>2, <1>3, <1>4 DEF Init, TypeOK

\* Each step keeps the shape of the state.
LEMMA StepTypeOK == TypeOK /\ [Next]_vars => TypeOK'
<1> SUFFICES ASSUME TypeOK, [Next]_vars PROVE TypeOK'
  OBVIOUS
<1>1. ASSUME NEW uri \in Tracks, CreateRequest(uri) PROVE TypeOK'
  <2>1. /\ submissions' \in Seq(Tracks) /\ Tickets \subseteq Tickets'
        /\ Len(submissions) + 1 \in Tickets'
        /\ Len(submissions) \in Nat
    BY <1>1, SubmissionsGrow DEF CreateRequest
  <2>2. requests' \in [DOMAIN requests' -> RowType'] /\ DOMAIN requests' \subseteq Tickets'
    <3>1. PICK id \in 1 .. Len(submissions) + 1 :
             requests' = InsertRequest(requests, id, uri, Len(submissions) + 1)
      BY <1>1 DEF CreateRequest
    <3>2. id \in Tickets'
      BY <1>1, <2>1, AppendProperties DEF CreateRequest, Tickets, TypeOK
    <3> QED BY <2>1, <3>1, <3>2 DEF InsertRequest, InsertRow, RowType, Statuses, TypeOK
  <2>3. entries' \in Seq(EntryType')
    <3>1. EntryType \subseteq EntryType'
      BY <2>1 DEF EntryType
    <3> QED BY <1>1, <3>1, SeqMonotonic DEF CreateRequest, TypeOK
  <2>4. audit' \subseteq DecisionType' /\ late' \subseteq PostType' /\ applied' \subseteq Tickets'
    BY <1>1, <2>1 DEF CreateRequest, TypeOK, DecisionType, PostType
  <2>5. \A w \in Approvers : ~Idle(w)' => /\ tasks'[w].ticket \in Tickets'
                                          /\ tasks'[w].uri \in Tracks
                                          /\ tasks'[w].playlist \in Playlists
    BY <1>1, <2>1 DEF CreateRequest, TypeOK, Idle
  <2> QED BY <1>1, <2>1, <2>2, <2>3, <2>4, <2>5 DEF CreateRequest, TypeOK, spotify
<1>2. ASSUME UNCHANGED submissions
      PROVE  /\ Tickets' = Tickets /\ RowType' = RowType /\ EntryType' = EntryType
             /\ DecisionType' = DecisionType /\ PostType' = PostType
  BY <1>2 DEF Tickets, RowType, EntryType, DecisionType, PostType
<1>3. ASSUME NEW w \in Approvers, NEW id \in DOMAIN requests, StartApprove(w, id) PROVE TypeOK'
  <2>1. requests[id] \in RowType
    BY DEF TypeOK
  <2>2. config.playlist \in Playlists /\ config.ahead \in Int
    BY <1>3, ApprovalAssumption DEF TypeOK, ConfigChoices, StartApprove
  <2>3. /\ tasks'[w] \in TaskType /\ tasks'[w].ticket \in Tickets
        /\ tasks'[w].uri \in Tracks /\ tasks'[w].playlist \in Playlists
    <3>1. Tickets \subseteq Nat /\ id \in Nat
      BY DEF TypeOK, Tickets
    <3>2. tasks'[w] = [NoTask EXCEPT !.pc = "listing", !.id = id,
                                     !.uri = requests[id].uri, !.ticket = requests[id].ticket,
                                     !.playlist = config.playlist, !.ahead = config.ahead]
      BY <1>3 DEF StartApprove, TypeOK
    <3> QED BY <2>1, <2>2, <3>1, <3>2, NoTaskType DEF RowType, TaskType, NoTask
  <2> QED BY <1>2, <1>3, <2>3
          DEF StartApprove, TypeOK, Idle, database, spotify, history
<1>4. ASSUME NEW w \in Approvers, ListPlaylist(w) PROVE TypeOK'
  <2>1. tasks[w] \in TaskType /\ playlists[tasks[w].playlist] \in Seq(Items)
    BY <1>4 DEF TypeOK, ListPlaylist, Idle
  <2>2. TasksTyped'
    <3> DEFINE task == [tasks[w] EXCEPT !.pc = "locating",
                                        !.listed = playlists[tasks[w].playlist]]
    <3>1. CASE Finish(w)
      BY <1>4, <3>1, TaskFinishes DEF ListPlaylist, history
    <3>2. CASE tasks' = [tasks EXCEPT ![w] = task]
      <4>1. /\ task \in TaskType /\ task.ticket = tasks[w].ticket /\ task.uri = tasks[w].uri
            /\ task.playlist = tasks[w].playlist
        BY <2>1 DEF TaskType
      <4> HIDE DEF task
      <4> QED BY <1>4, <3>2, <4>1, TaskMoves DEF ListPlaylist, Idle, history
    <3> QED BY <1>4, <3>1, <3>2 DEF ListPlaylist, TypeOK
  <2> QED BY <1>2, <1>4, <2>2
          DEF ListPlaylist, TasksTyped, TypeOK, database, spotify, history
<1>5. ASSUME NEW w \in Approvers, LocatePlayback(w) PROVE TypeOK'
  <2>1. tasks[w] \in TaskType
    BY DEF TypeOK
  <2>2. InsertPosition(tasks[w].listed, playing, tasks[w].ahead) \in Int
    BY <2>1, InsertPositionType DEF TaskType
  <2>3. TasksTyped'
    <3> DEFINE task == [tasks[w] EXCEPT !.pc = "inserting",
                          !.position =
                              InsertPosition(tasks[w].listed, playing, tasks[w].ahead)]
    <3>1. CASE Finish(w)
      BY <1>5, <3>1, TaskFinishes DEF LocatePlayback, history
    <3>2. CASE tasks' = [tasks EXCEPT ![w] = task]
      <4>1. /\ task \in TaskType /\ task.ticket = tasks[w].ticket /\ task.uri = tasks[w].uri
            /\ task.playlist = tasks[w].playlist
        BY <2>1, <2>2 DEF TaskType, TypeOK
      <4> HIDE DEF task
      <4> QED BY <1>5, <3>2, <4>1, TaskMoves DEF LocatePlayback, Idle, history
    <3> QED BY <1>5, <3>1, <3>2 DEF LocatePlayback, TypeOK
  <2> QED BY <1>2, <1>5, <2>3
          DEF LocatePlayback, TasksTyped, TypeOK, database, spotify, history
<1>6. ASSUME NEW w \in Approvers, SpotifyInsert(w) PROVE TypeOK'
  <2> DEFINE p == tasks[w].playlist
             item == [uri |-> tasks[w].uri, owner |-> tasks[w].ticket]
  <2>1. tasks[w] \in TaskType /\ tasks[w].ticket \in Tickets /\ tasks[w].uri \in Tracks
        /\ p \in Playlists /\ playlists[p] \in Seq(Items)
    BY <1>6 DEF TypeOK, SpotifyInsert, Idle
  <2>2. CASE CanInsertAt(playlists[p], tasks[w].position)
    <3>1. InsertItem(playlists[p], tasks[w].position, item) \in Seq(Items)
      <4>1. item \in Items
        BY <2>1 DEF Items, Owners, TaskType
      <4> QED BY <2>1, <2>2, <4>1, InsertItemPositions DEF CanInsertAt
    <3>2. TasksTyped'
      <4> DEFINE task == [tasks[w] EXCEPT !.pc = "inserted"]
      <4>1. /\ task \in TaskType /\ task.ticket = tasks[w].ticket /\ task.uri = tasks[w].uri
            /\ task.playlist = tasks[w].playlist
        BY <2>1 DEF TaskType
      <4>2. tasks' = [tasks EXCEPT ![w] = task]
        BY <1>6, <2>2 DEF SpotifyInsert, TypeOK
      <4> HIDE DEF task
      <4> QED BY <1>6, <4>1, <4>2, TaskMoves DEF SpotifyInsert, Idle
    <3>3. contested' \subseteq Playlists \X Tracks
      BY <1>6, <2>1, <2>2, EntersType DEF SpotifyInsert, TypeOK
    <3> QED BY <1>2, <1>6, <2>1, <2>2, <3>1, <3>2, <3>3
            DEF SpotifyInsert, TasksTyped, TypeOK, database
  <2>3. CASE ~CanInsertAt(playlists[p], tasks[w].position)
    BY <1>2, <1>6, <2>3, TaskFinishes DEF SpotifyInsert, TasksTyped, TypeOK, database
  <2> QED BY <2>2, <2>3
<1>7. ASSUME NEW w \in Approvers, tasks[w].pc = "inserted", EntryWritten(w)
      PROVE  entries' \in Seq(EntryType)
  <2>1. NewEntry(tasks[w].uri, tasks[w].id, tasks[w].ticket) \in EntryType
    BY <1>7 DEF TypeOK, NewEntry, EntryType, Idle, TaskType
  <2> QED BY <1>7, <2>1, AppendProperties DEF EntryWritten, CreateEntry, TypeOK
<1>8. ASSUME NEW id PROVE MarkRequestAdded(requests, id) \in [DOMAIN requests -> RowType]
  BY DEF TypeOK, MarkRequestAdded, RowType, Statuses
<1>9. ASSUME NEW w \in Approvers, RecordInsertion(w) PROVE TypeOK'
  <2>1. entries' \in Seq(EntryType) /\ requests' \in [DOMAIN requests -> RowType]
    BY <1>7, <1>8, <1>9 DEF RecordInsertion
  <2>2. audit' \subseteq DecisionType
    BY <1>9 DEF RecordInsertion, TypeOK, DecisionType, Idle
  <2> QED BY <1>2, <1>9, <2>1, <2>2, TaskFinishes
          DEF RecordInsertion, TasksTyped, TypeOK, spotify, history
<1>10. ASSUME NEW id PROVE DeleteRequest(requests, id) \in [DOMAIN requests \ {id} -> RowType]
  BY DEF TypeOK, DeleteRequest
<1>11. ASSUME NEW id \in DOMAIN requests, DenyRequest(id) PROVE TypeOK'
  <2>1. audit' \subseteq DecisionType
    BY <1>11 DEF DenyRequest, TypeOK, DecisionType, RowType
  <2> QED BY <1>2, <1>10, <1>11, <2>1 DEF DenyRequest, TypeOK, Idle, spotify, history
<1>12. ASSUME NEW w \in Approvers, CallFails(w) PROVE TypeOK'
  <2>1. late' \subseteq PostType
    BY <1>12, InFlightType DEF CallFails, TypeOK
  <2>2. TasksTyped'
    BY <1>12, TaskFinishes DEF CallFails, history
  <2>3. faults' \in Nat
    BY <1>12 DEF CallFails, TypeOK
  <2> QED BY <1>2, <1>12, <2>1, <2>2, <2>3
          DEF CallFails, TasksTyped, TypeOK, database, spotify, history
<1>13. ASSUME NEW post \in late, LateInsert(post) PROVE TypeOK'
  <2>1. post \in PostType /\ playlists[post.playlist] \in Seq(Items)
    BY DEF TypeOK, PostType
  <2>2. InsertItem(playlists[post.playlist], post.position,
                   [uri |-> post.uri, owner |-> post.ticket]) \in Seq(Items)
    <3>1. [uri |-> post.uri, owner |-> post.ticket] \in Items
      BY <2>1 DEF Items, Owners, PostType, Tickets
    <3> QED BY <1>13, <2>1, <3>1, InsertItemPositions DEF LateInsert, CanInsertAt
  <2>3. contested' \subseteq Playlists \X Tracks
    BY <1>13, <2>1, EntersType DEF LateInsert, TypeOK, PostType
  <2> QED BY <1>2, <1>13, <2>1, <2>2, <2>3 DEF LateInsert, TypeOK, Idle, PostType, database
<1>14. ASSUME Dies,
              requests' \in [DOMAIN requests' -> RowType], DOMAIN requests' \subseteq Tickets,
              entries' \in Seq(EntryType), UNCHANGED audit
       PROVE  TypeOK'
  <2>1. late' \subseteq PostType
    BY <1>14, InFlightType DEF Dies, TypeOK
  <2> QED BY <1>2, <1>14, <2>1, NoTaskType DEF Dies, TypeOK, Idle, spotify, history
<1>15. CASE Crash
  BY <1>14, <1>15 DEF Crash, database, TypeOK
<1>16. ASSUME NEW w \in Approvers, CrashRecording(w) PROVE TypeOK'
  BY <1>7, <1>8, <1>14, <1>16 DEF CrashRecording, TypeOK
<1>17. ASSUME NEW id \in DOMAIN requests, CrashDenying(id) PROVE TypeOK'
  BY <1>10, <1>14, <1>17 DEF CrashDenying, TypeOK
<1>18. CASE UpdateConfig
  BY <1>2, <1>18 DEF UpdateConfig, TypeOK, Idle, database, spotify, history
<1>19. CASE ChangePlayback
  BY <1>2, <1>19 DEF ChangePlayback, TypeOK, Idle, database, history
<1>20. ASSUME NEW p \in Playlists, EditPlaylist(p) PROVE TypeOK'
  <2>1. playlists[p] \in Seq(Items)
    BY DEF TypeOK
  <2>2. playlists' \in [Playlists -> Seq(Items)]
    <3>1. ASSUME NEW position \in 0 .. Len(playlists[p]), NEW track \in Tracks
          PROVE  InsertItem(playlists[p], position, [uri |-> track, owner |-> 0]) \in Seq(Items)
      BY <2>1, InsertItemPositions DEF Items, Owners
    <3>2. ASSUME NEW position \in 0 .. Len(playlists[p]) - 1
          PROVE  DeleteItem(playlists[p], position) \in Seq(Items)
      BY <2>1, DeleteItemPositions
    <3>3. ASSUME NEW i \in DOMAIN playlists[p]
          PROVE  [playlists[p] EXCEPT ![i].uri = Unavailable] \in Seq(Items)
      <4>1. i \in 1 .. Len(playlists[p]) /\ playlists[p][i] \in Items
        BY <2>1, LenProperties, ElementOfSeq
      <4>2. [playlists[p][i] EXCEPT !.uri = Unavailable] \in Items
        BY <4>1 DEF Items
      <4>3. [playlists[p] EXCEPT ![i].uri = Unavailable]
              = [playlists[p] EXCEPT ![i] = [playlists[p][i] EXCEPT !.uri = Unavailable]]
        OBVIOUS
      <4> QED BY <2>1, <4>1, <4>2, <4>3, ExceptSeq
    <3> QED BY <1>20, <3>1, <3>2, <3>3 DEF EditPlaylist, TypeOK
  <2>3. contested' \subseteq Playlists \X Tracks
    BY <1>20, EntersType DEF EditPlaylist, TypeOK
  <2> QED BY <1>2, <1>20, <2>2, <2>3 DEF EditPlaylist, TypeOK, Idle, database
<1>21. CASE UNCHANGED vars
  BY <1>2, <1>21 DEF vars, TypeOK, Idle, database, spotify, history
<1> QED BY <1>1, <1>3, <1>4, <1>5, <1>6, <1>9, <1>11, <1>12, <1>13, <1>15, <1>16, <1>17,
           <1>18, <1>19, <1>20, <1>21 DEF Next, ApproverStep, CallStep

\* In every reachable state an approval under way has a request and a playlist.
THEOREM TypeCorrect == Spec => []TypeOK
BY InitTypeOK, StepTypeOK, PTL DEF Spec

-----------------------------------------------------------------------------
(* How a step changes each part of the state.                              *)

RowInserted(uri, id) ==
    /\ id \in Nat /\ id \notin DOMAIN requests
    /\ ~HasPendingDuplicate(requests, uri)
    /\ requests' = InsertRequest(requests, id, uri, Len(submissions) + 1)
    /\ submissions' = Append(submissions, uri)
    /\ UNCHANGED <<entries, audit, tasks, late, applied>>

RowMarked(w) ==
    /\ tasks[w].pc = "inserted"
    /\ requests' = MarkRequestAdded(requests, tasks[w].id)
    /\ EntryWritten(w)
    /\ UNCHANGED submissions

RowDeleted(id) ==
    /\ IsPending(requests, id)
    /\ requests' = DeleteRequest(requests, id)
    /\ UNCHANGED <<submissions, entries>>

\* The request list changes in three ways: a fresh row, a row marked along with
\* its entry, a pending row deleted.
LEMMA RequestsChange ==
    ASSUME TypeOK, [Next]_vars
    PROVE  \/ \E uri \in Tracks, id \in Nat : RowInserted(uri, id)
           \/ \E w \in Approvers : RowMarked(w)
           \/ \E id \in DOMAIN requests : RowDeleted(id)
           \/ UNCHANGED <<requests, submissions>>
<1>1. ASSUME NEW uri \in Tracks, CreateRequest(uri)
      PROVE  \E id \in Nat : RowInserted(uri, id)
  <2>1. PICK id \in 1 .. Len(submissions) + 1 :
           /\ IsNextRowid(requests, id)
           /\ requests' = InsertRequest(requests, id, uri, Len(submissions) + 1)
    BY <1>1 DEF CreateRequest
  <2>2. id \in Nat /\ id \notin DOMAIN requests
    BY <2>1, LenProperties DEF IsNextRowid, TypeOK, Tickets
  <2> QED BY <1>1, <2>1, <2>2 DEF CreateRequest, RowInserted
<1>2. ASSUME NEW w \in Approvers, ApproverStep(w)
      PROVE  RowMarked(w) \/ UNCHANGED <<requests, submissions>>
  BY <1>2 DEF ApproverStep, CallStep, StartApprove, ListPlaylist, LocatePlayback, SpotifyInsert,
              RecordInsertion, CallFails, CrashRecording, Dies, RowMarked, database, history
<1>3. ASSUME NEW id \in DOMAIN requests, DenyRequest(id) \/ CrashDenying(id)
      PROVE  RowDeleted(id)
  BY <1>3 DEF DenyRequest, CrashDenying, Dies, RowDeleted, history
<1>4. ASSUME NEW post \in late, LateInsert(post) PROVE UNCHANGED <<requests, submissions>>
  BY <1>4 DEF LateInsert, database
<1>5. ASSUME NEW pl \in Playlists, EditPlaylist(pl) PROVE UNCHANGED <<requests, submissions>>
  BY <1>5 DEF EditPlaylist, database
<1>6. Crash \/ UpdateConfig \/ ChangePlayback \/ UNCHANGED vars
      => UNCHANGED <<requests, submissions>>
  BY DEF Crash, Dies, UpdateConfig, ChangePlayback, vars, database, history
<1> QED BY <1>1, <1>2, <1>3, <1>4, <1>5, <1>6 DEF Next

\* Entries are only appended, by an approval whose track was inserted.
LEMMA EntriesChange ==
    ASSUME TypeOK, [Next]_vars, entries' # entries
    PROVE  \E w \in Approvers : tasks[w].pc = "inserted" /\ EntryWritten(w)
<1>1. ASSUME NEW w \in Approvers, ApproverStep(w)
      PROVE  tasks[w].pc = "inserted" /\ EntryWritten(w)
  BY <1>1 DEF ApproverStep, CallStep, StartApprove, ListPlaylist, LocatePlayback, SpotifyInsert,
              RecordInsertion, CallFails, CrashRecording, database
<1>2. (~\E w \in Approvers : ApproverStep(w)) => entries' = entries
  BY DEF Next, CreateRequest, DenyRequest, CrashDenying, LateInsert, Crash, UpdateConfig,
         ChangePlayback, EditPlaylist, vars, database
<1> QED BY <1>1, <1>2

\* No insertion is ever unmade.
LEMMA AppliedGrows ==
    ASSUME TypeOK, [Next]_vars
    PROVE  applied \subseteq applied'
<1>1. ASSUME NEW w \in Approvers, ApproverStep(w) PROVE applied \subseteq applied'
  <2>1. CASE SpotifyInsert(w)
    BY <2>1 DEF SpotifyInsert
  <2>2. CASE ~SpotifyInsert(w)
    BY <1>1, <2>2 DEF ApproverStep, CallStep, StartApprove, ListPlaylist, LocatePlayback, RecordInsertion,
                      CallFails, CrashRecording, Dies, history
  <2> QED BY <2>1, <2>2
<1>2. ASSUME NEW post \in late, LateInsert(post) PROVE applied \subseteq applied'
  BY <1>2 DEF LateInsert
<1>3. CASE ~\E w \in Approvers : ApproverStep(w)
  BY <1>2, <1>3 DEF Next, CreateRequest, DenyRequest, CrashDenying, Crash, Dies, UpdateConfig,
                    ChangePlayback, EditPlaylist, vars, history
<1> QED BY <1>1, <1>3

\* An appended entry leaves the earlier ones where they are.
LEMMA EntryAppended ==
    ASSUME TypeOK, NEW w \in Approvers, tasks[w].pc = "inserted", EntryWritten(w)
    PROVE  /\ DOMAIN entries' = DOMAIN entries \cup {Len(entries) + 1}
           /\ \A e \in DOMAIN entries : entries'[e] = entries[e]
           /\ entries'[Len(entries) + 1] = NewEntry(tasks[w].uri, tasks[w].id, tasks[w].ticket)
           /\ Len(entries) + 1 \notin DOMAIN entries
<1> DEFINE new == NewEntry(tasks[w].uri, tasks[w].id, tasks[w].ticket)
<1>1. entries \in Seq(EntryType) /\ new \in EntryType
  BY DEF TypeOK, NewEntry, EntryType, Idle, TaskType
<1>2. entries' = Append(entries, new)
  BY DEF EntryWritten, CreateEntry
<1> HIDE DEF new
<1>3. entries' \in Seq(EntryType)
  BY <1>1, <1>2, AppendProperties
<1>4. /\ DOMAIN entries = 1 .. Len(entries) /\ Len(entries) \in Nat
      /\ DOMAIN entries' = 1 .. Len(entries')
  BY <1>1, <1>3, LenProperties
<1> QED BY <1>1, <1>2, <1>4, AppendProperties DEF new

\* An approval under way keeps the request it read, and gets past the insertion
\* only when Spotify inserted its track.
LEMMA TasksChange ==
    ASSUME TypeOK, [Next]_vars, NEW w \in Approvers, ~Idle(w)'
    PROVE  \/ /\ ~Idle(w) /\ tasks'[w].id = tasks[w].id
              /\ tasks'[w].uri = tasks[w].uri /\ tasks'[w].ticket = tasks[w].ticket
              /\ tasks'[w].pc = "inserted" => \/ tasks[w].pc = "inserted"
                                              \/ tasks[w].ticket \in applied'
           \/ /\ UNCHANGED <<submissions, requests>> /\ tasks'[w].pc # "inserted"
              /\ \E id \in DOMAIN requests : /\ tasks'[w].uri = requests[id].uri
                                             /\ tasks'[w].ticket = requests[id].ticket
                                             /\ tasks'[w].id = id
<1> DEFINE Kept == /\ ~Idle(w) /\ tasks'[w].id = tasks[w].id
                   /\ tasks'[w].uri = tasks[w].uri /\ tasks'[w].ticket = tasks[w].ticket
                   /\ tasks'[w].pc = "inserted" => \/ tasks[w].pc = "inserted"
                                                   \/ tasks[w].ticket \in applied'
<1>1. UNCHANGED tasks => Kept
  BY DEF Idle
<1>0. tasks[w] \in TaskType
  BY DEF TypeOK
<1>2. ASSUME NEW v \in Approvers, Finish(v) PROVE Kept
  BY <1>2 DEF Finish, Idle, NoTask, TypeOK
<1>3. ~Dies
  BY DEF Dies, Idle, NoTask
<1>4. ASSUME NEW v \in Approvers, NEW id \in DOMAIN requests, StartApprove(v, id), ~Kept
      PROVE  /\ UNCHANGED <<submissions, requests>> /\ tasks'[w].pc # "inserted"
             /\ tasks'[w].uri = requests[id].uri /\ tasks'[w].ticket = requests[id].ticket
             /\ tasks'[w].id = id
  BY <1>4 DEF StartApprove, Idle, NoTask, TypeOK, history, database
<1>5. ASSUME NEW v \in Approvers, ListPlaylist(v) PROVE Kept
  <2>1. CASE Finish(v)
    BY <1>2, <2>1
  <2>2. CASE ~Finish(v) /\ v = w
    BY <1>0, <1>5, <2>2 DEF ListPlaylist, Idle, TypeOK, TaskType
  <2>3. CASE ~Finish(v) /\ v # w
    BY <1>5, <2>3 DEF ListPlaylist, Idle, TypeOK
  <2> QED BY <2>1, <2>2, <2>3
<1>6. ASSUME NEW v \in Approvers, LocatePlayback(v) PROVE Kept
  <2>1. CASE Finish(v)
    BY <1>2, <2>1
  <2>2. CASE ~Finish(v) /\ v = w
    BY <1>0, <1>6, <2>2 DEF LocatePlayback, Idle, TypeOK, TaskType
  <2>3. CASE ~Finish(v) /\ v # w
    BY <1>6, <2>3 DEF LocatePlayback, Idle, TypeOK
  <2> QED BY <2>1, <2>2, <2>3
<1>7. ASSUME NEW v \in Approvers, SpotifyInsert(v) PROVE Kept
  <2>1. CASE Finish(v)
    BY <1>2, <2>1
  <2>0. ASSUME ~Finish(v)
        PROVE  /\ tasks[v].pc = "inserting" /\ tasks[v].ticket \in applied'
               /\ tasks' = [tasks EXCEPT ![v].pc = "inserted"]
    BY <1>7, <2>0 DEF SpotifyInsert
  <2>2. CASE ~Finish(v) /\ v = w
    BY <1>0, <2>0, <2>2 DEF Idle, TypeOK, TaskType
  <2>3. CASE ~Finish(v) /\ v # w
    BY <2>0, <2>3 DEF Idle, TypeOK
  <2> QED BY <2>1, <2>2, <2>3
<1>8. ASSUME NEW v \in Approvers, ApproverStep(v), ~Kept
      PROVE  \E id \in DOMAIN requests : StartApprove(v, id)
  BY <1>2, <1>3, <1>5, <1>6, <1>7, <1>8
     DEF ApproverStep, CallStep, RecordInsertion, CallFails, CrashRecording
<1>9. ASSUME ~Kept, UNCHANGED vars \/ ~\E v \in Approvers : ApproverStep(v) PROVE FALSE
  <2>1. UNCHANGED tasks
    BY <1>3, <1>9 DEF Next, CreateRequest, DenyRequest, CrashDenying, LateInsert, Crash,
                      UpdateConfig, ChangePlayback, EditPlaylist, vars
  <2> QED BY <1>1, <1>9, <2>1
<1> QED BY <1>4, <1>8, <1>9

-----------------------------------------------------------------------------
(* The inductive invariant.                                                *)

\* A row and an approval know the track that was submitted under their ticket,
\* two rows never share a ticket, only the row an approval works on has its ticket,
\* and what is past the insertion was inserted.
TicketsTrue ==
    /\ \A id \in DOMAIN requests : requests[id].uri = submissions[requests[id].ticket]
    /\ \A i, j \in DOMAIN requests : requests[i].ticket = requests[j].ticket => i = j
    /\ \A w \in Approvers : ~Idle(w) =>
          /\ tasks[w].uri = submissions[tasks[w].ticket]
          /\ tasks[w].pc = "inserted" => tasks[w].ticket \in applied
          /\ \A id \in DOMAIN requests :
                requests[id].ticket = tasks[w].ticket => id = tasks[w].id

IInv ==
    /\ TypeOK
    /\ TicketsTrue
    /\ OnePendingPerTrack
    /\ AddedHasEntry
    /\ EntryMeansInserted
    /\ AuditNeverAhead

\* Nothing is submitted, added or inserted at first.
THEOREM InitIInv == Init => IInv
<1> SUFFICES ASSUME Init PROVE IInv
  OBVIOUS
<1>1. DOMAIN requests = {} /\ DOMAIN entries = {} /\ audit = {} /\ \A w \in Approvers : Idle(w)
  BY NoTaskType DEF Init, Idle
<1> QED BY <1>1, InitTypeOK DEF IInv, TicketsTrue, OnePendingPerTrack, Pending, AddedHasEntry,
                                EntryMeansInserted, AuditNeverAhead

\* The tracks of the tickets issued so far stay what they are.
LEMMA SubmissionsKeep ==
    ASSUME TypeOK, [Next]_vars
    PROVE  /\ Tickets \subseteq Tickets'
           /\ \A t \in Tickets : submissions'[t] = submissions[t]
<1>1. CASE UNCHANGED submissions
  BY <1>1 DEF Tickets
<1>2. CASE \E uri \in Tracks, id \in Nat : RowInserted(uri, id)
  BY <1>2, SubmissionsGrow DEF RowInserted
<1> QED BY <1>1, <1>2, RequestsChange DEF RowMarked, RowDeleted

\* A row of the next state had its ticket before, or was just submitted.
LEMMA RowTickets ==
    ASSUME TypeOK, [Next]_vars, NEW id \in DOMAIN requests'
    PROVE  \/ id \in DOMAIN requests /\ requests'[id].ticket = requests[id].ticket
           \/ requests'[id].ticket = Len(submissions) + 1
<1>1. requests \in [DOMAIN requests -> RowType]
  BY DEF TypeOK
<1>2. CASE \E uri \in Tracks, new \in Nat : RowInserted(uri, new)
  BY <1>1, <1>2 DEF RowInserted, InsertRequest, InsertRow
<1>3. CASE \E w \in Approvers : RowMarked(w)
  BY <1>1, <1>3 DEF RowMarked, MarkRequestAdded, RowType
<1>4. CASE \E gone \in DOMAIN requests : RowDeleted(gone)
  BY <1>1, <1>4 DEF RowDeleted, DeleteRequest
<1>5. CASE UNCHANGED requests
  BY <1>1, <1>5
<1> QED BY <1>2, <1>3, <1>4, <1>5, RequestsChange

LEMMA TicketsStayTrue == IInv /\ [Next]_vars => TicketsTrue'
<1> SUFFICES ASSUME IInv, [Next]_vars PROVE TicketsTrue'
  OBVIOUS
<1> USE DEF IInv
<1>0. /\ requests \in [DOMAIN requests -> RowType]
      /\ \A id \in DOMAIN requests : requests[id] \in RowType
  BY DEF TypeOK
<1> DEFINE RowsTrue ==
              /\ \A id \in DOMAIN requests : requests[id].uri = submissions[requests[id].ticket]
              /\ \A i, j \in DOMAIN requests : requests[i].ticket = requests[j].ticket => i = j
<1>1. RowsTrue'
  <2>1. ASSUME NEW uri \in Tracks, NEW id \in Nat, RowInserted(uri, id) PROVE RowsTrue'
    <3>1. Len(submissions) + 1 \notin Tickets
      BY LenProperties DEF Tickets, TypeOK
    <3>2. /\ \A t \in Tickets : submissions'[t] = submissions[t]
          /\ submissions'[Len(submissions) + 1] = uri
      BY <2>1, SubmissionsGrow DEF RowInserted
    <3>3. /\ DOMAIN requests' = DOMAIN requests \cup {id} /\ id \notin DOMAIN requests
          /\ \A i \in DOMAIN requests : requests'[i] = requests[i]
          /\ requests'[id].uri = uri /\ requests'[id].ticket = Len(submissions) + 1
      BY <2>1 DEF RowInserted, InsertRequest, InsertRow
    <3>4. \A i \in DOMAIN requests : requests[i].ticket \in Tickets
      BY <1>0 DEF RowType
    <3> QED BY <3>1, <3>2, <3>3, <3>4 DEF TicketsTrue
  <2>2. ASSUME NEW w \in Approvers, RowMarked(w) PROVE RowsTrue'
    <3>1. /\ DOMAIN requests' = DOMAIN requests /\ submissions' = submissions
          /\ \A id \in DOMAIN requests : /\ requests'[id].uri = requests[id].uri
                                        /\ requests'[id].ticket = requests[id].ticket
      BY <1>0, <2>2 DEF RowMarked, MarkRequestAdded, RowType
    <3> QED BY <3>1 DEF TicketsTrue
  <2>3. ASSUME NEW id \in DOMAIN requests, RowDeleted(id) PROVE RowsTrue'
    BY <2>3 DEF RowDeleted, DeleteRequest, TicketsTrue
  <2>4. UNCHANGED <<requests, submissions>> => RowsTrue'
    BY DEF TicketsTrue
  <2> HIDE DEF RowsTrue
  <2> QED BY <2>1, <2>2, <2>3, <2>4, RequestsChange
<1>2. ASSUME NEW w \in Approvers, ~Idle(w)'
      PROVE  /\ tasks'[w].uri = submissions'[tasks'[w].ticket]
             /\ tasks'[w].pc = "inserted" => tasks'[w].ticket \in applied'
  <2>1. ~Idle(w) => tasks[w].ticket \in Tickets
    BY DEF TypeOK
  <2> QED BY <1>0, <1>2, <2>1, TasksChange, AppliedGrows, SubmissionsKeep
          DEF TicketsTrue, RowType, Idle
<1>3. ASSUME NEW w \in Approvers, ~Idle(w)', NEW id \in DOMAIN requests',
             requests'[id].ticket = tasks'[w].ticket
      PROVE  id = tasks'[w].id
  <2>1. CASE /\ ~Idle(w) /\ tasks'[w].id = tasks[w].id
             /\ tasks'[w].ticket = tasks[w].ticket
    <3>1. tasks[w].ticket \in Tickets /\ Len(submissions) + 1 \notin Tickets
      BY <2>1, LenProperties DEF TypeOK, Tickets
    <3> QED BY <1>3, <2>1, <3>1, RowTickets DEF TicketsTrue
  <2>2. CASE UNCHANGED requests /\ \E i \in DOMAIN requests : /\ tasks'[w].id = i
                                              /\ tasks'[w].ticket = requests[i].ticket
    BY <1>3, <2>2 DEF TicketsTrue
  <2> QED BY <1>3, <2>1, <2>2, TasksChange
<1> QED BY <1>1, <1>2, <1>3 DEF TicketsTrue

LEMMA StepOnePending == IInv /\ [Next]_vars => OnePendingPerTrack'
<1> SUFFICES ASSUME IInv, [Next]_vars PROVE OnePendingPerTrack'
  OBVIOUS
<1>1. requests \in [DOMAIN requests -> RowType] /\ OnePendingPerTrack
  BY DEF IInv, TypeOK
<1>2. ASSUME NEW uri \in Tracks, NEW id \in Nat, RowInserted(uri, id) PROVE OnePendingPerTrack'
  BY <1>1, <1>2 DEF RowInserted, InsertRequest, InsertRow, HasPendingDuplicate, OnePendingPerTrack, Pending
<1>3. ASSUME NEW w \in Approvers, RowMarked(w) PROVE OnePendingPerTrack'
  <2>1. /\ Pending(requests)' \subseteq Pending(requests)
        /\ \A id \in DOMAIN requests : requests'[id].uri = requests[id].uri
    BY <1>1, <1>3 DEF RowMarked, MarkRequestAdded, Pending, RowType
  <2> QED BY <1>1, <2>1 DEF OnePendingPerTrack, Pending
<1>4. ASSUME NEW id \in DOMAIN requests, RowDeleted(id) PROVE OnePendingPerTrack'
  BY <1>1, <1>4 DEF RowDeleted, DeleteRequest, OnePendingPerTrack, Pending
<1>5. UNCHANGED <<requests, submissions>> => OnePendingPerTrack'
  BY <1>1 DEF OnePendingPerTrack, Pending
<1> QED BY <1>2, <1>3, <1>4, <1>5, RequestsChange DEF IInv

\* Entries found in a state are found in the next one.
LEMMA EntriesKeep ==
    ASSUME TypeOK, [Next]_vars
    PROVE  \A e \in DOMAIN entries : e \in DOMAIN entries' /\ entries'[e] = entries[e]
BY EntriesChange, EntryAppended

\* The entry of an added request is of its own insertion, or of a ticket that is gone.
EntryOf(id, e) ==
    /\ entries[e].request_id = id
    /\ \/ entries[e].ticket = requests[id].ticket
       \/ entries[e].ticket \notin TicketsOf(DOMAIN requests)

\* An entry that stands for a request goes on doing so while the row stays.
LEMMA EntryStays ==
    ASSUME IInv, [Next]_vars, NEW id \in DOMAIN requests, NEW e \in DOMAIN entries,
           EntryOf(id, e), id \in DOMAIN requests', requests'[id].ticket = requests[id].ticket
    PROVE  e \in DOMAIN entries' /\ EntryOf(id, e)'
<1>1. TypeOK /\ e \in DOMAIN entries' /\ entries'[e] = entries[e]
  BY EntriesKeep DEF IInv
<1>2. entries[e].ticket \in Tickets /\ Len(submissions) + 1 \notin Tickets
  <2>1. entries[e] \in EntryType
    BY <1>1, LenProperties, ElementOfSeq DEF TypeOK
  <2> QED BY <1>1, <2>1, LenProperties DEF EntryType, Tickets, TypeOK
<1>3. ASSUME entries[e].ticket \notin TicketsOf(DOMAIN requests)
      PROVE  entries[e].ticket \notin TicketsOf(DOMAIN requests)'
  BY <1>1, <1>2, <1>3, RowTickets DEF TicketsOf
<1> QED BY <1>1, <1>3 DEF EntryOf

LEMMA StepAddedHasEntry == IInv /\ [Next]_vars => AddedHasEntry'
<1> SUFFICES ASSUME IInv, [Next]_vars,
                    NEW id \in DOMAIN requests', requests'[id].status = "added"
             PROVE  \E e \in DOMAIN entries' : EntryOf(id, e)'
  BY DEF AddedHasEntry, EntryOf
<1>1. requests \in [DOMAIN requests -> RowType] /\ AddedHasEntry /\ TypeOK /\ TicketsTrue
  BY DEF IInv, TypeOK
<1>2. ASSUME id \in DOMAIN requests, requests[id].status = "added",
             requests'[id].ticket = requests[id].ticket
      PROVE  \E e \in DOMAIN entries' : EntryOf(id, e)'
  <2>1. PICK e \in DOMAIN entries : EntryOf(id, e)
    BY <1>1, <1>2 DEF AddedHasEntry, EntryOf
  <2> QED BY <1>2, <2>1, EntryStays
<1>3. ASSUME NEW w \in Approvers, RowMarked(w), id = tasks[w].id
      PROVE  \E e \in DOMAIN entries' : EntryOf(id, e)'
  <2>1. /\ Len(entries) + 1 \in DOMAIN entries'
        /\ entries'[Len(entries) + 1] = NewEntry(tasks[w].uri, tasks[w].id, tasks[w].ticket)
    BY <1>1, <1>3, EntryAppended DEF RowMarked
  <2>2. /\ DOMAIN requests' = DOMAIN requests
        /\ \A i \in DOMAIN requests : requests'[i].ticket = requests[i].ticket
    BY <1>1, <1>3 DEF RowMarked, MarkRequestAdded, RowType
  <2>3. \A i \in DOMAIN requests : requests[i].ticket = tasks[w].ticket => i = id
    BY <1>1, <1>3 DEF RowMarked, Idle, TicketsTrue
  <2>4. \/ tasks[w].ticket = requests'[id].ticket
        \/ tasks[w].ticket \notin TicketsOf(DOMAIN requests)'
    BY <2>2, <2>3 DEF TicketsOf
  <2> QED BY <1>3, <2>1, <2>4 DEF NewEntry, EntryOf
<1>4. \/ \E w \in Approvers : RowMarked(w) /\ id = tasks[w].id
      \/ /\ id \in DOMAIN requests /\ requests[id].status = "added"
         /\ requests'[id].ticket = requests[id].ticket
  <2>1. CASE \E uri \in Tracks, new \in Nat : RowInserted(uri, new)
    BY <1>1, <2>1 DEF RowInserted, InsertRequest, InsertRow
  <2>2. ASSUME NEW w \in Approvers, RowMarked(w), id # tasks[w].id
        PROVE  /\ id \in DOMAIN requests /\ requests[id].status = "added"
               /\ requests'[id].ticket = requests[id].ticket
    BY <1>1, <2>2 DEF RowMarked, MarkRequestAdded, RowType
  <2>3. CASE \E gone \in DOMAIN requests : RowDeleted(gone)
    BY <1>1, <2>3 DEF RowDeleted, DeleteRequest
  <2>4. CASE UNCHANGED requests
    BY <2>4
  <2> QED BY <1>1, <2>1, <2>2, <2>3, <2>4, RequestsChange
<1> QED BY <1>2, <1>3, <1>4

LEMMA StepEntryMeansInserted == IInv /\ [Next]_vars => EntryMeansInserted'
<1> SUFFICES ASSUME IInv, [Next]_vars PROVE EntryMeansInserted'
  OBVIOUS
<1>1. /\ TypeOK /\ EntryMeansInserted /\ TicketsTrue /\ applied \subseteq applied'
      /\ applied \subseteq Tickets
      /\ \A t \in Tickets : submissions'[t] = submissions[t]
  BY AppliedGrows, SubmissionsKeep DEF IInv, TypeOK
<1>2. CASE entries' = entries
  BY <1>1, <1>2 DEF EntryMeansInserted
<1>3. ASSUME NEW w \in Approvers, tasks[w].pc = "inserted", EntryWritten(w)
      PROVE  EntryMeansInserted'
  <2>1. tasks[w].ticket \in applied /\ tasks[w].uri = submissions[tasks[w].ticket]
    BY <1>1, <1>3 DEF TicketsTrue, Idle
  <2>2. ASSUME NEW e \in DOMAIN entries'
        PROVE  entries'[e].ticket \in applied /\ entries'[e].uri = submissions[entries'[e].ticket]
    <3>1. CASE e \in DOMAIN entries
      BY <1>1, <1>3, <3>1, EntryAppended DEF EntryMeansInserted
    <3>2. CASE e = Len(entries) + 1
      <4>1. entries'[e] = NewEntry(tasks[w].uri, tasks[w].id, tasks[w].ticket)
        BY <1>1, <1>3, <3>2, EntryAppended
      <4> QED BY <2>1, <4>1 DEF NewEntry
    <3> QED BY <1>1, <1>3, <3>1, <3>2, EntryAppended
  <2> QED BY <1>1, <2>2 DEF EntryMeansInserted
<1> QED BY <1>1, <1>2, <1>3, EntriesChange

\* The audit log grows by the decision a step makes, never by another.
LEMMA AuditChange ==
    ASSUME TypeOK, [Next]_vars
    PROVE  \/ audit' = audit
           \/ \E w \in Approvers :
                 /\ tasks[w].pc = "inserted" /\ EntryWritten(w)
                 /\ audit' = audit \cup {[action |-> "request.approved",
                                         ticket |-> tasks[w].ticket]}
           \/ \E id \in DOMAIN requests :
                 /\ RowDeleted(id)
                 /\ audit' = audit \cup {[action |-> "request.denied",
                                         ticket |-> requests[id].ticket]}
<1>1. ASSUME NEW w \in Approvers, RecordInsertion(w)
      PROVE  /\ tasks[w].pc = "inserted" /\ EntryWritten(w)
             /\ audit' = audit \cup {[action |-> "request.approved",
                                     ticket |-> tasks[w].ticket]}
  BY <1>1 DEF RecordInsertion
<1>2. ASSUME NEW id \in DOMAIN requests, DenyRequest(id)
      PROVE  /\ RowDeleted(id)
             /\ audit' = audit \cup {[action |-> "request.denied",
                                     ticket |-> requests[id].ticket]}
  BY <1>2 DEF DenyRequest, RowDeleted, history
<1>3. ASSUME NEW w \in Approvers, ApproverStep(w), ~RecordInsertion(w) PROVE audit' = audit
  BY <1>3 DEF ApproverStep, CallStep, StartApprove, ListPlaylist, LocatePlayback, SpotifyInsert,
              CallFails, CrashRecording, database
<1>4. (~\E w \in Approvers : ApproverStep(w)) /\ (~\E id \in DOMAIN requests : DenyRequest(id))
      => audit' = audit
  BY DEF Next, CreateRequest, CrashDenying, LateInsert, Crash, UpdateConfig, ChangePlayback,
         EditPlaylist, vars, database
<1> QED BY <1>1, <1>2, <1>3, <1>4

LEMMA StepAuditNeverAhead == IInv /\ [Next]_vars => AuditNeverAhead'
<1> SUFFICES ASSUME IInv, [Next]_vars, NEW decision \in audit'
             PROVE  /\ decision.action = "request.approved" =>
                          \E e \in DOMAIN entries' : entries'[e].ticket = decision.ticket
                    /\ decision.action = "request.denied" =>
                          \A id \in DOMAIN requests' : requests'[id].ticket # decision.ticket
  BY DEF AuditNeverAhead
<1>0. /\ TypeOK /\ TicketsTrue /\ AuditNeverAhead
      /\ Len(submissions) + 1 \notin Tickets
      /\ requests \in [DOMAIN requests -> RowType]
  BY LenProperties DEF IInv, TypeOK, Tickets
<1>1. CASE decision \in audit
  <2>1. decision.ticket \in Tickets
    BY <1>0, <1>1 DEF TypeOK, DecisionType
  <2>2. decision.action = "request.approved" =>
           \E e \in DOMAIN entries' : entries'[e].ticket = decision.ticket
    BY <1>0, <1>1, EntriesKeep DEF AuditNeverAhead
  <2>3. decision.action = "request.denied" =>
           \A id \in DOMAIN requests' : requests'[id].ticket # decision.ticket
    BY <1>0, <1>1, <2>1, RowTickets DEF AuditNeverAhead
  <2> QED BY <2>2, <2>3
<1>2. ASSUME NEW w \in Approvers, tasks[w].pc = "inserted", EntryWritten(w),
             decision = [action |-> "request.approved", ticket |-> tasks[w].ticket]
      PROVE  \E e \in DOMAIN entries' : entries'[e].ticket = decision.ticket
  <2>1. /\ Len(entries) + 1 \in DOMAIN entries'
        /\ entries'[Len(entries) + 1] = NewEntry(tasks[w].uri, tasks[w].id, tasks[w].ticket)
    BY <1>0, <1>2, EntryAppended
  <2> QED BY <1>2, <2>1 DEF NewEntry
<1>3. ASSUME NEW deleted \in DOMAIN requests, RowDeleted(deleted),
             decision = [action |-> "request.denied", ticket |-> requests[deleted].ticket]
      PROVE  \A id \in DOMAIN requests' : requests'[id].ticket # decision.ticket
  BY <1>0, <1>3 DEF RowDeleted, DeleteRequest, TicketsTrue
<1> QED BY <1>0, <1>1, <1>2, <1>3, AuditChange

\* The inductive invariant, and with it what the runs check on small instances:
\* one pending request per track, an entry for every added request, an insertion
\* for every entry, and an audit log that tells of nothing that did not happen.
THEOREM InductiveInvariant == Spec => []IInv
<1>1. IInv /\ [Next]_vars => IInv'
  BY StepTypeOK, TicketsStayTrue, StepOnePending, StepAddedHasEntry, StepEntryMeansInserted,
     StepAuditNeverAhead DEF IInv
<1> QED BY <1>1, InitIInv, PTL DEF Spec

\* No two pending requests ever name the same track, however submissions,
\* approvals, denials and restarts interleave.
THEOREM OnePending == Spec => []OnePendingPerTrack
<1>1. IInv => OnePendingPerTrack
  BY DEF IInv
<1> QED BY <1>1, InductiveInvariant, PTL

\* A request that is shown as added has a playlist_state entry under its rowid,
\* wherever a restart cuts the commits of an approval apart: of its own insertion,
\* unless that entry's request was denied and its rowid came back.
THEOREM AddedEntry == Spec => []AddedHasEntry
<1>1. IInv => AddedHasEntry
  BY DEF IInv
<1> QED BY <1>1, InductiveInvariant, PTL

\* An entry of playlist_state stands for an insertion Spotify made.
THEOREM EntryInserted == Spec => []EntryMeansInserted
<1>1. IInv => EntryMeansInserted
  BY DEF IInv
<1> QED BY <1>1, InductiveInvariant, PTL

\* The audit log never claims a decision whose effect is missing.
THEOREM AuditTrue == Spec => []AuditNeverAhead
<1>1. IInv => AuditNeverAhead
  BY DEF IInv
<1> QED BY <1>1, InductiveInvariant, PTL

-----------------------------------------------------------------------------
(* Without a failure, what was inserted is recorded.                       *)

Recorded(ticket) == \E e \in DOMAIN entries : entries[e].ticket = ticket

AwaitingRecord(ticket) ==
    \E w \in Approvers : tasks[w].pc = "inserted" /\ tasks[w].ticket = ticket

\* Inductive: until something fails, an insertion has its entry, or an approval
\* that is about to write it; and no POST is left behind.
InsertionsTracked ==
    faults = 0 =>
        /\ late = {}
        /\ \A ticket \in applied : Recorded(ticket) \/ AwaitingRecord(ticket)

\* Every step that does not fail leaves the abandoned POSTs as they are, or applies one.
LEMMA LateChange ==
    ASSUME TypeOK, [Next]_vars, faults' = faults
    PROVE  late' \subseteq late
<1>0. faults + 1 # faults
  BY DEF TypeOK
<1>1. ~Dies /\ ~Crash /\ (\A w \in Approvers : ~CallFails(w) /\ ~CrashRecording(w))
      /\ (\A id \in DOMAIN requests : ~CrashDenying(id))
  BY <1>0 DEF Dies, Crash, CallFails, CrashRecording, CrashDenying
<1>2. CASE \E w \in Approvers : ApproverStep(w)
  BY <1>1, <1>2 DEF ApproverStep, CallStep, StartApprove, ListPlaylist, LocatePlayback,
                    SpotifyInsert, RecordInsertion
<1>3. CASE ~\E w \in Approvers : ApproverStep(w)
  BY <1>1, <1>3 DEF Next, CreateRequest, DenyRequest, LateInsert, UpdateConfig,
                    ChangePlayback, EditPlaylist, vars
<1> QED BY <1>2, <1>3

\* An insertion is made for the approval that waits for its answer, or for a POST
\* that was abandoned.
LEMMA AppliedChange ==
    ASSUME TypeOK, [Next]_vars, NEW ticket \in applied' \ applied
    PROVE  late # {} \/ AwaitingRecord(ticket)'
<1>1. ASSUME NEW w \in Approvers, ApproverStep(w)
      PROVE  AwaitingRecord(ticket)'
  <2>1. SpotifyInsert(w)
    BY <1>1 DEF ApproverStep, CallStep, StartApprove, ListPlaylist, LocatePlayback,
                RecordInsertion, CallFails, CrashRecording, Dies, history
  <2>2. /\ ticket = tasks[w].ticket
        /\ tasks' = [tasks EXCEPT ![w].pc = "inserted"]
    BY <2>1 DEF SpotifyInsert
  <2>3. tasks'[w].pc = "inserted" /\ tasks'[w].ticket = ticket
    BY <2>2 DEF TypeOK, TaskType
  <2> QED BY <2>3 DEF AwaitingRecord
<1>2. CASE ~\E w \in Approvers : ApproverStep(w)
  BY <1>2 DEF Next, CreateRequest, DenyRequest, CrashDenying, Crash, Dies, UpdateConfig,
              ChangePlayback, EditPlaylist, vars, history
<1> QED BY <1>1, <1>2

\* An approval past its insertion goes on waiting for the answer, or has its entry
\* written, unless something fails.
LEMMA AwaitingChange ==
    ASSUME TypeOK, [Next]_vars, faults' = faults, NEW ticket, AwaitingRecord(ticket)
    PROVE  AwaitingRecord(ticket)' \/ Recorded(ticket)'
<1>1. PICK w \in Approvers : tasks[w].pc = "inserted" /\ tasks[w].ticket = ticket
  BY DEF AwaitingRecord
<1>2. faults + 1 # faults
  BY DEF TypeOK
<1>3. ~Dies /\ ~Crash /\ (\A v \in Approvers : ~CallFails(v) /\ ~CrashRecording(v))
      /\ (\A id \in DOMAIN requests : ~CrashDenying(id))
  BY <1>2 DEF Dies, Crash, CallFails, CrashRecording, CrashDenying
<1>4. ASSUME NEW v \in Approvers, ApproverStep(v), v # w
      PROVE  tasks'[w] = tasks[w]
  BY <1>3, <1>4 DEF ApproverStep, CallStep, StartApprove, ListPlaylist, LocatePlayback,
                    SpotifyInsert, RecordInsertion, Finish, TypeOK
<1>5. CASE ApproverStep(w)
  <2>1. RecordInsertion(w)
    BY <1>1, <1>3, <1>5 DEF ApproverStep, CallStep, StartApprove, ListPlaylist, LocatePlayback,
                            SpotifyInsert, Idle
  <2>2. /\ Len(entries) + 1 \in DOMAIN entries'
        /\ entries'[Len(entries) + 1] = NewEntry(tasks[w].uri, tasks[w].id, tasks[w].ticket)
    BY <2>1, EntryAppended DEF RecordInsertion
  <2> QED BY <1>1, <2>2 DEF NewEntry, Recorded
<1>6. CASE ~\E v \in Approvers : ApproverStep(v)
  <2>1. UNCHANGED tasks
    BY <1>3, <1>6 DEF Next, CreateRequest, DenyRequest, LateInsert, UpdateConfig,
                      ChangePlayback, EditPlaylist, vars
  <2> QED BY <1>1, <2>1 DEF AwaitingRecord
<1> QED BY <1>1, <1>4, <1>5, <1>6 DEF AwaitingRecord

\* The count of failures and restarts never goes back.
LEMMA FaultsGrow ==
    ASSUME TypeOK, [Next]_vars
    PROVE  faults' = faults \/ faults' = faults + 1
<1>1. CASE \E w \in Approvers : ApproverStep(w)
  BY <1>1 DEF ApproverStep, CallStep, StartApprove, ListPlaylist, LocatePlayback,
              SpotifyInsert, RecordInsertion, CallFails, CrashRecording, Dies
<1>2. CASE ~\E w \in Approvers : ApproverStep(w)
  BY <1>2 DEF Next, CreateRequest, DenyRequest, CrashDenying, LateInsert, Crash, Dies,
              UpdateConfig, ChangePlayback, EditPlaylist, vars
<1> QED BY <1>1, <1>2

LEMMA StepInsertionsTracked ==
    TypeOK /\ InsertionsTracked /\ [Next]_vars => InsertionsTracked'
<1> SUFFICES ASSUME TypeOK, InsertionsTracked, [Next]_vars, faults' = 0
             PROVE  /\ late' = {}
                    /\ \A ticket \in applied' :
                          Recorded(ticket)' \/ AwaitingRecord(ticket)'
  BY DEF InsertionsTracked
<1>1. faults' = faults /\ faults = 0
  BY FaultsGrow DEF TypeOK
<1>2. late = {} /\ \A ticket \in applied : Recorded(ticket) \/ AwaitingRecord(ticket)
  BY <1>1 DEF InsertionsTracked
<1>3. late' = {}
  BY <1>1, <1>2, LateChange
<1>4. ASSUME NEW ticket \in applied'
      PROVE  Recorded(ticket)' \/ AwaitingRecord(ticket)'
  <2>1. CASE ticket \notin applied
    BY <1>2, <2>1, AppliedChange
  <2>2. CASE Recorded(ticket)
    BY <2>2, EntriesKeep DEF Recorded
  <2>3. CASE AwaitingRecord(ticket)
    BY <1>1, <2>3, AwaitingChange
  <2> QED BY <1>2, <2>1, <2>2, <2>3
<1> QED BY <1>3, <1>4

\* Unless a call fails or the program restarts, Spotify never holds an insertion
\* that playlist_state does not know of once the approvals have answered, however
\* many run at a time and whatever is denied or configured meanwhile.
THEOREM RecordsAll == Spec => []InsertionsRecorded
<1>1. Init => InsertionsTracked
  BY DEF Init, InsertionsTracked
<1>2. InsertionsTracked => InsertionsRecorded
  BY DEF InsertionsTracked, InsertionsRecorded, Recorded, AwaitingRecord, Idle
<1> QED BY <1>1, <1>2, TypeCorrect, StepInsertionsTracked, PTL DEF Spec

-----------------------------------------------------------------------------
(* Second copies.                                                          *)

\* An insertion of the track into the playlist is past its listing: by an approval
\* under way, or by a POST that was abandoned.
Outstanding(p, uri) == Posting(p, uri) # {} \/ Abandoned(p, uri) # {}

\* Spotify inserts an item; unless its track is contested, the playlist did not
\* have the track, and no other insertion of it is outstanding.
Inserted(p, position, item) ==
    /\ p \in Playlists
    /\ position \in 0 .. Len(playlists[p])
    /\ item \in Items
    /\ item.uri \in Tracks
    /\ playlists' = [playlists EXCEPT ![p] = InsertItem(playlists[p], position, item)]
    /\ contested' \in {contested, contested \cup {<<p, item.uri>>}}
    /\ \/ <<p, item.uri>> \in contested'
       \/ ~InListing(playlists[p], item.uri) /\ ~Outstanding(p, item.uri)'

Deleted(p, position) ==
    /\ p \in Playlists
    /\ position \in 0 .. Len(playlists[p]) - 1
    /\ playlists' = [playlists EXCEPT ![p] = DeleteItem(playlists[p], position)]
    /\ UNCHANGED contested

MadeUnavailable(p, place) ==
    /\ p \in Playlists
    /\ place \in DOMAIN playlists[p]
    /\ playlists' = [playlists EXCEPT ![p] = [playlists[p] EXCEPT ![place].uri = Unavailable]]
    /\ UNCHANGED contested

\* Inductive: what is outstanding and not contested is not in the playlist yet.
StillUnlisted ==
    \A p \in Playlists, uri \in Tracks :
        Outstanding(p, uri) /\ <<p, uri>> \notin contested => ~InListing(playlists[p], uri)

\* What becomes of one approval, seen by what it knows of the playlist.
LEMMA TaskSteps ==
    ASSUME TypeOK, [Next]_vars, NEW w \in Approvers
    PROVE  \/ tasks'[w] = tasks[w]
           \/ tasks'[w].pc \in {"idle", "listing", "inserted"}
           \/ /\ ListPlaylist(w) /\ ~Finish(w)
              /\ tasks'[w].playlist = tasks[w].playlist /\ tasks'[w].uri = tasks[w].uri
           \/ /\ LocatePlayback(w) /\ tasks[w].pc = "locating"
              /\ tasks'[w].playlist = tasks[w].playlist /\ tasks'[w].uri = tasks[w].uri
<1>1. ASSUME NEW v \in Approvers, ApproverStep(v), v # w
      PROVE  tasks'[w] = tasks[w] \/ Dies
  <2>1. tasks \in [Approvers -> TaskType]
    BY DEF TypeOK
  <2> HIDE DEF NoTask
  <2> QED BY <1>1, <2>1 DEF ApproverStep, CallStep, StartApprove, ListPlaylist, LocatePlayback,
                            CallFails, SpotifyInsert, RecordInsertion, CrashRecording, Finish
<1>2. ASSUME Finish(w) \/ Dies PROVE tasks'[w].pc = "idle"
  BY <1>2 DEF Finish, Dies, NoTask, TypeOK
<1>3. tasks[w] \in TaskType /\ tasks \in [Approvers -> TaskType]
  BY DEF TypeOK
<1>4. ASSUME NEW id \in DOMAIN requests, StartApprove(w, id) PROVE tasks'[w].pc = "listing"
  BY <1>4 DEF StartApprove, NoTask, TypeOK
<1>5. ASSUME SpotifyInsert(w), ~Finish(w) PROVE tasks'[w].pc = "inserted"
  <2>1. tasks' = [tasks EXCEPT ![w].pc = "inserted"]
    BY <1>5 DEF SpotifyInsert
  <2> QED BY <1>3, <2>1 DEF TaskType
<1>6. ASSUME LocatePlayback(w), ~Finish(w)
      PROVE  /\ tasks[w].pc = "locating"
             /\ tasks'[w].playlist = tasks[w].playlist /\ tasks'[w].uri = tasks[w].uri
  BY <1>3, <1>6 DEF LocatePlayback, TaskType
<1>7. ASSUME ListPlaylist(w), ~Finish(w)
      PROVE  tasks'[w].playlist = tasks[w].playlist /\ tasks'[w].uri = tasks[w].uri
  BY <1>3, <1>7 DEF ListPlaylist, TaskType
<1>8. CASE ApproverStep(w)
  BY <1>2, <1>4, <1>5, <1>6, <1>7, <1>8
     DEF ApproverStep, CallStep, RecordInsertion, CallFails, CrashRecording
<1>9. CASE UNCHANGED vars \/ ~\E v \in Approvers : ApproverStep(v)
  <2>1. UNCHANGED tasks \/ Dies
    BY <1>9 DEF Next, CreateRequest, DenyRequest, CrashDenying, LateInsert, Crash,
                UpdateConfig, ChangePlayback, EditPlaylist, vars
  <2> QED BY <1>2, <2>1
<1> QED BY <1>1, <1>2, <1>8, <1>9

\* A POST is abandoned by an approval that was inserting.
LEMMA PostsAbandoned ==
    ASSUME TypeOK, [Next]_vars, NEW post \in late' \ late
    PROVE  \E w \in Approvers : /\ tasks[w].pc = "inserting"
                                /\ post.playlist = tasks[w].playlist /\ post.uri = tasks[w].uri
<1>1. ASSUME NEW ws \in SUBSET Approvers, late' = late \cup InFlight(ws)
      PROVE  \E w \in Approvers : /\ tasks[w].pc = "inserting"
                                  /\ post.playlist = tasks[w].playlist
                                  /\ post.uri = tasks[w].uri
  <2>1. post \in InFlight(ws) /\ LatePosts
    BY <1>1 DEF InFlight
  <2>2. PICK w \in ws : /\ tasks[w].pc = "inserting"
                        /\ post = [attempt |-> <<faults, w>>, playlist |-> tasks[w].playlist,
                                   uri |-> tasks[w].uri, ticket |-> tasks[w].ticket,
                                   position |-> tasks[w].position]
    BY <2>1 DEF InFlight
  <2> QED BY <2>2
<1>2. ASSUME Dies PROVE late' = late \cup InFlight(Approvers)
  BY <1>2 DEF Dies
<1>3. ASSUME NEW w \in Approvers, ApproverStep(w), ~Dies
      PROVE  late' = late \/ late' = late \cup InFlight({w})
  BY <1>3 DEF ApproverStep, CallStep, StartApprove, ListPlaylist, LocatePlayback,
              SpotifyInsert, RecordInsertion, CallFails, CrashRecording
<1>4. ASSUME UNCHANGED vars \/ ~\E w \in Approvers : ApproverStep(w), ~Dies
      PROVE  late' \subseteq late
  BY <1>4 DEF Next, CreateRequest, DenyRequest, CrashDenying, LateInsert, Crash,
              UpdateConfig, ChangePlayback, EditPlaylist, vars
<1>5. CASE Dies
  BY <1>1, <1>2, <1>5
<1>6. CASE ~Dies /\ \E w \in Approvers : ApproverStep(w)
  <2>1. PICK w \in Approvers : ApproverStep(w)
    BY <1>6
  <2>2. {w} \in SUBSET Approvers /\ late' = late \cup InFlight({w})
    BY <1>3, <1>6, <2>1
  <2> QED BY <1>1, <2>2
<1> QED BY <1>4, <1>5, <1>6

\* Only an approval that did not find the track in the listing makes an insertion
\* outstanding.
LEMMA OutstandingChange ==
    ASSUME TypeOK, [Next]_vars, NEW p \in Playlists, NEW uri \in Tracks, Outstanding(p, uri)'
    PROVE  \/ Outstanding(p, uri)
           \/ UNCHANGED <<playlists, contested>> /\ ~InListing(playlists[p], uri)
<1>1. ASSUME NEW post \in Abandoned(p, uri)', post \notin Abandoned(p, uri)
      PROVE  Outstanding(p, uri)
  BY <1>1, PostsAbandoned DEF Abandoned, Posting, Outstanding
<1>2. ASSUME NEW w \in Posting(p, uri)', w \notin Posting(p, uri)
      PROVE  UNCHANGED <<playlists, contested>> /\ ~InListing(playlists[p], uri)
  <2>1. /\ tasks'[w].pc \in {"locating", "inserting"}
        /\ tasks'[w].playlist = p /\ tasks'[w].uri = uri
        /\ ~(tasks[w].pc = "locating" /\ tasks[w].playlist = p /\ tasks[w].uri = uri)
        /\ tasks'[w] # tasks[w]
    BY <1>2 DEF Posting
  <2>2. ListPlaylist(w) /\ ~Finish(w) /\ tasks[w].playlist = p /\ tasks[w].uri = uri
    BY <1>2, <2>1, TaskSteps DEF Posting
  <2> QED BY <2>2 DEF ListPlaylist, spotify, history
<1>3. Posting(p, uri)' # {} \/ Abandoned(p, uri)' # {}
  BY DEF Outstanding
<1>4. CASE Posting(p, uri) = {} /\ Abandoned(p, uri) = {}
  BY <1>1, <1>2, <1>3, <1>4
<1> QED BY <1>4 DEF Outstanding

\* The insertion an approval waits for is the only one of its track, or beside another.
LEMMA InsertChange ==
    ASSUME TypeOK, StillUnlisted, NEW w \in Approvers, SpotifyInsert(w)
    PROVE  \/ UNCHANGED <<playlists, contested>>
           \/ \E p \in Playlists, position \in Int, item \in Items : Inserted(p, position, item)
<1>0. /\ tasks[w] \in TaskType /\ ~Idle(w) /\ tasks[w].playlist \in Playlists
      /\ tasks[w].ticket \in Tickets /\ tasks[w].uri \in Tracks
  BY DEF TypeOK, SpotifyInsert, Idle
<1>1. PICK p \in Playlists, uri \in Tracks, position \in Int, item \in Items :
         /\ p = tasks[w].playlist /\ uri = tasks[w].uri /\ position = tasks[w].position
         /\ item = [uri |-> tasks[w].uri, owner |-> tasks[w].ticket]
  BY <1>0 DEF Items, Owners, TaskType
<1>2. item.uri = uri
  BY <1>1
<1>3. CASE CanInsertAt(playlists[p], position)
  <2>1. /\ playlists' = [playlists EXCEPT ![p] = InsertItem(playlists[p], position, item)]
        /\ tasks' = [tasks EXCEPT ![w].pc = "inserted"] /\ late' = late
        /\ EntersBeside(p, uri, Posting(p, uri) # {w} \/ Abandoned(p, uri) # {})
        /\ tasks[w].pc = "inserting"
    BY <1>1, <1>3 DEF SpotifyInsert
  <2>2. position \in 0 .. Len(playlists[p])
    BY <1>3 DEF CanInsertAt
  <2>3. /\ contested' \in {contested, contested \cup {<<p, uri>>}}
        /\ <<p, uri>> \in contested'
           \/ (contested' = contested /\ Posting(p, uri) = {w} /\ Abandoned(p, uri) = {})
    BY <2>1 DEF EntersBeside
  <2>4. w \in Posting(p, uri)
    BY <1>1, <2>1 DEF Posting
  <2>5. ASSUME <<p, uri>> \notin contested'
        PROVE  ~InListing(playlists[p], uri) /\ ~Outstanding(p, uri)'
    <3>1. ~InListing(playlists[p], uri)
      BY <1>1, <2>3, <2>4, <2>5 DEF StillUnlisted, Outstanding
    <3>2. Abandoned(p, uri)' = {}
      BY <2>1, <2>3, <2>5 DEF Abandoned
    <3>3. tasks'[w].pc = "inserted" /\ \A v \in Approvers : v # w => tasks'[v] = tasks[v]
      BY <1>0, <2>1 DEF TypeOK, TaskType
    <3>4. Posting(p, uri)' = {}
      BY <2>3, <2>5, <3>3 DEF Posting
    <3> QED BY <3>1, <3>2, <3>4 DEF Outstanding
  <2>6. Inserted(p, position, item)
    BY <1>1, <1>2, <2>1, <2>2, <2>3, <2>5 DEF Inserted
  <2> QED BY <1>1, <1>2, <2>6
<1>4. CASE ~CanInsertAt(playlists[p], position)
  BY <1>1, <1>4 DEF SpotifyInsert
<1> QED BY <1>3, <1>4

\* So is one applied late ...
LEMMA LateChangeOnce ==
    ASSUME TypeOK, StillUnlisted, NEW post \in late, LateInsert(post)
    PROVE  \E p \in Playlists, position \in Int, item \in Items : Inserted(p, position, item)
<1> DEFINE p == post.playlist
           uri == post.uri
           item == [uri |-> post.uri, owner |-> post.ticket]
<1>1. post \in PostType
  BY DEF TypeOK
<1>2. item \in Items /\ item.uri = uri /\ uri \in Tracks /\ p \in Playlists /\ post.position \in Int
  BY <1>1 DEF Items, Owners, PostType, Tickets
<1>3. /\ playlists' = [playlists EXCEPT ![p] = InsertItem(playlists[p], post.position, item)]
      /\ post.position \in 0 .. Len(playlists[p])
      /\ EntersBeside(p, uri, Posting(p, uri) # {} \/ Abandoned(p, uri) # {post})
      /\ late' = late \ {post} /\ tasks' = tasks
  BY DEF LateInsert, CanInsertAt
<1>4. /\ contested' \in {contested, contested \cup {<<p, uri>>}}
      /\ <<p, uri>> \in contested'
         \/ (contested' = contested /\ Posting(p, uri) = {} /\ Abandoned(p, uri) = {post})
  BY <1>3 DEF EntersBeside
<1>5. ASSUME <<p, uri>> \notin contested'
      PROVE  ~InListing(playlists[p], uri) /\ ~Outstanding(p, uri)'
  <2>1. ~InListing(playlists[p], uri)
    BY <1>2, <1>4, <1>5 DEF StillUnlisted, Outstanding
  <2>2. Abandoned(p, uri)' = {} /\ Posting(p, uri)' = {}
    BY <1>3, <1>4, <1>5 DEF Abandoned, Posting
  <2> QED BY <2>1, <2>2 DEF Outstanding
<1> HIDE DEF p, uri, item
<1>6. Inserted(p, post.position, item)
  BY <1>2, <1>3, <1>4, <1>5 DEF Inserted
<1> QED BY <1>2, <1>6

\* ... and one by the venue, who may also take items out.
LEMMA EditChange ==
    ASSUME TypeOK, NEW p \in Playlists, EditPlaylist(p)
    PROVE  \/ \E position \in Int, item \in Items : Inserted(p, position, item)
           \/ \E position \in Int : Deleted(p, position)
           \/ \E place \in DOMAIN playlists[p] : MadeUnavailable(p, place)
<1>0. playlists \in [Playlists -> Seq(Items)] /\ playlists[p] \in Seq(Items)
  BY DEF TypeOK
<1>1. ASSUME NEW position \in 0 .. Len(playlists[p]), NEW track \in Tracks,
             playlists' = [playlists EXCEPT ![p] = InsertItem(@, position,
                                                              [uri |-> track, owner |-> 0])],
             EntersBeside(p, track, \/ Posting(p, track) # {}
                                    \/ Abandoned(p, track) # {}
                                    \/ InListing(playlists[p], track))
      PROVE  \E q \in Int, item \in Items : Inserted(p, q, item)
  <2> DEFINE item == [uri |-> track, owner |-> 0]
  <2>1. item \in Items /\ item.uri = track /\ position \in Int
    BY <1>0, LenProperties DEF Items, Owners
  <2>2. playlists' = [playlists EXCEPT ![p] = InsertItem(playlists[p], position, item)]
    BY <1>1
  <2>3. /\ contested' \in {contested, contested \cup {<<p, track>>}}
        /\ \/ <<p, track>> \in contested'
           \/ /\ Posting(p, track) = {} /\ Abandoned(p, track) = {}
              /\ ~InListing(playlists[p], track)
    BY <1>1 DEF EntersBeside
  <2>4. tasks' = tasks /\ late' = late
    BY DEF EditPlaylist
  <2>5. \/ <<p, track>> \in contested'
        \/ ~InListing(playlists[p], track) /\ ~Outstanding(p, track)'
    BY <2>3, <2>4 DEF Outstanding, Posting, Abandoned
  <2> HIDE DEF item
  <2>6. Inserted(p, position, item)
    BY <2>1, <2>2, <2>3, <2>5 DEF Inserted
  <2> QED BY <2>1, <2>6
<1>2. ASSUME NEW position \in 0 .. Len(playlists[p]) - 1,
             playlists' = [playlists EXCEPT ![p] = DeleteItem(@, position)], UNCHANGED contested
      PROVE  \E q \in Int : Deleted(p, q)
  <2>1. Deleted(p, position)
    BY <1>2 DEF Deleted
  <2> QED BY <1>0, <2>1, LenProperties
<1>3. ASSUME NEW i \in DOMAIN playlists[p],
             playlists' = [playlists EXCEPT ![p][i].uri = Unavailable], UNCHANGED contested
      PROVE  MadeUnavailable(p, i)
  BY <1>3 DEF MadeUnavailable
<1> QED BY <1>1, <1>2, <1>3 DEF EditPlaylist

\* A step leaves the playlists, inserts an item, takes one out, or loses its track.
LEMMA PlaylistsChange ==
    ASSUME TypeOK, StillUnlisted, [Next]_vars
    PROVE  \/ UNCHANGED <<playlists, contested>>
           \/ \E p \in Playlists, position \in Int, item \in Items : Inserted(p, position, item)
           \/ \E p \in Playlists, position \in Int : Deleted(p, position)
           \/ \E p \in Playlists : \E place \in DOMAIN playlists[p] : MadeUnavailable(p, place)
<1>1. ASSUME NEW w \in Approvers, ApproverStep(w), ~SpotifyInsert(w)
      PROVE  UNCHANGED <<playlists, contested>>
  BY <1>1 DEF ApproverStep, CallStep, StartApprove, ListPlaylist, LocatePlayback,
              RecordInsertion, CallFails, CrashRecording, Dies, spotify, history
<1>2. CASE UNCHANGED vars \/ ~\E w \in Approvers : ApproverStep(w)
  <2>1. \/ UNCHANGED <<playlists, contested>>
        \/ \E post \in late : LateInsert(post)
        \/ \E p \in Playlists : EditPlaylist(p)
    BY <1>2 DEF Next, CreateRequest, DenyRequest, CrashDenying, Crash,
                Dies, UpdateConfig, ChangePlayback, vars, spotify, history
  <2> QED BY <2>1, LateChangeOnce, EditChange
<1> QED BY <1>1, <1>2, InsertChange

\* The tracks whose copies the property does not speak of.
Exempt(p) == {Unavailable} \cup {uri \in Tracks : <<p, uri>> \in contested}

OnceInv ==
    /\ StillUnlisted
    /\ \A p \in Playlists : ApprovedOnce(playlists[p], Exempt(p))

LEMMA StepOnce == TypeOK /\ OnceInv /\ [Next]_vars => OnceInv'
<1> SUFFICES ASSUME TypeOK, OnceInv, [Next]_vars PROVE OnceInv'
  OBVIOUS
<1>0. /\ playlists \in [Playlists -> Seq(Items)] /\ StillUnlisted
      /\ \A p \in Playlists : ApprovedOnce(playlists[p], Exempt(p))
  BY DEF OnceInv, TypeOK
<1>1. CASE UNCHANGED <<playlists, contested>>
  <2>1. StillUnlisted'
    BY <1>0, <1>1, OutstandingChange DEF StillUnlisted
  <2> QED BY <1>0, <1>1, <2>1 DEF OnceInv, Exempt
<1>2. ASSUME NEW p \in Playlists, NEW new \in Seq(Items),
             playlists' = [playlists EXCEPT ![p] = new], contested' = contested,
             ApprovedOnce(new, Exempt(p)),
             \A uri : InListing(new, uri) => InListing(playlists[p], uri)
      PROVE  OnceInv'
  <2>1. \A q \in Playlists : \A uri : InListing(playlists'[q], uri) => InListing(playlists[q], uri)
    BY <1>0, <1>2
  <2>2. StillUnlisted'
    BY <1>0, <1>2, <2>1, OutstandingChange DEF StillUnlisted
  <2>3. \A q \in Playlists : ApprovedOnce(playlists'[q], Exempt(q)')
    BY <1>0, <1>2 DEF Exempt
  <2> QED BY <2>2, <2>3 DEF OnceInv
<1>3. ASSUME NEW p \in Playlists, NEW position \in Int, Deleted(p, position) PROVE OnceInv'
  <2>1. /\ DeleteItem(playlists[p], position) \in Seq(Items)
        /\ ApprovedOnce(DeleteItem(playlists[p], position), Exempt(p))
        /\ \A uri : InListing(DeleteItem(playlists[p], position), uri)
                       => InListing(playlists[p], uri)
    BY <1>0, <1>3, DeleteKeepsOnce, DeleteItemPositions DEF Deleted
  <2> QED BY <1>2, <1>3, <2>1 DEF Deleted
<1>4. ASSUME NEW p \in Playlists, NEW place \in DOMAIN playlists[p], MadeUnavailable(p, place)
      PROVE  OnceInv'
  <2> DEFINE new == [playlists[p] EXCEPT ![place].uri = Unavailable]
  <2>0. /\ playlists[p] \in Seq(Items) /\ ApprovedOnce(playlists[p], Exempt(p))
        /\ Unavailable \in Exempt(p)
    BY <1>0 DEF Exempt
  <2>1. /\ new \in Seq(Items) /\ ApprovedOnce(new, Exempt(p))
        /\ \A uri : InListing(new, uri) => InListing(playlists[p], uri)
    BY <2>0, UnavailableKeepsOnce, UnavailableItem
  <2>2. playlists' = [playlists EXCEPT ![p] = new] /\ contested' = contested
    BY <1>4 DEF MadeUnavailable
  <2> HIDE DEF new
  <2> QED BY <1>2, <2>1, <2>2
<1>5. ASSUME NEW p \in Playlists, NEW position \in Int, NEW item \in Items,
             Inserted(p, position, item)
      PROVE  OnceInv'
  <2> DEFINE items == playlists[p]
             new == InsertItem(items, position, item)
  <2>0. /\ items \in Seq(Items) /\ position \in 0 .. Len(items)
        /\ item.uri \in Tracks /\ item.uri # Unavailable
        /\ playlists' = [playlists EXCEPT ![p] = new]
        /\ contested' \in {contested, contested \cup {<<p, item.uri>>}}
    BY <1>0, <1>5, TracksAssumption DEF Inserted
  <2>1. /\ item.uri \in Exempt(p)' \/ ~InListing(items, item.uri)
        /\ \A q \in Playlists : Exempt(q) \subseteq Exempt(q)'
    BY <1>5, <2>0 DEF Inserted, Exempt
  <2>2. \A q \in Playlists : ApprovedOnce(playlists[q], Exempt(q)')
    BY <1>0, <2>1 DEF ApprovedOnce
  <2>3. ApprovedOnce(new, Exempt(p)')
    BY <2>0, <2>1, <2>2, InsertUnlisted
  <2>4. ASSUME NEW uri, uri # item.uri, InListing(new, uri) PROVE InListing(items, uri)
    <3>1. \A i \in DOMAIN new :
             \/ i = position + 1 /\ new[i] = item
             \/ i <= position /\ i \in DOMAIN items /\ new[i] = items[i]
             \/ i > position + 1 /\ i - 1 \in DOMAIN items /\ new[i] = items[i - 1]
      BY <2>0, InsertItemOrigin
    <3> HIDE DEF new, items
    <3> QED BY <2>4, <3>1 DEF InListing
  <2> HIDE DEF new
  <2>5. \A q \in Playlists : ApprovedOnce(playlists'[q], Exempt(q)')
    BY <1>0, <2>0, <2>2, <2>3
  <2>6. ASSUME NEW q \in Playlists, NEW uri \in Tracks, Outstanding(q, uri)',
               <<q, uri>> \notin contested'
        PROVE  ~InListing(playlists'[q], uri)
    <3>1. CASE UNCHANGED <<playlists, contested>> /\ ~InListing(playlists[q], uri)
      BY <3>1
    <3>2. CASE Outstanding(q, uri)
      <4>1. ~InListing(playlists[q], uri)
        BY <1>0, <2>0, <2>6, <3>2 DEF StillUnlisted
      <4>2. ~(q = p /\ uri = item.uri)
        BY <1>5, <2>6 DEF Inserted
      <4>3. CASE q = p
        BY <1>0, <2>0, <2>4, <4>1, <4>2, <4>3
      <4>4. CASE q # p
        BY <1>0, <2>0, <4>1, <4>4
      <4> QED BY <4>3, <4>4
    <3> QED BY <2>6, <3>1, <3>2, OutstandingChange
  <2> QED BY <2>5, <2>6 DEF OnceInv, StillUnlisted
<1> QED BY <1>0, <1>1, <1>3, <1>4, <1>5, PlaylistsChange

\* However many approvals run at a time, whatever is edited by hand, fails or is
\* applied late: an approval makes a second copy of a track only if the track came
\* into the playlist between the approval's listing and its POST.
THEOREM NothingTwice == Spec => []NoTrackTwice
<1>1. Init => OnceInv
  <2> SUFFICES ASSUME Init PROVE OnceInv
    OBVIOUS
  <2>1. \A p \in Playlists : \A i \in DOMAIN playlists[p] : playlists[p][i].owner = 0
    BY DEF Init
  <2>2. (\A w \in Approvers : tasks[w].pc = "idle") /\ late = {}
    BY DEF Init, NoTask
  <2> QED BY <2>1, <2>2 DEF OnceInv, StillUnlisted, Outstanding, Posting, Abandoned, ApprovedOnce
<1>2. TypeOK /\ OnceInv => NoTrackTwice
  <2> SUFFICES ASSUME TypeOK, OnceInv, NEW p \in Playlists,
                      NEW i \in DOMAIN playlists[p], NEW j \in DOMAIN playlists[p],
                      playlists[p][i].uri = playlists[p][j].uri,
                      playlists[p][i].uri # Unavailable, playlists[p][i].owner > 0,
                      <<p, playlists[p][i].uri>> \notin contested
               PROVE  i = j
    BY DEF NoTrackTwice
  <2>1. ApprovedOnce(playlists[p], Exempt(p))
    BY DEF OnceInv
  <2> QED BY <2>1 DEF ApprovedOnce, Exempt
<1> QED BY <1>1, <1>2, TypeCorrect, StepOnce, PTL DEF Spec

-----------------------------------------------------------------------------
(* What a step may never do, and the promise the request list keeps.       *)

\* An added request is added for good.
THEOREM AddedForGood == Spec => AddedIsFinal
<1>1. ASSUME TypeOK, [Next]_vars, NEW id \in DOMAIN requests, requests[id].status = "added"
      PROVE  /\ id \in DOMAIN requests' /\ requests'[id].status = "added"
             /\ requests'[id].ticket = requests[id].ticket
  <2>1. requests \in [DOMAIN requests -> RowType]
    BY <1>1 DEF TypeOK
  <2> QED BY <1>1, <2>1, RequestsChange
          DEF RowInserted, RowMarked, RowDeleted, IsPending, Pending, InsertRequest, InsertRow,
              MarkRequestAdded, DeleteRequest, RowType
<1>2. TypeOK /\ [Next]_vars =>
      [\A id \in DOMAIN requests :
          requests[id].status = "added" =>
              /\ id \in DOMAIN requests'
              /\ requests'[id].status = "added"
              /\ requests'[id].ticket = requests[id].ticket]_vars
  BY <1>1
<1> QED BY <1>2, TypeCorrect, PTL DEF Spec, AddedIsFinal

\* The request list with its tables, awaits and restarts implements RequestQueue:
\* a submission waits, and is added or denied once and for good.
THEOREM Refinement == Spec => QueueSpec
<1>1. Init => Queue!Init
  BY DEF Init, Queue!Init, TicketsOf, Pending
<1>2. IInv /\ [Next]_vars => [Queue!Next]_Queue!vars
  <2> SUFFICES ASSUME IInv, [Next]_vars PROVE [Queue!Next]_Queue!vars
    OBVIOUS
  <2>0. /\ TypeOK /\ TicketsTrue /\ requests \in [DOMAIN requests -> RowType]
        /\ \A id \in DOMAIN requests : requests[id] \in RowType
    BY DEF IInv, TypeOK
  <2> DEFINE waiting == TicketsOf(Pending(requests))
             added == TicketsOf(DOMAIN requests \ Pending(requests))
  <2>1. ASSUME NEW uri \in Tracks, NEW id \in Nat, RowInserted(uri, id) PROVE Queue!Submit(uri)
    <3>1. /\ DOMAIN requests' = DOMAIN requests \cup {id} /\ id \notin DOMAIN requests
          /\ \A i \in DOMAIN requests : requests'[i] = requests[i]
          /\ requests'[id].status = "pending" /\ requests'[id].ticket = Len(submissions) + 1
      BY <2>1 DEF RowInserted, InsertRequest, InsertRow
    <3>2. Pending(requests)' = Pending(requests) \cup {id}
      BY <3>1 DEF Pending
    <3>3. waiting' = waiting \cup {Len(submissions) + 1}
      BY <3>1, <3>2 DEF TicketsOf, Pending
    <3>4. added' = added
      BY <3>1, <3>2 DEF TicketsOf, Pending
    <3>5. \A ticket \in waiting : submissions[ticket] # uri
      BY <2>0, <2>1 DEF RowInserted, HasPendingDuplicate, TicketsOf, TicketsTrue, Pending
    <3> QED BY <2>1, <3>3, <3>4, <3>5 DEF RowInserted, Queue!Submit
  <2>2. ASSUME NEW w \in Approvers, RowMarked(w)
        PROVE  \/ \E ticket \in waiting : Queue!Add(ticket)
               \/ UNCHANGED <<submissions, waiting, added>>
    <3> DEFINE id == tasks[w].id
    <3>1. /\ DOMAIN requests' = DOMAIN requests
          /\ \A i \in DOMAIN requests : requests'[i].ticket = requests[i].ticket
          /\ \A i \in DOMAIN requests \ {id} : requests'[i].status = requests[i].status
          /\ id \in DOMAIN requests => requests'[id].status = "added"
          /\ submissions' = submissions
      BY <2>0, <2>2 DEF RowMarked, MarkRequestAdded, RowType
    <3> HIDE DEF id
    <3>2. Pending(requests)' = Pending(requests) \ {id}
      BY <3>1 DEF Pending
    <3>3. CASE id \in Pending(requests)
      <4>1. waiting' = waiting \ {requests[id].ticket}
        BY <2>0, <3>1, <3>2, <3>3 DEF TicketsOf, Pending, TicketsTrue
      <4>2. added' = added \cup {requests[id].ticket}
        BY <3>1, <3>2, <3>3 DEF TicketsOf, Pending
      <4>3. requests[id].ticket \in waiting
        BY <3>3 DEF TicketsOf
      <4> QED BY <3>1, <4>1, <4>2, <4>3 DEF Queue!Add
    <3>4. CASE id \notin Pending(requests)
      BY <3>1, <3>2, <3>4 DEF TicketsOf, Pending
    <3> QED BY <3>3, <3>4
  <2>3. ASSUME NEW id \in DOMAIN requests, RowDeleted(id)
        PROVE  \E ticket \in waiting : Queue!Deny(ticket)
    <3>1. /\ DOMAIN requests' = DOMAIN requests \ {id} /\ id \in Pending(requests)
          /\ \A i \in DOMAIN requests' : requests'[i] = requests[i]
          /\ submissions' = submissions
      BY <2>3 DEF RowDeleted, DeleteRequest, IsPending
    <3>2. Pending(requests)' = Pending(requests) \ {id}
      BY <3>1 DEF Pending
    <3>3. waiting' = waiting \ {requests[id].ticket}
      BY <2>0, <3>1, <3>2 DEF TicketsOf, Pending, TicketsTrue
    <3>4. added' = added
      BY <3>1, <3>2 DEF TicketsOf, Pending
    <3> QED BY <3>1, <3>3, <3>4 DEF Queue!Deny, TicketsOf
  <2>4. UNCHANGED <<requests, submissions>> => UNCHANGED <<submissions, waiting, added>>
    BY DEF TicketsOf, Pending
  <2> HIDE DEF waiting, added
  <2>5. \/ \E uri \in Tracks : Queue!Submit(uri)
        \/ \E ticket \in waiting : Queue!Add(ticket) \/ Queue!Deny(ticket)
        \/ UNCHANGED <<submissions, waiting, added>>
    BY <2>0, <2>1, <2>2, <2>3, <2>4, RequestsChange
  <2> QED BY <2>5 DEF Queue!Next, Queue!vars, waiting, added
<1> QED BY <1>1, <1>2, InductiveInvariant, PTL DEF Spec, QueueSpec, Queue!Spec
=============================================================================
