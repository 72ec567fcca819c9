------------------------ MODULE RequestTimeoutProofs ------------------------
(***************************************************************************)
(* The timeout loop does nothing to the tables and to Spotify that an      *)
(* approver of Approval could not do: RequestTimeout implements Approval,  *)
(* and what ApprovalProofs proves of Approval holds beside the loop.       *)
(***************************************************************************)
EXTENDS RequestTimeout, ApprovalProofs

\* The steps of an approval under way are steps of Approval.
LEMMA CallIsNext ==
    ASSUME NEW w \in Approvers, CallStep(w)
    PROVE  Next
<1>1. ApproverStep(w)
    BY DEF ApproverStep
<1> QED
    BY <1>1 DEF Next

\* Starting an approval is a step of Approval.
LEMMA StartIsNext ==
    ASSUME NEW w \in Approvers, NEW id, StartApprove(w, id)
    PROVE  Next
<1>1. id \in DOMAIN requests
    BY DEF StartApprove, IsPending, Pending
<1>2. ApproverStep(w)
    BY <1>1 DEF ApproverStep
<1> QED
    BY <1>2 DEF Next

\* A step of the loop changes nothing of Approval, or starts or continues the
\* approval of System.
LEMMA LoopImplements ==
    ASSUME LoopStep
    PROVE  [Next]_vars
<1>1. System \in Approvers
    BY TimeoutAssumption
<1>2. CASE StartTimeoutTick
    BY <1>2 DEF StartTimeoutTick
<1>3. CASE SendReminder
    BY <1>3 DEF SendReminder
<1>4. CASE MarkReminderSent
    BY <1>4 DEF MarkReminderSent
<1>5. CASE Proceed
    <2>1. CASE UNCHANGED vars
        BY <2>1
    <2>2. CASE \E r \in loop.approvals : StartApprove(System, r.id)
        <3>1. PICK r \in loop.approvals : StartApprove(System, r.id)
            BY <2>2
        <3> QED
            BY <1>1, <3>1, StartIsNext
    <2> QED
        BY <1>5, <2>1, <2>2 DEF Proceed
<1>6. CASE SystemCalls
    <2>1. CallStep(System)
        BY <1>6 DEF SystemCalls
    <2> QED
        BY <1>1, <2>1, CallIsNext
<1> QED
    BY <1>2, <1>3, <1>4, <1>5, <1>6 DEF LoopStep

\* The handlers beside the loop are those of Approval.
LEMMA HandlersImplement ==
    ASSUME HandlerStep
    PROVE  Next
<1>1. CASE \E uri \in Tracks : CreateRequest(uri)
    BY <1>1 DEF Next
<1>2. CASE \E w \in Approvers \ {System} : AdminApproves(w)
    <2>1. PICK w \in Approvers : AdminApproves(w)
        BY <1>2
    <2>2. CASE \E id \in DOMAIN requests : StartApprove(w, id)
        BY <2>2, StartIsNext
    <2>3. CASE CallStep(w)
        BY <2>3, CallIsNext
    <2> QED
        BY <2>1, <2>2, <2>3 DEF AdminApproves
<1>3. CASE \E id \in DOMAIN requests : DenyRequest(id)
    BY <1>3 DEF Next
<1>4. CASE UpdateConfig
    BY <1>4 DEF Next
<1> QED
    BY <1>1, <1>2, <1>3, <1>4 DEF HandlerStep

\* So are Spotify and the restarts.
LEMMA OutsideImplements ==
    ASSUME SpotifyStep \/ Restart
    PROVE  Next
<1>1. CASE SpotifyStep
    BY <1>1 DEF SpotifyStep, Next
<1>2. CASE Crash
    BY <1>2 DEF Next
<1>3. CASE \E w \in Approvers : CrashRecording(w)
    BY <1>3 DEF Next, ApproverStep
<1>4. CASE \E id \in DOMAIN requests : CrashDenying(id)
    BY <1>4 DEF Next
<1> QED
    BY <1>1, <1>2, <1>3, <1>4 DEF Restart

LEMMA StepImplements == [TimeoutNext]_allVars => [Next]_vars
<1> SUFFICES ASSUME [TimeoutNext]_allVars
             PROVE  [Next]_vars
    OBVIOUS
<1>1. CASE LoopStep
    BY <1>1, LoopImplements
<1>2. CASE HandlerStep
    BY <1>2, HandlersImplement
<1>3. CASE SpotifyStep \/ Restart
    BY <1>3, OutsideImplements
<1>4. CASE UpdateTimeout
    BY <1>4 DEF UpdateTimeout
<1>5. CASE MinutePasses
    BY <1>5 DEF MinutePasses
<1>6. CASE ReminderFails
    BY <1>6 DEF ReminderFails
<1>7. CASE UNCHANGED allVars
    BY <1>7 DEF allVars
<1> QED
    BY <1>1, <1>2, <1>3, <1>4, <1>5, <1>6, <1>7 DEF TimeoutNext

\* The loop beside the handlers implements Approval: run_timeout_tick only calls
\* what an admin's button calls.
THEOREM LoopImplementsApproval == TimeoutSpec => Spec
<1>1. TimeoutInit => Init
    BY DEF TimeoutInit
<1> QED
    BY <1>1, StepImplements, PTL DEF TimeoutSpec, Spec

\* So the invariants of Approval hold with the loop running.
THEOREM SafeWithLoop ==
    TimeoutSpec => [](TypeOK /\ OnePendingPerTrack /\ AddedHasEntry
                        /\ EntryMeansInserted /\ AuditNeverAhead /\ InsertionsRecorded
                        /\ NoTrackTwice)
BY LoopImplementsApproval, TypeCorrect, OnePending, AddedEntry, EntryInserted, AuditTrue,
   RecordsAll, NothingTwice, PTL

\* And the list keeps its promise to the guests.
THEOREM QueueWithLoop == TimeoutSpec => QueueSpec
BY LoopImplementsApproval, Refinement, PTL

-----------------------------------------------------------------------------
(* Type correctness of the loop.                                           *)

RowsStamped == stamps \in [DOMAIN requests -> [at : Nat, reminded : BOOLEAN]]

LoopType == [pc : {"sleeping", "mailing", "mailed", "proceed", "approving"}, now : Nat,
             timeout : Nat, reminders : SUBSET SnapshotType, approvals : SUBSET SnapshotType]

\* What the loop knows of itself: it mails while there are reminders, and an
\* approval of System is under way while it awaits one.
LoopTrue ==
    /\ Idle(System) <=> loop.pc # "approving"
    /\ (loop.pc \in {"mailing", "mailed"}) <=> (loop.reminders # {})

\* A new row is stamped, a deleted one loses its stamps, the others keep theirs.
LEMMA StampsFollowType ==
    ASSUME TimeoutTypeOK, StampsFollow
    PROVE  RowsStamped'
<1>1. [at |-> now, reminded |-> FALSE] \in [at : Nat, reminded : BOOLEAN]
  BY DEF TimeoutTypeOK
<1>2. DOMAIN stamps = DOMAIN requests
      /\ \A id \in DOMAIN stamps : stamps[id] \in [at : Nat, reminded : BOOLEAN]
  BY DEF TimeoutTypeOK
<1> QED BY <1>1, <1>2 DEF StampsFollow, RowsStamped

\* Only a submission adds tickets, and none is ever taken back.
LEMMA SnapshotsStayTyped ==
    ASSUME TypeOK, [Next]_vars
    PROVE  SnapshotType \subseteq SnapshotType'
BY SubmissionsKeep DEF SnapshotType

\* The two queries return snapshots of rows.
LEMMA QueryType ==
    ASSUME TypeOK, TimeoutTypeOK, NEW cutoff
    PROVE  /\ NeedingReminder(cutoff) \subseteq SnapshotType
           /\ RequestedBefore(cutoff) \subseteq SnapshotType
<1>1. ASSUME NEW id \in Pending(requests) PROVE Snapshot(id) \in SnapshotType
  <2>1. id \in DOMAIN requests /\ requests[id] \in RowType
        /\ stamps[id] \in [at : Nat, reminded : BOOLEAN]
    BY DEF TypeOK, TimeoutTypeOK, Pending
  <2>2. id \in Nat
    BY <2>1, LenProperties DEF TypeOK, Tickets
  <2> QED BY <2>1, <2>2 DEF Snapshot, SnapshotType, RowType
<1> QED BY <1>1 DEF NeedingReminder, RequestedBefore

LEMMA AsleepTrue == Asleep \in LoopType /\ Asleep.pc = "sleeping" /\ Asleep.reminders = {}
BY DEF Asleep, LoopType

\* The loop is where it was, or further on, with an approval of System or without one.
LEMMA TickType ==
    ASSUME TypeOK, TimeoutTypeOK, StartTimeoutTick
    PROVE  loop' \in LoopType /\ LoopTrue'
<1> DEFINE cutoff == now - (timeout_minutes - REMINDER_LEAD_MINUTES)
           reminders == IF timeout_minutes > REMINDER_LEAD_MINUTES
                        THEN NeedingReminder(cutoff) ELSE {}
           approvals == RequestedBefore(now - timeout_minutes)
<1>1. reminders \subseteq SnapshotType /\ approvals \subseteq SnapshotType
  BY QueryType
<1>2. now \in Nat /\ timeout_minutes \in Nat /\ Idle(System)'
  BY TimeoutAssumption DEF TimeoutTypeOK, StartTimeoutTick, vars, Idle
<1> DEFINE tick == [Asleep EXCEPT !.now = now, !.timeout = timeout_minutes,
                                  !.reminders = reminders]
<1>3. loop' = IF reminders # {} THEN [tick EXCEPT !.pc = "mailing"]
              ELSE [tick EXCEPT !.pc = "proceed", !.approvals = approvals]
  BY Zenon DEF StartTimeoutTick
<1> HIDE DEF reminders, approvals
<1>4. tick \in LoopType /\ tick.reminders = reminders
  BY <1>1, <1>2 DEF Asleep, LoopType
<1> HIDE DEF tick
<1> QED BY <1>1, <1>2, <1>3, <1>4 DEF LoopType, LoopTrue

\* Done with a reminder, the loop has fewer of them, or lists the approvals.
LEMMA AfterType ==
    ASSUME TypeOK, TimeoutTypeOK, NEW r \in loop.reminders, AfterReminder(r),
           loop.pc \in {"mailing", "mailed"}, UNCHANGED vars
    PROVE  loop' \in LoopType /\ LoopTrue' /\ loop'.reminders = loop.reminders \ {r}
<1>1. loop' = IF loop.reminders # {r}
              THEN [loop EXCEPT !.pc = "mailing", !.reminders = @ \ {r}]
              ELSE [loop EXCEPT !.pc = "proceed", !.reminders = {},
                       !.approvals = RequestedBefore(loop.now - loop.timeout)]
  BY DEF AfterReminder
<1>2. loop \in LoopType /\ Idle(System)'
  BY DEF TimeoutTypeOK, LoopType, vars, Idle
<1>3. RequestedBefore(loop.now - loop.timeout) \subseteq SnapshotType
  BY QueryType
<1>4. CASE loop.reminders # {r}
  <2>1. loop' = [loop EXCEPT !.pc = "mailing", !.reminders = loop.reminders \ {r}]
    BY <1>1, <1>4
  <2>2. loop.reminders \ {r} # {} /\ loop.reminders \ {r} \subseteq SnapshotType
    BY <1>2, <1>4 DEF LoopType
  <2> QED BY <1>2, <2>1, <2>2 DEF LoopType, LoopTrue
<1>5. CASE loop.reminders = {r}
  BY <1>1, <1>2, <1>3, <1>5 DEF LoopType, LoopTrue
<1> QED BY <1>4, <1>5

LEMMA MarkType ==
    ASSUME TypeOK, TimeoutTypeOK, MarkReminderSent
    PROVE  /\ RowsStamped'
           /\ loop' \in LoopType
           /\ LoopTrue'
<1>1. PICK r \in loop.reminders :
         /\ stamps' = [id \in DOMAIN stamps |->
                           IF id = r.id THEN [stamps[id] EXCEPT !.reminded = TRUE]
                                        ELSE stamps[id]]
         /\ AfterReminder(r)
  BY DEF MarkReminderSent
<1>2. UNCHANGED requests /\ UNCHANGED vars /\ loop.pc = "mailed"
  BY DEF MarkReminderSent, vars, database
<1>3. RowsStamped'
  BY <1>1, <1>2 DEF TimeoutTypeOK, RowsStamped
<1> QED BY <1>1, <1>2, <1>3, AfterType

LEMMA ProceedType ==
    ASSUME TypeOK, TimeoutTypeOK, Proceed
    PROVE  loop' \in LoopType /\ LoopTrue'
<1>1. /\ loop \in LoopType /\ loop.pc = "proceed" /\ loop.reminders = {}
      /\ System \in Approvers /\ Idle(System)
  BY TimeoutAssumption DEF TimeoutTypeOK, LoopType, Proceed
<1>2. CASE loop' = Asleep /\ UNCHANGED vars
  BY <1>1, <1>2, AsleepTrue DEF LoopTrue, vars, Idle
<1>3. ASSUME NEW r \in loop.approvals, StartApprove(System, r.id),
             loop' = [loop EXCEPT !.pc = "approving",
                                  !.approvals = {s \in @ : Older(r, s)}]
      PROVE  loop' \in LoopType /\ LoopTrue'
  <2>1. ~Idle(System)'
    BY <1>1, <1>3 DEF StartApprove, TypeOK, Idle, NoTask
  <2>2. {s \in loop.approvals : Older(r, s)} \subseteq SnapshotType
    BY <1>1 DEF LoopType
  <2>3. loop' = [loop EXCEPT !.pc = "approving",
                             !.approvals = {s \in loop.approvals : Older(r, s)}]
    BY <1>3
  <2> QED BY <1>1, <2>1, <2>2, <2>3 DEF LoopType, LoopTrue
<1> QED BY <1>2, <1>3 DEF Proceed

\* The approvals of the others leave that of System alone.
LEMMA SystemUntouched ==
    ASSUME TypeOK, HandlerStep \/ SpotifyStep
    PROVE  tasks'[System] = tasks[System]
<1>0. System \in Approvers /\ tasks \in [Approvers -> TaskType]
  BY TimeoutAssumption DEF TypeOK
<1> HIDE DEF NoTask
<1>1. ASSUME NEW w \in Approvers \ {System}, AdminApproves(w)
      PROVE  tasks'[System] = tasks[System]
  BY <1>0, <1>1 DEF AdminApproves, CallStep, StartApprove, ListPlaylist, LocatePlayback, CallFails,
                    SpotifyInsert, RecordInsertion, Finish
<1> QED BY <1>1 DEF HandlerStep, SpotifyStep, CreateRequest, DenyRequest, UpdateConfig, LateInsert,
                    ChangePlayback, EditPlaylist

LEMMA TimeoutStepTypeOK == TypeOK /\ TimeoutTypeOK /\ [TimeoutNext]_allVars => TimeoutTypeOK'
<1> SUFFICES ASSUME TypeOK, TimeoutTypeOK, [TimeoutNext]_allVars PROVE TimeoutTypeOK'
  OBVIOUS
<1> DEFINE Clock == now \in Nat /\ timeout_minutes \in TimeoutChoices
           Mails == mails \in Seq(Tickets) /\ unmarked \in Seq(Tickets)
<1>0. /\ Clock /\ RowsStamped /\ loop \in LoopType /\ LoopTrue /\ Mails
      /\ [Next]_vars /\ System \in Approvers
  BY StepImplements, TimeoutAssumption DEF TimeoutTypeOK, RowsStamped, LoopType, LoopTrue
<1>1. SnapshotType \subseteq SnapshotType' /\ Tickets \subseteq Tickets'
  BY <1>0, SnapshotsStayTyped, SubmissionsKeep
<1>2. LoopType \subseteq LoopType'
  BY <1>1 DEF LoopType
<1>3. Seq(Tickets) \subseteq Seq(Tickets')
  BY <1>1, SeqMonotonic
<1> SUFFICES Clock' /\ RowsStamped' /\ loop' \in LoopType' /\ LoopTrue' /\ Mails'
  BY DEF TimeoutTypeOK, RowsStamped, LoopType, LoopTrue
<1> USE DEF reminded
<1>4. CASE StartTimeoutTick
  BY <1>0, <1>2, <1>3, <1>4, TickType DEF StartTimeoutTick, RowsStamped, vars, database
<1>5. CASE SendReminder
  <2>1. PICK r \in loop.reminders : mails' = Append(mails, r.ticket) /\ unmarked' = unmarked
    BY <1>5 DEF SendReminder
  <2>2. r.ticket \in Tickets
    BY <1>0 DEF LoopType, SnapshotType
  <2>3. Mails'
    BY <1>0, <1>3, <2>1, <2>2, AppendProperties
  <2>4. loop' = [loop EXCEPT !.pc = "mailed"] /\ loop.pc = "mailing" /\ UNCHANGED tasks
    BY <1>5 DEF SendReminder, vars
  <2>5. loop' \in LoopType /\ LoopTrue'
    BY <1>0, <2>4 DEF LoopType, LoopTrue, Idle
  <2> QED BY <1>0, <1>2, <1>5, <2>3, <2>5 DEF SendReminder, RowsStamped, vars, database
<1>6. CASE MarkReminderSent
  BY <1>0, <1>2, <1>3, <1>6, MarkType DEF MarkReminderSent
<1>7. CASE Proceed
  <2>1. UNCHANGED requests
    BY <1>7 DEF Proceed, StartApprove, vars, database
  <2> QED BY <1>0, <1>2, <1>3, <1>7, <2>1, ProceedType DEF Proceed, RowsStamped
<1>8. CASE SystemCalls
  <2>1. loop' = (IF tasks'[System].pc = "idle" THEN [loop EXCEPT !.pc = "proceed"] ELSE loop)
        /\ loop.pc = "approving" /\ loop.reminders = {}
    BY <1>0, <1>8 DEF SystemCalls, LoopTrue
  <2>2. loop' \in LoopType /\ LoopTrue'
    BY <1>0, <2>1 DEF LoopType, LoopTrue, Idle
  <2> QED BY <1>0, <1>2, <1>3, <1>8, <2>2, StampsFollowType DEF SystemCalls
<1>9. CASE HandlerStep
  <2>1. LoopTrue'
    BY <1>0, <1>9, SystemUntouched DEF HandlerStep, LoopTrue, Idle
  <2> QED BY <1>0, <1>2, <1>3, <1>9, <2>1, StampsFollowType DEF HandlerStep
<1>10. CASE SpotifyStep
  <2>1. LoopTrue' /\ UNCHANGED requests
    BY <1>0, <1>10, SystemUntouched
       DEF SpotifyStep, LoopTrue, Idle, timeoutVars, LateInsert, ChangePlayback, EditPlaylist, database
  <2> QED BY <1>0, <1>2, <1>3, <1>10, <2>1 DEF SpotifyStep, timeoutVars, RowsStamped
<1>11. CASE Restart
  <2>1. Idle(System)' /\ loop' = Asleep
    BY <1>0, <1>11 DEF Restart, Crash, CrashRecording, CrashDenying, Dies, Idle, NoTask
  <2>2. unmarked' \in Seq(Tickets)
    <3>1. CASE loop.pc = "mailed"
      <4>1. PICK r \in loop.reminders : unmarked' = Append(unmarked, r.ticket)
        BY <1>11, <3>1 DEF Restart, IsOldest
      <4>2. r.ticket \in Tickets
        BY <1>0 DEF LoopType, SnapshotType
      <4> QED BY <1>0, <4>1, <4>2, AppendProperties
    <3>2. CASE loop.pc # "mailed"
      BY <1>0, <1>11, <3>2 DEF Restart
    <3> QED BY <3>1, <3>2
  <2> QED BY <1>0, <1>2, <1>3, <1>11, <2>1, <2>2, AsleepTrue, StampsFollowType
          DEF Restart, LoopTrue
<1>12. CASE UpdateTimeout
  BY <1>0, <1>2, <1>3, <1>12 DEF UpdateTimeout, RowsStamped, LoopTrue, Idle, vars, database
<1>13. CASE MinutePasses
  BY <1>0, <1>2, <1>3, <1>13 DEF MinutePasses, RowsStamped, LoopTrue, Idle, vars, database
<1>14. CASE ReminderFails
  <2>1. PICK r \in loop.reminders :
           /\ loop.pc \in {"mailing", "mailed"}
           /\ unmarked' = unmarked \/ unmarked' = Append(unmarked, r.ticket)
           /\ AfterReminder(r)
    BY <1>14 DEF ReminderFails
  <2>2. r.ticket \in Tickets
    BY <1>0 DEF LoopType, SnapshotType
  <2>3. unmarked' \in Seq(Tickets)
    BY <1>0, <2>1, <2>2, AppendProperties
  <2>4. UNCHANGED <<vars, requests, now, timeout_minutes, stamps, mails>>
    BY <1>14 DEF ReminderFails, vars, database
  <2>5. loop' \in LoopType /\ LoopTrue'
    BY <2>1, <2>4, AfterType
  <2> QED BY <1>0, <1>2, <1>3, <2>3, <2>4, <2>5 DEF RowsStamped
<1>15. CASE UNCHANGED allVars
  BY <1>0, <1>2, <1>3, <1>15
     DEF allVars, timeoutVars, RowsStamped, LoopTrue, Idle, vars, database
<1> QED BY <1>4, <1>5, <1>6, <1>7, <1>8, <1>9, <1>10, <1>11, <1>12, <1>13, <1>14, <1>15
        DEF TimeoutNext, LoopStep

\* Beside any handlers and across restarts, every row has its stamps, the loop
\* mails while it has reminders left, and it awaits an approval of System exactly
\* while one is under way.
THEOREM TimeoutTypeCorrect == TimeoutSpec => []TimeoutTypeOK
<1>1. TimeoutInit => TimeoutTypeOK
  <2> SUFFICES ASSUME TimeoutInit PROVE TimeoutTypeOK
    OBVIOUS
  <2>1. /\ Idle(System) /\ DOMAIN requests = {} /\ requests = <<>> /\ stamps = <<>>
        /\ mails = <<>> /\ unmarked = <<>> /\ loop = Asleep
    BY TimeoutAssumption DEF TimeoutInit, Init, Idle, NoTask
  <2>2. stamps \in [DOMAIN requests -> [at : Nat, reminded : BOOLEAN]]
        /\ mails \in Seq(Tickets) /\ unmarked \in Seq(Tickets)
    BY <2>1
  <2> QED BY <2>1, <2>2 DEF TimeoutInit, TimeoutTypeOK, Asleep
<1>2. TimeoutSpec => []TypeOK
  BY LoopImplementsApproval, TypeCorrect, PTL
<1> QED BY <1>1, <1>2, TimeoutStepTypeOK, PTL DEF TimeoutSpec

-----------------------------------------------------------------------------
(* A request is reminded of once, and again for each mark lost.            *)

\* The reminders of a tick are of different rows and requests, and a request that
\* still has a row has the one its reminder names.
SnapshotsTrue ==
    \A r \in loop.reminders :
        /\ \A id \in DOMAIN requests : requests[id].ticket = r.ticket => id = r.id
        /\ \A s \in loop.reminders : r.id = s.id \/ r.ticket = s.ticket => r = s

\* The reminder mailed, and not marked as sent yet, is the ticket's.
MailedNow(ticket) ==
    /\ loop.pc = "mailed"
    /\ \E r \in loop.reminders : r.ticket = ticket /\ IsOldest(r, loop.reminders)

\* A reminder of the ticket is on the list of a tick, or will be on the next one.
Unreminded(ticket) ==
    \/ \E id \in DOMAIN requests : requests[id].ticket = ticket /\ ~stamps[id].reminded
    \/ \E r \in loop.reminders : r.ticket = ticket

\* Inductive: once a request has had one mail more than it lost marks, its row is
\* marked or gone, or will be before the loop mails again.
MailsCounted ==
    \A ticket \in Tickets :
        \/ Cardinality(MailsFor(ticket)) <= Cardinality(MarksLost(ticket))
        \/ /\ Cardinality(MailsFor(ticket)) = Cardinality(MarksLost(ticket)) + 1
           /\ MailedNow(ticket) \/ ~Unreminded(ticket)

\* Only one reminder is the oldest.
LEMMA OneOldest ==
    ASSUME TimeoutTypeOK, SnapshotsTrue, NEW r, NEW s,
           IsOldest(r, loop.reminders), IsOldest(s, loop.reminders)
    PROVE  r = s
<1>1. r \in loop.reminders /\ s \in loop.reminders
  BY DEF IsOldest
<1>2. r \in SnapshotType /\ s \in SnapshotType
  BY <1>1 DEF TimeoutTypeOK
<1>3. ~Older(r, s) /\ ~Older(s, r)
  BY <1>1 DEF IsOldest
<1>4. r.id = s.id
  BY <1>2, <1>3 DEF Older, SnapshotType
<1> QED BY <1>1, <1>4 DEF SnapshotsTrue

\* The places of a ticket in a list of tickets.
Named(list, ticket) == {m \in DOMAIN list : list[m] = ticket}

\* They can be counted, and those of a ticket not issued are none.
LEMMA NamedFinite ==
    ASSUME NEW S, NEW list \in Seq(S), NEW ticket
    PROVE  /\ IsFiniteSet(Named(list, ticket))
           /\ Cardinality(Named(list, ticket)) \in Nat
           /\ ticket \notin S => Named(list, ticket) = {}
<1>1. /\ DOMAIN list = 1 .. Len(list) /\ Len(list) \in Nat
      /\ \A m \in 1 .. Len(list) : list[m] \in S
  BY LenProperties, ElementOfSeq
<1>2. IsFiniteSet(1 .. Len(list)) /\ Named(list, ticket) \subseteq 1 .. Len(list)
  BY <1>1, FS_Interval DEF Named
<1>3. IsFiniteSet(Named(list, ticket))
  BY <1>2, FS_Subset
<1>4. ticket \notin S => Named(list, ticket) = {}
  BY <1>1 DEF Named
<1> QED BY <1>3, <1>4, FS_CardinalityType

\* One more in the list counts for its own ticket, and for no other.
LEMMA NamedAppend ==
    ASSUME NEW S, NEW list \in Seq(S), NEW added \in S, NEW ticket
    PROVE  Cardinality(Named(Append(list, added), ticket)) =
               Cardinality(Named(list, ticket)) + (IF ticket = added THEN 1 ELSE 0)
<1> DEFINE after == Append(list, added)
           before == Named(list, ticket)
<1>1. /\ after \in Seq(S) /\ Len(after) = Len(list) + 1 /\ Len(list) \in Nat
      /\ \A m \in 1 .. Len(list) : after[m] = list[m]
      /\ after[Len(list) + 1] = added
      /\ DOMAIN list = 1 .. Len(list) /\ DOMAIN after = 1 .. Len(list) + 1
  BY AppendProperties, LenProperties
<1>2. /\ IsFiniteSet(before) /\ Cardinality(before) \in Nat
      /\ Len(list) + 1 \notin before
  <2>1. IsFiniteSet(before) /\ Cardinality(before) \in Nat
    BY NamedFinite
  <2>2. Len(list) + 1 \notin before
    BY <1>1 DEF Named
  <2> QED BY <2>1, <2>2
<1>3. CASE ticket = added
  <2>1. Named(after, ticket) = before \cup {Len(list) + 1}
    BY <1>1, <1>3 DEF Named
  <2>2. Cardinality(before \cup {Len(list) + 1}) = Cardinality(before) + 1
    <3> HIDE DEF before
    <3> QED BY <1>2, FS_AddElement
  <2> QED BY <1>3, <2>1, <2>2
<1>4. CASE ticket # added
  <2>1. Named(after, ticket) = before
    BY <1>1, <1>4 DEF Named
  <2> QED BY <1>2, <1>4, <2>1
<1> QED BY <1>3, <1>4

LEMMA MailCounts ==
    ASSUME TimeoutTypeOK, NEW ticket
    PROVE  /\ Cardinality(MailsFor(ticket)) \in Nat
           /\ Cardinality(MarksLost(ticket)) \in Nat
           /\ ticket \notin Tickets => Cardinality(MailsFor(ticket)) = 0
<1>1. mails \in Seq(Tickets) /\ unmarked \in Seq(Tickets)
  BY DEF TimeoutTypeOK
<1>2. MailsFor(ticket) = Named(mails, ticket) /\ MarksLost(ticket) = Named(unmarked, ticket)
  BY DEF MailsFor, MarksLost, Named
<1>3. /\ Cardinality(Named(mails, ticket)) \in Nat
      /\ Cardinality(Named(unmarked, ticket)) \in Nat
      /\ ticket \notin Tickets => Named(mails, ticket) = {}
  BY <1>1, NamedFinite
<1> QED BY <1>2, <1>3, FS_EmptySet

\* A mail counts for its ticket, and for no other.
LEMMA MailAdded ==
    ASSUME TimeoutTypeOK, NEW r \in loop.reminders, mails' = Append(mails, r.ticket),
           NEW ticket
    PROVE  Cardinality(MailsFor(ticket)') =
               Cardinality(MailsFor(ticket)) + (IF ticket = r.ticket THEN 1 ELSE 0)
<1>1. mails \in Seq(Tickets) /\ r.ticket \in Tickets
  BY DEF TimeoutTypeOK, SnapshotType
<1>2. MailsFor(ticket) = Named(mails, ticket)
      /\ MailsFor(ticket)' = Named(Append(mails, r.ticket), ticket)
  BY DEF MailsFor, Named
<1> QED BY <1>1, <1>2, NamedAppend

\* So does a mark that is lost.
LEMMA MarkLost ==
    ASSUME TimeoutTypeOK, NEW r \in loop.reminders, unmarked' = Append(unmarked, r.ticket),
           NEW ticket
    PROVE  Cardinality(MarksLost(ticket)') =
               Cardinality(MarksLost(ticket)) + (IF ticket = r.ticket THEN 1 ELSE 0)
<1>1. unmarked \in Seq(Tickets) /\ r.ticket \in Tickets
  BY DEF TimeoutTypeOK, SnapshotType
<1>2. MarksLost(ticket) = Named(unmarked, ticket)
      /\ MarksLost(ticket)' = Named(Append(unmarked, r.ticket), ticket)
  BY DEF MarksLost, Named
<1> QED BY <1>1, <1>2, NamedAppend

\* A reminder is mailed, and the exception comes before the mark.
MarkFails == ReminderFails /\ loop.pc = "mailed"

\* What every step keeps that is not about a reminder mailed: a reminder on the list
\* was there before, and a row that awaits one did, or is new.
Keeps ==
    /\ mails' = mails /\ unmarked' = unmarked
    /\ loop'.reminders \subseteq loop.reminders
    /\ loop.pc = "mailed" => loop' = loop
    /\ \A id \in DOMAIN requests' :
          \/ requests'[id].ticket = Len(submissions) + 1
          \/ /\ id \in DOMAIN requests
             /\ requests'[id].ticket = requests[id].ticket
             /\ stamps'[id] = stamps[id]

\* Rows keep their tickets, and with StampsFollow their stamps.
LEMMA RowsKeep ==
    ASSUME TypeOK, TimeoutTypeOK, [Next]_vars, StampsFollow \/ UNCHANGED <<requests, stamps>>,
           NEW id \in DOMAIN requests'
    PROVE  \/ requests'[id].ticket = Len(submissions) + 1
           \/ /\ id \in DOMAIN requests
              /\ requests'[id].ticket = requests[id].ticket
              /\ stamps'[id] = stamps[id]
<1>1. DOMAIN stamps = DOMAIN requests
  BY DEF TimeoutTypeOK
<1>2. id \in DOMAIN requests => stamps'[id] = stamps[id]
  BY <1>1 DEF StampsFollow
<1> QED BY <1>2, RowTickets

LEMMA OtherStepsKeep ==
    ASSUME TypeOK, TimeoutTypeOK, [TimeoutNext]_allVars,
           ~StartTimeoutTick, ~SendReminder, ~MarkReminderSent, ~MarkFails, ~Restart
    PROVE  Keeps
<1> USE DEF reminded
<1>0. [Next]_vars
  BY StepImplements
<1>1. CASE Proceed
  <2>1. loop.reminders = {} /\ loop.pc = "proceed"
    BY <1>1 DEF TimeoutTypeOK, Proceed
  <2>2. loop'.reminders = {}
    <3>1. loop \in LoopType
      BY DEF TimeoutTypeOK, LoopType
    <3>2. CASE loop' = Asleep
      BY <3>2 DEF Asleep
    <3>3. ASSUME NEW r, loop' = [loop EXCEPT !.pc = "approving",
                                             !.approvals = {s \in @ : Older(r, s)}]
          PROVE  loop'.reminders = {}
      BY <2>1, <3>1, <3>3 DEF LoopType
    <3> QED BY <1>1, <3>2, <3>3 DEF Proceed
  <2>3. UNCHANGED <<requests, stamps, mails, unmarked>>
    BY <1>1 DEF Proceed, StartApprove, vars, database
  <2> QED BY <1>0, <2>1, <2>2, <2>3, RowsKeep DEF Keeps
<1>2. CASE SystemCalls
  <2>1. loop.reminders = {} /\ loop.pc = "approving"
    BY <1>2 DEF TimeoutTypeOK, SystemCalls
  <2>2. loop'.reminders = {}
    BY <1>2, <2>1 DEF SystemCalls, TimeoutTypeOK
  <2> QED BY <1>0, <1>2, <2>1, <2>2, RowsKeep DEF Keeps, SystemCalls
<1>3. CASE HandlerStep
  BY <1>0, <1>3, RowsKeep DEF Keeps, HandlerStep
<1>4. CASE SpotifyStep
  <2>1. UNCHANGED <<requests, stamps, mails, unmarked, loop>>
    BY <1>4 DEF SpotifyStep, timeoutVars, LateInsert, ChangePlayback, EditPlaylist, database
  <2> QED BY <1>0, <2>1, RowsKeep DEF Keeps
<1>5. CASE UpdateTimeout \/ MinutePasses \/ UNCHANGED allVars
  <2>1. UNCHANGED <<requests, stamps, mails, unmarked, loop>>
    BY <1>5 DEF UpdateTimeout, MinutePasses, allVars, timeoutVars, vars, database
  <2> QED BY <1>0, <2>1, RowsKeep DEF Keeps
<1>6. CASE ReminderFails
  <2>1. UNCHANGED <<requests, stamps, mails, vars>> /\ loop.pc = "mailing" /\ unmarked' = unmarked
    BY <1>6 DEF ReminderFails, MarkFails, vars, database
  <2>2. loop'.reminders \subseteq loop.reminders
    <3>1. PICK r \in loop.reminders : AfterReminder(r)
      BY <1>6 DEF ReminderFails
    <3> QED BY <2>1, <3>1, AfterType
  <2> QED BY <1>0, <2>1, <2>2, RowsKeep DEF Keeps
<1> QED BY <1>1, <1>2, <1>3, <1>4, <1>5, <1>6 DEF TimeoutNext, LoopStep

\* A restart forgets the list and keeps the rows.
LEMMA RestartKeeps ==
    ASSUME TypeOK, TimeoutTypeOK, Restart
    PROVE  /\ mails' = mails /\ loop'.reminders = {}
           /\ \A id \in DOMAIN requests' :
                 \/ requests'[id].ticket = Len(submissions) + 1
                 \/ /\ id \in DOMAIN requests
                    /\ requests'[id].ticket = requests[id].ticket
                    /\ stamps'[id] = stamps[id]
<1>1. [Next]_vars
  BY OutsideImplements
<1> QED BY <1>1, RowsKeep DEF Restart, Asleep

\* The reminders of a tick are of rows that nobody was reminded of.
LEMMA TickLists ==
    ASSUME StartTimeoutTick, NEW r \in loop'.reminders
    PROVE  \E id \in DOMAIN requests : r = Snapshot(id) /\ ~stamps[id].reminded
<1> DEFINE cutoff == now - (timeout_minutes - REMINDER_LEAD_MINUTES)
           reminders == IF timeout_minutes > REMINDER_LEAD_MINUTES
                        THEN NeedingReminder(cutoff) ELSE {}
           approvals == RequestedBefore(now - timeout_minutes)
           tick == [Asleep EXCEPT !.now = now, !.timeout = timeout_minutes,
                                  !.reminders = reminders]
<1>1. loop' = IF reminders # {} THEN [tick EXCEPT !.pc = "mailing"]
              ELSE [tick EXCEPT !.pc = "proceed", !.approvals = approvals]
  BY Zenon DEF StartTimeoutTick
<1>2. \A s \in reminders : \E id \in DOMAIN requests : s = Snapshot(id) /\ ~stamps[id].reminded
  BY DEF NeedingReminder, Pending
<1> HIDE DEF reminders, approvals
<1>3. loop'.reminders = reminders
  BY <1>1 DEF Asleep
<1> QED BY <1>2, <1>3

LEMMA StepSnapshotsTrue ==
    TypeOK /\ TicketsTrue /\ TimeoutTypeOK /\ SnapshotsTrue /\ [TimeoutNext]_allVars
        => SnapshotsTrue'
<1> SUFFICES ASSUME TypeOK, TicketsTrue, TimeoutTypeOK, SnapshotsTrue, [TimeoutNext]_allVars
             PROVE  SnapshotsTrue'
  OBVIOUS
<1>0. /\ \A r \in loop.reminders : r.ticket \in Tickets
      /\ Len(submissions) + 1 \notin Tickets
  BY LenProperties DEF TimeoutTypeOK, SnapshotType, TypeOK, Tickets
<1>1. CASE StartTimeoutTick
  <2>1. UNCHANGED requests
    BY <1>1 DEF StartTimeoutTick, vars, database
  <2>2. \A r \in loop'.reminders : \E id \in DOMAIN requests : r = Snapshot(id)
    BY <1>1, TickLists
  <2> QED BY <2>1, <2>2 DEF SnapshotsTrue, TicketsTrue, Snapshot
<1>2. CASE SendReminder
  <2>1. UNCHANGED requests /\ loop'.reminders = loop.reminders
    BY <1>2 DEF SendReminder, vars, database, TimeoutTypeOK
  <2> QED BY <2>1 DEF SnapshotsTrue
<1>3. CASE MarkReminderSent \/ MarkFails
  <2>1. UNCHANGED <<vars, requests>> /\ loop.pc = "mailed"
    BY <1>3 DEF MarkReminderSent, MarkFails, ReminderFails, vars, database
  <2>2. PICK r \in loop.reminders : AfterReminder(r)
    BY <1>3 DEF MarkReminderSent, MarkFails, ReminderFails
  <2>3. loop'.reminders \subseteq loop.reminders
    BY <2>1, <2>2, AfterType
  <2> QED BY <2>1, <2>3 DEF SnapshotsTrue
<1>4. CASE Restart
  BY <1>4, RestartKeeps DEF SnapshotsTrue
<1>5. CASE Keeps
  BY <1>0, <1>5 DEF Keeps, SnapshotsTrue
<1> QED BY <1>1, <1>2, <1>3, <1>4, <1>5, OtherStepsKeep

\* The reminder the loop is at, mailed, is taken off its list.
LEMMA ReminderDone ==
    ASSUME TypeOK, TimeoutTypeOK, SnapshotsTrue, MarkReminderSent \/ MarkFails
    PROVE  \E r \in loop.reminders :
              /\ IsOldest(r, loop.reminders)
              /\ loop'.reminders = loop.reminders \ {r}
              /\ \A ticket : MailedNow(ticket) <=> ticket = r.ticket
              /\ MarkReminderSent => /\ unmarked' = unmarked
                                     /\ stamps' = [id \in DOMAIN stamps |->
                                           IF id = r.id THEN [stamps[id] EXCEPT !.reminded = TRUE]
                                                        ELSE stamps[id]]
              /\ MarkFails => unmarked' = Append(unmarked, r.ticket) /\ stamps' = stamps
<1>1. loop.pc = "mailed" /\ UNCHANGED vars
  BY DEF MarkReminderSent, MarkFails, ReminderFails
<1>2. ASSUME NEW r \in loop.reminders, IsOldest(r, loop.reminders), AfterReminder(r)
      PROVE  /\ loop'.reminders = loop.reminders \ {r}
             /\ \A ticket : MailedNow(ticket) <=> ticket = r.ticket
  BY <1>1, <1>2, AfterType, OneOldest DEF MailedNow
<1>3. CASE MarkFails
  <2>1. PICK r \in loop.reminders : /\ IsOldest(r, loop.reminders) /\ AfterReminder(r)
                                    /\ unmarked' = Append(unmarked, r.ticket)
    BY <1>3 DEF MarkFails, ReminderFails
  <2>3. MarkReminderSent => FALSE
    <3>1. unmarked \in Seq(Tickets)
      BY DEF TimeoutTypeOK
    <3>2. r.ticket \in Tickets
      BY DEF TimeoutTypeOK, SnapshotType
    <3>3. Len(unmarked') # Len(unmarked)
      BY <2>1, <3>1, <3>2, AppendProperties, LenProperties
    <3> QED BY <3>3 DEF MarkReminderSent, reminded
  <2>4. stamps' = stamps
    BY <1>3 DEF MarkFails, ReminderFails
  <2> QED BY <1>2, <2>1, <2>3, <2>4
<1>4. CASE MarkReminderSent /\ ~MarkFails
  <2>1. PICK r \in loop.reminders :
           /\ IsOldest(r, loop.reminders)
           /\ stamps' = [id \in DOMAIN stamps |->
                             IF id = r.id THEN [stamps[id] EXCEPT !.reminded = TRUE]
                                          ELSE stamps[id]]
           /\ AfterReminder(r)
    BY <1>4 DEF MarkReminderSent
  <2>2. unmarked' = unmarked
    BY <1>4 DEF MarkReminderSent, reminded
  <2> QED BY <1>2, <1>4, <2>1, <2>2
<1> QED BY <1>3, <1>4

LEMMA StepMailsCounted ==
    TypeOK /\ TimeoutTypeOK /\ SnapshotsTrue /\ MailsCounted /\ [TimeoutNext]_allVars
        => MailsCounted'
<1> SUFFICES ASSUME TypeOK, TimeoutTypeOK, SnapshotsTrue, MailsCounted, [TimeoutNext]_allVars,
                    NEW ticket \in Tickets'
             PROVE  \/ Cardinality(MailsFor(ticket)') <= Cardinality(MarksLost(ticket)')
                    \/ /\ Cardinality(MailsFor(ticket)') = Cardinality(MarksLost(ticket)') + 1
                       /\ MailedNow(ticket)' \/ ~Unreminded(ticket)'
  BY DEF MailsCounted
<1>0. PICK n, u : n = Cardinality(MailsFor(ticket)) /\ u = Cardinality(MarksLost(ticket))
  OBVIOUS
<1>1. PICK m, v : m = Cardinality(MailsFor(ticket)') /\ v = Cardinality(MarksLost(ticket)')
  OBVIOUS
<1> SUFFICES m <= v \/ (m = v + 1 /\ (MailedNow(ticket)' \/ ~Unreminded(ticket)'))
  BY <1>1
<1>2. n \in Nat /\ u \in Nat /\ (ticket \notin Tickets => n = 0)
  BY <1>0, MailCounts
<1>3. \/ n <= u
      \/ n = u + 1 /\ ticket \in Tickets /\ (MailedNow(ticket) \/ ~Unreminded(ticket))
  BY <1>0, <1>2 DEF MailsCounted
<1>4. (mails' = mails => m = n) /\ (unmarked' = unmarked => v = u)
  BY <1>0, <1>1 DEF MailsFor, MarksLost
<1>5. CASE StartTimeoutTick
  <2>1. UNCHANGED <<mails, unmarked, requests, stamps>> /\ ~MailedNow(ticket)
    BY <1>5 DEF StartTimeoutTick, vars, database, MailedNow, reminded
  <2>2. Unreminded(ticket)' => Unreminded(ticket)
    <3> SUFFICES ASSUME NEW r \in loop'.reminders, r.ticket = ticket
                 PROVE  Unreminded(ticket)
      BY <2>1 DEF Unreminded
    <3>1. PICK id \in DOMAIN requests : r = Snapshot(id) /\ ~stamps[id].reminded
      BY <1>5, TickLists
    <3> QED BY <3>1 DEF Snapshot, Unreminded
  <2> QED BY <1>3, <1>4, <2>1, <2>2
<1>6. CASE SendReminder
  <2>1. PICK r \in loop.reminders :
           IsOldest(r, loop.reminders) /\ mails' = Append(mails, r.ticket)
    BY <1>6 DEF SendReminder
  <2>2. /\ UNCHANGED <<requests, stamps, unmarked>> /\ ~MailedNow(ticket)
        /\ loop'.pc = "mailed" /\ loop'.reminders = loop.reminders
    BY <1>6 DEF SendReminder, vars, database, MailedNow, TimeoutTypeOK
  <2>3. m = n + (IF ticket = r.ticket THEN 1 ELSE 0) /\ v = u
    BY <1>0, <1>1, <1>4, <2>1, <2>2, MailAdded
  <2>4. CASE ticket = r.ticket
    <3>1. n <= u
      BY <1>3, <2>2, <2>4 DEF Unreminded
    <3>2. MailedNow(ticket)'
      BY <2>1, <2>2, <2>4 DEF MailedNow
    <3>3. m = n + 1
      BY <2>3, <2>4
    <3>4. m <= v \/ m = v + 1
      BY <1>2, <2>3, <3>1, <3>3
    <3> QED BY <3>2, <3>4
  <2>5. CASE ticket # r.ticket
    <3>1. m = n /\ v = u
      BY <1>2, <2>3, <2>5
    <3>2. Unreminded(ticket)' => Unreminded(ticket)
      BY <2>2 DEF Unreminded
    <3> QED BY <1>3, <2>2, <3>1, <3>2
  <2> QED BY <2>4, <2>5
<1>7. CASE MarkReminderSent \/ MarkFails
  <2>1. PICK r \in loop.reminders :
           /\ IsOldest(r, loop.reminders)
           /\ loop'.reminders = loop.reminders \ {r}
           /\ MailedNow(ticket) <=> ticket = r.ticket
           /\ MarkReminderSent => /\ unmarked' = unmarked
                                  /\ stamps' = [id \in DOMAIN stamps |->
                                        IF id = r.id THEN [stamps[id] EXCEPT !.reminded = TRUE]
                                                     ELSE stamps[id]]
           /\ MarkFails => unmarked' = Append(unmarked, r.ticket) /\ stamps' = stamps
    BY <1>7, ReminderDone
  <2>2. m = n /\ UNCHANGED requests
    BY <1>4, <1>7 DEF MarkReminderSent, MarkFails, ReminderFails, vars, database, reminded
  <2>3. DOMAIN stamps = DOMAIN requests
    BY DEF TimeoutTypeOK
  <2>4. CASE MarkReminderSent
    <3>1. \A id \in DOMAIN requests : ~stamps'[id].reminded => ~stamps[id].reminded /\ id # r.id
      BY <2>1, <2>3, <2>4 DEF TimeoutTypeOK
    <3>2. Unreminded(ticket)' => Unreminded(ticket)
      BY <2>1, <2>2, <3>1 DEF Unreminded
    <3>3. MailedNow(ticket) => ~Unreminded(ticket)'
      <4> SUFFICES ASSUME MailedNow(ticket) PROVE ~Unreminded(ticket)'
        OBVIOUS
      <4>1. r.ticket = ticket
        BY <2>1
      <4> QED BY <2>1, <2>2, <3>1, <4>1 DEF SnapshotsTrue, Unreminded
    <3>4. v = u
      BY <1>4, <2>1, <2>4
    <3> QED BY <1>3, <2>2, <3>2, <3>3, <3>4
  <2>5. CASE MarkFails
    <3>1. v = u + (IF ticket = r.ticket THEN 1 ELSE 0)
      BY <1>0, <1>1, <2>1, <2>5, MarkLost
    <3>2. CASE ticket = r.ticket
      <4>1. v = u + 1
        BY <3>1, <3>2
      <4> QED BY <1>2, <1>3, <2>2, <4>1
    <3>3. CASE ticket # r.ticket
      <4>1. v = u /\ ~MailedNow(ticket)
        BY <1>2, <2>1, <3>1, <3>3
      <4>2. Unreminded(ticket)' => Unreminded(ticket)
        BY <2>1, <2>2, <2>5 DEF Unreminded
      <4> QED BY <1>3, <2>2, <4>1, <4>2
    <3> QED BY <3>2, <3>3
  <2> QED BY <1>7, <2>4, <2>5
<1>8. CASE Restart
  <2>1. m = n /\ loop'.reminders = {}
    BY <1>4, <1>8, RestartKeeps
  <2>2. ticket \in Tickets => (Unreminded(ticket)' => Unreminded(ticket))
    <3>1. ticket \in Tickets => ticket # Len(submissions) + 1
      BY LenProperties DEF TypeOK, Tickets
    <3> QED BY <1>8, <3>1, RestartKeeps DEF Unreminded
  <2>3. CASE loop.pc = "mailed"
    <3>1. PICK r \in loop.reminders :
             IsOldest(r, loop.reminders) /\ unmarked' = Append(unmarked, r.ticket)
      BY <1>8, <2>3 DEF Restart, IsOldest
    <3>2. v = u + (IF ticket = r.ticket THEN 1 ELSE 0)
      BY <1>0, <1>1, <3>1, MarkLost
    <3>3. CASE ticket = r.ticket
      <4>1. v = u + 1
        BY <3>2, <3>3
      <4> QED BY <1>2, <1>3, <2>1, <4>1
    <3>4. CASE ticket # r.ticket
      <4>1. v = u
        BY <1>2, <3>2, <3>4
      <4>2. ~MailedNow(ticket)
        BY <3>1, <3>4, OneOldest DEF MailedNow
      <4> QED BY <1>3, <2>1, <2>2, <4>1, <4>2
    <3> QED BY <3>3, <3>4
  <2>4. CASE loop.pc # "mailed"
    <3>1. v = u /\ ~MailedNow(ticket)
      BY <1>4, <1>8, <2>4 DEF Restart, MailedNow
    <3> QED BY <1>3, <2>1, <2>2, <3>1
  <2> QED BY <2>3, <2>4
<1>9. CASE Keeps
  <2>1. m = n /\ v = u
    BY <1>4, <1>9 DEF Keeps
  <2>2. MailedNow(ticket) => MailedNow(ticket)'
    BY <1>9 DEF Keeps, MailedNow
  <2>3. ticket \in Tickets => (Unreminded(ticket)' => Unreminded(ticket))
    <3>1. ticket \in Tickets => ticket # Len(submissions) + 1
      BY LenProperties DEF TypeOK, Tickets
    <3> QED BY <1>9, <3>1 DEF Keeps, Unreminded
  <2> QED BY <1>3, <2>1, <2>2, <2>3
<1> QED BY <1>5, <1>6, <1>7, <1>8, <1>9, OtherStepsKeep

\* However reminders, denials, restarts, exceptions and changes of the timeout
\* interleave, a request is mailed about once, and once more for each time that the
\* mark of its own reminder was lost.
THEOREM OneReminder == TimeoutSpec => []RemindedAgainUnmarked
<1>1. TimeoutInit => SnapshotsTrue /\ MailsCounted
  <2> SUFFICES ASSUME TimeoutInit PROVE SnapshotsTrue /\ MailsCounted
    OBVIOUS
  <2>1. loop.reminders = {} /\ Tickets = {}
    <3>1. submissions = <<>> /\ loop = Asleep
      BY DEF TimeoutInit, Init
    <3> QED BY <3>1 DEF Asleep, Tickets
  <2> QED BY <2>1 DEF SnapshotsTrue, MailsCounted
<1>2. TimeoutSpec => [](TypeOK /\ TicketsTrue)
  <2>1. IInv => TypeOK /\ TicketsTrue
    BY DEF IInv
  <2> QED BY <2>1, LoopImplementsApproval, InductiveInvariant, PTL
<1>3. TimeoutTypeOK /\ MailsCounted => RemindedAgainUnmarked
  <2> SUFFICES ASSUME TimeoutTypeOK, MailsCounted, NEW ticket \in Tickets
               PROVE  Cardinality(MailsFor(ticket)) <= 1 + Cardinality(MarksLost(ticket))
    BY DEF RemindedAgainUnmarked
  <2>1. PICK n, u : n = Cardinality(MailsFor(ticket)) /\ u = Cardinality(MarksLost(ticket))
    OBVIOUS
  <2>2. n \in Nat /\ u \in Nat /\ (n <= u \/ n = u + 1)
    BY <2>1, MailCounts DEF MailsCounted
  <2> QED BY <2>1, <2>2
<1> QED BY <1>1, <1>2, <1>3, TimeoutTypeCorrect, StepSnapshotsTrue, StepMailsCounted, PTL
        DEF TimeoutSpec
=============================================================================
