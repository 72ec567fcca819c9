--------------------------- MODULE RequestTimeout ---------------------------
(***************************************************************************)
(* The timeout loop (app/worker/request_timeout.py) beside the handlers of *)
(* Approval: a tick mails a reminder for each request close to its         *)
(* timeout, then approves each request past it as the approver System.     *)
(*                                                                         *)
(* The tick reads the clock once, and each of its two lists once; it       *)
(* awaits a mail thread for each reminder and Spotify for each approval,   *)
(* and works through Request objects that may be stale by then.            *)
(*                                                                         *)
(* The columns requested_at and reminder_sent_at are kept beside the table *)
(* in "stamps".  Time is counted in minutes.                               *)
(***************************************************************************)
EXTENDS Approval

CONSTANTS System,           \* the approver the loop acts as
          TimeoutChoices,   \* the values of pending_request_timeout_minutes saved
          MaxTime,          \* bound of the clock
          MaxUnmarked       \* bound: marks that raise

REMINDER_LEAD_MINUTES == 2

ASSUME TimeoutAssumption ==
    /\ System \in Approvers
    /\ TimeoutChoices \subseteq Nat
    /\ MaxTime \in Nat /\ MaxUnmarked \in Nat

VARIABLES now,              \* the clock
          timeout_minutes,  \* the config row's pending_request_timeout_minutes
          stamps,           \* requested_at and reminder_sent_at of each row
          loop,             \* the tick under way
          mails,            \* history: the tickets of the reminders tried, in order
          unmarked          \* history: the tickets of those whose mark was lost, in order

reminded == <<mails, unmarked>>
timeoutVars == <<now, timeout_minutes, stamps, loop, reminded>>
allVars == <<vars, timeoutVars>>

Asleep == [pc |-> "sleeping", now |-> 0, timeout |-> 0, reminders |-> {}, approvals |-> {}]

\* After an approval of the tick, or its last reminder, the loop goes on to the
\* next approval without an await: no handler runs in between.
HandlersMayRun == loop.pc # "proceed"

TimeoutInit ==
    /\ Init
    /\ now = 0
    /\ timeout_minutes \in TimeoutChoices
    /\ stamps = <<>>
    /\ loop = Asleep
    /\ mails = <<>>
    /\ unmarked = <<>>

-----------------------------------------------------------------------------
(* The two queries, oldest request first.                                  *)

Snapshot(id) == [id |-> id, ticket |-> requests[id].ticket, at |-> stamps[id].at]

\* Mutant: reminder_sent_at is not looked at.
NeedingReminderAgain(cutoff) ==
    {Snapshot(id) : id \in {i \in Pending(requests) : stamps[i].at <= cutoff}}

NeedingReminder(cutoff) ==
    {Snapshot(id) : id \in {i \in Pending(requests) :
                               stamps[i].at <= cutoff /\ ~stamps[i].reminded}}

RequestedBefore(cutoff) ==
    {Snapshot(id) : id \in {i \in Pending(requests) : stamps[i].at <= cutoff}}

Older(r, s) == r.at < s.at \/ (r.at = s.at /\ r.id < s.id)

IsOldest(r, list) == r \in list /\ \A s \in list : ~Older(s, r)

-----------------------------------------------------------------------------
(* A tick.                                                                 *)

StartTimeoutTick ==
    /\ loop.pc = "sleeping"
    /\ LET reminders == IF timeout_minutes > REMINDER_LEAD_MINUTES
                        THEN NeedingReminder(now - (timeout_minutes - REMINDER_LEAD_MINUTES))
                        ELSE {}
           tick == [Asleep EXCEPT !.now = now, !.timeout = timeout_minutes,
                                  !.reminders = reminders]
       IN  loop' = IF reminders # {}
                   THEN [tick EXCEPT !.pc = "mailing"]
                   ELSE [tick EXCEPT !.pc = "proceed",
                                     !.approvals = RequestedBefore(now - timeout_minutes)]
    /\ UNCHANGED <<vars, now, timeout_minutes, stamps, reminded>>

\* The mail thread.  A mail that SMTP refuses, or that is not configured, is
\* logged and nothing is raised: to the loop it is a mail like any other.
SendReminder ==
    /\ loop.pc = "mailing"
    /\ \E r \in loop.reminders :
          /\ IsOldest(r, loop.reminders)
          /\ mails' = Append(mails, r.ticket)
    /\ loop' = [loop EXCEPT !.pc = "mailed"]
    /\ UNCHANGED <<vars, now, timeout_minutes, stamps, unmarked>>

\* Then the next reminder is sent, or the requests past their timeout are listed.
AfterReminder(r) ==
    loop' = IF loop.reminders # {r}
            THEN [loop EXCEPT !.pc = "mailing", !.reminders = @ \ {r}]
            ELSE [loop EXCEPT !.pc = "proceed", !.reminders = {},
                     !.approvals = RequestedBefore(loop.now - loop.timeout)]

\* mark_reminder_sent: UPDATE ... WHERE id = ?
MarkReminderSent ==
    /\ loop.pc = "mailed"
    /\ \E r \in loop.reminders :
          /\ IsOldest(r, loop.reminders)
          /\ stamps' = [id \in DOMAIN stamps |->
                           IF id = r.id THEN [stamps[id] EXCEPT !.reminded = TRUE]
                                        ELSE stamps[id]]
          /\ AfterReminder(r)
    /\ UNCHANGED <<vars, now, timeout_minutes, reminded>>

\* The mail thread does not start, or the mark raises after the mail: the exception
\* is logged, and the loop goes on.
ReminderFails ==
    /\ \E r \in loop.reminders :
          /\ IsOldest(r, loop.reminders)
          /\ \/ /\ loop.pc = "mailing"
                /\ UNCHANGED unmarked
             \/ /\ loop.pc = "mailed"
                /\ Len(unmarked) < MaxUnmarked
                /\ unmarked' = Append(unmarked, r.ticket)
          /\ AfterReminder(r)
    /\ UNCHANGED <<vars, now, timeout_minutes, stamps, mails>>

\* Will approve_request get as far as its first await?
Approvable(r) == IsPending(requests, r.id) /\ config.playlist # NoPlaylist

\* Mutant: the request is taken from the list without reading its row again.
ProceedUnread ==
    /\ loop.pc = "proceed"
    /\ \E r \in loop.approvals :
          /\ IsOldest(r, loop.approvals)
          /\ r.id \in DOMAIN requests
          /\ tasks' = [tasks EXCEPT ![System] =
                          [NoTask EXCEPT !.pc = "listing", !.id = r.id,
                              !.uri = requests[r.id].uri, !.ticket = requests[r.id].ticket,
                              !.playlist = config.playlist, !.ahead = config.ahead]]
          /\ loop' = [loop EXCEPT !.pc = "approving", !.approvals = @ \ {r}]
    /\ UNCHANGED <<database, config, spotify, late, history, faults, edits, now,
                   timeout_minutes, stamps, reminded>>

\* The next approval that does not fail before its first await is started; those
\* before it failed, were logged, and are left to the next tick.
Proceed ==
    /\ loop.pc = "proceed"
    /\ \/ \E r \in loop.approvals :
             /\ IsOldest(r, {s \in loop.approvals : Approvable(s)})
             /\ StartApprove(System, r.id)
             /\ loop' = [loop EXCEPT !.pc = "approving",
                                     !.approvals = {s \in @ : Older(r, s)}]
       \/ /\ \A r \in loop.approvals : ~Approvable(r)
          /\ loop' = Asleep
          /\ UNCHANGED vars
    /\ UNCHANGED <<now, timeout_minutes, stamps, reminded>>

\* Mutant: a new row is not stamped.
StampsKept ==
    stamps' = [id \in DOMAIN requests' \cap DOMAIN stamps |-> stamps[id]]

\* The rows keep their stamps; a new row is stamped with the clock.
StampsFollow ==
    stamps' = [id \in DOMAIN requests' |->
                  IF id \in DOMAIN stamps THEN stamps[id]
                                          ELSE [at |-> now, reminded |-> FALSE]]

\* Mutant: an approval that fails ends the tick.
SystemCallsUntilFailure ==
    /\ loop.pc = "approving"
    /\ CallStep(System)
    /\ loop' = IF tasks'[System].pc # "idle" THEN loop
               ELSE IF tasks[System].pc = "inserted" THEN [loop EXCEPT !.pc = "proceed"]
               ELSE Asleep
    /\ StampsFollow
    /\ UNCHANGED <<now, timeout_minutes, reminded>>

\* A step of the approval the loop awaits; done or failed, the loop goes on.
SystemCalls ==
    /\ loop.pc = "approving"
    /\ CallStep(System)
    /\ loop' = IF tasks'[System].pc = "idle" THEN [loop EXCEPT !.pc = "proceed"] ELSE loop
    /\ StampsFollow
    /\ UNCHANGED <<now, timeout_minutes, reminded>>

-----------------------------------------------------------------------------
(* The handlers, Spotify, restarts, and time.                              *)

AdminApproves(w) ==
    \/ \E id \in DOMAIN requests : StartApprove(w, id)
    \/ CallStep(w)

HandlerStep ==
    /\ HandlersMayRun
    /\ \/ \E uri \in Tracks : CreateRequest(uri)
       \/ \E w \in Approvers \ {System} : AdminApproves(w)
       \/ \E id \in DOMAIN requests : DenyRequest(id)
       \/ UpdateConfig
    /\ StampsFollow
    /\ UNCHANGED <<now, timeout_minutes, loop, reminded>>

SpotifyStep ==
    /\ \/ \E post \in late : LateInsert(post)
       \/ ChangePlayback
       \/ \E p \in Playlists : EditPlaylist(p)
    /\ UNCHANGED timeoutVars

Restart ==
    /\ \/ Crash
       \/ \E w \in Approvers : CrashRecording(w)
       \/ \E id \in DOMAIN requests : CrashDenying(id)
    /\ loop' = Asleep
    /\ StampsFollow
    /\ IF loop.pc = "mailed"
       THEN \E r \in loop.reminders : /\ IsOldest(r, loop.reminders)
                                      /\ unmarked' = Append(unmarked, r.ticket)
       ELSE UNCHANGED unmarked
    /\ UNCHANGED <<now, timeout_minutes, mails>>

UpdateTimeout ==
    /\ HandlersMayRun
    /\ \E choice \in TimeoutChoices : choice # timeout_minutes /\ timeout_minutes' = choice
    /\ UNCHANGED <<vars, now, stamps, loop, reminded>>

MinutePasses ==
    /\ now < MaxTime
    /\ now' = now + 1
    /\ UNCHANGED <<vars, timeout_minutes, stamps, loop, reminded>>

-----------------------------------------------------------------------------

LoopStep == StartTimeoutTick \/ SendReminder \/ MarkReminderSent \/ Proceed \/ SystemCalls

TimeoutNext ==
    \/ LoopStep
    \/ ReminderFails
    \/ HandlerStep
    \/ SpotifyStep
    \/ Restart
    \/ UpdateTimeout
    \/ MinutePasses

TimeoutSpec == TimeoutInit /\ [][TimeoutNext]_allVars

\* timeout_loop_forever never stops, and every call of a tick returns or raises.
FairTimeoutSpec == TimeoutSpec /\ WF_allVars(LoopStep)

-----------------------------------------------------------------------------
(* Properties.                                                             *)

SnapshotType == [id : Nat, ticket : Tickets, at : Nat]

\* The state keeps its shape: every row has its stamps, and an approval of System
\* is under way exactly while the loop awaits one.
TimeoutTypeOK ==
    /\ now \in Nat
    /\ timeout_minutes \in TimeoutChoices
    /\ stamps \in [DOMAIN requests -> [at : Nat, reminded : BOOLEAN]]
    /\ loop \in [pc : {"sleeping", "mailing", "mailed", "proceed", "approving"}, now : Nat,
                 timeout : Nat, reminders : SUBSET SnapshotType,
                 approvals : SUBSET SnapshotType]
    /\ mails \in Seq(Tickets) /\ unmarked \in Seq(Tickets)
    /\ Idle(System) <=> loop.pc # "approving"
    /\ (loop.pc \in {"mailing", "mailed"}) <=> (loop.reminders # {})

MailsFor(ticket) == {m \in DOMAIN mails : mails[m] = ticket}

MarksLost(ticket) == {m \in DOMAIN unmarked : unmarked[m] = ticket}

\* A request is reminded of again only if the mark of its own reminder was lost, by
\* a restart or by an exception right after its mail, however ticks, denials, reused
\* ids and changes of the timeout fall.
RemindedAgainUnmarked ==
    \A ticket \in Tickets : Cardinality(MailsFor(ticket)) <= 1 + Cardinality(MarksLost(ticket))

\* request_timeout.py: "a restart can only delay one tick's worth of work, never lose
\* or duplicate it", and a reminder is sent one time.
RemindedOnce == \A ticket \in Tickets : Cardinality(MailsFor(ticket)) <= 1

RowOf(ticket, id) == id \in DOMAIN requests /\ requests[id].ticket = ticket

Overdue(ticket) ==
    \E id \in Pending(requests) :
        RowOf(ticket, id) /\ now >= stamps[id].at + timeout_minutes

\* While a track of the default playlist is playing, a request past its timeout is
\* approved or denied, unless its track is in a playlist already or the timeout is
\* set up again; no request, reminder or failure before it holds it up for good.
OverdueDecided ==
    <>[](config.playlist # NoPlaylist /\ playing # NoTrack
           /\ InListing(playlists[config.playlist], playing))
    => \A ticket \in 1 .. MaxSubmissions :
          Overdue(ticket) ~>
              \/ ~Overdue(ticket)
              \/ \E p \in Playlists : InListing(playlists[p], submissions[ticket])

SystemStarts == Idle(System) /\ ~Idle(System)'

\* request_timeout.py: the loop approves a request "that's actually past its timeout".
NoEarlyAutoApproval ==
    [][SystemStarts => loop.now >= stamps[tasks'[System].id].at + loop.timeout]_allVars
=============================================================================
