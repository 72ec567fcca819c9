----------------------------- MODULE Submission -----------------------------
(***************************************************************************)
(* The submit handler of the public form (app/routers/public_form.py) with *)
(* its rate limit (app/services/rate_limit.py): the limit is checked, the  *)
(* track looked up on Spotify, and only then the row written whose count   *)
(* the limit is about.  Submissions of the same device, address or track   *)
(* run through these two segments side by side.                            *)
(*                                                                         *)
(* A row has the columns device_token, client_ip and requested_at (device, *)
(* address, at) beside those of Requests.  Whether a guest's cookie is an  *)
(* old token or a new one, it is a member of Devices.  A trapped bot and a *)
(* refused guest change nothing, so they are not steps.                    *)
(***************************************************************************)
EXTENDS Requests, Integers, FiniteSets

CONSTANTS Tracks, Explicit,         \* the tracks, and those marked explicit
          Devices, Addresses,       \* device tokens, client addresses
          Handlers,                 \* the submissions that may run at a time
          DeviceLimit, IpLimit,     \* DEVICE_TOKEN_LIMIT, IP_LIMIT
          Window,                   \* both windows, in units of the clock
          MaxSubmissions, MaxTime   \* bounds of the model

ASSUME SubmissionAssumption ==
    /\ Explicit \subseteq Tracks
    /\ IsFiniteSet(Handlers) /\ Handlers # {}
    /\ DeviceLimit \in Nat \ {0} /\ IpLimit \in Nat \ {0}
    /\ Window \in Nat /\ MaxSubmissions \in Nat /\ MaxTime \in Nat

VARIABLES requests,          \* table requests
          handlers,          \* the submissions under way
          exclude_explicit,  \* the config row
          submitted,         \* history: the rows ever written
          besideOfDevice,    \* history: how many of a device's submissions were under
          besideOfAddress,   \*   way when its last one was admitted; and an address's
          now                \* the clock

beside == <<besideOfDevice, besideOfAddress>>
vars == <<requests, handlers, exclude_explicit, submitted, beside, now>>

NoSubmission == [pc |-> "idle"]

LookingUp(device, address, uri) ==
    [pc |-> "looking_up", device |-> device, address |-> address, uri |-> uri]

Init ==
    /\ requests = <<>>
    /\ handlers = [h \in Handlers |-> NoSubmission]
    /\ exclude_explicit \in BOOLEAN
    /\ submitted = 0
    /\ besideOfDevice = [device \in Devices |-> 0]
    /\ besideOfAddress = [address \in Addresses |-> 0]
    /\ now = 0

-----------------------------------------------------------------------------
(* The rate limit counts rows, whatever their status.                      *)

Recent == {id \in DOMAIN requests : requests[id].at >= now - Window}

RecentOfDevice(device) == {id \in Recent : requests[id].device = device}

RecentOfAddress(address) == {id \in Recent : requests[id].address = address}

\* Mutant: one too many.
CheckRateLimitLate(device, address) ==
    /\ Cardinality(RecentOfDevice(device)) <= DeviceLimit
    /\ Cardinality(RecentOfAddress(address)) < IpLimit

\* Mutant: the address is not looked at.
CheckDeviceLimitOnly(device, address) ==
    Cardinality(RecentOfDevice(device)) < DeviceLimit

CheckRateLimit(device, address) ==
    /\ Cardinality(RecentOfDevice(device)) < DeviceLimit
    /\ Cardinality(RecentOfAddress(address)) < IpLimit

-----------------------------------------------------------------------------
(* The submit handler.                                                     *)

Admitted == {h \in Handlers : handlers[h].pc = "looking_up"}

AdmittedOfDevice(device) == {h \in Admitted : handlers[h].device = device}

AdmittedOfAddress(address) == {h \in Admitted : handlers[h].address = address}

Responds(h) == handlers' = [handlers EXCEPT ![h] = NoSubmission]

\* Up to the await of the lookup.
Submit(h, device, address, uri) ==
    /\ handlers[h].pc = "idle"
    /\ CheckRateLimit(device, address)
    /\ handlers' = [handlers EXCEPT ![h] = LookingUp(device, address, uri)]
    /\ besideOfDevice' =
          [besideOfDevice EXCEPT ![device] = Cardinality(AdmittedOfDevice(device))]
    /\ besideOfAddress' =
          [besideOfAddress EXCEPT ![address] = Cardinality(AdmittedOfAddress(address))]
    /\ UNCHANGED <<requests, exclude_explicit, submitted, now>>

\* No such track, or the lookup raises; or create_request, which gives up after five
\* reference codes that are all in use.
LookupFails(h) ==
    /\ handlers[h].pc = "looking_up"
    /\ Responds(h)
    /\ UNCHANGED <<requests, exclude_explicit, submitted, beside, now>>

\* Mutant: requested_at is local time, ahead of the UTC it is compared with.
RowWrittenInLocalTime(uri, device, address) ==
    /\ submitted < MaxSubmissions
    /\ submitted' = submitted + 1
    /\ \E id \in 1 .. submitted + 1 :
          /\ IsNextRowid(requests, id)
          /\ requests' = InsertRow(requests, id,
                [uri |-> uri, status |-> "pending", ticket |-> submitted + 1,
                 device |-> device, address |-> address, at |-> now + 1])

\* create_request, past its duplicate check.
RowWritten(uri, device, address) ==
    /\ submitted < MaxSubmissions
    /\ submitted' = submitted + 1
    /\ \E id \in 1 .. submitted + 1 :
          /\ IsNextRowid(requests, id)
          /\ requests' = InsertRow(requests, id,
                [uri |-> uri, status |-> "pending", ticket |-> submitted + 1,
                 device |-> device, address |-> address, at |-> now])

Refused(uri) ==
    \/ exclude_explicit /\ uri \in Explicit
    \/ HasPendingDuplicate(requests, uri)

\* The track is found: the settings and the duplicates are looked at now.
TrackFound(h) ==
    /\ handlers[h].pc = "looking_up"
    /\ IF Refused(handlers[h].uri)
       THEN UNCHANGED <<requests, submitted>>
       ELSE RowWritten(handlers[h].uri, handlers[h].device, handlers[h].address)
    /\ Responds(h)
    /\ UNCHANGED <<exclude_explicit, beside, now>>

-----------------------------------------------------------------------------
(* What else moves the table, the settings and the clock.                  *)

ApproveRequest(id) ==
    /\ IsPending(requests, id)
    /\ requests' = MarkRequestAdded(requests, id)
    /\ UNCHANGED <<handlers, exclude_explicit, submitted, beside, now>>

\* A denied row is gone, for the rate limit too.
DenyRequest(id) ==
    /\ IsPending(requests, id)
    /\ requests' = DeleteRequest(requests, id)
    /\ UNCHANGED <<handlers, exclude_explicit, submitted, beside, now>>

UpdateConfig ==
    /\ exclude_explicit' = ~exclude_explicit
    /\ UNCHANGED <<requests, handlers, submitted, beside, now>>

Crash ==
    /\ handlers' = [h \in Handlers |-> NoSubmission]
    /\ UNCHANGED <<requests, exclude_explicit, submitted, beside, now>>

TimePasses ==
    /\ now < MaxTime
    /\ now' = now + 1
    /\ UNCHANGED <<requests, handlers, exclude_explicit, submitted, beside>>

Next ==
    \/ \E h \in Handlers, device \in Devices, address \in Addresses, uri \in Tracks :
          Submit(h, device, address, uri)
    \/ \E h \in Handlers : LookupFails(h) \/ TrackFound(h)
    \/ \E id \in DOMAIN requests : ApproveRequest(id) \/ DenyRequest(id)
    \/ UpdateConfig
    \/ Crash
    \/ TimePasses

Spec == Init /\ [][Next]_vars

-----------------------------------------------------------------------------
(* Properties.                                                             *)

RowType == [uri : Tracks, status : Statuses, ticket : 1 .. submitted,
            device : Devices, address : Addresses, at : 0 .. now]

\* The state keeps its shape: every row has an origin, and none is from the future.
TypeOK ==
    /\ requests \in [DOMAIN requests -> RowType]
    /\ DOMAIN requests \subseteq 1 .. submitted
    /\ handlers \in [Handlers -> {NoSubmission} \cup
                        {LookingUp(d, a, u) : d \in Devices, a \in Addresses, u \in Tracks}]
    /\ exclude_explicit \in BOOLEAN
    /\ submitted \in Nat
    /\ besideOfDevice \in [Devices -> Nat]
    /\ besideOfAddress \in [Addresses -> Nat]
    /\ now \in Nat

\* The check and the row it is about are an await apart, so that the limit is
\* overrun; but only by overlap: a device whose last submission was admitted while
\* none of its others was under way has no more than its limit of rows, and every
\* submission under way beside the last admits one row more.
DeviceOverrunIsOverlap ==
    \A device \in Devices :
        Cardinality(RecentOfDevice(device)) + Cardinality(AdmittedOfDevice(device))
            <= DeviceLimit + besideOfDevice[device]

\* The same for IP_LIMIT (rate_limit.py), which counts the submissions of all devices
\* behind an address.
AddressOverrunIsOverlap ==
    \A address \in Addresses :
        Cardinality(RecentOfAddress(address)) + Cardinality(AdmittedOfAddress(address))
            <= IpLimit + besideOfAddress[address]

\* SPEC.md: "5 requests per device token per 30 minutes".
DeviceLimitKept ==
    \A device \in Devices : Cardinality(RecentOfDevice(device)) <= DeviceLimit
=============================================================================
