-------------------------- MODULE SubmissionProofs --------------------------
(***************************************************************************)
(* What holds of the rate limit for every number of guests, devices,       *)
(* addresses and submissions at a time, and every limit and window.        *)
(***************************************************************************)
EXTENDS Submission, FiniteSetTheorems, TLAPS

-----------------------------------------------------------------------------
(* Type correctness.                                                       *)

LEMMA InitTypeOK == Init => TypeOK
<1> SUFFICES ASSUME Init PROVE TypeOK
  OBVIOUS
<1>1. DOMAIN requests = {} /\ requests \in [DOMAIN requests -> RowType]
  BY DEF Init
<1> QED BY <1>1 DEF Init, TypeOK

\* Time and submissions only add to what a row may look like.
LEMMA TypesGrow ==
    ASSUME TypeOK, submitted' \in Nat, submitted' >= submitted, now' \in Nat, now' >= now
    PROVE  RowType \subseteq RowType' /\ 1 .. submitted \subseteq 1 .. submitted'
BY DEF TypeOK, RowType

\* A handler that answers is free again.
LEMMA RespondsType ==
    ASSUME TypeOK, NEW h \in Handlers, Responds(h)
    PROVE  handlers' \in [Handlers -> {NoSubmission} \cup
                {LookingUp(d, a, u) : d \in Devices, a \in Addresses, u \in Tracks}]
BY DEF TypeOK, Responds

\* A submission under way has a device, an address and a track.
LEMMA LookingUpType ==
    ASSUME TypeOK, NEW h \in Handlers, handlers[h].pc = "looking_up"
    PROVE  handlers[h].device \in Devices /\ handlers[h].address \in Addresses
           /\ handlers[h].uri \in Tracks
<1>1. handlers[h] # NoSubmission
  BY DEF NoSubmission
<1> QED BY <1>1 DEF TypeOK, LookingUp

\* The row that create_request writes.
RowOf(uri, device, address) ==
    [uri |-> uri, status |-> "pending", ticket |-> submitted + 1,
     device |-> device, address |-> address, at |-> now]

\* Writing a row adds one row, of this device and address, and changes no other.
LEMMA RowWrittenChange ==
    ASSUME TypeOK, NEW uri \in Tracks, NEW device \in Devices, NEW address \in Addresses,
           RowWritten(uri, device, address), UNCHANGED now
    PROVE  \E id \in 1 .. submitted + 1 :
              /\ id \notin DOMAIN requests
              /\ submitted' = submitted + 1
              /\ DOMAIN requests' = DOMAIN requests \cup {id}
              /\ requests'[id] = RowOf(uri, device, address)
              /\ requests' \in [DOMAIN requests' -> RowType']
              /\ \A row \in DOMAIN requests : requests'[row] = requests[row]
<1>1. PICK id \in 1 .. submitted + 1 :
         /\ IsNextRowid(requests, id)
         /\ requests' = InsertRow(requests, id, RowOf(uri, device, address))
  BY DEF RowWritten, RowOf
<1>2. submitted' = submitted + 1 /\ submitted \in Nat /\ now \in Nat
  BY DEF RowWritten, TypeOK
<1>3. DOMAIN requests \subseteq Nat /\ id \in Nat
  BY <1>2 DEF TypeOK
<1>4. id \notin DOMAIN requests
  BY <1>1, <1>3 DEF IsNextRowid
<1>5. /\ DOMAIN requests' = DOMAIN requests \cup {id}
      /\ requests'[id] = RowOf(uri, device, address)
      /\ \A row \in DOMAIN requests : requests'[row] = requests[row]
      /\ requests' = [row \in DOMAIN requests' |-> requests'[row]]
  BY <1>1, <1>4 DEF InsertRow
<1>6. RowType \subseteq RowType'
  BY <1>2 DEF RowType
<1>7. requests'[id] \in RowType'
  BY <1>2, <1>5 DEF RowType, RowOf, Statuses
<1>8. requests' \in [DOMAIN requests' -> RowType']
  BY <1>5, <1>6, <1>7 DEF TypeOK
<1> QED BY <1>2, <1>4, <1>5, <1>8

LEMMA StepTypeOK == TypeOK /\ [Next]_vars => TypeOK'
<1> SUFFICES ASSUME TypeOK, [Next]_vars PROVE TypeOK'
  OBVIOUS
<1>1. ASSUME NEW h \in Handlers, NEW device \in Devices, NEW address \in Addresses,
             NEW uri \in Tracks, Submit(h, device, address, uri)
      PROVE  TypeOK'
  <2> DEFINE Calls == {LookingUp(d, a, u) : d \in Devices, a \in Addresses, u \in Tracks}
  <2>1. LookingUp(device, address, uri) \in Calls
    OBVIOUS
  <2>2. handlers \in [Handlers -> {NoSubmission} \cup Calls]
    BY DEF TypeOK
  <2> HIDE DEF Calls
  <2>3. handlers' \in [Handlers -> {NoSubmission} \cup Calls]
    BY <1>1, <2>1, <2>2 DEF Submit
  <2> USE DEF Calls
  <2>4. /\ Cardinality(AdmittedOfDevice(device)) \in Nat
        /\ Cardinality(AdmittedOfAddress(address)) \in Nat
    <3>1. AdmittedOfDevice(device) \subseteq Handlers /\ AdmittedOfAddress(address) \subseteq Handlers
      BY DEF AdmittedOfDevice, AdmittedOfAddress, Admitted
    <3> QED BY <3>1, SubmissionAssumption, FS_Subset, FS_CardinalityType
  <2>5. besideOfDevice' \in [Devices -> Nat] /\ besideOfAddress' \in [Addresses -> Nat]
    BY <1>1, <2>4 DEF Submit, TypeOK
  <2>6. UNCHANGED <<requests, exclude_explicit, submitted, now>>
    BY <1>1 DEF Submit
  <2> QED BY <2>3, <2>5, <2>6 DEF TypeOK, RowType
<1>2. ASSUME NEW h \in Handlers, LookupFails(h) PROVE TypeOK'
  BY <1>2, RespondsType DEF LookupFails, beside, TypeOK, RowType
<1>3. ASSUME NEW h \in Handlers, TrackFound(h) PROVE TypeOK'
  <2>1. /\ handlers[h].pc = "looking_up" /\ Responds(h)
        /\ UNCHANGED <<exclude_explicit, beside, now>>
    BY <1>3 DEF TrackFound
  <2>2. CASE UNCHANGED <<requests, submitted>>
    BY <2>1, <2>2, RespondsType DEF beside, TypeOK, RowType
  <2>3. CASE RowWritten(handlers[h].uri, handlers[h].device, handlers[h].address)
    <3>1. PICK id \in 1 .. submitted + 1 :
             /\ submitted' = submitted + 1
             /\ DOMAIN requests' = DOMAIN requests \cup {id}
             /\ requests' \in [DOMAIN requests' -> RowType']
      BY <2>1, <2>3, LookingUpType, RowWrittenChange
    <3>2. DOMAIN requests' \subseteq 1 .. submitted' /\ submitted' \in Nat
      BY <3>1 DEF TypeOK
    <3> QED BY <2>1, <3>1, <3>2, RespondsType DEF beside, TypeOK
  <2> QED BY <1>3, <2>2, <2>3 DEF TrackFound
<1>4. ASSUME NEW id \in DOMAIN requests, ApproveRequest(id) PROVE TypeOK'
  <2>1. /\ DOMAIN requests' = DOMAIN requests
        /\ requests' \in [DOMAIN requests -> RowType]
    BY <1>4 DEF ApproveRequest, MarkRequestAdded, TypeOK, RowType, Statuses
  <2> QED BY <1>4, <2>1 DEF ApproveRequest, beside, TypeOK, RowType
<1>5. ASSUME NEW id \in DOMAIN requests, DenyRequest(id) PROVE TypeOK'
  <2>1. /\ DOMAIN requests' = DOMAIN requests \ {id}
        /\ requests' \in [DOMAIN requests' -> RowType]
    BY <1>5 DEF DenyRequest, DeleteRequest, TypeOK
  <2> QED BY <1>5, <2>1 DEF DenyRequest, beside, TypeOK, RowType
<1>6. CASE UpdateConfig \/ UNCHANGED vars
  <2>1. UNCHANGED <<requests, handlers, submitted, besideOfDevice, besideOfAddress, now>>
    BY <1>6 DEF UpdateConfig, vars, beside
  <2>2. exclude_explicit' \in BOOLEAN
    <3>1. exclude_explicit \in BOOLEAN
      BY DEF TypeOK
    <3>2. exclude_explicit' = ~exclude_explicit \/ exclude_explicit' = exclude_explicit
      BY <1>6 DEF UpdateConfig, vars
    <3> QED BY <3>1, <3>2
  <2> QED BY <2>1, <2>2 DEF TypeOK, RowType
<1>8. CASE Crash
  <2> DEFINE Calls == {LookingUp(d, a, u) : d \in Devices, a \in Addresses, u \in Tracks}
  <2> HIDE DEF Calls
  <2>1. handlers' \in [Handlers -> {NoSubmission} \cup Calls]
    BY <1>8 DEF Crash
  <2> USE DEF Calls
  <2> QED BY <1>8, <2>1 DEF Crash, beside, TypeOK, RowType
<1>7. CASE TimePasses
  <2>1. RowType \subseteq RowType' /\ now' \in Nat
    BY <1>7, TypesGrow DEF TimePasses, TypeOK
  <2>2. requests' \in [DOMAIN requests -> RowType']
    BY <1>7, <2>1 DEF TimePasses, TypeOK
  <2> QED BY <1>7, <2>1, <2>2 DEF TimePasses, beside, TypeOK
<1> QED BY <1>1, <1>2, <1>3, <1>4, <1>5, <1>6, <1>7, <1>8 DEF Next

\* The state keeps its shape: every row has an origin, and none is from the future.
THEOREM TypeCorrect == Spec => []TypeOK
BY InitTypeOK, StepTypeOK, PTL DEF Spec

-----------------------------------------------------------------------------
(* Counting.  "rows" are the recent rows of a device or an address, "calls"  *)
(* its admitted submissions, "limit" its limit, "over" what was under way    *)
(* beside the last it admitted.                                              *)

Within(rows, calls, limit, over) ==
    Cardinality(rows) + Cardinality(calls) <= limit + over

\* Fewer rows and fewer calls keep the bound.
LEMMA FewerKeeps ==
    ASSUME NEW rows, NEW calls, NEW rows2, NEW calls2, NEW limit \in Nat, NEW over \in Nat,
           IsFiniteSet(rows), IsFiniteSet(calls), rows2 \subseteq rows, calls2 \subseteq calls,
           Within(rows, calls, limit, over)
    PROVE  Within(rows2, calls2, limit, over)
<1>1. Cardinality(rows2) <= Cardinality(rows) /\ Cardinality(calls2) <= Cardinality(calls)
  BY FS_Subset
<1>2. /\ Cardinality(rows) \in Nat /\ Cardinality(calls) \in Nat
      /\ Cardinality(rows2) \in Nat /\ Cardinality(calls2) \in Nat
  BY FS_Subset, FS_CardinalityType
<1> QED BY <1>1, <1>2 DEF Within

\* One element more is at most one more.
LEMMA AddOne ==
    ASSUME NEW set, NEW element, IsFiniteSet(set)
    PROVE  /\ Cardinality(set \cup {element}) <= Cardinality(set) + 1
           /\ Cardinality(set \cup {element}) \in Nat
           /\ Cardinality(set) \in Nat
           /\ IsFiniteSet(set \cup {element})
<1> DEFINE more == set \cup {element}
<1>1. Cardinality(set) \in Nat
  BY FS_CardinalityType
<1>2. element \in set => more = set
  OBVIOUS
<1>3. IsFiniteSet(more) /\ (element \notin set => Cardinality(more) = Cardinality(set) + 1)
  <2>1. element \notin set => Cardinality(more) = Cardinality(set) + 1
    BY FS_AddElement
  <2>2. IsFiniteSet(more)
    BY FS_AddElement
  <2> QED BY <2>1, <2>2
<1> HIDE DEF more
<1>4. Cardinality(more) <= Cardinality(set) + 1 /\ Cardinality(more) \in Nat
  BY <1>1, <1>2, <1>3
<1> QED BY <1>1, <1>3, <1>4 DEF more

\* A call that becomes a row leaves the sum as it was.
LEMMA CallBecomesRow ==
    ASSUME NEW rows, NEW calls, NEW limit \in Nat, NEW over \in Nat, NEW row,
           NEW call \in calls,
           IsFiniteSet(rows), IsFiniteSet(calls), Within(rows, calls, limit, over)
    PROVE  Within(rows \cup {row}, calls \ {call}, limit, over)
<1>1. Cardinality(calls \ {call}) = Cardinality(calls) - 1
  BY FS_RemoveElement
<1>2. Cardinality(rows \cup {row}) <= Cardinality(rows) + 1
      /\ Cardinality(rows \cup {row}) \in Nat
  BY AddOne
<1>3. Cardinality(rows) \in Nat /\ Cardinality(calls) \in Nat
  BY FS_CardinalityType
<1> QED BY <1>1, <1>2, <1>3 DEF Within

\* A call admitted below the limit adds itself to those under way beside it.
LEMMA OneMoreCall ==
    ASSUME NEW rows, NEW calls, NEW limit \in Nat, NEW call, NEW calls2,
           IsFiniteSet(rows), IsFiniteSet(calls), Cardinality(rows) < limit,
           calls2 \subseteq calls \cup {call}
    PROVE  Within(rows, calls2, limit, Cardinality(calls))
<1>1. Cardinality(calls \cup {call}) <= Cardinality(calls) + 1
      /\ IsFiniteSet(calls \cup {call}) /\ Cardinality(calls \cup {call}) \in Nat
  BY AddOne
<1>2. Cardinality(calls2) <= Cardinality(calls \cup {call}) /\ IsFiniteSet(calls2)
  BY <1>1, FS_Subset
<1>3. /\ Cardinality(rows) \in Nat /\ Cardinality(calls) \in Nat
      /\ Cardinality(calls2) \in Nat
  BY <1>2, FS_CardinalityType
<1> QED BY <1>1, <1>2, <1>3 DEF Within

\* At first nothing is counted.
LEMMA NothingCounted ==
    ASSUME NEW limit \in Nat
    PROVE  Within({}, {}, limit, 0)
<1>1. Cardinality({}) = 0
  BY FS_EmptySet
<1> QED BY <1>1 DEF Within

\* The table and the submissions under way are finite.
LEMMA CountsAreFinite ==
    ASSUME TypeOK
    PROVE  IsFiniteSet(Recent) /\ IsFiniteSet(Admitted)
<1>1. IsFiniteSet(1 .. submitted)
  <2>1. submitted \in Nat
    BY DEF TypeOK
  <2> QED BY <2>1, FS_Interval
<1>2. DOMAIN requests \subseteq 1 .. submitted
  BY DEF TypeOK
<1>3. Recent \subseteq DOMAIN requests /\ Admitted \subseteq Handlers
  BY DEF Recent, Admitted
<1> QED BY <1>1, <1>2, <1>3, FS_Subset, SubmissionAssumption

-----------------------------------------------------------------------------
(* The bound is kept.  A step is one of three: it forgets rows and calls; it *)
(* admits a call below the limit; or it makes a call into a row.             *)

\* The row keeps the columns the counts look at.
SameOrigin(id) ==
    /\ requests'[id].device = requests[id].device
    /\ requests'[id].address = requests[id].address

\* Nothing is counted that was not counted before.
Forgets ==
    /\ Recent' \subseteq Recent
    /\ \A id \in Recent' : SameOrigin(id)
    /\ Admitted' \subseteq Admitted
    /\ \A h \in Admitted' : handlers'[h] = handlers[h]
    /\ UNCHANGED <<besideOfDevice, besideOfAddress>>

\* A call is admitted, of a device and an address that are below their limits.
Admits(h, device, address) ==
    /\ CheckRateLimit(device, address)
    /\ Recent' = Recent
    /\ requests' = requests
    /\ besideOfDevice' =
          [besideOfDevice EXCEPT ![device] = Cardinality(AdmittedOfDevice(device))]
    /\ besideOfAddress' =
          [besideOfAddress EXCEPT ![address] = Cardinality(AdmittedOfAddress(address))]
    /\ Admitted' \subseteq Admitted \cup {h}
    /\ \A other \in Admitted' \ {h} : handlers'[other] = handlers[other]
    /\ handlers'[h] = LookingUp(device, address, handlers'[h].uri)

\* A call that was admitted becomes a row of its device and its address.
Writes(h, id) ==
    /\ h \in Admitted
    /\ id \notin Recent
    /\ Recent' = Recent \cup {id}
    /\ requests'[id].device = handlers[h].device
    /\ requests'[id].address = handlers[h].address
    /\ \A row \in Recent : SameOrigin(row)
    /\ Admitted' = Admitted \ {h}
    /\ \A other \in Admitted' : handlers'[other] = handlers[other]
    /\ UNCHANGED <<besideOfDevice, besideOfAddress>>

\* A handler that answers is no longer counted; the others are as they were.
LEMMA RespondsCounts ==
    ASSUME TypeOK, NEW h \in Handlers, Responds(h)
    PROVE  /\ Admitted' = Admitted \ {h}
           /\ \A other \in Admitted' : handlers'[other] = handlers[other]
<1>1. handlers'[h] = [pc |-> "idle"]
      /\ \A other \in Handlers \ {h} : handlers'[other] = handlers[other]
  BY DEF TypeOK, Responds, NoSubmission
<1>2. handlers'[h].pc # "looking_up"
  BY <1>1
<1> QED BY <1>1, <1>2 DEF Admitted

LEMMA StepCounts ==
    ASSUME TypeOK, [Next]_vars
    PROVE  \/ Forgets
           \/ \E h \in Handlers, device \in Devices, address \in Addresses :
                 Admits(h, device, address)
           \/ \E h \in Handlers : \E id \in Nat : Writes(h, id)
<1>1. ASSUME NEW h \in Handlers, NEW device \in Devices, NEW address \in Addresses,
             NEW uri \in Tracks, Submit(h, device, address, uri)
      PROVE  Admits(h, device, address)
  <2>1. /\ handlers'[h] = LookingUp(device, address, uri)
        /\ \A other \in Handlers \ {h} : handlers'[other] = handlers[other]
    BY <1>1 DEF Submit, TypeOK
  <2>2. Admitted' \subseteq Admitted \cup {h} /\ Admitted' \subseteq Handlers
    BY <2>1 DEF Admitted
  <2>3. Recent' = Recent /\ requests' = requests
    BY <1>1 DEF Submit, Recent
  <2>4. handlers'[h] = LookingUp(device, address, handlers'[h].uri)
    BY <2>1 DEF LookingUp
  <2> QED BY <1>1, <2>1, <2>2, <2>3, <2>4 DEF Submit, Admits
<1>2. ASSUME NEW h \in Handlers, LookupFails(h) PROVE Forgets
  BY <1>2, RespondsCounts DEF LookupFails, Forgets, Recent, SameOrigin, beside
<1>3. ASSUME NEW h \in Handlers, TrackFound(h)
      PROVE  Forgets \/ \E id \in Nat : Writes(h, id)
  <2>1. /\ handlers[h].pc = "looking_up" /\ Responds(h)
        /\ UNCHANGED <<exclude_explicit, beside, now>>
    BY <1>3 DEF TrackFound
  <2>2. CASE UNCHANGED <<requests, submitted>>
    BY <2>1, <2>2, RespondsCounts DEF Forgets, Recent, SameOrigin, beside
  <2>3. CASE RowWritten(handlers[h].uri, handlers[h].device, handlers[h].address)
    <3>0. /\ handlers[h].uri \in Tracks /\ handlers[h].device \in Devices
          /\ handlers[h].address \in Addresses /\ UNCHANGED now
      BY <2>1, LookingUpType
    <3> HIDE DEF Forgets
    <3> DEFINE uri == handlers[h].uri
               device == handlers[h].device
               address == handlers[h].address
    <3> HIDE DEF uri, device, address
    <3>4. /\ uri \in Tracks /\ device \in Devices /\ address \in Addresses
          /\ RowWritten(uri, device, address)
      BY <2>3, <3>0 DEF uri, device, address
    <3>1. PICK id \in 1 .. submitted + 1 :
             /\ id \notin DOMAIN requests
             /\ submitted' = submitted + 1
             /\ DOMAIN requests' = DOMAIN requests \cup {id}
             /\ requests'[id] = RowOf(uri, device, address)
             /\ requests' \in [DOMAIN requests' -> RowType']
             /\ \A row \in DOMAIN requests : requests'[row] = requests[row]
      BY <3>0, <3>4, RowWrittenChange
    <3>2. id \in Nat /\ now \in Nat /\ Window \in Nat
      BY SubmissionAssumption DEF TypeOK
    <3>3. id \notin Recent /\ Recent' = Recent \cup {id}
          /\ \A row \in Recent : SameOrigin(row)
      BY <2>1, <3>1, <3>2 DEF Recent, RowOf, SameOrigin
    <3>6. h \in Admitted
      BY <2>1 DEF Admitted
    <3>5. Writes(h, id)
      BY <2>1, <3>1, <3>3, <3>6, RespondsCounts
         DEF Writes, RowOf, uri, device, address, beside
    <3> QED BY <3>2, <3>5
  <2> QED BY <1>3, <2>2, <2>3 DEF TrackFound
<1>4. ASSUME NEW id \in DOMAIN requests, ApproveRequest(id) PROVE Forgets
  <2>1. /\ DOMAIN requests' = DOMAIN requests
        /\ \A row \in DOMAIN requests : SameOrigin(row) /\ requests'[row].at = requests[row].at
    BY <1>4 DEF ApproveRequest, MarkRequestAdded, TypeOK, RowType, SameOrigin
  <2> QED BY <1>4, <2>1 DEF ApproveRequest, Forgets, Recent, Admitted, beside
<1>5. ASSUME NEW id \in DOMAIN requests, DenyRequest(id) PROVE Forgets
  <2>1. DOMAIN requests' \subseteq DOMAIN requests
        /\ \A row \in DOMAIN requests' : requests'[row] = requests[row]
    BY <1>5 DEF DenyRequest, DeleteRequest
  <2> QED BY <1>5, <2>1 DEF DenyRequest, Forgets, Recent, Admitted, SameOrigin, beside
<1>6. CASE UpdateConfig \/ UNCHANGED vars
  BY <1>6 DEF UpdateConfig, vars, Forgets, Recent, Admitted, SameOrigin, beside
<1>7. CASE Crash
  <2>1. Admitted' = {}
    BY <1>7 DEF Crash, Admitted, NoSubmission
  <2> QED BY <1>7, <2>1 DEF Crash, Forgets, Recent, SameOrigin, beside
<1>8. CASE TimePasses
  <2>1. now \in Nat /\ Window \in Nat /\ now' = now + 1
        /\ \A id \in DOMAIN requests : requests[id].at \in Nat
    BY <1>8, SubmissionAssumption DEF TimePasses, TypeOK, RowType
  <2> QED BY <1>8, <2>1 DEF TimePasses, Forgets, Recent, Admitted, SameOrigin, beside
<1> QED BY <1>1, <1>2, <1>3, <1>4, <1>5, <1>6, <1>7, <1>8 DEF Next

\* Who is not the device of the step has no more rows and calls than before.
LEMMA StepDeviceOverrun == TypeOK /\ DeviceOverrunIsOverlap /\ [Next]_vars => DeviceOverrunIsOverlap'
<1> SUFFICES ASSUME TypeOK, DeviceOverrunIsOverlap, [Next]_vars, NEW device \in Devices
             PROVE  Within(RecentOfDevice(device)', AdmittedOfDevice(device)', DeviceLimit,
                           besideOfDevice'[device])
  BY DEF DeviceOverrunIsOverlap, Within
<1> DEFINE rows == RecentOfDevice(device)
           calls == AdmittedOfDevice(device)
           over == besideOfDevice[device]
<1>1. /\ IsFiniteSet(rows) /\ IsFiniteSet(calls) /\ DeviceLimit \in Nat /\ over \in Nat
      /\ Within(rows, calls, DeviceLimit, over)
  BY CountsAreFinite, FS_Subset, SubmissionAssumption
     DEF RecentOfDevice, AdmittedOfDevice, DeviceOverrunIsOverlap, Within, TypeOK
<1>2. CASE Forgets
  <2>1. rows' \subseteq rows /\ calls' \subseteq calls /\ over' = over
    BY <1>2 DEF Forgets, SameOrigin, RecentOfDevice, AdmittedOfDevice
  <2> HIDE DEF rows, calls, over
  <2>2. Within(rows', calls', DeviceLimit, over')
    BY <1>1, <2>1, FewerKeeps
  <2> QED BY <2>2 DEF rows, calls, over
<1>3. ASSUME NEW h \in Handlers, NEW d \in Devices, NEW a \in Addresses, Admits(h, d, a)
      PROVE  Within(rows', calls', DeviceLimit, over')
  <2>1. rows' = rows
    BY <1>3 DEF Admits, RecentOfDevice
  <2>2. CASE d = device
    <3>1. Cardinality(rows) < DeviceLimit /\ over' = Cardinality(calls)
      BY <1>3, <2>2 DEF Admits, CheckRateLimit, TypeOK
    <3>2. calls' \subseteq calls \cup {h}
      BY <1>3 DEF Admits, AdmittedOfDevice
    <3> HIDE DEF rows, calls, over
    <3> QED BY <1>1, <2>1, <3>1, <3>2, OneMoreCall
  <2>3. CASE d # device
    <3>1. handlers'[h].device # device
      BY <1>3, <2>3 DEF Admits, LookingUp
    <3>2. calls' \subseteq calls /\ over' = over
      BY <1>3, <2>3, <3>1 DEF Admits, AdmittedOfDevice, TypeOK
    <3> HIDE DEF rows, calls, over
    <3> QED BY <1>1, <2>1, <3>2, FewerKeeps
  <2> QED BY <2>2, <2>3
<1>4. ASSUME NEW h \in Handlers, NEW id \in Nat, Writes(h, id)
      PROVE  Within(rows', calls', DeviceLimit, over')
  <2>1. CASE handlers[h].device = device
    <3>1. /\ rows' = rows \cup {id} /\ calls' = calls \ {h} /\ h \in calls
          /\ over' = over
      BY <1>4, <2>1 DEF Writes, SameOrigin, RecentOfDevice, AdmittedOfDevice
    <3> HIDE DEF rows, calls, over
    <3> QED BY <1>1, <3>1, CallBecomesRow
  <2>2. CASE handlers[h].device # device
    <3>1. rows' \subseteq rows /\ calls' \subseteq calls /\ over' = over
      BY <1>4, <2>2 DEF Writes, SameOrigin, RecentOfDevice, AdmittedOfDevice
    <3> HIDE DEF rows, calls, over
    <3> QED BY <1>1, <3>1, FewerKeeps
  <2> QED BY <2>1, <2>2
<1> QED BY <1>2, <1>3, <1>4, StepCounts

\* The same for an address, whose devices are counted together.
LEMMA StepAddressOverrun == TypeOK /\ AddressOverrunIsOverlap /\ [Next]_vars => AddressOverrunIsOverlap'
<1> SUFFICES ASSUME TypeOK, AddressOverrunIsOverlap, [Next]_vars, NEW address \in Addresses
             PROVE  Within(RecentOfAddress(address)', AdmittedOfAddress(address)', IpLimit,
                           besideOfAddress'[address])
  BY DEF AddressOverrunIsOverlap, Within
<1> DEFINE rows == RecentOfAddress(address)
           calls == AdmittedOfAddress(address)
           over == besideOfAddress[address]
<1>1. /\ IsFiniteSet(rows) /\ IsFiniteSet(calls) /\ IpLimit \in Nat /\ over \in Nat
      /\ Within(rows, calls, IpLimit, over)
  BY CountsAreFinite, FS_Subset, SubmissionAssumption
     DEF RecentOfAddress, AdmittedOfAddress, AddressOverrunIsOverlap, Within, TypeOK
<1>2. CASE Forgets
  <2>1. rows' \subseteq rows /\ calls' \subseteq calls /\ over' = over
    BY <1>2 DEF Forgets, SameOrigin, RecentOfAddress, AdmittedOfAddress
  <2> HIDE DEF rows, calls, over
  <2>2. Within(rows', calls', IpLimit, over')
    BY <1>1, <2>1, FewerKeeps
  <2> QED BY <2>2 DEF rows, calls, over
<1>3. ASSUME NEW h \in Handlers, NEW d \in Devices, NEW a \in Addresses, Admits(h, d, a)
      PROVE  Within(rows', calls', IpLimit, over')
  <2>1. rows' = rows
    BY <1>3 DEF Admits, RecentOfAddress
  <2>2. CASE a = address
    <3>1. Cardinality(rows) < IpLimit /\ over' = Cardinality(calls)
      BY <1>3, <2>2 DEF Admits, CheckRateLimit, TypeOK
    <3>2. calls' \subseteq calls \cup {h}
      BY <1>3 DEF Admits, AdmittedOfAddress
    <3> HIDE DEF rows, calls, over
    <3> QED BY <1>1, <2>1, <3>1, <3>2, OneMoreCall
  <2>3. CASE a # address
    <3>1. handlers'[h].address # address
      BY <1>3, <2>3 DEF Admits, LookingUp
    <3>2. calls' \subseteq calls /\ over' = over
      BY <1>3, <2>3, <3>1 DEF Admits, AdmittedOfAddress, TypeOK
    <3> HIDE DEF rows, calls, over
    <3> QED BY <1>1, <2>1, <3>2, FewerKeeps
  <2> QED BY <2>2, <2>3
<1>4. ASSUME NEW h \in Handlers, NEW id \in Nat, Writes(h, id)
      PROVE  Within(rows', calls', IpLimit, over')
  <2>1. CASE handlers[h].address = address
    <3>1. /\ rows' = rows \cup {id} /\ calls' = calls \ {h} /\ h \in calls
          /\ over' = over
      BY <1>4, <2>1 DEF Writes, SameOrigin, RecentOfAddress, AdmittedOfAddress
    <3> HIDE DEF rows, calls, over
    <3> QED BY <1>1, <3>1, CallBecomesRow
  <2>2. CASE handlers[h].address # address
    <3>1. rows' \subseteq rows /\ calls' \subseteq calls /\ over' = over
      BY <1>4, <2>2 DEF Writes, SameOrigin, RecentOfAddress, AdmittedOfAddress
    <3> HIDE DEF rows, calls, over
    <3> QED BY <1>1, <3>1, FewerKeeps
  <2> QED BY <2>1, <2>2
<1> QED BY <1>2, <1>3, <1>4, StepCounts

\* A device overruns its limit by overlap only, and by no more than the submissions
\* that were under way when its last one was admitted: for every limit, window,
\* number of handlers and number of guests.
THEOREM DeviceOverrun == Spec => []DeviceOverrunIsOverlap
<1>1. Init => DeviceOverrunIsOverlap
  <2> SUFFICES ASSUME Init, NEW device \in Devices
               PROVE  Within(RecentOfDevice(device), AdmittedOfDevice(device), DeviceLimit,
                             besideOfDevice[device])
    BY DEF DeviceOverrunIsOverlap, Within
  <2>1. RecentOfDevice(device) = {} /\ AdmittedOfDevice(device) = {}
        /\ besideOfDevice[device] = 0
    BY DEF Init, RecentOfDevice, Recent, AdmittedOfDevice, Admitted, NoSubmission
  <2> QED BY <2>1, NothingCounted, SubmissionAssumption
<1> QED BY <1>1, TypeCorrect, StepDeviceOverrun, PTL DEF Spec

\* The same for an address, whichever devices are behind it.
THEOREM AddressOverrun == Spec => []AddressOverrunIsOverlap
<1>1. Init => AddressOverrunIsOverlap
  <2> SUFFICES ASSUME Init, NEW address \in Addresses
               PROVE  Within(RecentOfAddress(address), AdmittedOfAddress(address), IpLimit,
                             besideOfAddress[address])
    BY DEF AddressOverrunIsOverlap, Within
  <2>1. RecentOfAddress(address) = {} /\ AdmittedOfAddress(address) = {}
        /\ besideOfAddress[address] = 0
    BY DEF Init, RecentOfAddress, Recent, AdmittedOfAddress, Admitted, NoSubmission
  <2> QED BY <2>1, NothingCounted, SubmissionAssumption
<1> QED BY <1>1, TypeCorrect, StepAddressOverrun, PTL DEF Spec
=============================================================================
