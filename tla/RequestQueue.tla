---------------------------- MODULE RequestQueue ----------------------------
(***************************************************************************)
(* What the request list promises, with no table, no Spotify and no        *)
(* interleaving: a submission waits until it is added or denied, once and  *)
(* for good, and at most one submission of a track waits at a time.        *)
(*                                                                         *)
(* A ticket is the number of a submission.  A ticket that was issued and   *)
(* is neither waiting nor added was denied.                                *)
(***************************************************************************)
EXTENDS Naturals, Sequences

CONSTANT Tracks

VARIABLES submitted,  \* the tracks submitted, in order
          waiting,    \* the tickets still in the request list
          added       \* the tickets approved

vars == <<submitted, waiting, added>>

Issued == 1 .. Len(submitted)
Denied == Issued \ (waiting \cup added)

Init ==
    /\ submitted = <<>>
    /\ waiting = {}
    /\ added = {}

Submit(track) ==
    /\ \A ticket \in waiting : submitted[ticket] # track
    /\ submitted' = Append(submitted, track)
    /\ waiting' = waiting \cup {Len(submitted) + 1}
    /\ UNCHANGED added

Add(ticket) ==
    /\ ticket \in waiting
    /\ waiting' = waiting \ {ticket}
    /\ added' = added \cup {ticket}
    /\ UNCHANGED submitted

Deny(ticket) ==
    /\ ticket \in waiting
    /\ waiting' = waiting \ {ticket}
    /\ UNCHANGED <<submitted, added>>

Next ==
    \/ \E track \in Tracks : Submit(track)
    \/ \E ticket \in waiting : Add(ticket) \/ Deny(ticket)

Spec == Init /\ [][Next]_vars
=============================================================================
