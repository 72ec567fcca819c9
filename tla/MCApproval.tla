----------------------------- MODULE MCApproval -----------------------------
(* Instances of Approval for TLC. *)
EXTENDS Approval

CONSTANTS backbone, song, hit, main

\* The venue's playlist has one track.
MCBackbone == [p \in Playlists |-> IF p = main THEN <<backbone>> ELSE <<>>]
=============================================================================
