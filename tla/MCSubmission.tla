---------------------------- MODULE MCSubmission ----------------------------
(* Instances of Submission for TLC. *)
EXTENDS Submission, TLC

CONSTANTS song, anthem, phone, tablet, wifi, mobile, h1, h2

\* Handlers are interchangeable, and so are devices and addresses.
Symmetry == Permutations(Handlers) \cup Permutations(Devices) \cup Permutations(Addresses)
=============================================================================
