------------------------------ MODULE MCPoller ------------------------------
(* Instances of Poller for TLC. *)
EXTENDS Poller

CONSTANTS main, other, backbone, song

\* Each playlist of the venue has one track.
MCBackbone == [p \in Playlists |-> <<backbone>>]

\* The tracks of the second playlist are not repeated; without one, neither.
MCConfigChoices ==
    {[playlist |-> main, repeat |-> TRUE], [playlist |-> other, repeat |-> FALSE],
     [playlist |-> NoPlaylist, repeat |-> FALSE]}
=============================================================================
