-------------------------- MODULE SpotifyPlaylist --------------------------
(***************************************************************************)
(* A playlist as Spotify keeps it, and the calls of app/spotify/client.py  *)
(* that read and edit it.  A playlist is a sequence of items; an item has  *)
(* the uri of its track and, as a history variable, its owner: 0 for an    *)
(* item the venue put there, otherwise the ticket of the submission whose  *)
(* approval inserted it.                                                   *)
(*                                                                         *)
(* Spotify's side is external: an insert is accepted at any position from  *)
(* 0 to the length, a delete only at a position that holds the uri named.  *)
(* A track that was taken down stays in the playlist as an item without a  *)
(* track (uri Unavailable): the program's listing drops such items, while  *)
(* Spotify goes on counting them in positions.                             *)
(*                                                                         *)
(* Positions are 0-based, as in the program and the Web API.               *)
(***************************************************************************)
EXTENDS Integers, Sequences, FiniteSets

CONSTANTS Tracks, NoTrack, Unavailable

ASSUME TracksAssumption == NoTrack \notin Tracks /\ Unavailable \notin Tracks

Owners == Nat
Items == [uri : Tracks \cup {Unavailable}, owner : Owners]

\* The indices of the items that a listing returns, up to index i.
ListedUpTo(items, i) ==
    {j \in DOMAIN items : j <= i /\ items[j].uri # Unavailable}

\* get_playlist_track_uris: is the track in the list the walk returns?
InListing(items, uri) == \E i \in DOMAIN items : items[i].uri = uri /\ uri # Unavailable

\* len(track_uris)
ListingLength(items) == Cardinality(ListedUpTo(items, Len(items)))

\* track_uris.index(uri): the listed items before the first occurrence of uri.
IsFirstOccurrence(items, uri, i) ==
    /\ i \in DOMAIN items
    /\ items[i].uri = uri
    /\ \A j \in DOMAIN items : items[j].uri = uri => i <= j

ListingIndex(items, uri) ==
    Cardinality(ListedUpTo(items,
                           (CHOOSE i \in DOMAIN items : IsFirstOccurrence(items, uri, i)) - 1))

\* What Spotify accepts: a position inside the playlist or at its end.
CanInsertAt(items, position) == position \in 0 .. Len(items)

InsertItem(items, position, item) ==
    SubSeq(items, 1, position) \o <<item>> \o SubSeq(items, position + 1, Len(items))

\* What Spotify accepts: the position must hold the track the call names.
CanDeleteAt(items, position, uri) ==
    position + 1 \in DOMAIN items /\ items[position + 1].uri = uri

DeleteItem(items, position) ==
    SubSeq(items, 1, position) \o SubSeq(items, position + 2, Len(items))
=============================================================================
