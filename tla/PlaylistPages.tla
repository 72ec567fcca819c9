--------------------------- MODULE PlaylistPages ---------------------------
(***************************************************************************)
(* Reading a playlist page by page while it is edited: the walk of         *)
(* get_playlist_track_uris (app/spotify/client.py), whose list approvals   *)
(* and the cleanup worker rely on, and the pages that guests leaf through  *)
(* (app/routers/public_menu.py).                                           *)
(*                                                                         *)
(* Each page is a call of its own, so the playlist may change between two  *)
(* of them.  A page drops the items without a track, but its total counts  *)
(* them.                                                                   *)
(***************************************************************************)
EXTENDS SpotifyPlaylist

CONSTANTS WalkPageSize,            \* page_size of the walk
          PLAYLIST_PAGE_SIZE,      \* items on a page of the menu
          MaxLength, MaxEdits      \* bounds: items at first, edits

ASSUME PlaylistPagesAssumption ==
    /\ WalkPageSize \in Nat \ {0} /\ PLAYLIST_PAGE_SIZE \in Nat \ {0}
    /\ MaxLength \in Nat /\ MaxEdits \in Nat

VARIABLES playlist,   \* at Spotify
          walk,       \* get_playlist_track_uris
          menu,       \* the page a guest looks at
          edits       \* edits so far

vars == <<playlist, walk, menu, edits>>

\* The uris of the first n items that have a track, for every n.
ShownUpTo(items) ==
    LET shown[n \in 0 .. Len(items)] ==
            IF n = 0 THEN <<>>
            ELSE IF items[n].uri = Unavailable THEN shown[n - 1]
            ELSE Append(shown[n - 1], items[n].uri)
    IN  shown

Shown(items) == ShownUpTo(items)[Len(items)]

\* get_playlist_tracks: the items of one page that have a track.
PageItems(offset, size) ==
    Shown(SubSeq(playlist, offset + 1,
                 IF offset + size < Len(playlist) THEN offset + size ELSE Len(playlist)))

\* page.total
Total == Len(playlist)

\* The items that have a track.  Here the owner tells items of the same track apart.
ShownItems(items) == {items[i] : i \in {j \in DOMAIN items : items[j].uri # Unavailable}}

NoWalk == [pc |-> "idle"]
NoMenu == [open |-> FALSE]

Init ==
    /\ \E length \in 0 .. MaxLength :
          \E uris \in [1 .. length -> Tracks \cup {Unavailable}] :
             playlist = [i \in 1 .. length |-> [uri |-> uris[i], owner |-> i]]
    /\ walk = NoWalk
    /\ menu = NoMenu
    /\ edits = 0

-----------------------------------------------------------------------------
(* The walk.  "steady" are the items listed ever since it began; the       *)
(* histories say what happened on the way: an edit, one that took an item  *)
(* out, a page without a single track.                                     *)

StartWalk ==
    /\ walk.pc # "walking"
    /\ walk' = [pc |-> "walking", offset |-> 0, uris |-> <<>>, steady |-> ShownItems(playlist),
                edited |-> FALSE, shrunk |-> FALSE, blank |-> FALSE]
    /\ UNCHANGED <<playlist, menu, edits>>

\* Mutant: a short page is taken for the last one.
ShortPageIsLast(page, next) == next >= Total \/ Len(page) < WalkPageSize

IsLastPage(page, next) == next >= Total \/ page = <<>>

\* Mutant: the next page starts after the items received.
NextOffsetByItems(page) == walk.offset + Len(page)

NextOffset(page) == walk.offset + WalkPageSize

FetchPage ==
    /\ walk.pc = "walking"
    /\ LET page == PageItems(walk.offset, WalkPageSize)
           next == NextOffset(page)
       IN  walk' = [walk EXCEPT
               !.uris = @ \o page,
               !.offset = next,
               !.pc = IF IsLastPage(page, next) THEN "done" ELSE "walking",
               !.blank = @ \/ (page = <<>> /\ walk.offset < Total)]
    /\ UNCHANGED <<playlist, menu, edits>>

\* A call raises, and so does the walk.
WalkFails ==
    /\ walk.pc = "walking"
    /\ walk' = NoWalk
    /\ UNCHANGED <<playlist, menu, edits>>

-----------------------------------------------------------------------------
(* The pages of the menu.  "seen" is what the guest has read from the      *)
(* first page on, "straight" that they only followed Next over a playlist  *)
(* nobody edited.                                                          *)

\* Mutant: one item too few.
HasNextEarly(offset, page) == offset + Len(page) + 1 < Total

\* Mutant: one item too many.
HasNextLate(offset, page) == offset + Len(page) <= Total

HasNext(offset, page) == offset + Len(page) < Total

\* The page as it is rendered, with its links.
MenuPage(offset, seen, straight) ==
    LET page == PageItems(offset, PLAYLIST_PAGE_SIZE)
    IN  [open |-> TRUE, offset |-> offset, shown |-> page, has_next |-> HasNext(offset, page),
         seen |-> seen \o page, straight |-> straight]

OpenMenu ==
    /\ menu' = MenuPage(0, <<>>, TRUE)
    /\ UNCHANGED <<playlist, walk, edits>>

FollowNext ==
    /\ menu.open
    /\ menu.has_next
    /\ menu' = MenuPage(menu.offset + PLAYLIST_PAGE_SIZE, menu.seen, menu.straight)
    /\ UNCHANGED <<playlist, walk, edits>>

FollowPrevious ==
    /\ menu.open
    /\ menu.offset > 0
    /\ menu' = MenuPage(IF menu.offset > PLAYLIST_PAGE_SIZE
                        THEN menu.offset - PLAYLIST_PAGE_SIZE ELSE 0, <<>>, FALSE)
    /\ UNCHANGED <<playlist, walk, edits>>

-----------------------------------------------------------------------------
(* Approvals, the worker and the venue edit the playlist.                  *)

Edited(shrinks) ==
    /\ edits < MaxEdits
    /\ edits' = edits + 1
    /\ walk' = IF walk.pc = "walking"
               THEN [walk EXCEPT !.edited = TRUE, !.shrunk = @ \/ shrinks,
                                 !.steady = @ \cap ShownItems(playlist')]
               ELSE NoWalk
    /\ menu' = IF menu.open THEN [menu EXCEPT !.straight = FALSE, !.seen = <<>>] ELSE menu

InsertTrack(position, uri) ==
    /\ CanInsertAt(playlist, position)
    /\ playlist' = InsertItem(playlist, position, [uri |-> uri, owner |-> MaxLength + edits + 1])
    /\ Edited(FALSE)

DeleteTrack(position, uri) ==
    /\ CanDeleteAt(playlist, position, uri)
    /\ playlist' = DeleteItem(playlist, position)
    /\ Edited(TRUE)

TrackTakenDown(i) ==
    /\ playlist[i].uri # Unavailable
    /\ playlist' = [playlist EXCEPT ![i].uri = Unavailable]
    /\ Edited(FALSE)

WalkStep == StartWalk \/ FetchPage \/ WalkFails

Next ==
    \/ WalkStep
    \/ OpenMenu \/ FollowNext \/ FollowPrevious
    \/ \E position \in 0 .. Len(playlist), uri \in Tracks :
          InsertTrack(position, uri) \/ DeleteTrack(position, uri)
    \/ \E i \in DOMAIN playlist : TrackTakenDown(i)

Spec == Init /\ [][Next]_vars

-----------------------------------------------------------------------------
(* Properties.                                                             *)

Listings == Seq(Tracks)

\* The state keeps its shape; a walk stands at the start of a page.
TypeOK ==
    /\ playlist \in Seq(Items)
    /\ walk # NoWalk =>
          /\ walk.pc \in {"walking", "done"}
          /\ walk.uris \in Listings
          /\ walk.offset % WalkPageSize = 0
          /\ walk.pc = "walking" => Len(walk.uris) <= walk.offset
    /\ menu.open =>
          menu.offset \in Nat /\ menu.shown \in Listings /\ menu.seen \in Listings
    /\ edits \in Nat

\* A track that is in the playlist all the time is in the list, although insertions
\* between two pages shift the rest, unless an item was taken out meanwhile, or a page of
\* unavailable items alone ended the walk.
WalkMissesNothing ==
    walk.pc = "done" /\ ~walk.shrunk /\ ~walk.blank =>
        \A item \in walk.steady : \E i \in DOMAIN walk.uris : walk.uris[i] = item.uri

\* The starts of the pages, and those whose page has no item with a track.
PageStarts == {n \in 0 .. Len(playlist) - 1 : n % WalkPageSize = 0}
BlankPages == {n \in PageStarts : PageItems(n, WalkPageSize) = <<>>}

\* Where the walk stops over a playlist nobody edits: at the first page without a single
\* track, behind the last item when there is none.
StopsAt(n) ==
    /\ n \in BlankPages \/ n = Len(playlist)
    /\ \A start \in BlankPages : n <= start

\* Over a playlist nobody edits the walk returns exactly what is listed before the first
\* page of unavailable items alone, each item once and in order, and the whole listing
\* only if there is no such page: client.py:135, "walks every page", is more than
\* client.py:153 does, which takes such a page for the end of the playlist.
WalkExact ==
    walk.pc = "done" /\ ~walk.edited =>
        \E n \in 0 .. Len(playlist) :
            StopsAt(n) /\ walk.uris = Shown(SubSeq(playlist, 1, n))

\* A guest who follows Next from the first page to a page without it has seen every
\* track once, in order (has_next and next_offset, over a playlist nobody edits).
MenuComplete ==
    menu.open /\ menu.straight /\ ~menu.has_next => menu.seen = Shown(playlist)

\* Next is offered only when there is something to see there, as long as every item of
\* the playlist has a track.
NextLeadsOn ==
    menu.open /\ menu.straight /\ menu.has_next
    /\ (\A i \in DOMAIN playlist : playlist[i].uri # Unavailable)
    => PageItems(menu.offset + PLAYLIST_PAGE_SIZE, PLAYLIST_PAGE_SIZE) # <<>>
=============================================================================
