----------------------- MODULE SpotifyPlaylistProofs -----------------------
(***************************************************************************)
(* What the operators on playlists return: the items after an insertion    *)
(* and a deletion, by position, and the numbers a listing gives.           *)
(***************************************************************************)
EXTENDS SpotifyPlaylist, SequenceTheorems, FiniteSetTheorems, TLAPS

\* The playlists of the venue, before the program touches them, are playlists.
LEMMA VenuePlaylistType ==
    ASSUME NEW tracks \in Seq(Tracks)
    PROVE  [i \in DOMAIN tracks |-> [uri |-> tracks[i], owner |-> 0]] \in Seq(Items)
<1>1. Len(tracks) \in Nat /\ DOMAIN tracks = 1 .. Len(tracks)
  BY LenProperties
<1>2. \A i \in 1 .. Len(tracks) : [uri |-> tracks[i], owner |-> 0] \in Items
  BY ElementOfSeq DEF Items, Owners
<1> QED BY <1>1, <1>2, SeqDef

\* Inserting an item at a position Spotify accepts yields a playlist: what was in
\* front stays, the item is at the position, what was behind moves up by one.
LEMMA InsertItemPositions ==
    ASSUME NEW items \in Seq(Items), NEW item \in Items, NEW position \in 0 .. Len(items)
    PROVE  /\ InsertItem(items, position, item) \in Seq(Items)
           /\ Len(InsertItem(items, position, item)) = Len(items) + 1
           /\ \A i \in 1 .. position : InsertItem(items, position, item)[i] = items[i]
           /\ InsertItem(items, position, item)[position + 1] = item
           /\ \A i \in position + 2 .. Len(items) + 1 :
                 InsertItem(items, position, item)[i] = items[i - 1]
<1> DEFINE front == SubSeq(items, 1, position)
           back == SubSeq(items, position + 1, Len(items))
           upTo == front \o <<item>>
<1>1. Len(items) \in Nat /\ position \in Nat
  BY LenProperties
<1>2. /\ front \in Seq(Items) /\ Len(front) = position
      /\ \A i \in 1 .. position : front[i] = items[i]
  <2>1. \A i \in 1 .. position : items[i] \in Items
    BY <1>1, ElementOfSeq
  <2> QED BY <1>1, <2>1, SubSeqProperties
<1>3. /\ back \in Seq(Items) /\ Len(back) = Len(items) - position
      /\ \A i \in 1 .. Len(items) - position : back[i] = items[position + i]
  <2>1. \A i \in position + 1 .. Len(items) : items[i] \in Items
    BY <1>1, ElementOfSeq
  <2> QED BY <1>1, <2>1, SubSeqProperties
<1>4. <<item>> \in Seq(Items) /\ Len(<<item>>) = 1 /\ <<item>>[1] = item
  OBVIOUS
<1> HIDE DEF front, back
<1>5. /\ upTo \in Seq(Items) /\ Len(upTo) = position + 1
      /\ \A i \in 1 .. position + 1 : upTo[i] = IF i <= position THEN front[i] ELSE item
  <2>1. \A i \in 1 .. position + 1 : i - position = 1 \/ i <= position
    BY <1>1
  <2> QED BY <1>1, <1>2, <1>4, <2>1, ConcatProperties
<1> HIDE DEF upTo
<1>6. /\ upTo \o back \in Seq(Items) /\ Len(upTo \o back) = Len(items) + 1
      /\ \A i \in 1 .. Len(items) + 1 :
            (upTo \o back)[i] = IF i <= position + 1 THEN upTo[i] ELSE back[i - (position + 1)]
  BY <1>1, <1>3, <1>5, ConcatProperties
<1>7. InsertItem(items, position, item) = upTo \o back
  BY DEF InsertItem, front, back, upTo
<1>8. ASSUME NEW i \in position + 2 .. Len(items) + 1
      PROVE  back[i - (position + 1)] = items[i - 1]
  <2>1. i - (position + 1) \in 1 .. Len(items) - position
    BY <1>1
  <2>2. position + (i - (position + 1)) = i - 1
    BY <1>1
  <2> QED BY <1>3, <2>1, <2>2
<1> QED BY <1>1, <1>2, <1>5, <1>6, <1>7, <1>8

\* So each item of the new playlist is the one inserted or one that was there,
\* and no two of them are the same old item.
LEMMA InsertItemOrigin ==
    ASSUME NEW items \in Seq(Items), NEW item \in Items, NEW position \in 0 .. Len(items)
    PROVE  \A i \in DOMAIN InsertItem(items, position, item) :
              \/ i = position + 1 /\ InsertItem(items, position, item)[i] = item
              \/ /\ i <= position /\ i \in DOMAIN items
                 /\ InsertItem(items, position, item)[i] = items[i]
              \/ /\ i > position + 1 /\ i - 1 \in DOMAIN items
                 /\ InsertItem(items, position, item)[i] = items[i - 1]
<1> DEFINE new == InsertItem(items, position, item)
<1>1. /\ new \in Seq(Items) /\ Len(new) = Len(items) + 1 /\ new[position + 1] = item
      /\ \A i \in 1 .. position : new[i] = items[i]
      /\ \A i \in position + 2 .. Len(items) + 1 : new[i] = items[i - 1]
  BY InsertItemPositions
<1> HIDE DEF new
<1>2. /\ DOMAIN new = 1 .. Len(items) + 1 /\ DOMAIN items = 1 .. Len(items)
      /\ Len(items) \in Nat
  BY <1>1, LenProperties
<1> SUFFICES ASSUME NEW i \in DOMAIN new
             PROVE  \/ i = position + 1 /\ new[i] = item
                    \/ i <= position /\ i \in DOMAIN items /\ new[i] = items[i]
                    \/ i > position + 1 /\ i - 1 \in DOMAIN items /\ new[i] = items[i - 1]
  BY DEF new
<1> QED BY <1>1, <1>2

\* Taking an item out of a playlist leaves a playlist: what was in front stays, what
\* was behind moves down by one.
LEMMA DeleteItemPositions ==
    ASSUME NEW items \in Seq(Items), NEW position \in 0 .. Len(items) - 1
    PROVE  /\ DeleteItem(items, position) \in Seq(Items)
           /\ Len(DeleteItem(items, position)) = Len(items) - 1
           /\ \A i \in 1 .. position : DeleteItem(items, position)[i] = items[i]
           /\ \A i \in position + 1 .. Len(items) - 1 :
                 DeleteItem(items, position)[i] = items[i + 1]
<1> DEFINE front == SubSeq(items, 1, position)
           back == SubSeq(items, position + 2, Len(items))
<1>1. Len(items) \in Nat /\ position \in Nat
  BY LenProperties
<1>2. /\ front \in Seq(Items) /\ Len(front) = position
      /\ \A i \in 1 .. position : front[i] = items[i]
  <2>1. \A i \in 1 .. position : items[i] \in Items
    BY <1>1, ElementOfSeq
  <2> QED BY <1>1, <2>1, SubSeqProperties
<1>3. /\ back \in Seq(Items) /\ Len(back) = Len(items) - (position + 1)
      /\ \A i \in 1 .. Len(items) - (position + 1) : back[i] = items[position + 1 + i]
  <2>1. \A i \in position + 2 .. Len(items) : items[i] \in Items
    BY <1>1, ElementOfSeq
  <2> QED BY <1>1, <2>1, SubSeqProperties
<1> HIDE DEF front, back
<1>4. /\ front \o back \in Seq(Items) /\ Len(front \o back) = Len(items) - 1
      /\ \A i \in 1 .. Len(items) - 1 :
            (front \o back)[i] = IF i <= position THEN front[i] ELSE back[i - position]
  <2>1. Len(front) + Len(back) = Len(items) - 1
    BY <1>1, <1>2, <1>3
  <2>2. /\ front \o back \in Seq(Items) /\ Len(front \o back) = Len(front) + Len(back)
        /\ \A i \in 1 .. Len(front) + Len(back) :
              (front \o back)[i] = IF i <= Len(front) THEN front[i] ELSE back[i - Len(front)]
    BY <1>2, <1>3, ConcatProperties
  <2> QED BY <1>2, <2>1, <2>2
<1>5. DeleteItem(items, position) = front \o back
  BY DEF DeleteItem, front, back
<1>6. ASSUME NEW i \in position + 1 .. Len(items) - 1
      PROVE  back[i - position] = items[i + 1]
  <2>1. i - position \in 1 .. Len(items) - (position + 1)
    BY <1>1
  <2>2. position + 1 + (i - position) = i + 1
    BY <1>1
  <2> QED BY <1>3, <2>1, <2>2
<1> QED BY <1>1, <1>2, <1>4, <1>5, <1>6

\* So each item that is left was there, and it is not the one taken out.
LEMMA DeleteItemOrigin ==
    ASSUME NEW items \in Seq(Items), NEW position \in 0 .. Len(items) - 1
    PROVE  \A i \in DOMAIN DeleteItem(items, position) :
              \/ /\ i <= position /\ i \in DOMAIN items
                 /\ DeleteItem(items, position)[i] = items[i]
              \/ /\ i > position /\ i + 1 \in DOMAIN items
                 /\ DeleteItem(items, position)[i] = items[i + 1]
<1> DEFINE new == DeleteItem(items, position)
<1>1. /\ new \in Seq(Items) /\ Len(new) = Len(items) - 1
      /\ \A i \in 1 .. position : new[i] = items[i]
      /\ \A i \in position + 1 .. Len(items) - 1 : new[i] = items[i + 1]
  BY DeleteItemPositions
<1> HIDE DEF new
<1>2. /\ DOMAIN new = 1 .. Len(items) - 1 /\ DOMAIN items = 1 .. Len(items)
      /\ Len(items) \in Nat
  BY <1>1, LenProperties
<1> SUFFICES ASSUME NEW i \in DOMAIN new
             PROVE  \/ i <= position /\ i \in DOMAIN items /\ new[i] = items[i]
                    \/ i > position /\ i + 1 \in DOMAIN items /\ new[i] = items[i + 1]
  BY DEF new
<1> QED BY <1>1, <1>2

\* A track that stops being available keeps its place and its owner.
LEMMA UnavailableItem ==
    ASSUME NEW items \in Seq(Items), NEW i \in DOMAIN items
    PROVE  /\ [items EXCEPT ![i].uri = Unavailable] \in Seq(Items)
           /\ DOMAIN [items EXCEPT ![i].uri = Unavailable] = DOMAIN items
           /\ \A j \in DOMAIN items : j # i =>
                 [items EXCEPT ![i].uri = Unavailable][j] = items[j]
           /\ [items EXCEPT ![i].uri = Unavailable][i].uri = Unavailable
           /\ [items EXCEPT ![i].uri = Unavailable][i].owner = items[i].owner
<1> DEFINE gone == [items[i] EXCEPT !.uri = Unavailable]
<1>1. items[i] \in Items /\ i \in 1 .. Len(items) /\ DOMAIN items = 1 .. Len(items)
  BY LenProperties, ElementOfSeq
<1>2. gone \in Items /\ gone.uri = Unavailable /\ gone.owner = items[i].owner
  BY <1>1 DEF Items
<1>3. [items EXCEPT ![i].uri = Unavailable] = [items EXCEPT ![i] = gone]
  OBVIOUS
<1> HIDE DEF gone
<1>4. /\ [items EXCEPT ![i] = gone] \in Seq(Items)
      /\ \A j \in 1 .. Len(items) : [items EXCEPT ![i] = gone][j] = IF j = i THEN gone ELSE items[j]
  BY <1>1, <1>2, ExceptSeq
<1> QED BY <1>1, <1>2, <1>3, <1>4

\* The listing of a playlist has a length, and its tracks have an index in it.
LEMMA ListingNumbers ==
    ASSUME NEW items \in Seq(Items), NEW track
    PROVE  /\ ListingLength(items) \in Nat
           /\ ListingIndex(items, track) \in Nat
<1>1. IsFiniteSet(DOMAIN items)
  <2>1. Len(items) \in Int /\ DOMAIN items = 1 .. Len(items)
    BY LenProperties
  <2> QED BY <2>1, FS_Interval
<1>2. ASSUME NEW i PROVE Cardinality(ListedUpTo(items, i)) \in Nat
  BY <1>1, FS_Subset, FS_CardinalityType DEF ListedUpTo
<1> QED BY <1>2 DEF ListingLength, ListingIndex

\* An item of an approval shares its track with no other item, but for some tracks.
ApprovedOnce(items, exempt) ==
    \A i, j \in DOMAIN items :
        /\ items[i].uri = items[j].uri
        /\ items[i].uri \notin exempt
        /\ items[i].owner > 0
        => i = j

\* Inserting a track the listing does not show makes no second copy of it.
LEMMA InsertUnlisted ==
    ASSUME NEW items \in Seq(Items), NEW item \in Items, NEW position \in 0 .. Len(items),
           NEW exempt, ApprovedOnce(items, exempt), item.uri # Unavailable,
           item.uri \in exempt \/ ~InListing(items, item.uri)
    PROVE  ApprovedOnce(InsertItem(items, position, item), exempt)
<1> DEFINE new == InsertItem(items, position, item)
<1>1. /\ DOMAIN new = 1 .. Len(items) + 1 /\ Len(items) \in Nat
      /\ DOMAIN items = 1 .. Len(items)
  BY InsertItemPositions, LenProperties
<1>2. \A i \in DOMAIN new :
         \/ i = position + 1 /\ new[i] = item
         \/ i <= position /\ i \in DOMAIN items /\ new[i] = items[i]
         \/ i > position + 1 /\ i - 1 \in DOMAIN items /\ new[i] = items[i - 1]
  BY InsertItemOrigin
<1> HIDE DEF new
<1>3. item.uri \in exempt \/ \A i \in DOMAIN items : items[i].uri # item.uri
  BY DEF InListing
<1> SUFFICES ASSUME NEW i \in DOMAIN new, NEW j \in DOMAIN new, new[i].uri = new[j].uri,
                    new[i].uri \notin exempt, new[i].owner > 0
             PROVE  i = j
  BY DEF ApprovedOnce, new
<1>4. (i = position + 1) <=> (j = position + 1)
  BY <1>1, <1>2, <1>3
<1>5. ASSUME NEW k \in DOMAIN items, NEW l \in DOMAIN items,
             new[i] = items[k], new[j] = items[l]
      PROVE  k = l
  BY <1>5 DEF ApprovedOnce
<1> QED BY <1>1, <1>2, <1>4, <1>5

\* Taking an item out makes no second copy, and puts no track on the listing.
LEMMA DeleteKeepsOnce ==
    ASSUME NEW items \in Seq(Items), NEW position \in 0 .. Len(items) - 1,
           NEW exempt, ApprovedOnce(items, exempt)
    PROVE  /\ ApprovedOnce(DeleteItem(items, position), exempt)
           /\ \A uri : InListing(DeleteItem(items, position), uri) => InListing(items, uri)
<1> DEFINE new == DeleteItem(items, position)
<1>1. \A i \in DOMAIN new :
         \/ i <= position /\ i \in DOMAIN items /\ new[i] = items[i]
         \/ i > position /\ i + 1 \in DOMAIN items /\ new[i] = items[i + 1]
  BY DeleteItemOrigin
<1>2. DOMAIN items \subseteq Nat /\ DOMAIN new \subseteq Nat
  BY LenProperties, DeleteItemPositions
<1> HIDE DEF new
<1>3. ApprovedOnce(new, exempt)
  <2> SUFFICES ASSUME NEW i \in DOMAIN new, NEW j \in DOMAIN new, new[i].uri = new[j].uri,
                      new[i].uri \notin exempt, new[i].owner > 0
               PROVE  i = j
    BY DEF ApprovedOnce
  <2>1. ASSUME NEW k \in DOMAIN items, NEW l \in DOMAIN items,
               new[i] = items[k], new[j] = items[l]
        PROVE  k = l
    BY <2>1 DEF ApprovedOnce
  <2> QED BY <1>1, <1>2, <2>1
<1>4. \A uri : InListing(new, uri) => InListing(items, uri)
  BY <1>1 DEF InListing
<1> QED BY <1>3, <1>4 DEF new

\* Neither does an item whose track stops being available.
LEMMA UnavailableKeepsOnce ==
    ASSUME NEW items \in Seq(Items), NEW place \in DOMAIN items,
           NEW exempt, Unavailable \in exempt, ApprovedOnce(items, exempt)
    PROVE  /\ ApprovedOnce([items EXCEPT ![place].uri = Unavailable], exempt)
           /\ \A uri : InListing([items EXCEPT ![place].uri = Unavailable], uri)
                          => InListing(items, uri)
<1> DEFINE new == [items EXCEPT ![place].uri = Unavailable]
<1>1. /\ DOMAIN new = DOMAIN items /\ new[place].uri = Unavailable
      /\ \A j \in DOMAIN items : j # place => new[j] = items[j]
  BY UnavailableItem
<1> HIDE DEF new
<1>2. ApprovedOnce(new, exempt)
  BY <1>1 DEF ApprovedOnce
<1>3. \A uri : InListing(new, uri) => InListing(items, uri)
  BY <1>1 DEF InListing
<1> QED BY <1>2, <1>3 DEF new
=============================================================================
