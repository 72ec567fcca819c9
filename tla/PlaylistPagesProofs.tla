------------------------ MODULE PlaylistPagesProofs ------------------------
(***************************************************************************)
(* What holds of the walk and of the menu for every page size, every       *)
(* playlist and every number of edits.                                     *)
(***************************************************************************)
EXTENDS PlaylistPages, SpotifyPlaylistProofs, WellFoundedInduction

-----------------------------------------------------------------------------
(* Shown: the tracks of a sequence of items.                               *)

\* The table g of what is shown of the first 0, 1, ..., m items.
IsShown(g, items, m) ==
    /\ g \in [0 .. m -> Listings]
    /\ g[0] = <<>>
    /\ \A n \in 1 .. m : g[n] = IF items[n].uri = Unavailable THEN g[n - 1]
                                ELSE Append(g[n - 1], items[n].uri)

\* Of numbers that are not all good, the smallest bad one has good ones before it only.
LEMMA LeastBad ==
    ASSUME NEW Bad \in SUBSET Nat, Bad # {}
    PROVE  \E m \in Bad : \A n \in Bad : m <= n
<1>1. PICK m \in Bad : \A n \in Bad : ~(<<n, m>> \in OpToRel(<, Nat))
  BY WFMin, NatLessThanWellFounded
<1>2. \A n \in Bad : m <= n
  <2>1. OpToRel(<, Nat) = {pair \in Nat \X Nat : pair[1] < pair[2]}
    BY DEF OpToRel
  <2>2. ASSUME NEW n \in Bad, n < m PROVE FALSE
    BY <1>1, <2>1, <2>2
  <2> QED BY <2>2
<1> QED BY <1>2

\* Such a table exists for every number of items.
LEMMA ShownExists ==
    ASSUME NEW items \in Seq(Items), NEW m \in 0 .. Len(items)
    PROVE  \E g : IsShown(g, items, m)
<1> DEFINE Bad == {k \in 0 .. Len(items) : ~\E g : IsShown(g, items, k)}
<1>1. DOMAIN items = 1 .. Len(items) /\ Len(items) \in Nat
  BY LenProperties
<1>2. Bad \subseteq Nat
  BY <1>1
<1>3. ASSUME NEW k \in Bad, \A n \in Bad : k <= n PROVE FALSE
  <2>1. k \in 0 .. Len(items) /\ k \in Nat
    BY <1>1
  <2>2. k # 0
    <3>1. IsShown([n \in 0 .. 0 |-> <<>>], items, 0)
      BY DEF IsShown, Listings
    <3> QED BY <3>1
  <2>3. k - 1 \in 0 .. Len(items) /\ k - 1 \notin Bad
    BY <1>1, <1>3, <2>1, <2>2
  <2>4. PICK g : IsShown(g, items, k - 1)
    BY <2>3
  <2>5. /\ g \in [0 .. k - 1 -> Listings] /\ g[k - 1] \in Listings
        /\ items[k] \in Items
    BY <1>1, <2>1, <2>2, <2>4, ElementOfSeq DEF IsShown
  <2> DEFINE last == IF items[k].uri = Unavailable THEN g[k - 1]
                     ELSE Append(g[k - 1], items[k].uri)
             longer == [n \in 0 .. k |-> IF n = k THEN last ELSE g[n]]
  <2>6. last \in Listings
    <3>1. CASE items[k].uri = Unavailable
      BY <2>5, <3>1
    <3>2. CASE items[k].uri # Unavailable
      <4>1. items[k].uri \in Tracks
        BY <2>5, <3>2 DEF Items
      <4> QED BY <2>5, <3>2, <4>1, AppendProperties DEF Listings
    <3> QED BY <3>1, <3>2
  <2> HIDE DEF last
  <2>7. longer \in [0 .. k -> Listings] /\ longer[0] = <<>> /\ longer[k] = last
    BY <2>1, <2>2, <2>4, <2>5, <2>6 DEF IsShown
  <2>8. \A n \in 1 .. k - 1 :
           longer[n] = IF items[n].uri = Unavailable THEN longer[n - 1]
                       ELSE Append(longer[n - 1], items[n].uri)
    <3> SUFFICES ASSUME NEW n \in 1 .. k - 1
                 PROVE  longer[n] = IF items[n].uri = Unavailable THEN longer[n - 1]
                                    ELSE Append(longer[n - 1], items[n].uri)
      OBVIOUS
    <3>1. longer[n] = g[n] /\ longer[n - 1] = g[n - 1]
      BY <2>1
    <3>2. g[n] = IF items[n].uri = Unavailable THEN g[n - 1]
                 ELSE Append(g[n - 1], items[n].uri)
      BY <2>4 DEF IsShown
    <3> QED BY <3>1, <3>2
  <2>9. longer[k - 1] = g[k - 1]
    BY <2>1, <2>2
  <2>10. IsShown(longer, items, k)
    <3> HIDE DEF longer
    <3>1. longer[k] = IF items[k].uri = Unavailable THEN longer[k - 1]
                      ELSE Append(longer[k - 1], items[k].uri)
      BY <2>7, <2>9 DEF last
    <3>2. \A n \in 1 .. k : n = k \/ n \in 1 .. k - 1
      BY <2>1
    <3> QED BY <2>7, <2>8, <3>1, <3>2 DEF IsShown
  <2> QED BY <2>10
<1>4. Bad = {}
  BY <1>2, <1>3, LeastBad
<1> QED BY <1>4

\* ... and ShownUpTo is it.
LEMMA ShownTable ==
    ASSUME NEW items \in Seq(Items)
    PROVE  IsShown(ShownUpTo(items), items, Len(items))
<1>1. Len(items) \in Nat /\ Len(items) \in 0 .. Len(items)
  BY LenProperties
<1> DEFINE Step(g, n) == IF n = 0 THEN <<>>
                         ELSE IF items[n].uri = Unavailable THEN g[n - 1]
                         ELSE Append(g[n - 1], items[n].uri)
           Table(g) == [n \in 0 .. Len(items) |-> Step(g, n)]
<1>2. PICK g : IsShown(g, items, Len(items))
  BY <1>1, ShownExists
<1>3. g = Table(g)
  <2>1. ASSUME NEW n \in 0 .. Len(items) PROVE g[n] = Step(g, n)
    <3>1. CASE n = 0
      BY <1>2, <3>1 DEF IsShown
    <3>2. CASE n # 0
      <4>1. n \in 1 .. Len(items)
        BY <1>1, <3>2
      <4> QED BY <1>2, <3>2, <4>1 DEF IsShown
    <3> QED BY <3>1, <3>2
  <2> HIDE DEF Step
  <2>2. g = [n \in 0 .. Len(items) |-> g[n]]
    BY <1>2 DEF IsShown
  <2> QED BY <2>1, <2>2
<1>4. ShownUpTo(items) = CHOOSE h : h = Table(h)
  BY DEF ShownUpTo
<1>5. ShownUpTo(items) = Table(ShownUpTo(items))
  <2> HIDE DEF Table
  <2> QED BY <1>3, <1>4
<1> DEFINE h == ShownUpTo(items)
           Bad == {n \in 0 .. Len(items) : h[n] # g[n]}
<1>6. \A n \in 0 .. Len(items) : h[n] = Step(h, n) /\ g[n] = Step(g, n)
  <2>1. h = Table(h)
    BY <1>5
  <2> HIDE DEF h, Step
  <2> QED BY <1>3, <2>1
<1>7. ASSUME NEW n \in Bad, \A k \in Bad : n <= k PROVE FALSE
  <2>1. h[n] = Step(h, n) /\ g[n] = Step(g, n) /\ h[n] # g[n] /\ n \in Nat
    BY <1>1, <1>6
  <2>2. n = 0 \/ h[n - 1] = g[n - 1]
    <3>1. n = 0 \/ n - 1 \in 0 .. Len(items)
      BY <1>1
    <3>2. n - 1 \notin Bad
      BY <1>7, <2>1
    <3> QED BY <3>1, <3>2
  <2> HIDE DEF h
  <2> QED BY <2>1, <2>2
<1>8. \A n \in 0 .. Len(items) : h[n] = g[n]
  <2>1. Bad \subseteq Nat
    BY <1>1
  <2>2. Bad = {}
    <3> HIDE DEF Bad
    <3> QED BY <1>7, <2>1, LeastBad
  <2> QED BY <2>2
<1>9. h = g
  <2>1. h = [n \in 0 .. Len(items) |-> Step(h, n)]
    BY <1>5
  <2>2. g = [n \in 0 .. Len(items) |-> Step(g, n)]
    BY <1>3
  <2> HIDE DEF h, Step
  <2> QED BY <1>6, <1>8, <2>1, <2>2
<1> QED BY <1>2, <1>9

-----------------------------------------------------------------------------
(* What Shown returns.                                                     *)

AllShown(items) == \A i \in DOMAIN items : items[i].uri # Unavailable

\* Every item with a track is shown.
LEMMA ShownTracks ==
    ASSUME NEW items \in Seq(Items)
    PROVE  /\ Shown(items) \in Listings
           /\ Len(Shown(items)) <= Len(items)
           /\ AllShown(items) => Len(Shown(items)) = Len(items)
           /\ \A i \in DOMAIN items :
                 items[i].uri # Unavailable =>
                     \E k \in DOMAIN Shown(items) : Shown(items)[k] = items[i].uri
<1> DEFINE g == ShownUpTo(items)
           Good(n) == /\ Len(g[n]) <= n
                      /\ AllShown(items) => Len(g[n]) = n
                      /\ \A i \in 1 .. n :
                            items[i].uri # Unavailable =>
                                \E k \in DOMAIN g[n] : g[n][k] = items[i].uri
           Bad == {n \in 0 .. Len(items) : ~Good(n)}
<1>1. /\ DOMAIN items = 1 .. Len(items) /\ Len(items) \in Nat
      /\ Len(items) \in 0 .. Len(items)
  BY LenProperties
<1>2. IsShown(g, items, Len(items))
  BY ShownTable
<1> HIDE DEF g
<1>3. /\ \A n \in 0 .. Len(items) : g[n] \in Listings
      /\ g[0] = <<>>
  BY <1>2 DEF IsShown
<1>4. ASSUME NEW n \in 1 .. Len(items), Good(n - 1) PROVE Good(n)
  <2> DEFINE before == g[n - 1]
             after == g[n]
  <2>1. /\ before \in Seq(Tracks) /\ after \in Seq(Tracks) /\ items[n] \in Items
        /\ Len(before) \in Nat /\ DOMAIN before = 1 .. Len(before)
        /\ DOMAIN after = 1 .. Len(after)
    <3>1. n - 1 \in 0 .. Len(items) /\ n \in 0 .. Len(items)
      BY <1>1
    <3>2. before \in Seq(Tracks) /\ after \in Seq(Tracks)
      BY <1>3, <3>1 DEF Listings
    <3> HIDE DEF before, after
    <3> QED BY <1>1, <3>2, ElementOfSeq, LenProperties
  <2>2. after = IF items[n].uri = Unavailable THEN before ELSE Append(before, items[n].uri)
    BY <1>2 DEF IsShown
  <2>3. /\ Len(before) <= n - 1
        /\ AllShown(items) => Len(before) = n - 1
        /\ \A i \in 1 .. n - 1 :
              items[i].uri # Unavailable => \E k \in DOMAIN before : before[k] = items[i].uri
    BY <1>4
  <2> HIDE DEF before, after
  <2>4. CASE items[n].uri = Unavailable
    <3>1. after = before
      BY <2>2, <2>4
    <3>2. ~AllShown(items)
      BY <1>1, <2>4, TracksAssumption DEF AllShown
    <3>3. /\ Len(after) <= n
          /\ \A i \in 1 .. n :
                items[i].uri # Unavailable => \E k \in DOMAIN after : after[k] = items[i].uri
      BY <2>1, <2>3, <2>4, <3>1
    <3> QED BY <3>2, <3>3 DEF after
  <2>5. CASE items[n].uri # Unavailable
    <3>1. /\ after = Append(before, items[n].uri) /\ items[n].uri \in Tracks
      BY <2>1, <2>2, <2>5 DEF Items
    <3>2. /\ Len(after) = Len(before) + 1 /\ after[Len(before) + 1] = items[n].uri
          /\ \A k \in 1 .. Len(before) : after[k] = before[k]
      BY <2>1, <3>1, AppendProperties
    <3>3. /\ Len(after) <= n
          /\ AllShown(items) => Len(after) = n
      BY <2>1, <2>3, <3>2
    <3>4. ASSUME NEW i \in 1 .. n, items[i].uri # Unavailable
          PROVE  \E k \in DOMAIN after : after[k] = items[i].uri
      <4>1. CASE i = n
        <5>1. Len(before) + 1 \in DOMAIN after
          BY <2>1, <3>2
        <5> QED BY <3>2, <4>1, <5>1
      <4>2. CASE i # n
        <5>1. PICK k \in DOMAIN before : before[k] = items[i].uri
          BY <2>3, <3>4, <4>2
        <5>2. k \in DOMAIN after /\ after[k] = items[i].uri
          BY <2>1, <3>2, <5>1
        <5> QED BY <5>2
      <4> QED BY <4>1, <4>2
    <3> QED BY <3>3, <3>4 DEF after
  <2> QED BY <2>4, <2>5
<1>5. Good(0)
  BY <1>3
<1>6. Bad = {}
  <2>1. ASSUME NEW n \in Bad, \A k \in Bad : n <= k PROVE FALSE
    <3>1. n \in 1 .. Len(items) /\ ~Good(n)
      BY <1>1, <1>5
    <3>2. n - 1 \in 0 .. Len(items) /\ n - 1 \notin Bad
      BY <1>1, <2>1, <3>1
    <3>3. Good(n - 1)
      BY <3>2
    <3> QED BY <1>4, <3>1, <3>3
  <2>2. Bad \subseteq Nat
    BY <1>1
  <2> HIDE DEF Bad
  <2> QED BY <2>1, <2>2, LeastBad
<1>7. Good(Len(items)) /\ g[Len(items)] \in Listings
  BY <1>1, <1>3, <1>6
<1>8. Shown(items) = g[Len(items)]
  BY DEF Shown, g
<1> QED BY <1>1, <1>7, <1>8

\* What is shown of the first items does not depend on the others.
LEMMA ShownPrefix ==
    ASSUME NEW items \in Seq(Items), NEW more \in Seq(Items), Len(items) <= Len(more),
           \A i \in 1 .. Len(items) : more[i] = items[i]
    PROVE  ShownUpTo(more)[Len(items)] = Shown(items)
<1> DEFINE g == ShownUpTo(items)
           h == ShownUpTo(more)
           Bad == {n \in 0 .. Len(items) : h[n] # g[n]}
<1>1. /\ Len(items) \in Nat /\ Len(more) \in Nat /\ Len(items) \in 0 .. Len(items)
  BY LenProperties
<1>2. IsShown(g, items, Len(items)) /\ IsShown(h, more, Len(more))
  BY ShownTable
<1> HIDE DEF g, h
<1>3. ASSUME NEW n \in Bad, \A k \in Bad : n <= k PROVE FALSE
  <2>1. n # 0
    BY <1>2 DEF IsShown
  <2>2. n \in 1 .. Len(items) /\ n \in 1 .. Len(more) /\ more[n] = items[n] /\ h[n] # g[n]
    BY <1>1, <2>1
  <2>3. n - 1 \in 0 .. Len(items) /\ n - 1 \notin Bad
    BY <1>1, <1>3, <2>2
  <2>4. h[n - 1] = g[n - 1]
    BY <2>3
  <2> QED BY <1>2, <2>2, <2>4 DEF IsShown
<1>4. Bad = {}
  <2>1. Bad \subseteq Nat
    BY <1>1
  <2> HIDE DEF Bad
  <2> QED BY <1>3, <2>1, LeastBad
<1> QED BY <1>1, <1>4 DEF Shown, g, h

\* Appending to a concatenation is appending to its second part.
LEMMA AppendConcat ==
    ASSUME NEW s \in Seq(Tracks), NEW t \in Seq(Tracks), NEW x \in Tracks
    PROVE  Append(s \o t, x) = s \o Append(t, x)
<1>1. s \o t \in Seq(Tracks) /\ <<x>> \in Seq(Tracks)
  BY ConcatProperties
<1>2. Append(s \o t, x) = (s \o t) \o <<x>>
  BY <1>1, AppendIsConcat
<1>3. Append(t, x) = t \o <<x>>
  BY AppendIsConcat
<1>4. (s \o t) \o <<x>> = s \o (t \o <<x>>)
  BY <1>1, ConcatAssociative
<1> QED BY <1>2, <1>3, <1>4

\* What is shown of two parts, one after the other, is what is shown of the whole.
LEMMA ShownParts ==
    ASSUME NEW first \in Seq(Items), NEW second \in Seq(Items)
    PROVE  Shown(first \o second) = Shown(first) \o Shown(second)
<1> DEFINE whole == first \o second
           g == ShownUpTo(second)
           h == ShownUpTo(whole)
           a == Len(first)
           Bad == {n \in 0 .. Len(second) : h[a + n] # Shown(first) \o g[n]}
<1>1. /\ a \in Nat /\ Len(second) \in Nat /\ Len(second) \in 0 .. Len(second)
      /\ whole \in Seq(Items) /\ Len(whole) = a + Len(second)
      /\ \A i \in 1 .. a : whole[i] = first[i]
      /\ \A i \in 1 .. Len(second) : whole[a + i] = second[i]
  BY LenProperties, ConcatProperties
<1> HIDE DEF whole
<1>2. IsShown(g, second, Len(second)) /\ IsShown(h, whole, Len(whole))
  BY <1>1, ShownTable
<1>3. h[a] = Shown(first) /\ Shown(first) \in Seq(Tracks)
  BY <1>1, ShownPrefix, ShownTracks DEF Listings
<1> HIDE DEF g, h, a
<1>4. ASSUME NEW n \in Bad, \A k \in Bad : n <= k PROVE FALSE
  <2>1. g[0] = <<>> /\ Shown(first) \o <<>> = Shown(first)
    BY <1>2, <1>3, ConcatEmptySeq DEF IsShown
  <2>2. n # 0
    BY <1>1, <1>3, <2>1
  <2>3. n \in 1 .. Len(second) /\ a + n \in 1 .. Len(whole) /\ whole[a + n] = second[n]
        /\ h[a + n] # Shown(first) \o g[n]
    BY <1>1, <2>2
  <2>4. n - 1 \in 0 .. Len(second) /\ n - 1 \notin Bad /\ a + n - 1 = a + (n - 1)
    BY <1>1, <1>4, <2>3
  <2>5. h[a + n - 1] = Shown(first) \o g[n - 1] /\ g[n - 1] \in Seq(Tracks)
    BY <1>2, <2>4 DEF IsShown, Listings
  <2>6. /\ h[a + n] = IF second[n].uri = Unavailable THEN h[a + n - 1]
                      ELSE Append(h[a + n - 1], second[n].uri)
        /\ g[n] = IF second[n].uri = Unavailable THEN g[n - 1]
                  ELSE Append(g[n - 1], second[n].uri)
    <3>1. \A i \in 1 .. Len(whole) :
             h[i] = IF whole[i].uri = Unavailable THEN h[i - 1]
                    ELSE Append(h[i - 1], whole[i].uri)
      BY <1>2 DEF IsShown
    <3>2. \A i \in 1 .. Len(second) :
             g[i] = IF second[i].uri = Unavailable THEN g[i - 1]
                    ELSE Append(g[i - 1], second[i].uri)
      BY <1>2 DEF IsShown
    <3> HIDE DEF Bad
    <3>3. h[a + n] = IF whole[a + n].uri = Unavailable THEN h[a + n - 1]
                     ELSE Append(h[a + n - 1], whole[a + n].uri)
      <4> DEFINE place == a + n
      <4>1. place \in 1 .. Len(whole)
        BY <2>3
      <4> HIDE DEF place
      <4>2. h[place] = IF whole[place].uri = Unavailable THEN h[place - 1]
                       ELSE Append(h[place - 1], whole[place].uri)
        BY <3>1, <4>1
      <4> QED BY <1>1, <2>3, <4>2 DEF place
    <3> QED BY <2>3, <3>2, <3>3
  <2>7. CASE second[n].uri = Unavailable
    BY <2>3, <2>5, <2>6, <2>7
  <2>8. CASE second[n].uri # Unavailable
    <3>1. second[n] \in Items /\ second[n].uri \in Tracks
      <4>1. second[n] \in Items
        <5> HIDE DEF Bad
        <5> QED BY <2>3, ElementOfSeq
      <4> QED BY <2>8, <4>1 DEF Items
    <3>2. Append(Shown(first) \o g[n - 1], second[n].uri)
             = Shown(first) \o Append(g[n - 1], second[n].uri)
      <4> HIDE DEF Bad
      <4> QED BY <1>3, <2>5, <3>1, AppendConcat
    <3> QED BY <2>3, <2>5, <2>6, <2>8, <3>2
  <2> QED BY <2>7, <2>8
<1>5. Bad = {}
  <2>1. Bad \subseteq Nat
    BY <1>1
  <2> HIDE DEF Bad
  <2> QED BY <1>4, <2>1, LeastBad
<1> QED BY <1>1, <1>5 DEF Shown, g, h, whole, a

-----------------------------------------------------------------------------
(* Pages.                                                                  *)

\* The items of the playlist before an offset.
EndAt(offset) == IF offset < Len(playlist) THEN offset ELSE Len(playlist)

Before(offset) == SubSeq(playlist, 1, EndAt(offset))

\* The pages put together are what is before the next offset.
LEMMA NextPage ==
    ASSUME playlist \in Seq(Items), NEW offset \in Nat, NEW size \in Nat \ {0}
    PROVE  /\ Before(offset) \in Seq(Items)
           /\ PageItems(offset, size) \in Listings
           /\ Len(PageItems(offset, size)) <= size
           /\ Shown(Before(offset + size)) = Shown(Before(offset)) \o PageItems(offset, size)
           /\ offset >= Total => Before(offset) = playlist
<1> DEFINE end == EndAt(offset + size)
           page == SubSeq(playlist, offset + 1, end)
<1>0. Len(playlist) \in Nat
  BY LenProperties
<1>1. \A i \in 1 .. Len(playlist) : playlist[i] \in Items
  BY ElementOfSeq
<1>2. \A o \in Nat : Before(o) \in Seq(Items)
  <2> SUFFICES ASSUME NEW o \in Nat PROVE Before(o) \in Seq(Items)
    OBVIOUS
  <2>1. EndAt(o) \in Int /\ \A i \in 1 .. EndAt(o) : playlist[i] \in Items
    BY <1>0, <1>1 DEF EndAt
  <2>2. SubSeq(playlist, 1, EndAt(o)) \in Seq(Items)
    BY <2>1, SubSeqProperties
  <2> QED BY <2>2 DEF Before
<1>3. /\ page \in Seq(Items) /\ Len(page) <= size
  <2>1. end \in Int /\ (\A i \in offset + 1 .. end : playlist[i] \in Items) /\ end <= offset + size
    BY <1>0, <1>1 DEF EndAt
  <2> HIDE DEF end
  <2>2. /\ SubSeq(playlist, offset + 1, end) \in Seq(Items)
        /\ Len(SubSeq(playlist, offset + 1, end))
              = IF offset + 1 <= end THEN end - (offset + 1) + 1 ELSE 0
    BY <2>1, SubSeqProperties
  <2> QED BY <2>1, <2>2
<1>4. PageItems(offset, size) = Shown(page)
  BY DEF PageItems, EndAt, end
<1>5. Before(offset + size) = Before(offset) \o page
  <2>1. CASE offset <= Len(playlist)
    <3>1. /\ end \in offset .. Len(playlist) /\ offset \in 0 .. Len(playlist)
          /\ EndAt(offset) = offset
      BY <1>0, <2>1 DEF EndAt
    <3>2. Before(offset) = SubSeq(playlist, 1, offset)
      BY <3>1 DEF Before
    <3>3. Before(offset + size) = SubSeq(playlist, 1, end)
      BY DEF Before
    <3> HIDE DEF end
    <3>4. 1 \in 1 .. Len(playlist) + 1 /\ offset \in 1 - 1 .. Len(playlist)
      BY <1>0, <3>1
    <3>5. SubSeq(playlist, 1, offset) \o SubSeq(playlist, offset + 1, end)
             = SubSeq(playlist, 1, end)
      BY <3>1, <3>4, ConcatAdjacentSubSeq
    <3> QED BY <3>2, <3>3, <3>5
  <2>2. CASE offset > Len(playlist)
    <3>1. EndAt(offset) = Len(playlist) /\ end = Len(playlist)
      BY <1>0, <2>2 DEF EndAt
    <3>2. Before(offset + size) = Before(offset)
      BY <3>1 DEF Before
    <3> HIDE DEF end
    <3>3. end \in Int /\ offset + 1 \in Int /\ end < offset + 1
      BY <1>0, <2>2, <3>1
    <3>4. SubSeq(playlist, offset + 1, end) = <<>>
      BY <3>3, SubSeqEmpty
    <3> QED BY <1>2, <3>2, <3>4, ConcatEmptySeq
  <2> HIDE DEF page, end
  <2> QED BY <1>0, <2>1, <2>2
<1> HIDE DEF page, end
<1>6. Shown(Before(offset) \o page) = Shown(Before(offset)) \o Shown(page)
  BY <1>2, <1>3, ShownParts
<1>7. Shown(page) \in Listings /\ Len(Shown(page)) \in Nat /\ Len(Shown(page)) <= Len(page)
      /\ Len(page) \in Nat
  BY <1>3, ShownTracks, LenProperties DEF Listings
<1>8. offset >= Total => Before(offset) = playlist
  <2> SUFFICES ASSUME offset >= Total PROVE Before(offset) = playlist
    OBVIOUS
  <2>1. EndAt(offset) = Len(playlist)
    BY <1>0 DEF EndAt, Total
  <2> QED BY <2>1, SubSeqFull DEF Before
<1>9. /\ PageItems(offset, size) \in Listings
      /\ Len(PageItems(offset, size)) <= size
  BY <1>3, <1>4, <1>7
<1>10. Shown(Before(offset + size)) = Shown(Before(offset)) \o PageItems(offset, size)
  BY <1>4, <1>5, <1>6
<1> QED BY <1>2, <1>8, <1>9, <1>10

\* From the end on, everything is before an offset.
LEMMA WholeBefore ==
    ASSUME playlist \in Seq(Items), NEW offset \in Nat, offset >= Total
    PROVE  Before(offset) = playlist
<1>1. 1 \in Nat \ {0}
  OBVIOUS
<1> QED BY <1>1, NextPage

\* An item on a page that has a track is on it; a page with tracks alone is full.
LEMMA OnPage ==
    ASSUME playlist \in Seq(Items), NEW offset \in Nat, NEW size \in Nat \ {0}
    PROVE  /\ \A j \in DOMAIN playlist :
                 /\ offset < j /\ j <= offset + size
                 /\ playlist[j].uri # Unavailable
                 => \E k \in DOMAIN PageItems(offset, size) :
                       PageItems(offset, size)[k] = playlist[j].uri
           /\ AllShown(playlist) /\ offset < Total =>
                 Len(PageItems(offset, size)) = IF offset + size < Total THEN size
                                                ELSE Total - offset
<1> DEFINE end == EndAt(offset + size)
           page == SubSeq(playlist, offset + 1, end)
<1>0. Len(playlist) \in Nat
  BY LenProperties
<1>9. DOMAIN playlist = 1 .. Len(playlist)
  BY LenProperties
<1>1. \A i \in 1 .. Len(playlist) : playlist[i] \in Items
  BY ElementOfSeq
<1>2. /\ end \in Int /\ (\A i \in offset + 1 .. end : playlist[i] \in Items)
      /\ end = IF offset + size < Len(playlist) THEN offset + size ELSE Len(playlist)
  BY <1>0, <1>1 DEF EndAt
<1> HIDE DEF end
<1>3. PageItems(offset, size) = Shown(page)
  BY DEF PageItems, EndAt, end
<1>4. /\ page \in Seq(Items)
      /\ Len(page) = IF offset + 1 <= end THEN end - (offset + 1) + 1 ELSE 0
      /\ \A i \in 1 .. end - (offset + 1) + 1 : page[i] = playlist[offset + 1 + i - 1]
  <2> HIDE DEF end
  <2> QED BY <1>2, SubSeqProperties
<1>5. DOMAIN page = 1 .. Len(page)
  BY <1>4, LenProperties
<1>6. ASSUME NEW j \in DOMAIN playlist, offset < j, j <= offset + size,
             playlist[j].uri # Unavailable
      PROVE  \E k \in DOMAIN PageItems(offset, size) :
                PageItems(offset, size)[k] = playlist[j].uri
  <2>1. j - offset \in 1 .. Len(page) /\ page[j - offset] = playlist[j]
    <3>0. j \in Nat /\ j <= Len(playlist)
      BY <1>0, <1>9
    <3>1. j <= end
      BY <1>0, <1>2, <1>6, <3>0
    <3> QED BY <1>0, <1>2, <1>4, <1>6, <3>0, <3>1
  <2> HIDE DEF page
  <2> QED BY <1>3, <1>4, <1>5, <1>6, <2>1, ShownTracks
<1>7. ASSUME AllShown(playlist), offset < Total
      PROVE  Len(PageItems(offset, size)) = IF offset + size < Total THEN size
                                            ELSE Total - offset
  <2>1. AllShown(page)
    <3> SUFFICES ASSUME NEW i \in 1 .. Len(page) PROVE page[i].uri # Unavailable
      BY <1>5 DEF AllShown
    <3> HIDE DEF page
    <3>1. page[i] = playlist[offset + i] /\ offset + i \in 1 .. Len(playlist)
      BY <1>0, <1>2, <1>4
    <3> QED BY <1>7, <1>9, <3>1 DEF AllShown
  <2>2. Len(page) = IF offset + size < Total THEN size ELSE Total - offset
    <3> HIDE DEF page, end
    <3> QED BY <1>0, <1>2, <1>4, <1>7 DEF Total
  <2> HIDE DEF page
  <2> QED BY <1>3, <1>4, <2>1, <2>2, ShownTracks
<1> QED BY <1>6, <1>7

\* Nothing is before the first page.
LEMMA NothingBefore ==
    ASSUME playlist \in Seq(Items)
    PROVE  Shown(Before(0)) = <<>>
<1>1. EndAt(0) = 0
  <2>1. Len(playlist) \in Nat
    BY LenProperties
  <2> QED BY <2>1 DEF EndAt
<1>2. Before(0) = <<>>
  BY <1>1, SubSeqEmpty DEF Before
<1>3. <<>> \in Seq(Items) /\ Len(<<>>) = 0
  BY EmptySeq
<1>4. IsShown(ShownUpTo(<<>>), <<>>, 0)
  BY <1>3, ShownTable
<1> QED BY <1>2, <1>3, <1>4 DEF Shown, IsShown

-----------------------------------------------------------------------------
(* Type correctness.                                                       *)

WalkType == [pc : {"walking", "done"}, offset : Nat, uris : Listings, steady : SUBSET Items,
             edited : BOOLEAN, shrunk : BOOLEAN, blank : BOOLEAN]

MenuType == [open : {TRUE}, offset : Nat, shown : Listings, has_next : BOOLEAN,
             seen : Listings, straight : BOOLEAN]

\* TypeOK with every field of the walk and of the menu.
Shapes ==
    /\ playlist \in Seq(Items)
    /\ walk \in WalkType \cup {NoWalk}
    /\ walk # NoWalk => walk.offset % WalkPageSize = 0 /\ Len(walk.uris) <= walk.offset
    /\ menu \in MenuType \cup {NoMenu}
    /\ edits \in Nat

\* A walk that starts, and one that goes on by a page.
LEMMA WalkSteps ==
    ASSUME Shapes
    PROVE  /\ StartWalk =>
                 /\ walk' \in WalkType /\ walk'.offset = 0 /\ walk'.uris = <<>>
                 /\ walk'.pc = "walking" /\ walk'.steady = ShownItems(playlist)
                 /\ UNCHANGED <<playlist, menu, edits>>
           /\ FetchPage =>
                 /\ walk \in WalkType /\ walk' \in WalkType
                 /\ walk'.offset = walk.offset + WalkPageSize
                 /\ walk'.uris = walk.uris \o PageItems(walk.offset, WalkPageSize)
                 /\ walk'.steady = walk.steady
                 /\ walk'.edited = walk.edited /\ walk'.shrunk = walk.shrunk
                 /\ walk'.blank = (\/ walk.blank
                                   \/ /\ PageItems(walk.offset, WalkPageSize) = <<>>
                                      /\ walk.offset < Total)
                 /\ walk.pc = "walking"
                 /\ walk'.pc = IF \/ walk.offset + WalkPageSize >= Total
                                  \/ PageItems(walk.offset, WalkPageSize) = <<>>
                               THEN "done" ELSE "walking"
                 /\ UNCHANGED <<playlist, menu, edits>>
<1>1. ASSUME StartWalk
      PROVE  /\ walk' \in WalkType /\ walk'.offset = 0 /\ walk'.uris = <<>>
             /\ walk'.pc = "walking" /\ walk'.steady = ShownItems(playlist)
             /\ UNCHANGED <<playlist, menu, edits>>
  <2>1. ShownItems(playlist) \subseteq Items
    BY LenProperties, ElementOfSeq DEF Shapes, ShownItems
  <2>2. <<>> \in Listings
    BY DEF Listings
  <2>3. walk' = [pc |-> "walking", offset |-> 0, uris |-> <<>>, steady |-> ShownItems(playlist),
                 edited |-> FALSE, shrunk |-> FALSE, blank |-> FALSE]
    BY <1>1 DEF StartWalk
  <2> QED BY <1>1, <2>1, <2>2, <2>3 DEF StartWalk, WalkType
<1>2. ASSUME FetchPage
      PROVE  /\ walk \in WalkType /\ walk' \in WalkType
             /\ walk'.offset = walk.offset + WalkPageSize
             /\ walk'.uris = walk.uris \o PageItems(walk.offset, WalkPageSize)
             /\ walk'.steady = walk.steady
             /\ walk'.edited = walk.edited /\ walk'.shrunk = walk.shrunk
             /\ walk'.blank = (\/ walk.blank
                               \/ /\ PageItems(walk.offset, WalkPageSize) = <<>>
                                  /\ walk.offset < Total)
             /\ walk.pc = "walking"
             /\ walk'.pc = IF \/ walk.offset + WalkPageSize >= Total
                              \/ PageItems(walk.offset, WalkPageSize) = <<>>
                           THEN "done" ELSE "walking"
             /\ UNCHANGED <<playlist, menu, edits>>
  <2> DEFINE page == PageItems(walk.offset, WalkPageSize)
             next == walk.offset + WalkPageSize
  <2>1. walk \in WalkType /\ walk.offset \in Nat /\ walk.uris \in Listings
    BY <1>2 DEF FetchPage, Shapes, NoWalk, WalkType
  <2>2. WalkPageSize \in Nat \ {0} /\ playlist \in Seq(Items)
    BY PlaylistPagesAssumption DEF Shapes
  <2>3. page \in Listings /\ next \in Nat
    <3>1. page \in Listings
      BY <2>1, <2>2, NextPage
    <3>2. next \in Nat
      BY <2>1, <2>2
    <3> QED BY <3>1, <3>2
  <2>4. walk.uris \o page \in Listings
    BY <2>1, <2>3, ConcatProperties DEF Listings
  <2> HIDE DEF page
  <2>5. walk' = [walk EXCEPT !.uris = walk.uris \o page, !.offset = next,
                             !.pc = IF next >= Total \/ page = <<>> THEN "done" ELSE "walking",
                             !.blank = walk.blank \/ (page = <<>> /\ walk.offset < Total)]
    BY <1>2 DEF FetchPage, NextOffset, IsLastPage, page
  <2>6. walk.blank \/ (page = <<>> /\ walk.offset < Total) \in BOOLEAN
    OBVIOUS
  <2> HIDE DEF next
  <2>7. /\ walk' \in WalkType /\ walk'.offset = next /\ walk'.uris = walk.uris \o page
        /\ walk'.steady = walk.steady /\ walk'.edited = walk.edited
        /\ walk'.shrunk = walk.shrunk
        /\ walk'.blank = (walk.blank \/ (page = <<>> /\ walk.offset < Total))
        /\ walk'.pc = IF next >= Total \/ page = <<>> THEN "done" ELSE "walking"
    BY <2>1, <2>3, <2>4, <2>5 DEF WalkType
  <2>8. walk.pc = "walking" /\ UNCHANGED <<playlist, menu, edits>>
    BY <1>2 DEF FetchPage
  <2> QED BY <2>1, <2>7, <2>8 DEF next, page
<1> QED BY <1>1, <1>2

\* A page of the menu.
LEMMA MenuSteps ==
    ASSUME Shapes, OpenMenu \/ FollowNext \/ FollowPrevious
    PROVE  \E offset \in Nat, seen \in Listings, straight \in BOOLEAN :
              /\ menu' = MenuPage(offset, seen, straight)
              /\ menu' \in MenuType
              /\ menu'.open /\ menu'.offset = offset /\ menu'.straight = straight
              /\ menu'.shown = PageItems(offset, PLAYLIST_PAGE_SIZE)
              /\ menu'.has_next = HasNext(offset, menu'.shown)
              /\ menu'.seen = seen \o menu'.shown
              /\ straight =>
                    \/ offset = 0 /\ seen = <<>>
                    \/ /\ menu \in MenuType /\ menu.straight /\ seen = menu.seen
                       /\ offset = menu.offset + PLAYLIST_PAGE_SIZE
              /\ UNCHANGED <<playlist, walk, edits>>
<1>1. PLAYLIST_PAGE_SIZE \in Nat \ {0} /\ playlist \in Seq(Items) /\ <<>> \in Listings
  BY PlaylistPagesAssumption DEF Shapes, Listings
<1>2. ASSUME NEW offset \in Nat, NEW seen \in Listings, NEW straight \in BOOLEAN,
             menu' = MenuPage(offset, seen, straight)
      PROVE  /\ menu' \in MenuType
             /\ menu'.open /\ menu'.offset = offset /\ menu'.straight = straight
             /\ menu'.shown = PageItems(offset, PLAYLIST_PAGE_SIZE)
             /\ menu'.has_next = HasNext(offset, menu'.shown)
             /\ menu'.seen = seen \o menu'.shown
  <2> DEFINE page == PageItems(offset, PLAYLIST_PAGE_SIZE)
             more == HasNext(offset, page)
             all == seen \o page
  <2>1. page \in Listings
    BY <1>1, NextPage
  <2>2. all \in Listings
    BY <2>1, ConcatProperties DEF Listings
  <2>3. more \in BOOLEAN
    BY DEF HasNext
  <2>4. menu' = [open |-> TRUE, offset |-> offset, shown |-> page, has_next |-> more,
                 seen |-> all, straight |-> straight]
    BY <1>2 DEF MenuPage
  <2> HIDE DEF page, more, all
  <2>5. /\ menu' \in MenuType /\ menu'.open /\ menu'.offset = offset
        /\ menu'.straight = straight /\ menu'.shown = page /\ menu'.has_next = more
        /\ menu'.seen = all
    BY <2>1, <2>2, <2>3, <2>4 DEF MenuType
  <2> QED BY <2>5 DEF page, more, all
<1>3. CASE OpenMenu
  <2>1. menu' = MenuPage(0, <<>>, TRUE) /\ UNCHANGED <<playlist, walk, edits>>
    BY <1>3 DEF OpenMenu
  <2> QED BY <1>1, <1>2, <2>1
<1>4. CASE FollowNext
  <2>1. /\ menu' = MenuPage(menu.offset + PLAYLIST_PAGE_SIZE, menu.seen, menu.straight)
        /\ menu \in MenuType /\ UNCHANGED <<playlist, walk, edits>>
    BY <1>4 DEF FollowNext, Shapes, NoMenu
  <2>2. menu.offset + PLAYLIST_PAGE_SIZE \in Nat /\ menu.seen \in Listings
        /\ menu.straight \in BOOLEAN
    BY <1>1, <2>1 DEF MenuType
  <2> QED BY <1>2, <2>1, <2>2
<1>5. CASE FollowPrevious
  <2> DEFINE offset == IF menu.offset > PLAYLIST_PAGE_SIZE
                       THEN menu.offset - PLAYLIST_PAGE_SIZE ELSE 0
  <2>1. menu' = MenuPage(offset, <<>>, FALSE) /\ UNCHANGED <<playlist, walk, edits>>
        /\ menu \in MenuType
    BY <1>5 DEF FollowPrevious, Shapes, NoMenu
  <2>2. offset \in Nat
    BY <1>1, <2>1 DEF MenuType
  <2> HIDE DEF offset
  <2> QED BY <1>1, <1>2, <2>1, <2>2
<1> QED BY <1>3, <1>4, <1>5

\* Three kinds of edit, and what each does to the walk and to the menu.
LEMMA EditSteps ==
    ASSUME Shapes, [Next]_vars
    PROVE  \/ UNCHANGED <<playlist, walk, menu, edits>>
           \/ WalkStep
           \/ OpenMenu \/ FollowNext \/ FollowPrevious
           \/ \E position \in 0 .. Len(playlist), uri \in Tracks :
                 /\ playlist' = InsertItem(playlist, position,
                                           [uri |-> uri, owner |-> MaxLength + edits + 1])
                 /\ Edited(FALSE)
           \/ \E position \in 0 .. Len(playlist) - 1 :
                 playlist' = DeleteItem(playlist, position) /\ Edited(TRUE)
           \/ \E i \in DOMAIN playlist :
                 playlist' = [playlist EXCEPT ![i].uri = Unavailable] /\ Edited(FALSE)
<1>1. ASSUME NEW position \in 0 .. Len(playlist), NEW uri \in Tracks,
             DeleteTrack(position, uri)
      PROVE  \E p \in 0 .. Len(playlist) - 1 :
                playlist' = DeleteItem(playlist, p) /\ Edited(TRUE)
  <2>1. position \in 0 .. Len(playlist) - 1
    BY <1>1, LenProperties DEF DeleteTrack, CanDeleteAt, Shapes
  <2> QED BY <1>1, <2>1 DEF DeleteTrack
<1>2. ASSUME NEW position \in 0 .. Len(playlist), NEW uri \in Tracks,
             InsertTrack(position, uri)
      PROVE  /\ playlist' = InsertItem(playlist, position,
                                       [uri |-> uri, owner |-> MaxLength + edits + 1])
             /\ Edited(FALSE)
  BY <1>2 DEF InsertTrack
<1>3. ASSUME NEW i \in DOMAIN playlist, TrackTakenDown(i)
      PROVE  playlist' = [playlist EXCEPT ![i].uri = Unavailable] /\ Edited(FALSE)
  BY <1>3 DEF TrackTakenDown
<1> QED BY <1>1, <1>2, <1>3 DEF Next, vars

\* An edit does the same to the walk and to the menu, whatever it does to the playlist.
LEMMA EditedShapes ==
    ASSUME Shapes, NEW shrinks \in BOOLEAN, Edited(shrinks)
    PROVE  /\ edits' = edits + 1
           /\ \/ walk' = NoWalk
              \/ /\ walk \in WalkType /\ walk' \in WalkType /\ walk'.pc = "walking"
                 /\ walk'.offset = walk.offset /\ walk'.uris = walk.uris
                 /\ walk'.edited /\ walk'.shrunk = (walk.shrunk \/ shrinks)
                 /\ walk'.blank = walk.blank
                 /\ walk'.steady = walk.steady \cap ShownItems(playlist')
           /\ \/ menu' = NoMenu
              \/ menu' \in MenuType /\ ~menu'.straight
<1>1. \/ walk' = NoWalk
      \/ /\ walk \in WalkType /\ walk' \in WalkType /\ walk'.pc = "walking"
         /\ walk'.offset = walk.offset /\ walk'.uris = walk.uris
         /\ walk'.edited /\ walk'.shrunk = (walk.shrunk \/ shrinks)
         /\ walk'.blank = walk.blank
         /\ walk'.steady = walk.steady \cap ShownItems(playlist')
  <2>1. CASE walk.pc = "walking"
    <3>1. walk \in WalkType
      BY <2>1 DEF Shapes, NoWalk
    <3> DEFINE shorter == walk.shrunk \/ shrinks
               rest == walk.steady \cap ShownItems(playlist')
    <3>2. walk' = [walk EXCEPT !.edited = TRUE, !.shrunk = shorter, !.steady = rest]
      BY <2>1 DEF Edited
    <3>3. shorter \in BOOLEAN /\ rest \subseteq Items
      BY <3>1 DEF WalkType
    <3> HIDE DEF shorter, rest
    <3>4. /\ walk' \in WalkType /\ walk'.pc = walk.pc
          /\ walk'.offset = walk.offset /\ walk'.uris = walk.uris /\ walk'.edited
          /\ walk'.shrunk = shorter /\ walk'.blank = walk.blank /\ walk'.steady = rest
      BY <3>1, <3>2, <3>3 DEF WalkType
    <3> QED BY <2>1, <3>1, <3>4 DEF shorter, rest
  <2>2. CASE walk.pc # "walking"
    BY <2>2 DEF Edited
  <2> QED BY <2>1, <2>2
<1>2. \/ menu' = NoMenu
      \/ menu' \in MenuType /\ ~menu'.straight
  <2>1. CASE menu = NoMenu
    BY <2>1 DEF Edited, NoMenu
  <2>2. CASE menu \in MenuType
    <3>1. menu' = [menu EXCEPT !.straight = FALSE, !.seen = <<>>]
      BY <2>2 DEF Edited, MenuType
    <3>2. <<>> \in Listings
      BY DEF Listings
    <3> QED BY <2>2, <3>1, <3>2 DEF MenuType
  <2> QED BY <2>1, <2>2 DEF Shapes
<1> QED BY <1>1, <1>2 DEF Edited

\* The page after the start of a page starts one, too.
LEMMA NextMultiple ==
    ASSUME NEW a \in Nat, NEW size \in Nat \ {0}, a % size = 0
    PROVE  (a + size) % size = 0
<1> DEFINE q == a \div size
<1>1. q \in Nat /\ a = size * q + (a % size)
  OBVIOUS
<1> HIDE DEF q
<1>2. a + size = size * (q + 1) /\ q + 1 \in Nat
  BY <1>1
<1>3. \A n \in Nat : (size * n) % size = 0
  OBVIOUS
<1> QED BY <1>2, <1>3

\* Between the starts of two pages that follow each other no page starts.
LEMMA NoneBetween ==
    ASSUME NEW a \in Nat, NEW b \in Nat, NEW size \in Nat \ {0},
           a % size = 0, b % size = 0, b < a + size
    PROVE  b <= a
<1> DEFINE p == a \div size
           q == b \div size
<1>1. p \in Nat /\ q \in Nat /\ a = size * p /\ b = size * q
  OBVIOUS
<1> HIDE DEF p, q
<1>2. ASSUME q >= p + 1 PROVE size * q >= size * p + size
  BY <1>1, <1>2
<1>3. q <= p
  BY <1>1, <1>2
<1>4. size * q <= size * p
  BY <1>1, <1>3
<1> QED BY <1>1, <1>4

LEMMA InitShapes == Init => Shapes
<1> SUFFICES ASSUME Init PROVE Shapes
  OBVIOUS
<1>1. PICK length \in 0 .. MaxLength : \E uris \in [1 .. length -> Tracks \cup {Unavailable}] :
         playlist = [i \in 1 .. length |-> [uri |-> uris[i], owner |-> i]]
  BY DEF Init
<1>2. PICK uris \in [1 .. length -> Tracks \cup {Unavailable}] :
         playlist = [i \in 1 .. length |-> [uri |-> uris[i], owner |-> i]]
  BY <1>1
<1>3. length \in Nat /\ \A i \in 1 .. length : [uri |-> uris[i], owner |-> i] \in Items
  BY PlaylistPagesAssumption DEF Items, Owners
<1>4. playlist \in Seq(Items)
  BY <1>2, <1>3
<1> QED BY <1>4 DEF Init, Shapes

LEMMA StepShapes == Shapes /\ [Next]_vars => Shapes'
<1> SUFFICES ASSUME Shapes, [Next]_vars PROVE Shapes'
  OBVIOUS
<1>1. CASE UNCHANGED <<playlist, walk, menu, edits>>
  BY <1>1 DEF Shapes
<1>2. CASE StartWalk
  <2>1. /\ walk' \in WalkType /\ walk'.offset = 0 /\ walk'.uris = <<>>
        /\ UNCHANGED <<playlist, menu, edits>>
    BY <1>2, WalkSteps
  <2>2. 0 % WalkPageSize = 0 /\ Len(<<>>) = 0
    BY PlaylistPagesAssumption
  <2> QED BY <2>1, <2>2 DEF Shapes
<1>3. CASE FetchPage
  <2> DEFINE page == PageItems(walk.offset, WalkPageSize)
  <2>1. /\ walk \in WalkType /\ walk' \in WalkType
        /\ walk'.offset = walk.offset + WalkPageSize /\ walk'.uris = walk.uris \o page
        /\ UNCHANGED <<playlist, menu, edits>>
    BY <1>3, WalkSteps
  <2>2. /\ walk.offset \in Nat /\ walk.uris \in Listings /\ WalkPageSize \in Nat \ {0}
        /\ walk # NoWalk
    BY <2>1, PlaylistPagesAssumption DEF WalkType, NoWalk
  <2>3. page \in Listings /\ Len(page) <= WalkPageSize
    BY <2>2, NextPage DEF Shapes
  <2> HIDE DEF page
  <2>4. Len(walk.uris \o page) <= walk.offset + WalkPageSize
    <3>1. /\ Len(walk.uris \o page) = Len(walk.uris) + Len(page)
          /\ Len(walk.uris) \in Nat /\ Len(page) \in Nat
      BY <2>2, <2>3, ConcatProperties, LenProperties DEF Listings
    <3>2. Len(walk.uris) <= walk.offset
      BY <2>2 DEF Shapes
    <3> QED BY <2>2, <2>3, <3>1, <3>2
  <2>5. (walk.offset + WalkPageSize) % WalkPageSize = 0
    BY <2>2, NextMultiple DEF Shapes
  <2> QED BY <2>1, <2>4, <2>5 DEF Shapes
<1>4. CASE WalkFails
  BY <1>4 DEF WalkFails, Shapes
<1>5. CASE OpenMenu \/ FollowNext \/ FollowPrevious
  <2>1. menu' \in MenuType /\ UNCHANGED <<playlist, walk, edits>>
    BY <1>5, MenuSteps
  <2> QED BY <2>1 DEF Shapes
<1>6. ASSUME NEW shrinks \in BOOLEAN, Edited(shrinks), playlist' \in Seq(Items)
      PROVE  Shapes'
  <2>1. /\ edits' \in Nat
        /\ menu' \in MenuType \cup {NoMenu}
    BY <1>6, EditedShapes DEF Shapes
  <2>2. CASE walk' = NoWalk
    BY <1>6, <2>1, <2>2 DEF Shapes
  <2>3. CASE walk' # NoWalk
    <3>1. /\ walk \in WalkType /\ walk' \in WalkType
          /\ walk'.offset = walk.offset /\ walk'.uris = walk.uris
      BY <1>6, <2>3, EditedShapes
    <3>2. walk.offset % WalkPageSize = 0 /\ Len(walk.uris) <= walk.offset
      BY <3>1 DEF Shapes, WalkType, NoWalk
    <3> QED BY <1>6, <2>1, <3>1, <3>2 DEF Shapes
  <2> QED BY <2>2, <2>3
<1>7. ASSUME NEW position \in 0 .. Len(playlist), NEW uri \in Tracks,
             playlist' = InsertItem(playlist, position,
                                    [uri |-> uri, owner |-> MaxLength + edits + 1])
      PROVE  playlist' \in Seq(Items)
  <2>1. [uri |-> uri, owner |-> MaxLength + edits + 1] \in Items
    <3>1. MaxLength + edits + 1 \in Nat
      BY PlaylistPagesAssumption DEF Shapes
    <3> QED BY <3>1 DEF Items, Owners
  <2> QED BY <1>7, <2>1, InsertItemPositions DEF Shapes
<1>8. \A position \in 0 .. Len(playlist) - 1 : DeleteItem(playlist, position) \in Seq(Items)
  BY DeleteItemPositions DEF Shapes
<1>9. \A i \in DOMAIN playlist : [playlist EXCEPT ![i].uri = Unavailable] \in Seq(Items)
  BY UnavailableItem DEF Shapes
<1> QED BY <1>1, <1>2, <1>3, <1>4, <1>5, <1>6, <1>7, <1>8, <1>9, EditSteps DEF WalkStep

LEMMA ShapesInvariant == Spec => []Shapes
BY InitShapes, StepShapes, PTL DEF Spec

\* The state keeps its shape, for every page size, playlist and number of edits.
THEOREM TypeCorrect == Spec => []TypeOK
<1>1. ASSUME Shapes PROVE TypeOK
  <2>1. walk # NoWalk =>
           /\ walk.pc \in {"walking", "done"} /\ walk.uris \in Listings
           /\ walk.offset % WalkPageSize = 0
           /\ walk.pc = "walking" => Len(walk.uris) <= walk.offset
    BY <1>1 DEF Shapes, WalkType
  <2>2. menu.open =>
           menu.offset \in Nat /\ menu.shown \in Listings /\ menu.seen \in Listings
    <3>1. CASE menu = NoMenu
      <4>1. ~menu.open
        BY <3>1 DEF NoMenu
      <4> QED BY <4>1
    <3>2. CASE menu \in MenuType
      BY <3>2 DEF MenuType
    <3> QED BY <1>1, <3>1, <3>2 DEF Shapes
  <2> QED BY <1>1, <2>1, <2>2 DEF Shapes, TypeOK
<1> QED BY <1>1, ShapesInvariant, PTL

-----------------------------------------------------------------------------
(* The walk misses nothing.                                                *)

\* Items of the same track can be told apart, and from those still to be inserted.
OwnersApart ==
    /\ \A i \in DOMAIN playlist : playlist[i].owner <= MaxLength + edits
    /\ \A i, j \in DOMAIN playlist : playlist[i].owner = playlist[j].owner => i = j

Read(item) == \E k \in DOMAIN walk.uris : walk.uris[k] = item.uri

Ahead(item) == \E j \in DOMAIN playlist : walk.offset < j /\ playlist[j] = item

\* What is listed all the time has been read or is on a page still to come: insertions
\* only ever move it towards those.
StillAhead ==
    walk # NoWalk /\ ~walk.shrunk /\ ~walk.blank =>
        /\ walk.steady \subseteq ShownItems(playlist)
        /\ \A item \in walk.steady : Read(item) \/ Ahead(item)
        /\ walk.pc = "done" => walk.offset >= Total

LEMMA StepOwnersApart == Shapes /\ OwnersApart /\ [Next]_vars => OwnersApart'
<1> SUFFICES ASSUME Shapes, OwnersApart, [Next]_vars PROVE OwnersApart'
  OBVIOUS
<1>1. /\ playlist \in Seq(Items) /\ edits \in Nat /\ MaxLength \in Nat
      /\ DOMAIN playlist = 1 .. Len(playlist)
      /\ \A i \in DOMAIN playlist : playlist[i] \in Items /\ playlist[i].owner \in Nat
  <2>1. DOMAIN playlist = 1 .. Len(playlist)
    BY LenProperties DEF Shapes
  <2>2. \A i \in DOMAIN playlist : playlist[i] \in Items
    BY <2>1, ElementOfSeq DEF Shapes
  <2> QED BY <2>1, <2>2, PlaylistPagesAssumption DEF Shapes, Items, Owners
<1>2. CASE UNCHANGED <<playlist, edits>>
  BY <1>2 DEF OwnersApart
<1>3. ASSUME NEW position \in 0 .. Len(playlist), NEW uri \in Tracks,
             playlist' = InsertItem(playlist, position,
                                    [uri |-> uri, owner |-> MaxLength + edits + 1]),
             edits' = edits + 1
      PROVE  OwnersApart'
  <2> DEFINE item == [uri |-> uri, owner |-> MaxLength + edits + 1]
  <2>1. item \in Items /\ item.owner = MaxLength + edits + 1
    <3>1. MaxLength + edits + 1 \in Nat
      BY <1>1
    <3> QED BY <3>1 DEF Items, Owners
  <2> HIDE DEF item
  <2>2. playlist' = InsertItem(playlist, position, item)
    BY <1>3 DEF item
  <2>3. \A i \in DOMAIN playlist' :
           \/ i = position + 1 /\ playlist'[i] = item
           \/ i <= position /\ i \in DOMAIN playlist /\ playlist'[i] = playlist[i]
           \/ /\ i > position + 1 /\ i - 1 \in DOMAIN playlist
              /\ playlist'[i] = playlist[i - 1]
    BY <1>1, <2>1, <2>2, InsertItemOrigin
  <2>4. /\ \A i \in DOMAIN playlist : playlist[i].owner <= MaxLength + edits
        /\ \A i, j \in DOMAIN playlist : playlist[i].owner = playlist[j].owner => i = j
    BY DEF OwnersApart
  <2>5. DOMAIN playlist' \subseteq Int
    <3>1. playlist' \in Seq(Items)
      BY <1>1, <2>1, <2>2, InsertItemPositions
    <3> QED BY <3>1, LenProperties
  <2>6. \A i \in DOMAIN playlist' : playlist'[i].owner <= MaxLength + edits + 1
    BY <1>1, <2>1, <2>3, <2>4
  <2>7. ASSUME NEW i \in DOMAIN playlist', NEW j \in DOMAIN playlist',
               playlist'[i].owner = playlist'[j].owner
        PROVE  i = j
    <3>1. i \in Int /\ j \in Int
      BY <2>5
    <3>2. CASE playlist'[i] = item /\ i = position + 1
      <4>1. playlist'[j] = item \/ \E k \in DOMAIN playlist : playlist'[j] = playlist[k]
        BY <2>3
      <4>2. ~\E k \in DOMAIN playlist : playlist'[j] = playlist[k]
        BY <1>1, <2>1, <2>4, <2>7, <3>2
      <4>3. j = position + 1
        BY <2>3, <4>2
      <4> QED BY <3>2, <4>3
    <3>3. CASE playlist'[j] = item /\ j = position + 1
      <4>1. ~\E k \in DOMAIN playlist : playlist'[i] = playlist[k]
        BY <1>1, <2>1, <2>4, <2>7, <3>3
      <4>2. i = position + 1
        BY <2>3, <4>1
      <4> QED BY <3>3, <4>2
    <3>4. CASE /\ i <= position /\ i \in DOMAIN playlist /\ playlist'[i] = playlist[i]
               /\ j <= position /\ j \in DOMAIN playlist /\ playlist'[j] = playlist[j]
      BY <2>4, <2>7, <3>4
    <3>5. CASE /\ i <= position /\ i \in DOMAIN playlist /\ playlist'[i] = playlist[i]
               /\ j > position + 1 /\ j - 1 \in DOMAIN playlist
               /\ playlist'[j] = playlist[j - 1]
      <4>1. i = j - 1
        BY <2>4, <2>7, <3>5
      <4> QED BY <3>1, <3>5, <4>1
    <3>6. CASE /\ j <= position /\ j \in DOMAIN playlist /\ playlist'[j] = playlist[j]
               /\ i > position + 1 /\ i - 1 \in DOMAIN playlist
               /\ playlist'[i] = playlist[i - 1]
      <4>1. j = i - 1
        BY <2>4, <2>7, <3>6
      <4> QED BY <3>1, <3>6, <4>1
    <3>7. CASE /\ i > position + 1 /\ i - 1 \in DOMAIN playlist
               /\ playlist'[i] = playlist[i - 1]
               /\ j > position + 1 /\ j - 1 \in DOMAIN playlist
               /\ playlist'[j] = playlist[j - 1]
      <4>1. i - 1 = j - 1
        BY <2>4, <2>7, <3>7
      <4> QED BY <3>1, <4>1
    <3> QED BY <2>3, <3>2, <3>3, <3>4, <3>5, <3>6, <3>7
  <2> QED BY <1>1, <1>3, <2>6, <2>7 DEF OwnersApart
<1>4. ASSUME NEW position \in 0 .. Len(playlist) - 1,
             playlist' = DeleteItem(playlist, position), edits' = edits + 1
      PROVE  OwnersApart'
  <2>1. \A i \in DOMAIN playlist' :
           \/ i <= position /\ i \in DOMAIN playlist /\ playlist'[i] = playlist[i]
           \/ /\ i > position /\ i + 1 \in DOMAIN playlist
              /\ playlist'[i] = playlist[i + 1]
    BY <1>1, <1>4, DeleteItemOrigin
  <2>2. /\ \A i \in DOMAIN playlist : playlist[i].owner <= MaxLength + edits
        /\ \A i, j \in DOMAIN playlist : playlist[i].owner = playlist[j].owner => i = j
    BY DEF OwnersApart
  <2>3. DOMAIN playlist' \subseteq Int
    <3>1. playlist' \in Seq(Items)
      BY <1>1, <1>4, DeleteItemPositions
    <3> QED BY <3>1, LenProperties
  <2>4. \A i \in DOMAIN playlist' : playlist'[i].owner <= MaxLength + (edits + 1)
    BY <1>1, <2>1, <2>2
  <2>5. ASSUME NEW i \in DOMAIN playlist', NEW j \in DOMAIN playlist',
               playlist'[i].owner = playlist'[j].owner
        PROVE  i = j
    <3>1. i \in Int /\ j \in Int /\ position \in Int
      BY <2>3
    <3>2. PICK k \in DOMAIN playlist : /\ playlist'[i] = playlist[k]
                                       /\ k = IF i <= position THEN i ELSE i + 1
      BY <2>1, <3>1
    <3>3. PICK l \in DOMAIN playlist : /\ playlist'[j] = playlist[l]
                                       /\ l = IF j <= position THEN j ELSE j + 1
      BY <2>1, <3>1
    <3>4. k = l
      BY <2>2, <2>5, <3>2, <3>3
    <3> QED BY <3>1, <3>2, <3>3, <3>4
  <2> QED BY <1>4, <2>4, <2>5 DEF OwnersApart
<1>5. ASSUME NEW i \in DOMAIN playlist,
             playlist' = [playlist EXCEPT ![i].uri = Unavailable], edits' = edits + 1
      PROVE  OwnersApart'
  <2>1. /\ DOMAIN playlist' = DOMAIN playlist
        /\ \A j \in DOMAIN playlist : playlist'[j].owner = playlist[j].owner
    <3>1. /\ DOMAIN playlist' = DOMAIN playlist
          /\ \A j \in DOMAIN playlist : j # i => playlist'[j] = playlist[j]
          /\ playlist'[i].owner = playlist[i].owner
      BY <1>1, <1>5, UnavailableItem
    <3> QED BY <3>1
  <2>2. /\ \A j \in DOMAIN playlist : playlist[j].owner <= MaxLength + edits
        /\ \A j, k \in DOMAIN playlist : playlist[j].owner = playlist[k].owner => j = k
    BY DEF OwnersApart
  <2>3. \A j \in DOMAIN playlist' : playlist'[j].owner <= MaxLength + (edits + 1)
    BY <1>1, <2>1, <2>2
  <2>4. \A j, k \in DOMAIN playlist' : playlist'[j].owner = playlist'[k].owner => j = k
    BY <2>1, <2>2
  <2> QED BY <1>5, <2>3, <2>4 DEF OwnersApart
<1>6. CASE WalkStep
  BY <1>2, <1>6 DEF WalkStep, StartWalk, FetchPage, WalkFails
<1>7. CASE OpenMenu \/ FollowNext \/ FollowPrevious
  BY <1>2, <1>7 DEF OpenMenu, FollowNext, FollowPrevious
<1> QED BY <1>2, <1>3, <1>4, <1>5, <1>6, <1>7, EditSteps DEF Edited

\* A page reads what is on it and leaves what is behind it ahead.
LEMMA FetchStillAhead ==
    ASSUME Shapes, StillAhead, FetchPage
    PROVE  StillAhead'
<1> DEFINE page == PageItems(walk.offset, WalkPageSize)
           next == walk.offset + WalkPageSize
<1>1. /\ walk \in WalkType /\ walk' \in WalkType
      /\ walk'.offset = next /\ walk'.uris = walk.uris \o page
      /\ walk'.steady = walk.steady /\ walk'.shrunk = walk.shrunk
      /\ walk'.blank = (\/ walk.blank \/ (page = <<>> /\ walk.offset < Total))
      /\ walk'.pc = "done" => next >= Total \/ page = <<>>
      /\ UNCHANGED playlist
  BY WalkSteps
<1>2. /\ walk.offset \in Nat /\ walk.uris \in Listings /\ WalkPageSize \in Nat \ {0}
      /\ walk # NoWalk /\ playlist \in Seq(Items)
  BY <1>1, PlaylistPagesAssumption DEF WalkType, NoWalk, Shapes
<1>3. /\ page \in Seq(Tracks)
      /\ \A j \in DOMAIN playlist :
            walk.offset < j /\ j <= next /\ playlist[j].uri # Unavailable =>
                \E k \in DOMAIN page : page[k] = playlist[j].uri
  BY <1>2, NextPage, OnPage DEF Listings
<1>4. /\ Len(playlist) \in Nat /\ DOMAIN playlist = 1 .. Len(playlist)
  BY <1>2, LenProperties
<1> HIDE DEF page
<1>5. /\ \A k \in DOMAIN walk.uris : k \in DOMAIN walk'.uris /\ walk'.uris[k] = walk.uris[k]
      /\ \A k \in DOMAIN page : \E l \in DOMAIN walk'.uris : walk'.uris[l] = page[k]
  <2> DEFINE before == walk.uris
             after == before \o page
  <2>1. before \in Seq(Tracks)
    BY <1>2 DEF Listings
  <2> HIDE DEF before
  <2>2. /\ after \in Seq(Tracks) /\ Len(after) = Len(before) + Len(page)
        /\ \A i \in 1 .. Len(before) + Len(page) :
              after[i] = IF i <= Len(before) THEN before[i] ELSE page[i - Len(before)]
    BY <1>3, <2>1, ConcatProperties
  <2> HIDE DEF after
  <2>3. /\ DOMAIN before = 1 .. Len(before) /\ Len(before) \in Nat
        /\ DOMAIN page = 1 .. Len(page) /\ Len(page) \in Nat
        /\ DOMAIN after = 1 .. Len(after)
    BY <1>3, <2>1, <2>2, LenProperties
  <2>4. \A k \in DOMAIN before : k \in DOMAIN after /\ after[k] = before[k]
    BY <2>2, <2>3
  <2>5. ASSUME NEW k \in DOMAIN page PROVE \E l \in DOMAIN after : after[l] = page[k]
    <3>1. Len(before) + k \in DOMAIN after /\ after[Len(before) + k] = page[k]
      BY <2>2, <2>3
    <3> QED BY <3>1
  <2> QED BY <1>1, <2>4, <2>5 DEF before, after
<1> SUFFICES ASSUME ~walk'.shrunk, ~walk'.blank
             PROVE  /\ walk'.steady \subseteq ShownItems(playlist')
                    /\ \A item \in walk'.steady : Read(item)' \/ Ahead(item)'
                    /\ walk'.pc = "done" => walk'.offset >= Total'
  BY DEF StillAhead
<1>6. /\ ~walk.shrunk /\ ~walk.blank /\ ~(page = <<>> /\ walk.offset < Total)
  BY <1>1
<1>7. /\ walk.steady \subseteq ShownItems(playlist)
      /\ \A item \in walk.steady : Read(item) \/ Ahead(item)
  BY <1>2, <1>6 DEF StillAhead
<1>8. walk'.steady \subseteq ShownItems(playlist')
  BY <1>1, <1>7
<1>9. ASSUME NEW item \in walk.steady PROVE Read(item)' \/ Ahead(item)'
  <2>1. CASE Read(item)
    BY <1>5, <2>1 DEF Read
  <2>2. CASE Ahead(item)
    <3>1. PICK j \in DOMAIN playlist : walk.offset < j /\ playlist[j] = item
      BY <2>2 DEF Ahead
    <3>2. item.uri # Unavailable
      BY <1>7 DEF ShownItems
    <3>3. j \in Nat
      BY <1>4
    <3>4. CASE j <= next
      <4>1. \E k \in DOMAIN page : page[k] = item.uri
        BY <1>3, <3>1, <3>2, <3>4
      <4>2. \E l \in DOMAIN walk'.uris : walk'.uris[l] = item.uri
        BY <1>5, <4>1
      <4> QED BY <4>2 DEF Read
    <3>5. CASE next < j
      BY <1>1, <3>1, <3>5 DEF Ahead
    <3> QED BY <1>2, <3>3, <3>4, <3>5
  <2> QED BY <1>7, <2>1, <2>2
<1>10. walk'.pc = "done" => walk'.offset >= Total'
  <2>1. Total' = Total /\ Total \in Nat
    BY <1>1, <1>4 DEF Total
  <2> QED BY <1>1, <1>2, <1>6, <2>1
<1> QED BY <1>1, <1>8, <1>9, <1>10

\* An edit that takes nothing out moves nothing back.
LEMMA EditStillAhead ==
    ASSUME Shapes, Shapes', StillAhead, NEW shrinks \in BOOLEAN, Edited(shrinks),
           ~shrinks =>
               \A j \in DOMAIN playlist :
                  playlist[j] \in ShownItems(playlist') =>
                      \E k \in DOMAIN playlist' : j <= k /\ playlist'[k] = playlist[j]
    PROVE  StillAhead'
<1>1. CASE walk' = NoWalk
  BY <1>1 DEF StillAhead
<1>2. CASE walk' # NoWalk
  <2>1. /\ walk \in WalkType /\ walk' \in WalkType /\ walk'.pc = "walking"
        /\ walk'.offset = walk.offset /\ walk'.uris = walk.uris
        /\ walk'.shrunk = (walk.shrunk \/ shrinks) /\ walk'.blank = walk.blank
        /\ walk'.steady = walk.steady \cap ShownItems(playlist')
    BY <1>2, EditedShapes
  <2> SUFFICES ASSUME ~walk'.shrunk, ~walk'.blank, NEW item \in walk'.steady
               PROVE  Read(item)' \/ Ahead(item)'
    BY <2>1 DEF StillAhead
  <2>2. ~walk.shrunk /\ ~walk.blank /\ ~shrinks
    BY <2>1
  <2>3. item \in walk.steady /\ item \in ShownItems(playlist')
    BY <2>1
  <2>4. Read(item) \/ Ahead(item)
    <3>1. walk # NoWalk
      BY <2>1 DEF WalkType, NoWalk
    <3> QED BY <2>2, <2>3, <3>1 DEF StillAhead
  <2>5. CASE Read(item)
    BY <2>1, <2>5 DEF Read
  <2>6. CASE Ahead(item)
    <3>1. PICK j \in DOMAIN playlist : walk.offset < j /\ playlist[j] = item
      BY <2>6 DEF Ahead
    <3>2. PICK k \in DOMAIN playlist' : j <= k /\ playlist'[k] = item
      BY <2>2, <2>3, <3>1
    <3>3. j \in Int /\ k \in Int /\ walk.offset \in Int
      <4>1. playlist \in Seq(Items) /\ playlist' \in Seq(Items)
        BY DEF Shapes
      <4>2. DOMAIN playlist = 1 .. Len(playlist) /\ DOMAIN playlist' = 1 .. Len(playlist')
        BY <4>1, LenProperties
      <4> QED BY <2>1, <4>2 DEF WalkType
    <3>4. walk.offset < k
      BY <3>1, <3>2, <3>3
    <3> QED BY <2>1, <3>2, <3>4 DEF Ahead
  <2> QED BY <2>4, <2>5, <2>6
<1> QED BY <1>1, <1>2

LEMMA StepStillAhead ==
    Shapes /\ Shapes' /\ OwnersApart /\ StillAhead /\ [Next]_vars => StillAhead'
<1> SUFFICES ASSUME Shapes, Shapes', OwnersApart, StillAhead, [Next]_vars PROVE StillAhead'
  OBVIOUS
<1>1. /\ playlist \in Seq(Items) /\ playlist' \in Seq(Items) /\ Len(playlist) \in Nat
      /\ edits \in Nat
  BY LenProperties DEF Shapes
<1>2. CASE UNCHANGED <<playlist, walk>>
  BY <1>2 DEF StillAhead, Read, Ahead, Total
<1>3. CASE StartWalk
  <2>1. /\ walk'.offset = 0 /\ walk'.pc = "walking" /\ walk'.steady = ShownItems(playlist)
        /\ UNCHANGED playlist
    BY <1>3, WalkSteps
  <2>2. ASSUME NEW item \in walk'.steady PROVE Ahead(item)'
    <3>1. PICK j \in DOMAIN playlist : playlist[j] = item
      BY <2>1, <2>2 DEF ShownItems
    <3>2. 0 < j
      BY <1>1, LenProperties
    <3> QED BY <2>1, <3>1, <3>2 DEF Ahead
  <2> QED BY <2>1, <2>2 DEF StillAhead
<1>4. CASE FetchPage
  BY <1>4, FetchStillAhead
<1>5. CASE WalkFails
  BY <1>5 DEF WalkFails, StillAhead
<1>6. ASSUME NEW position \in 0 .. Len(playlist), NEW uri \in Tracks,
             playlist' = InsertItem(playlist, position,
                                    [uri |-> uri, owner |-> MaxLength + edits + 1]),
             Edited(FALSE)
      PROVE  StillAhead'
  <2> DEFINE item == [uri |-> uri, owner |-> MaxLength + edits + 1]
  <2>1. item \in Items
    <3>1. MaxLength + edits + 1 \in Nat
      BY <1>1, PlaylistPagesAssumption
    <3> QED BY <3>1 DEF Items, Owners
  <2> HIDE DEF item
  <2>2. playlist' = InsertItem(playlist, position, item)
    BY <1>6 DEF item
  <2>3. /\ Len(playlist') = Len(playlist) + 1
        /\ \A i \in 1 .. position : playlist'[i] = playlist[i]
        /\ \A i \in position + 2 .. Len(playlist) + 1 : playlist'[i] = playlist[i - 1]
    BY <1>1, <2>1, <2>2, InsertItemPositions
  <2>4. DOMAIN playlist = 1 .. Len(playlist) /\ DOMAIN playlist' = 1 .. Len(playlist')
    BY <1>1, LenProperties
  <2>5. ASSUME NEW j \in DOMAIN playlist
        PROVE  \E k \in DOMAIN playlist' : j <= k /\ playlist'[k] = playlist[j]
    <3>1. j \in 1 .. Len(playlist)
      BY <2>4
    <3>2. CASE j <= position
      <4>1. j \in DOMAIN playlist' /\ playlist'[j] = playlist[j] /\ j <= j
        BY <1>1, <2>3, <2>4, <3>1, <3>2
      <4> QED BY <4>1
    <3>3. CASE j > position
      <4>1. j + 1 \in position + 2 .. Len(playlist) + 1 /\ j + 1 - 1 = j
        BY <1>1, <3>1, <3>3
      <4>2. j + 1 \in DOMAIN playlist' /\ playlist'[j + 1] = playlist[j] /\ j <= j + 1
        BY <1>1, <2>3, <2>4, <3>1, <4>1
      <4> QED BY <4>2
    <3> QED BY <1>1, <3>1, <3>2, <3>3
  <2> QED BY <1>6, <2>5, EditStillAhead
<1>7. ASSUME NEW position \in 0 .. Len(playlist) - 1,
             playlist' = DeleteItem(playlist, position), Edited(TRUE)
      PROVE  StillAhead'
  BY <1>7, EditStillAhead
<1>8. ASSUME NEW i \in DOMAIN playlist,
             playlist' = [playlist EXCEPT ![i].uri = Unavailable], Edited(FALSE)
      PROVE  StillAhead'
  <2>1. /\ DOMAIN playlist' = DOMAIN playlist
        /\ \A j \in DOMAIN playlist : j # i => playlist'[j] = playlist[j]
        /\ playlist'[i].uri = Unavailable /\ playlist'[i].owner = playlist[i].owner
    BY <1>1, <1>8, UnavailableItem
  <2>2. ASSUME NEW j \in DOMAIN playlist, playlist[j] \in ShownItems(playlist')
        PROVE  \E k \in DOMAIN playlist' : j <= k /\ playlist'[k] = playlist[j]
    <3>1. PICK k \in DOMAIN playlist' :
             playlist'[k].uri # Unavailable /\ playlist'[k] = playlist[j]
      BY <2>2 DEF ShownItems
    <3>2. k # i /\ playlist[k] = playlist[j]
      BY <2>1, <3>1
    <3>3. k = j
      BY <2>1, <3>2 DEF OwnersApart
    <3>4. j <= j
      BY <1>1, LenProperties
    <3> QED BY <3>1, <3>3, <3>4
  <2> QED BY <1>8, <2>2, EditStillAhead
<1>9. CASE OpenMenu \/ FollowNext \/ FollowPrevious
  BY <1>2, <1>9 DEF OpenMenu, FollowNext, FollowPrevious
<1> QED BY <1>2, <1>3, <1>4, <1>5, <1>6, <1>7, <1>8, <1>9, EditSteps DEF WalkStep

\* A track that is in the playlist all the time is in the list the walk returns, however
\* many tracks are inserted between its pages.
THEOREM MissesNothing == Spec => []WalkMissesNothing
<1>1. Init => OwnersApart /\ StillAhead
  <2> SUFFICES ASSUME Init PROVE OwnersApart /\ StillAhead
    OBVIOUS
  <2>1. PICK length \in 0 .. MaxLength :
           \E uris \in [1 .. length -> Tracks \cup {Unavailable}] :
              playlist = [i \in 1 .. length |-> [uri |-> uris[i], owner |-> i]]
    BY DEF Init
  <2>2. /\ DOMAIN playlist = 1 .. length /\ \A i \in 1 .. length : playlist[i].owner = i
        /\ length \in Nat /\ length <= MaxLength /\ MaxLength \in Nat
    BY <2>1, PlaylistPagesAssumption
  <2> QED BY <2>2 DEF Init, OwnersApart, StillAhead
<1>2. Shapes /\ OwnersApart /\ StillAhead => WalkMissesNothing
  <2> SUFFICES ASSUME Shapes, StillAhead, walk.pc = "done", ~walk.shrunk, ~walk.blank,
                      NEW item \in walk.steady
               PROVE  \E i \in DOMAIN walk.uris : walk.uris[i] = item.uri
    BY DEF WalkMissesNothing
  <2>1. walk # NoWalk /\ walk \in WalkType
    BY DEF NoWalk, Shapes
  <2>2. (Read(item) \/ Ahead(item)) /\ walk.offset >= Total
    BY <2>1 DEF StillAhead
  <2>3. ~Ahead(item)
    <3> SUFFICES ASSUME NEW j \in DOMAIN playlist, walk.offset < j PROVE FALSE
      BY DEF Ahead
    <3>1. j \in 1 .. Len(playlist) /\ Len(playlist) \in Nat
      BY LenProperties DEF Shapes
    <3>2. walk.offset \in Nat
      BY <2>1 DEF WalkType
    <3> QED BY <2>2, <3>1, <3>2 DEF Total
  <2> QED BY <2>2, <2>3 DEF Read
<1>3. Shapes /\ Shapes' /\ OwnersApart /\ StillAhead /\ [Next]_vars => OwnersApart' /\ StillAhead'
  BY StepOwnersApart, StepStillAhead
<1> QED BY <1>1, <1>2, <1>3, ShapesInvariant, PTL DEF Spec

-----------------------------------------------------------------------------
(* The walk is exact.                                                      *)

\* Over a playlist nobody edits, a walk under way has read what is before its offset,
\* and has met no page without a track.
ReadSoFar ==
    walk # NoWalk /\ ~walk.edited =>
        /\ walk.pc = "walking" => /\ walk.uris = Shown(Before(walk.offset))
                                  /\ \A start \in BlankPages : walk.offset <= start
        /\ WalkExact

\* The same of a guest who only follows Next, and of the page they see.
SeenSoFar ==
    menu.open /\ menu.straight =>
        /\ menu.shown = PageItems(menu.offset, PLAYLIST_PAGE_SIZE)
        /\ menu.has_next = HasNext(menu.offset, menu.shown)
        /\ menu.seen = Shown(Before(menu.offset + PLAYLIST_PAGE_SIZE))

\* A page without a track, the last page, and a page with more to come.
LEMMA FetchReadSoFar ==
    ASSUME Shapes, ReadSoFar, FetchPage
    PROVE  ReadSoFar'
<1> DEFINE page == PageItems(walk.offset, WalkPageSize)
           next == walk.offset + WalkPageSize
<1>1. /\ walk \in WalkType /\ walk'.offset = next /\ walk'.uris = walk.uris \o page
      /\ walk'.edited = walk.edited /\ walk.pc = "walking"
      /\ walk'.pc = IF next >= Total \/ page = <<>> THEN "done" ELSE "walking"
      /\ UNCHANGED playlist
  BY WalkSteps
<1>2. /\ playlist \in Seq(Items) /\ WalkPageSize \in Nat \ {0}
      /\ Len(playlist) \in Nat /\ Total = Len(playlist)
  BY PlaylistPagesAssumption, LenProperties DEF Shapes, Total
<1>3. /\ walk.offset \in Nat /\ walk # NoWalk /\ next \in Nat
      /\ walk.offset % WalkPageSize = 0
  BY <1>1, <1>2 DEF WalkType, NoWalk, Shapes
<1>4. Shown(Before(next)) = Shown(Before(walk.offset)) \o page
  BY <1>2, <1>3, NextPage
<1>5. \A o \in Nat : o >= Len(playlist) => Before(o) = playlist
  BY <1>2, WholeBefore
<1>6. BlankPages' = BlankPages /\ PageStarts' = PageStarts
  BY <1>1 DEF BlankPages, PageStarts, PageItems
<1>7. \A n : Shown(SubSeq(playlist, 1, n))' = Shown(SubSeq(playlist, 1, n))
  BY <1>1
<1> SUFFICES ASSUME ~walk.edited
             PROVE  /\ walk'.pc = "walking" =>
                          /\ walk'.uris = Shown(Before(walk.offset)')
                          /\ \A start \in BlankPages : next <= start
                    /\ walk'.pc = "done" =>
                          \E n \in 0 .. Len(playlist) :
                             StopsAt(n) /\ walk'.uris = Shown(SubSeq(playlist, 1, n))
  BY <1>1, <1>6, <1>7 DEF ReadSoFar, WalkExact, StopsAt
<1>8. /\ walk.uris = Shown(Before(walk.offset))
      /\ \A start \in BlankPages : walk.offset <= start
  BY <1>1, <1>3 DEF ReadSoFar
<1>9. walk'.uris = Shown(Before(next))
  BY <1>1, <1>4, <1>8
<1>10. Before(walk.offset)' = Before(next)
  BY <1>1 DEF Before, EndAt
<1>11. BlankPages \subseteq Nat /\ \A start \in BlankPages : start < Len(playlist)
  BY <1>2 DEF BlankPages, PageStarts
<1>12. ASSUME page # <<>>, NEW start \in BlankPages PROVE next <= start
  <2>1. start \in Nat /\ start % WalkPageSize = 0 /\ PageItems(start, WalkPageSize) = <<>>
    BY <1>11 DEF BlankPages, PageStarts
  <2>2. start # walk.offset /\ walk.offset <= start
    BY <1>8, <1>12, <2>1
  <2>3. ASSUME start < next PROVE start <= walk.offset
    BY <1>2, <1>3, <2>1, <2>3, NoneBetween
  <2> QED BY <1>3, <2>1, <2>2, <2>3
<1>13. CASE page = <<>> /\ walk.offset < Len(playlist)
  <2>1. walk.offset \in BlankPages /\ StopsAt(walk.offset)
    <3>1. walk.offset \in BlankPages
      BY <1>2, <1>3, <1>13 DEF BlankPages, PageStarts
    <3> QED BY <1>8, <3>1 DEF StopsAt
  <2>2. walk'.uris = Shown(Before(walk.offset))
    <3>1. walk.uris \in Seq(Tracks)
      BY <1>1 DEF WalkType, Listings
    <3>2. walk.uris \o <<>> = walk.uris
      BY <3>1, ConcatEmptySeq
    <3> QED BY <1>1, <1>8, <1>13, <3>2
  <2>3. Before(walk.offset) = SubSeq(playlist, 1, walk.offset)
    BY <1>13 DEF Before, EndAt
  <2>4. walk.offset \in 0 .. Len(playlist)
    BY <1>2, <1>3, <1>13
  <2>5. walk'.pc = "done"
    BY <1>1, <1>13
  <2> QED BY <2>1, <2>2, <2>3, <2>4, <2>5
<1>14. CASE page # <<>> \/ walk.offset >= Len(playlist)
  <2>1. CASE next >= Len(playlist)
    <3>1. BlankPages = {}
      <4>1. CASE page # <<>>
        BY <1>2, <1>3, <1>11, <1>12, <2>1, <4>1
      <4>2. CASE walk.offset >= Len(playlist)
        BY <1>2, <1>3, <1>8, <1>11, <4>2
      <4> QED BY <1>14, <4>1, <4>2
    <3>2. StopsAt(Len(playlist)) /\ Len(playlist) \in 0 .. Len(playlist)
      BY <1>2, <3>1 DEF StopsAt
    <3>3. SubSeq(playlist, 1, Len(playlist)) = playlist
      <4>1. Before(Len(playlist)) = playlist
        BY <1>2, <1>5
      <4> QED BY <4>1 DEF Before, EndAt
    <3>4. walk'.uris = Shown(playlist)
      BY <1>3, <1>5, <1>9, <2>1
    <3>5. walk'.pc = "done"
      BY <1>1, <1>2, <2>1
    <3> QED BY <3>2, <3>3, <3>4, <3>5
  <2>2. CASE ~(next >= Len(playlist))
    <3>1. page # <<>>
      BY <1>2, <1>3, <1>14, <2>2
    <3>2. walk'.pc = "walking"
      BY <1>1, <1>2, <2>2, <3>1
    <3> QED BY <1>9, <1>10, <1>12, <3>1, <3>2
  <2> QED BY <2>1, <2>2
<1>15. walk.offset < Len(playlist) \/ walk.offset >= Len(playlist)
  BY <1>2, <1>3
<1> QED BY <1>13, <1>14, <1>15

LEMMA StepReadSoFar == Shapes /\ ReadSoFar /\ [Next]_vars => ReadSoFar'
<1> SUFFICES ASSUME Shapes, ReadSoFar, [Next]_vars PROVE ReadSoFar'
  OBVIOUS
<1>1. playlist \in Seq(Items) /\ WalkPageSize \in Nat \ {0}
  BY PlaylistPagesAssumption DEF Shapes
<1>2. CASE UNCHANGED <<playlist, walk>>
  BY <1>2 DEF ReadSoFar, WalkExact, StopsAt, BlankPages, PageStarts, PageItems, Before, EndAt
<1>3. CASE StartWalk
  <2>1. walk'.uris = <<>> /\ walk'.offset = 0 /\ walk'.pc = "walking" /\ UNCHANGED playlist
    BY <1>3, WalkSteps
  <2>2. Before(0)' = Before(0) /\ Shown(Before(0)) = <<>>
    BY <1>1, <2>1, NothingBefore DEF Before, EndAt
  <2>3. \A start \in BlankPages' : 0 <= start
    BY DEF BlankPages, PageStarts
  <2> QED BY <2>1, <2>2, <2>3 DEF ReadSoFar, WalkExact, Before, EndAt
<1>4. CASE FetchPage
  BY <1>4, FetchReadSoFar
<1>5. CASE WalkFails
  BY <1>5 DEF WalkFails, ReadSoFar
<1>6. ASSUME NEW shrinks \in BOOLEAN, Edited(shrinks) PROVE ReadSoFar'
  BY <1>6, EditedShapes DEF ReadSoFar
<1>7. CASE OpenMenu \/ FollowNext \/ FollowPrevious
  BY <1>2, <1>7 DEF OpenMenu, FollowNext, FollowPrevious
<1> QED BY <1>2, <1>3, <1>4, <1>5, <1>6, <1>7, EditSteps DEF WalkStep

\* Over a playlist nobody edits the walk returns exactly the tracks before the first page
\* that has none, all of them if there is no such page, each once and in order, for every
\* page size and every playlist.
THEOREM ReadsExactly == Spec => []WalkExact
<1>1. Init => ReadSoFar
  BY DEF Init, ReadSoFar
<1>2. ReadSoFar => WalkExact
  <2>1. NoWalk.pc # "done"
    BY DEF NoWalk
  <2> QED BY <2>1 DEF ReadSoFar, WalkExact
<1> QED BY <1>1, <1>2, StepReadSoFar, ShapesInvariant, PTL DEF Spec

-----------------------------------------------------------------------------
(* The menu.                                                               *)

LEMMA StepSeenSoFar == Shapes /\ SeenSoFar /\ [Next]_vars => SeenSoFar'
<1> SUFFICES ASSUME Shapes, SeenSoFar, [Next]_vars PROVE SeenSoFar'
  OBVIOUS
<1>1. playlist \in Seq(Items) /\ PLAYLIST_PAGE_SIZE \in Nat \ {0}
  BY PlaylistPagesAssumption DEF Shapes
<1>2. CASE UNCHANGED <<playlist, menu>>
  BY <1>2 DEF SeenSoFar, Before, EndAt, PageItems, HasNext, Total
<1>3. CASE OpenMenu \/ FollowNext \/ FollowPrevious
  <2>1. PICK offset \in Nat, seen \in Listings, straight \in BOOLEAN :
           /\ menu'.open /\ menu'.offset = offset /\ menu'.straight = straight
           /\ menu'.shown = PageItems(offset, PLAYLIST_PAGE_SIZE)
           /\ menu'.has_next = HasNext(offset, menu'.shown)
           /\ menu'.seen = seen \o menu'.shown
           /\ straight =>
                 \/ offset = 0 /\ seen = <<>>
                 \/ /\ menu \in MenuType /\ menu.straight /\ seen = menu.seen
                    /\ offset = menu.offset + PLAYLIST_PAGE_SIZE
           /\ UNCHANGED <<playlist, walk, edits>>
    BY <1>3, MenuSteps
  <2>2. Shown(Before(offset + PLAYLIST_PAGE_SIZE))
           = Shown(Before(offset)) \o PageItems(offset, PLAYLIST_PAGE_SIZE)
    BY <1>1, NextPage
  <2>3. ASSUME straight PROVE seen = Shown(Before(offset))
    <3>1. CASE offset = 0 /\ seen = <<>>
      BY <1>1, <3>1, NothingBefore
    <3>2. CASE /\ menu \in MenuType /\ menu.straight /\ seen = menu.seen
               /\ offset = menu.offset + PLAYLIST_PAGE_SIZE
      <4>1. menu.open
        BY <3>2 DEF MenuType
      <4> QED BY <3>2, <4>1 DEF SeenSoFar
    <3> QED BY <2>1, <2>3, <3>1, <3>2
  <2>4. straight => menu'.seen = Shown(Before(offset + PLAYLIST_PAGE_SIZE))
    BY <2>1, <2>2, <2>3
  <2>5. PageItems(menu.offset, PLAYLIST_PAGE_SIZE)' = PageItems(offset, PLAYLIST_PAGE_SIZE)
    BY <2>1 DEF PageItems
  <2>6. HasNext(menu.offset, menu.shown)' = HasNext(offset, menu'.shown)
    BY <2>1 DEF HasNext, Total
  <2>7. Before(menu.offset + PLAYLIST_PAGE_SIZE)' = Before(offset + PLAYLIST_PAGE_SIZE)
    BY <2>1 DEF Before, EndAt
  <2> QED BY <2>1, <2>4, <2>5, <2>6, <2>7 DEF SeenSoFar
<1>4. ASSUME NEW shrinks \in BOOLEAN, Edited(shrinks) PROVE SeenSoFar'
  <2>1. ~menu'.open \/ ~menu'.straight
    BY <1>4, EditedShapes DEF NoMenu
  <2> QED BY <2>1 DEF SeenSoFar
<1>5. CASE WalkStep
  BY <1>2, <1>5 DEF WalkStep, StartWalk, FetchPage, WalkFails
<1> QED BY <1>2, <1>3, <1>4, <1>5, EditSteps

LEMMA SeenInvariant == Spec => [](Shapes /\ SeenSoFar)
<1>1. Init => SeenSoFar
  BY DEF Init, SeenSoFar, NoMenu
<1> QED BY <1>1, StepSeenSoFar, ShapesInvariant, PTL DEF Spec

\* A guest who follows Next to the last page has seen every track once and in order.
THEOREM MenuShowsAll == Spec => []MenuComplete
<1>1. Shapes /\ SeenSoFar => MenuComplete
  <2> SUFFICES ASSUME Shapes, SeenSoFar, menu.open, menu.straight, ~menu.has_next
               PROVE  menu.seen = Shown(playlist)
    BY DEF MenuComplete
  <2> DEFINE next == menu.offset + PLAYLIST_PAGE_SIZE
  <2>1. /\ menu \in MenuType /\ menu.offset \in Nat /\ PLAYLIST_PAGE_SIZE \in Nat \ {0}
        /\ menu.shown \in Listings /\ playlist \in Seq(Items)
    <3>1. menu \in MenuType
      <4>1. NoMenu.open = FALSE
        BY DEF NoMenu
      <4> QED BY <4>1 DEF Shapes
    <3> QED BY <3>1, PlaylistPagesAssumption DEF Shapes, MenuType
  <2>2. /\ menu.seen = Shown(Before(next)) /\ menu.offset + Len(menu.shown) >= Total
    <3>1. Len(menu.shown) \in Nat /\ Total \in Nat
      BY <2>1, LenProperties DEF Listings, Total
    <3>2. ~HasNext(menu.offset, menu.shown)
      BY DEF SeenSoFar
    <3>3. menu.offset + Len(menu.shown) >= Total
      BY <2>1, <3>1, <3>2 DEF HasNext
    <3> QED BY <3>3 DEF SeenSoFar
  <2>3. Len(menu.shown) <= PLAYLIST_PAGE_SIZE
    BY <2>1, NextPage DEF SeenSoFar
  <2>4. next \in Nat /\ next >= Total
    <3>1. Len(menu.shown) \in Nat /\ Total \in Nat
      BY <2>1, LenProperties DEF Listings, Total
    <3> QED BY <2>1, <2>2, <2>3, <3>1
  <2> HIDE DEF next
  <2>5. Before(next) = playlist
    BY <2>1, <2>4, WholeBefore
  <2> QED BY <2>2, <2>5
<1> QED BY <1>1, SeenInvariant, PTL

\* Next never leads to an empty page of a playlist whose tracks are all available.
THEOREM NextLeads == Spec => []NextLeadsOn
<1>1. Shapes /\ SeenSoFar => NextLeadsOn
  <2> SUFFICES ASSUME Shapes, SeenSoFar, menu.open, menu.straight, menu.has_next,
                      AllShown(playlist)
               PROVE  PageItems(menu.offset + PLAYLIST_PAGE_SIZE, PLAYLIST_PAGE_SIZE) # <<>>
    BY DEF NextLeadsOn, AllShown
  <2> DEFINE next == menu.offset + PLAYLIST_PAGE_SIZE
             page == PageItems(next, PLAYLIST_PAGE_SIZE)
  <2>1. /\ menu \in MenuType /\ menu.offset \in Nat /\ PLAYLIST_PAGE_SIZE \in Nat \ {0}
        /\ menu.shown \in Listings /\ playlist \in Seq(Items)
    <3>1. menu \in MenuType
      <4>1. NoMenu.open = FALSE
        BY DEF NoMenu
      <4> QED BY <4>1 DEF Shapes
    <3> QED BY <3>1, PlaylistPagesAssumption DEF Shapes, MenuType
  <2>2. /\ Len(menu.shown) \in Nat /\ Total \in Nat
    BY <2>1, LenProperties DEF Listings, Total
  <2>3. menu.offset + Len(menu.shown) < Total
    BY DEF SeenSoFar, HasNext
  <2>4. Len(menu.shown) = IF next < Total THEN PLAYLIST_PAGE_SIZE ELSE Total - menu.offset
    <3>1. menu.offset < Total
      BY <2>1, <2>2, <2>3
    <3> QED BY <2>1, <3>1, OnPage DEF SeenSoFar
  <2>5. next < Total /\ next \in Nat
    BY <2>1, <2>2, <2>3, <2>4
  <2> HIDE DEF next
  <2>6. Len(page) = IF next + PLAYLIST_PAGE_SIZE < Total THEN PLAYLIST_PAGE_SIZE
                    ELSE Total - next
    BY <2>1, <2>5, OnPage
  <2>7. Len(page) # 0
    BY <2>1, <2>2, <2>5, <2>6
  <2>8. Len(<<>>) = 0
    OBVIOUS
  <2> HIDE DEF page
  <2>9. page # <<>>
    BY <2>7, <2>8
  <2> QED BY <2>9 DEF page, next
<1> QED BY <1>1, SeenInvariant, PTL
=============================================================================
