---------------------------- MODULE PollerProofs ----------------------------
(***************************************************************************)
(* What holds of the cleanup worker beside any number of approvals, for    *)
(* every set of tracks and playlists, every setting and every bound.       *)
(***************************************************************************)
EXTENDS Poller, SpotifyPlaylistProofs

-----------------------------------------------------------------------------
(* The operators on the table playlist_state.                              *)

\* A mark changes one column of one entry.
LEMMA MarkedEntries ==
    ASSUME NEW table \in Seq(EntryType), NEW entry \in DOMAIN table
    PROVE  /\ MarkPlayed(table, entry) \in Seq(EntryType)
           /\ MarkRemoved(table, entry) \in Seq(EntryType)
           /\ DOMAIN MarkPlayed(table, entry) = DOMAIN table
           /\ DOMAIN MarkRemoved(table, entry) = DOMAIN table
           /\ MarkPlayed(table, entry)[entry].played
           /\ \A e \in DOMAIN table :
                 /\ table[e].played => MarkPlayed(table, entry)[e].played
                 /\ MarkRemoved(table, entry)[e].played = table[e].played
                 /\ MarkPlayed(table, entry)[e].uri = table[e].uri
                 /\ MarkPlayed(table, entry)[e].ticket = table[e].ticket
                 /\ MarkPlayed(table, entry)[e].removed = table[e].removed
                 /\ MarkRemoved(table, entry)[e].uri = table[e].uri
                 /\ MarkRemoved(table, entry)[e].ticket = table[e].ticket
                 /\ e # entry => MarkRemoved(table, entry)[e].removed = table[e].removed
<1> DEFINE played == [table[entry] EXCEPT !.played = TRUE]
           removed == [table[entry] EXCEPT !.removed = TRUE]
<1>1. /\ table[entry] \in EntryType /\ entry \in 1 .. Len(table)
      /\ DOMAIN table = 1 .. Len(table)
  BY LenProperties, ElementOfSeq
<1>2. /\ played \in EntryType /\ played.uri = table[entry].uri /\ played.played
      /\ played.ticket = table[entry].ticket /\ played.removed = table[entry].removed
      /\ removed \in EntryType /\ removed.uri = table[entry].uri
      /\ removed.ticket = table[entry].ticket /\ removed.played = table[entry].played
  BY <1>1 DEF EntryType
<1>3. /\ MarkPlayed(table, entry) = [table EXCEPT ![entry] = played]
      /\ MarkRemoved(table, entry) = [table EXCEPT ![entry] = removed]
  BY DEF MarkPlayed, MarkRemoved
<1> HIDE DEF played, removed
<1>4. /\ [table EXCEPT ![entry] = played] \in Seq(EntryType)
      /\ [table EXCEPT ![entry] = removed] \in Seq(EntryType)
  BY <1>1, <1>2, ExceptSeq
<1>5. \A e \in DOMAIN table :
         /\ [table EXCEPT ![entry] = played][e] = IF e = entry THEN played ELSE table[e]
         /\ [table EXCEPT ![entry] = removed][e] = IF e = entry THEN removed ELSE table[e]
  OBVIOUS
<1> QED BY <1>1, <1>2, <1>3, <1>4, <1>5

\* A new entry leaves the earlier ones where they are.
LEMMA CreatedEntry ==
    ASSUME NEW table \in Seq(EntryType), NEW uri \in Tracks, NEW ticket \in Insertions
    PROVE  /\ CreateEntry(table, uri, ticket, ticket) \in Seq(EntryType)
           /\ DOMAIN CreateEntry(table, uri, ticket, ticket) = DOMAIN table \cup {Len(table) + 1}
           /\ \A e \in DOMAIN table : CreateEntry(table, uri, ticket, ticket)[e] = table[e]
           /\ CreateEntry(table, uri, ticket, ticket)[Len(table) + 1]
                 = NewEntry(uri, ticket, ticket)
<1> DEFINE new == NewEntry(uri, ticket, ticket)
<1>1. new \in EntryType
  BY DEF NewEntry, EntryType
<1>2. CreateEntry(table, uri, ticket, ticket) = Append(table, new)
  BY DEF CreateEntry
<1> HIDE DEF new
<1>3. /\ Append(table, new) \in Seq(EntryType) /\ Len(Append(table, new)) = Len(table) + 1
      /\ \A e \in 1 .. Len(table) : Append(table, new)[e] = table[e]
      /\ Append(table, new)[Len(table) + 1] = new
  BY <1>1, AppendProperties
<1>4. /\ DOMAIN table = 1 .. Len(table) /\ Len(table) \in Nat
      /\ DOMAIN Append(table, new) = 1 .. Len(table) + 1
  BY <1>3, LenProperties
<1> QED BY <1>2, <1>3, <1>4 DEF new

-----------------------------------------------------------------------------
(* Type correctness.                                                       *)

\* A deletion that Spotify accepts is at a position of the playlist.
LEMMA DeletionInside ==
    ASSUME NEW items \in Seq(Items), NEW position \in Int, NEW uri,
           CanDeleteAt(items, position, uri)
    PROVE  /\ position \in 0 .. Len(items) - 1
           /\ position + 1 \in DOMAIN items
           /\ items[position + 1].uri = uri
BY LenProperties DEF CanDeleteAt

LEMMA SleepingType == Sleeping \in TickType /\ Sleeping.pc = "sleeping"
BY DEF Sleeping, TickType

\* A tick that ends leaves nothing to be said of it.
LEMMA FinishedTick ==
    ASSUME TypeOK, NEW current \in Tracks \cup {NoTrack}, FinishTick(current)
    PROVE  tick' = Sleeping /\ tick' \in TickType /\ tick'.pc = "sleeping"
           /\ last_known' \in Tracks \cup {NoTrack}
BY SleepingType DEF FinishTick

\* An approval moves from one await to the next, or is given up.
LEMMA ApprovalMoves ==
    ASSUME NEW a \in ApprovalType
    PROVE  /\ NoApproval \in ApprovalType
           /\ GivenUp(a) \in ApprovalType
           /\ GivenUp(a).pc = "inserted" => GivenUp(a) = a
           /\ a.pc = "listing" => [a EXCEPT !.pc = "cleared"] \in ApprovalType
           /\ a.pc # "idle" => a.uri \in Tracks /\ a.playlist \in Playlists
           /\ a.pc = "inserted" => a.insertion \in Insertions
<1>1. CASE a = NoApproval
  BY <1>1 DEF ApprovalType, NoApproval, GivenUp
<1>2. CASE a \in [pc : {"listing", "cleared", "abandoned"}, uri : Tracks, playlist : Playlists,
                  insertion : {0}]
  <2>1. \A pc \in {"cleared", "abandoned"} : [a EXCEPT !.pc = pc] \in
           [pc : {"listing", "cleared", "abandoned"}, uri : Tracks, playlist : Playlists,
            insertion : {0}]
    BY <1>2
  <2>2. \A pc \in {"cleared", "abandoned"} : [a EXCEPT !.pc = pc].pc = pc
    BY <1>2
  <2> QED BY <1>2, <2>1, <2>2 DEF ApprovalType, NoApproval, GivenUp
<1>3. CASE a \in [pc : {"inserted"}, uri : Tracks, playlist : Playlists, insertion : Insertions]
  BY <1>3 DEF ApprovalType, NoApproval, GivenUp
<1> QED BY <1>1, <1>2, <1>3 DEF ApprovalType

\* What a step leaves alone keeps its type while no track is inserted.
Settled == /\ UNCHANGED inserted
           /\ entries' \in Seq(EntryType) /\ doubled' \subseteq Tracks
           /\ config' \in ConfigChoices /\ playing' \in Tracks \cup {NoTrack}
           /\ repeat' \in BOOLEAN /\ approvals' \in [Approvers -> ApprovalType]
           /\ playlists' \in [Playlists -> Seq(Items)] /\ upsets' \in Nat

TickTrue == /\ tick \in TickType
            /\ tick.pc \in {"listing", "deleting", "deleted"} =>
                  /\ tick.playlist \in Playlists
                  /\ tick.entry \in DOMAIN entries
                  /\ entries[tick.entry].uri = last_known
            /\ last_known \in Tracks \cup {NoTrack}

LEMMA SettledType ==
    ASSUME TypeOK, Settled, TickTrue'
    PROVE  TypeOK'
<1>1. EntryType' = EntryType /\ ApprovalType' = ApprovalType
  BY DEF Settled, EntryType, ApprovalType, Insertions
<1> QED BY <1>1 DEF TypeOK, Settled, TickTrue

\* Every configuration and every playlist of the venue has the right shape at first.
THEOREM InitTypeOK == Init => TypeOK
<1> SUFFICES ASSUME Init PROVE TypeOK
  OBVIOUS
<1>1. playlists \in [Playlists -> Seq(Items)]
  <2>1. \A p \in Playlists : Backbone[p] \in Seq(Tracks)
    BY PollerAssumption
  <2> QED BY <2>1, VenuePlaylistType DEF Init
<1>2. entries \in Seq(EntryType) /\ inserted \in Seq(Tracks)
  BY DEF Init
<1>3. tick \in TickType /\ tick.pc = "sleeping"
  BY SleepingType DEF Init
<1>4. approvals \in [Approvers -> ApprovalType] /\ doubled \subseteq Tracks
  BY DEF Init, ApprovalType
<1> QED BY <1>1, <1>2, <1>3, <1>4 DEF Init, TypeOK

\* The steps of a tick.
LEMMA TickStepType == TypeOK /\ (TickStep \/ TickFails \/ RepeatRefused) => TypeOK'
<1> SUFFICES ASSUME TypeOK, TickStep \/ TickFails \/ RepeatRefused PROVE Settled /\ TickTrue'
  BY SettledType
<1> USE DEF TypeOK, Settled, TickTrue
<1>1. CASE StartTick
  <2>1. config.playlist \in Playlists \cup {NoPlaylist} /\ config.repeat \in BOOLEAN
    BY PollerAssumption
  <2>2. tick' = [pc |-> "repeating", playlist |-> config.playlist, repeat |-> config.repeat,
                 current |-> NoTrack, entry |-> 0, position |-> 0]
    BY <1>1 DEF StartTick, Sleeping
  <2>3. tick' \in TickType /\ tick'.pc = "repeating"
    BY <2>1, <2>2 DEF TickType
  <2> QED BY <1>1, <2>3 DEF StartTick, spotify, history
<1>2. CASE SetRepeat \/ RepeatRefused
  <2>1. tick' \in TickType /\ tick'.pc = "reading"
    BY <1>2 DEF SetRepeat, RepeatRefused, TickType
  <2>2. repeat' \in BOOLEAN /\ upsets' \in Nat
    BY <1>2 DEF SetRepeat, RepeatRefused, TickType, spotify
  <2> QED BY <1>2, <2>1, <2>2 DEF SetRepeat, RepeatRefused, spotify, history
<1>3. CASE ReadNowPlaying
  <2>1. UNCHANGED <<config, spotify, approvals, history, upsets>>
    BY <1>3 DEF ReadNowPlaying
  <2>2. CASE FinishTick(playing) /\ UNCHANGED entries
    BY <2>1, <2>2, FinishedTick DEF spotify, history
  <2>3. ASSUME NEW entry \in DOMAIN entries, IsActiveEntryFor(entries, last_known, entry),
               entries' = MarkPlayed(entries, entry)
        PROVE  /\ entries' \in Seq(EntryType) /\ entry \in DOMAIN entries'
               /\ entries'[entry].uri = last_known /\ entry \in Nat
    <3>1. entries[entry].uri = last_known
      BY <2>3 DEF IsActiveEntryFor, ActiveEntriesFor
    <3>2. entry \in Nat
      BY LenProperties
    <3> QED BY <2>3, <3>1, <3>2, MarkedEntries
  <2>4. ASSUME NEW entry \in DOMAIN entries, IsActiveEntryFor(entries, last_known, entry),
               entries' = MarkPlayed(entries, entry), FinishTick(playing)
        PROVE  Settled /\ TickTrue'
    BY <2>1, <2>3, <2>4, FinishedTick DEF spotify, history
  <2>5. ASSUME NEW entry \in DOMAIN entries, IsActiveEntryFor(entries, last_known, entry),
               entries' = MarkPlayed(entries, entry), tick.playlist # NoPlaylist,
               tick' = [tick EXCEPT !.pc = "listing", !.current = playing, !.entry = entry],
               UNCHANGED last_known
        PROVE  Settled /\ TickTrue'
    <3>1. /\ tick' \in TickType /\ tick'.playlist \in Playlists /\ tick'.entry = entry
      BY <2>3, <2>5 DEF TickType
    <3> QED BY <2>1, <2>3, <2>5, <3>1 DEF spotify, history
  <2> QED BY <1>3, <2>2, <2>4, <2>5 DEF ReadNowPlaying
<1>4. CASE ListPlaylist
  <2>1. UNCHANGED <<entries, config, spotify, approvals, history, upsets>>
    BY <1>4 DEF ListPlaylist
  <2>2. tick.current \in Tracks \cup {NoTrack} /\ tick.playlist \in Playlists
    BY <1>4 DEF ListPlaylist, TickType
  <2>3. CASE FinishTick(tick.current)
    BY <2>1, <2>2, <2>3, FinishedTick DEF spotify, history
  <2>4. CASE ~FinishTick(tick.current)
    <3>1. playlists[tick.playlist] \in Seq(Items)
      BY <2>2
    <3>2. ListingIndex(playlists[tick.playlist], last_known) \in Int
      BY <3>1, ListingNumbers
    <3>3. /\ tick' = [tick EXCEPT !.pc = "deleting",
                          !.position = ListingIndex(playlists[tick.playlist], last_known)]
          /\ UNCHANGED last_known
      BY <1>4, <2>4 DEF ListPlaylist
    <3>4. /\ tick' \in TickType /\ tick'.playlist = tick.playlist /\ tick'.entry = tick.entry
      BY <3>2, <3>3 DEF TickType
    <3>5. tick.pc = "listing"
      BY <1>4 DEF ListPlaylist
    <3> QED BY <2>1, <3>3, <3>4, <3>5 DEF spotify, history
  <2> QED BY <2>3, <2>4
<1>5. CASE SpotifyDelete
  <2> DEFINE items == playlists[tick.playlist]
  <2>1. /\ UNCHANGED <<entries, config, last_known, playing, repeat, approvals, history, upsets>>
        /\ tick.pc = "deleting" /\ tick.playlist \in Playlists
    BY <1>5 DEF SpotifyDelete
  <2>2. CASE ~CanDeleteAt(items, tick.position, last_known)
    BY <1>5, <2>1, <2>2, SleepingType DEF SpotifyDelete, history
  <2>3. CASE CanDeleteAt(items, tick.position, last_known)
    <3>1. items \in Seq(Items) /\ tick.position \in Int
      BY <2>1 DEF TickType
    <3>2. tick.position \in 0 .. Len(items) - 1
      BY <2>3, <3>1, DeletionInside
    <3>3. DeleteItem(items, tick.position) \in Seq(Items)
      BY <3>1, <3>2, DeleteItemPositions
    <3>4. /\ playlists' = [playlists EXCEPT ![tick.playlist] = DeleteItem(items, tick.position)]
          /\ tick' = [tick EXCEPT !.pc = "deleted"]
      BY <1>5, <2>3 DEF SpotifyDelete
    <3> HIDE DEF items
    <3>5. playlists' \in [Playlists -> Seq(Items)]
      BY <3>3, <3>4
    <3>6. tick' \in TickType /\ tick'.playlist = tick.playlist /\ tick'.entry = tick.entry
      BY <3>4 DEF TickType
    <3> QED BY <2>1, <3>5, <3>6 DEF history
  <2> QED BY <2>2, <2>3
<1>6. CASE RecordRemoval
  <2>1. /\ entries' = MarkRemoved(entries, tick.entry) /\ FinishTick(tick.current)
        /\ UNCHANGED <<config, spotify, approvals, history, upsets>>
        /\ tick.entry \in DOMAIN entries
    BY <1>6 DEF RecordRemoval
  <2>2. entries' \in Seq(EntryType)
    BY <2>1, MarkedEntries
  <2>3. tick.current \in Tracks \cup {NoTrack}
    BY DEF TickType
  <2> QED BY <2>1, <2>2, <2>3, FinishedTick DEF spotify, history
<1>7. CASE TickFails
  BY <1>7, SleepingType DEF TickFails, spotify, history
<1> QED BY <1>1, <1>2, <1>3, <1>4, <1>5, <1>6, <1>7 DEF TickStep

\* The steps of an approval that insert and record nothing.
LEMMA ApprovalTurns ==
    ASSUME NEW w \in Approvers, TypeOK,
           \/ \E uri \in Requested : ApprovalStarts(w, uri)
           \/ ApprovalLists(w) \/ ApprovalStops(w) \/ ApprovalFails(w)
    PROVE  /\ approvals' \in [Approvers -> ApprovalType] /\ upsets' \in Nat
           /\ UNCHANGED <<entries, config, tick, last_known, spotify, history>>
           /\ \A v \in Approvers : approvals'[v].pc = "inserted" => approvals'[v] = approvals[v]
<1>1. approvals \in [Approvers -> ApprovalType] /\ approvals[w] \in ApprovalType
  BY DEF TypeOK
<1> DEFINE a == approvals[w]
<1>2. PICK b : approvals' = [approvals EXCEPT ![w] = b] /\ b \in ApprovalType
               /\ (b.pc = "inserted" => b = a)
  <2>1. ASSUME NEW uri \in Requested, ApprovalStarts(w, uri)
        PROVE  \E b \in ApprovalType : /\ approvals' = [approvals EXCEPT ![w] = b]
                                       /\ b.pc # "inserted"
    <3> DEFINE b == [pc |-> "listing", uri |-> uri, playlist |-> config.playlist,
                     insertion |-> 0]
    <3>1. config.playlist \in Playlists /\ uri \in Tracks
      BY <2>1, PollerAssumption DEF ApprovalStarts, TypeOK
    <3>2. approvals' = [approvals EXCEPT ![w] = b]
      BY <2>1 DEF ApprovalStarts
    <3> HIDE DEF b
    <3>3. b \in ApprovalType /\ b.pc = "listing"
      BY <3>1 DEF ApprovalType, b
    <3> QED BY <3>2, <3>3
  <2>2. NoApproval \in ApprovalType /\ NoApproval.pc = "idle"
    BY DEF ApprovalType, NoApproval
  <2>3. CASE ApprovalLists(w)
    <3>1. a.pc = "listing"
      BY <2>3 DEF ApprovalLists
    <3>2. \/ approvals' = [approvals EXCEPT ![w] = NoApproval]
          \/ approvals' = [approvals EXCEPT ![w] = [a EXCEPT !.pc = "cleared"]]
      BY <1>1, <2>3 DEF ApprovalLists
    <3>3. /\ [a EXCEPT !.pc = "cleared"] \in ApprovalType
          /\ [a EXCEPT !.pc = "cleared"].pc = "cleared"
      BY <1>1, <3>1, ApprovalMoves DEF ApprovalType, NoApproval
    <3> QED BY <2>2, <3>2, <3>3
  <2>4. CASE ApprovalStops(w)
    BY <2>2, <2>4 DEF ApprovalStops
  <2>5. CASE ApprovalFails(w)
    <3>1. approvals' = [approvals EXCEPT ![w] = GivenUp(a)]
      BY <1>1, <2>5 DEF ApprovalFails
    <3> QED BY <1>1, <3>1, ApprovalMoves
  <2> QED BY <2>1, <2>3, <2>4, <2>5
<1>3. /\ approvals' \in [Approvers -> ApprovalType]
      /\ \A v \in Approvers : approvals'[v].pc = "inserted" => approvals'[v] = approvals[v]
  BY <1>1, <1>2
<1>4. UNCHANGED <<entries, config, tick, last_known, spotify, history>> /\ upsets' \in Nat
  <2>1. upsets \in Nat
    BY DEF TypeOK
  <2>2. CASE \E uri \in Requested : ApprovalStarts(w, uri)
    BY <2>1, <2>2 DEF ApprovalStarts
  <2>3. CASE ApprovalLists(w) \/ ApprovalStops(w) \/ ApprovalFails(w)
    BY <2>1, <2>3 DEF ApprovalLists, ApprovalStops, ApprovalFails
  <2> QED BY <2>2, <2>3
<1> QED BY <1>3, <1>4

\* A POST adds an item under the next number.
LEMMA PostStep ==
    ASSUME NEW w \in Approvers, TypeOK, ApprovalPosts(w)
    PROVE  \E p \in Playlists, uri \in Tracks, position \in Nat :
              /\ position \in 0 .. Len(playlists[p])
              /\ playlists' = [playlists EXCEPT ![p] =
                     InsertItem(@, position, [uri |-> uri, owner |-> Len(inserted) + 1])]
              /\ inserted' = Append(inserted, uri)
              /\ \E b \in {NoApproval} \cup [pc : {"inserted"}, uri : {uri}, playlist : Playlists,
                                             insertion : {Len(inserted) + 1}] :
                    approvals' = [approvals EXCEPT ![w] = b]
<1> DEFINE a == approvals[w]
<1>1. a \in ApprovalType /\ a.pc \in {"cleared", "abandoned"}
  BY DEF TypeOK, ApprovalPosts
<1>2. a.uri \in Tracks /\ a.playlist \in Playlists
  BY <1>1, ApprovalMoves
<1>3. PICK position \in LeastAhead .. Len(playlists[a.playlist]) :
         playlists' = [playlists EXCEPT ![a.playlist] =
             InsertItem(@, position, [uri |-> a.uri, owner |-> Len(inserted) + 1])]
  BY DEF ApprovalPosts
<1>4. position \in Nat /\ position \in 0 .. Len(playlists[a.playlist])
  BY <1>2, <1>3, PollerAssumption, LenProperties DEF TypeOK
<1>5. inserted' = Append(inserted, a.uri)
      /\ approvals' = [approvals EXCEPT ![w] =
             IF a.pc = "abandoned" THEN NoApproval
             ELSE [a EXCEPT !.pc = "inserted", !.insertion = Len(inserted) + 1]]
  BY DEF ApprovalPosts, TypeOK
<1>6. [a EXCEPT !.pc = "inserted", !.insertion = Len(inserted) + 1]
         \in [pc : {"inserted"}, uri : {a.uri}, playlist : Playlists,
              insertion : {Len(inserted) + 1}]
  BY <1>1, <1>2 DEF ApprovalType, NoApproval
<1> QED BY <1>2, <1>3, <1>4, <1>5, <1>6

LEMMA PostType ==
    ASSUME NEW w \in Approvers, TypeOK, ApprovalPosts(w)
    PROVE  TypeOK'
<1>1. PICK p \in Playlists, uri \in Tracks, position \in Nat :
         /\ position \in 0 .. Len(playlists[p])
         /\ playlists' = [playlists EXCEPT ![p] =
                InsertItem(@, position, [uri |-> uri, owner |-> Len(inserted) + 1])]
         /\ inserted' = Append(inserted, uri)
         /\ \E b \in {NoApproval} \cup [pc : {"inserted"}, uri : {uri}, playlist : Playlists,
                                        insertion : {Len(inserted) + 1}] :
               approvals' = [approvals EXCEPT ![w] = b]
  BY PostStep
<1>2. /\ UNCHANGED <<entries, config, tick, last_known, playing, repeat, upsets>>
      /\ doubled' \subseteq Tracks
  BY DEF ApprovalPosts, NoteDoubles, TypeOK
<1>3. /\ inserted' \in Seq(Tracks) /\ Len(inserted') = Len(inserted) + 1
      /\ Len(inserted) \in Nat
  BY <1>1, AppendProperties, LenProperties DEF TypeOK
<1>4. Insertions \subseteq Insertions' /\ Len(inserted) + 1 \in Insertions'
  BY <1>3 DEF Insertions
<1>5. entries' \in Seq(EntryType') /\ approvals' \in [Approvers -> ApprovalType']
  <2>1. EntryType \subseteq EntryType' /\ ApprovalType \subseteq ApprovalType'
    BY <1>4 DEF EntryType, ApprovalType
  <2>2. entries' \in Seq(EntryType')
    BY <1>2, <2>1, SeqMonotonic DEF TypeOK
  <2>3. PICK b \in {NoApproval} \cup [pc : {"inserted"}, uri : {uri}, playlist : Playlists,
                                       insertion : {Len(inserted) + 1}] :
           approvals' = [approvals EXCEPT ![w] = b]
    BY <1>1
  <2>4. b \in ApprovalType'
    BY <1>4, <2>3 DEF ApprovalType
  <2> QED BY <2>1, <2>2, <2>3, <2>4 DEF TypeOK
<1>6. playlists' \in [Playlists -> Seq(Items)]
  <2> DEFINE item == [uri |-> uri, owner |-> Len(inserted) + 1]
  <2>1. item \in Items
    <3>1. Len(inserted) + 1 \in Nat
      BY <1>3
    <3> QED BY <3>1 DEF Items, Owners
  <2>2. playlists' = [playlists EXCEPT ![p] = InsertItem(playlists[p], position, item)]
    BY <1>1
  <2> HIDE DEF item
  <2>3. InsertItem(playlists[p], position, item) \in Seq(Items)
    BY <1>1, <2>1, InsertItemPositions DEF TypeOK
  <2> QED BY <2>2, <2>3 DEF TypeOK
<1> QED BY <1>2, <1>3, <1>5, <1>6 DEF TypeOK

\* An entry is written for an insertion, and the approval is over.
LEMMA RecordStep ==
    ASSUME NEW w \in Approvers, TypeOK, ApprovalRecords(w)
    PROVE  /\ entries' \in Seq(EntryType)
           /\ DOMAIN entries' = DOMAIN entries \cup {Len(entries) + 1}
           /\ \A e \in DOMAIN entries : entries'[e] = entries[e]
           /\ entries'[Len(entries) + 1].uri = approvals[w].uri
           /\ entries'[Len(entries) + 1].ticket = approvals[w].insertion
           /\ ~entries'[Len(entries) + 1].removed
           /\ approvals[w].pc = "inserted"
           /\ approvals' = [approvals EXCEPT ![w] = NoApproval]
           /\ approvals' \in [Approvers -> ApprovalType]
<1>1. /\ approvals \in [Approvers -> ApprovalType] /\ entries \in Seq(EntryType)
      /\ approvals[w].pc = "inserted"
      /\ approvals' = [approvals EXCEPT ![w] = NoApproval]
  BY DEF TypeOK, ApprovalRecords
<1>2. /\ approvals[w].uri \in Tracks /\ approvals[w].insertion \in Insertions
      /\ approvals' \in [Approvers -> ApprovalType]
  BY <1>1, ApprovalMoves
<1>3. PICK n, uri : n = approvals[w].insertion /\ uri = approvals[w].uri
  OBVIOUS
<1> DEFINE new == CreateEntry(entries, uri, n, n)
<1>4. /\ new \in Seq(EntryType) /\ DOMAIN new = DOMAIN entries \cup {Len(entries) + 1}
      /\ \A e \in DOMAIN entries : new[e] = entries[e]
      /\ new[Len(entries) + 1] = NewEntry(uri, n, n)
  <2>1. n \in Insertions /\ uri \in Tracks /\ entries \in Seq(EntryType)
    BY <1>1, <1>2, <1>3
  <2> QED BY ONLY <2>1, CreatedEntry
<1>5. entries' = new
  BY <1>3 DEF ApprovalRecords
<1> HIDE DEF new
<1>6. /\ NewEntry(uri, n, n).uri = uri /\ NewEntry(uri, n, n).ticket = n
      /\ NewEntry(uri, n, n).removed = FALSE
  BY DEF NewEntry
<1> QED BY <1>1, <1>2, <1>3, <1>4, <1>5, <1>6

LEMMA StepTypeOK == TypeOK /\ [Next]_vars => TypeOK'
<1> SUFFICES ASSUME TypeOK, [Next]_vars PROVE TypeOK'
  OBVIOUS
<1>1. CASE TickStep \/ TickFails \/ RepeatRefused
  BY <1>1, TickStepType
<1>2. ASSUME UNCHANGED <<entries, tick, last_known>> PROVE TickTrue'
  BY <1>2 DEF TypeOK, TickTrue
<1>3. ASSUME NEW w \in Approvers, ApproverStep(w) PROVE TypeOK'
  <2>1. CASE ApprovalPosts(w)
    BY <2>1, PostType
  <2>2. CASE ApprovalRecords(w)
    <3>1. UNCHANGED <<config, tick, last_known, spotify, history, upsets>>
      BY <2>2 DEF ApprovalRecords
    <3>2. TickTrue'
      <4>1. /\ DOMAIN entries \subseteq DOMAIN entries'
            /\ \A e \in DOMAIN entries : entries'[e] = entries[e]
        BY <2>2, RecordStep
      <4> QED BY <3>1, <4>1 DEF TypeOK, TickTrue
    <3>3. Settled
      <4>1. /\ entries' \in Seq(EntryType)
            /\ approvals' \in [Approvers -> ApprovalType]
        BY <2>2, RecordStep
      <4> QED BY <3>1, <4>1 DEF TypeOK, Settled, spotify, history
    <3> QED BY <3>2, <3>3, SettledType
  <2>3. CASE \/ \E uri \in Requested : ApprovalStarts(w, uri)
             \/ ApprovalLists(w) \/ ApprovalStops(w) \/ ApprovalFails(w)
    <3>1. /\ approvals' \in [Approvers -> ApprovalType] /\ upsets' \in Nat
          /\ UNCHANGED <<entries, config, tick, last_known, spotify, history>>
      BY <2>3, ApprovalTurns
    <3>2. Settled
      BY <3>1 DEF TypeOK, Settled, spotify, history
    <3> QED BY <1>2, <3>1, <3>2, SettledType
  <2> QED BY <1>3, <2>1, <2>2, <2>3 DEF ApproverStep
<1>4. CASE Crash
  <2>1. approvals' \in [Approvers -> ApprovalType]
    BY <1>4, ApprovalMoves DEF Crash, TypeOK
  <2>2. Settled
    BY <1>4, <2>1 DEF Crash, TypeOK, Settled, spotify, history
  <2>3. TickTrue'
    BY <1>4, SleepingType DEF Crash, TickTrue
  <2> QED BY <2>2, <2>3, SettledType
<1>5. CASE UpdateConfig \/ ChangePlayback
  <2>1. Settled
    BY <1>5 DEF UpdateConfig, ChangePlayback, TypeOK, Settled, spotify, history
  <2>2. UNCHANGED <<entries, tick, last_known>>
    BY <1>5 DEF UpdateConfig, ChangePlayback
  <2> QED BY <1>2, <2>1, <2>2, SettledType
<1>6. ASSUME NEW p \in Playlists, EditPlaylist(p) PROVE TypeOK'
  <2>1. /\ UNCHANGED <<entries, config, tick, last_known, playing, repeat, approvals, inserted>>
        /\ upsets' = upsets + 1 /\ doubled' \subseteq Tracks
    BY <1>6 DEF EditPlaylist, NoteDoubles, TypeOK
  <2>2. playlists[p] \in Seq(Items)
    BY DEF TypeOK
  <2>3. ASSUME NEW position \in 0 .. Len(playlists[p]), NEW track \in Tracks
        PROVE  InsertItem(playlists[p], position, [uri |-> track, owner |-> 0]) \in Seq(Items)
    <3>1. [uri |-> track, owner |-> 0] \in Items
      BY DEF Items, Owners
    <3> QED BY <2>2, <3>1, InsertItemPositions
  <2>4. \A position \in 0 .. Len(playlists[p]) - 1 :
           DeleteItem(playlists[p], position) \in Seq(Items)
    BY <2>2, DeleteItemPositions
  <2>5. \A i \in DOMAIN playlists[p] :
           [playlists[p] EXCEPT ![i].uri = Unavailable] \in Seq(Items)
    BY <2>2, UnavailableItem
  <2>6. playlists' \in [Playlists -> Seq(Items)]
    BY <1>6, <2>3, <2>4, <2>5 DEF EditPlaylist, TypeOK
  <2>7. Settled
    BY <2>1, <2>6 DEF TypeOK, Settled
  <2> QED BY <1>2, <2>1, <2>7, SettledType
<1>7. CASE UNCHANGED vars
  <2>1. Settled /\ UNCHANGED <<entries, tick, last_known>>
    BY <1>7 DEF vars, spotify, history, TypeOK, Settled
  <2> QED BY <1>2, <2>1, SettledType
<1> QED BY <1>1, <1>3, <1>4, <1>5, <1>6, <1>7 DEF Next

\* The state keeps its shape, whatever falls between the awaits of a tick and of the
\* approvals: a tick past the now-playing answer has a playlist, an entry, and the
\* track that is over.
THEOREM TypeCorrect == Spec => []TypeOK
BY InitTypeOK, StepTypeOK, PTL DEF Spec

-----------------------------------------------------------------------------
(* What an item, an entry and an approval know of the insertions.          *)

TicketsTrue ==
    /\ \A e \in DOMAIN entries : entries[e].uri = inserted[entries[e].ticket]
    /\ \A w \in Approvers :
          approvals[w].pc = "inserted" => approvals[w].uri = inserted[approvals[w].insertion]
    /\ \A p \in Playlists : \A i \in DOMAIN playlists[p] :
          playlists[p][i].owner > 0 =>
             /\ playlists[p][i].owner \in Insertions
             /\ playlists[p][i].uri \in {inserted[playlists[p][i].owner], Unavailable}

\* A track that is not on record as doubled is in one place at most.
DoublesNoted == \A uri \in Tracks \ doubled : ~Twice(playlists, uri)

\* The entry a tick holds is played, and not removed before the tick does it.
HeldEntryPlayed ==
    tick.pc \in {"listing", "deleting", "deleted"} =>
        entries[tick.entry].played /\ ~entries[tick.entry].removed

\* Between the deletion and its record, the insertion of the entry is gone.
AboutToRecord ==
    tick.pc = "deleted" /\ last_known \notin doubled => ~InPlaylist(entries[tick.entry].ticket)

IInv == /\ TypeOK
        /\ TicketsTrue
        /\ DoublesNoted
        /\ HeldEntryPlayed
        /\ AboutToRecord
        /\ RemovedMeansGone

\* The ticket of an entry is one that was issued.
LEMMA EntryTickets ==
    ASSUME TypeOK, NEW e \in DOMAIN entries
    PROVE  entries[e].ticket \in Insertions /\ entries[e].uri \in Tracks
<1>1. entries[e] \in EntryType
  BY ElementOfSeq, LenProperties DEF TypeOK
<1> QED BY <1>1 DEF EntryType

\* What was inserted, and what was doubled, stays on record.
LEMMA HistoryKeeps ==
    ASSUME TypeOK, [Next]_vars
    PROVE  /\ Insertions \subseteq Insertions' /\ doubled \subseteq doubled'
           /\ \A n \in Insertions : inserted'[n] = inserted[n]
<1>1. ASSUME NEW w \in Approvers, ApprovalPosts(w)
      PROVE  /\ Insertions \subseteq Insertions' /\ doubled \subseteq doubled'
             /\ \A n \in Insertions : inserted'[n] = inserted[n]
  <2>1. PICK uri \in Tracks : inserted' = Append(inserted, uri)
    BY <1>1, PostStep
  <2>2. /\ Len(inserted') = Len(inserted) + 1 /\ Len(inserted) \in Nat
        /\ \A n \in 1 .. Len(inserted) : inserted'[n] = inserted[n]
    BY <2>1, AppendProperties, LenProperties DEF TypeOK
  <2> QED BY <1>1, <2>2 DEF Insertions, ApprovalPosts, NoteDoubles
<1>2. ASSUME NEW p \in Playlists, EditPlaylist(p)
      PROVE  UNCHANGED inserted /\ doubled \subseteq doubled'
  BY <1>2 DEF EditPlaylist, NoteDoubles
<1>3. ASSUME ~\E w \in Approvers : ApprovalPosts(w), ~\E p \in Playlists : EditPlaylist(p)
      PROVE  UNCHANGED <<inserted, doubled>>
  BY <1>3 DEF Next, TickStep, StartTick, SetRepeat, RepeatRefused, ReadNowPlaying, ListPlaylist,
              SpotifyDelete, RecordRemoval, TickFails, Crash, ApproverStep, ApprovalStarts,
              ApprovalLists, ApprovalRecords, ApprovalStops, ApprovalFails, UpdateConfig,
              ChangePlayback, vars, history
<1> QED BY <1>1, <1>2, <1>3 DEF Insertions

\* An approval that has inserted and not recorded has just done so, or stands as it did.
LEMMA ApprovalsChange ==
    ASSUME TypeOK, [Next]_vars, NEW w \in Approvers, approvals'[w].pc = "inserted"
    PROVE  \/ approvals'[w] = approvals[w]
           \/ /\ inserted' = Append(inserted, approvals'[w].uri)
              /\ approvals'[w].insertion = Len(inserted) + 1
<1>1. approvals \in [Approvers -> ApprovalType] /\ NoApproval.pc # "inserted"
  BY DEF TypeOK, NoApproval
<1>2. ASSUME NEW v \in Approvers, ApproverStep(v)
      PROVE  \/ approvals'[w] = approvals[w]
             \/ /\ inserted' = Append(inserted, approvals'[w].uri)
                /\ approvals'[w].insertion = Len(inserted) + 1
  <2>1. CASE ApprovalPosts(v)
    <3>1. PICK uri \in Tracks :
             /\ inserted' = Append(inserted, uri)
             /\ \E b \in {NoApproval} \cup [pc : {"inserted"}, uri : {uri}, playlist : Playlists,
                                            insertion : {Len(inserted) + 1}] :
                   approvals' = [approvals EXCEPT ![v] = b]
      BY <2>1, PostStep
    <3> QED BY <1>1, <3>1
  <2>2. CASE ApprovalRecords(v)
    BY <1>1, <2>2, RecordStep
  <2>3. CASE \/ \E uri \in Requested : ApprovalStarts(v, uri)
             \/ ApprovalLists(v) \/ ApprovalStops(v) \/ ApprovalFails(v)
    <3>1. \A u \in Approvers : approvals'[u].pc = "inserted" => approvals'[u] = approvals[u]
      BY <2>3, ApprovalTurns
    <3> QED BY <3>1
  <2> QED BY <1>2, <2>1, <2>2, <2>3 DEF ApproverStep
<1>3. CASE Crash
  <2>1. approvals'[w] = GivenUp(approvals[w]) /\ approvals[w] \in ApprovalType
    BY <1>1, <1>3 DEF Crash
  <2> QED BY <2>1, ApprovalMoves
<1>4. ASSUME ~\E v \in Approvers : ApproverStep(v), ~Crash PROVE UNCHANGED approvals
  BY <1>4 DEF Next, TickStep, StartTick, SetRepeat, RepeatRefused, ReadNowPlaying, ListPlaylist,
              SpotifyDelete, RecordRemoval, TickFails, UpdateConfig, ChangePlayback,
              EditPlaylist, vars
<1> QED BY <1>2, <1>3, <1>4

\* The entries keep their track and their ticket, and what is played stays so; an
\* entry is marked removed by the tick that holds it, and written by an approval.
LEMMA EntriesChange ==
    ASSUME TypeOK, [Next]_vars
    PROVE  /\ \A e \in DOMAIN entries :
                 /\ e \in DOMAIN entries'
                 /\ entries'[e].uri = entries[e].uri /\ entries'[e].ticket = entries[e].ticket
                 /\ entries[e].played => entries'[e].played
                 /\ \/ entries'[e].removed = entries[e].removed
                    \/ tick.pc = "deleted" /\ e = tick.entry /\ tick'.pc = "sleeping"
           /\ \A e \in DOMAIN entries' \ DOMAIN entries :
                 /\ ~entries'[e].removed
                 /\ \E w \in Approvers : /\ approvals[w].pc = "inserted"
                                         /\ entries'[e].uri = approvals[w].uri
                                         /\ entries'[e].ticket = approvals[w].insertion
<1> DEFINE Kept == /\ DOMAIN entries' = DOMAIN entries
                   /\ \A e \in DOMAIN entries :
                         /\ entries'[e].uri = entries[e].uri
                         /\ entries'[e].ticket = entries[e].ticket
                         /\ entries[e].played => entries'[e].played
                         /\ \/ entries'[e].removed = entries[e].removed
                            \/ tick.pc = "deleted" /\ e = tick.entry /\ tick'.pc = "sleeping"
<1>1. entries \in Seq(EntryType)
  BY DEF TypeOK
<1>2. CASE ReadNowPlaying
  <2>1. CASE UNCHANGED entries
    BY <2>1
  <2>2. CASE \E entry \in DOMAIN entries : entries' = MarkPlayed(entries, entry)
    <3>1. PICK entry \in DOMAIN entries : entries' = MarkPlayed(entries, entry)
      BY <2>2
    <3>2. /\ DOMAIN MarkPlayed(entries, entry) = DOMAIN entries
          /\ \A e \in DOMAIN entries :
                /\ entries[e].played => MarkPlayed(entries, entry)[e].played
                /\ MarkPlayed(entries, entry)[e].uri = entries[e].uri
                /\ MarkPlayed(entries, entry)[e].ticket = entries[e].ticket
                /\ MarkPlayed(entries, entry)[e].removed = entries[e].removed
      BY ONLY <1>1, <3>1, MarkedEntries
    <3> QED BY ONLY <3>1, <3>2
  <2> QED BY <1>2, <2>1, <2>2 DEF ReadNowPlaying
<1>3. CASE RecordRemoval
  <2>1. /\ entries' = MarkRemoved(entries, tick.entry) /\ tick.pc = "deleted"
        /\ tick.entry \in DOMAIN entries /\ tick'.pc = "sleeping"
    BY <1>3, SleepingType DEF RecordRemoval, TypeOK, FinishTick
  <2>2. Kept
    BY <1>1, <2>1, MarkedEntries
  <2> QED BY <2>2
<1>4. ASSUME NEW w \in Approvers, ApprovalRecords(w)
      PROVE  /\ DOMAIN entries' = DOMAIN entries \cup {Len(entries) + 1}
             /\ \A e \in DOMAIN entries : entries'[e] = entries[e]
             /\ ~entries'[Len(entries) + 1].removed /\ approvals[w].pc = "inserted"
             /\ entries'[Len(entries) + 1].uri = approvals[w].uri
             /\ entries'[Len(entries) + 1].ticket = approvals[w].insertion
  BY <1>4, RecordStep
<1>5. ASSUME ~ReadNowPlaying, ~RecordRemoval, ~\E w \in Approvers : ApprovalRecords(w)
      PROVE  UNCHANGED entries
  BY <1>5 DEF Next, TickStep, StartTick, SetRepeat, RepeatRefused, ListPlaylist, SpotifyDelete,
              TickFails, Crash, ApproverStep, ApprovalStarts, ApprovalLists, ApprovalPosts,
              ApprovalStops, ApprovalFails, UpdateConfig, ChangePlayback, EditPlaylist, vars
<1> QED BY <1>2, <1>3, <1>4, <1>5

\* An item of a playlist after a step is an item from before, perhaps without its
\* track, the item of a new insertion, or one the venue put there.
LEMMA ItemOrigin ==
    ASSUME TypeOK, [Next]_vars, NEW p \in Playlists, NEW i \in DOMAIN playlists'[p]
    PROVE  \/ \E k \in DOMAIN playlists[p] :
                 /\ playlists'[p][i].owner = playlists[p][k].owner
                 /\ playlists'[p][i].uri \in {playlists[p][k].uri, Unavailable}
           \/ \E uri \in Tracks : /\ inserted' = Append(inserted, uri)
                                  /\ playlists'[p][i] = [uri |-> uri, owner |-> Len(inserted) + 1]
           \/ playlists'[p][i].owner = 0
<1> DEFINE Old == \E k \in DOMAIN playlists[p] :
                      /\ playlists'[p][i].owner = playlists[p][k].owner
                      /\ playlists'[p][i].uri \in {playlists[p][k].uri, Unavailable}
<1>1. /\ playlists[p] \in Seq(Items) /\ playlists \in [Playlists -> Seq(Items)]
      /\ Len(inserted) \in Nat
  BY LenProperties DEF TypeOK
<1>2. ASSUME NEW q \in Playlists, NEW item \in Items, NEW position \in 0 .. Len(playlists[q]),
             playlists' = [playlists EXCEPT ![q] = InsertItem(@, position, item)]
      PROVE  Old \/ playlists'[p][i] = item
  <2>1. CASE p # q
    BY <1>1, <1>2, <2>1
  <2>2. CASE p = q
    <3>1. playlists'[p] = InsertItem(playlists[p], position, item)
      BY <1>1, <1>2, <2>2
    <3> QED BY <1>1, <2>2, <3>1, InsertItemOrigin
  <2> QED BY <2>1, <2>2
<1>3. ASSUME NEW q \in Playlists, NEW position \in 0 .. Len(playlists[q]) - 1,
             playlists' = [playlists EXCEPT ![q] = DeleteItem(@, position)]
      PROVE  Old
  <2>1. CASE p # q
    BY <1>1, <1>3, <2>1
  <2>2. CASE p = q
    <3>1. playlists'[p] = DeleteItem(playlists[p], position)
      BY <1>1, <1>3, <2>2
    <3> QED BY <1>1, <2>2, <3>1, DeleteItemOrigin
  <2> QED BY <2>1, <2>2
<1>4. ASSUME NEW q \in Playlists, NEW j \in DOMAIN playlists[q],
             playlists' = [playlists EXCEPT ![q][j].uri = Unavailable]
      PROVE  Old
  <2>1. CASE p # q
    BY <1>1, <1>4, <2>1
  <2>2. CASE p = q
    <3>1. playlists'[p] = [playlists[p] EXCEPT ![j].uri = Unavailable]
      BY <1>1, <1>4, <2>2
    <3>2. /\ DOMAIN playlists'[p] = DOMAIN playlists[p]
          /\ playlists'[p][j].uri = Unavailable /\ playlists'[p][j].owner = playlists[p][j].owner
          /\ \A k \in DOMAIN playlists[p] : k # j => playlists'[p][k] = playlists[p][k]
      BY <1>1, <2>2, <3>1, UnavailableItem
    <3> QED BY <2>2, <3>2
  <2> QED BY <2>1, <2>2
<1>5. ASSUME NEW w \in Approvers, ApprovalPosts(w)
      PROVE  \/ Old
             \/ \E uri \in Tracks :
                   /\ inserted' = Append(inserted, uri)
                   /\ playlists'[p][i] = [uri |-> uri, owner |-> Len(inserted) + 1]
  <2>1. PICK q \in Playlists, uri \in Tracks, position \in Nat :
           /\ position \in 0 .. Len(playlists[q])
           /\ playlists' = [playlists EXCEPT ![q] =
                  InsertItem(@, position, [uri |-> uri, owner |-> Len(inserted) + 1])]
           /\ inserted' = Append(inserted, uri)
    BY <1>5, PostStep
  <2>2. [uri |-> uri, owner |-> Len(inserted) + 1] \in Items
    BY <1>1 DEF Items, Owners
  <2> QED BY <1>2, <2>1, <2>2
<1>6. ASSUME NEW q \in Playlists, EditPlaylist(q)
      PROVE  Old \/ playlists'[p][i].owner = 0
  <2>1. ASSUME NEW track \in Tracks, NEW position \in 0 .. Len(playlists[q]),
               playlists' = [playlists EXCEPT ![q] =
                                InsertItem(@, position, [uri |-> track, owner |-> 0])]
        PROVE  Old \/ playlists'[p][i].owner = 0
    <3>1. [uri |-> track, owner |-> 0] \in Items
      BY DEF Items, Owners
    <3>2. Old \/ playlists'[p][i] = [uri |-> track, owner |-> 0]
      BY <1>2, <2>1, <3>1
    <3> QED BY <3>2
  <2> QED BY <1>3, <1>4, <1>6, <2>1 DEF EditPlaylist
<1>7. CASE SpotifyDelete
  <2>1. /\ tick.playlist \in Playlists /\ tick.position \in Int
        /\ playlists[tick.playlist] \in Seq(Items)
    BY <1>7 DEF SpotifyDelete, TypeOK, TickType
  <2>2. CASE CanDeleteAt(playlists[tick.playlist], tick.position, last_known)
    <3>1. tick.position \in 0 .. Len(playlists[tick.playlist]) - 1
      BY <2>1, <2>2, DeletionInside
    <3> QED BY <1>3, <1>7, <2>1, <2>2, <3>1 DEF SpotifyDelete
  <2>3. CASE ~CanDeleteAt(playlists[tick.playlist], tick.position, last_known)
    BY <1>7, <2>3 DEF SpotifyDelete
  <2> QED BY <2>2, <2>3
<1>8. ASSUME ~\E w \in Approvers : ApprovalPosts(w), ~\E q \in Playlists : EditPlaylist(q),
             ~SpotifyDelete
      PROVE  UNCHANGED playlists
  BY <1>8 DEF Next, TickStep, StartTick, SetRepeat, RepeatRefused, ReadNowPlaying, ListPlaylist,
              RecordRemoval, TickFails, Crash, ApproverStep, ApprovalStarts, ApprovalLists,
              ApprovalRecords, ApprovalStops, ApprovalFails, UpdateConfig, ChangePlayback, vars,
              spotify
<1>9. CASE UNCHANGED playlists
  BY <1>9
<1> QED BY <1>5, <1>6, <1>7, <1>8, <1>9

\* An insertion that is in no playlist any more does not come back.
LEMMA NothingReturns ==
    ASSUME TypeOK, [Next]_vars, NEW n \in Insertions, ~InPlaylist(n)
    PROVE  ~InPlaylist(n)'
<1> SUFFICES ASSUME NEW p \in Playlists, NEW i \in DOMAIN playlists'[p],
                    playlists'[p][i].owner = n, playlists'[p][i].uri # Unavailable
             PROVE  FALSE
  BY DEF InPlaylist
<1>1. Len(inserted) \in Nat /\ n # 0 /\ n # Len(inserted) + 1
  BY LenProperties DEF TypeOK, Insertions
<1>2. \A k \in DOMAIN playlists[p] :
         ~(/\ playlists'[p][i].owner = playlists[p][k].owner
           /\ playlists'[p][i].uri \in {playlists[p][k].uri, Unavailable})
  BY DEF InPlaylist
<1>3. \A uri \in Tracks : playlists'[p][i] # [uri |-> uri, owner |-> Len(inserted) + 1]
  BY <1>1
<1> QED BY <1>1, <1>2, <1>3, ItemOrigin

\* A deletion that Spotify accepted, with the entry the tick holds.
DeletionMade ==
    /\ tick.pc = "deleting" /\ tick'.pc = "deleted" /\ tick'.entry = tick.entry
    /\ CanDeleteAt(playlists[tick.playlist], tick.position, last_known)
    /\ playlists' = [playlists EXCEPT ![tick.playlist] =
                        DeleteItem(playlists[tick.playlist], tick.position)]
    /\ UNCHANGED <<entries, last_known, inserted, doubled>>

\* What Spotify does with a DELETE.
LEMMA DeleteStep ==
    ASSUME TypeOK, SpotifyDelete
    PROVE  DeletionMade \/ (tick'.pc = "sleeping" /\ UNCHANGED playlists)
<1>1. tick \in TickType
  BY DEF TypeOK
<1>2. CASE CanDeleteAt(playlists[tick.playlist], tick.position, last_known)
  <2>1. tick' = [tick EXCEPT !.pc = "deleted"]
    BY <1>2 DEF SpotifyDelete
  <2>2. tick'.pc = "deleted" /\ tick'.entry = tick.entry
    BY <1>1, <2>1 DEF TickType
  <2> QED BY <1>2, <2>2 DEF SpotifyDelete, DeletionMade, history
<1>3. CASE ~CanDeleteAt(playlists[tick.playlist], tick.position, last_known)
  BY <1>3, SleepingType DEF SpotifyDelete
<1> QED BY <1>2, <1>3

\* How a tick comes to hold an entry, and what it does with it.
LEMMA TickChange ==
    ASSUME TypeOK, [Next]_vars
    PROVE  \/ UNCHANGED <<tick, last_known>>
           \/ tick'.pc \notin {"listing", "deleting", "deleted"}
           \/ /\ tick'.pc = "listing" /\ tick'.entry \in DOMAIN entries
              /\ IsActiveEntryFor(entries, last_known, tick'.entry)
              /\ entries' = MarkPlayed(entries, tick'.entry)
           \/ /\ tick.pc = "listing" /\ tick'.pc = "deleting" /\ tick'.entry = tick.entry
              /\ UNCHANGED entries
           \/ DeletionMade
<1>1. tick \in TickType /\ Sleeping.pc = "sleeping"
  BY DEF TypeOK, Sleeping
<1>2. CASE StartTick
  <2>1. tick' = [pc |-> "repeating", playlist |-> config.playlist, repeat |-> config.repeat,
                 current |-> NoTrack, entry |-> 0, position |-> 0]
    BY <1>2 DEF StartTick, Sleeping
  <2> QED BY <2>1
<1>3. CASE SetRepeat \/ RepeatRefused
  BY <1>1, <1>3 DEF SetRepeat, RepeatRefused, TickType
<1>4. CASE ReadNowPlaying
  <2>1. CASE tick' = Sleeping
    BY <1>1, <2>1
  <2>2. CASE tick' # Sleeping
    <3>1. PICK entry \in DOMAIN entries :
             /\ IsActiveEntryFor(entries, last_known, entry)
             /\ entries' = MarkPlayed(entries, entry)
             /\ tick' = [tick EXCEPT !.pc = "listing", !.current = playing, !.entry = entry]
      BY <1>4, <2>2 DEF ReadNowPlaying, FinishTick
    <3>2. tick'.pc = "listing" /\ tick'.entry = entry
      BY <1>1, <3>1 DEF TickType
    <3> QED BY <3>1, <3>2
  <2> QED BY <2>1, <2>2
<1>5. CASE ListPlaylist
  <2>1. CASE tick' = Sleeping
    BY <1>1, <2>1
  <2>2. CASE tick' # Sleeping
    <3>1. tick' = [tick EXCEPT !.pc = "deleting",
                          !.position = ListingIndex(playlists[tick.playlist], last_known)]
      BY <1>5, <2>2 DEF ListPlaylist, FinishTick
    <3>2. tick'.pc = "deleting" /\ tick'.entry = tick.entry
      BY <1>1, <3>1 DEF TickType
    <3> QED BY <1>5, <3>2 DEF ListPlaylist
  <2> QED BY <2>1, <2>2
<1>6. CASE SpotifyDelete
  BY <1>6, DeleteStep
<1>7. CASE RecordRemoval \/ TickFails \/ Crash
  BY <1>1, <1>7 DEF RecordRemoval, FinishTick, TickFails, Crash
<1>8. ASSUME NEW w \in Approvers, ApproverStep(w)
      PROVE  UNCHANGED <<tick, last_known>>
  BY <1>8 DEF ApproverStep, ApprovalStarts, ApprovalLists, ApprovalPosts, ApprovalRecords,
              ApprovalStops, ApprovalFails
<1>9. CASE UpdateConfig \/ ChangePlayback \/ UNCHANGED vars
           \/ \E p \in Playlists : EditPlaylist(p)
  BY <1>9 DEF UpdateConfig, ChangePlayback, EditPlaylist, vars
<1> QED BY <1>2, <1>3, <1>4, <1>5, <1>6, <1>7, <1>8, <1>9 DEF Next, TickStep

-----------------------------------------------------------------------------
(* The steps.                                                              *)

LEMMA StepTicketsTrue == TypeOK /\ TicketsTrue /\ [Next]_vars => TicketsTrue'
<1> SUFFICES ASSUME TypeOK, TicketsTrue, [Next]_vars PROVE TicketsTrue'
  OBVIOUS
<1>1. /\ Insertions \subseteq Insertions' /\ inserted \in Seq(Tracks) /\ Len(inserted) \in Nat
      /\ \A n \in Insertions : inserted'[n] = inserted[n]
  BY HistoryKeeps, LenProperties DEF TypeOK
<1>2. ASSUME NEW uri \in Tracks, inserted' = Append(inserted, uri)
      PROVE  inserted'[Len(inserted) + 1] = uri /\ Len(inserted) + 1 \in Insertions'
  BY <1>1, <1>2, AppendProperties DEF Insertions
<1>3. ASSUME NEW w \in Approvers, approvals[w].pc = "inserted"
      PROVE  /\ approvals[w].insertion \in Insertions
             /\ approvals[w].uri = inserted'[approvals[w].insertion]
  <2>1. approvals[w] \in ApprovalType
    BY DEF TypeOK
  <2>2. approvals[w].insertion \in Insertions
    BY <1>3, <2>1, ApprovalMoves
  <2> QED BY <1>1, <1>3, <2>2 DEF TicketsTrue
<1>4. ASSUME NEW e \in DOMAIN entries'
      PROVE  entries'[e].uri = inserted'[entries'[e].ticket]
  <2>1. CASE e \in DOMAIN entries
    <3>1. entries[e].ticket \in Insertions
      BY <2>1, EntryTickets
    <3>2. entries'[e].uri = entries[e].uri /\ entries'[e].ticket = entries[e].ticket
      BY <2>1, EntriesChange
    <3> QED BY <1>1, <2>1, <3>1, <3>2 DEF TicketsTrue
  <2>2. CASE e \notin DOMAIN entries
    <3>1. PICK w \in Approvers : /\ approvals[w].pc = "inserted"
                                 /\ entries'[e].uri = approvals[w].uri
                                 /\ entries'[e].ticket = approvals[w].insertion
      BY <1>4, <2>2, EntriesChange
    <3> QED BY <1>3, <3>1
  <2> QED BY <2>1, <2>2
<1>5. ASSUME NEW w \in Approvers, approvals'[w].pc = "inserted"
      PROVE  approvals'[w].uri = inserted'[approvals'[w].insertion]
  <2>1. CASE approvals'[w] = approvals[w]
    BY <1>3, <1>5, <2>1
  <2>2. CASE /\ inserted' = Append(inserted, approvals'[w].uri)
             /\ approvals'[w].insertion = Len(inserted) + 1
    <3>1. approvals'[w] \in ApprovalType'
      BY StepTypeOK DEF TypeOK
    <3>2. approvals'[w].uri \in Tracks
      BY <1>5, <3>1 DEF ApprovalType, NoApproval
    <3> QED BY <1>2, <2>2, <3>2
  <2> QED BY <1>5, <2>1, <2>2, ApprovalsChange
<1>6. ASSUME NEW p \in Playlists, NEW i \in DOMAIN playlists'[p], playlists'[p][i].owner > 0
      PROVE  /\ playlists'[p][i].owner \in Insertions'
             /\ playlists'[p][i].uri \in {inserted'[playlists'[p][i].owner], Unavailable}
  <2>1. ASSUME NEW k \in DOMAIN playlists[p],
               playlists'[p][i].owner = playlists[p][k].owner,
               playlists'[p][i].uri \in {playlists[p][k].uri, Unavailable}
        PROVE  /\ playlists'[p][i].owner \in Insertions'
               /\ playlists'[p][i].uri \in {inserted'[playlists'[p][i].owner], Unavailable}
    <3>1. /\ playlists[p][k].owner \in Insertions
          /\ playlists[p][k].uri \in {inserted[playlists[p][k].owner], Unavailable}
      BY <1>6, <2>1 DEF TicketsTrue
    <3> QED BY <1>1, <2>1, <3>1
  <2>2. ASSUME NEW uri \in Tracks, inserted' = Append(inserted, uri),
               playlists'[p][i] = [uri |-> uri, owner |-> Len(inserted) + 1]
        PROVE  /\ playlists'[p][i].owner \in Insertions'
               /\ playlists'[p][i].uri \in {inserted'[playlists'[p][i].owner], Unavailable}
    BY <1>2, <2>2
  <2>3. playlists'[p][i].owner # 0
    BY <1>6
  <2> QED BY <2>1, <2>2, <2>3, ItemOrigin
<1> QED BY <1>4, <1>5, <1>6 DEF TicketsTrue

\* What is left after a deletion was there before, in another place than the item that
\* is gone, and in places of its own.
LEMMA LeftOver ==
    ASSUME NEW items \in Seq(Items), NEW position \in 0 .. Len(items) - 1
    PROVE  \A i, j \in DOMAIN DeleteItem(items, position) :
              \E k, l \in DOMAIN items :
                 /\ k # position + 1 /\ l # position + 1 /\ (i # j => k # l)
                 /\ DeleteItem(items, position)[i] = items[k]
                 /\ DeleteItem(items, position)[j] = items[l]
<1> DEFINE new == DeleteItem(items, position)
           Origin(i) == IF i > position THEN i + 1 ELSE i
<1>1. Len(items) \in Nat /\ DOMAIN new \subseteq Nat
  BY DeleteItemPositions, LenProperties
<1>2. \A i \in DOMAIN new : Origin(i) \in DOMAIN items /\ new[i] = items[Origin(i)]
  BY <1>1, DeleteItemOrigin
<1>3. \A i, j \in DOMAIN new : /\ Origin(i) # position + 1
                               /\ i # j => Origin(i) # Origin(j)
  BY <1>1
<1> QED BY <1>2, <1>3

\* A deletion doubles nothing.
LEMMA DeletionDoublesNothing ==
    ASSUME TypeOK, DeletionMade, NEW uri, Twice(playlists', uri)
    PROVE  Twice(playlists, uri)
<1> DEFINE r == tick.playlist
<1>1. /\ r \in Playlists /\ playlists[r] \in Seq(Items) /\ playlists \in [Playlists -> Seq(Items)]
      /\ tick.position \in Int
  BY DEF TypeOK, TickType, DeletionMade
<1>2. tick.position \in 0 .. Len(playlists[r]) - 1
  BY <1>1, DeletionInside DEF DeletionMade
<1>3. /\ playlists'[r] = DeleteItem(playlists[r], tick.position)
      /\ \A p \in Playlists : p # r => playlists'[p] = playlists[p]
  BY <1>1 DEF DeletionMade
<1>p. PICK p \in Playlists, q \in Playlists :
         \E i \in DOMAIN playlists'[p], j \in DOMAIN playlists'[q] :
            <<p, i>> # <<q, j>> /\ playlists'[p][i].uri = uri /\ playlists'[q][j].uri = uri
  BY DEF Twice
<1>4. PICK i \in DOMAIN playlists'[p], j \in DOMAIN playlists'[q] :
         <<p, i>> # <<q, j>> /\ playlists'[p][i].uri = uri /\ playlists'[q][j].uri = uri
  BY <1>p
<1>5. \A m, n \in DOMAIN playlists'[r] :
         \E k, l \in DOMAIN playlists[r] : /\ m # n => k # l
                                           /\ playlists'[r][m] = playlists[r][k]
                                           /\ playlists'[r][n] = playlists[r][l]
  <2>1. PICK items, position : items = playlists[r] /\ position = tick.position
    OBVIOUS
  <2>2. items \in Seq(Items) /\ position \in 0 .. Len(items) - 1
    BY <1>1, <1>2, <2>1
  <2>3. \A m, n \in DOMAIN DeleteItem(items, position) :
           \E k, l \in DOMAIN items : /\ m # n => k # l
                                      /\ DeleteItem(items, position)[m] = items[k]
                                      /\ DeleteItem(items, position)[n] = items[l]
    BY ONLY <2>2, LeftOver
  <2> QED BY ONLY <1>3, <2>1, <2>3
<1>6. CASE p = q
  <2>1. i # j
    BY <1>4, <1>6
  <2>2. \E k, l \in DOMAIN playlists[p] :
           k # l /\ playlists[p][k].uri = uri /\ playlists[p][l].uri = uri
    BY <1>3, <1>4, <1>5, <1>6, <2>1
  <2> QED BY <2>2 DEF Twice
<1>7. CASE p # q
  <2>1. \A o \in Playlists : \A m \in DOMAIN playlists'[o] :
           \E k \in DOMAIN playlists[o] : playlists'[o][m] = playlists[o][k]
    BY <1>3, <1>5
  <2>2. \E k \in DOMAIN playlists[p], l \in DOMAIN playlists[q] :
           playlists[p][k].uri = uri /\ playlists[q][l].uri = uri
    BY <1>4, <2>1
  <2> QED BY <1>7, <2>2 DEF Twice
<1> QED BY <1>6, <1>7

\* Only the deletion lets the playlists change without a new note of what is doubled.
LEMMA StepDoublesNoted == TypeOK /\ DoublesNoted /\ [Next]_vars => DoublesNoted'
<1> SUFFICES ASSUME TypeOK, DoublesNoted, [Next]_vars,
                    NEW uri \in Tracks, uri \notin doubled', Twice(playlists', uri)
             PROVE  FALSE
  BY DEF DoublesNoted, Twice
<1>1. uri \notin doubled /\ ~Twice(playlists, uri)
  BY HistoryKeeps DEF DoublesNoted
<1>2. CASE NoteDoubles
  BY <1>2 DEF NoteDoubles
<1>3. CASE UNCHANGED playlists
  BY <1>1, <1>3
<1>4. CASE DeletionMade
  BY <1>1, <1>4, DeletionDoublesNothing
<1>5. CASE ~NoteDoubles
  <2>1. CASE SpotifyDelete
    BY <1>3, <1>4, <2>1, DeleteStep
  <2>2. CASE ~SpotifyDelete
    <3>1. /\ ~\E w \in Approvers : ApprovalPosts(w)
          /\ ~\E p \in Playlists : EditPlaylist(p)
      BY <1>5 DEF ApprovalPosts, EditPlaylist
    <3>2. UNCHANGED playlists
      BY <2>2, <3>1 DEF Next, TickStep, StartTick, SetRepeat, RepeatRefused, ReadNowPlaying,
                        ListPlaylist, RecordRemoval, TickFails, Crash, ApproverStep,
                        ApprovalStarts, ApprovalLists, ApprovalRecords, ApprovalStops,
                        ApprovalFails, UpdateConfig, ChangePlayback, vars, spotify
    <3> QED BY <1>3, <3>2
  <2> QED BY <2>1, <2>2
<1> QED BY <1>2, <1>5

LEMMA StepHeldEntryPlayed ==
    TypeOK /\ HeldEntryPlayed /\ [Next]_vars => HeldEntryPlayed'
<1> SUFFICES ASSUME TypeOK, HeldEntryPlayed, [Next]_vars,
                    tick'.pc \in {"listing", "deleting", "deleted"}
             PROVE  entries'[tick'.entry].played /\ ~entries'[tick'.entry].removed
  BY DEF HeldEntryPlayed
<1>1. ASSUME tick'.pc # "sleeping", NEW e \in DOMAIN entries,
             entries[e].played, ~entries[e].removed
      PROVE  entries'[e].played /\ ~entries'[e].removed
  BY <1>1, EntriesChange
<1>2. ASSUME tick.pc \in {"listing", "deleting", "deleted"}, tick'.entry = tick.entry
      PROVE  entries'[tick'.entry].played /\ ~entries'[tick'.entry].removed
  <2>1. /\ tick.entry \in DOMAIN entries
        /\ entries[tick.entry].played /\ ~entries[tick.entry].removed
    BY <1>2 DEF TypeOK, HeldEntryPlayed
  <2> QED BY <1>1, <1>2, <2>1
<1>3. CASE UNCHANGED <<tick, last_known>>
  BY <1>2, <1>3
<1>4. CASE /\ tick'.pc = "listing" /\ tick'.entry \in DOMAIN entries
           /\ IsActiveEntryFor(entries, last_known, tick'.entry)
           /\ entries' = MarkPlayed(entries, tick'.entry)
  <2>1. PICK e \in DOMAIN entries : e = tick'.entry
    BY <1>4
  <2>2. ~entries[e].removed
    BY <1>4, <2>1 DEF IsActiveEntryFor, ActiveEntriesFor
  <2>3. entries \in Seq(EntryType)
    BY DEF TypeOK
  <2>4. MarkPlayed(entries, e)[e].played /\ MarkPlayed(entries, e)[e].removed = entries[e].removed
    BY ONLY <2>1, <2>3, MarkedEntries
  <2>5. entries' = MarkPlayed(entries, e)
    BY <1>4, <2>1
  <2> QED BY ONLY <2>1, <2>2, <2>4, <2>5
<1>5. CASE /\ tick.pc = "listing" /\ tick'.pc = "deleting" /\ tick'.entry = tick.entry
           /\ UNCHANGED entries
  BY <1>2, <1>5
<1>6. CASE DeletionMade
  BY <1>2, <1>6 DEF DeletionMade
<1> QED BY <1>3, <1>4, <1>5, <1>6, TickChange

\* A deletion takes the insertion of the entry that the tick holds, if its track was in
\* one place only.
LEMMA DeletesInsertion ==
    ASSUME TypeOK, TicketsTrue, DoublesNoted, DeletionMade, last_known \notin doubled
    PROVE  ~InPlaylist(entries[tick.entry].ticket)'
<1> DEFINE r == tick.playlist
<1>1. /\ r \in Playlists /\ playlists \in [Playlists -> Seq(Items)] /\ tick.position \in Int
      /\ tick.entry \in DOMAIN entries /\ entries[tick.entry].uri = last_known
  BY DEF TypeOK, TickType, DeletionMade
<1>2. PICK n : n = entries[tick.entry].ticket
  OBVIOUS
<1>3. n \in Insertions /\ inserted[n] = last_known /\ last_known \in Tracks
  BY <1>1, <1>2, EntryTickets DEF TicketsTrue
<1>4. ~Twice(playlists, last_known)
  BY <1>3 DEF DoublesNoted
<1>5. PICK items, position : items = playlists[r] /\ position = tick.position
  OBVIOUS
<1>6. /\ items \in Seq(Items) /\ position \in 0 .. Len(items) - 1
      /\ position + 1 \in DOMAIN items /\ items[position + 1].uri = last_known
  BY <1>1, <1>5, DeletionInside DEF DeletionMade
<1>7. /\ playlists'[r] = DeleteItem(items, position)
      /\ \A p \in Playlists : p # r => playlists'[p] = playlists[p]
  BY <1>1, <1>5 DEF DeletionMade
<1>8. ASSUME NEW p \in Playlists, NEW i \in DOMAIN playlists'[p],
             playlists'[p][i].owner = n, playlists'[p][i].uri # Unavailable
      PROVE  FALSE
  <2>1. PICK k \in DOMAIN playlists[p] : /\ playlists'[p][i] = playlists[p][k]
                                         /\ p = r => k # position + 1
    <3>1. \A m \in DOMAIN DeleteItem(items, position) :
             \E k \in DOMAIN items : /\ k # position + 1
                                     /\ DeleteItem(items, position)[m] = items[k]
      BY ONLY <1>6, LeftOver
    <3>2. CASE p = r
      BY <1>5, <1>7, <1>8, <3>1, <3>2
    <3>3. CASE p # r
      BY <1>7, <1>8, <3>3
    <3> QED BY <3>2, <3>3
  <2>2. n > 0
    BY <1>3, LenProperties DEF Insertions, TypeOK
  <2>3. playlists[p][k].uri = last_known
    BY <1>3, <1>8, <2>1, <2>2 DEF TicketsTrue
  <2>4. <<p, k>> # <<r, position + 1>>
    BY <2>1
  <2> QED BY <1>1, <1>4, <1>5, <1>6, <2>3, <2>4 DEF Twice
<1>9. ~InPlaylist(n)'
  BY <1>8 DEF InPlaylist
<1>10. entries'[tick'.entry].ticket = n
  BY <1>2 DEF DeletionMade
<1> QED BY <1>9, <1>10 DEF InPlaylist, DeletionMade

LEMMA StepAboutToRecord == IInv /\ [Next]_vars => AboutToRecord'
<1> SUFFICES ASSUME IInv, [Next]_vars, tick'.pc = "deleted", last_known' \notin doubled'
             PROVE  ~InPlaylist(entries[tick.entry].ticket)'
  BY DEF AboutToRecord
<1>1. CASE UNCHANGED <<tick, last_known>>
  <2> PICK e \in DOMAIN entries : e = tick.entry
    BY <1>1 DEF IInv, TypeOK
  <2>1. PICK n : n = entries[e].ticket /\ e = tick.entry
    OBVIOUS
  <2>2. n \in Insertions
    BY <2>1, EntryTickets DEF IInv
  <2>3. ~InPlaylist(n)
    <3>1. last_known \notin doubled
      BY <1>1, HistoryKeeps DEF IInv
    <3> QED BY <1>1, <2>1, <3>1 DEF IInv, AboutToRecord
  <2>4. ~InPlaylist(n)'
    BY <2>2, <2>3, NothingReturns DEF IInv
  <2>5. entries'[e].ticket = n
    BY <2>1, EntriesChange DEF IInv
  <2> QED BY <1>1, <2>1, <2>4, <2>5 DEF InPlaylist
<1>2. CASE DeletionMade
  BY <1>2, DeletesInsertion DEF IInv, DeletionMade
<1> QED BY <1>1, <1>2, TickChange DEF IInv

LEMMA StepRemovedMeansGone == IInv /\ [Next]_vars => RemovedMeansGone'
<1> SUFFICES ASSUME IInv, [Next]_vars, NEW e \in DOMAIN entries', entries'[e].removed,
                    entries'[e].uri \notin doubled'
             PROVE  ~InPlaylist(entries[e].ticket)'
  BY DEF RemovedMeansGone
<1>1. /\ e \in DOMAIN entries
      /\ entries'[e].uri = entries[e].uri /\ entries'[e].ticket = entries[e].ticket
      /\ entries[e].uri \notin doubled
  BY EntriesChange, HistoryKeeps DEF IInv
<1>2. PICK n : n = entries[e].ticket
  OBVIOUS
<1>3. n \in Insertions
  BY <1>1, <1>2, EntryTickets DEF IInv
<1>4. ~InPlaylist(n)
  <2>1. CASE entries[e].removed
    BY <1>1, <1>2, <2>1 DEF IInv, RemovedMeansGone
  <2>2. CASE ~entries[e].removed
    <3>1. tick.pc = "deleted" /\ e = tick.entry
      BY <1>1, <2>2, EntriesChange DEF IInv
    <3>2. entries[e].uri = last_known
      BY <3>1 DEF IInv, TypeOK
    <3> QED BY <1>1, <1>2, <3>1, <3>2 DEF IInv, AboutToRecord
  <2> QED BY <2>1, <2>2
<1>5. ~InPlaylist(n)'
  BY <1>3, <1>4, NothingReturns DEF IInv
<1> QED BY <1>1, <1>2, <1>5 DEF InPlaylist

-----------------------------------------------------------------------------
(* The theorems.                                                           *)

LEMMA InitIInv == Init => IInv
<1> SUFFICES ASSUME Init PROVE IInv
  OBVIOUS
<1>1. /\ DOMAIN entries = {} /\ Insertions = {}
      /\ \A p \in Playlists : \A i \in DOMAIN playlists[p] : playlists[p][i].owner = 0
      /\ \A w \in Approvers : approvals[w].pc = "idle"
  BY DEF Init, Insertions, NoApproval
<1>2. tick.pc = "sleeping"
  BY DEF Init, Sleeping
<1>3. DoublesNoted
  BY DEF Init, DoublesNoted
<1> QED BY <1>1, <1>2, <1>3, InitTypeOK DEF IInv, TicketsTrue, HeldEntryPlayed, AboutToRecord,
                                            RemovedMeansGone

\* The strengthening holds in every behaviour.
THEOREM InductiveInvariant == Spec => []IInv
<1>1. IInv /\ [Next]_vars => IInv'
  BY StepTypeOK, StepTicketsTrue, StepDoublesNoted, StepHeldEntryPlayed, StepAboutToRecord,
     StepRemovedMeansGone DEF IInv
<1> QED BY <1>1, InitIInv, PTL DEF Spec

\* The worker deletes nothing but a track of which an insertion of the program is on
\* record, played and not removed: a track the program never inserted is never taken
\* (poller.py, "never touch backbone tracks"), in whichever playlist.
THEOREM DeletionsOnRecord == Spec => DeletesOnlyOnRecord
<1>1. IInv /\ [Next]_vars
         => [WorkerDeletes =>
                \E e \in DOMAIN entries :
                    /\ entries[e].uri = playlists[tick.playlist][tick.position + 1].uri
                    /\ entries[e].played /\ ~entries[e].removed]_vars
  <2> SUFFICES ASSUME IInv, [Next]_vars, WorkerDeletes
               PROVE  \E e \in DOMAIN entries :
                         /\ entries[e].uri = playlists[tick.playlist][tick.position + 1].uri
                         /\ entries[e].played /\ ~entries[e].removed
    OBVIOUS
  <2>1. tick.pc = "deleting" /\ tick'.pc = "deleted"
    BY DEF WorkerDeletes
  <2>2. DeletionMade
    BY <2>1, TickChange DEF IInv
  <2>3. playlists[tick.playlist][tick.position + 1].uri = last_known
    BY <2>2 DEF DeletionMade, CanDeleteAt
  <2>4. /\ tick.entry \in DOMAIN entries /\ entries[tick.entry].uri = last_known
        /\ entries[tick.entry].played /\ ~entries[tick.entry].removed
    BY <2>1 DEF IInv, TypeOK, HeldEntryPlayed
  <2> QED BY <2>3, <2>4
<1> QED BY <1>1, InductiveInvariant, PTL DEF Spec, DeletesOnlyOnRecord

\* An entry that says removed is of an insertion that plays nowhere any more, unless
\* its track was in the playlists twice at a time - by two approvals at once, a POST
\* that landed late, or a copy of the venue.
THEOREM RemovalsTrue == Spec => []RemovedMeansGone
<1>1. IInv => RemovedMeansGone
  BY DEF IInv
<1> QED BY <1>1, InductiveInvariant, PTL
=============================================================================
