--------------------------- MODULE PlaylistState ---------------------------
(***************************************************************************)
(* The playlist_state table (app/models/playlist_state.py, migration 0006):*)
(* the insertions the program made, oldest first.  Rows are never deleted, *)
(* so the rowid of an entry is its position in the sequence, and the order *)
(* of added_at is the order of the sequence.  Every row the program writes *)
(* has source = 'request'; the column is left out.                         *)
(***************************************************************************)
EXTENDS Naturals, Sequences

\* A new insertion: not played yet, not removed yet.
NewEntry(uri, requestId, ticket) ==
    [uri |-> uri, request_id |-> requestId, ticket |-> ticket,
     played |-> FALSE, removed |-> FALSE]

CreateEntry(entries, uri, requestId, ticket) ==
    Append(entries, NewEntry(uri, requestId, ticket))

\* The entries the cleanup may still act on for a track.
ActiveEntriesFor(entries, uri) ==
    {e \in DOMAIN entries : entries[e].uri = uri /\ ~entries[e].removed}

\* Mutant: the newest entry, whatever its track.
IsNewestEntry(entries, uri, entry) == entry = Len(entries) /\ entry > 0

\* ORDER BY added_at DESC LIMIT 1: the newest of them.
IsActiveEntryFor(entries, uri, entry) ==
    /\ entry \in ActiveEntriesFor(entries, uri)
    /\ \A other \in ActiveEntriesFor(entries, uri) : other <= entry

MarkPlayed(entries, entry) == [entries EXCEPT ![entry].played = TRUE]

MarkRemoved(entries, entry) == [entries EXCEPT ![entry].removed = TRUE]
=============================================================================
