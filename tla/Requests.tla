------------------------------ MODULE Requests ------------------------------
(***************************************************************************)
(* The requests table (app/models/requests.py, migration 0005) as a value: *)
(* a function from the rowids in use to their rows, and one operator per   *)
(* statement the program runs on it.                                       *)
(*                                                                         *)
(* Rowids are what the program passes around: an approval holds one over   *)
(* several awaits, a timeout tick holds a list of them.  The column is     *)
(* INTEGER PRIMARY KEY without AUTOINCREMENT, so sqlite gives a new row    *)
(* the largest rowid in use plus one, and the id of a denied (deleted)     *)
(* request can come back for another request.  The history variable        *)
(* "ticket" of a row tells the two apart: it numbers the submissions and   *)
(* is not a column.                                                        *)
(***************************************************************************)
EXTENDS Naturals

Statuses == {"pending", "added"}

Pending(table) == {id \in DOMAIN table : table[id].status = "pending"}

\* Mutant: the wrong status is looked for.
HasAddedDuplicate(table, uri) ==
    \E id \in DOMAIN table : table[id].uri = uri /\ table[id].status = "added"

HasPendingDuplicate(table, uri) ==
    \E id \in Pending(table) : table[id].uri = uri

IsPending(table, id) == id \in Pending(table)

\* The rowid sqlite picks: 1 in an empty table, the largest one plus 1 otherwise.
IsNextRowid(table, id) ==
    /\ \A other \in DOMAIN table : other < id
    /\ id = 1 \/ id - 1 \in DOMAIN table

InsertRow(table, id, new) ==
    [row \in DOMAIN table \cup {id} |-> IF row = id THEN new ELSE table[row]]

InsertRequest(table, id, uri, ticket) ==
    InsertRow(table, id, [uri |-> uri, status |-> "pending", ticket |-> ticket])

\* UPDATE ... WHERE id = ?: no status guard, and nothing happens when the row is gone.
MarkRequestAdded(table, id) ==
    [row \in DOMAIN table |->
        IF row = id THEN [table[row] EXCEPT !.status = "added"] ELSE table[row]]

\* Mutant: DELETE ... WHERE spotify_track_uri = ?, which takes added rows with it.
DeleteRequestsOfTrack(table, id) ==
    [row \in {r \in DOMAIN table : table[r].uri # table[id].uri} |-> table[row]]

DeleteRequest(table, id) == [row \in DOMAIN table \ {id} |-> table[row]]
=============================================================================
