------------------------------- MODULE Listing -------------------------------
(***************************************************************************)
(* internal/store/items.go ListItems and cursor.go: a client walks the     *)
(* pages of one archive's items while they are created, patched, re-dated  *)
(* and deleted under it.                                                   *)
(*                                                                         *)
(* A page is a Query of the secondary index, which follows the table item  *)
(* by item and later (Propagate).  The position of a walk is a cursor in   *)
(* the client's hands: the KEY of the last row it was shown, which need    *)
(* not be the key of any row when it comes back.                           *)
(*                                                                         *)
(* The handler has no filters, so every cursor carries the same            *)
(* fingerprint; the sort order is not part of it, and a cursor may be used *)
(* again under the other order.                                            *)
(***************************************************************************)
EXTENDS Integers, FiniteSets

CONSTANTS
    Item,          \* item ids, ordered as their strings are
    Instant,       \* dates' sort instants and times of day, on one scale
    MaxPageLimit,  \* items.go: maxPageLimit
    Undated, Gone, NoCursor

\* What the index key is made of.
Row == [date : Instant \cup {Undated}, created : Instant, updated : Instant]
Key == Instant \X Item

ASSUME ListingAssumption ==
    /\ Item \subseteq Nat
    /\ Instant \subseteq Nat
    /\ MaxPageLimit \in Nat \ {0}
    /\ Undated \notin Instant
    /\ Gone \notin Row \cup Key
    /\ NoCursor \notin Key

VARIABLES
    table,      \* the items' rows, Gone before creation and after deletion
    born,       \* ids already used: they are random and never used again
    clock,      \* the time
    index,      \* GSI1: each item's key, as far as it has caught up
    pc,         \* the client: "idle", "walking" or "done"
    ascending,  \* the sort of its requests
    cursor,     \* what it was given with the last page
    page,       \* the keys of its last page
    earlier,    \* history: the keys this walk showed on the pages before
    steady      \* history: items ahead at its start, not re-dated since

rowVars == <<table, born, clock>>
walkVars == <<pc, ascending, cursor, page, earlier>>
vars == <<table, born, clock, index, pc, ascending, cursor, page, earlier, steady>>

\* keys.go's ItemIndexSK.  Both instants have one width, so the strings
\* compare as the pairs do.
UpdatedPlace(row) ==                                          \* mutant
    IF row.date = Undated THEN row.updated ELSE row.date
Place(row) == IF row.date = Undated THEN row.created ELSE row.date

UndatedHasNoPlace(i, row) ==                                  \* mutant
    IF row = Gone THEN Gone ELSE <<row.date, i>>
IndexKey(i, row) == IF row = Gone THEN Gone ELSE <<Place(row), i>>

Before(j, k) == j[1] < k[1] \/ (j[1] = k[1] /\ j[2] < k[2])

\* ScanIndexForward: j comes before k in the order asked for.
Precedes(asc, j, k) == IF asc THEN Before(j, k) ELSE Before(k, j)

Indexed == {i \in Item : index[i] # Gone}

\* Mutant: the cursor is the number of rows shown so far.
ByOffset(asc, from) ==
    {i \in Indexed :
        Cardinality({j \in Indexed : Precedes(asc, index[j], index[i])})
            >= Cardinality(earlier \cup page)}

\* The rows after ExclusiveStartKey, all of them when there is no cursor.
Ahead(asc, from) ==
    {i \in Indexed : from = NoCursor \/ Precedes(asc, from, index[i])}

\* A Query stops after Limit rows, or sooner at a megabyte: what it returns
\* is a beginning of what is ahead.
Beginnings(asc, rows, limit) ==
    {P \in SUBSET rows :
        /\ Cardinality(P) <= limit
        /\ \A i \in P, j \in rows \ P : ~Precedes(asc, index[j], index[i])}

\* LastEvaluatedKey: the key of the last row returned.
LastKeys(asc, P) ==
    {k \in {index[i] : i \in P} : \A i \in P : ~Precedes(asc, k, index[i])}

TypeOK ==
    /\ table \in [Item -> Row \cup {Gone}]
    /\ born \in SUBSET Item
    /\ clock \in Instant
    /\ index \in [Item -> Key \cup {Gone}]
    /\ pc \in {"idle", "walking", "done"}
    /\ ascending \in BOOLEAN
    /\ cursor \in Key \cup {NoCursor}
    /\ page \in SUBSET Key
    /\ earlier \in SUBSET Key
    /\ steady \in SUBSET Item

\* An archive that has been in use for a while.
Init ==
    /\ clock \in Instant
    /\ table \in [Item -> [date : Instant \cup {Undated}, created : {clock},
                           updated : {clock}] \cup {Gone}]
    /\ born = {i \in Item : table[i] # Gone}
    /\ index = [i \in Item |-> IndexKey(i, table[i])]
    /\ pc = "idle"
    /\ ascending = FALSE
    /\ cursor = NoCursor
    /\ page = {}
    /\ earlier = {}
    /\ steady = {}

-----------------------------------------------------------------------------
(***************************************************************************)
(* Writes.  Each takes some time, which bounds them.                       *)
(***************************************************************************)
Write(i, row) ==
    /\ clock + 1 \in Instant
    /\ clock' = clock + 1
    /\ table' = [table EXCEPT ![i] = row]
    /\ UNCHANGED <<index, walkVars>>

CreateItem(i) ==
    /\ i \notin born
    /\ born' = born \cup {i}
    /\ steady' = steady
    /\ \E d \in Instant \cup {Undated} :
          Write(i, [date |-> d, created |-> clock, updated |-> clock])

\* A patch may set or clear the date or leave it; CreatedAt it never touches.
PatchItem(i) ==
    /\ table[i] # Gone
    /\ born' = born
    /\ \E d \in Instant \cup {Undated} :
          /\ Write(i, [table[i] EXCEPT !.date = d, !.updated = clock])
          /\ steady' = IF d = table[i].date THEN steady ELSE steady \ {i}

DeleteItem(i) ==
    /\ table[i] # Gone
    /\ born' = born
    /\ steady' = steady \ {i}
    /\ Write(i, Gone)

\* The index catches up with one item.
Propagate(i) ==
    /\ index[i] # IndexKey(i, table[i])
    /\ index' = [index EXCEPT ![i] = IndexKey(i, table[i])]
    /\ UNCHANGED <<rowVars, walkVars, steady>>

-----------------------------------------------------------------------------
(***************************************************************************)
(* Pages.                                                                  *)
(***************************************************************************)

\* Whether there is a LastEvaluatedKey.  DynamoDB may give one although
\* nothing follows it.
MayEnd(asc, from, P, more) == more \/ P = Ahead(asc, from)

\* encodeCursor: without a LastEvaluatedKey no cursor, and so no more pages.
NextCursors(asc, P, more) == IF more THEN LastKeys(asc, P) ELSE {NoCursor}

\* ListItems: one page from there, and the cursor for the next.
ListItems(asc, from) ==
    \E limit \in 1..MaxPageLimit, more \in BOOLEAN :
    \E P \in Beginnings(asc, Ahead(asc, from), limit) :
        /\ MayEnd(asc, from, P, more)
        /\ page' = {index[i] : i \in P}
        /\ cursor' \in NextCursors(asc, P, more)
        /\ pc' = IF more THEN "walking" ELSE "done"
        /\ ascending' = asc
        /\ UNCHANGED <<rowVars, index>>

\* A walk starts at the top, or at the last cursor under the other order.
BeginWalk(asc, from) ==
    /\ from # NoCursor => asc # ascending
    /\ ListItems(asc, from)
    /\ earlier' = {}
    /\ steady' = {i \in Ahead(asc, from) : index[i] = IndexKey(i, table[i])}

NextPage ==
    /\ pc = "walking"
    /\ ListItems(ascending, cursor)
    /\ earlier' = earlier \cup page
    /\ steady' = steady

Next ==
    \/ \E i \in Item : CreateItem(i) \/ PatchItem(i) \/ DeleteItem(i) \/ Propagate(i)
    \/ \E asc \in BOOLEAN, from \in {NoCursor, cursor} : BeginWalk(asc, from)
    \/ NextPage

Spec == Init /\ [][Next]_vars

-----------------------------------------------------------------------------
(***************************************************************************)
(* Properties.                                                             *)
(***************************************************************************)

\* Whether the walk has gone past a key.
Passed(k) ==
    \/ pc = "done"
    \/ pc = "walking" /\ ~Precedes(ascending, cursor, k)

\* ListItems' promise, and the reason for an order that is total and that
\* only a new date can change: an item ahead of the walk when it began, and
\* not re-dated or deleted since, is shown in its turn, at its place and no
\* other, whatever is created, edited, moved or deleted around it and even
\* when the row that the cursor names is gone.
SteadyItemsAreShown ==
    \A i \in steady :
        {k \in earlier \cup page : k[2] = i} =
            IF Passed(index[i]) THEN {index[i]} ELSE {}

\* Each page lies behind all pages before it: a walk shows no place twice
\* and cannot go round in a circle, although any row may move meanwhile.
PagesFollowOneAnother ==
    \A j \in earlier, k \in page : Precedes(ascending, j, k)
=============================================================================
