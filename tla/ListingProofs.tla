----------------------------- MODULE ListingProofs -----------------------------
(***************************************************************************)
(* Proofs about Listing, for any number of items, any instants and any     *)
(* page limit.                                                             *)
(*                                                                         *)
(* The argument: keys are totally ordered, so a cursor cuts the index in   *)
(* two.  A page is a beginning of what lies beyond the cut and moves the   *)
(* cut to its own last key; a steady item's key does not move, so it       *)
(* crosses the cut exactly when it is shown.                               *)
(***************************************************************************)
EXTENDS Listing, TLAPS

\* A row's key carries its own id.
KeysNameItems == \A i \in Item : index[i] # Gone => index[i][2] = i

\* A steady item's place is the one its row gives it.
SteadyItemsHavePlaces ==
    \A i \in steady : table[i] # Gone /\ index[i] = IndexKey(i, table[i])

\* A walk in progress has a cursor, and what it has shown is not beyond it.
ShownIsPassed ==
    pc = "walking" =>
        /\ cursor # NoCursor
        /\ \A k \in earlier \cup page : ~Precedes(ascending, cursor, k)

\* An id is used before its row exists, and after.
RowsWereBorn == \A i \in Item : table[i] # Gone => i \in born

NothingIsShownYet == pc = "idle" => steady = {} /\ earlier = {} /\ page = {}

IInv ==
    /\ TypeOK
    /\ KeysNameItems
    /\ RowsWereBorn
    /\ SteadyItemsHavePlaces
    /\ ShownIsPassed
    /\ NothingIsShownYet
    /\ SteadyItemsAreShown
    /\ PagesFollowOneAnother

-----------------------------------------------------------------------------
\* Either sort is a strict total order of the keys.
LEMMA KeysAreTotallyOrdered ==
    ASSUME NEW asc \in BOOLEAN, NEW j \in Key, NEW k \in Key, NEW l \in Key
    PROVE  /\ ~Precedes(asc, j, j)
           /\ Precedes(asc, j, k) \/ Precedes(asc, k, j) \/ j = k
           /\ Precedes(asc, j, k) => ~Precedes(asc, k, j)
           /\ Precedes(asc, j, k) /\ Precedes(asc, k, l) => Precedes(asc, j, l)
           /\ ~Precedes(asc, j, k) /\ ~Precedes(asc, k, l) => ~Precedes(asc, j, l)
<1>1. \A m \in Key : /\ m[1] \in Int /\ m[2] \in Int
                     /\ m = <<m[1], m[2]>>
  <2> TAKE m \in Key
  <2>1. PICK a \in Instant, b \in Item : m = <<a, b>>
    BY DEF Key
  <2> QED
    BY <2>1, ListingAssumption
<1>2. j = k <=> j[1] = k[1] /\ j[2] = k[2]
  BY <1>1
<1> QED
  BY <1>1, <1>2 DEF Precedes, Before

\* A row has a place among the instants.
LEMMA IndexKeyIsAKey ==
    ASSUME NEW i \in Item, NEW row \in Row \cup {Gone}
    PROVE  /\ IndexKey(i, row) \in Key \cup {Gone}
           /\ row # Gone => IndexKey(i, row) # Gone
           /\ IndexKey(i, row) # Gone => IndexKey(i, row)[2] = i
BY ListingAssumption DEF IndexKey, Place, Row, Key

\* A page shows rows ahead of its start, and its end cuts them in two: shown,
\* and still ahead.
LEMMA APageCutsWhatIsAhead ==
    ASSUME IInv, NEW asc \in BOOLEAN, NEW from \in Key \cup {NoCursor},
           ListItems(asc, from)
    PROVE  /\ UNCHANGED <<table, born, clock, index>>
           /\ pc' \in {"walking", "done"}
           /\ ascending' = asc
           /\ cursor' \in Key \cup {NoCursor}
           /\ page' \subseteq {index[i] : i \in Ahead(asc, from)}
           /\ page' \subseteq Key
           /\ pc' = "walking" => /\ cursor' \in page'
                                 /\ \A k \in page' : ~Precedes(asc, cursor', k)
           /\ \A i \in Ahead(asc, from) :
                 index[i] \in page' <=> Passed(index[i])'
<1>a. PICK limit \in 1..MaxPageLimit, more \in BOOLEAN :
         \E P \in Beginnings(asc, Ahead(asc, from), limit) :
            /\ MayEnd(asc, from, P, more)
            /\ page' = {index[i] : i \in P}
            /\ cursor' \in NextCursors(asc, P, more)
            /\ pc' = IF more THEN "walking" ELSE "done"
            /\ ascending' = asc
            /\ UNCHANGED <<table, born, clock, index>>
  BY DEF ListItems, rowVars
<1>1. PICK P \in Beginnings(asc, Ahead(asc, from), limit) :
         /\ MayEnd(asc, from, P, more)
         /\ page' = {index[i] : i \in P}
         /\ cursor' \in NextCursors(asc, P, more)
         /\ pc' = IF more THEN "walking" ELSE "done"
         /\ ascending' = asc
         /\ UNCHANGED <<table, born, clock, index>>
  BY <1>a
<1>2. \A i \in Ahead(asc, from) : i \in Item /\ index[i] \in Key /\ index[i][2] = i
  BY DEF IInv, TypeOK, KeysNameItems, Ahead, Indexed
<1>3. P \subseteq Ahead(asc, from)
  BY <1>1 DEF Beginnings
<1>4. more => /\ cursor' \in page'
              /\ \A k \in page' : ~Precedes(asc, cursor', k)
  BY <1>1 DEF NextCursors, LastKeys
<1>5. ~more => P = Ahead(asc, from) /\ cursor' = NoCursor
  BY <1>1 DEF MayEnd, NextCursors
<1>6. ASSUME NEW i \in Ahead(asc, from)
      PROVE  index[i] \in page' <=> i \in P
  BY <1>1, <1>2, <1>3, <1>6
<1>7. ASSUME NEW i \in Ahead(asc, from), more
      PROVE  i \in P <=> ~Precedes(asc, cursor', index[i])
  <2>1. CASE i \in P
    BY <1>1, <1>4, <1>7, <2>1
  <2>2. CASE i \notin P
    <3>1. PICK l \in P : cursor' = index[l]
      BY <1>1, <1>4, <1>7
    <3>2. ~Precedes(asc, index[i], index[l])
      BY <1>1, <1>7, <2>2, <3>1 DEF Beginnings
    <3>3. index[i] # index[l] /\ index[i] \in Key /\ index[l] \in Key
      BY <1>2, <1>3, <1>7, <2>2, <3>1
    <3> QED
      BY <2>2, <3>1, <3>2, <3>3, KeysAreTotallyOrdered
  <2> QED
    BY <2>1, <2>2
<1>8. ASSUME NEW i \in Ahead(asc, from)
      PROVE  index[i] \in page' <=> Passed(index[i])'
  <2>1. Passed(index[i])' <=> (more => ~Precedes(asc, cursor', index[i]))
    BY <1>1, <1>8 DEF Passed
  <2>2. CASE more
    BY <1>6, <1>7, <1>8, <2>1, <2>2
  <2>3. CASE ~more
    BY <1>5, <1>6, <1>8, <2>1, <2>3
  <2> QED
    BY <2>2, <2>3
<1>9. page' \subseteq {index[i] : i \in Ahead(asc, from)} /\ page' \subseteq Key
  BY <1>1, <1>2, <1>3
<1>10. cursor' \in Key \cup {NoCursor}
  BY <1>4, <1>5, <1>9
<1> QED
  BY <1>1, <1>4, <1>8, <1>9, <1>10

\* A write changes no place but that of its own item, which it makes unsteady
\* unless the place stays.
LEMMA WritesKeepIInv ==
    ASSUME IInv, NEW i \in Item, CreateItem(i) \/ PatchItem(i) \/ DeleteItem(i)
    PROVE  IInv'
<1>1. /\ UNCHANGED <<index, pc, ascending, cursor, page, earlier>>
      /\ clock' \in Instant
      /\ steady' \subseteq steady
      /\ born \subseteq born' /\ born' \subseteq Item
  BY DEF IInv, TypeOK, CreateItem, PatchItem, DeleteItem, Write, walkVars
<1>2. /\ table' \in [Item -> Row \cup {Gone}]
      /\ \A j \in Item \ {i} : table'[j] = table[j]
  <2>1. PICK row \in Row \cup {Gone} : Write(i, row)
    <3>1. CASE CreateItem(i)
      BY <3>1 DEF CreateItem, IInv, TypeOK, Row
    <3>2. CASE PatchItem(i)
      BY <3>2 DEF PatchItem, IInv, TypeOK, Row
    <3>3. CASE DeleteItem(i)
      BY <3>3 DEF DeleteItem
    <3> QED
      BY <3>1, <3>2, <3>3
  <2> QED
    BY <2>1 DEF Write, IInv, TypeOK
<1>3. table'[i] # Gone => i \in born'
  BY DEF IInv, TypeOK, RowsWereBorn, CreateItem, PatchItem, DeleteItem, Write
<1>4. ASSUME i \in steady'
      PROVE  table'[i] # Gone /\ IndexKey(i, table'[i]) = IndexKey(i, table[i])
  <2>1. table[i] # Gone /\ i \in born /\ table[i] \in Row
    BY <1>1, <1>4 DEF IInv, TypeOK, SteadyItemsHavePlaces, RowsWereBorn
  <2>2. ~CreateItem(i)
    BY <2>1 DEF CreateItem
  <2>3. ~DeleteItem(i)
    BY <1>4 DEF DeleteItem
  <2>4. table'[i] = [table[i] EXCEPT !.date = table[i].date, !.updated = clock]
    BY <1>4, <2>2, <2>3 DEF PatchItem, Write, IInv, TypeOK
  <2>5. table'[i] \in Row /\ Place(table'[i]) = Place(table[i])
    BY <2>1, <2>4, <1>1 DEF Place, Row, IInv, TypeOK
  <2>6. table'[i] # Gone
    BY <2>5, ListingAssumption
  <2> QED
    BY <2>1, <2>5, <2>6 DEF IndexKey
<1>5. TypeOK'
  BY <1>1, <1>2 DEF IInv, TypeOK
<1>6. KeysNameItems' /\ RowsWereBorn'
  BY <1>1, <1>2, <1>3 DEF IInv, KeysNameItems, RowsWereBorn
<1>7. SteadyItemsHavePlaces'
  BY <1>1, <1>2, <1>4 DEF IInv, TypeOK, SteadyItemsHavePlaces
<1>8. ShownIsPassed' /\ NothingIsShownYet' /\ PagesFollowOneAnother'
  BY <1>1 DEF IInv, ShownIsPassed, NothingIsShownYet, PagesFollowOneAnother,
              Precedes, Before
<1>9. SteadyItemsAreShown'
  BY <1>1 DEF IInv, SteadyItemsAreShown, Passed, Precedes, Before
<1> QED
  BY <1>5, <1>6, <1>7, <1>8, <1>9 DEF IInv

\* The index only catches up with what is not steady.
LEMMA CatchingUpKeepsIInv ==
    ASSUME IInv, NEW i \in Item, Propagate(i)
    PROVE  IInv'
<1>1. /\ UNCHANGED <<table, born, clock, pc, ascending, cursor, page, earlier, steady>>
      /\ index' = [index EXCEPT ![i] = IndexKey(i, table[i])]
  BY DEF Propagate, rowVars, walkVars
<1>2. /\ index' \in [Item -> Key \cup {Gone}]
      /\ \A j \in Item \ {i} : index'[j] = index[j]
      /\ index'[i] = IndexKey(i, table[i])
      /\ index'[i] # Gone => index'[i][2] = i
  BY <1>1, IndexKeyIsAKey DEF IInv, TypeOK
<1>3. i \notin steady
  BY DEF Propagate, IInv, SteadyItemsHavePlaces
<1>4. steady \subseteq Item
  BY DEF IInv, TypeOK
<1>5. TypeOK' /\ KeysNameItems' /\ RowsWereBorn'
  BY <1>1, <1>2 DEF IInv, TypeOK, KeysNameItems, RowsWereBorn
<1>6. SteadyItemsHavePlaces'
  BY <1>1, <1>2, <1>3, <1>4 DEF IInv, SteadyItemsHavePlaces
<1>7. ShownIsPassed' /\ NothingIsShownYet' /\ PagesFollowOneAnother'
  BY <1>1 DEF IInv, ShownIsPassed, NothingIsShownYet, PagesFollowOneAnother,
              Precedes, Before
<1>8. SteadyItemsAreShown'
  BY <1>1, <1>2, <1>3, <1>4 DEF IInv, SteadyItemsAreShown, Passed, Precedes, Before
<1> QED
  BY <1>5, <1>6, <1>7, <1>8 DEF IInv

\* A new walk has shown its first page and nothing else.
LEMMA BeginningKeepsIInv ==
    ASSUME IInv, NEW asc \in BOOLEAN, NEW from \in {NoCursor, cursor},
           BeginWalk(asc, from)
    PROVE  IInv'
<1>0. from \in Key \cup {NoCursor}
  BY DEF IInv, TypeOK
<1>1. /\ UNCHANGED <<table, born, clock, index>>
      /\ pc' \in {"walking", "done"}
      /\ ascending' = asc
      /\ cursor' \in Key \cup {NoCursor}
      /\ page' \subseteq {index[i] : i \in Ahead(asc, from)}
      /\ page' \subseteq Key
      /\ pc' = "walking" => /\ cursor' \in page'
                            /\ \A k \in page' : ~Precedes(asc, cursor', k)
      /\ \A i \in Ahead(asc, from) :
            index[i] \in page' <=> Passed(index[i])'
  BY <1>0, APageCutsWhatIsAhead DEF BeginWalk
<1>2. /\ earlier' = {}
      /\ steady' = {i \in Ahead(asc, from) : index[i] = IndexKey(i, table[i])}
  BY DEF BeginWalk
<1>3. \A i \in Ahead(asc, from) : i \in Item /\ index[i] # Gone /\ index[i][2] = i
  BY DEF IInv, KeysNameItems, Ahead, Indexed
<1>4. TypeOK' /\ KeysNameItems' /\ RowsWereBorn'
  BY <1>1, <1>2, <1>3 DEF IInv, TypeOK, KeysNameItems, RowsWereBorn
<1>5. SteadyItemsHavePlaces'
  BY <1>1, <1>2, <1>3 DEF SteadyItemsHavePlaces, IndexKey
<1>6. ShownIsPassed'
  BY <1>1, <1>2, ListingAssumption DEF ShownIsPassed, Key, Precedes, Before
<1>7. NothingIsShownYet' /\ PagesFollowOneAnother'
  BY <1>1, <1>2 DEF NothingIsShownYet, PagesFollowOneAnother
<1>8. SteadyItemsAreShown'
  <2> SUFFICES ASSUME NEW i \in steady'
               PROVE  {k \in page' : k[2] = i} =
                         IF Passed(index[i])' THEN {index[i]} ELSE {}
    BY <1>1, <1>2 DEF SteadyItemsAreShown
  <2>1. i \in Ahead(asc, from)
    BY <1>2
  <2>2. \A k \in page' : k[2] = i => k = index[i]
    BY <1>1, <1>3
  <2> QED
    BY <1>1, <1>3, <2>1, <2>2
<1> QED
  BY <1>4, <1>5, <1>6, <1>7, <1>8 DEF IInv

\* The next page shows what was ahead of the last cursor.
LEMMA GoingOnKeepsIInv ==
    ASSUME IInv, NextPage
    PROVE  IInv'
<1>0. /\ pc = "walking"
      /\ cursor \in Key
      /\ ascending \in BOOLEAN
      /\ \A k \in earlier \cup page : k \in Key /\ ~Precedes(ascending, cursor, k)
  BY DEF NextPage, IInv, TypeOK, ShownIsPassed
<1>1. /\ UNCHANGED <<table, born, clock, index>>
      /\ pc' \in {"walking", "done"}
      /\ ascending' = ascending
      /\ cursor' \in Key \cup {NoCursor}
      /\ page' \subseteq {index[i] : i \in Ahead(ascending, cursor)}
      /\ page' \subseteq Key
      /\ pc' = "walking" => /\ cursor' \in page'
                            /\ \A k \in page' : ~Precedes(ascending, cursor', k)
      /\ \A i \in Ahead(ascending, cursor) :
            index[i] \in page' <=> Passed(index[i])'
  BY <1>0, APageCutsWhatIsAhead DEF NextPage
<1>2. earlier' = earlier \cup page /\ steady' = steady
  BY DEF NextPage
<1>3. \A i \in Ahead(ascending, cursor) :
         /\ i \in Item /\ index[i] # Gone /\ index[i][2] = i
         /\ Precedes(ascending, cursor, index[i])
  BY <1>0, ListingAssumption DEF IInv, KeysNameItems, Ahead, Indexed, Key
<1>4. \A k \in page' : Precedes(ascending, cursor, k)
  BY <1>1, <1>3
<1>5. \A j \in Key : pc' = "walking" /\ ~Precedes(ascending, cursor, j)
                         => ~Precedes(ascending, cursor', j)
  BY <1>0, <1>1, <1>4, KeysAreTotallyOrdered
<1>6. TypeOK' /\ KeysNameItems' /\ RowsWereBorn' /\ SteadyItemsHavePlaces'
  BY <1>0, <1>1, <1>2 DEF IInv, TypeOK, KeysNameItems, RowsWereBorn,
                          SteadyItemsHavePlaces, IndexKey
<1>7. ShownIsPassed'
  <2>1. pc' = "walking" => cursor' # NoCursor
    BY <1>1, ListingAssumption DEF Key
  <2>2. ASSUME pc' = "walking", NEW k \in earlier' \cup page'
        PROVE  ~Precedes(ascending, cursor', k)
    BY <1>0, <1>1, <1>2, <1>5, <2>2
  <2> QED
    BY <1>1, <2>1, <2>2 DEF ShownIsPassed, Precedes, Before
<1>8. PagesFollowOneAnother'
  <2>1. ASSUME NEW j \in earlier', NEW k \in page'
        PROVE  Precedes(ascending, j, k)
    <3>1. j \in Key /\ k \in Key /\ ~Precedes(ascending, cursor, j)
      BY <1>0, <1>1, <1>2
    <3> QED
      BY <1>0, <1>4, <3>1, KeysAreTotallyOrdered
  <2> QED
    BY <1>1, <2>1 DEF PagesFollowOneAnother, Precedes, Before
<1>9. SteadyItemsAreShown'
  <2> SUFFICES ASSUME NEW i \in steady
               PROVE  {k \in earlier \cup page \cup page' : k[2] = i} =
                         IF Passed(index[i])' THEN {index[i]} ELSE {}
    BY <1>1, <1>2 DEF IInv, SteadyItemsAreShown
  <2>1. /\ i \in Item /\ index[i] # Gone /\ index[i] \in Key /\ index[i][2] = i
        /\ {k \in earlier \cup page : k[2] = i} =
              IF Passed(index[i]) THEN {index[i]} ELSE {}
    BY IndexKeyIsAKey DEF IInv, TypeOK, KeysNameItems, SteadyItemsHavePlaces,
                          SteadyItemsAreShown
  <2>2. \A k \in page' : k[2] = i => k = index[i] /\ i \in Ahead(ascending, cursor)
    BY <1>1, <1>3
  <2>3. i \in Ahead(ascending, cursor) <=> ~Passed(index[i])
    BY <1>0, <2>1, ListingAssumption DEF Passed, Ahead, Indexed, Key
  <2>4. CASE Passed(index[i])
    <3>1. Passed(index[i])'
      BY <1>0, <1>1, <1>5, <2>1, <2>4 DEF Passed
    <3> QED
      BY <2>1, <2>2, <2>3, <2>4, <3>1
  <2>5. CASE ~Passed(index[i])
    <3>1. index[i] \in page' <=> Passed(index[i])'
      BY <1>1, <2>3, <2>5
    <3> QED
      BY <2>1, <2>2, <2>5, <3>1
  <2> QED
    BY <2>4, <2>5
<1>10. NothingIsShownYet'
  BY <1>1 DEF NothingIsShownYet
<1> QED
  BY <1>6, <1>7, <1>8, <1>9, <1>10 DEF IInv

\* Items, pages and what was shown agree in every reachable state of a walk.
THEOREM WalksAreSound == Spec => []IInv
<1>1. Init => IInv
  <2> SUFFICES ASSUME Init PROVE IInv
    OBVIOUS
  <2>1. table \in [Item -> Row \cup {Gone}]
    BY DEF Init, Row
  <2>2. \A i \in Item : /\ index[i] = IndexKey(i, table[i])
                        /\ index[i] \in Key \cup {Gone}
                        /\ index[i] # Gone => index[i][2] = i
    BY <2>1, IndexKeyIsAKey DEF Init
  <2>3. index \in [Item -> Key \cup {Gone}]
    <3>1. \A i \in Item : IndexKey(i, table[i]) \in Key \cup {Gone}
      BY <2>1, IndexKeyIsAKey
    <3>2. [i \in Item |-> IndexKey(i, table[i])] \in [Item -> Key \cup {Gone}]
      BY <3>1
    <3> QED
      BY <3>2 DEF Init
  <2>4. born = {i \in Item : table[i] # Gone} /\ born \subseteq Item
    BY DEF Init
  <2>5. TypeOK
    <3>1. ascending \in BOOLEAN
      BY DEF Init
    <3>2. /\ clock \in Instant
          /\ pc \in {"idle", "walking", "done"}
          /\ cursor \in Key \cup {NoCursor}
      BY DEF Init
    <3>3. page \subseteq Key /\ earlier \subseteq Key /\ steady \subseteq Item
      BY DEF Init
    <3> QED
      BY <2>1, <2>3, <2>4, <3>1, <3>2, <3>3 DEF TypeOK
  <2>6. KeysNameItems
    <3> SUFFICES ASSUME NEW i \in Item, index[i] # Gone
                 PROVE  index[i][2] = i
      BY DEF KeysNameItems
    <3> QED
      BY <2>2
  <2>7. RowsWereBorn
    BY <2>4 DEF RowsWereBorn
  <2>8. /\ SteadyItemsHavePlaces /\ ShownIsPassed /\ NothingIsShownYet
        /\ SteadyItemsAreShown /\ PagesFollowOneAnother
    BY DEF Init, SteadyItemsHavePlaces, ShownIsPassed, NothingIsShownYet,
           SteadyItemsAreShown, PagesFollowOneAnother
  <2> QED
    BY <2>5, <2>6, <2>7, <2>8 DEF IInv
<1>2. IInv /\ [Next]_vars => IInv'
  <2> SUFFICES ASSUME IInv, [Next]_vars PROVE IInv'
    OBVIOUS
  <2>1. CASE \E i \in Item : CreateItem(i) \/ PatchItem(i) \/ DeleteItem(i)
    BY <2>1, WritesKeepIInv
  <2>2. CASE \E i \in Item : Propagate(i)
    BY <2>2, CatchingUpKeepsIInv
  <2>3. CASE \E asc \in BOOLEAN, from \in {NoCursor, cursor} : BeginWalk(asc, from)
    BY <2>3, BeginningKeepsIInv
  <2>4. CASE NextPage
    BY <2>4, GoingOnKeepsIInv
  <2>5. CASE UNCHANGED vars
    BY <2>5 DEF vars, IInv, TypeOK, KeysNameItems, RowsWereBorn,
         SteadyItemsHavePlaces, ShownIsPassed, NothingIsShownYet,
         SteadyItemsAreShown, PagesFollowOneAnother, Passed, IndexKey, Precedes, Before
  <2> QED
    BY <2>1, <2>2, <2>3, <2>4, <2>5 DEF Next
<1> QED
  BY <1>1, <1>2, PTL DEF Spec

\* Types hold in every reachable state.
THEOREM ListingTypes == Spec => []TypeOK
<1>1. IInv => TypeOK
  BY DEF IInv
<1> QED
  BY <1>1, WalksAreSound, PTL

\* ListItems' promise for any number of items and pages: a steady item is
\* shown exactly at its place.
THEOREM SteadyItemsShown == Spec => []SteadyItemsAreShown
<1>1. IInv => SteadyItemsAreShown
  BY DEF IInv
<1> QED
  BY <1>1, WalksAreSound, PTL

\* No place is shown twice in a walk, so no walk is a circle.
THEOREM PagesInOrder == Spec => []PagesFollowOneAnother
<1>1. IInv => PagesFollowOneAnother
  BY DEF IInv
<1> QED
  BY <1>1, WalksAreSound, PTL
================================================================================
