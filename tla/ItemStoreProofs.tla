---------------------------- MODULE ItemStoreProofs ----------------------------
(***************************************************************************)
(* Proofs about ItemStore, for any number of requests, any manifest, any   *)
(* mutations, any staleness of reads, any retry limit and any number of    *)
(* copies that the SDK sends of a write.                                   *)
(*                                                                         *)
(* The argument: a draft is one operation on one committed record, and a   *)
(* conditional put succeeds only when the current row has that record's    *)
(* version.  In the item's first life versions name positions of the       *)
(* history, so the current row IS that record, and the put replaces what   *)
(* it was computed from however old the read was.  A create that is sent   *)
(* again after a deletion begins another life with the same versions; what *)
(* holds from there on is said without that.                               *)
(***************************************************************************)
EXTENDS ItemStore, ItemDomainProofs

\* The bookkeeping of a request.
RequestsAreOrderly ==
    \A r \in Request :
        /\ pc[r] = "idle" <=> ask[r] = NoAsk
        /\ pc[r] \in {"idle", "create"} => pin[r] = NoPin
        /\ pc[r] = "idle" => sent[r] = 0
        /\ pc[r] = "create" => ask[r] = Creating
        /\ pc[r] \in {"read", "put"} => ask[r] \in Mutation
        /\ pc[r] = "delete" => ask[r] = Deleting
        /\ pc[r] # "done" <=> answer[r] = Pending

\* The row is first written by a create.
HistoryBegins ==
    /\ rows[1] = NoRow
    /\ Len(rows) > 1 => rows[2] \in FirstRecord

\* What a create will send again is the item's first record.
CopiesAreOfTheFirst ==
    \A r \in Request : pc[r] = "create" => Len(rows) > 1 /\ draft[r] = rows[2]

IInv ==
    /\ TypeOK
    /\ HistoryBegins
    /\ VersionNamesOneRecord
    /\ SavedItemsAreSound
    /\ DraftIsOneOperation
    /\ CopiesAreOfTheFirst
    /\ RequestsAreOrderly

\* The part of TypeOK that is about requests.
LocalsTyped ==
    /\ pc \in [Request -> {"idle", "create", "read", "put", "delete", "done"}]
    /\ ask \in [Request -> Ask \cup {NoAsk}]
    /\ pin \in [Request -> Nat]
    /\ tries \in [Request -> 0..MaxConflictRetries]
    /\ draft \in [Request -> Item \cup {NoRow}]
    /\ sent \in [Request -> 0..MaxSends - 1]
    /\ answer \in [Request -> Answers \cup {Pending}]

-----------------------------------------------------------------------------
(***************************************************************************)
(* The history.                                                            *)
(***************************************************************************)

LEMMA HistoryIsASequence ==
    ASSUME TypeOK
    PROVE  /\ Len(rows) \in Nat \ {0}
           /\ DOMAIN rows = 1..Len(rows)
           /\ \A k \in 1..Len(rows) : rows[k] \in Item \cup {NoRow}
           /\ Row \in Item \cup {NoRow}
BY LenProperties, ElementOfSeq, EmptySeq DEF TypeOK, Row

\* Committing a row extends the history and keeps all of it.
LEMMA CommitExtends ==
    ASSUME TypeOK, NEW row \in Item \cup {NoRow}, Commit(row)
    PROVE  /\ rows' \in Seq(Item \cup {NoRow})
           /\ rows' # <<>>
           /\ Len(rows) \in Nat \ {0}
           /\ DOMAIN rows = 1..Len(rows)
           /\ Len(rows') = Len(rows) + 1
           /\ DOMAIN rows' = 1..Len(rows) + 1
           /\ \A k \in 1..Len(rows) : rows'[k] = rows[k]
           /\ rows'[Len(rows) + 1] = row
           /\ Row' = row
<1>1. rows \in Seq(Item \cup {NoRow}) /\ rows # <<>>
  BY DEF TypeOK
<1>2. rows' = Append(rows, row)
  BY DEF Commit
<1> QED
  BY <1>1, <1>2, AppendProperties, LenProperties, EmptySeq DEF Row

\* What may be committed: the next version of a record that is there, a
\* tombstone on one, or the record that the item was first made with.
Follows(row) ==
    /\ row = NoRow => Exists
    /\ row # NoRow =>
          /\ IsSound(row)
          /\ Exists => row.version = Row.version + 1
          /\ ~Exists => /\ row \in FirstRecord
                        /\ row.version = 1
                        /\ Len(rows) > 1 => row = rows[2]

\* The history stays well formed.
LEMMA CommitKeepsHistory ==
    ASSUME TypeOK, HistoryBegins, VersionNamesOneRecord, SavedItemsAreSound,
           NEW row \in Item \cup {NoRow}, Commit(row), Follows(row)
    PROVE  /\ HistoryBegins'
           /\ VersionNamesOneRecord'
           /\ SavedItemsAreSound'
<1> DEFINE n == Len(rows)
<1>1. /\ n \in Nat \ {0}
      /\ DOMAIN rows = 1..n
      /\ Len(rows') = n + 1
      /\ DOMAIN rows' = 1..n + 1
      /\ \A k \in 1..n : rows'[k] = rows[k]
      /\ rows'[n + 1] = row
      /\ Row = rows[n]
  BY CommitExtends DEF Row
<1>t. \A k \in 1..n : rows[k] \in Item \cup {NoRow}
  BY HistoryIsASequence
<1> HIDE DEF n
<1>a. n = 1 => ~Exists
  BY <1>1 DEF HistoryBegins, Exists
<1>b. n > 1 => 2 \in 1..n /\ rows'[2] = rows[2]
  BY <1>1
<1>c. n = 1 => rows'[2] = row
  BY <1>1
<1>d. n = 1 \/ n > 1
  BY <1>1
<1>e. Len(rows) = n
  BY DEF n
<1>2. HistoryBegins'
  <2>1. rows'[1] = NoRow
    BY <1>1 DEF HistoryBegins
  <2>2. rows'[2] \in FirstRecord
    <3>1. CASE n = 1
      BY <1>a, <1>c, <3>1 DEF Follows
    <3>2. CASE n > 1
      BY <1>b, <1>e, <3>2 DEF HistoryBegins
    <3> QED  BY <1>d, <3>1, <3>2
  <2> QED  BY <2>1, <2>2 DEF HistoryBegins, FirstRecord
<1>3. ASSUME NEW j \in DOMAIN rows', NEW k \in DOMAIN rows', j <= k, InOneLife(j, k)'
      PROVE  rows'[k].version = rows'[j].version + (k - j)
  <2>1. \A i \in j..k : rows'[i] # NoRow
    BY <1>3 DEF InOneLife
  <2>2. CASE k \in 1..n
    <3>1. j \in 1..n /\ j..k \subseteq 1..n
      BY <1>1, <1>3, <2>2
    <3>2. InOneLife(j, k)
      BY <1>1, <2>1, <3>1 DEF InOneLife
    <3> QED  BY <1>1, <1>3, <2>2, <3>1, <3>2 DEF VersionNamesOneRecord
  <2>3. CASE k = n + 1 /\ j = n + 1
    <3>1. n + 1 \in j..k
      BY <1>1, <2>3
    <3>2. row \in Item
      BY <1>1, <2>1, <3>1
    <3> QED  BY <1>1, <2>3, <3>2 DEF Item
  <2>4. CASE k = n + 1 /\ j \in 1..n
    <3>1. n + 1 \in j..k /\ n \in j..k /\ j..n \subseteq j..k /\ j..n \subseteq 1..n
      BY <1>1, <2>4
    <3>2. InOneLife(j, n)
      BY <1>1, <2>1, <3>1 DEF InOneLife
    <3>3. j <= n /\ j \in DOMAIN rows /\ n \in DOMAIN rows
      BY <1>1, <2>4
    <3>4. rows[n].version = rows[j].version + (n - j)
      BY <3>2, <3>3 DEF VersionNamesOneRecord
    <3>5. row # NoRow /\ Exists
      BY <1>1, <2>1, <3>1 DEF Exists
    <3>6. row.version = rows[n].version + 1
      BY <1>1, <3>5 DEF Follows
    <3>7. rows[j] \in Item
      BY <1>1, <1>t, <2>1, <2>4, <3>1
    <3>8. rows[j].version \in Nat
      BY <3>7 DEF Item
    <3>9. rows'[k] = row /\ rows'[j] = rows[j]
      BY <1>1, <2>4
    <3> QED  BY <1>1, <2>4, <3>4, <3>6, <3>8, <3>9
  <2> QED  BY <1>1, <2>2, <2>3, <2>4
<1>4. ASSUME NEW k \in DOMAIN rows', rows'[k] = NoRow, k < Len(rows')
      PROVE  rows'[k + 1] # NoRow /\ rows'[k + 1] = rows'[2] /\ rows'[2].version = 1
  <2>1. k \in 1..n /\ rows[k] = NoRow
    BY <1>1, <1>4
  <2>2. CASE k < n
    <3>1. k + 1 \in 1..n /\ n > 1
      BY <1>1, <2>1, <2>2
    <3>2. rows[k + 1] # NoRow /\ rows[k + 1] = rows[2] /\ rows[2].version = 1
      BY <1>1, <1>e, <2>1, <2>2 DEF VersionNamesOneRecord
    <3> QED  BY <1>1, <1>b, <3>1, <3>2
  <2>3. CASE k = n
    <3>1. ~Exists
      BY <1>1, <2>1, <2>3 DEF Exists
    <3>2. row # NoRow /\ row.version = 1 /\ (n > 1 => row = rows[2])
      BY <1>e, <3>1 DEF Follows
    <3>3. rows'[k + 1] = row
      BY <1>1, <2>3
    <3> QED  BY <1>b, <1>c, <1>d, <3>2, <3>3
  <2> QED  BY <1>1, <2>1, <2>2, <2>3
<1>5. VersionNamesOneRecord'
  BY <1>3, <1>4 DEF VersionNamesOneRecord
<1>6. SavedItemsAreSound'
  BY <1>1 DEF SavedItemsAreSound, Follows
<1> QED
  BY <1>2, <1>5, <1>6

\* In its first life, a record's version is its position in the history.
LEMMA VersionsArePositions ==
    ASSUME TypeOK, HistoryBegins, VersionNamesOneRecord, ~Reborn,
           NEW k \in DOMAIN rows, rows[k] # NoRow
    PROVE  rows[k] \in Item /\ rows[k].version = k - 1
<1>1. /\ Len(rows) \in Nat \ {0} /\ DOMAIN rows = 1..Len(rows)
      /\ rows[k] \in Item \cup {NoRow}
  BY HistoryIsASequence
<1>2. k # 1
  BY DEF HistoryBegins
<1>3. k \in 2..Len(rows) /\ 2 \in DOMAIN rows /\ 2 <= k
  BY <1>1, <1>2
<1>4. InOneLife(2, k)
  <2> SUFFICES ASSUME NEW i \in 2..k PROVE rows[i] # NoRow
    BY DEF InOneLife
  <2>1. i = k \/ i \in 2..Len(rows) - 1
    BY <1>1, <1>3
  <2> QED  BY <2>1 DEF Reborn
<1>5. rows[k].version = rows[2].version + (k - 2)
  BY <1>3, <1>4 DEF VersionNamesOneRecord
<1>6. rows[2].version = 1
  <2>1. 1 \in DOMAIN rows /\ 1 < Len(rows) /\ rows[1] = NoRow
    BY <1>1, <1>3 DEF HistoryBegins
  <2> QED  BY <2>1 DEF VersionNamesOneRecord
<1> QED  BY <1>1, <1>3, <1>5, <1>6

\* A life that is not the first begins when something is committed on a
\* tombstone that is not the first entry.
LEMMA RebornByCommit ==
    ASSUME TypeOK, NEW row \in Item \cup {NoRow}, Commit(row)
    PROVE  Reborn' <=> Reborn \/ (Len(rows) > 1 /\ ~Exists)
<1> DEFINE n == Len(rows)
<1>1. /\ n \in Nat \ {0} /\ Len(rows') = n + 1
      /\ \A k \in 1..n : rows'[k] = rows[k]
  BY CommitExtends
<1>2. Reborn' <=> \E k \in 2..n : rows[k] = NoRow
  <2>1. Len(rows') - 1 = n
    BY <1>1
  <2>2. \A k \in 2..n : k \in 1..n
    BY <1>1
  <2> HIDE DEF n
  <2> QED  BY <1>1, <2>1, <2>2 DEF Reborn
<1>3. (\E k \in 2..n : rows[k] = NoRow) <=>
         (\E k \in 2..n - 1 : rows[k] = NoRow) \/ (n > 1 /\ rows[n] = NoRow)
  <2> HIDE DEF n
  <2>1. \A k \in 2..n : k \in 2..n - 1 \/ k = n
    BY <1>1
  <2>2. \A k \in 2..n - 1 : k \in 2..n
    BY <1>1
  <2>3. (n > 1 => n \in 2..n) /\ (n \in 2..n => n > 1)
    BY <1>1
  <2>4. \A k \in 2..n : n > 1
    BY <1>1
  <2> QED  BY <2>1, <2>2, <2>3, <2>4
<1> QED  BY <1>2, <1>3 DEF Reborn, Exists, Row

LEMMA FirstHasOneLife ==
    ASSUME Len(rows) = 1
    PROVE  ~Reborn
<1>1. 2..Len(rows) - 1 = {}
  OBVIOUS
<1> QED  BY <1>1 DEF Reborn

-----------------------------------------------------------------------------
(***************************************************************************)
(* The inductive invariant.                                                *)
(***************************************************************************)

\* A commit keeps the invariant if requests stay orderly and a draft or a
\* create in progress afterwards was in progress before.
LEMMA CommitKeepsIInv ==
    ASSUME IInv, NEW row \in Item \cup {NoRow}, Commit(row), Follows(row),
           LocalsTyped', RequestsAreOrderly',
           \A q \in Request : pc'[q] = "put" =>
              /\ pc[q] = "put" /\ ask'[q] = ask[q] /\ pin'[q] = pin[q]
              /\ draft'[q] = draft[q],
           \A q \in Request : pc'[q] = "create" =>
              \/ pc[q] = "create" /\ draft'[q] = draft[q]
              \/ Len(rows) = 1 /\ draft'[q] = row
    PROVE  IInv'
<1>1. /\ rows' \in Seq(Item \cup {NoRow})
      /\ rows' # <<>>
      /\ Len(rows) \in Nat \ {0}
      /\ DOMAIN rows = 1..Len(rows)
      /\ Len(rows') = Len(rows) + 1
      /\ DOMAIN rows' = 1..Len(rows) + 1
      /\ \A k \in 1..Len(rows) : rows'[k] = rows[k]
      /\ rows'[Len(rows) + 1] = row
  BY CommitExtends DEF IInv
<1>2. HistoryBegins' /\ VersionNamesOneRecord' /\ SavedItemsAreSound'
  BY CommitKeepsHistory DEF IInv
<1>3. DraftIsOneOperation'
  <2> SUFFICES ASSUME NEW q \in Request, pc'[q] = "put"
               PROVE  \E k \in DOMAIN rows' :
                         /\ rows'[k] # NoRow
                         /\ ask'[q] \in Mutation
                         /\ Accepted(ask'[q], rows'[k])
                         /\ draft'[q] = Saved(ask'[q], rows'[k])
                         /\ pin'[q] # NoPin => pin'[q] = rows'[k].version
    BY DEF DraftIsOneOperation
  <2>1. /\ pc[q] = "put" /\ ask'[q] = ask[q] /\ pin'[q] = pin[q]
        /\ draft'[q] = draft[q]
    OBVIOUS
  <2>2. PICK k \in DOMAIN rows :
           /\ rows[k] # NoRow
           /\ ask[q] \in Mutation
           /\ Accepted(ask[q], rows[k])
           /\ draft[q] = Saved(ask[q], rows[k])
           /\ pin[q] # NoPin => pin[q] = rows[k].version
    BY <2>1 DEF DraftIsOneOperation, IInv
  <2>3. k \in DOMAIN rows' /\ rows'[k] = rows[k]
    BY <1>1
  <2> QED  BY <2>1, <2>2, <2>3
<1>4. CopiesAreOfTheFirst'
  <2> SUFFICES ASSUME NEW q \in Request, pc'[q] = "create"
               PROVE  Len(rows') > 1 /\ draft'[q] = rows'[2]
    BY DEF CopiesAreOfTheFirst
  <2>1. CASE pc[q] = "create" /\ draft'[q] = draft[q]
    <3>1. Len(rows) > 1 /\ draft[q] = rows[2]
      BY <2>1 DEF IInv, CopiesAreOfTheFirst
    <3> QED  BY <1>1, <2>1, <3>1
  <2>2. CASE Len(rows) = 1 /\ draft'[q] = row
    <3>1. rows'[2] = row /\ Len(rows') > 1
      BY <1>1, <2>2
    <3> QED  BY <2>2, <3>1
  <2> QED  BY <2>1, <2>2
<1> QED
  BY <1>1, <1>2, <1>3, <1>4 DEF IInv, TypeOK, LocalsTyped

\* So does a step that commits nothing; the drafts that it makes are given.
LEMMA NoCommitKeepsIInv ==
    ASSUME IInv, rows' = rows, LocalsTyped', RequestsAreOrderly',
           \A q \in Request : pc'[q] = "put" =>
              \/ /\ pc[q] = "put" /\ ask'[q] = ask[q] /\ pin'[q] = pin[q]
                 /\ draft'[q] = draft[q]
              \/ \E k \in DOMAIN rows :
                    /\ rows[k] # NoRow
                    /\ ask'[q] \in Mutation
                    /\ Accepted(ask'[q], rows[k])
                    /\ draft'[q] = Saved(ask'[q], rows[k])
                    /\ pin'[q] # NoPin => pin'[q] = rows[k].version,
           \A q \in Request : pc'[q] = "create" => pc[q] = "create" /\ draft'[q] = draft[q]
    PROVE  IInv'
<1>1. TypeOK'
  BY DEF IInv, TypeOK, LocalsTyped
<1>2. HistoryBegins' /\ VersionNamesOneRecord' /\ SavedItemsAreSound'
  BY DEF IInv, HistoryBegins, VersionNamesOneRecord, SavedItemsAreSound, InOneLife
<1>3. DraftIsOneOperation'
  <2> SUFFICES ASSUME NEW q \in Request, pc'[q] = "put"
               PROVE  \E k \in DOMAIN rows :
                         /\ rows[k] # NoRow
                         /\ ask'[q] \in Mutation
                         /\ Accepted(ask'[q], rows[k])
                         /\ draft'[q] = Saved(ask'[q], rows[k])
                         /\ pin'[q] # NoPin => pin'[q] = rows[k].version
    BY DEF DraftIsOneOperation
  <2>1. CASE /\ pc[q] = "put" /\ ask'[q] = ask[q] /\ pin'[q] = pin[q]
             /\ draft'[q] = draft[q]
    BY <2>1 DEF IInv, DraftIsOneOperation
  <2> QED  BY <2>1
<1>4. CopiesAreOfTheFirst'
  BY DEF IInv, CopiesAreOfTheFirst
<1> QED
  BY <1>1, <1>2, <1>3, <1>4 DEF IInv

\* What Reply, Unheard and Conflicted do to the locals of one request, and
\* that they leave the others' alone.
OthersKeep(r) ==
    \A q \in Request \ {r} : /\ pc'[q] = pc[q] /\ tries'[q] = tries[q]
                              /\ draft'[q] = draft[q] /\ sent'[q] = sent[q]
                              /\ answer'[q] = answer[q]

LEMMA TypeOKHasLocals == TypeOK => LocalsTyped
BY DEF TypeOK, LocalsTyped

LEMMA ReplyEnds ==
    ASSUME LocalsTyped, NEW r \in Request, NEW a \in Answers, Reply(r, a),
           UNCHANGED <<ask, pin>>
    PROVE  /\ LocalsTyped' /\ OthersKeep(r)
           /\ pc'[r] = "done" /\ answer'[r] = a /\ a # Pending /\ sent'[r] = 0
<1>1. 0 \in 0..MaxConflictRetries /\ 0 \in 0..MaxSends - 1
  BY RequestAssumption
<1>2. a # Pending
  BY DEF Answers, Pending
<1> QED
  BY <1>1, <1>2 DEF Reply, Goto, LocalsTyped, OthersKeep

LEMMA UnheardWaits ==
    ASSUME LocalsTyped, NEW r \in Request, Unheard(r), UNCHANGED <<ask, pin>>
    PROVE  /\ LocalsTyped' /\ OthersKeep(r)
           /\ pc'[r] = pc[r] /\ tries'[r] = tries[r] /\ draft'[r] = draft[r]
           /\ answer'[r] = answer[r] /\ sent'[r] = sent[r] + 1
<1>1. sent[r] + 1 \in 0..MaxSends - 1
  BY RequestAssumption DEF Unheard, LocalsTyped
<1> QED
  BY <1>1 DEF Unheard, LocalsTyped, OthersKeep

\* After a conflict a request is answered or reads again, within its retries.
LEMMA ConflictedEndsOrRetries ==
    ASSUME LocalsTyped, NEW r \in Request, Conflicted(r), UNCHANGED <<ask, pin>>
    PROVE  /\ LocalsTyped' /\ OthersKeep(r) /\ sent'[r] = 0
           /\ \/ pc'[r] = "done" /\ answer'[r] = "conflict"
              \/ /\ pc'[r] = "read" /\ answer'[r] = answer[r]
                 /\ tries[r] < MaxConflictRetries /\ tries'[r] = tries[r] + 1
<1>1. CASE pin[r] # NoPin \/ tries[r] >= MaxConflictRetries
  <2>1. Reply(r, "conflict")
    BY <1>1 DEF Conflicted
  <2> QED  BY <2>1, ReplyEnds DEF Answers
<1>2. CASE ~(pin[r] # NoPin \/ tries[r] >= MaxConflictRetries)
  <2>1. /\ tries' = [tries EXCEPT ![r] = tries[r] + 1]
        /\ draft' = [draft EXCEPT ![r] = NoRow]
        /\ sent' = [sent EXCEPT ![r] = 0]
        /\ pc' = [pc EXCEPT ![r] = "read"]
        /\ answer' = answer
    BY <1>2 DEF Conflicted, ReadAgain, Goto
  <2>2. tries[r] + 1 \in 0..MaxConflictRetries /\ 0 \in 0..MaxSends - 1
    BY <1>2, RequestAssumption DEF LocalsTyped
  <2>3. tries[r] < MaxConflictRetries
    BY <1>2, RequestAssumption DEF LocalsTyped
  <2> QED  BY <2>1, <2>2, <2>3 DEF LocalsTyped, OthersKeep
<1> QED
  BY <1>1, <1>2

\* What the steps of a request in progress have in common: it is answered,
\* waits for another copy of its write, or goes back to reading.
Settles(r) ==
    \/ \E a \in Answers : Reply(r, a)
    \/ pc[r] \in {"create", "put", "delete"} /\ Unheard(r)
    \/ pc[r] = "put" /\ Conflicted(r)

\* An answer, a copy or another attempt, after at most one proper commit.
LEMMA SettlingKeepsIInv ==
    ASSUME IInv, NEW r \in Request, Settles(r), UNCHANGED <<ask, pin>>,
           pc[r] # "idle",
           \/ rows' = rows
           \/ \E row \in Item \cup {NoRow} : Commit(row) /\ Follows(row)
    PROVE  IInv'
<1>0. LocalsTyped
  BY TypeOKHasLocals DEF IInv
<1>1. /\ LocalsTyped' /\ OthersKeep(r)
      /\ \/ pc'[r] = "done" /\ answer'[r] # Pending
         \/ /\ pc'[r] = pc[r] /\ draft'[r] = draft[r] /\ answer'[r] = answer[r]
            /\ pc[r] \in {"create", "put", "delete"}
         \/ pc'[r] = "read" /\ answer'[r] = answer[r] /\ pc[r] = "put"
  <2>1. CASE \E a \in Answers : Reply(r, a)
    BY <1>0, <2>1, ReplyEnds
  <2>2. CASE pc[r] \in {"create", "put", "delete"} /\ Unheard(r)
    BY <1>0, <2>2, UnheardWaits
  <2>3. CASE pc[r] = "put" /\ Conflicted(r)
    BY <1>0, <2>3, ConflictedEndsOrRetries DEF Pending
  <2> QED  BY <2>1, <2>2, <2>3 DEF Settles
<1>2. RequestsAreOrderly'
  <2>1. ASSUME NEW q \in Request, q # r
        PROVE  pc'[q] = pc[q] /\ sent'[q] = sent[q] /\ answer'[q] = answer[q]
    BY <1>1, <2>1 DEF OthersKeep
  <2>2. /\ pc'[r] # "idle"
        /\ pc'[r] = "create" => pc[r] = "create"
        /\ pc'[r] \in {"read", "put"} => pc[r] \in {"read", "put"}
        /\ pc'[r] = "delete" => pc[r] = "delete"
        /\ pc'[r] # "done" <=> answer'[r] = Pending
    <3>1. pc[r] # "done" <=> answer[r] = Pending
      BY DEF IInv, RequestsAreOrderly
    <3> QED  BY <1>1, <3>1
  <2>3. ask' = ask /\ pin' = pin
    OBVIOUS
  <2> QED  BY <2>1, <2>2, <2>3 DEF IInv, RequestsAreOrderly
<1>3. \A q \in Request : pc'[q] = "put" =>
         /\ pc[q] = "put" /\ ask'[q] = ask[q] /\ pin'[q] = pin[q]
         /\ draft'[q] = draft[q]
  BY <1>1 DEF OthersKeep
<1>4. \A q \in Request : pc'[q] = "create" => pc[q] = "create" /\ draft'[q] = draft[q]
  BY <1>1 DEF OthersKeep
<1>5. CASE rows' = rows
  BY <1>1, <1>2, <1>3, <1>4, <1>5, NoCommitKeepsIInv
<1>6. ASSUME NEW row \in Item \cup {NoRow}, Commit(row), Follows(row)
      PROVE  IInv'
  BY <1>1, <1>2, <1>3, <1>4, <1>6, CommitKeepsIInv
<1> QED
  BY <1>5, <1>6

-----------------------------------------------------------------------------
\* Each action keeps the inductive invariant.
LEMMA CreateItemKeepsIInv ==
    ASSUME IInv, NEW r \in Request, CreateItem(r)
    PROVE  IInv'
<1>1. /\ pc[r] = "idle" /\ Len(rows) = 1
      /\ ask' = [ask EXCEPT ![r] = Creating]
      /\ pin' = pin
  BY DEF CreateItem
<1>2. PICK content \in Creation :
        LET item == Normalize(NewItem(content))
        IN  IF Validate(NewItem(content))
            THEN \/ Commit(item) /\ \E a \in {"ok", "timeout"} : Reply(r, a)
                 \/ /\ Commit(item)
                    /\ MaxSends > 1
                    /\ Goto(r, "create")
                    /\ draft' = [draft EXCEPT ![r] = item]
                    /\ sent' = [sent EXCEPT ![r] = 1]
                    /\ UNCHANGED <<tries, answer>>
                 \/ rows' = rows /\ Reply(r, "timeout")
            ELSE rows' = rows /\ Reply(r, "invalid")
  BY DEF CreateItem
<1> DEFINE item == Normalize(NewItem(content))
<1>3. Validate(NewItem(content)) =>
         /\ item \in Item /\ item.version = 1 /\ IsSound(item)
         /\ item \in FirstRecord
  <2> SUFFICES ASSUME Validate(NewItem(content))
               PROVE  /\ item \in Item /\ item.version = 1 /\ IsSound(item)
                      /\ item \in FirstRecord
    OBVIOUS
  <2>1. item \in Item /\ item.version = 1 /\ IsSound(item)
    BY NewItemIsSound, RequestAssumption
  <2> QED  BY <2>1 DEF FirstRecord
<1>4. \/ /\ \E a \in Answers : Reply(r, a)
         /\ rows' = rows \/ (Validate(NewItem(content)) /\ Commit(item))
      \/ /\ Validate(NewItem(content)) /\ Commit(item)
         /\ MaxSends > 1
         /\ Goto(r, "create")
         /\ draft' = [draft EXCEPT ![r] = item]
         /\ sent' = [sent EXCEPT ![r] = 1]
         /\ UNCHANGED <<tries, answer>>
  BY <1>2 DEF Answers
<1> HIDE DEF item
<1>5. LocalsTyped /\ LocalsTyped' /\ OthersKeep(r)
      /\ \/ /\ pc'[r] = "done" /\ answer'[r] # Pending
            /\ rows' = rows \/ (Validate(NewItem(content)) /\ Commit(item))
         \/ /\ pc'[r] = "create" /\ draft'[r] = item /\ answer'[r] = answer[r]
            /\ Validate(NewItem(content)) /\ Commit(item)
  <2>0. LocalsTyped
    BY TypeOKHasLocals DEF IInv
  <2>1. /\ Creating \in Ask
        /\ ask' \in [Request -> Ask \cup {NoAsk}]
    BY <1>1, <2>0 DEF LocalsTyped, Ask
  <2>2. CASE \E a \in Answers : Reply(r, a)
    <3>1. PICK a \in Answers : Reply(r, a)
      BY <2>2
    <3>2. a # Pending /\ 0 \in 0..MaxConflictRetries /\ 0 \in 0..MaxSends - 1
      BY RequestAssumption DEF Answers, Pending
    <3>3. LocalsTyped' /\ OthersKeep(r) /\ pc'[r] = "done" /\ answer'[r] # Pending
      BY <1>1, <2>0, <2>1, <3>1, <3>2 DEF Reply, Goto, LocalsTyped, OthersKeep
    <3>4. pc'[r] # "create"
      BY <3>3
    <3>5. ~Goto(r, "create")
      BY <2>0, <3>4 DEF Goto, LocalsTyped
    <3> QED  BY <1>4, <2>0, <3>3, <3>5
  <2>3. CASE /\ Validate(NewItem(content)) /\ Commit(item)
             /\ MaxSends > 1
             /\ Goto(r, "create")
             /\ draft' = [draft EXCEPT ![r] = item]
             /\ sent' = [sent EXCEPT ![r] = 1]
             /\ UNCHANGED <<tries, answer>>
    <3>1. 1 \in 0..MaxSends - 1
      BY <2>3, RequestAssumption
    <3> QED
      BY <1>1, <1>3, <2>0, <2>1, <2>3, <3>1 DEF Goto, LocalsTyped, OthersKeep
  <2> QED  BY <1>4, <2>2, <2>3
<1>6. RequestsAreOrderly'
  <2>0. /\ \A q \in Request : q # r => ask'[q] = ask[q]
        /\ ask'[r] = Creating /\ Creating # NoAsk /\ pin'[r] = NoPin
        /\ answer[r] = Pending
    BY <1>1, <1>5, RequestAssumption DEF LocalsTyped, IInv, RequestsAreOrderly
  <2>1. ASSUME NEW q \in Request, q # r
        PROVE  pc'[q] = pc[q] /\ sent'[q] = sent[q] /\ answer'[q] = answer[q]
    BY <1>5, <2>1 DEF OthersKeep
  <2>2. /\ pc'[r] \in {"done", "create"}
        /\ pc'[r] # "done" <=> answer'[r] = Pending
    BY <1>5, <2>0
  <2> QED  BY <1>1, <2>0, <2>1, <2>2 DEF IInv, RequestsAreOrderly
<1>7. \A q \in Request : pc'[q] = "put" =>
         /\ pc[q] = "put" /\ ask'[q] = ask[q] /\ pin'[q] = pin[q]
         /\ draft'[q] = draft[q]
  <2> SUFFICES ASSUME NEW q \in Request, pc'[q] = "put"
               PROVE  /\ pc[q] = "put" /\ ask'[q] = ask[q] /\ pin'[q] = pin[q]
                      /\ draft'[q] = draft[q]
    OBVIOUS
  <2>1. q # r
    BY <1>5
  <2> QED  BY <1>1, <1>5, <2>1 DEF OthersKeep, LocalsTyped
<1>8. CASE rows' = rows /\ pc'[r] = "done"
  <2>1. \A q \in Request : pc'[q] = "create" => pc[q] = "create" /\ draft'[q] = draft[q]
    BY <1>5, <1>8 DEF OthersKeep
  <2> QED  BY <1>5, <1>6, <1>7, <1>8, <2>1, NoCommitKeepsIInv
<1>9. CASE Validate(NewItem(content)) /\ Commit(item) /\ (pc'[r] = "create" => draft'[r] = item)
  <2>1. ~Exists
    BY <1>1 DEF IInv, HistoryBegins, Exists, Row
  <2>2. NoRow \notin Item /\ item \in Item
    BY <1>3, <1>9, RequestAssumption
  <2>3. Follows(item)
    BY <1>1, <1>3, <1>9, <2>1, <2>2 DEF Follows
  <2>4. \A q \in Request : pc'[q] = "create" =>
           \/ pc[q] = "create" /\ draft'[q] = draft[q]
           \/ Len(rows) = 1 /\ draft'[q] = item
    BY <1>1, <1>5, <1>9 DEF OthersKeep
  <2> QED  BY <1>5, <1>6, <1>7, <1>9, <2>2, <2>3, <2>4, CommitKeepsIInv
<1> QED
  BY <1>5, <1>8, <1>9

\* A create sent again finds a row, or commits the item's first record.
LEMMA CreateAgainKeepsIInv ==
    ASSUME IInv, NEW r \in Request, CreateAgain(r)
    PROVE  IInv'
<1>1. pc[r] = "create" /\ UNCHANGED <<ask, pin>>
  BY DEF CreateAgain
<1>2. Settles(r)
  BY <1>1 DEF CreateAgain, Settles, Answers
<1>3. CASE Exists
  BY <1>1, <1>2, <1>3, SettlingKeepsIInv DEF CreateAgain
<1>4. CASE ~Exists
  <2>1. Commit(draft[r]) /\ Len(rows) > 1 /\ draft[r] = rows[2]
    BY <1>1, <1>4 DEF CreateAgain, IInv, CopiesAreOfTheFirst
  <2>2. /\ DOMAIN rows = 1..Len(rows) /\ Len(rows) \in Nat \ {0}
        /\ \A k \in 1..Len(rows) : rows[k] \in Item \cup {NoRow}
    BY HistoryIsASequence DEF IInv
  <2>3. 1 \in DOMAIN rows /\ 2 \in DOMAIN rows /\ 1 < Len(rows)
    BY <2>1, <2>2
  <2>4. rows[2] # NoRow /\ rows[2].version = 1
    <3>1. rows[1] = NoRow
      BY DEF IInv, HistoryBegins
    <3>2. rows[1 + 1] # NoRow /\ rows[2].version = 1
      BY <2>3, <3>1 DEF IInv, VersionNamesOneRecord
    <3> QED  BY <3>2
  <2>5. rows[2] \in Item /\ IsSound(rows[2]) /\ rows[2] \in FirstRecord
    BY <2>1, <2>2, <2>3, <2>4 DEF IInv, SavedItemsAreSound, HistoryBegins
  <2>6. Follows(rows[2])
    BY <1>4, <2>4, <2>5 DEF Follows
  <2> QED  BY <1>1, <1>2, <2>1, <2>5, <2>6, SettlingKeepsIInv
<1> QED  BY <1>3, <1>4

\* A new request has no draft yet.
LEMMA BeginKeepsIInv ==
    ASSUME IInv, NEW r \in Request, Begin(r)
    PROVE  IInv'
<1>1. PICK op \in Mutation \cup {Deleting}, v \in KnownVersions \cup {NoPin} :
         /\ ask' = [ask EXCEPT ![r] = op]
         /\ pin' = [pin EXCEPT ![r] = v]
         /\ pc' = [pc EXCEPT ![r] = IF op = Deleting THEN "delete" ELSE "read"]
  BY DEF Begin, Goto
<1>2. UNCHANGED <<rows, tries, draft, sent, answer>> /\ pc[r] = "idle"
  BY DEF Begin
<1>3. v \in Nat
  <2>1. \A k \in DOMAIN rows : rows[k] # NoRow => rows[k].version \in Nat
    BY HistoryIsASequence DEF IInv, Item
  <2> QED  BY <2>1 DEF KnownVersions, NoPin
<1>4. op # NoAsk /\ (op # Deleting => op \in Mutation)
  BY RequestAssumption
<1>5. LocalsTyped /\ LocalsTyped'
  <2>1. LocalsTyped
    BY TypeOKHasLocals DEF IInv
  <2> QED  BY <1>1, <1>2, <1>3, <2>1 DEF LocalsTyped, Ask
<1>6. RequestsAreOrderly'
  <2>1. /\ \A q \in Request : q # r => /\ pc'[q] = pc[q] /\ ask'[q] = ask[q]
                                       /\ pin'[q] = pin[q]
        /\ ask'[r] = op
        /\ pc'[r] = IF op = Deleting THEN "delete" ELSE "read"
    BY <1>1, <1>5 DEF LocalsTyped
  <2>2. sent' = sent /\ answer' = answer
    BY <1>2
  <2> QED  BY <1>2, <1>4, <2>1, <2>2 DEF IInv, RequestsAreOrderly
<1>7. \A q \in Request : pc'[q] = "put" =>
         /\ pc[q] = "put" /\ ask'[q] = ask[q] /\ pin'[q] = pin[q]
         /\ draft'[q] = draft[q]
  BY <1>1, <1>2, <1>5 DEF LocalsTyped
<1>8. \A q \in Request : pc'[q] = "create" => pc[q] = "create" /\ draft'[q] = draft[q]
  BY <1>1, <1>2, <1>5 DEF LocalsTyped
<1> QED
  BY <1>2, <1>5, <1>6, <1>7, <1>8, NoCommitKeepsIInv

\* A draft is made from one record of the history.
LEMMA ReadItemKeepsIInv ==
    ASSUME IInv, NEW r \in Request, ReadItem(r)
    PROVE  IInv'
<1>1. /\ pc[r] = "read"
      /\ UNCHANGED <<rows, ask, pin>>
      /\ ask[r] \in Mutation
  BY DEF ReadItem, IInv, RequestsAreOrderly
<1>2. PICK k \in DOMAIN rows :
         \/ \E a \in Answers : Reply(r, a)
         \/ /\ rows[k] # NoRow
            /\ pin[r] # NoPin => pin[r] = rows[k].version
            /\ Accepted(ask[r], rows[k])
            /\ draft' = [draft EXCEPT ![r] = Saved(ask[r], rows[k])]
            /\ Goto(r, "put")
            /\ UNCHANGED <<tries, sent, answer>>
  <2>1. PICK item \in Readable :
          IF item = NoRow
          THEN Reply(r, "notFound")
          ELSE IF pin[r] # NoPin /\ pin[r] # item.version
          THEN Reply(r, "conflict")
          ELSE IF Refusal(ask[r], item) # "none"
          THEN Reply(r, Refusal(ask[r], item))
          ELSE IF ~Validate(Mutated(ask[r], item))
          THEN Reply(r, "invalid")
          ELSE /\ draft' = [draft EXCEPT ![r] = Saved(ask[r], item)]
               /\ Goto(r, "put")
               /\ UNCHANGED <<tries, sent, answer>>
    BY DEF ReadItem
  <2>2. PICK k \in DOMAIN rows : item = rows[k]
    BY DEF Readable
  <2>3. Refusal(ask[r], item) \in {"none", "notFound", "badRequest"}
    BY DEF Refusal
  <2> QED  BY <2>1, <2>2, <2>3 DEF Accepted, Answers
<1>3. CASE \E a \in Answers : Reply(r, a)
  BY <1>1, <1>3, SettlingKeepsIInv DEF Settles
<1>4. ASSUME rows[k] # NoRow,
             pin[r] # NoPin => pin[r] = rows[k].version,
             Accepted(ask[r], rows[k]),
             draft' = [draft EXCEPT ![r] = Saved(ask[r], rows[k])],
             Goto(r, "put"),
             UNCHANGED <<tries, sent, answer>>
      PROVE  IInv'
  <2>0. LocalsTyped
    BY TypeOKHasLocals DEF IInv
  <2>1. rows[k] \in Item
    BY <1>4, HistoryIsASequence DEF IInv
  <2>2. Saved(ask[r], rows[k]) \in Item
    BY <1>1, <1>4, <2>1, SavedIsSound, RequestAssumption
  <2>3. pc' = [pc EXCEPT ![r] = "put"]
    BY <1>4 DEF Goto
  <2>4. LocalsTyped'
    BY <1>1, <1>4, <2>0, <2>2, <2>3 DEF LocalsTyped
  <2>5. /\ pc'[r] = "put" /\ draft'[r] = Saved(ask[r], rows[k])
        /\ \A q \in Request : q # r => pc'[q] = pc[q] /\ draft'[q] = draft[q]
    BY <1>4, <2>0, <2>3 DEF LocalsTyped
  <2>6. /\ ask' = ask /\ pin' = pin /\ sent' = sent /\ answer' = answer
    BY <1>1, <1>4
  <2>7. RequestsAreOrderly'
    BY <1>1, <2>5, <2>6 DEF IInv, RequestsAreOrderly
  <2>8. \A q \in Request : pc'[q] = "put" =>
           \/ /\ pc[q] = "put" /\ ask'[q] = ask[q] /\ pin'[q] = pin[q]
              /\ draft'[q] = draft[q]
           \/ \E j \in DOMAIN rows :
                 /\ rows[j] # NoRow
                 /\ ask'[q] \in Mutation
                 /\ Accepted(ask'[q], rows[j])
                 /\ draft'[q] = Saved(ask'[q], rows[j])
                 /\ pin'[q] # NoPin => pin'[q] = rows[j].version
    BY <1>1, <1>4, <2>5, <2>6
  <2>9. \A q \in Request : pc'[q] = "create" => pc[q] = "create" /\ draft'[q] = draft[q]
    BY <2>5
  <2> QED  BY <1>1, <2>4, <2>7, <2>8, <2>9, NoCommitKeepsIInv
<1> QED
  BY <1>2, <1>3, <1>4

\* The heart of the matter: when a put's condition holds, the record it was
\* computed from has the current row's version, and in the item's first life
\* it is the current row.
LEMMA PutIsOnTheRecordRead ==
    ASSUME IInv, NEW r \in Request, pc[r] = "put", PutCondition(r)
    PROVE  /\ Row \in Item /\ Exists
           /\ ask[r] \in Mutation /\ ask[r] \in MutationOp
           /\ pin[r] # NoPin => pin[r] = Row.version
           /\ \E k \in DOMAIN rows :
                 /\ rows[k] \in Item /\ rows[k] # NoRow /\ IsSound(rows[k])
                 /\ rows[k].version = Row.version
                 /\ Accepted(ask[r], rows[k])
                 /\ draft[r] = Saved(ask[r], rows[k])
                 /\ ~Reborn => rows[k] = Row
<1>1. PICK k \in DOMAIN rows :
         /\ rows[k] # NoRow
         /\ ask[r] \in Mutation
         /\ Accepted(ask[r], rows[k])
         /\ draft[r] = Saved(ask[r], rows[k])
         /\ pin[r] # NoPin => pin[r] = rows[k].version
  BY DEF IInv, DraftIsOneOperation
<1>2. /\ Len(rows) \in Nat \ {0}
      /\ DOMAIN rows = 1..Len(rows)
      /\ \A j \in DOMAIN rows : rows[j] \in Item \cup {NoRow}
      /\ Row \in Item \cup {NoRow}
  BY HistoryIsASequence DEF IInv
<1>3. rows[k] \in Item /\ IsSound(rows[k])
  BY <1>1, <1>2 DEF IInv, SavedItemsAreSound
<1>4. ask[r] \in MutationOp
  BY <1>1, RequestAssumption
<1>5. draft[r].version = rows[k].version + 1 /\ rows[k].version \in Nat
  BY <1>1, <1>3, <1>4, SavedIsSound DEF Item
<1>6. Exists /\ Row \in Item
  BY <1>2 DEF PutCondition, IsCurrent, Exists
<1>7. Row.version = rows[k].version
  BY <1>5 DEF PutCondition, IsCurrent
<1>8. ASSUME ~Reborn PROVE rows[k] = Row
  <2>1. rows[k].version = k - 1
    BY <1>1, <1>8, VersionsArePositions DEF IInv
  <2>2. Len(rows) \in DOMAIN rows /\ rows[Len(rows)] # NoRow
    BY <1>2, <1>6 DEF Exists, Row
  <2>3. Row.version = Len(rows) - 1
    BY <1>8, <2>2, VersionsArePositions DEF IInv, Row
  <2>4. k = Len(rows)
    BY <1>2, <1>7, <2>1, <2>3
  <2> QED  BY <2>4 DEF Row
<1> QED
  BY <1>1, <1>3, <1>4, <1>6, <1>7, <1>8

\* A put commits a sound record, one version on.
LEMMA PutItemKeepsIInv ==
    ASSUME IInv, NEW r \in Request, PutItem(r)
    PROVE  IInv'
<1>1. pc[r] = "put" /\ PutCondition(r) /\ Commit(draft[r]) /\ UNCHANGED <<ask, pin>>
  BY DEF PutItem
<1>2. Settles(r)
  BY <1>1 DEF PutItem, Settles, Answers
<1>3. /\ Row \in Item /\ Exists /\ ask[r] \in MutationOp
  BY <1>1, PutIsOnTheRecordRead
<1>4. PICK k \in DOMAIN rows :
         /\ rows[k] \in Item /\ IsSound(rows[k])
         /\ rows[k].version = Row.version
         /\ Accepted(ask[r], rows[k])
         /\ draft[r] = Saved(ask[r], rows[k])
  BY <1>1, PutIsOnTheRecordRead
<1>5. /\ draft[r] \in Item
      /\ draft[r].version = Row.version + 1
      /\ IsSound(draft[r])
  BY <1>3, <1>4, SavedIsSound
<1>6. Follows(draft[r])
  BY <1>3, <1>5 DEF Follows
<1> QED
  BY <1>1, <1>2, <1>5, <1>6, SettlingKeepsIInv

\* A delete commits a tombstone on a row that is there.
LEMMA DeleteItemKeepsIInv ==
    ASSUME IInv, NEW r \in Request, DeleteItem(r)
    PROVE  IInv'
<1>1. pc[r] = "delete" /\ UNCHANGED <<ask, pin>>
  BY DEF DeleteItem
<1>2. DeleteRefusal(r) \in Answers
  BY DEF DeleteRefusal, Answers
<1>3. Settles(r)
  BY <1>1, <1>2 DEF DeleteItem, Settles, Answers
<1>4. \/ rows' = rows
      \/ Commit(NoRow) /\ Follows(NoRow)
  BY DEF DeleteItem, DeleteCondition, Follows
<1> QED
  BY <1>1, <1>3, <1>4, SettlingKeepsIInv

\* Every step keeps the invariant.
LEMMA NextKeepsIInv ==
    ASSUME IInv, [Next]_vars
    PROVE  IInv'
<1>1. CASE UNCHANGED vars
  BY <1>1 DEF IInv, vars, TypeOK, HistoryBegins, VersionNamesOneRecord, InOneLife,
              SavedItemsAreSound, DraftIsOneOperation, CopiesAreOfTheFirst,
              RequestsAreOrderly
<1>2. ASSUME NEW r \in Request,
             CreateItem(r) \/ Begin(r) \/ Step(r) \/ TimeOut(r)
      PROVE  IInv'
  <2>1. CASE CreateItem(r)
    BY <2>1, CreateItemKeepsIInv
  <2>2. CASE Begin(r)
    BY <2>2, BeginKeepsIInv
  <2>3. CASE CreateAgain(r)
    BY <2>3, CreateAgainKeepsIInv
  <2>4. CASE ReadItem(r)
    BY <2>4, ReadItemKeepsIInv
  <2>5. CASE PutItem(r)
    BY <2>5, PutItemKeepsIInv
  <2>6. CASE PutRefused(r)
    BY <2>6, SettlingKeepsIInv DEF PutRefused, Settles
  <2>7. CASE DeleteItem(r)
    BY <2>7, DeleteItemKeepsIInv
  <2>8. CASE TimeOut(r)
    BY <2>8, SettlingKeepsIInv DEF TimeOut, Settles, Answers
  <2> QED  BY <1>2, <2>1, <2>2, <2>3, <2>4, <2>5, <2>6, <2>7, <2>8 DEF Step
<1> QED
  BY <1>1, <1>2 DEF Next

\* The empty history satisfies it.
LEMMA InitEstablishesIInv == Init => IInv
<1> SUFFICES ASSUME Init PROVE IInv
  OBVIOUS
<1>1. /\ rows = <<NoRow>>
      /\ rows \in Seq(Item \cup {NoRow})
      /\ rows # <<>>
      /\ Len(rows) = 1
      /\ DOMAIN rows = {1}
      /\ rows[1] = NoRow
  BY DEF Init
<1>2. TypeOK
  BY <1>1, RequestAssumption DEF Init, TypeOK, NoPin
<1>3. RequestsAreOrderly /\ DraftIsOneOperation /\ CopiesAreOfTheFirst
  BY DEF Init, RequestsAreOrderly, DraftIsOneOperation, CopiesAreOfTheFirst
<1>4. VersionNamesOneRecord
  <2>1. \A j, k \in DOMAIN rows : ~InOneLife(j, k) \/ ~(j <= k)
    <3> SUFFICES ASSUME NEW j \in DOMAIN rows, NEW k \in DOMAIN rows
                 PROVE  ~InOneLife(j, k)
      OBVIOUS
    <3>1. j = 1 /\ k = 1 /\ 1 \in j..k
      BY <1>1
    <3> QED  BY <1>1, <3>1 DEF InOneLife
  <2>2. \A k \in DOMAIN rows : ~(k < Len(rows))
    BY <1>1
  <2> QED  BY <2>1, <2>2 DEF VersionNamesOneRecord
<1> QED
  BY <1>1, <1>2, <1>3, <1>4 DEF IInv, HistoryBegins, SavedItemsAreSound

-----------------------------------------------------------------------------
\* The inductive invariant holds in every reachable state.
THEOREM Invariance == Spec => []IInv
<1>1. Init => IInv
  BY InitEstablishesIInv
<1>2. IInv /\ [Next]_vars => IInv'
  BY NextKeepsIInv
<1> QED
  BY <1>1, <1>2, PTL DEF Spec

\* Every variable keeps its type, whatever the manifest and the operations.
THEOREM TypeCorrect == Spec => []TypeOK
<1>1. IInv => TypeOK
  BY DEF IInv
<1> QED
  BY <1>1, Invariance, PTL

\* Versions count up by one as long as an item lives, and if it lives again
\* after a deletion, it does so as it was first made: within one life an ETag
\* names one saved record (CreateItem, putItemIfVersion, DeleteItem).
THEOREM VersionsNameRecords == Spec => []VersionNamesOneRecord
<1>1. IInv => VersionNamesOneRecord
  BY DEF IInv
<1> QED
  BY <1>1, Invariance, PTL

\* No interleaving saves an item that breaks its manifest, holds an upload
\* twice or shows a cover it does not have.
THEOREM SavedItemsStaySound == Spec => []SavedItemsAreSound
<1>1. IInv => SavedItemsAreSound
  BY DEF IInv
<1> QED
  BY <1>1, Invariance, PTL

\* Every draft in flight is one operation on one committed record.
THEOREM DraftsAreOneOperation == Spec => []DraftIsOneOperation
<1>1. IInv => DraftIsOneOperation
  BY DEF IInv
<1> QED
  BY <1>1, Invariance, PTL

-----------------------------------------------------------------------------
(***************************************************************************)
(* The store implements the atomic item.                                   *)
(***************************************************************************)
\* What a commit is to the abstract item.
LEMMA CommitIsBecomes ==
    ASSUME IInv, NEW row \in Item \cup {NoRow}, Commit(row)
    PROVE  Atomic!Becomes(row)
<1>1. /\ DOMAIN rows = 1..Len(rows) /\ Len(rows) \in Nat \ {0}
      /\ DOMAIN rows' = 1..Len(rows) + 1
      /\ \A k \in 1..Len(rows) : rows'[k] = rows[k]
      /\ rows'[Len(rows) + 1] = row
      /\ Row' = row
  BY CommitExtends DEF IInv
<1>2. History' = History \cup {row}
  <2>1. ASSUME NEW x PROVE x \in History' <=> x \in History \cup {row}
    <3>1. x \in History' <=> \E k \in 1..Len(rows) + 1 : x = rows'[k]
      BY <1>1 DEF History
    <3>2. x \in History <=> \E k \in 1..Len(rows) : x = rows[k]
      BY <1>1 DEF History
    <3>3. \A k : k \in 1..Len(rows) + 1 <=> k \in 1..Len(rows) \/ k = Len(rows) + 1
      BY <1>1
    <3> QED  BY <1>1, <3>1, <3>2, <3>3
  <2> QED  BY <2>1
<1> QED  BY <1>1, <1>2 DEF Atomic!Becomes

\* What a step that commits nothing leaves alone.
LEMMA NoCommitIsInvisible ==
    ASSUME rows' = rows
    PROVE  UNCHANGED <<Row, History, Reborn>>
BY DEF Row, History, Reborn

\* A refusal is one to the abstract item.
LEMMA RefusedIsRefuse ==
    ASSUME IInv, NEW r \in Request, NEW a \in Answers \ {"ok"}, Reply(r, a),
           pc[r] \in {"create", "read", "put", "delete"},
           UNCHANGED <<rows, ask, pin>>
    PROVE  Atomic!Refuse(r)
<1>1. a \in Atomic!Refusals
  BY DEF Answers, Atomic!Refusals
<1>2. ask[r] # NoAsk /\ answer[r] = Pending
  BY DEF IInv, RequestsAreOrderly
<1>3. answer' = [answer EXCEPT ![r] = a]
  BY DEF Reply
<1>4. UNCHANGED <<Row, History, Reborn>>
  BY NoCommitIsInvisible
<1> QED
  BY <1>1, <1>2, <1>3, <1>4 DEF Atomic!Refuse, Atomic!Told, Atomic!Pending, Pending

\* A write is answered, or is not.
LEMMA WriteIsTold ==
    ASSUME IInv, NEW r \in Request, answer[r] = Pending,
           Reply(r, "ok") \/ Unheard(r) \/ Reply(r, "timeout")
    PROVE  Atomic!Told(r, Atomic!Outcome)
<1>1. answer \in [Request -> Answers \cup {Pending}]
  BY DEF IInv, TypeOK
<1>2. \E a \in {"ok", "timeout", Pending} : answer' = [answer EXCEPT ![r] = a]
  <2>1. CASE Reply(r, "ok") \/ Reply(r, "timeout")
    BY <2>1 DEF Reply
  <2>2. CASE Unheard(r)
    <3>1. answer' = [answer EXCEPT ![r] = Pending]
      BY <1>1, <2>2 DEF Unheard
    <3> QED  BY <3>1
  <2> QED  BY <2>1, <2>2
<1>3. {"ok", "timeout", Pending} \subseteq Atomic!Outcome
  BY DEF Atomic!Outcome, Atomic!Refusals, Atomic!Pending, Pending
<1> QED
  BY <1>2, <1>3 DEF Atomic!Told

\* A create is the abstract create, or is refused.
LEMMA CreateItemIsAtomic ==
    ASSUME IInv, NEW r \in Request, CreateItem(r)
    PROVE  Atomic!Create(r) \/ Atomic!CreateRefused(r)
<1>1. /\ ask' = [ask EXCEPT ![r] = Creating] /\ pin' = pin
      /\ ask[r] = NoAsk /\ answer[r] = Pending
      /\ Len(rows) = 1
  BY DEF CreateItem, IInv, RequestsAreOrderly
<1>2. History = {NoRow}
  <2>1. DOMAIN rows = 1..1
    BY <1>1, HistoryIsASequence DEF IInv
  <2>2. DOMAIN rows = {1} /\ rows[1] = NoRow
    BY <2>1 DEF IInv, HistoryBegins
  <2> QED  BY <2>2 DEF History
<1>3. PICK content \in Creation :
        \/ /\ Validate(NewItem(content))
           /\ Commit(Normalize(NewItem(content)))
           /\ \/ \E a \in {"ok", "timeout"} : Reply(r, a)
              \/ answer' = answer
        \/ /\ rows' = rows
           /\ \E a \in {"invalid", "timeout"} : Reply(r, a)
  BY DEF CreateItem
<1>4. CASE /\ Validate(NewItem(content))
           /\ Commit(Normalize(NewItem(content)))
           /\ \/ \E a \in {"ok", "timeout"} : Reply(r, a)
              \/ answer' = answer
  <2>1. Normalize(NewItem(content)) \in FirstRecord
    BY <1>4 DEF FirstRecord
  <2>2. Normalize(NewItem(content)) \in Item
    BY <1>4, NewItemIsSound, RequestAssumption
  <2>3. Atomic!Becomes(Normalize(NewItem(content)))
    BY <1>4, <2>2, CommitIsBecomes
  <2>4. Reborn' = Reborn
    <3>1. ~Reborn
      BY <1>1, FirstHasOneLife
    <3>2. Reborn' <=> Reborn \/ (Len(rows) > 1 /\ ~Exists)
      BY <1>4, <2>2, RebornByCommit DEF IInv
    <3>3. ~Reborn'
      BY <1>1, <3>1, <3>2
    <3> QED  BY <3>1, <3>3 DEF Reborn
  <2>5. Atomic!Told(r, Atomic!Outcome)
    <3>1. answer \in [Request -> Answers \cup {Pending}]
      BY DEF IInv, TypeOK
    <3>2. answer = [answer EXCEPT ![r] = Pending]
      BY <1>1, <3>1
    <3>3. \E a \in {"ok", "timeout", Pending} : answer' = [answer EXCEPT ![r] = a]
      BY <1>4, <3>2 DEF Reply
    <3>4. {"ok", "timeout", Pending} \subseteq Atomic!Outcome
      BY DEF Atomic!Outcome, Atomic!Refusals, Atomic!Pending, Pending
    <3> QED  BY <3>3, <3>4 DEF Atomic!Told
  <2> QED  BY <1>1, <1>2, <2>1, <2>3, <2>4, <2>5 DEF Atomic!Create
<1>5. CASE /\ rows' = rows
           /\ \E a \in {"invalid", "timeout"} : Reply(r, a)
  <2>1. \E a \in Atomic!Refusals : answer' = [answer EXCEPT ![r] = a]
    BY <1>5 DEF Reply, Atomic!Refusals
  <2>2. UNCHANGED <<Row, History, Reborn>>
    BY <1>5, NoCommitIsInvisible
  <2> QED  BY <1>1, <2>1, <2>2 DEF Atomic!CreateRefused, Atomic!Told
<1> QED
  BY <1>3, <1>4, <1>5

\* A create sent again is the abstract one's second life, or is refused.
LEMMA CreateAgainIsAtomic ==
    ASSUME IInv, NEW r \in Request, CreateAgain(r)
    PROVE  Atomic!CreateAgain(r) \/ Atomic!Refuse(r)
<1>1. /\ pc[r] = "create" /\ UNCHANGED <<ask, pin>>
      /\ ask[r] = Creating /\ answer[r] = Pending
      /\ Len(rows) > 1 /\ draft[r] = rows[2]
      /\ draft[r] \in Item \cup {NoRow}
      /\ rows[2] \in FirstRecord
  BY DEF CreateAgain, IInv, RequestsAreOrderly, CopiesAreOfTheFirst, TypeOK, HistoryBegins
<1>2. CASE Exists
  BY <1>1, <1>2, RefusedIsRefuse DEF CreateAgain, Answers
<1>3. CASE ~Exists
  <2>1. Commit(draft[r]) /\ (Reply(r, "ok") \/ Unheard(r) \/ Reply(r, "timeout"))
    BY <1>3 DEF CreateAgain
  <2>2. Atomic!Becomes(rows[2])
    BY <1>1, <2>1, CommitIsBecomes
  <2>3. rows[2] \in History
    <3>1. 2 \in DOMAIN rows
      BY <1>1, HistoryIsASequence DEF IInv
    <3> QED  BY <3>1 DEF History
  <2>4. Reborn' = TRUE
    <3>1. Reborn' <=> Reborn \/ (Len(rows) > 1 /\ ~Exists)
      BY <1>1, <2>1, RebornByCommit DEF IInv
    <3>2. Reborn'
      BY <1>1, <1>3, <3>1
    <3> QED  BY <3>2 DEF Reborn
  <2>5. Row = NoRow
    BY <1>3 DEF Exists
  <2>6. Atomic!Told(r, Atomic!Outcome)
    BY <1>1, <2>1, WriteIsTold
  <2>7. rows[2] \in History \cap FirstRecord
    BY <1>1, <2>3
  <2> QED  BY <1>1, <2>2, <2>4, <2>5, <2>6, <2>7
              DEF Atomic!CreateAgain, Atomic!Pending, Pending
<1> QED
  BY <1>2, <1>3

\* A handler up to its store call is a submission.
LEMMA BeginIsSubmit ==
    ASSUME IInv, NEW r \in Request, Begin(r)
    PROVE  Atomic!Submit(r)
<1>1. ask[r] = NoAsk
  BY DEF Begin, IInv, RequestsAreOrderly
<1>2. pin' \in [Request -> Nat]
  BY BeginKeepsIInv DEF IInv, TypeOK
<1>3. /\ \E op \in Mutation \cup {Deleting} : ask' = [ask EXCEPT ![r] = op]
      /\ \A q \in Request \ {r} : pin'[q] = pin[q]
      /\ answer' = answer /\ rows' = rows
  BY DEF Begin, IInv, TypeOK
<1>4. UNCHANGED <<Row, History, Reborn>>
  BY <1>3, NoCommitIsInvisible
<1> QED
  BY <1>1, <1>2, <1>3, <1>4 DEF Atomic!Submit

\* A read refuses or is invisible.
LEMMA ReadItemIsRefuseOrStutter ==
    ASSUME IInv, NEW r \in Request, ReadItem(r)
    PROVE  Atomic!Refuse(r) \/ UNCHANGED Atomic!vars
<1>1. pc[r] = "read" /\ UNCHANGED <<rows, ask, pin>>
  BY DEF ReadItem
<1>2. \/ \E a \in Answers \ {"ok"} : Reply(r, a)
      \/ answer' = answer
  <2>1. \A item : Refusal(ask[r], item) \in {"none", "notFound", "badRequest"}
    BY DEF Refusal
  <2> QED  BY <2>1 DEF ReadItem, Answers
<1>3. UNCHANGED <<Row, History, Reborn>>
  BY <1>1, NoCommitIsInvisible
<1> QED
  BY <1>1, <1>2, <1>3, RefusedIsRefuse DEF Atomic!vars

\* A put is the abstract change of the current record.
LEMMA PutItemIsApply ==
    ASSUME IInv, NEW r \in Request, PutItem(r)
    PROVE  Atomic!Apply(r)
<1>1. /\ pc[r] = "put" /\ PutCondition(r) /\ Commit(draft[r])
      /\ UNCHANGED <<ask, pin>>
      /\ answer[r] = Pending
      /\ draft[r] \in Item \cup {NoRow}
  BY DEF PutItem, IInv, RequestsAreOrderly, TypeOK
<1>2. /\ ask[r] \in Mutation /\ Row # NoRow
      /\ pin[r] # NoPin => Row.version = pin[r]
  BY <1>1, PutIsOnTheRecordRead DEF Exists
<1>3. PICK k \in DOMAIN rows :
         /\ rows[k] # NoRow
         /\ rows[k].version = Row.version
         /\ Accepted(ask[r], rows[k])
         /\ draft[r] = Saved(ask[r], rows[k])
         /\ ~Reborn => rows[k] = Row
  BY <1>1, PutIsOnTheRecordRead
<1>4. rows[k] \in Atomic!Current
  <2>1. rows[k] \in History \ {NoRow}
    BY <1>3 DEF History
  <2> QED  BY <1>3, <2>1 DEF Atomic!Current
<1>5. Atomic!Becomes(Saved(ask[r], rows[k]))
  BY <1>1, <1>3, CommitIsBecomes
<1>6. Reborn' = Reborn
  <2>1. Reborn' <=> Reborn \/ (Len(rows) > 1 /\ ~Exists)
    BY <1>1, RebornByCommit DEF IInv
  <2>2. Reborn' <=> Reborn
    BY <1>2, <2>1 DEF Exists
  <2> QED  BY <2>2 DEF Reborn
<1>7. Atomic!Told(r, Atomic!Outcome)
  BY <1>1, WriteIsTold DEF PutItem
<1>8. Atomic!Applicable(r)
  BY <1>1, <1>2 DEF Atomic!Applicable, Atomic!Pending, Pending, Atomic!NoPin, NoPin
<1> QED
  BY <1>1, <1>2, <1>3, <1>4, <1>5, <1>6, <1>7, <1>8 DEF Atomic!Apply

\* A refused put refuses the request or is invisible.
LEMMA PutRefusedIsRefuseOrStutter ==
    ASSUME IInv, NEW r \in Request, PutRefused(r)
    PROVE  Atomic!Refuse(r) \/ UNCHANGED Atomic!vars
<1>1. pc[r] = "put" /\ UNCHANGED <<rows, ask, pin>>
  BY DEF PutRefused
<1>2. Reply(r, "conflict") \/ answer' = answer
  BY DEF PutRefused, Conflicted, ReadAgain
<1>3. UNCHANGED <<Row, History, Reborn>>
  BY <1>1, NoCommitIsInvisible
<1> QED
  BY <1>1, <1>2, <1>3, RefusedIsRefuse DEF Atomic!vars, Answers

\* A delete is the abstract delete, or is refused.
LEMMA DeleteItemIsDeleteOrRefuse ==
    ASSUME IInv, NEW r \in Request, DeleteItem(r)
    PROVE  Atomic!Delete(r) \/ Atomic!Refuse(r)
<1>1. /\ pc[r] = "delete" /\ UNCHANGED <<ask, pin>>
      /\ ask[r] = Deleting /\ answer[r] = Pending
  BY DEF DeleteItem, IInv, RequestsAreOrderly
<1>2. DeleteRefusal(r) \in {"conflict", "notFound"}
  BY DEF DeleteRefusal
<1>3. CASE DeleteCondition(r)
  <2>1. Commit(NoRow) /\ (Reply(r, "ok") \/ Unheard(r) \/ Reply(r, "timeout"))
    BY <1>3 DEF DeleteItem
  <2>2. Atomic!Becomes(NoRow) /\ Atomic!Told(r, Atomic!Outcome)
    BY <1>1, <2>1, CommitIsBecomes, WriteIsTold
  <2>3. Row # NoRow /\ (pin[r] # NoPin => Row.version = pin[r])
    BY <1>3 DEF DeleteCondition, IsCurrent, Exists
  <2>4. Reborn' = Reborn
    <3>1. Reborn' <=> Reborn \/ (Len(rows) > 1 /\ ~Exists)
      BY <2>1, RebornByCommit DEF IInv
    <3>2. Reborn' <=> Reborn
      BY <2>3, <3>1 DEF Exists
    <3> QED  BY <3>2 DEF Reborn
  <2>5. Atomic!Applicable(r)
    BY <1>1, <2>3 DEF Atomic!Applicable, Atomic!Pending, Pending, Atomic!NoPin, NoPin
  <2> QED  BY <1>1, <2>2, <2>4, <2>5 DEF Atomic!Delete
<1>4. CASE ~DeleteCondition(r)
  BY <1>1, <1>2, <1>4, RefusedIsRefuse DEF DeleteItem, Answers
<1> QED
  BY <1>3, <1>4

\* Whatever the interleaving, staleness, lost acknowledgements and retries,
\* the current row changes only by whole operations, and an "ok" is such a
\* change.  They are applied to the current row itself as long as no create
\* has made a deleted item again, and to a record of its version afterwards.
THEOREM StoreIsAtomic == Spec => BehavesAtomically
<1>1. Init => Atomic!Init
  <2> SUFFICES ASSUME Init PROVE Atomic!Init
    OBVIOUS
  <2>1. rows = <<NoRow>> /\ Len(rows) = 1 /\ DOMAIN rows = {1} /\ rows[1] = NoRow
    BY DEF Init
  <2>2. Row = NoRow /\ History = {NoRow}
    BY <2>1 DEF Row, History
  <2>3. Reborn = FALSE
    BY <2>1, FirstHasOneLife DEF Reborn
  <2> QED
    BY <2>2, <2>3 DEF Init, Atomic!Init, NoPin, Atomic!NoPin, Pending, Atomic!Pending
<1>2. IInv /\ [Next]_vars => [Atomic!Next]_(Atomic!vars)
  <2> SUFFICES ASSUME IInv, [Next]_vars
               PROVE  Atomic!Next \/ UNCHANGED Atomic!vars
    OBVIOUS
  <2>1. CASE UNCHANGED vars
    BY <2>1, NoCommitIsInvisible DEF vars, Atomic!vars
  <2>2. ASSUME NEW r \in Request,
               CreateItem(r) \/ Begin(r) \/ Step(r) \/ TimeOut(r)
        PROVE  Atomic!Next \/ UNCHANGED Atomic!vars
    <3>1. CASE CreateItem(r)
      BY <3>1, CreateItemIsAtomic DEF Atomic!Next
    <3>2. CASE Begin(r)
      BY <3>2, BeginIsSubmit DEF Atomic!Next
    <3>3. CASE CreateAgain(r)
      BY <3>3, CreateAgainIsAtomic DEF Atomic!Next
    <3>4. CASE ReadItem(r)
      BY <3>4, ReadItemIsRefuseOrStutter DEF Atomic!Next
    <3>5. CASE PutItem(r)
      BY <3>5, PutItemIsApply DEF Atomic!Next
    <3>6. CASE PutRefused(r)
      BY <3>6, PutRefusedIsRefuseOrStutter DEF Atomic!Next
    <3>7. CASE DeleteItem(r)
      BY <3>7, DeleteItemIsDeleteOrRefuse DEF Atomic!Next
    <3>8. CASE TimeOut(r)
      BY <3>8, RefusedIsRefuse DEF TimeOut, Answers, Atomic!Next
    <3> QED  BY <2>2, <3>1, <3>2, <3>3, <3>4, <3>5, <3>6, <3>7, <3>8 DEF Step
  <2> QED  BY <2>1, <2>2 DEF Next
<1> QED
  BY <1>1, <1>2, Invariance, PTL DEF Spec, BehavesAtomically, Atomic!Spec

-----------------------------------------------------------------------------
(***************************************************************************)
(* What a single step may never do.                                        *)
(***************************************************************************)
\* The request that a step is of is the only one that acts.
LEMMA OneActs ==
    ASSUME IInv, NEW r \in Request,
           CreateItem(r) \/ Begin(r) \/ Step(r) \/ TimeOut(r)
    PROVE  \A q \in Request : Acts(q) => q = r
<1> SUFFICES ASSUME NEW q \in Request, q # r PROVE ~Acts(q)
  OBVIOUS
<1>1. LocalsTyped
  BY TypeOKHasLocals DEF IInv
<1>2. \/ \E a : Reply(r, a)
      \/ Unheard(r)
      \/ Conflicted(r)
      \/ /\ \E label : Goto(r, label)
         /\ tries' = tries
         /\ sent' = sent \/ sent' = [sent EXCEPT ![r] = 1]
  BY DEF CreateItem, Begin, Step, TimeOut, CreateAgain, ReadItem, PutItem, PutRefused,
         DeleteItem
<1>3. pc'[q] = pc[q] /\ tries'[q] = tries[q] /\ sent'[q] = sent[q]
  BY <1>1, <1>2 DEF Reply, Unheard, Conflicted, ReadAgain, Goto, LocalsTyped
<1> QED  BY <1>3 DEF Acts

\* The row is written by a create, its copies, a put or a delete, each on its
\* condition.
LEMMA WhoWrites ==
    ASSUME IInv, Next, rows' # rows
    PROVE  \E r \in Request :
              /\ \/ CreateItem(r)
                 \/ CreateAgain(r) /\ ~Exists /\ Commit(draft[r])
                 \/ PutItem(r)
                 \/ DeleteItem(r) /\ DeleteCondition(r) /\ Commit(NoRow)
              /\ \A q \in Request : Acts(q) => q = r
              /\ Acts(r)
<1> PICK r \in Request : CreateItem(r) \/ Begin(r) \/ Step(r) \/ TimeOut(r)
  BY DEF Next
<1>1. \/ CreateItem(r)
      \/ CreateAgain(r) /\ ~Exists /\ Commit(draft[r])
      \/ PutItem(r)
      \/ DeleteItem(r) /\ DeleteCondition(r) /\ Commit(NoRow)
  BY DEF Step, Begin, CreateAgain, ReadItem, PutRefused, DeleteItem, TimeOut
<1>2. \A q \in Request : Acts(q) => q = r
  BY OneActs
<1>3. LocalsTyped
  BY TypeOKHasLocals DEF IInv
<1>4. \/ Unheard(r)
      \/ /\ pc[r] \in {"idle", "create", "put", "delete"}
         /\ Goto(r, "done") \/ (pc[r] = "idle" /\ Goto(r, "create"))
  BY <1>1 DEF CreateItem, CreateAgain, PutItem, DeleteItem, Reply
<1>5. Acts(r)
  <2>1. CASE Unheard(r)
    <3>1. sent'[r] = sent[r] + 1 /\ sent[r] \in Nat
      BY <1>3, <2>1 DEF Unheard, LocalsTyped
    <3>2. sent'[r] # sent[r]
      BY <3>1
    <3> QED  BY <3>2 DEF Acts
  <2>2. CASE /\ pc[r] \in {"idle", "create", "put", "delete"}
             /\ Goto(r, "done") \/ (pc[r] = "idle" /\ Goto(r, "create"))
    <3>1. pc'[r] # pc[r]
      BY <1>3, <2>2 DEF Goto, LocalsTyped
    <3> QED  BY <3>1 DEF Acts
  <2> QED  BY <1>4, <2>1, <2>2
<1> QED
  BY <1>1, <1>2, <1>5

\* A request that writes is one of those.
LEMMA WriterIs ==
    ASSUME IInv, Next, NEW r \in Request, Writes(r)
    PROVE  \/ CreateItem(r)
           \/ CreateAgain(r) /\ ~Exists /\ Commit(draft[r])
           \/ PutItem(r)
           \/ DeleteItem(r) /\ DeleteCondition(r) /\ Commit(NoRow)
BY WhoWrites DEF Writes

\* Once an item is deleted, only its own create can make it again, while it is
\* not acknowledged, and then just as it was first made (putItemIfVersion's
\* condition fails on a missing row, CreateItem's holds).
THEOREM NothingComesBack == Spec => DeletedStaysDeleted
<1> DEFINE Stays ==
        Len(rows) > 1 /\ ~Exists /\ rows' # rows =>
           /\ Row' = rows[2]
           /\ \E r \in Request : ask[r] = Creating /\ answer[r] = Pending /\ Acts(r)
<1>1. IInv /\ [Next]_vars => Stays
  <2> SUFFICES ASSUME IInv, Next, Len(rows) > 1, ~Exists, rows' # rows
               PROVE  /\ Row' = rows[2]
                      /\ \E r \in Request :
                            ask[r] = Creating /\ answer[r] = Pending /\ Acts(r)
    BY DEF vars
  <2>1. PICK r \in Request :
              /\ \/ CreateItem(r)
                 \/ CreateAgain(r) /\ ~Exists /\ Commit(draft[r])
                 \/ PutItem(r)
                 \/ DeleteItem(r) /\ DeleteCondition(r) /\ Commit(NoRow)
              /\ Acts(r)
    BY WhoWrites
  <2>2. Len(rows) # 1
    <3>1. Len(rows) \in Nat
      BY HistoryIsASequence DEF IInv
    <3>2. \A n \in Nat : n > 1 => n # 1
      OBVIOUS
    <3> QED  BY <3>1, <3>2, Zenon
  <2>3. CreateAgain(r) /\ Commit(draft[r])
    BY <2>1, <2>2 DEF CreateItem, PutItem, PutCondition, IsCurrent, DeleteCondition
  <2>4. /\ pc[r] = "create" /\ draft[r] = rows[2] /\ draft[r] \in Item \cup {NoRow}
        /\ ask[r] = Creating /\ answer[r] = Pending
    BY <2>3 DEF CreateAgain, IInv, CopiesAreOfTheFirst, RequestsAreOrderly, TypeOK
  <2>5. Row' = rows[2]
    BY <2>3, <2>4, CommitExtends DEF IInv
  <2> QED  BY <2>1, <2>4, <2>5
<1> QED
  BY <1>1, Invariance, PTL DEF Spec, DeletedStaysDeleted

-----------------------------------------------------------------------------
\* In an item's first life a pin is a version that was handed out; one whose
\* write has taken effect is behind for good, and so is one that a conflict
\* was answered for, if reads are consistent.
Behind(r) == pin[r] < Len(rows) - 1 \/ ~Exists
Passed(r) == sent[r] > 0 \/ (MaxLag = 0 /\ answer[r] = "conflict")
PinInv ==
    ~Reborn => \A r \in Request : pin[r] # NoPin =>
        /\ pin[r] < Len(rows)
        /\ Passed(r) => Behind(r)

\* The current version is the length of the history.
LEMMA CurrentIsLast ==
    ASSUME IInv, Exists, ~Reborn
    PROVE  Len(rows) \in Nat \ {0} /\ Row.version = Len(rows) - 1
<1>1. /\ Len(rows) \in Nat \ {0} /\ DOMAIN rows = 1..Len(rows)
  BY HistoryIsASequence DEF IInv
<1>2. Len(rows) \in DOMAIN rows /\ rows[Len(rows)] # NoRow
  BY <1>1 DEF Exists, Row
<1> QED  BY <1>1, <1>2, VersionsArePositions DEF IInv, Row

\* Every commit leaves all pins behind.
LEMMA CommitLeavesPinsBehind ==
    ASSUME IInv, PinInv, NEW row \in Item \cup {NoRow}, Commit(row), pin' = pin
    PROVE  PinInv'
<1>1. Len(rows) \in Nat /\ Len(rows') = Len(rows) + 1
  BY CommitExtends DEF IInv
<1>2. \A r \in Request : pin[r] \in Nat
  BY DEF IInv, TypeOK
<1>3. Reborn => Reborn'
  BY RebornByCommit DEF IInv
<1> SUFFICES ASSUME ~Reborn', NEW r \in Request, pin[r] # NoPin
             PROVE  pin[r] < Len(rows') /\ pin[r] < Len(rows') - 1
  BY DEF PinInv, Behind
<1>4. pin[r] < Len(rows)
  BY <1>3 DEF PinInv
<1> QED  BY <1>1, <1>2, <1>4

\* Without a commit, it takes a pin that is not current to be told of a conflict.
LEMMA RefusedWhenBehind ==
    ASSUME IInv, PinInv, rows' = rows, pin' = pin, NEW r \in Request,
           \A q \in Request \ {r} : answer'[q] = answer[q] /\ sent'[q] = sent[q],
           sent'[r] \in {0, sent[r]},
           \/ answer'[r] = answer[r]
           \/ answer'[r] = "conflict" /\ MaxLag = 0 /\ pin[r] # NoPin
              => ~IsCurrent(pin[r])
    PROVE  PinInv'
<1>1. Exists' = Exists /\ Reborn' = Reborn
  BY DEF Exists, Row, Reborn
<1> SUFFICES ASSUME ~Reborn, NEW q \in Request, pin[q] # NoPin
             PROVE  /\ pin[q] < Len(rows)
                    /\ Passed(q)' => Behind(q)
  BY <1>1 DEF PinInv, Behind
<1>2. pin[q] < Len(rows) /\ (Passed(q) => Behind(q)) /\ pin[q] \in Nat
  BY DEF PinInv, IInv, TypeOK
<1>3. ASSUME Passed(q)', ~Passed(q) PROVE Behind(q)
  <2>1. q = r
    BY <1>3 DEF Passed
  <2>2. sent[r] \in Nat
    BY DEF IInv, TypeOK
  <2>3. ~(sent'[r] > 0)
    BY <1>3, <2>1, <2>2 DEF Passed
  <2>4. MaxLag = 0 /\ answer'[r] = "conflict" /\ answer[r] # "conflict"
    BY <1>3, <2>1, <2>3 DEF Passed
  <2>5. ~IsCurrent(pin[r])
    BY <2>1, <2>4
  <2>6. CASE Exists
    <3>1. Row.version # pin[r]
      BY <2>5, <2>6 DEF IsCurrent
    <3>2. Len(rows) \in Nat /\ Row.version = Len(rows) - 1
      BY <2>6, CurrentIsLast
    <3> QED  BY <1>2, <2>1, <3>1, <3>2 DEF Behind
  <2> QED  BY <2>6 DEF Behind
<1> QED  BY <1>2, <1>3

LEMMA BeginKeepsPins ==
    ASSUME IInv, PinInv, NEW r \in Request, Begin(r)
    PROVE  PinInv'
<1>1. PICK v \in KnownVersions \cup {NoPin} : pin' = [pin EXCEPT ![r] = v]
  BY DEF Begin
<1>2. rows' = rows /\ answer' = answer /\ sent' = sent /\ pin \in [Request -> Nat]
  BY DEF Begin, IInv, TypeOK
<1>3. answer[r] = Pending /\ sent[r] = 0
  BY DEF Begin, IInv, RequestsAreOrderly
<1>4. Exists' = Exists /\ Reborn' = Reborn
  BY <1>2 DEF Exists, Row, Reborn
<1>5. v # NoPin /\ ~Reborn => v < Len(rows)
  <2> SUFFICES ASSUME v # NoPin, ~Reborn PROVE v < Len(rows)
    OBVIOUS
  <2>1. Len(rows) \in Nat \ {0} /\ DOMAIN rows = 1..Len(rows)
    BY HistoryIsASequence DEF IInv
  <2>2. PICK k \in DOMAIN rows : rows[k] # NoRow /\ v = rows[k].version
    BY DEF KnownVersions
  <2>3. v = k - 1
    BY <2>2, VersionsArePositions DEF IInv
  <2> QED  BY <2>1, <2>3
<1> SUFFICES ASSUME ~Reborn, NEW q \in Request, pin'[q] # NoPin
             PROVE  pin'[q] < Len(rows) /\ (Passed(q) => Behind(q)')
  BY <1>2, <1>4 DEF PinInv, Passed
<1>6. CASE q = r
  <2>1. ~Passed(r)
    BY <1>3 DEF Passed, Pending
  <2> QED  BY <1>1, <1>2, <1>5, <1>6, <2>1
<1>7. CASE q # r
  <2>1. pin'[q] = pin[q]
    BY <1>1, <1>2, <1>7
  <2> QED  BY <1>2, <1>4, <2>1 DEF PinInv, Behind
<1> QED  BY <1>6, <1>7

\* A refused put that was pinned finds that its pin is not current.
LEMMA RefusedPinIsNotCurrent ==
    ASSUME IInv, NEW r \in Request, pc[r] = "put", ~PutCondition(r), pin[r] # NoPin
    PROVE  ~IsCurrent(pin[r])
<1>1. PICK k \in DOMAIN rows :
        /\ rows[k] # NoRow /\ ask[r] \in Mutation /\ Accepted(ask[r], rows[k])
        /\ draft[r] = Saved(ask[r], rows[k])
        /\ pin[r] # NoPin => pin[r] = rows[k].version
  BY DEF IInv, DraftIsOneOperation
<1>2. rows[k] \in Item /\ ask[r] \in MutationOp
  BY <1>1, RequestAssumption, HistoryIsASequence DEF IInv
<1>3. draft[r].version = rows[k].version + 1 /\ rows[k].version \in Nat
  BY <1>1, <1>2, SavedIsSound DEF Item
<1>4. draft[r].version - 1 = rows[k].version
  BY <1>3
<1> QED  BY <1>1, <1>4 DEF PutCondition

\* The steps of a request in progress either commit, or only answer or retry.
LEMMA StepKeepsPins ==
    ASSUME IInv, PinInv, NEW r \in Request, Settles(r) \/ ReadItem(r),
           UNCHANGED <<ask, pin>>,
           \/ \E row \in Item \cup {NoRow} : Commit(row)
           \/ /\ rows' = rows /\ ~Unheard(r)
              /\ answer'[r] = "conflict" /\ MaxLag = 0 /\ pin[r] # NoPin
                 => ~IsCurrent(pin[r])
    PROVE  PinInv'
<1>1. CASE \E row \in Item \cup {NoRow} : Commit(row)
  BY <1>1, CommitLeavesPinsBehind
<1>2. CASE /\ rows' = rows /\ ~Unheard(r)
           /\ answer'[r] = "conflict" /\ MaxLag = 0 /\ pin[r] # NoPin
              => ~IsCurrent(pin[r])
  <2>1. LocalsTyped
    BY TypeOKHasLocals DEF IInv
  <2>2. \/ \E a : Reply(r, a)
        \/ Conflicted(r)
        \/ UNCHANGED <<sent, answer>>
    BY <1>2 DEF Settles, ReadItem
  <2>3. /\ \A q \in Request \ {r} : answer'[q] = answer[q] /\ sent'[q] = sent[q]
        /\ sent'[r] \in {0, sent[r]}
    BY <2>1, <2>2 DEF Reply, Conflicted, ReadAgain, LocalsTyped
  <2> QED  BY <1>2, <2>3, RefusedWhenBehind
<1> QED  BY <1>1, <1>2

LEMMA PinsStayBehind ==
    ASSUME IInv, PinInv, [Next]_vars
    PROVE  PinInv'
<1>0. LocalsTyped
  BY TypeOKHasLocals DEF IInv
<1>1. CASE UNCHANGED vars
  BY <1>1 DEF vars, PinInv, Passed, Behind, Exists, Row, Reborn
<1>2. ASSUME NEW r \in Request, CreateItem(r)
      PROVE  PinInv'
  <2>1. PICK content \in Creation :
          \/ Validate(NewItem(content)) /\ Commit(Normalize(NewItem(content)))
          \/ rows' = rows /\ \E a \in {"invalid", "timeout"} : Reply(r, a)
    BY <1>2 DEF CreateItem
  <2>2. pin' = pin /\ pin[r] = NoPin
    BY <1>2 DEF CreateItem, IInv, RequestsAreOrderly
  <2>3. CASE Validate(NewItem(content)) /\ Commit(Normalize(NewItem(content)))
    <3>1. Normalize(NewItem(content)) \in Item
      BY <2>3, NewItemIsSound, RequestAssumption
    <3> QED  BY <2>2, <2>3, <3>1, CommitLeavesPinsBehind
  <2>4. CASE rows' = rows /\ \E a \in {"invalid", "timeout"} : Reply(r, a)
    <3>1. /\ \A q \in Request \ {r} : answer'[q] = answer[q] /\ sent'[q] = sent[q]
          /\ sent'[r] \in {0, sent[r]}
      BY <1>0, <2>4 DEF Reply, LocalsTyped
    <3> QED  BY <2>2, <2>4, <3>1, RefusedWhenBehind
  <2> QED  BY <2>1, <2>3, <2>4
<1>3. ASSUME NEW r \in Request, CreateAgain(r)
      PROVE  PinInv'
  <2>1. Settles(r) /\ UNCHANGED <<ask, pin>> /\ pc[r] = "create"
    BY <1>3 DEF CreateAgain, Settles, Answers
  <2>2. draft[r] \in Item \cup {NoRow} /\ pin[r] = NoPin
    BY <1>0, <2>1 DEF LocalsTyped, IInv, RequestsAreOrderly
  <2>3. Commit(draft[r]) \/ (rows' = rows /\ Reply(r, "exists"))
    BY <1>3 DEF CreateAgain
  <2>4. Reply(r, "exists") => ~Unheard(r)
    BY <1>0, <2>1 DEF Reply, Unheard, Goto, LocalsTyped
  <2> QED  BY <2>1, <2>2, <2>3, <2>4, StepKeepsPins
<1>4. ASSUME NEW r \in Request, ReadItem(r)
      PROVE  PinInv'
  <2>1. UNCHANGED <<rows, ask, pin>> /\ pc[r] = "read"
    BY <1>4 DEF ReadItem
  <2>2. sent' = sent \/ \E a : Reply(r, a)
    BY <1>4 DEF ReadItem
  <2>3. ~Unheard(r)
    <3>1. CASE sent' = sent
      <4>1. sent[r] + 1 # sent[r]
        BY <1>0 DEF LocalsTyped
      <4> QED  BY <1>0, <3>1, <4>1 DEF Unheard, LocalsTyped
    <3>2. CASE \E a : Reply(r, a)
      BY <1>0, <2>1, <3>2 DEF Reply, Unheard, Goto, LocalsTyped
    <3> QED  BY <2>2, <3>1, <3>2
  <2>4. MaxLag = 0 => Readable = {Row}
    <3> SUFFICES ASSUME MaxLag = 0 PROVE Readable = {Row}
      OBVIOUS
    <3>1. Len(rows) \in Nat \ {0} /\ DOMAIN rows = 1..Len(rows)
      BY HistoryIsASequence DEF IInv
    <3>2. {j \in DOMAIN rows : j + MaxLag >= Len(rows)} = {Len(rows)}
      BY <3>1
    <3> QED  BY <3>2 DEF Readable, Row
  <2>5. MaxLag = 0 =>
          \/ answer' = answer
          \/ \E a \in {"notFound", "badRequest", "invalid"} : Reply(r, a)
          \/ Reply(r, "conflict") /\ pin[r] # Row.version
    <3>1. Refusal(ask[r], Row) \in {"none", "notFound", "badRequest"}
      BY DEF Refusal
    <3> QED  BY <1>4, <2>4, <3>1 DEF ReadItem
  <2>6. answer[r] # "conflict"
    BY <2>1 DEF IInv, RequestsAreOrderly, Pending
  <2>7. answer'[r] = "conflict" /\ MaxLag = 0 => ~IsCurrent(pin[r])
    BY <1>0, <2>5, <2>6 DEF Reply, LocalsTyped, IsCurrent
  <2> QED  BY <1>4, <2>1, <2>3, <2>7, StepKeepsPins
<1>5. ASSUME NEW r \in Request, PutItem(r)
      PROVE  PinInv'
  <2>1. draft[r] \in Item \cup {NoRow}
    BY <1>0 DEF LocalsTyped
  <2> QED  BY <1>5, <2>1, CommitLeavesPinsBehind DEF PutItem
<1>6. ASSUME NEW r \in Request, PutRefused(r)
      PROVE  PinInv'
  <2>1. UNCHANGED <<rows, ask, pin>> /\ pc[r] = "put" /\ ~PutCondition(r) /\ Conflicted(r)
    BY <1>6 DEF PutRefused
  <2>2. pin[r] # NoPin => ~IsCurrent(pin[r])
    BY <2>1, RefusedPinIsNotCurrent
  <2>3. ~Unheard(r)
    <3>1. pc'[r] # "put"
      BY <1>0, <2>1, ConflictedEndsOrRetries
    <3> QED  BY <2>1, <3>1 DEF Unheard
  <2> QED  BY <2>1, <2>2, <2>3, StepKeepsPins DEF Settles
<1>7. ASSUME NEW r \in Request, DeleteItem(r)
      PROVE  PinInv'
  <2>1. pin' = pin /\ ask' = ask /\ pc[r] = "delete"
    BY <1>7 DEF DeleteItem
  <2>2. CASE DeleteCondition(r)
    BY <1>7, <2>1, <2>2, CommitLeavesPinsBehind DEF DeleteItem
  <2>3. CASE ~DeleteCondition(r)
    <3>1. rows' = rows /\ Reply(r, DeleteRefusal(r)) /\ DeleteRefusal(r) \in Answers
      BY <1>7, <2>3 DEF DeleteItem, DeleteRefusal, Answers
    <3>2. pin[r] # NoPin => ~IsCurrent(pin[r])
      BY <2>3 DEF DeleteCondition, IsCurrent
    <3>3. ~Unheard(r)
      BY <1>0, <2>1, <3>1 DEF Reply, Unheard, Goto, LocalsTyped
    <3> QED  BY <2>1, <3>1, <3>2, <3>3, StepKeepsPins DEF Settles
  <2> QED  BY <2>2, <2>3
<1>8. ASSUME NEW r \in Request, TimeOut(r)
      PROVE  PinInv'
  <2>1. UNCHANGED <<rows, ask, pin>> /\ Reply(r, "timeout") /\ pc[r] # "done"
    BY <1>8 DEF TimeOut
  <2>2. ~Unheard(r) /\ answer'[r] # "conflict"
    BY <1>0, <2>1 DEF Reply, Unheard, Goto, LocalsTyped
  <2> QED  BY <2>1, <2>2, StepKeepsPins DEF Settles, Answers
<1> QED
  BY <1>1, <1>2, <1>3, <1>4, <1>5, <1>6, <1>7, <1>8, BeginKeepsPins DEF Next, Step

\* Pins are behind as PinInv says in every reachable state.
LEMMA PinsInvariant == Spec => []PinInv
<1>1. Init => PinInv
  BY DEF Init, PinInv
<1>2. IInv /\ PinInv /\ [Next]_vars => PinInv'
  BY PinsStayBehind
<1> QED  BY <1>1, <1>2, Invariance, PTL DEF Spec

\* A write with If-Match replaces exactly the version it named, and it does so
\* once in the life of the item (PatchItem, DeleteItem, mutateItem).
THEOREM PinsAreHonoured == Spec => PinnedWriteReplacesItsPin
<1> DEFINE Honoured ==
        \A r \in Request :
            pin[r] # NoPin /\ Writes(r) =>
               /\ Exists /\ Row.version = pin[r]
               /\ sent[r] = 0 \/ Reborn
<1>1. IInv /\ PinInv /\ [Next]_vars => Honoured
  <2> SUFFICES ASSUME IInv, PinInv, Next, NEW r \in Request, pin[r] # NoPin, Writes(r)
               PROVE  /\ Exists /\ Row.version = pin[r]
                      /\ sent[r] = 0 \/ Reborn
    BY DEF vars, Writes
  <2>1. \/ CreateItem(r)
        \/ CreateAgain(r) /\ ~Exists /\ Commit(draft[r])
        \/ PutItem(r)
        \/ DeleteItem(r) /\ DeleteCondition(r) /\ Commit(NoRow)
    BY WriterIs
  <2>2. ~CreateItem(r) /\ ~CreateAgain(r)
    BY DEF CreateItem, CreateAgain, IInv, RequestsAreOrderly
  <2>3. Exists /\ Row.version = pin[r]
    <3>1. CASE PutItem(r)
      BY <3>1, PutIsOnTheRecordRead DEF PutItem
    <3>2. CASE DeleteItem(r) /\ DeleteCondition(r)
      BY <3>2 DEF DeleteCondition, IsCurrent
    <3> QED  BY <2>1, <2>2, <3>1, <3>2
  <2>4. ASSUME ~Reborn PROVE sent[r] = 0
    <3>1. Len(rows) \in Nat /\ Row.version = Len(rows) - 1
      BY <2>3, <2>4, CurrentIsLast
    <3>2. ~Behind(r)
      BY <2>3, <3>1 DEF Behind
    <3>3. ~(sent[r] > 0)
      BY <2>4, <3>2 DEF PinInv, Passed
    <3>4. sent[r] \in Nat
      BY DEF IInv, TypeOK
    <3> QED  BY <3>3, <3>4
  <2> QED  BY <2>3, <2>4
<1> QED
  BY <1>1, Invariance, PinsInvariant, PTL DEF Spec, PinnedWriteReplacesItsPin

\* In the item's first life, a put is one whole operation on the row it
\* replaces.
LEMMA PutSavesTheOperation ==
    ASSUME IInv, NEW r \in Request, PutItem(r), ~Reborn
    PROVE  /\ Row \in Item /\ ask[r] \in MutationOp /\ Accepted(ask[r], Row)
           /\ Row' = Saved(ask[r], Row)
<1>1. PICK k \in DOMAIN rows :
         /\ Accepted(ask[r], rows[k])
         /\ draft[r] = Saved(ask[r], rows[k])
         /\ ~Reborn => rows[k] = Row
  BY PutIsOnTheRecordRead DEF PutItem
<1>2. Row \in Item /\ ask[r] \in MutationOp
  BY PutIsOnTheRecordRead DEF PutItem
<1>3. Row' = draft[r]
  BY CommitExtends DEF PutItem, IInv, TypeOK
<1> QED
  BY <1>1, <1>2, <1>3

\* Whatever was read when, a new version differs from the one it replaces by
\* what its own request asked for (ItemPatch.Apply, AppendFile, DeleteFile,
\* ReorderFiles, each on the record read).
THEOREM OnlyAskedChanges == Spec => ChangesWereAsked
<1> DEFINE Asked == ~Reborn => WritesWhatWasAsked
<1>1. IInv /\ [Next]_vars => Asked \/ UNCHANGED vars
  <2> SUFFICES ASSUME IInv, Next, ~Reborn, NEW r \in Request,
                      Exists, Writes(r), Row' # NoRow
               PROVE  /\ Row'.title # Row.title =>
                            ask[r].kind = "patch" /\ ask[r].title = Row'.title
                      /\ Row'.date # Row.date =>
                            ask[r].kind = "patch" /\ ask[r].date # Absent
                      /\ \A f \in FileIds(Row) \ FileIds(Row)' :
                            ask[r] = [kind |-> "detach", fileId |-> f]
                      /\ \A f \in FileIds(Row)' \ FileIds(Row) :
                            ask[r].kind = "attach" /\ ask[r].file.id = f
    BY DEF WritesWhatWasAsked
  <2>1. \/ CreateItem(r)
        \/ CreateAgain(r) /\ ~Exists /\ Commit(draft[r])
        \/ PutItem(r)
        \/ DeleteItem(r) /\ DeleteCondition(r) /\ Commit(NoRow)
    BY WriterIs
  <2>2. ~CreateItem(r)
    BY DEF CreateItem, Exists, Row, IInv, HistoryBegins
  <2>3. ~Commit(NoRow)
    BY CommitExtends DEF IInv
  <2>4. /\ Row \in Item /\ ask[r] \in MutationOp /\ Accepted(ask[r], Row)
        /\ Row' = Saved(ask[r], Row)
    BY <2>1, <2>2, <2>3, PutSavesTheOperation
  <2>5. FileIds(Row)' = FileIds(Saved(ask[r], Row))
    BY <2>4 DEF FileIds
  <2> QED
    BY <2>4, <2>5, SavedChangesWhatWasAsked
<1> QED
  BY <1>1, Invariance, PTL DEF Spec, ChangesWereAsked

\* An acknowledged attach was written, and is there unless its file has been
\* asked to be detached.
AttachInv ==
    /\ AcknowledgedAttachSurvives
    /\ \A r \in Request :
          ask[r] # NoAsk /\ ask[r].kind = "attach" /\ answer[r] = "ok" => Len(rows) > 1

\* No request detaches what is not asked to be detached, none changes what it
\* asked for, and an attach is only acknowledged by the put that made it.
LEMMA AttachesAreKept == IInv /\ AttachInv /\ [Next]_vars => AttachInv'
<1> SUFFICES ASSUME IInv, AttachInv, [Next]_vars PROVE AttachInv'
  OBVIOUS
<1>0. Len(rows) \in Nat \ {0} /\ DOMAIN rows = 1..Len(rows) /\ LocalsTyped
  BY HistoryIsASequence, TypeOKHasLocals DEF IInv
<1>1. CASE UNCHANGED vars
  BY <1>1 DEF vars, AttachInv, AcknowledgedAttachSurvives, Exists, Row, Reborn
<1>2. ASSUME NEW r \in Request,
             CreateItem(r) \/ Begin(r) \/ Step(r) \/ TimeOut(r)
      PROVE  AttachInv'
  <2>1. Next
    BY <1>2 DEF Next
  <2>2. \A q \in Request : pc[q] # "idle" => ask'[q] = ask[q]
    BY <1>0, <1>2 DEF CreateItem, Begin, Step, TimeOut, CreateAgain, ReadItem, PutItem,
                PutRefused, DeleteItem, LocalsTyped
  <2>3. \A q \in Request \ {r} : ask'[q] = ask[q] /\ answer'[q] = answer[q]
    <3>1. \/ \E a : answer' = [answer EXCEPT ![r] = a]
          \/ answer' = answer
      BY <1>2 DEF CreateItem, Begin, Step, TimeOut, CreateAgain, ReadItem, PutItem,
                  PutRefused, DeleteItem, Conflicted, ReadAgain, Reply, Unheard
    <3>2. \/ \E a : ask' = [ask EXCEPT ![r] = a]
          \/ ask' = ask
      BY <1>2 DEF CreateItem, Begin, Step, TimeOut, CreateAgain, ReadItem, PutItem,
                  PutRefused, DeleteItem
    <3> QED  BY <1>0, <3>1, <3>2 DEF LocalsTyped
  <2>4. \A q \in Request : ask[q] # NoAsk => ask'[q] = ask[q]
    BY <2>2 DEF IInv, RequestsAreOrderly
  <2>5. ASSUME answer'[r] = "ok", answer[r] # "ok", ask'[r] # NoAsk,
               ask'[r].kind = "attach"
        PROVE  PutItem(r)
    <3>1. ~CreateItem(r) /\ ~Begin(r)
      BY <1>0, <2>5 DEF CreateItem, Begin, Creating, LocalsTyped
    <3>2. ~DeleteItem(r) /\ ~CreateAgain(r)
      BY <2>5 DEF DeleteItem, CreateAgain, Deleting, Creating, IInv, RequestsAreOrderly
    <3>3. ~TimeOut(r) /\ ~PutRefused(r)
      BY <1>0, <2>5 DEF TimeOut, PutRefused, Conflicted, ReadAgain, Reply, LocalsTyped
    <3>4. ~ReadItem(r)
      BY <1>0, <2>5 DEF ReadItem, Reply, Refusal, LocalsTyped
    <3> QED
      BY <1>2, <3>1, <3>2, <3>3, <3>4 DEF Step
  <2>6. rows' # rows => Len(rows') = Len(rows) + 1 /\ (Reborn => Reborn')
    <3> SUFFICES ASSUME rows' # rows
                 PROVE  Len(rows') = Len(rows) + 1 /\ (Reborn => Reborn')
      OBVIOUS
    <3>1. PICK q \in Request : CreateItem(q) \/ CreateAgain(q) \/ PutItem(q)
                               \/ (DeleteItem(q) /\ Commit(NoRow))
      BY <2>1, WhoWrites
    <3>2. \E row \in Item \cup {NoRow} : Commit(row)
      <4>1. draft[q] \in Item \cup {NoRow}
        BY <1>0 DEF LocalsTyped
      <4>2. ASSUME NEW content \in Creation, Validate(NewItem(content))
            PROVE  Normalize(NewItem(content)) \in Item
        BY <4>2, NewItemIsSound, RequestAssumption
      <4>3. CreateItem(q) => \E content \in Creation :
               Validate(NewItem(content)) /\ Commit(Normalize(NewItem(content)))
        BY DEF CreateItem
      <4>4. CreateAgain(q) \/ PutItem(q) => Commit(draft[q])
        BY DEF CreateAgain, PutItem
      <4> QED  BY <3>1, <4>1, <4>2, <4>3, <4>4
    <3>3. PICK row \in Item \cup {NoRow} : Commit(row)
      BY <3>2
    <3> QED  BY <3>3, CommitExtends, RebornByCommit DEF IInv
  <2>7. ASSUME NEW q \in Request, PutItem(q) PROVE rows' # rows
    <3>1. draft[q] \in Item \cup {NoRow} /\ Commit(draft[q])
      BY <1>0, <2>7 DEF PutItem, LocalsTyped
    <3>2. Len(rows') = Len(rows) + 1
      BY <3>1, CommitExtends DEF IInv
    <3> QED  BY <1>0, <3>2
  <2>8. ASSUME NEW q \in Request,
               ask'[q] # NoAsk, ask'[q].kind = "attach", answer'[q] = "ok"
        PROVE  Len(rows') > 1
    <3>1. CASE answer[q] = "ok"
      <4>1. ask'[q] = ask[q]
        BY <2>4, <3>1 DEF IInv, RequestsAreOrderly, Pending
      <4>2. Len(rows) > 1
        BY <2>8, <3>1, <4>1 DEF AttachInv
      <4>3. rows' = rows \/ Len(rows') = Len(rows) + 1
        BY <2>6
      <4> QED  BY <1>0, <4>2, <4>3
    <3>2. CASE answer[q] # "ok"
      <4>1. q = r
        BY <2>3, <2>8, <3>2
      <4>2. Len(rows') = Len(rows) + 1
        BY <2>5, <2>6, <2>7, <2>8, <3>2, <4>1
      <4> QED  BY <1>0, <4>2
    <3> QED  BY <3>1, <3>2
  <2>9. ASSUME NEW q \in Request, NEW f,
               ask'[q] # NoAsk, ask'[q].kind = "attach", answer'[q] = "ok",
               f = ask'[q].file.id, Exists', ~Reborn',
               \A p \in Request : ask'[p] = NoAsk \/ ask'[p].kind # "detach"
                                  \/ ask'[p].fileId # f
        PROVE  f \in FileIds(Row')
    <3>1. \A p \in Request : ask[p] = NoAsk \/ ask[p].kind # "detach"
                             \/ ask[p].fileId # f
      BY <2>4, <2>9
    <3>2. ~Reborn
      <4>1. CASE rows' = rows
        BY <2>9, <4>1 DEF Reborn
      <4> QED  BY <2>6, <2>9, <4>1
    <3>3. CASE answer[q] # "ok"
      <4>1. q = r
        BY <2>3, <2>9, <3>3
      <4>2. PutItem(r) /\ ask'[r] = ask[r]
        BY <2>5, <2>9, <3>3, <4>1 DEF PutItem
      <4>3. /\ Row \in Item /\ ask[r] \in MutationOp /\ Accepted(ask[r], Row)
            /\ Row' = Saved(ask[r], Row)
        BY <3>2, <4>2, PutSavesTheOperation
      <4> QED
        BY <2>9, <4>1, <4>2, <4>3, SavedChangesWhatWasAsked
    <3>4. CASE answer[q] = "ok"
      <4>1. ask[q] = ask'[q] /\ Len(rows) > 1
        <5>1. ask'[q] = ask[q]
          BY <2>4, <3>4 DEF IInv, RequestsAreOrderly, Pending
        <5> QED  BY <2>9, <3>4, <5>1 DEF AttachInv
      <4>2. Exists => f \in FileIds(Row)
        BY <2>9, <3>1, <3>2, <3>4, <4>1 DEF AttachInv, AcknowledgedAttachSurvives
      <4>3. CASE rows' = rows
        BY <2>9, <4>2, <4>3 DEF Exists, Row
      <4>4. CASE rows' # rows
        <5>1. PICK w \in Request :
                 \/ CreateItem(w)
                 \/ CreateAgain(w) /\ ~Exists /\ Commit(draft[w])
                 \/ PutItem(w)
                 \/ DeleteItem(w) /\ DeleteCondition(w) /\ Commit(NoRow)
          BY <2>1, <4>4, WhoWrites
        <5>2. ~CreateItem(w)
          BY <1>0, <4>1 DEF CreateItem
        <5>3. ~Commit(NoRow)
          <6>1. Commit(NoRow) => Row' = NoRow
            BY CommitExtends DEF IInv
          <6> QED  BY <2>9, <6>1 DEF Exists
        <5>4. ~(CreateAgain(w) /\ ~Exists /\ Commit(draft[w]))
          <6> SUFFICES ASSUME ~Exists, Commit(draft[w]) PROVE FALSE
            OBVIOUS
          <6>1. draft[w] \in Item \cup {NoRow}
            BY <1>0 DEF LocalsTyped
          <6>2. Reborn'
            BY <4>1, <6>1, RebornByCommit DEF IInv
          <6> QED  BY <2>9, <6>2
        <5>5. PutItem(w)
          BY <5>1, <5>2, <5>3, <5>4
        <5>6. Exists
          BY <5>5 DEF PutItem, PutCondition, IsCurrent
        <5>7. ask[w] # [kind |-> "detach", fileId |-> f]
          <6>1. ask[w] # NoAsk
            BY <5>5 DEF PutItem, IInv, RequestsAreOrderly
          <6> QED  BY <3>1, <6>1
        <5>8. /\ Row \in Item /\ ask[w] \in MutationOp /\ Accepted(ask[w], Row)
              /\ Row' = Saved(ask[w], Row)
          BY <3>2, <5>5, PutSavesTheOperation
        <5> QED
          BY <4>2, <5>6, <5>7, <5>8, SavedChangesWhatWasAsked
      <4> QED  BY <4>3, <4>4
    <3> QED  BY <3>3, <3>4
  <2> QED
    BY <2>8, <2>9 DEF AttachInv, AcknowledgedAttachSurvives, FileIds
<1> QED
  BY <1>1, <1>2 DEF Next

\* An upload whose attach was acknowledged is on the item while that lives
\* and nobody has asked to detach it (AppendFile, mutateItem).
THEOREM AcknowledgedAttachesSurvive == Spec => []AcknowledgedAttachSurvives
<1>1. Init => AttachInv
  BY DEF Init, AttachInv, AcknowledgedAttachSurvives
<1>2. AttachInv => AcknowledgedAttachSurvives
  BY DEF AttachInv
<1> QED
  BY <1>1, <1>2, AttachesAreKept, Invariance, PTL DEF Spec

\* What would make openapi.yaml's 412 true (PinnedConflictMeansStale, which the
\* code as it is breaks): with reads of the leader's row, a request that named a
\* version and is told of a conflict named one that is no longer current.
THEOREM ConsistentReadsMakeConflictsTrue ==
    ASSUME MaxLag = 0
    PROVE  Spec => []PinnedConflictMeansStale
<1>1. IInv /\ PinInv => PinnedConflictMeansStale
  <2> SUFFICES ASSUME IInv, PinInv, NEW r \in Request, pin[r] # NoPin,
                      answer[r] = "conflict", ~Reborn, IsCurrent(pin[r])
               PROVE  FALSE
    BY DEF PinnedConflictMeansStale
  <2>1. Exists /\ Row.version = pin[r]
    BY DEF IsCurrent
  <2>2. pin[r] < Len(rows) - 1
    BY <2>1 DEF PinInv, Passed, Behind
  <2>3. Len(rows) \in Nat /\ Row.version = Len(rows) - 1
    BY <2>1, CurrentIsLast
  <2> QED  BY <2>1, <2>2, <2>3
<1> QED  BY <1>1, Invariance, PinsInvariant, PTL

-----------------------------------------------------------------------------
\* The calls that attempts are worth.
LEMMA AttemptsCount ==
    ASSUME NEW n \in Nat
    PROVE  /\ n * (MaxSends + 1) \in Nat
           /\ n > 0 => (n - 1) * (MaxSends + 1) + MaxSends + 1 = n * (MaxSends + 1)
<1>1. MaxSends \in Nat
  BY RequestAssumption
<1> QED  BY <1>1

\* EveryCallCounts: a read leads to a write or an end, a write unheard to one
\* copy less, and a refused write to a read only at the price of an attempt.
THEOREM ContentionRunsOut == Spec => EveryCallCounts
<1> DEFINE Counts ==
        \A r \in Request :
            pc[r] # "idle" /\ Acts(r) => CallsLeft(r)' < CallsLeft(r)
<1>1. IInv /\ [Next]_vars => Counts
  <2> SUFFICES ASSUME IInv, Next, NEW r \in Request, pc[r] # "idle", Acts(r)
               PROVE  CallsLeft(r)' < CallsLeft(r)
    BY DEF vars, Acts
  <2>0. LocalsTyped
    BY TypeOKHasLocals DEF IInv
  <2>1. /\ MaxConflictRetries \in Nat /\ MaxSends \in Nat \ {0}
        /\ tries[r] \in 0..MaxConflictRetries /\ sent[r] \in 0..MaxSends - 1
        /\ pc[r] \in {"create", "read", "put", "delete", "done"}
    BY <2>0, RequestAssumption DEF LocalsTyped
  <2>2. PICK m \in Nat : m = (MaxConflictRetries - tries[r]) * (MaxSends + 1)
    <3>1. MaxConflictRetries - tries[r] \in Nat
      BY <2>1
    <3> QED  BY <3>1, AttemptsCount
  <2>3. CallsLeft(r) = CASE pc[r] = "done" -> 0
                         [] pc[r] \in {"create", "delete"} -> MaxSends - sent[r]
                         [] pc[r] = "put" -> m + MaxSends - sent[r]
                         [] OTHER -> m + MaxSends + 1
    BY <2>2 DEF CallsLeft
  <2>4. Step(r) \/ TimeOut(r)
    <3>1. PICK q \in Request : CreateItem(q) \/ Begin(q) \/ Step(q) \/ TimeOut(q)
      BY DEF Next
    <3>2. q = r
      BY <3>1, OneActs
    <3> QED  BY <3>1, <3>2 DEF CreateItem, Begin
  <2>5. \/ (\E a : Reply(r, a)) /\ pc[r] \in {"create", "read", "put", "delete"}
        \/ pc[r] \in {"create", "put", "delete"} /\ Unheard(r)
        \/ pc[r] = "read" /\ Goto(r, "put") /\ UNCHANGED <<tries, sent>>
        \/ pc[r] = "put" /\ Conflicted(r) /\ UNCHANGED <<ask, pin>>
    BY <2>4 DEF Step, CreateAgain, ReadItem, PutItem, PutRefused, DeleteItem, TimeOut
  <2>6. CASE (\E a : Reply(r, a)) /\ pc[r] \in {"create", "read", "put", "delete"}
    <3>1. pc'[r] = "done"
      BY <2>0, <2>6 DEF Reply, Goto, LocalsTyped
    <3>2. CallsLeft(r)' = 0
      BY <3>1 DEF CallsLeft
    <3>3. CallsLeft(r) > 0
      BY <2>1, <2>2, <2>3, <2>6
    <3> QED  BY <3>2, <3>3
  <2>7. CASE pc[r] \in {"create", "put", "delete"} /\ Unheard(r)
    <3>1. /\ pc'[r] = pc[r] /\ tries'[r] = tries[r] /\ sent'[r] = sent[r] + 1
      BY <2>0, <2>7 DEF Unheard, LocalsTyped
    <3>2. CallsLeft(r)' = CASE pc[r] = "done" -> 0
                            [] pc[r] \in {"create", "delete"} -> MaxSends - (sent[r] + 1)
                            [] pc[r] = "put" -> m + MaxSends - (sent[r] + 1)
                            [] OTHER -> m + MaxSends + 1
      BY <2>2, <3>1 DEF CallsLeft
    <3> QED  BY <2>1, <2>2, <2>3, <2>7, <3>2
  <2>8. CASE pc[r] = "read" /\ Goto(r, "put") /\ UNCHANGED <<tries, sent>>
    <3>1. pc'[r] = "put" /\ tries'[r] = tries[r] /\ sent'[r] = sent[r]
      BY <2>0, <2>8 DEF Goto, LocalsTyped
    <3>2. CallsLeft(r)' = m + MaxSends - sent[r]
      BY <2>2, <3>1 DEF CallsLeft
    <3>3. CallsLeft(r) = m + MaxSends + 1
      BY <2>3, <2>8
    <3> QED  BY <2>1, <2>2, <3>2, <3>3
  <2>9. CASE pc[r] = "put" /\ Conflicted(r) /\ UNCHANGED <<ask, pin>>
    <3>1. CallsLeft(r) = m + MaxSends - sent[r]
      BY <2>3, <2>9
    <3>2. CASE pc'[r] = "done"
      <4>1. CallsLeft(r)' = 0
        BY <3>2 DEF CallsLeft
      <4> QED  BY <2>1, <2>2, <3>1, <4>1
    <3>3. CASE pc'[r] = "read" /\ tries[r] < MaxConflictRetries /\ tries'[r] = tries[r] + 1
      <4>1. CallsLeft(r)' = (MaxConflictRetries - (tries[r] + 1)) * (MaxSends + 1)
                               + MaxSends + 1
        BY <3>3 DEF CallsLeft
      <4>2. PICK n \in Nat : n = MaxConflictRetries - tries[r]
        BY <2>1
      <4>3. n > 0 /\ MaxConflictRetries - (tries[r] + 1) = n - 1
        BY <2>1, <3>3, <4>2
      <4>4. (n - 1) * (MaxSends + 1) + MaxSends + 1 = n * (MaxSends + 1)
        BY <4>3, AttemptsCount
      <4>5. CallsLeft(r)' = m
        BY <2>2, <4>1, <4>2, <4>3, <4>4
      <4> QED  BY <2>1, <2>2, <3>1, <4>5
    <3> QED  BY <2>0, <2>9, <3>2, <3>3, ConflictedEndsOrRetries
  <2> QED  BY <2>5, <2>6, <2>7, <2>8, <2>9
<1>2. Spec => [][Counts]_vars
  BY <1>1, Invariance, PTL DEF Spec
<1> QED  BY <1>2 DEF EveryCallCounts

\* RepeatedWritesChangeNothing: every operation, done again on what it saved,
\* is refused or is empty (MutationsAreIdempotent).
THEOREM RetriesDoNoHarm == Spec => RepeatedWritesChangeNothing
<1> DEFINE Harmless ==
        \A r \in Request :
            /\ pc[r] = "put" /\ Writes(r)
            /\ Len(rows) > 2 /\ ~Reborn
            /\ Accepted(ask[r], rows[Len(rows) - 1])
            /\ Row = Saved(ask[r], rows[Len(rows) - 1])
            => Row' = [Row EXCEPT !.version = @ + 1]
<1>1. IInv /\ [Next]_vars => Harmless
  <2> SUFFICES ASSUME IInv, Next, NEW r \in Request, pc[r] = "put", Writes(r),
                      Len(rows) > 2, ~Reborn,
                      Accepted(ask[r], rows[Len(rows) - 1]),
                      Row = Saved(ask[r], rows[Len(rows) - 1])
               PROVE  Row' = [Row EXCEPT !.version = @ + 1]
    BY DEF vars, Writes
  <2> DEFINE before == rows[Len(rows) - 1]
             op == ask[r]
  <2>1. PutItem(r)
    BY WriterIs DEF CreateItem, CreateAgain, DeleteItem
  <2>2. /\ Row \in Item /\ op \in MutationOp /\ Accepted(op, Row)
        /\ Row' = Saved(op, Row)
    BY <2>1, PutSavesTheOperation
  <2>3. before \in Item /\ DistinctFiles(before.files)
    <3>1. /\ Len(rows) \in Nat \ {0} /\ DOMAIN rows = 1..Len(rows)
          /\ \A k \in 1..Len(rows) : rows[k] \in Item \cup {NoRow}
      BY HistoryIsASequence DEF IInv
    <3>2. PICK k \in DOMAIN rows : k = Len(rows) - 1 /\ k \in 2..Len(rows) - 1
      BY <3>1
    <3>3. rows[k] # NoRow /\ IsSound(rows[k])
      BY <3>2 DEF Reborn, IInv, SavedItemsAreSound
    <3>4. before = rows[k]
      BY <3>2
    <3> QED  BY <3>1, <3>2, <3>3, <3>4 DEF IsSound
  <2> HIDE DEF before, op
  <2>4. Refusal(op, Saved(op, before)) = "none" /\ Accepted(op, before)
        /\ Row = Saved(op, before)
    BY <2>2 DEF Accepted, before, op
  <2>5. Saved(op, Row) = [Row EXCEPT !.version = before.version + 2]
    BY <2>2, <2>3, <2>4, MutationsAreIdempotent
  <2>6. Row.version = before.version + 1 /\ before.version \in Nat
    BY <2>2, <2>3, <2>4, SavedIsSound DEF Item
  <2>7. Row.version + 1 = before.version + 2
    BY <2>6
  <2> QED  BY <2>2, <2>5, <2>7
<1> QED
  BY <1>1, Invariance, PTL DEF Spec, RepeatedWritesChangeNothing

-----------------------------------------------------------------------------
\* What would make AppendFile's "a lost update is impossible" true of the whole
\* store (LostUpdateIsImpossible, which the code as it is breaks): an SDK client
\* that sends no write twice, for then an item has one life.
THEOREM WithoutCopiesNoUpdateIsLost ==
    ASSUME MaxSends = 1
    PROVE  Spec => LostUpdateIsImpossible
<1> DEFINE OneLife == ~Reborn /\ \A r \in Request : pc[r] # "create"
<1>1. Init => OneLife
  <2> SUFFICES ASSUME Init PROVE OneLife
    OBVIOUS
  <2>1. Len(rows) = 1
    BY DEF Init
  <2> QED  BY <2>1, FirstHasOneLife DEF Init
<1>2. IInv /\ OneLife /\ [Next]_vars => OneLife'
  <2> SUFFICES ASSUME IInv, OneLife, [Next]_vars PROVE OneLife'
    OBVIOUS
  <2>0. LocalsTyped
    BY TypeOKHasLocals DEF IInv
  <2>1. CASE UNCHANGED vars
    BY <2>1 DEF vars, Reborn
  <2>2. ASSUME NEW r \in Request,
               CreateItem(r) \/ Begin(r) \/ Step(r) \/ TimeOut(r)
        PROVE  \A q \in Request : pc'[q] # "create"
    <3>1. ~(MaxSends > 1)
      OBVIOUS
    <3>2. \E label \in {"delete", "read", "put", "done"} :
             pc' = [pc EXCEPT ![r] = label] \/ pc' = pc
      BY <2>2, <3>1 DEF CreateItem, Begin, Step, TimeOut, CreateAgain, ReadItem, PutItem,
           PutRefused, DeleteItem, Conflicted, ReadAgain, Reply, Unheard, Goto
    <3> QED  BY <2>0, <3>2 DEF LocalsTyped
  <2>3. ASSUME Next PROVE ~Reborn'
    <3>1. CASE rows' = rows
      BY <3>1 DEF Reborn
    <3>2. CASE rows' # rows
      <4>1. PICK r \in Request : CreateItem(r) \/ PutItem(r)
                                 \/ (DeleteItem(r) /\ DeleteCondition(r) /\ Commit(NoRow))
        BY <2>3, <3>2, WhoWrites DEF CreateAgain
      <4>2. CASE CreateItem(r)
        <5>1. PICK content \in Creation :
                 Validate(NewItem(content)) /\ Commit(Normalize(NewItem(content)))
          BY <3>2, <4>2 DEF CreateItem
        <5>2. Normalize(NewItem(content)) \in Item
          BY <5>1, NewItemIsSound, RequestAssumption
        <5>3. ~(Len(rows) > 1)
          BY <4>2 DEF CreateItem
        <5> QED  BY <5>1, <5>2, <5>3, RebornByCommit DEF IInv
      <4>3. CASE PutItem(r)
        <5>1. draft[r] \in Item \cup {NoRow} /\ Commit(draft[r]) /\ Exists
          BY <2>0, <4>3 DEF PutItem, PutCondition, IsCurrent, LocalsTyped
        <5> QED  BY <5>1, RebornByCommit DEF IInv
      <4>4. CASE DeleteItem(r) /\ DeleteCondition(r) /\ Commit(NoRow)
        BY <4>4, RebornByCommit DEF DeleteCondition, IInv
      <4> QED  BY <4>1, <4>2, <4>3, <4>4
    <3> QED  BY <3>1, <3>2
  <2> QED  BY <2>1, <2>2, <2>3 DEF Next
<1>3. Spec => [](~Reborn)
  <2>1. OneLife => ~Reborn
    OBVIOUS
  <2> HIDE DEF OneLife
  <2> QED  BY <1>1, <1>2, <2>1, Invariance, PTL DEF Spec
<1> QED
  BY <1>3, OnlyAskedChanges, PTL DEF ChangesWereAsked, LostUpdateIsImpossible
=============================================================================
