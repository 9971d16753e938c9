------------------------------- MODULE ItemStore -------------------------------
(***************************************************************************)
(* internal/store/items.go: the requests that create, change and delete    *)
(* ONE item, each a concurrent execution of a handler, over the item's row *)
(* in DynamoDB.                                                            *)
(*                                                                         *)
(* The row is modelled by its whole history `rows': the last entry is the  *)
(* row as the table's leader holds it, NoRow when there is none.  GetItem  *)
(* does not ask for a consistent read, so it may return an entry up to     *)
(* MaxLag writes old.  Conditional writes are decided on the last entry.   *)
(*                                                                         *)
(* A write can take effect although its acknowledgement is lost.  The SDK  *)
(* then sends it again, up to MaxSends times, and the next copy is decided *)
(* on the row as it is when that copy arrives.  A create's condition is    *)
(* only that there is no row: its second copy makes an item again that     *)
(* somebody has deleted meanwhile, and the versions start again from 1.    *)
(***************************************************************************)
EXTENDS ItemDomain

CONSTANTS
    Request,            \* handler executions
    Mutation,           \* the mutations they may ask for
    Creation,           \* the contents createItem may be called with
    MaxConflictRetries, \* store.go: maxConflictRetries
    MaxLag,             \* bound: writes a replica may be behind
    MaxSends,           \* attempts of the SDK's retryer at one write
    NoRow, NoAsk

NoPin == 0      \* no If-Match, or "*"

Creating == [kind |-> "create"]
Deleting == [kind |-> "delete"]

ASSUME RequestAssumption ==
    /\ Mutation \subseteq MutationOp
    /\ Creation \subseteq [title : Title \cup {Blank}, date : Date \cup {NoDate}]
    /\ MaxConflictRetries \in Nat
    /\ MaxLag \in Nat
    /\ MaxSends \in Nat \ {0}
    /\ NoRow \notin Item
    /\ NoAsk \notin MutationOp \cup {Creating, Deleting}

Ask == Mutation \cup {Creating, Deleting}

Answers == {"ok", "notFound", "badRequest", "invalid", "conflict", "exists",
            "timeout"}
Pending == "pending"

VARIABLES
    rows,    \* the committed history of the row
    pc,      \* where each request is
    ask,     \* what it asked for
    pin,     \* its If-Match version, or NoPin
    tries,   \* mutateItem's attempt
    draft,   \* the record it is about to save
    sent,    \* copies of its write that took effect unheard
    answer   \* what the caller is told

vars == <<rows, pc, ask, pin, tries, draft, sent, answer>>

Row == rows[Len(rows)]
Exists == Row # NoRow
IsCurrent(version) == Exists /\ Row.version = version

\* What a read that is not consistent may return.
Readable == {rows[k] : k \in {j \in DOMAIN rows : j + MaxLag >= Len(rows)}}

\* The versions the API has put in an ETag so far.
KnownVersions == {rows[k].version : k \in {j \in DOMAIN rows : rows[j] # NoRow}}

TypeOK ==
    /\ rows \in Seq(Item \cup {NoRow})
    /\ rows # <<>>
    /\ pc \in [Request -> {"idle", "create", "read", "put", "delete", "done"}]
    /\ ask \in [Request -> Ask \cup {NoAsk}]
    /\ pin \in [Request -> Nat]
    /\ tries \in [Request -> 0..MaxConflictRetries]
    /\ draft \in [Request -> Item \cup {NoRow}]
    /\ sent \in [Request -> 0..MaxSends - 1]
    /\ answer \in [Request -> Answers \cup {Pending}]

Init ==
    /\ rows = <<NoRow>>
    /\ pc = [r \in Request |-> "idle"]
    /\ ask = [r \in Request |-> NoAsk]
    /\ pin = [r \in Request |-> NoPin]
    /\ tries = [r \in Request |-> 0]
    /\ draft = [r \in Request |-> NoRow]
    /\ sent = [r \in Request |-> 0]
    /\ answer = [r \in Request |-> Pending]

-----------------------------------------------------------------------------
Goto(r, label) == pc' = [pc EXCEPT ![r] = label]

\* The handler returns: its answer is given and its locals are gone.
Reply(r, a) ==
    /\ Goto(r, "done")
    /\ answer' = [answer EXCEPT ![r] = a]
    /\ draft' = [draft EXCEPT ![r] = NoRow]
    /\ tries' = [tries EXCEPT ![r] = 0]
    /\ sent' = [sent EXCEPT ![r] = 0]

\* The acknowledgement is lost, and the SDK will send the write again.
Unheard(r) ==
    /\ sent[r] < MaxSends - 1
    /\ sent' = [sent EXCEPT ![r] = @ + 1]
    /\ UNCHANGED <<pc, tries, draft, answer>>

Commit(row) == rows' = Append(rows, row)

(***************************************************************************)
(* createItem: the id is minted by the request itself, so nobody else can  *)
(* touch the row before it is first written, which this step does; a       *)
(* create that is refused or lost leaves the row to another create.        *)
(***************************************************************************)
CreateItem(r) ==
    /\ pc[r] = "idle"
    /\ Len(rows) = 1
    /\ ask' = [ask EXCEPT ![r] = Creating]
    /\ \E content \in Creation :
          LET item == Normalize(NewItem(content))
          IN  IF Validate(NewItem(content))
              THEN \/ Commit(item) /\ \E a \in {"ok", "timeout"} : Reply(r, a)
                   \/ /\ Commit(item)
                      /\ MaxSends > 1
                      /\ Goto(r, "create")
                      /\ draft' = [draft EXCEPT ![r] = item]
                      /\ sent' = [sent EXCEPT ![r] = 1]
                      /\ UNCHANGED <<tries, answer>>
                   \/ rows' = rows /\ Reply(r, "timeout")
              ELSE rows' = rows /\ Reply(r, "invalid")
    /\ pin' = pin

\* The create sent again: `attribute_not_exists(pk)' is its only condition.
CreateAgain(r) ==
    /\ pc[r] = "create"
    /\ IF Exists
       THEN rows' = rows /\ Reply(r, "exists")
       ELSE /\ Commit(draft[r])
            /\ \/ Reply(r, "ok")
               \/ Unheard(r)
               \/ Reply(r, "timeout")
    /\ UNCHANGED <<ask, pin>>

(***************************************************************************)
(* patchItem, deleteFile, reorderFiles and deleteItem take If-Match;       *)
(* attachFile does not.                                                    *)
(***************************************************************************)
Begin(r) ==
    /\ pc[r] = "idle"
    /\ Len(rows) > 1
    /\ \E op \in Mutation \cup {Deleting}, v \in KnownVersions \cup {NoPin} :
          /\ op.kind = "attach" => v = NoPin
          /\ ask' = [ask EXCEPT ![r] = op]
          /\ pin' = [pin EXCEPT ![r] = v]
          /\ Goto(r, IF op = Deleting THEN "delete" ELSE "read")
    /\ UNCHANGED <<rows, tries, draft, sent, answer>>

(***************************************************************************)
(* The first half of mutateItem's loop: read, compare the pin, mutate,     *)
(* validate, normalize.                                                    *)
(***************************************************************************)
ReadItem(r) ==
    /\ pc[r] = "read"
    /\ \E item \in Readable :
          IF item = NoRow
          THEN Reply(r, "notFound")
          ELSE IF pin[r] # NoPin /\ pin[r] # item.version
          THEN Reply(r, "conflict")
          ELSE IF Refusal(ask[r], item) # "none"
          THEN Reply(r, Refusal(ask[r], item))
          ELSE IF ~Validate(Mutated(ask[r], item))
          THEN Reply(r, "invalid")
          ELSE /\ draft' = [draft EXCEPT ![r] = Saved(ask[r], item)]
               /\ Goto(r, "put")
               /\ UNCHANGED <<tries, sent, answer>>
    /\ UNCHANGED <<rows, ask, pin>>

\* The loop goes round again, with what is left of the locals.
ReadAgain(r, attempt) ==
    /\ Goto(r, "read")
    /\ tries' = [tries EXCEPT ![r] = attempt]
    /\ draft' = [draft EXCEPT ![r] = NoRow]
    /\ sent' = [sent EXCEPT ![r] = 0]
    /\ answer' = answer

\* Mutant: the attempt is never counted against the limit.
UnboundedRetry(r) ==
    IF pin[r] # NoPin
    THEN Reply(r, "conflict")
    ELSE ReadAgain(r, IF tries[r] < MaxConflictRetries THEN tries[r] + 1 ELSE tries[r])

\* Mutant: the limit is compared after one attempt too many.
OneRetryTooMany(r) ==
    IF pin[r] # NoPin \/ tries[r] > MaxConflictRetries
    THEN Reply(r, "conflict")
    ELSE ReadAgain(r, tries[r] + 1)

\* Mutant: the retry saves the same draft on the newer version unread.
RetryWithoutReading(r) ==
    IF pin[r] # NoPin \/ tries[r] >= MaxConflictRetries \/ ~Exists
    THEN Reply(r, "conflict")
    ELSE /\ tries' = [tries EXCEPT ![r] = @ + 1]
         /\ draft' = [draft EXCEPT ![r].version = Row.version + 1]
         /\ UNCHANGED <<pc, sent, answer>>

\* mutateItem after ErrVersionConflict.
Conflicted(r) ==
    IF pin[r] # NoPin \/ tries[r] >= MaxConflictRetries
    THEN Reply(r, "conflict")
    ELSE ReadAgain(r, tries[r] + 1)

(***************************************************************************)
(* putItemIfVersion: `version = :expected'.  A missing row has no version, *)
(* so the condition fails on it as well.                                   *)
(***************************************************************************)
PutIfPresent(r) == Exists                                     \* mutant
PutIfAbsentOrCurrent(r) ==                                    \* mutant
    ~Exists \/ IsCurrent(draft[r].version - 1)

PutCondition(r) == IsCurrent(draft[r].version - 1)

PutItem(r) ==
    /\ pc[r] = "put"
    /\ PutCondition(r)
    /\ Commit(draft[r])
    /\ \/ Reply(r, "ok")
       \/ Unheard(r)
       \/ Reply(r, "timeout")
    /\ UNCHANGED <<ask, pin>>

PutRefused(r) ==
    /\ pc[r] = "put"
    /\ ~PutCondition(r)
    /\ Conflicted(r)
    /\ UNCHANGED <<rows, ask, pin>>

\* DeleteItem: attribute_exists(pk) [AND version = :v].
DeleteIfPresent(r) == Exists                                  \* mutant

DeleteCondition(r) == Exists /\ (pin[r] # NoPin => IsCurrent(pin[r]))

DeleteRefusal(r) == IF pin[r] # NoPin THEN "conflict" ELSE "notFound"

DeleteItem(r) ==
    /\ pc[r] = "delete"
    /\ IF DeleteCondition(r)
       THEN /\ Commit(NoRow)
            /\ \/ Reply(r, "ok")
               \/ Unheard(r)
               \/ Reply(r, "timeout")
       ELSE rows' = rows /\ Reply(r, DeleteRefusal(r))
    /\ UNCHANGED <<ask, pin>>

\* The handler's context ends, or the Lambda does.  (The copy it was waiting
\* for may reach the table a moment after the caller is told; the model has
\* it first, as Reply(r, "timeout") after a write, for nobody but the caller
\* can tell the difference.)
TimeOut(r) ==
    /\ pc[r] \in {"create", "read", "put", "delete"}
    /\ Reply(r, "timeout")
    /\ UNCHANGED <<rows, ask, pin>>

\* What the code itself will do next for a request in progress.
Step(r) ==
    CreateAgain(r) \/ ReadItem(r) \/ PutItem(r) \/ PutRefused(r) \/ DeleteItem(r)

Next == \E r \in Request : CreateItem(r) \/ Begin(r) \/ Step(r) \/ TimeOut(r)

Spec == Init /\ [][Next]_vars

\* Every call a handler makes returns, an error if nothing else.
FairSpec == Spec /\ \A r \in Request : WF_vars(Step(r))
-----------------------------------------------------------------------------
(***************************************************************************)
(* Safety.                                                                 *)
(***************************************************************************)

\* The item was deleted and then made again by its own create.
Reborn == \E k \in 2..Len(rows) - 1 : rows[k] = NoRow

InOneLife(j, k) == \A i \in j..k : rows[i] # NoRow

\* As long as the item lives its versions count up by one, so that a version
\* names one saved record, which is what an ETag and `version = :expected'
\* rely on.  After a deletion, if anything, the item is there again exactly
\* as it was first made.
VersionNamesOneRecord ==
    /\ \A j, k \in DOMAIN rows :
          j <= k /\ InOneLife(j, k) => rows[k].version = rows[j].version + (k - j)
    /\ \A k \in DOMAIN rows :
          rows[k] = NoRow /\ k < Len(rows) =>
              rows[k + 1] # NoRow /\ rows[k + 1] = rows[2] /\ rows[2].version = 1

\* However requests interleave, no saved item breaks its type's manifest,
\* holds one upload twice, or shows a cover that is not one of its files.
SavedItemsAreSound ==
    \A k \in DOMAIN rows : rows[k] # NoRow => IsSound(rows[k])

\* A draft is always one whole operation on one committed record, the one
\* whose version it will be conditioned on, and that is the caller's pin.
DraftIsOneOperation ==
    \A r \in Request : pc[r] = "put" =>
        \E k \in DOMAIN rows :
            /\ rows[k] # NoRow
            /\ ask[r] \in Mutation
            /\ Accepted(ask[r], rows[k])
            /\ draft[r] = Saved(ask[r], rows[k])
            /\ pin[r] # NoPin => pin[r] = rows[k].version

\* AppendFile's promise: an upload whose attach was acknowledged is on the
\* item as long as that lives and nobody has asked to detach the file.
AcknowledgedAttachSurvives ==
    \A r \in Request :
        /\ ask[r] # NoAsk /\ ask[r].kind = "attach" /\ answer[r] = "ok"
        /\ Exists /\ ~Reborn
        /\ \A q \in Request : ask[q] = NoAsk \/ ask[q].kind # "detach"
                              \/ ask[q].fileId # ask[r].file.id
        => ask[r].file.id \in FileIds(Row)

\* The request whose call this step is.
Acts(r) == <<pc[r], tries[r], sent[r]>>' # <<pc[r], tries[r], sent[r]>>

Writes(r) == rows' # rows /\ Acts(r)

\* PatchItem's promise: a write with If-Match replaces exactly the version it
\* named, and however often it is sent, it happens once in the item's life.
PinnedWriteReplacesItsPin ==
    [][\A r \in Request :
          pin[r] # NoPin /\ Writes(r) =>
              /\ Exists /\ Row.version = pin[r]
              /\ sent[r] = 0 \/ Reborn]_vars

\* Every difference between two successive versions was asked for by the
\* request that wrote the second.
WritesWhatWasAsked ==
    \A r \in Request :
        Exists /\ Writes(r) /\ Row' # NoRow =>
            /\ Row'.title # Row.title =>
                  ask[r].kind = "patch" /\ ask[r].title = Row'.title
            /\ Row'.date # Row.date =>
                  ask[r].kind = "patch" /\ ask[r].date # Absent
            /\ \A f \in FileIds(Row) \ FileIds(Row)' :
                  ask[r] = [kind |-> "detach", fileId |-> f]
            /\ \A f \in FileIds(Row)' \ FileIds(Row) :
                  ask[r].kind = "attach" /\ ask[r].file.id = f

\* Nobody's stale copy undoes a change that it did not mention.  (An item
\* made again has versions that a copy of its former life may match.)
ChangesWereAsked == [][~Reborn => WritesWhatWasAsked]_vars

\* AppendFile's comment, of confirming an upload twice, for every operation:
\* a write on top of what the same operation made of the version before, as
\* when a put is retried whose acknowledgement was lost, changes nothing but
\* the version.
RepeatedWritesChangeNothing ==
    [][\A r \in Request :
          /\ pc[r] = "put" /\ Writes(r)
          /\ Len(rows) > 2 /\ ~Reborn
          /\ Accepted(ask[r], rows[Len(rows) - 1])
          /\ Row = Saved(ask[r], rows[Len(rows) - 1])
          => Row' = [Row EXCEPT !.version = @ + 1]]_vars

\* No request that read or changed an item can bring it back once it is
\* deleted.  Its own create can, while it has not been acknowledged, since
\* its copies carry no version: the item is then there as it was first made.
DeletedStaysDeleted ==
    [][Len(rows) > 1 /\ ~Exists /\ rows' # rows =>
          /\ Row' = rows[2]
          /\ \E r \in Request :
                ask[r] = Creating /\ answer[r] = Pending /\ Acts(r)]_vars

(***************************************************************************)
(* Three claims the repository makes that the code does not keep.          *)
(***************************************************************************)

\* AppendFile's comment: "the write is conditional on the version that was
\* read, so a lost update is impossible".
LostUpdateIsImpossible == [][WritesWhatWasAsked]_vars

\* item.go says of CoverPinned that it "records that a person chose this
\* cover, as opposed to the server deriving it".
PinnedCoverWasChosen ==
    \A k \in DOMAIN rows :
        rows[k] # NoRow /\ rows[k].coverPinned =>
            \E r \in Request : /\ ask[r] # NoAsk /\ ask[r].kind = "patch"
                                /\ ask[r].coverFileId = rows[k].coverFileId

\* openapi.yaml says of a 412: "The If-Match version is stale; someone else
\* edited this".  (Checked when the answer is given: later edits hide it.)
PinnedConflictMeansStale ==
    \A r \in Request :
        pin[r] # NoPin /\ answer[r] = "conflict" /\ ~Reborn => ~IsCurrent(pin[r])

(***************************************************************************)
(* The store implements the atomic item: the current row is the record,    *)
(* and reads, drafts, copies and retries are invisible.                    *)
(***************************************************************************)
FirstRecord ==
    {Normalize(NewItem(c)) : c \in {d \in Creation : Validate(NewItem(d))}}

History == {rows[k] : k \in DOMAIN rows}

Atomic == INSTANCE AtomicItem WITH row <- Row, past <- History, reborn <- Reborn

BehavesAtomically == Atomic!Spec

\* The calls to the table that a request may still make: for this attempt,
\* and for each that is left, a read and the copies of a write.
CallsLeft(r) ==
    LET attempts == MaxConflictRetries - tries[r]
    IN  CASE pc[r] = "done" -> 0
          [] pc[r] \in {"create", "delete"} -> MaxSends - sent[r]
          [] pc[r] = "put" -> attempts * (MaxSends + 1) + MaxSends - sent[r]
          [] OTHER -> attempts * (MaxSends + 1) + MaxSends + 1

\* However many writers contend, every call a request makes is one less that
\* it has left: mutateItem gives up after MaxConflictRetries + 1 attempts,
\* though acknowledgements get lost and others commit between any two.
EveryCallCounts ==
    [][\A r \in Request :
          pc[r] # "idle" /\ Acts(r) => CallsLeft(r)' < CallsLeft(r)]_vars

(***************************************************************************)
(* Liveness: retries are bounded, so contention cannot keep a request      *)
(* going round for ever.                                                   *)
(***************************************************************************)
EveryRequestIsAnswered ==
    \A r \in Request : pc[r] # "idle" ~> pc[r] = "done"
=============================================================================
