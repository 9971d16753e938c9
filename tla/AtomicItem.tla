------------------------------ MODULE AtomicItem ------------------------------
(***************************************************************************)
(* What the store promises about one record: every request takes effect,   *)
(* if at all, as one indivisible change of the current record, and "ok" is *)
(* answered by such a change itself.  No copies, no stale reads, no        *)
(* retries.  A request whose answer is not yet given, or is a failure, may *)
(* have taken effect too (its acknowledgement was lost), and an unpinned   *)
(* one may do so more than once.                                           *)
(*                                                                         *)
(* One exception goes with that: a create that was not acknowledged may    *)
(* make the record again after somebody has deleted it.  The record then   *)
(* begins a new life as it was first made, and from there on an operation  *)
(* may be computed from a record of a former life, if it has the version   *)
(* of the current one.                                                     *)
(*                                                                         *)
(* What a record is and what an operation does to it are parameters.       *)
(***************************************************************************)
EXTENDS Naturals

CONSTANTS
    Request,
    Mutation,           \* operations on a record
    Accepted(_, _),     \* whether an operation may be applied to a record
    Saved(_, _),        \* the record it makes of it
    FirstRecord,        \* what a create may write
    NoRow, NoAsk, Creating, Deleting

NoPin == 0
Pending == "pending"
Refusals == {"notFound", "badRequest", "invalid", "conflict", "exists", "timeout"}

VARIABLES
    row,            \* the record
    past,           \* all it has ever been, itself included
    reborn,         \* it was made again after a deletion
    ask, pin, answer

vars == <<row, past, reborn, ask, pin, answer>>

Init ==
    /\ row = NoRow
    /\ past = {NoRow}
    /\ reborn = FALSE
    /\ ask = [r \in Request |-> NoAsk]
    /\ pin = [r \in Request |-> NoPin]
    /\ answer = [r \in Request |-> Pending]

Told(r, answers) == \E a \in answers : answer' = [answer EXCEPT ![r] = a]

Becomes(record) == row' = record /\ past' = past \cup {record}

Outcome == {"ok", Pending} \cup Refusals

Create(r) ==
    /\ ask[r] = NoAsk
    /\ past = {NoRow}
    /\ \E record \in FirstRecord : Becomes(record)
    /\ ask' = [ask EXCEPT ![r] = Creating]
    /\ Told(r, Outcome)
    /\ UNCHANGED <<pin, reborn>>

CreateRefused(r) ==
    /\ ask[r] = NoAsk
    /\ ask' = [ask EXCEPT ![r] = Creating]
    /\ Told(r, Refusals)
    /\ UNCHANGED <<row, past, reborn, pin>>

CreateAgain(r) ==
    /\ ask[r] = Creating
    /\ answer[r] = Pending
    /\ row = NoRow
    /\ \E record \in past \cap FirstRecord : Becomes(record)
    /\ reborn' = TRUE
    /\ Told(r, Outcome)
    /\ UNCHANGED <<ask, pin>>

Submit(r) ==
    /\ ask[r] = NoAsk
    /\ \E op \in Mutation \cup {Deleting} : ask' = [ask EXCEPT ![r] = op]
    /\ pin' \in [Request -> Nat]
    /\ \A q \in Request \ {r} : pin'[q] = pin[q]
    /\ UNCHANGED <<row, past, reborn, answer>>

Applicable(r) ==
    /\ answer[r] = Pending
    /\ row # NoRow
    /\ pin[r] # NoPin => row.version = pin[r]

\* The records that the current one may be taken for.
Current ==
    {record \in past \ {NoRow} :
        IF reborn THEN record.version = row.version ELSE record = row}

Apply(r) ==
    /\ ask[r] \in Mutation
    /\ Applicable(r)
    /\ \E record \in Current : /\ Accepted(ask[r], record)
                                /\ Becomes(Saved(ask[r], record))
    /\ Told(r, Outcome)
    /\ UNCHANGED <<reborn, ask, pin>>

Delete(r) ==
    /\ ask[r] = Deleting
    /\ Applicable(r)
    /\ Becomes(NoRow)
    /\ Told(r, Outcome)
    /\ UNCHANGED <<reborn, ask, pin>>

Refuse(r) ==
    /\ ask[r] # NoAsk
    /\ answer[r] = Pending
    /\ Told(r, Refusals)
    /\ UNCHANGED <<row, past, reborn, ask, pin>>

Next ==
    \E r \in Request : \/ Create(r) \/ CreateRefused(r) \/ CreateAgain(r) \/ Submit(r)
                       \/ Apply(r) \/ Delete(r) \/ Refuse(r)

Spec == Init /\ [][Next]_vars
=============================================================================
