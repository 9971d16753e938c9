-------------------------------- MODULE Roster --------------------------------
(***************************************************************************)
(* What the archives promise about who may do what: a register that says   *)
(* which role each account has in each archive, and a guard before it.     *)
(* The guard lets a request in or turns it away by the role its caller has *)
(* at that moment.  A request that was let in may change the one entry it  *)
(* was about, once, to what it asked for; nothing else changes an entry,   *)
(* except that a new archive is entered with its creator as its only       *)
(* member.  No mirrors, no replicas, no counting of owners.                *)
(*                                                                         *)
(* The guard is passed once: between that and the change the caller's role *)
(* may be taken away, as it may in the code.                               *)
(***************************************************************************)
CONSTANTS Request, Ask, ArchiveId, AccountId, Role, NoRole, NoAccount, NoAsk

Pending == "pending"

VARIABLES
    roleOf,     \* the register
    createdBy,  \* who made each archive
    inside,     \* the requests the guard has let in
    ask, answer

vars == <<roleOf, createdBy, inside, ask, answer>>

Init ==
    /\ roleOf = [a \in ArchiveId |-> [m \in AccountId |-> NoRole]]
    /\ createdBy = [a \in ArchiveId |-> NoAccount]
    /\ inside = {}
    /\ ask = [r \in Request |-> NoAsk]
    /\ answer = [r \in Request |-> Pending]

-----------------------------------------------------------------------------
Waiting(r) == ask[r] # NoAsk /\ answer[r] = Pending

Told(r, answers) ==
    /\ \E a \in answers : answer' = [answer EXCEPT ![r] = a]
    /\ inside' = inside \ {r}
    /\ ask' = ask

CallersRole(r) == roleOf[ask[r].archive][ask[r].caller]

\* The roles that suffice for each kind of request.
Suffices(kind) ==
    CASE kind = "getArchive" -> {"owner", "editor", "viewer"}
      [] kind = "writeItem" -> {"owner", "editor"}
      [] kind \in {"putMember", "removeMember"} -> {"owner"}

Guarded(r) == ask[r].kind \notin {"getMe", "createArchive"}

Submit(r) ==
    /\ ask[r] = NoAsk
    /\ \E q \in Ask : ask' = [ask EXCEPT ![r] = q]
    /\ UNCHANGED <<roleOf, createdBy, inside, answer>>

LetIn(r) ==
    /\ Waiting(r) /\ Guarded(r)
    /\ CallersRole(r) \in Suffices(ask[r].kind)
    /\ inside' = inside \cup {r}
    /\ UNCHANGED <<roleOf, createdBy, ask, answer>>

\* Members are told that they may not, others nothing.
TurnAway(r) ==
    /\ Waiting(r) /\ Guarded(r)
    /\ CallersRole(r) \notin Suffices(ask[r].kind)
    /\ Told(r, {IF CallersRole(r) = NoRole THEN "notFound" ELSE "forbidden"})
    /\ UNCHANGED <<roleOf, createdBy>>

\* The change a request was let in for, acknowledged or not.
Change(r) ==
    /\ Waiting(r) /\ r \in inside
    /\ \E role \in Role \cup {NoRole} :
          /\ \/ ask[r].kind = "putMember" /\ role = ask[r].role /\ role \in Role
             \/ ask[r].kind = "removeMember" /\ role = NoRole
          /\ roleOf' = [roleOf EXCEPT ![ask[r].archive][ask[r].account] = role]
    /\ Told(r, {"ok", "error"})
    /\ createdBy' = createdBy

\* A new archive has its creator for a member, and nobody else.
Found(r) ==
    /\ Waiting(r) /\ ~Guarded(r)
    /\ \E a \in ArchiveId :
          /\ createdBy[a] = NoAccount
          /\ createdBy' = [createdBy EXCEPT ![a] = ask[r].caller]
          /\ roleOf' = [roleOf EXCEPT ![a] =
                [m \in AccountId |-> IF m = ask[r].caller THEN "owner" ELSE NoRole]]
    /\ Told(r, {"ok", "error"})

\* An answer without a change: of a read or an item request that was let in,
\* of a getMe that found an archive, or a failure that is not the guard's.
\* A body is looked at only for those who may do what it asks.
Return(r) ==
    /\ Waiting(r)
    /\ \/ ask[r].kind = "getMe" /\ Told(r, {"ok"})
       \/ r \in inside /\ ask[r].kind \in {"getArchive", "writeItem"} /\ Told(r, {"ok"})
       \/ r \in inside /\ ask[r].kind \in {"getArchive", "removeMember"}
          /\ Told(r, {"notFound"})
       \/ r \in inside /\ ask[r].kind = "removeMember" /\ Told(r, {"conflict"})
       \/ ask[r].kind = "createArchive" /\ Told(r, {"badRequest"})
       \/ /\ ask[r].kind = "putMember"
          /\ r \in inside \/ CallersRole(r) \in Suffices("putMember")
          /\ Told(r, {"badRequest"})
       \/ Told(r, {"error"})
    /\ UNCHANGED <<roleOf, createdBy>>

Next ==
    \E r \in Request : \/ Submit(r) \/ LetIn(r) \/ TurnAway(r)
                       \/ Change(r) \/ Found(r) \/ Return(r)

Spec == Init /\ [][Next]_vars
=============================================================================
