------------------------------ MODULE Membership ------------------------------
(***************************************************************************)
(* Archives, their members and what a role permits: store/archives.go, the *)
(* authorisation middleware, and the handlers of /v1/me, /v1/archives and  *)
(* .../members.  The item handlers take part as requests that need a role. *)
(*                                                                         *)
(* A membership is two rows, one under the archive and a mirror under the  *)
(* account, written in one transaction.  `log' is the table after every    *)
(* transaction, the last entry being the one the leader holds.  GetMember  *)
(* is strongly consistent; GetArchive and the two Queries are not, and may *)
(* see an entry up to MaxLag transactions old, each read its own.  The SDK *)
(* sends a transaction again under the same idempotency token, so a resent *)
(* one has no second effect.                                               *)
(***************************************************************************)
EXTENDS Naturals, Sequences, FiniteSets

CONSTANTS
    Request,        \* handler executions
    Ask,            \* what they may ask for
    ArchiveId, AccountId,
    BodyRole,       \* the role strings a body may carry
    MaxLag,         \* bound: transactions a replica may be behind
    NoRole, NoAccount, NoAsk

Role == {"owner", "editor", "viewer"}

ScopedKind == {"getArchive", "writeItem", "putMember", "removeMember"}
AskOf == [kind : {"getMe", "createArchive"} \cup ScopedKind,
          caller : AccountId, archive : ArchiveId,
          account : AccountId, role : BodyRole]

ASSUME MembershipAssumption ==
    /\ Ask \subseteq AskOf
    /\ IsFiniteSet(AccountId)
    /\ NoAsk \notin AskOf
    /\ NoRole \notin BodyRole \cup Role
    /\ NoAccount \notin AccountId
    /\ MaxLag \in Nat

Table == [createdBy : [ArchiveId -> AccountId \cup {NoAccount}],
          member : [ArchiveId -> [AccountId -> Role \cup {NoRole}]],
          mirror : [AccountId -> [ArchiveId -> Role \cup {NoRole}]]]

Answers == {"ok", "notFound", "forbidden", "badRequest", "conflict", "error"}
Pending == "pending"

VARIABLES
    log,     \* the table after every transaction
    pc,      \* where each request is
    ask,     \* what it asks for
    began,   \* the length of log when it arrived
    answer   \* what the caller is told

vars == <<log, pc, ask, began, answer>>

Now == log[Len(log)]

\* What a read that is not consistent may see.
Readable == {log[k] : k \in {j \in DOMAIN log : j + MaxLag >= Len(log)}}

Created(table, a) == table.createdBy[a] # NoAccount
Owners(table, a) == {m \in AccountId : table.member[a][m] = "owner"}

TypeOK ==
    /\ log \in Seq(Table)
    /\ log # <<>>
    /\ pc \in [Request -> {"idle", "listMine", "create", "authorise", "act",
                           "put", "target", "owners", "remove", "done"}]
    /\ ask \in [Request -> Ask \cup {NoAsk}]
    /\ began \in [Request -> Nat]
    /\ answer \in [Request -> Answers \cup {Pending}]

Init ==
    /\ log = <<[createdBy |-> [a \in ArchiveId |-> NoAccount],
                member |-> [a \in ArchiveId |-> [m \in AccountId |-> NoRole]],
                mirror |-> [m \in AccountId |-> [a \in ArchiveId |-> NoRole]]]>>
    /\ pc = [r \in Request |-> "idle"]
    /\ ask = [r \in Request |-> NoAsk]
    /\ began = [r \in Request |-> 0]
    /\ answer = [r \in Request |-> Pending]

-----------------------------------------------------------------------------
(***************************************************************************)
(* Roles.                                                                  *)
(***************************************************************************)
Permissions(role) ==
    CASE role = "owner"  -> {"read", "write", "manage_members", "delete_archive"}
      [] role = "editor" -> {"read", "write"}
      [] role = "viewer" -> {"read"}
      [] OTHER -> {}

Can(role, action) == action \in Permissions(role)

AnyRole(role) == role # NoRole                                \* mutant
Valid(role) == role \in Role

MiddlewareOnly(kind) ==                                       \* mutant
    IF kind = "getArchive" THEN {"read"} ELSE {"write"}

\* The actions the middleware and then the handler ask of the caller's role.
Needs(kind) ==
    CASE kind = "getArchive" -> {"read"}
      [] kind = "writeItem" -> {"write"}
      [] OTHER -> {"write", "manage_members"}

(***************************************************************************)
(* The transactions: both directions of a membership at once.              *)
(***************************************************************************)
ForgettingTheMirror(table, a, m, role) ==                     \* mutant
    [table EXCEPT !.member = [@ EXCEPT ![a][m] = role]]

SetRole(table, a, m, role) ==
    [table EXCEPT !.member = [@ EXCEPT ![a][m] = role],
                  !.mirror = [@ EXCEPT ![m][a] = role]]

WithoutItsOwner(table, a, m) ==                               \* mutant
    [table EXCEPT !.createdBy = [@ EXCEPT ![a] = m]]

WithArchive(table, a, m) ==
    [SetRole(table, a, m, "owner") EXCEPT !.createdBy = [@ EXCEPT ![a] = m]]

-----------------------------------------------------------------------------
Goto(r, label) ==
    /\ pc' = [pc EXCEPT ![r] = label]
    /\ answer' = answer

Reply(r, a) ==
    /\ pc' = [pc EXCEPT ![r] = "done"]
    /\ answer' = [answer EXCEPT ![r] = a]

\* A transaction that took effect, whether or not its acknowledgement came.
Commit(r, table) ==
    /\ log' = Append(log, table)
    /\ \E a \in {"ok", "error"} : Reply(r, a)

Begin(r) ==
    /\ pc[r] = "idle"
    /\ \E q \in Ask :
          /\ ask' = [ask EXCEPT ![r] = q]
          /\ Goto(r, CASE q.kind = "getMe" -> "listMine"
                       [] q.kind = "createArchive" -> "create"
                       [] OTHER -> "authorise")
    /\ began' = [began EXCEPT ![r] = Len(log)]
    /\ log' = log

\* getMe: an account in no archive is given one.
ListArchivesForAccount(r) ==
    /\ pc[r] = "listMine"
    /\ \E table \in Readable :
          IF \A a \in ArchiveId : table.mirror[ask[r].caller][a] = NoRole
          THEN Goto(r, "create")
          ELSE Reply(r, "ok")
    /\ UNCHANGED <<log, ask, began>>

\* CreateArchive mints the id, so its condition on the archive row holds.
CreateArchive(r) ==
    /\ pc[r] = "create"
    /\ \E a \in ArchiveId :
          /\ ~Created(Now, a)
          /\ Commit(r, WithArchive(Now, a, ask[r].caller))
    /\ UNCHANGED <<ask, began>>

(***************************************************************************)
(* withArchiveAccess, and the check the handler adds to it.  The caller's  *)
(* role stays in the request's context: nothing reads it again.            *)
(***************************************************************************)
RoleSomeReplicaHolds(r, role) ==                              \* mutant
    role \in {table.member[ask[r].archive][ask[r].caller] : table \in Readable}

GetCallersRole(r, role) == role = Now.member[ask[r].archive][ask[r].caller]

Authorise(r) ==
    /\ pc[r] = "authorise"
    /\ \E role \in Role \cup {NoRole} :
          /\ GetCallersRole(r, role)
          /\ IF role = NoRole THEN Reply(r, "notFound")
             ELSE IF \E action \in Needs(ask[r].kind) : ~Can(role, action)
             THEN Reply(r, "forbidden")
             ELSE CASE ask[r].kind = "putMember" ->
                          IF Valid(ask[r].role) THEN Goto(r, "put")
                          ELSE Reply(r, "badRequest")
                    [] ask[r].kind = "removeMember" -> Goto(r, "target")
                    [] OTHER -> Goto(r, "act")
    /\ UNCHANGED <<log, ask, began>>

\* getArchive answers 404 from a replica that has not seen the archive yet.
Act(r) ==
    /\ pc[r] = "act"
    /\ \/ Reply(r, "ok")
       \/ /\ ask[r].kind = "getArchive"
          /\ \E table \in Readable : ~Created(table, ask[r].archive)
          /\ Reply(r, "notFound")
    /\ UNCHANGED <<log, ask, began>>

PutMember(r) ==
    /\ pc[r] = "put"
    /\ Commit(r, SetRole(Now, ask[r].archive, ask[r].account, ask[r].role))
    /\ UNCHANGED <<ask, began>>

(***************************************************************************)
(* removeMember: the target is read, the owners are counted if it is one,  *)
(* and the rows are deleted whatever they have become.                     *)
(***************************************************************************)
GetTarget(r) ==
    /\ pc[r] = "target"
    /\ LET role == Now.member[ask[r].archive][ask[r].account]
       IN CASE role = NoRole -> Reply(r, "notFound")
            [] role = "owner" -> Goto(r, "owners")
            [] OTHER -> Goto(r, "remove")
    /\ UNCHANGED <<log, ask, began>>

\* ListMembers is one Query: owners past its first page, however small that
\* is, are not in its answer.
ListOwners(table, a) == SUBSET Owners(table, a)

SomeOwner(owners) == owners # {}                              \* mutant
AnotherOwner(owners) == Cardinality(owners) > 1

CountOwners(r) ==
    /\ pc[r] = "owners"
    /\ \E table \in Readable :
          \E owners \in ListOwners(table, ask[r].archive) :
              IF AnotherOwner(owners) THEN Goto(r, "remove") ELSE Reply(r, "conflict")
    /\ UNCHANGED <<log, ask, began>>

RemoveMember(r) ==
    /\ pc[r] = "remove"
    /\ Commit(r, SetRole(Now, ask[r].archive, ask[r].account, NoRole))
    /\ UNCHANGED <<ask, began>>

\* readJSON cannot decode the body, or createArchive's name is empty.
RefuseBody(r) ==
    /\ \/ pc[r] = "create" /\ ask[r].kind = "createArchive"
       \/ pc[r] = "put"
    /\ Reply(r, "badRequest")
    /\ UNCHANGED <<log, ask, began>>

\* A call fails, the context ends, or a transaction meets another one on
\* its rows and is cancelled: a 500 and no effect.
Fail(r) ==
    /\ pc[r] \notin {"idle", "done"}
    /\ Reply(r, "error")
    /\ UNCHANGED <<log, ask, began>>

Step(r) ==
    \/ ListArchivesForAccount(r) \/ CreateArchive(r)
    \/ Authorise(r) \/ Act(r) \/ PutMember(r) \/ RefuseBody(r)
    \/ GetTarget(r) \/ CountOwners(r) \/ RemoveMember(r)

Next == \E r \in Request : Begin(r) \/ Step(r) \/ Fail(r)

Spec == Init /\ [][Next]_vars
-----------------------------------------------------------------------------
Asked(r, kind) == ask[r] # NoAsk /\ ask[r].kind = kind

\* PutMember "writing both directions together so the two can never disagree
\* about someone's role", and nobody is a member of no archive.
DirectionsAgree ==
    \A a \in ArchiveId, m \in AccountId :
        /\ Now.member[a][m] = Now.mirror[m][a]
        /\ Now.member[a][m] # NoRole => Created(Now, a)

\* What a caller may be, in one table, to have q done for it.
Permitted(table, q) ==
    LET role == table.member[q.archive][q.caller]
    IN CASE q.kind = "getArchive" -> role # NoRole
         [] q.kind = "writeItem" -> role \in {"owner", "editor"}
         [] OTHER -> role = "owner"

\* Past the middleware, or answered as if it had been.
LetThrough(r) ==
    /\ pc[r] \notin {"idle", "listMine", "create", "authorise"}
    /\ ask[r].kind \in ScopedKind
    /\ pc[r] = "done" => answer[r] = "ok"

\* A request that got past the middleware, and so may change a membership or
\* an item, had its caller in a sufficient role at some moment after it
\* arrived.  A revocation acknowledged before the request is never
\* overlooked, however late a replica is.
PermissionWasHeld ==
    \A r \in Request : LetThrough(r) =>
        \E k \in began[r]..Len(log) : Permitted(log[k], ask[r])

\* What the count of owners does protect: while no member is given a lesser
\* role and at most one removal is ever asked for, every archive keeps an
\* owner, though the count may come from a late replica and miss owners.
ALoneRemoval ==
    /\ \A r \in Request : Asked(r, "putMember") => ask[r].role = "owner"
    /\ \A r, q \in Request :
          Asked(r, "removeMember") /\ Asked(q, "removeMember") => r = q

ALoneRemovalLeavesAnOwner ==
    ALoneRemoval => \A a \in ArchiveId : Created(Now, a) => Owners(Now, a) # {}

\* getMe's promise, that an account is "never stranded without" an archive:
\* after a successful getMe the caller belongs to one, unless an owner has
\* asked to remove it.
NobodyIsStranded ==
    \A r \in Request :
        /\ Asked(r, "getMe") /\ answer[r] = "ok"
        /\ \A q \in Request :
              Asked(q, "removeMember") => ask[q].account # ask[r].caller
        => \E a \in ArchiveId : Now.mirror[ask[r].caller][a] # NoRole

\* removeMember's comment, "an archive whose last owner leaves can never be
\* administered again": once the requests that were already let through are
\* over, an archive without an owner stays without one.
IsLost(a) ==
    /\ Created(Now, a)
    /\ Owners(Now, a) = {}
    /\ \A r \in Request :
          ask[r] # NoAsk /\ ask[r].archive = a
          => pc[r] \notin {"put", "target", "owners", "remove"}

LostArchivesStayLost ==
    [][\A a \in ArchiveId : IsLost(a) => IsLost(a)']_vars

(***************************************************************************)
(* The archives implement the guarded register: its entries are the rows   *)
(* under the archives, and the guard is the middleware and the handler's   *)
(* own check together.  Mirrors, replicas and the reads between the guard  *)
(* and the write are invisible.                                            *)
(***************************************************************************)
LetIn == {r \in Request : pc[r] \in {"act", "put", "target", "owners", "remove"}}

Guarded == INSTANCE Roster WITH roleOf <- Now.member,
                                createdBy <- Now.createdBy, inside <- LetIn

\* Whatever replicas show and however requests interleave, roles are checked
\* as they are at that moment, and a membership changes only by one whole
\* request that its archive's guard let in, to what that request asked for.
BehavesAsGuarded == Guarded!Spec

(***************************************************************************)
(* Two claims the repository makes that the code does not keep.            *)
(***************************************************************************)

\* openapi.yaml: "The last owner cannot be removed".
EveryArchiveHasAnOwner ==
    \A a \in ArchiveId : Created(Now, a) => Owners(Now, a) # {}

\* getMe: "the first time a verified token arrives from an account with no
\* archive, one is made for them": one, beside those asked for by POST.
OneArchiveIsProvisioned ==
    \A m \in AccountId :
        Cardinality({a \in ArchiveId : Now.createdBy[a] = m})
          <= 1 + Cardinality({r \in Request : Asked(r, "createArchive")
                                               /\ ask[r].caller = m})
=============================================================================
