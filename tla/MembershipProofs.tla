--------------------------- MODULE MembershipProofs ---------------------------
(***************************************************************************)
(* Proofs about Membership, for any number of requests, accounts and       *)
(* archives, whatever is asked for and however late the replicas are.      *)
(***************************************************************************)
EXTENDS Membership, SequenceTheorems, FiniteSetTheorems, TLAPS

\* What DirectionsAgree says of the last table, of every one; an archive,
\* once created, is never uncreated.
HistoryIsSound ==
    /\ \A k \in DOMAIN log : \A a \in ArchiveId, m \in AccountId :
          /\ log[k].member[a][m] = log[k].mirror[m][a]
          /\ log[k].member[a][m] # NoRole => Created(log[k], a)
    /\ \A k \in DOMAIN log : \A a \in ArchiveId :
          Created(log[k], a) => Created(Now, a)

\* The bookkeeping of a request.
RequestsAreOrderly ==
    \A r \in Request :
        /\ pc[r] = "idle" <=> ask[r] = NoAsk
        /\ pc[r] # "idle" => began[r] \in 1..Len(log)
        /\ pc[r] = "listMine" => ask[r].kind = "getMe"
        /\ pc[r] = "create" => ask[r].kind \in {"getMe", "createArchive"}
        /\ pc[r] = "authorise" => ask[r].kind \in ScopedKind
        /\ pc[r] = "act" => ask[r].kind \in {"getArchive", "writeItem"}
        /\ pc[r] = "put" => ask[r].kind = "putMember" /\ ask[r].role \in Role
        /\ pc[r] \in {"target", "owners", "remove"} =>
              ask[r].kind = "removeMember"

IInv ==
    /\ TypeOK
    /\ HistoryIsSound
    /\ RequestsAreOrderly
    /\ PermissionWasHeld

-----------------------------------------------------------------------------
(***************************************************************************)
(* The transactions.                                                       *)
(***************************************************************************)
LEMMA SetRoleEffect ==
    ASSUME NEW table \in Table, NEW a \in ArchiveId, NEW m \in AccountId,
           NEW role \in Role \cup {NoRole}
    PROVE  /\ SetRole(table, a, m, role) \in Table
           /\ SetRole(table, a, m, role).createdBy = table.createdBy
           /\ \A b \in ArchiveId, n \in AccountId :
                 /\ SetRole(table, a, m, role).member[b][n] =
                       IF b = a /\ n = m THEN role ELSE table.member[b][n]
                 /\ SetRole(table, a, m, role).mirror[n][b] =
                       IF b = a /\ n = m THEN role ELSE table.mirror[n][b]
<1> DEFINE new == SetRole(table, a, m, role)
<1>1. /\ table.createdBy \in [ArchiveId -> AccountId \cup {NoAccount}]
      /\ table.member \in [ArchiveId -> [AccountId -> Role \cup {NoRole}]]
      /\ table.mirror \in [AccountId -> [ArchiveId -> Role \cup {NoRole}]]
  BY DEF Table
<1>2. /\ new.createdBy = table.createdBy
      /\ new.member = [table.member EXCEPT ![a] = [@ EXCEPT ![m] = role]]
      /\ new.mirror = [table.mirror EXCEPT ![m] = [@ EXCEPT ![a] = role]]
  BY DEF Table, SetRole
<1>3. new.member \in [ArchiveId -> [AccountId -> Role \cup {NoRole}]]
  BY <1>1, <1>2
<1>4. new.mirror \in [AccountId -> [ArchiveId -> Role \cup {NoRole}]]
  BY <1>1, <1>2
<1>5. new \in Table
  <2>1. ASSUME NEW f \in [ArchiveId -> [AccountId -> Role \cup {NoRole}]],
               NEW g \in [AccountId -> [ArchiveId -> Role \cup {NoRole}]]
        PROVE  [table EXCEPT !.member = f, !.mirror = g] \in Table
    BY DEF Table
  <2>2. new = [table EXCEPT !.member = new.member, !.mirror = new.mirror]
    BY <1>2 DEF SetRole
  <2> QED
    BY <1>3, <1>4, <2>1, <2>2
<1> QED
  BY <1>1, <1>2, <1>5 DEF new

\* A new archive's transaction changes its row and its owner's membership.
LEMMA WithArchiveEffect ==
    ASSUME NEW table \in Table, NEW a \in ArchiveId, NEW m \in AccountId
    PROVE  /\ WithArchive(table, a, m) \in Table
           /\ \A b \in ArchiveId : Created(table, b) =>
                 Created(WithArchive(table, a, m), b)
           /\ \A b \in ArchiveId : b # a /\ Created(WithArchive(table, a, m), b) =>
                 Created(table, b)
           /\ Created(WithArchive(table, a, m), a)
           /\ \A b \in ArchiveId, n \in AccountId :
                 /\ WithArchive(table, a, m).member[b][n] =
                       IF b = a /\ n = m THEN "owner" ELSE table.member[b][n]
                 /\ WithArchive(table, a, m).mirror[n][b] =
                       IF b = a /\ n = m THEN "owner" ELSE table.mirror[n][b]
<1> DEFINE granted == SetRole(table, a, m, "owner")
           new == WithArchive(table, a, m)
<1>1. "owner" \in Role \cup {NoRole}
  BY DEF Role
<1>2. /\ granted \in Table
      /\ granted.createdBy = table.createdBy
      /\ \A b \in ArchiveId, n \in AccountId :
            /\ granted.member[b][n] =
                  IF b = a /\ n = m THEN "owner" ELSE table.member[b][n]
            /\ granted.mirror[n][b] =
                  IF b = a /\ n = m THEN "owner" ELSE table.mirror[n][b]
  BY <1>1, SetRoleEffect
<1>3. new = [granted EXCEPT !.createdBy[a] = m]
  BY DEF WithArchive
<1> HIDE DEF granted, new
<1>4. /\ new.member = granted.member
      /\ new.mirror = granted.mirror
      /\ new.createdBy = [granted.createdBy EXCEPT ![a] = m]
      /\ new \in Table
  BY <1>2, <1>3 DEF Table
<1>5. /\ \A b \in ArchiveId : Created(table, b) => Created(new, b)
      /\ \A b \in ArchiveId : b # a /\ Created(new, b) => Created(table, b)
      /\ Created(new, a)
  BY <1>2, <1>4, MembershipAssumption DEF Created, Table
<1> QED
  BY <1>2, <1>4, <1>5 DEF new

\* There is a last table.
LEMMA HistoryIsThere ==
    ASSUME TypeOK
    PROVE  /\ Len(log) \in Nat \ {0}
           /\ DOMAIN log = 1..Len(log)
           /\ \A k \in 1..Len(log) : log[k] \in Table
           /\ Now \in Table
<1>1. log \in Seq(Table) /\ log # <<>>
  BY DEF TypeOK
<1> QED
  BY <1>1, LenProperties, EmptySeq, ElementOfSeq DEF Now

\* A table that is appended keeps the history, and keeps it sound when it is.
LEMMA AppendKeepsHistory ==
    ASSUME TypeOK, HistoryIsSound, NEW table \in Table,
           log' = Append(log, table),
           \A a \in ArchiveId, m \in AccountId :
              /\ table.member[a][m] = table.mirror[m][a]
              /\ table.member[a][m] # NoRole => Created(table, a),
           \A a \in ArchiveId : Created(Now, a) => Created(table, a)
    PROVE  /\ log' \in Seq(Table) /\ log' # <<>>
           /\ HistoryIsSound'
           /\ Len(log') = Len(log) + 1
           /\ \A k \in 1..Len(log) : log'[k] = log[k]
           /\ Now' = table
<1>1. /\ Len(log) \in Nat \ {0}
      /\ DOMAIN log = 1..Len(log)
      /\ log \in Seq(Table)
  BY HistoryIsThere DEF TypeOK
<1>2. /\ log' \in Seq(Table)
      /\ log' # <<>>
      /\ Len(log') = Len(log) + 1
      /\ DOMAIN log' = 1..Len(log) + 1
      /\ \A k \in 1..Len(log) : log'[k] = log[k]
      /\ log'[Len(log) + 1] = table
  BY <1>1, AppendProperties, LenProperties, EmptySeq
<1>3. Now' = table
  BY <1>2 DEF Now
<1>4. HistoryIsSound'
  <2>1. \A k \in DOMAIN log' : k \in DOMAIN log \/ k = Len(log) + 1
    BY <1>1, <1>2
  <2>2. \A k \in DOMAIN log' : \A a \in ArchiveId, m \in AccountId :
          /\ log'[k].member[a][m] = log'[k].mirror[m][a]
          /\ log'[k].member[a][m] # NoRole => Created(log'[k], a)
    BY <1>1, <1>2, <2>1 DEF HistoryIsSound
  <2>3. \A k \in DOMAIN log' : \A a \in ArchiveId :
          Created(log'[k], a) => Created(table, a)
    BY <1>1, <1>2, <2>1 DEF HistoryIsSound
  <2> QED
    BY <1>3, <2>2, <2>3 DEF HistoryIsSound
<1> QED
  BY <1>2, <1>3, <1>4

\* A request that began asks for something.
LEMMA AsksAreScoped ==
    ASSUME TypeOK, RequestsAreOrderly, NEW r \in Request, pc[r] # "idle"
    PROVE  ask[r] \in AskOf
<1>1. ask[r] \in Ask
  BY DEF TypeOK, RequestsAreOrderly
<1> QED
  BY <1>1, MembershipAssumption

\* A request that somebody else's step passes by keeps its permission: the
\* history it may cite only grows.
LEMMA PermissionIsKept ==
    ASSUME TypeOK, RequestsAreOrderly, NEW r \in Request,
           LetThrough(r) => \E k \in began[r]..Len(log) : Permitted(log[k], ask[r]),
           LetThrough(r)' => LetThrough(r),
           ask'[r] = ask[r], began'[r] = began[r],
           Len(log') \in {Len(log), Len(log) + 1},
           \A k \in 1..Len(log) : log'[k] = log[k]
    PROVE  LetThrough(r)' =>
               \E k \in began'[r]..Len(log') : Permitted(log'[k], ask'[r])
<1> SUFFICES ASSUME LetThrough(r)
             PROVE  \E k \in began[r]..Len(log') : Permitted(log'[k], ask[r])
  OBVIOUS
<1>1. began[r] \in 1..Len(log)
  BY DEF LetThrough, RequestsAreOrderly
<1>2. Len(log) \in Nat
  BY HistoryIsThere
<1>3. PICK k \in began[r]..Len(log) : Permitted(log[k], ask[r])
  OBVIOUS
<1>4. k \in 1..Len(log) /\ k \in began[r]..Len(log')
  BY <1>1, <1>2
<1> QED
  BY <1>3, <1>4

-----------------------------------------------------------------------------
(***************************************************************************)
(* The actions.                                                            *)
(***************************************************************************)
\* A step that leaves the table alone and takes one request further.
LEMMA QuietStep ==
    ASSUME IInv, NEW r \in Request, pc[r] # "idle",
           UNCHANGED <<log, ask, began>>,
           NEW label, NEW a,
           pc' = [pc EXCEPT ![r] = label],
           answer' = [answer EXCEPT ![r] = a],
           TypeOK',
           label # "idle",
           label = "create" => ask[r].kind \in {"getMe", "createArchive"},
           label \notin {"listMine", "authorise"},
           label = "act" => ask[r].kind \in {"getArchive", "writeItem"},
           label = "put" => ask[r].kind = "putMember" /\ ask[r].role \in Role,
           label \in {"target", "owners", "remove"} => ask[r].kind = "removeMember",
           LetThrough(r)' => LetThrough(r) \/ Permitted(Now, ask[r])
    PROVE  IInv'
<1>1. HistoryIsSound'
  BY DEF IInv, HistoryIsSound, Now, Created
<1>2. RequestsAreOrderly'
  BY DEF IInv, TypeOK, RequestsAreOrderly
<1>3. PermissionWasHeld'
  <2> SUFFICES ASSUME NEW q \in Request, LetThrough(q)'
               PROVE  \E k \in began[q]..Len(log) : Permitted(log[k], ask[q])
    BY DEF PermissionWasHeld
  <2>1. CASE LetThrough(q)
    BY <2>1 DEF IInv, PermissionWasHeld
  <2>2. CASE q # r
    BY <2>2, <2>1 DEF LetThrough, IInv, TypeOK
  <2>3. CASE q = r /\ Permitted(Now, ask[r])
    <3>1. began[q] \in 1..Len(log) /\ Len(log) \in Nat
      BY <2>3, HistoryIsThere DEF IInv, RequestsAreOrderly
    <3>2. Len(log) \in began[q]..Len(log)
      BY <3>1
    <3> QED
      BY <2>3, <3>2 DEF Now
  <2> QED
    BY <2>1, <2>2, <2>3
<1> QED
  BY <1>1, <1>2, <1>3 DEF IInv

\* A transaction: the request that sends it was let through, or makes an
\* archive of its own, and is over with it.
LEMMA CommitStep ==
    ASSUME IInv, NEW r \in Request, NEW table \in Table,
           Commit(r, table), UNCHANGED <<ask, began>>,
           pc[r] \in {"create", "put", "remove"},
           \A a \in ArchiveId, m \in AccountId :
              /\ table.member[a][m] = table.mirror[m][a]
              /\ table.member[a][m] # NoRole => Created(table, a),
           \A a \in ArchiveId : Created(Now, a) => Created(table, a)
    PROVE  IInv'
<1>1. /\ log' = Append(log, table)
      /\ pc' = [pc EXCEPT ![r] = "done"]
  BY DEF Commit, Reply
<1>2. PICK a \in {"ok", "error"} : answer' = [answer EXCEPT ![r] = a]
  BY DEF Commit, Reply
<1>3. /\ log' \in Seq(Table) /\ log' # <<>>
      /\ HistoryIsSound'
      /\ Len(log') = Len(log) + 1
      /\ \A k \in 1..Len(log) : log'[k] = log[k]
  BY <1>1, AppendKeepsHistory DEF IInv
<1>4. TypeOK'
  BY <1>1, <1>2, <1>3 DEF IInv, TypeOK, Answers
<1>5. RequestsAreOrderly'
  <2>1. Len(log) \in Nat
    BY HistoryIsThere DEF IInv
  <2>2. SUFFICES ASSUME NEW q \in Request
                 PROVE  /\ (pc'[q] = "done" /\ q = r) \/ pc'[q] = pc[q]
                        /\ began[q] \in 1..Len(log) => began[q] \in 1..Len(log')
    BY <1>1 DEF IInv, TypeOK, RequestsAreOrderly
  <2> QED
    BY <1>1, <1>3, <2>1 DEF IInv, TypeOK
<1>6. PermissionWasHeld'
  <2> SUFFICES ASSUME NEW q \in Request
               PROVE  LetThrough(q)' =>
                         \E k \in began'[q]..Len(log') : Permitted(log'[k], ask'[q])
    BY DEF PermissionWasHeld
  <2>1. LetThrough(q)' => LetThrough(q)
    <3>1. CASE q = r /\ pc[r] # "create"
      BY <3>1 DEF LetThrough
    <3>2. CASE q = r /\ pc[r] = "create"
      BY <3>2 DEF LetThrough, IInv, RequestsAreOrderly, ScopedKind
    <3>3. CASE q # r
      BY <1>1, <1>2, <3>3 DEF LetThrough, IInv, TypeOK
    <3> QED
      BY <3>1, <3>2, <3>3
  <2> QED
    BY <1>3, <2>1, PermissionIsKept DEF IInv, PermissionWasHeld
<1> QED
  BY <1>3, <1>4, <1>5, <1>6 DEF IInv

\* The empty table satisfies the invariant.
LEMMA InitEstablishes == Init => IInv
<1> SUFFICES ASSUME Init PROVE IInv
  OBVIOUS
<1> DEFINE empty == [createdBy |-> [a \in ArchiveId |-> NoAccount],
                     member |-> [a \in ArchiveId |-> [m \in AccountId |-> NoRole]],
                     mirror |-> [m \in AccountId |-> [a \in ArchiveId |-> NoRole]]]
<1>1. log = <<empty>> /\ empty \in Table
  BY DEF Init, Table
<1>2. TypeOK
  BY <1>1 DEF Init, TypeOK, Pending
<1>3. Len(log) = 1 /\ DOMAIN log = {1} /\ log[1] = empty /\ Now = empty
  BY <1>1 DEF Now
<1>4. HistoryIsSound
  BY <1>3 DEF HistoryIsSound, Created
<1>5. RequestsAreOrderly
  BY DEF Init, RequestsAreOrderly
<1>6. PermissionWasHeld
  BY DEF Init, PermissionWasHeld, LetThrough
<1> QED
  BY <1>2, <1>4, <1>5, <1>6 DEF IInv

\* A new request has no permission to answer for.
LEMMA BeginKeeps ==
    ASSUME IInv, NEW r \in Request, Begin(r)
    PROVE  IInv'
<1>1. PICK q \in Ask :
         /\ ask' = [ask EXCEPT ![r] = q]
         /\ Goto(r, CASE q.kind = "getMe" -> "listMine"
                      [] q.kind = "createArchive" -> "create"
                      [] OTHER -> "authorise")
  BY DEF Begin
<1>2. /\ pc[r] = "idle" /\ log' = log
      /\ began' = [began EXCEPT ![r] = Len(log)]
      /\ answer' = answer
      /\ q \in AskOf
  BY <1>1, MembershipAssumption DEF Begin, Goto
<1>3. PICK label \in {"listMine", "create", "authorise"} :
         /\ pc' = [pc EXCEPT ![r] = label]
         /\ label = "listMine" => q.kind = "getMe"
         /\ label = "create" => q.kind = "createArchive"
         /\ label = "authorise" => q.kind \in ScopedKind
  BY <1>1, <1>2 DEF Goto, AskOf
<1>4. Len(log) \in Nat \ {0}
  BY HistoryIsThere DEF IInv
<1>5. TypeOK'
  BY <1>1, <1>2, <1>3, <1>4 DEF IInv, TypeOK
<1>6. HistoryIsSound'
  BY <1>2 DEF IInv, HistoryIsSound, Now, Created
<1>7. RequestsAreOrderly'
  <2>1. q # NoAsk
    BY <1>2, MembershipAssumption
  <2> QED
    BY <1>1, <1>2, <1>3, <1>4, <2>1 DEF IInv, TypeOK, RequestsAreOrderly
<1>8. PermissionWasHeld'
  BY <1>1, <1>2, <1>3 DEF IInv, TypeOK, PermissionWasHeld, LetThrough
<1> QED
  BY <1>5, <1>6, <1>7, <1>8 DEF IInv

\* getMe's list changes nothing.
LEMMA ListArchivesKeeps ==
    ASSUME IInv, NEW r \in Request, ListArchivesForAccount(r)
    PROVE  IInv'
<1>1. PICK label \in {"create", "done"}, a \in Answers \cup {Pending} :
         /\ pc' = [pc EXCEPT ![r] = label]
         /\ answer' = [answer EXCEPT ![r] = a]
  BY DEF ListArchivesForAccount, Goto, Reply, Answers, IInv, TypeOK
<1>2. pc[r] = "listMine" /\ UNCHANGED <<log, ask, began>>
  BY DEF ListArchivesForAccount
<1>3. ask[r].kind = "getMe"
  BY <1>2 DEF IInv, RequestsAreOrderly
<1>4. TypeOK'
  BY <1>1, <1>2 DEF IInv, TypeOK
<1>5. ~LetThrough(r)'
  BY <1>2, <1>3 DEF LetThrough, ScopedKind
<1> QED
  BY <1>1, <1>2, <1>3, <1>4, <1>5, QuietStep

\* The middleware lets through whom the current table permits.
LEMMA AuthoriseKeeps ==
    ASSUME IInv, NEW r \in Request, Authorise(r)
    PROVE  IInv'
<1> DEFINE q == ask[r]
           role == Now.member[q.archive][q.caller]
<1>1. pc[r] = "authorise" /\ UNCHANGED <<log, ask, began>>
  BY DEF Authorise
<1>2. q \in AskOf /\ q.kind \in ScopedKind
  BY <1>1, AsksAreScoped DEF IInv, RequestsAreOrderly
<1>3. PICK label \in {"act", "put", "target", "done"}, a \in Answers \cup {Pending} :
         /\ pc' = [pc EXCEPT ![r] = label]
         /\ answer' = [answer EXCEPT ![r] = a]
         /\ label = "act" => q.kind \in {"getArchive", "writeItem"}
         /\ label = "put" => q.kind = "putMember" /\ q.role \in Role
         /\ label = "target" => q.kind = "removeMember"
         /\ label = "done" => a # "ok"
         /\ label # "done" => /\ role # NoRole
                              /\ \A action \in Needs(q.kind) : Can(role, action)
  <2>1. CASE role = NoRole
    BY <2>1, <1>1 DEF Authorise, GetCallersRole, Reply, Answers
  <2>2. CASE role # NoRole /\ \E action \in Needs(q.kind) : ~Can(role, action)
    BY <2>2, <1>1 DEF Authorise, GetCallersRole, Reply, Answers
  <2>3. CASE role # NoRole /\ \A action \in Needs(q.kind) : Can(role, action)
    <3>1. CASE q.kind = "putMember"
      BY <3>1, <2>3, <1>1
      DEF Authorise, GetCallersRole, Reply, Goto, Answers, Valid, IInv, TypeOK
    <3>2. CASE q.kind = "removeMember"
      BY <3>2, <2>3, <1>1
      DEF Authorise, GetCallersRole, Goto, Answers, IInv, TypeOK
    <3>3. CASE q.kind \in {"getArchive", "writeItem"}
      BY <3>3, <2>3, <1>1
      DEF Authorise, GetCallersRole, Goto, Answers, IInv, TypeOK
    <3> QED
      BY <3>1, <3>2, <3>3, <1>2 DEF ScopedKind
  <2> QED
    BY <2>1, <2>2, <2>3
<1>4. TypeOK'
  BY <1>1, <1>3 DEF IInv, TypeOK
<1>5. role \in Role \cup {NoRole}
  BY <1>2, HistoryIsThere DEF IInv, Table, AskOf
<1>6. LetThrough(r)' => Permitted(Now, q)
  <2> SUFFICES ASSUME LetThrough(r)'
               PROVE  Permitted(Now, q)
    OBVIOUS
  <2>1. role # NoRole /\ \A action \in Needs(q.kind) : Can(role, action)
    BY <1>1, <1>3 DEF LetThrough, IInv, TypeOK
  <2>2. CASE q.kind = "getArchive"
    BY <2>1, <2>2 DEF Permitted
  <2>3. CASE q.kind = "writeItem"
    BY <2>1, <2>3, <1>5 DEF Permitted, Needs, Can, Permissions, Role
  <2>4. CASE q.kind \in {"putMember", "removeMember"}
    BY <2>1, <2>4, <1>5 DEF Permitted, Needs, Can, Permissions, Role
  <2> QED
    BY <1>2, <2>2, <2>3, <2>4 DEF ScopedKind
<1> QED
  BY <1>1, <1>3, <1>4, <1>6, QuietStep

\* The steps of a request that was let through and leaves the table alone.
LEMMA LaterStepsKeep ==
    ASSUME IInv, NEW r \in Request,
           Act(r) \/ GetTarget(r) \/ CountOwners(r) \/ RefuseBody(r) \/ Fail(r)
    PROVE  IInv'
<1>1. /\ pc[r] # "idle"
      /\ UNCHANGED <<log, ask, began>>
  BY DEF Act, GetTarget, CountOwners, RefuseBody, Fail
<1>2. PICK label \in {"owners", "remove", "done"}, a \in Answers \cup {Pending} :
         /\ pc' = [pc EXCEPT ![r] = label]
         /\ answer' = [answer EXCEPT ![r] = a]
         /\ label # "done" => pc[r] \in {"target", "owners"}
         /\ a = "ok" /\ label = "done" => pc[r] = "act"
  <2>1. CASE Act(r) \/ RefuseBody(r) \/ Fail(r)
    BY <2>1 DEF Act, RefuseBody, Fail, Reply, Answers
  <2>2. CASE GetTarget(r)
    BY <2>2 DEF GetTarget, Goto, Reply, Answers, IInv, TypeOK
  <2>3. CASE CountOwners(r)
    BY <2>3 DEF CountOwners, Goto, Reply, Answers, IInv, TypeOK
  <2> QED
    BY <2>1, <2>2, <2>3
<1>3. TypeOK'
  BY <1>1, <1>2 DEF IInv, TypeOK
<1>4. pc[r] \in {"target", "owners"} => ask[r].kind = "removeMember"
  BY DEF IInv, RequestsAreOrderly
<1>5. LetThrough(r)' => LetThrough(r)
  BY <1>1, <1>2 DEF LetThrough, IInv, TypeOK
<1> QED
  BY <1>1, <1>2, <1>3, <1>4, <1>5, QuietStep

\* A new archive comes with both rows of its owner.
LEMMA CreateArchiveKeeps ==
    ASSUME IInv, NEW r \in Request, CreateArchive(r)
    PROVE  IInv'
<1>1. PICK a \in ArchiveId : /\ ~Created(Now, a)
                             /\ Commit(r, WithArchive(Now, a, ask[r].caller))
  BY DEF CreateArchive
<1>2. pc[r] = "create" /\ UNCHANGED <<ask, began>>
  BY DEF CreateArchive
<1>3. ask[r].caller \in AccountId
  BY <1>2, AsksAreScoped DEF IInv, AskOf
<1> DEFINE new == WithArchive(Now, a, ask[r].caller)
<1>4. /\ new \in Table
      /\ \A b \in ArchiveId : Created(Now, b) => Created(new, b)
      /\ Created(new, a)
      /\ \A b \in ArchiveId, n \in AccountId :
            /\ new.member[b][n] =
                  IF b = a /\ n = ask[r].caller THEN "owner" ELSE Now.member[b][n]
            /\ new.mirror[n][b] =
                  IF b = a /\ n = ask[r].caller THEN "owner" ELSE Now.mirror[n][b]
  BY <1>3, HistoryIsThere, WithArchiveEffect DEF IInv
<1> HIDE DEF new
<1>5. \A b \in ArchiveId, n \in AccountId :
         /\ Now.member[b][n] = Now.mirror[n][b]
         /\ Now.member[b][n] # NoRole => Created(Now, b)
  BY HistoryIsThere DEF IInv, HistoryIsSound, Now
<1>6. \A b \in ArchiveId, n \in AccountId :
         /\ new.member[b][n] = new.mirror[n][b]
         /\ new.member[b][n] # NoRole => Created(new, b)
  BY <1>4, <1>5
<1>7. Commit(r, new)
  BY <1>1 DEF new
<1> QED
  BY <1>2, <1>4, <1>6, <1>7, CommitStep

\* A role is only ever written to an archive that was created: its writer
\* held a role there once, and archives are never uncreated.
LEMMA WritesAreScoped ==
    ASSUME IInv, NEW r \in Request, pc[r] \in {"put", "target", "owners", "remove"}
    PROVE  /\ ask[r] \in AskOf
           /\ Created(Now, ask[r].archive)
<1>1. ask[r] \in AskOf
  BY AsksAreScoped DEF IInv
<1>2. ask[r].kind \in {"putMember", "removeMember"} /\ began[r] \in 1..Len(log)
  BY DEF IInv, RequestsAreOrderly
<1>3. LetThrough(r)
  BY <1>2 DEF LetThrough, ScopedKind
<1>4. PICK k \in began[r]..Len(log) : Permitted(log[k], ask[r])
  BY <1>3 DEF IInv, PermissionWasHeld
<1>5. k \in DOMAIN log
  BY <1>2, <1>4, HistoryIsThere DEF IInv
<1>6. log[k].member[ask[r].archive][ask[r].caller] = "owner"
  BY <1>2, <1>4 DEF Permitted
<1>7. "owner" # NoRole
  BY MembershipAssumption DEF Role
<1> QED
  BY <1>1, <1>5, <1>6, <1>7 DEF IInv, HistoryIsSound, AskOf

\* Both rows of a membership are written to an archive that was created.
LEMMA WriteKeeps ==
    ASSUME IInv, NEW r \in Request, PutMember(r) \/ RemoveMember(r)
    PROVE  IInv'
<1> DEFINE q == ask[r]
<1>1. PICK role \in Role \cup {NoRole} :
         Commit(r, SetRole(Now, q.archive, q.account, role))
  BY DEF PutMember, RemoveMember, IInv, RequestsAreOrderly
<1>2. pc[r] \in {"put", "remove"} /\ UNCHANGED <<ask, began>>
  BY DEF PutMember, RemoveMember
<1>3. q.archive \in ArchiveId /\ q.account \in AccountId /\ Created(Now, q.archive)
  BY <1>2, WritesAreScoped DEF AskOf
<1> DEFINE new == SetRole(Now, q.archive, q.account, role)
<1>4. /\ new \in Table
      /\ new.createdBy = Now.createdBy
      /\ \A b \in ArchiveId, n \in AccountId :
            /\ new.member[b][n] =
                  IF b = q.archive /\ n = q.account THEN role ELSE Now.member[b][n]
            /\ new.mirror[n][b] =
                  IF b = q.archive /\ n = q.account THEN role ELSE Now.mirror[n][b]
  BY <1>3, HistoryIsThere, SetRoleEffect DEF IInv
<1> HIDE DEF new
<1>5. \A b \in ArchiveId, n \in AccountId :
         /\ Now.member[b][n] = Now.mirror[n][b]
         /\ Now.member[b][n] # NoRole => Created(Now, b)
  BY HistoryIsThere DEF IInv, HistoryIsSound, Now
<1>6. \A b \in ArchiveId : Created(new, b) <=> Created(Now, b)
  BY <1>4 DEF Created
<1>7. \A b \in ArchiveId, n \in AccountId :
         /\ new.member[b][n] = new.mirror[n][b]
         /\ new.member[b][n] # NoRole => Created(new, b)
  BY <1>3, <1>4, <1>5, <1>6
<1>8. Commit(r, new)
  BY <1>1 DEF new
<1> QED
  BY <1>2, <1>4, <1>6, <1>7, <1>8, CommitStep

-----------------------------------------------------------------------------
(***************************************************************************)
(* The theorems.                                                           *)
(***************************************************************************)
LEMMA NextKeeps == IInv /\ [Next]_vars => IInv'
<1> SUFFICES ASSUME IInv, [Next]_vars
             PROVE  IInv'
  OBVIOUS
<1>1. CASE UNCHANGED vars
  BY <1>1 DEF vars, IInv, TypeOK, HistoryIsSound, RequestsAreOrderly,
              PermissionWasHeld, LetThrough, Now, Created
<1>2. CASE Next
  <2> PICK r \in Request : Begin(r) \/ Step(r) \/ Fail(r)
    BY <1>2 DEF Next
  <2>1. CASE Begin(r)
    BY <2>1, BeginKeeps
  <2>2. CASE ListArchivesForAccount(r)
    BY <2>2, ListArchivesKeeps
  <2>3. CASE CreateArchive(r)
    BY <2>3, CreateArchiveKeeps
  <2>4. CASE Authorise(r)
    BY <2>4, AuthoriseKeeps
  <2>5. CASE Act(r) \/ GetTarget(r) \/ CountOwners(r) \/ RefuseBody(r) \/ Fail(r)
    BY <2>5, LaterStepsKeep
  <2>6. CASE PutMember(r) \/ RemoveMember(r)
    BY <2>6, WriteKeeps
  <2> QED
    BY <2>1, <2>2, <2>3, <2>4, <2>5, <2>6 DEF Step
<1> QED
  BY <1>1, <1>2

\* The inductive invariant of the membership store and its authorisation.
THEOREM MembershipInvariance == Spec => []IInv
<1> QED
  BY InitEstablishes, NextKeeps, PTL DEF Spec

\* Every table, request and answer stays within its type; in particular no
\* role but owner, editor and viewer is ever stored, whatever a body says.
THEOREM MembershipTypes == Spec => []TypeOK
<1>1. IInv => TypeOK
  BY DEF IInv
<1> QED
  BY <1>1, MembershipInvariance, PTL

\* The two rows of a membership never disagree, and every membership is of
\* an archive that exists (CreateArchive, PutMember, RemoveMember).
THEOREM BothDirectionsAgree == Spec => []DirectionsAgree
<1>1. IInv => DirectionsAgree
  <2> SUFFICES ASSUME IInv PROVE DirectionsAgree
    OBVIOUS
  <2>1. Len(log) \in DOMAIN log
    BY HistoryIsThere DEF IInv
  <2> QED
    BY <2>1 DEF IInv, HistoryIsSound, DirectionsAgree, Now
<1> QED
  BY <1>1, MembershipInvariance, PTL

\* No request is let through on a role its caller did not hold at some
\* moment since it arrived (withArchiveAccess and the strong GetMember).
THEOREM NoStalePermission == Spec => []PermissionWasHeld
<1>1. IInv => PermissionWasHeld
  BY DEF IInv
<1> QED
  BY <1>1, MembershipInvariance, PTL

\* A step that leaves the table alone, or changes another archive of it,
\* leaves a lost archive lost unless it lets a request about it through.
LEMMA LostStays ==
    ASSUME IInv, NEW a \in ArchiveId, IsLost(a), NEW r \in Request, NEW label,
           pc' = [pc EXCEPT ![r] = label],
           label \in {"put", "target", "owners", "remove"} => ask'[r].archive # a,
           \A q \in Request \ {r} : ask'[q] = ask[q],
           Created(Now', a),
           \A m \in AccountId : Now'.member[a][m] = Now.member[a][m]
    PROVE  IsLost(a)'
<1>1. Owners(Now', a) = {}
  BY DEF IsLost, Owners
<1>2. ASSUME NEW q \in Request, ask'[q] # NoAsk, ask'[q].archive = a
      PROVE  pc'[q] \notin {"put", "target", "owners", "remove"}
  BY <1>2 DEF IsLost, IInv, TypeOK
<1> QED
  BY <1>1, <1>2 DEF IsLost

\* The middleware stops everybody who would manage a lost archive.
LEMMA NobodyManagesALostArchive ==
    ASSUME IInv, NEW a \in ArchiveId, IsLost(a), NEW r \in Request, Authorise(r)
    PROVE  IsLost(a)'
<1> DEFINE q == ask[r]
           role == Now.member[q.archive][q.caller]
<1>1. pc[r] = "authorise" /\ UNCHANGED <<log, ask, began>>
  BY DEF Authorise
<1>2. q \in AskOf /\ q.kind \in ScopedKind
  BY <1>1, AsksAreScoped DEF IInv, RequestsAreOrderly
<1>3. CASE q.archive = a /\ q.kind \in {"putMember", "removeMember"}
  <2>1. role # "owner" /\ role \in Role \cup {NoRole}
    BY <1>2, <1>3, HistoryIsThere DEF IsLost, Owners, AskOf, IInv, Table
  <2>2. role # NoRole => ~Can(role, "manage_members")
    BY <2>1 DEF Can, Permissions, Role
  <2>3. "manage_members" \in Needs(q.kind)
    BY <1>3 DEF Needs
  <2>4. pc' = [pc EXCEPT ![r] = "done"]
    BY <1>1, <2>2, <2>3 DEF Authorise, GetCallersRole, Reply
  <2> QED
    BY <1>1, <2>4, LostStays DEF IsLost, Now, Created
<1>4. CASE q.archive # a \/ q.kind \in {"getArchive", "writeItem"}
  <2>1. PICK label \in {"act", "put", "target", "done"} :
           /\ pc' = [pc EXCEPT ![r] = label]
           /\ q.kind \in {"getArchive", "writeItem"} => label \in {"act", "done"}
    BY <1>1 DEF Authorise, Reply, Goto
  <2> QED
    BY <1>1, <1>4, <2>1, LostStays DEF IsLost, Now, Created
<1> QED
  BY <1>2, <1>3, <1>4 DEF ScopedKind

\* An archive nobody owns, once the requests let through earlier are over,
\* is owned by nobody ever after (putMember, removeMember).
THEOREM LostForGood == Spec => LostArchivesStayLost
<1> DEFINE Stays == \A a \in ArchiveId : IsLost(a) => IsLost(a)'
<1>1. IInv /\ [Next]_vars => Stays
  <2> SUFFICES ASSUME IInv, [Next]_vars, NEW a \in ArchiveId, IsLost(a)
               PROVE  IsLost(a)'
    OBVIOUS
  <2>1. CASE UNCHANGED vars
    BY <2>1 DEF vars, IsLost, Created, Owners, Now
  <2>2. CASE Next
    <3> PICK r \in Request : Begin(r) \/ Step(r) \/ Fail(r)
      BY <2>2 DEF Next
    <3>1. CASE Begin(r)
      <4>1. PICK label \in {"listMine", "create", "authorise"} :
               pc' = [pc EXCEPT ![r] = label]
        BY <3>1 DEF Begin, Goto
      <4>2. log' = log /\ \A q \in Request \ {r} : ask'[q] = ask[q]
        BY <3>1 DEF Begin, IInv, TypeOK
      <4> QED
        BY <4>1, <4>2, LostStays DEF IsLost, Now, Created
    <3>2. CASE ListArchivesForAccount(r) \/ Act(r) \/ RefuseBody(r) \/ Fail(r)
      <4>1. PICK label \in {"create", "done"} : pc' = [pc EXCEPT ![r] = label]
        BY <3>2 DEF ListArchivesForAccount, Act, RefuseBody, Fail, Goto, Reply
      <4>2. log' = log /\ ask' = ask
        BY <3>2 DEF ListArchivesForAccount, Act, RefuseBody, Fail
      <4> QED
        BY <4>1, <4>2, LostStays DEF IsLost, Now, Created
    <3>3. CASE Authorise(r)
      BY <3>3, NobodyManagesALostArchive
    <3>4. CASE GetTarget(r) \/ CountOwners(r)
      <4>1. PICK label : pc' = [pc EXCEPT ![r] = label]
        BY <3>4 DEF GetTarget, CountOwners, Goto, Reply
      <4>2. log' = log /\ ask' = ask /\ pc[r] \in {"target", "owners"}
        BY <3>4 DEF GetTarget, CountOwners
      <4>3. ask[r].archive # a
        BY <4>2 DEF IsLost, IInv, RequestsAreOrderly
      <4> QED
        BY <4>1, <4>2, <4>3, LostStays DEF IsLost, Now, Created
    <3>5. CASE CreateArchive(r)
      <4>1. PICK b \in ArchiveId : /\ ~Created(Now, b)
                                   /\ Commit(r, WithArchive(Now, b, ask[r].caller))
        BY <3>5 DEF CreateArchive
      <4>2. ask[r].caller \in AccountId /\ ask' = ask
        BY <3>5, AsksAreScoped DEF CreateArchive, IInv, AskOf
      <4>3. pc' = [pc EXCEPT ![r] = "done"]
        BY <4>1 DEF Commit, Reply
      <4>4. Now' = WithArchive(Now, b, ask[r].caller)
        BY <4>1, HistoryIsThere, AppendProperties DEF Commit, Now, IInv, TypeOK
      <4>5. /\ Created(Now', a)
            /\ \A m \in AccountId : Now'.member[a][m] = Now.member[a][m]
        BY <4>1, <4>2, <4>4, HistoryIsThere, WithArchiveEffect DEF IsLost, IInv
      <4> QED
        BY <4>2, <4>3, <4>5, LostStays
    <3>6. CASE PutMember(r) \/ RemoveMember(r)
      <4>1. PICK role \in Role \cup {NoRole} :
               Commit(r, SetRole(Now, ask[r].archive, ask[r].account, role))
        BY <3>6 DEF PutMember, RemoveMember, IInv, RequestsAreOrderly
      <4>2. pc[r] \in {"put", "remove"} /\ ask' = ask
        BY <3>6 DEF PutMember, RemoveMember
      <4>3. ask[r] \in AskOf /\ ask[r].archive # a
        BY <4>2, WritesAreScoped DEF IsLost, IInv, RequestsAreOrderly
      <4>4. pc' = [pc EXCEPT ![r] = "done"]
        BY <4>1 DEF Commit, Reply
      <4>5. Now' = SetRole(Now, ask[r].archive, ask[r].account, role)
        BY <4>1, HistoryIsThere, AppendProperties DEF Commit, Now, IInv, TypeOK
      <4>6. /\ Created(Now', a)
            /\ \A m \in AccountId : Now'.member[a][m] = Now.member[a][m]
        BY <4>3, <4>5, HistoryIsThere, SetRoleEffect
        DEF IsLost, IInv, AskOf, Created
      <4> QED
        BY <4>2, <4>4, <4>6, LostStays
    <3> QED
      BY <3>1, <3>2, <3>3, <3>4, <3>5, <3>6 DEF Step
  <2> QED
    BY <2>1, <2>2
<1> QED
  BY <1>1, MembershipInvariance, PTL DEF Spec, LostArchivesStayLost

-----------------------------------------------------------------------------
(***************************************************************************)
(* A lone removal.  Until it is done, owners are only added, so a count    *)
(* taken from a late replica can only be too low; once it is let through   *)
(* there is an owner besides its target, whom nobody removes.              *)
(***************************************************************************)
RemovalPending ==
    \A r \in Request : Asked(r, "removeMember") => pc[r] # "done"

LoneInv ==
    ALoneRemoval =>
        /\ \A a \in ArchiveId : Created(Now, a) => Owners(Now, a) # {}
        /\ RemovalPending =>
              \A k \in DOMAIN log, a \in ArchiveId :
                  Owners(log[k], a) \subseteq Owners(Now, a)
        /\ \A r \in Request : pc[r] = "remove" =>
              \E o \in Owners(Now, ask[r].archive) : o # ask[r].account

\* If no more than one removal is asked for, no more was before.
LEMMA ALoneRemovalWasAlone ==
    ASSUME IInv, [Next]_vars, ALoneRemoval'
    PROVE  ALoneRemoval
<1>1. CASE ask' = ask
  BY <1>1 DEF ALoneRemoval, Asked
<1>2. CASE \E r \in Request : Begin(r)
  <2> PICK r \in Request : Begin(r)
    BY <1>2
  <2>1. ask[r] = NoAsk /\ \A q \in Request \ {r} : ask'[q] = ask[q]
    BY DEF Begin, IInv, TypeOK, RequestsAreOrderly
  <2>2. ASSUME NEW q \in Request, NEW kind, Asked(q, kind)
        PROVE  Asked(q, kind)' /\ ask'[q] = ask[q]
    BY <2>1, <2>2 DEF Asked
  <2> QED
    BY <2>2 DEF ALoneRemoval
<1> QED
  BY <1>1, <1>2
  DEF Next, Step, vars, ListArchivesForAccount, CreateArchive, Authorise, Act,
      PutMember, RefuseBody, GetTarget, CountOwners, RemoveMember, Fail

\* A step that takes no owner away, and lets no removal through that would
\* leave none.
LEMMA NoOwnerLost ==
    ASSUME IInv, LoneInv, ALoneRemoval, NEW r \in Request, NEW label,
           pc' = [pc EXCEPT ![r] = label],
           \A q \in Request : pc[q] # "idle" => ask'[q] = ask[q],
           log' = log \/ log' = Append(log, Now'),
           \A a \in ArchiveId : Owners(Now, a) \subseteq Owners(Now', a),
           \A a \in ArchiveId :
              Created(Now', a) => Created(Now, a) \/ Owners(Now', a) # {},
           pc[r] # "done",
           label = "remove" =>
              \E o \in Owners(Now', ask'[r].archive) : o # ask'[r].account
    PROVE  LoneInv'
<1>1. \A a \in ArchiveId : Created(Now', a) => Owners(Now', a) # {}
  BY DEF LoneInv
<1>2. ASSUME RemovalPending'
      PROVE  \A k \in DOMAIN log', a \in ArchiveId :
                Owners(log'[k], a) \subseteq Owners(Now', a)
  <2>1. RemovalPending
    <3> SUFFICES ASSUME NEW q \in Request, Asked(q, "removeMember"), pc[q] = "done"
                 PROVE  FALSE
      BY DEF RemovalPending
    <3>1. pc'[q] = "done" /\ ask'[q] = ask[q]
      BY DEF IInv, TypeOK
    <3> QED
      BY <1>2, <3>1 DEF RemovalPending, Asked
  <2>2. \A k \in DOMAIN log, a \in ArchiveId :
           Owners(log[k], a) \subseteq Owners(Now', a)
    BY <2>1 DEF LoneInv
  <2>3. ASSUME NEW k \in DOMAIN log'
        PROVE  (k \in DOMAIN log /\ log'[k] = log[k]) \/ log'[k] = Now'
    <3>1. CASE log' = log
      BY <3>1
    <3>2. CASE log' = Append(log, Now')
      <4>1. log \in Seq(Table) /\ Len(log) \in Nat /\ DOMAIN log = 1..Len(log)
        BY HistoryIsThere DEF IInv, TypeOK
      <4> QED
        BY <3>2, <4>1, AppendProperties
    <3> QED
      BY <3>1, <3>2
  <2> QED
    BY <2>2, <2>3
<1>3. ASSUME NEW q \in Request, pc'[q] = "remove"
      PROVE  \E o \in Owners(Now', ask'[q].archive) : o # ask'[q].account
  <2>1. CASE q = r
    <3>1. label = "remove"
      BY <1>3, <2>1 DEF IInv, TypeOK
    <3> QED
      BY <2>1, <3>1
  <2>2. CASE q # r
    <3>1. pc[q] = "remove" /\ ask'[q] = ask[q]
      BY <1>3, <2>2 DEF IInv, TypeOK
    <3>2. ask[q].archive \in ArchiveId
      BY <3>1, WritesAreScoped DEF AskOf
    <3> QED
      BY <3>1, <3>2 DEF LoneInv
  <2> QED
    BY <2>1, <2>2
<1> QED
  BY <1>1, <1>2, <1>3 DEF LoneInv

\* A count above one is of an owner besides the target.
LEMMA AnotherOwnerIsThere ==
    ASSUME NEW owners, AnotherOwner(owners), NEW m
    PROVE  \E o \in owners : o # m
<1> SUFFICES ASSUME \A o \in owners : o = m
             PROVE  FALSE
  OBVIOUS
<1>0. owners = {} \/ owners = {m}
  OBVIOUS
<1>1. CASE owners = {}
  BY <1>1, FS_EmptySet DEF AnotherOwner
<1>2. CASE owners = {m}
  <2>1. Cardinality({m}) = 1
    BY FS_Singleton
  <2>2. Cardinality(owners) = 1
    BY <1>2, <2>1
  <2> QED  BY <2>2 DEF AnotherOwner
<1> QED
  BY <1>0, <1>1, <1>2

\* Steps that leave the table alone and do not lead to a removal.
LEMMA LoneQuietStep ==
    ASSUME IInv, LoneInv, ALoneRemoval, NEW r \in Request,
           \/ Begin(r) \/ ListArchivesForAccount(r) \/ Authorise(r) \/ Act(r)
           \/ RefuseBody(r) \/ Fail(r)
    PROVE  LoneInv'
<1>1. log' = log /\ Now' = Now
  BY DEF Begin, ListArchivesForAccount, Authorise, Act, RefuseBody, Fail, Now
<1>2. \A q \in Request : pc[q] # "idle" => ask'[q] = ask[q]
  BY DEF Begin, ListArchivesForAccount, Authorise, Act, RefuseBody, Fail,
         IInv, TypeOK
<1>3. pc[r] # "done"
  BY DEF Begin, ListArchivesForAccount, Authorise, Act, RefuseBody, Fail
<1>4. PICK label : pc' = [pc EXCEPT ![r] = label] /\ label # "remove"
  <2>1. CASE Begin(r)
    <3>1. PICK l \in {"listMine", "create", "authorise"} : pc' = [pc EXCEPT ![r] = l]
      BY <2>1 DEF Begin, Goto
    <3> QED
      BY <3>1
  <2>2. CASE Authorise(r)
    <3>1. PICK l \in {"act", "put", "target", "done"} : pc' = [pc EXCEPT ![r] = l]
      BY <2>2 DEF Authorise, Goto, Reply
    <3> QED
      BY <3>1
  <2>3. CASE ListArchivesForAccount(r) \/ Act(r) \/ RefuseBody(r) \/ Fail(r)
    <3>1. PICK l \in {"create", "done"} : pc' = [pc EXCEPT ![r] = l]
      BY <2>3 DEF ListArchivesForAccount, Act, RefuseBody, Fail, Goto, Reply
    <3> QED
      BY <3>1
  <2> QED
    BY <2>1, <2>2, <2>3
<1> QED
  BY <1>1, <1>2, <1>3, <1>4, NoOwnerLost

\* A target that is no owner may be removed.
LEMMA LoneGetTarget ==
    ASSUME IInv, LoneInv, ALoneRemoval, NEW r \in Request, GetTarget(r)
    PROVE  LoneInv'
<1>1. /\ pc[r] = "target" /\ log' = log /\ ask' = ask /\ Now' = Now
  BY DEF GetTarget, Now
<1>2. ask[r] \in AskOf /\ Created(Now, ask[r].archive)
  BY <1>1, WritesAreScoped
<1>3. PICK o \in Owners(Now, ask[r].archive) : TRUE
  BY <1>2 DEF LoneInv, AskOf
<1>4. PICK label \in {"owners", "remove", "done"} :
         /\ pc' = [pc EXCEPT ![r] = label]
         /\ label = "remove" => Now.member[ask[r].archive][ask[r].account] # "owner"
  BY DEF GetTarget, Goto, Reply
<1>5. label = "remove" => o # ask[r].account
  BY <1>3, <1>4 DEF Owners
<1> QED
  BY <1>1, <1>3, <1>4, <1>5, NoOwnerLost

\* Another owner counted on any page of any replica is an owner still.
LEMMA LoneCountOwners ==
    ASSUME IInv, LoneInv, ALoneRemoval, NEW r \in Request, CountOwners(r)
    PROVE  LoneInv'
<1>1. /\ pc[r] = "owners" /\ log' = log /\ ask' = ask /\ Now' = Now
  BY DEF CountOwners, Now
<1>2. ask[r] \in AskOf /\ Asked(r, "removeMember")
  BY <1>1, AsksAreScoped, MembershipAssumption
  DEF IInv, RequestsAreOrderly, Asked
<1>3. RemovalPending
  BY <1>1, <1>2 DEF ALoneRemoval, RemovalPending
<1>4. PICK label \in {"remove", "done"} :
         /\ pc' = [pc EXCEPT ![r] = label]
         /\ label = "remove" =>
               \E k \in DOMAIN log :
                  \E owners \in SUBSET Owners(log[k], ask[r].archive) :
                     AnotherOwner(owners)
  BY DEF CountOwners, Goto, Reply, Readable, ListOwners
<1>5. label = "remove" =>
         \E o \in Owners(Now, ask[r].archive) : o # ask[r].account
  <2> SUFFICES ASSUME label = "remove"
               PROVE  \E o \in Owners(Now, ask[r].archive) : o # ask[r].account
    OBVIOUS
  <2>0. PICK k \in DOMAIN log :
           \E owners \in SUBSET Owners(log[k], ask[r].archive) : AnotherOwner(owners)
    BY <1>4
  <2>1. PICK owners \in SUBSET Owners(log[k], ask[r].archive) : AnotherOwner(owners)
    BY <2>0
  <2>2. PICK o \in Owners(log[k], ask[r].archive) : o # ask[r].account
    BY <2>1, AnotherOwnerIsThere
  <2> QED
    BY <1>2, <1>3, <2>2 DEF LoneInv, AskOf
<1> QED
  BY <1>1, <1>4, <1>5, NoOwnerLost

\* A new archive has an owner.
LEMMA LoneCreateArchive ==
    ASSUME IInv, LoneInv, ALoneRemoval, NEW r \in Request, CreateArchive(r)
    PROVE  LoneInv'
<1>1. PICK b \in ArchiveId : Commit(r, WithArchive(Now, b, ask[r].caller))
  BY DEF CreateArchive
<1>2. ask[r].caller \in AccountId /\ ask' = ask /\ pc[r] = "create"
  BY AsksAreScoped DEF CreateArchive, IInv, AskOf
<1>3. Now' = WithArchive(Now, b, ask[r].caller) /\ log' = Append(log, Now')
  BY <1>1, HistoryIsThere, AppendProperties DEF Commit, Now, IInv, TypeOK
<1>4. /\ \A a \in ArchiveId, m \in AccountId : Now'.member[a][m] =
            IF a = b /\ m = ask[r].caller THEN "owner" ELSE Now.member[a][m]
  BY <1>2, <1>3, HistoryIsThere, WithArchiveEffect DEF IInv
<1>5. \A a \in ArchiveId : Owners(Now, a) \subseteq Owners(Now', a)
  BY <1>4 DEF Owners
<1>6. Owners(Now', b) # {}
  BY <1>2, <1>4 DEF Owners
<1>7. \A a \in ArchiveId : a # b /\ Created(Now', a) => Created(Now, a)
  BY <1>2, <1>3, HistoryIsThere, WithArchiveEffect DEF IInv
<1>8. pc' = [pc EXCEPT ![r] = "done"]
  BY <1>1 DEF Commit, Reply
<1> QED
  BY <1>2, <1>3, <1>5, <1>6, <1>7, <1>8, NoOwnerLost

\* Nobody is demoted.
LEMMA LonePutMember ==
    ASSUME IInv, LoneInv, ALoneRemoval, NEW r \in Request, PutMember(r)
    PROVE  LoneInv'
<1>1. Commit(r, SetRole(Now, ask[r].archive, ask[r].account, ask[r].role))
  BY DEF PutMember
<1>2. ask[r] \in AskOf /\ ask' = ask /\ pc[r] = "put"
  BY AsksAreScoped DEF PutMember, IInv
<1>3. ask[r].role = "owner"
  BY <1>2, MembershipAssumption DEF ALoneRemoval, Asked, IInv, RequestsAreOrderly
<1>4. /\ Now' = SetRole(Now, ask[r].archive, ask[r].account, "owner")
      /\ log' = Append(log, Now')
  BY <1>1, <1>3, HistoryIsThere, AppendProperties DEF Commit, Now, IInv, TypeOK
<1>5. /\ Now'.createdBy = Now.createdBy
      /\ \A a \in ArchiveId, m \in AccountId : Now'.member[a][m] =
            IF a = ask[r].archive /\ m = ask[r].account
            THEN "owner" ELSE Now.member[a][m]
  <2>1. "owner" \in Role \cup {NoRole}
    BY DEF Role
  <2> QED
    BY <1>2, <1>4, <2>1, HistoryIsThere, SetRoleEffect DEF IInv, AskOf
<1>6. \A a \in ArchiveId : Owners(Now, a) \subseteq Owners(Now', a)
  BY <1>5 DEF Owners
<1>7. \A a \in ArchiveId : Created(Now', a) => Created(Now, a)
  BY <1>5 DEF Created
<1>8. pc' = [pc EXCEPT ![r] = "done"]
  BY <1>1 DEF Commit, Reply
<1> QED
  BY <1>2, <1>4, <1>6, <1>7, <1>8, NoOwnerLost

\* The lone removal leaves the owner that was counted.
LEMMA LoneRemoveMember ==
    ASSUME IInv, LoneInv, ALoneRemoval, NEW r \in Request, RemoveMember(r)
    PROVE  LoneInv'
<1>1. Commit(r, SetRole(Now, ask[r].archive, ask[r].account, NoRole))
  BY DEF RemoveMember
<1>2. /\ ask[r] \in AskOf /\ ask' = ask /\ pc[r] = "remove"
      /\ Asked(r, "removeMember")
  BY AsksAreScoped, MembershipAssumption
  DEF RemoveMember, IInv, RequestsAreOrderly, Asked
<1>3. Now' = SetRole(Now, ask[r].archive, ask[r].account, NoRole)
  BY <1>1, HistoryIsThere, AppendProperties DEF Commit, Now, IInv, TypeOK
<1>4. /\ Now'.createdBy = Now.createdBy
      /\ \A a \in ArchiveId, m \in AccountId : Now'.member[a][m] =
            IF a = ask[r].archive /\ m = ask[r].account
            THEN NoRole ELSE Now.member[a][m]
  BY <1>2, <1>3, HistoryIsThere, SetRoleEffect DEF IInv, AskOf
<1>5. pc' = [pc EXCEPT ![r] = "done"] /\ pc'[r] = "done"
  BY <1>1 DEF Commit, Reply, IInv, TypeOK
<1>6. ~RemovalPending'
  BY <1>2, <1>5 DEF RemovalPending, Asked
<1>7. \A a \in ArchiveId : Created(Now', a) => Owners(Now', a) # {}
  <2> SUFFICES ASSUME NEW a \in ArchiveId, Created(Now', a)
               PROVE  Owners(Now', a) # {}
    OBVIOUS
  <2>1. PICK o \in Owners(Now, a) : a = ask[r].archive => o # ask[r].account
    BY <1>2, <1>4 DEF LoneInv, Created
  <2> QED
    BY <1>4, <2>1 DEF Owners
<1>8. \A q \in Request : pc'[q] # "remove"
  <2> SUFFICES ASSUME NEW q \in Request, pc'[q] = "remove"
               PROVE  FALSE
    OBVIOUS
  <2>1. q # r /\ pc[q] = "remove"
    BY <1>5 DEF IInv, TypeOK
  <2>2. Asked(q, "removeMember")
    BY <2>1, AsksAreScoped, MembershipAssumption
    DEF IInv, RequestsAreOrderly, Asked
  <2> QED
    BY <1>2, <2>1, <2>2 DEF ALoneRemoval
<1> QED
  BY <1>6, <1>7, <1>8 DEF LoneInv

\* Every step keeps the argument.
LEMMA LoneNext == IInv /\ LoneInv /\ [Next]_vars => LoneInv'
<1> SUFFICES ASSUME IInv, LoneInv, [Next]_vars
             PROVE  LoneInv'
  OBVIOUS
<1>1. CASE UNCHANGED vars
  BY <1>1 DEF vars, LoneInv, ALoneRemoval, RemovalPending, Asked, Created,
              Owners, Now
<1>2. CASE ~ALoneRemoval'
  BY <1>2 DEF LoneInv
<1>3. CASE Next /\ ALoneRemoval'
  <2>1. ALoneRemoval
    BY <1>3, ALoneRemovalWasAlone
  <2> PICK r \in Request : Begin(r) \/ Step(r) \/ Fail(r)
    BY <1>3 DEF Next
  <2> QED
    BY <2>1, LoneQuietStep, LoneGetTarget, LoneCountOwners, LoneCreateArchive,
       LonePutMember, LoneRemoveMember DEF Step
<1> QED
  BY <1>1, <1>2, <1>3

\* While nobody is demoted and one removal at most is asked for, removeMember's
\* count keeps every archive an owner, whatever replica it is taken from.
THEOREM ALoneRemovalIsSafe == Spec => []ALoneRemovalLeavesAnOwner
<1>1. Init => LoneInv
  <2> SUFFICES ASSUME Init PROVE LoneInv
    OBVIOUS
  <2>1. Len(log) = 1 /\ DOMAIN log = {1} /\ log[1] = Now
    BY DEF Init, Now
  <2>2. \A a \in ArchiveId : ~Created(Now, a)
    BY DEF Init, Now, Created
  <2>3. \A r \in Request : pc[r] # "remove"
    BY DEF Init
  <2> QED
    BY <2>1, <2>2, <2>3 DEF LoneInv
<1>2. LoneInv => ALoneRemovalLeavesAnOwner
  BY DEF LoneInv, ALoneRemovalLeavesAnOwner
<1> QED
  BY <1>1, <1>2, LoneNext, MembershipInvariance, PTL DEF Spec

-----------------------------------------------------------------------------
(***************************************************************************)
(* getMe strands nobody.                                                   *)
(***************************************************************************)
\* Nobody has asked to remove the account.
Unremoved(m) ==
    \A q \in Request : Asked(q, "removeMember") => ask[q].account # m

\* An account nobody asked to remove keeps what some table gave it, so the
\* memberships a late replica shows are not gone; and only getMe says "ok" to
\* getMe.
StrandInv ==
    /\ \A m \in AccountId : Unremoved(m) =>
          \A k \in DOMAIN log, a \in ArchiveId :
              log[k].mirror[m][a] # NoRole => Now.mirror[m][a] # NoRole
    /\ \A r \in Request : answer[r] = "ok" => pc[r] = "done"
    /\ NobodyIsStranded

\* A request that is asked for stays asked for.
LEMMA UnremovedWasUnremoved ==
    ASSUME IInv, Next, NEW m \in AccountId, Unremoved(m)'
    PROVE  Unremoved(m)
<1> PICK r \in Request : Begin(r) \/ Step(r) \/ Fail(r)
  BY DEF Next
<1>1. \A q \in Request : ask[q] # NoAsk => ask'[q] = ask[q]
  <2>1. CASE Begin(r)
    BY <2>1 DEF Begin, IInv, TypeOK, RequestsAreOrderly
  <2>2. CASE Step(r) \/ Fail(r)
    BY <2>2 DEF Step, Fail, ListArchivesForAccount, CreateArchive, Authorise, Act,
                PutMember, RefuseBody, GetTarget, CountOwners, RemoveMember
  <2> QED
    BY <2>1, <2>2
<1> QED
  BY <1>1 DEF Unremoved, Asked

\* Only RemoveMember takes a membership away, and only its target's.
LEMMA MembershipsAreKept ==
    ASSUME IInv, Next, NEW m \in AccountId, Unremoved(m), NEW a \in ArchiveId,
           Now.mirror[m][a] # NoRole
    PROVE  Now'.mirror[m][a] # NoRole
<1> PICK r \in Request : Begin(r) \/ Step(r) \/ Fail(r)
  BY DEF Next
<1>0. Now \in Table /\ Len(log) \in Nat \ {0} /\ log \in Seq(Table)
  BY HistoryIsThere DEF IInv, TypeOK
<1>1. ASSUME NEW table, log' = Append(log, table)
      PROVE  Now' = table
  BY <1>0, <1>1 DEF Now
<1>2. CASE UNCHANGED log
  BY <1>2 DEF Now
<1>3. CASE CreateArchive(r)
  <2>1. PICK b \in ArchiveId : Commit(r, WithArchive(Now, b, ask[r].caller))
    BY <1>3 DEF CreateArchive
  <2>2. ask[r].caller \in AccountId
    BY <1>3, AsksAreScoped DEF CreateArchive, IInv, AskOf
  <2>3. Now' = WithArchive(Now, b, ask[r].caller)
    BY <1>1, <2>1 DEF Commit
  <2>4. "owner" # NoRole
    BY MembershipAssumption DEF Role
  <2> QED
    BY <1>0, <2>2, <2>3, <2>4, WithArchiveEffect
<1>4. CASE PutMember(r)
  <2>1. Now' = SetRole(Now, ask[r].archive, ask[r].account, ask[r].role)
    BY <1>1, <1>4 DEF PutMember, Commit
  <2>2. /\ ask[r].archive \in ArchiveId /\ ask[r].account \in AccountId
        /\ ask[r].role \in Role
    BY <1>4, AsksAreScoped DEF PutMember, IInv, AskOf, RequestsAreOrderly
  <2>3. ask[r].role # NoRole
    BY <2>2, MembershipAssumption
  <2>4. ask[r].role \in Role \cup {NoRole}
    BY <2>2
  <2>5. SetRole(Now, ask[r].archive, ask[r].account, ask[r].role).mirror[m][a] =
           IF a = ask[r].archive /\ m = ask[r].account THEN ask[r].role
           ELSE Now.mirror[m][a]
    BY <1>0, <2>2, <2>4, SetRoleEffect
  <2> QED
    BY <2>1, <2>3, <2>5
<1>5. CASE RemoveMember(r)
  <2>1. Now' = SetRole(Now, ask[r].archive, ask[r].account, NoRole)
    BY <1>1, <1>5 DEF RemoveMember, Commit
  <2>2. /\ ask[r].archive \in ArchiveId /\ ask[r].account \in AccountId
        /\ ask[r].kind = "removeMember" /\ ask[r] # NoAsk
    BY <1>5, AsksAreScoped, MembershipAssumption
       DEF RemoveMember, IInv, AskOf, RequestsAreOrderly
  <2>3. ask[r].account # m
    BY <2>2 DEF Unremoved, Asked
  <2> QED
    BY <1>0, <2>1, <2>2, <2>3, SetRoleEffect
<1> QED
  BY <1>2, <1>3, <1>4, <1>5 DEF Begin, Step, Fail, ListArchivesForAccount,
     Authorise, Act, RefuseBody, GetTarget, CountOwners

\* A getMe that is answered "ok" has found a membership or made one.
LEMMA GetMeAnswersWithAnArchive ==
    ASSUME IInv, StrandInv, NEW r \in Request, Step(r), answer[r] # "ok",
           answer'[r] = "ok", ask[r].kind = "getMe", Unremoved(ask[r].caller)
    PROVE  \E a \in ArchiveId : Now'.mirror[ask[r].caller][a] # NoRole
<1>0. /\ Now \in Table /\ Len(log) \in Nat \ {0} /\ log \in Seq(Table)
      /\ DOMAIN log = 1..Len(log)
  BY HistoryIsThere DEF IInv, TypeOK
<1>1. pc[r] # "idle"
  BY DEF Step, ListArchivesForAccount, CreateArchive, Authorise, Act, PutMember,
         RefuseBody, GetTarget, CountOwners, RemoveMember
<1>2. ask[r] \in AskOf
  BY <1>1, AsksAreScoped DEF IInv
<1>3. ask[r].caller \in AccountId
  BY <1>2 DEF AskOf
<1>4. CASE ListArchivesForAccount(r)
  <2>1. PICK table \in Readable :
           ~\A a \in ArchiveId : table.mirror[ask[r].caller][a] = NoRole
    BY <1>4 DEF ListArchivesForAccount, Goto
  <2>2. PICK k \in DOMAIN log : table = log[k]
    BY <2>1 DEF Readable
  <2>3. Now' = Now
    BY <1>4 DEF ListArchivesForAccount, Now
  <2> QED
    BY <1>3, <2>1, <2>2, <2>3 DEF StrandInv
<1>5. CASE CreateArchive(r)
  <2>1. PICK b \in ArchiveId : Commit(r, WithArchive(Now, b, ask[r].caller))
    BY <1>5 DEF CreateArchive
  <2>2. Now' = WithArchive(Now, b, ask[r].caller)
    BY <1>0, <2>1 DEF Commit, Now
  <2>3. "owner" # NoRole
    BY MembershipAssumption DEF Role
  <2> QED
    BY <1>0, <1>3, <2>2, <2>3, WithArchiveEffect
<1>6. CASE RefuseBody(r)
  BY <1>6 DEF RefuseBody, Reply, IInv, TypeOK
<1>7. ASSUME pc[r] \in {"authorise", "act", "put", "target", "owners", "remove"}
      PROVE  FALSE
  BY <1>7 DEF IInv, RequestsAreOrderly, ScopedKind
<1> QED
  BY <1>4, <1>5, <1>6, <1>7 DEF Step, Authorise, Act, PutMember, GetTarget,
     CountOwners, RemoveMember

\* Every step keeps memberships nobody asked to end.
LEMMA StrandNext == IInv /\ StrandInv /\ [Next]_vars => StrandInv'
<1> SUFFICES ASSUME IInv, StrandInv, [Next]_vars PROVE StrandInv'
  OBVIOUS
<1>1. CASE UNCHANGED vars
  BY <1>1 DEF vars, StrandInv, Unremoved, Asked, Now, NobodyIsStranded
<1>2. CASE Next
  <2> PICK r \in Request : Begin(r) \/ Step(r) \/ Fail(r)
    BY <1>2 DEF Next
  <2>0. /\ Len(log) \in Nat \ {0} /\ DOMAIN log = 1..Len(log) /\ log \in Seq(Table)
        /\ Now = log[Len(log)]
    BY HistoryIsThere DEF IInv, TypeOK, Now
  <2>1. UNCHANGED log \/ \E table : log' = Append(log, table)
    BY DEF Begin, Step, Fail, ListArchivesForAccount, CreateArchive, Authorise, Act,
           PutMember, RefuseBody, GetTarget, CountOwners, RemoveMember, Commit
  <2>2. \A k \in DOMAIN log' : log'[k] = Now' \/ (k \in DOMAIN log /\ log'[k] = log[k])
    BY <2>0, <2>1 DEF Now
  <2>3. ASSUME NEW m \in AccountId, Unremoved(m)', NEW k \in DOMAIN log',
               NEW a \in ArchiveId, log'[k].mirror[m][a] # NoRole
        PROVE  Now'.mirror[m][a] # NoRole
    <3>1. Unremoved(m)
      BY <1>2, <2>3, UnremovedWasUnremoved
    <3>2. CASE k \in DOMAIN log /\ log'[k] = log[k]
      BY <1>2, <2>3, <3>1, <3>2, MembershipsAreKept DEF StrandInv
    <3> QED
      BY <2>2, <2>3, <3>2
  <2>4. /\ \A q \in Request \ {r} : answer'[q] = answer[q] /\ pc'[q] = pc[q]
        /\ answer'[r] = answer[r] \/ pc'[r] = "done"
        /\ pc[r] # "done"
    BY DEF Begin, Step, Fail, ListArchivesForAccount, CreateArchive, Authorise, Act,
           PutMember, RefuseBody, GetTarget, CountOwners, RemoveMember, Commit,
           Goto, Reply, IInv, TypeOK
  <2>5. \A q \in Request : answer'[q] = "ok" => pc'[q] = "done"
    BY <2>4 DEF StrandInv
  <2>6. ASSUME NEW q \in Request, Asked(q, "getMe")', answer'[q] = "ok",
               Unremoved(ask[q].caller)'
        PROVE  \E a \in ArchiveId : Now'.mirror[ask'[q].caller][a] # NoRole
    <3> DEFINE m == ask[q].caller
    <3>1. ask'[q] = ask[q] /\ (q = r => Step(r) \/ Fail(r))
      <4>1. CASE Begin(r)
        <5>1. pc'[r] # "done"
          BY <4>1 DEF Begin, Goto, IInv, TypeOK
        <5>2. q # r
          BY <2>5, <2>6, <5>1
        <5> QED
          BY <4>1, <5>2 DEF Begin, IInv, TypeOK
      <4>2. CASE Step(r) \/ Fail(r)
        BY <4>2 DEF Step, Fail, ListArchivesForAccount, CreateArchive, Authorise, Act,
           PutMember, RefuseBody, GetTarget, CountOwners, RemoveMember
      <4> QED
        BY <4>1, <4>2
    <3>2. /\ pc[q] # "idle" /\ m \in AccountId
      <4>1. ask[q] # NoAsk /\ ask[q].kind = "getMe"
        BY <2>6, <3>1 DEF Asked
      <4>2. pc[q] # "idle"
        BY <4>1 DEF IInv, RequestsAreOrderly
      <4> QED
        BY <4>2, AsksAreScoped DEF IInv, AskOf
    <3>3. Asked(q, "getMe") /\ Unremoved(m) /\ Unremoved(m)'
      <4>1. Unremoved(m)'
        BY <2>6, <3>1 DEF Unremoved
      <4> QED
        BY <1>2, <2>6, <3>1, <3>2, <4>1, UnremovedWasUnremoved DEF Asked
    <3>4. CASE answer[q] = "ok"
      <4>1. PICK a \in ArchiveId : Now.mirror[m][a] # NoRole
        BY <3>3, <3>4 DEF StrandInv, NobodyIsStranded, Unremoved
      <4>2. Now'.mirror[m][a] # NoRole
        BY <1>2, <3>2, <3>3, <4>1, MembershipsAreKept
      <4> QED
        BY <3>1, <4>2
    <3>5. CASE answer[q] # "ok"
      <4>1. q = r
        BY <2>4, <2>6, <3>5
      <4>2. Step(r)
        BY <2>6, <3>1, <3>5, <4>1 DEF Fail, Reply, IInv, TypeOK
      <4>3. ask[r].kind = "getMe"
        BY <3>3, <4>1 DEF Asked
      <4> QED
        BY <2>6, <3>1, <3>3, <3>5, <4>1, <4>2, <4>3, GetMeAnswersWithAnArchive
    <3> QED
      BY <3>4, <3>5
  <2> QED
    BY <2>3, <2>5, <2>6 DEF StrandInv, NobodyIsStranded, Unremoved
<1> QED
  BY <1>1, <1>2

\* After a getMe that answered "ok" the account belongs to an archive, unless
\* somebody asked to remove it, from whatever replica getMe's list came.
THEOREM NobodyStranded == Spec => []NobodyIsStranded
<1>1. Init => StrandInv
  <2> SUFFICES ASSUME Init PROVE StrandInv
    OBVIOUS
  <2>1. DOMAIN log = {1} /\ log[1] = Now
    BY DEF Init, Now
  <2>2. \A r \in Request : answer[r] # "ok"
    BY DEF Init, Pending
  <2> QED
    BY <2>1, <2>2 DEF StrandInv, NobodyIsStranded
<1>2. StrandInv => NobodyIsStranded
  BY DEF StrandInv
<1> QED
  BY <1>1, <1>2, StrandNext, MembershipInvariance, PTL DEF Spec

-----------------------------------------------------------------------------
(***************************************************************************)
(* The archives implement the guarded register.                            *)
(***************************************************************************)

\* A request is answered when it is done.
AnsweredWhenDone == \A r \in Request : pc[r] = "done" <=> answer[r] # Pending

LEMMA AnswersComeLast == IInv /\ AnsweredWhenDone /\ [Next]_vars => AnsweredWhenDone'
<1> SUFFICES ASSUME IInv, AnsweredWhenDone, [Next]_vars
             PROVE  AnsweredWhenDone'
  OBVIOUS
<1>0. DOMAIN pc = Request /\ DOMAIN answer = Request
  BY DEF IInv, TypeOK
<1>1. CASE UNCHANGED <<pc, answer>>
  BY <1>1 DEF AnsweredWhenDone
<1>2. ASSUME NEW r \in Request, NEW label, Goto(r, label), pc[r] # "done",
             label # "done"
      PROVE  AnsweredWhenDone'
  BY <1>0, <1>2 DEF Goto, AnsweredWhenDone
<1>3. ASSUME NEW r \in Request, NEW a \in Answers, Reply(r, a)
      PROVE  AnsweredWhenDone'
  BY <1>0, <1>3 DEF Reply, AnsweredWhenDone, Answers, Pending
<1>4. ASSUME NEW r \in Request, NEW table, Commit(r, table)
      PROVE  AnsweredWhenDone'
  BY <1>3, <1>4 DEF Commit, Answers
<1>5. ASSUME NEW r \in Request, Begin(r)
      PROVE  AnsweredWhenDone'
  <2>1. \E label \in {"listMine", "create", "authorise"} : Goto(r, label)
    BY <1>5 DEF Begin
  <2> QED  BY <1>2, <1>5, <2>1 DEF Begin
<1>6. ASSUME NEW r \in Request, Step(r)
      PROVE  AnsweredWhenDone'
  <2>1. /\ pc[r] # "done"
        /\ \/ \E label \in {"create", "put", "target", "act", "owners", "remove"} :
                 Goto(r, label)
           \/ \E a \in Answers : Reply(r, a)
           \/ \E table : Commit(r, table)
    BY <1>6 DEF Step, ListArchivesForAccount, CreateArchive, Authorise, Act, PutMember,
                RefuseBody, GetTarget, CountOwners, RemoveMember, Answers
  <2> QED  BY <1>2, <1>3, <1>4, <2>1
<1>7. ASSUME NEW r \in Request, Fail(r)
      PROVE  AnsweredWhenDone'
  BY <1>3, <1>7 DEF Fail, Answers
<1> QED  BY <1>1, <1>5, <1>6, <1>7 DEF Next, vars

\* A request that is answered leaves, whether it was let in or not.
LEMMA ReplyIsTold ==
    ASSUME IInv, NEW r \in Request, NEW answers, NEW a \in answers, Reply(r, a),
           ask' = ask
    PROVE  Guarded!Told(r, answers)
BY DEF Reply, Guarded!Told, LetIn, IInv, TypeOK

\* A step of one request that does not let it in or out.
LEMMA GotoIsInvisible ==
    ASSUME IInv, NEW r \in Request, NEW label, Goto(r, label), UNCHANGED <<log, ask>>,
           r \in LetIn <=> label \in {"act", "put", "target", "owners", "remove"}
    PROVE  UNCHANGED Guarded!vars
BY DEF Goto, LetIn, Guarded!vars, Now, IInv, TypeOK

\* Before it is done, a request waits, for the guard if it is about an archive.
LEMMA RequestWaits ==
    ASSUME IInv, AnsweredWhenDone, NEW r \in Request, pc[r] \notin {"idle", "done"}
    PROVE  /\ Guarded!Waiting(r)
           /\ ask[r] \in AskOf
           /\ pc[r] \notin {"listMine", "create"} => Guarded!Guarded(r)
           /\ pc[r] \in {"listMine", "create"} => ~Guarded!Guarded(r)
<1>1. ask[r] \in AskOf /\ ask[r] # NoAsk
  BY AsksAreScoped DEF IInv, RequestsAreOrderly
<1>2. answer[r] = Pending
  BY DEF AnsweredWhenDone
<1>3. pc[r] \in {"listMine", "create", "authorise", "act", "put", "target", "owners",
                 "remove"}
  BY DEF IInv, TypeOK
<1> QED
  BY <1>1, <1>2, <1>3
     DEF Guarded!Waiting, Guarded!Pending, Pending, Guarded!Guarded, IInv,
         RequestsAreOrderly, ScopedKind

\* The middleware and the handler's check are the guard, and ask for the
\* roles the guard asks for.
LEMMA AuthoriseIsTheGuard ==
    ASSUME IInv, AnsweredWhenDone, NEW r \in Request, Authorise(r)
    PROVE  Guarded!LetIn(r) \/ Guarded!TurnAway(r) \/ Guarded!Return(r)
<1> DEFINE role == Now.member[ask[r].archive][ask[r].caller]
           kind == ask[r].kind
<1>1. /\ pc[r] = "authorise" /\ UNCHANGED <<log, ask, began>>
  BY DEF Authorise
<1>2. /\ Guarded!Waiting(r) /\ Guarded!Guarded(r)
      /\ kind \in ScopedKind
  BY <1>1, RequestWaits DEF IInv, RequestsAreOrderly
<1>3. role \in Role \cup {NoRole}
  BY <1>1, RequestWaits, HistoryIsThere DEF IInv, Table, AskOf
<1>4. UNCHANGED <<Now.member, Now.createdBy>>
  BY <1>1 DEF Now
<1>5. role \in Guarded!Suffices(kind)
        <=> role # NoRole /\ \A action \in Needs(kind) : Can(role, action)
  BY <1>2, <1>3, MembershipAssumption
     DEF Guarded!Suffices, Needs, Can, Permissions, ScopedKind, Role
<1>6. CASE role \notin Guarded!Suffices(kind)
  <2>1. Reply(r, IF role = NoRole THEN "notFound" ELSE "forbidden")
    BY <1>5, <1>6 DEF Authorise, GetCallersRole
  <2>2. Guarded!Told(r, {IF role = NoRole THEN "notFound" ELSE "forbidden"})
    BY <1>1, <2>1, ReplyIsTold
  <2> QED
    BY <1>2, <1>4, <1>6, <2>2 DEF Guarded!TurnAway, Guarded!CallersRole
<1>7. CASE role \in Guarded!Suffices(kind)
  <2>1. \/ kind = "putMember" /\ Reply(r, "badRequest")
        \/ \E label \in {"act", "put", "target"} : Goto(r, label)
    BY <1>2, <1>5, <1>7 DEF Authorise, GetCallersRole
  <2>2. CASE kind = "putMember" /\ Reply(r, "badRequest")
    <3>1. Guarded!Told(r, {"badRequest"})
      BY <1>1, <2>2, ReplyIsTold
    <3>2. Guarded!CallersRole(r) \in Guarded!Suffices("putMember")
      BY <1>7, <2>2 DEF Guarded!CallersRole
    <3> QED  BY <1>2, <1>4, <2>2, <3>1, <3>2 DEF Guarded!Return
  <2>3. CASE \E label \in {"act", "put", "target"} : Goto(r, label)
    <3>1. LetIn' = LetIn \cup {r} /\ answer' = answer
      BY <2>3 DEF Goto, LetIn, IInv, TypeOK
    <3> QED
      BY <1>1, <1>2, <1>4, <1>7, <3>1 DEF Guarded!LetIn, Guarded!CallersRole
  <2> QED  BY <2>1, <2>2, <2>3
<1> QED  BY <1>6, <1>7

\* What follows a commit of the leader's table.
LEMMA CommitIsTold ==
    ASSUME IInv, NEW r \in Request, NEW table, Commit(r, table), ask' = ask
    PROVE  Guarded!Told(r, {"ok", "error"}) /\ Now' = table
<1>1. PICK a \in {"ok", "error"} : Reply(r, a)
  BY DEF Commit
<1>2. log' = Append(log, table) /\ Len(log) \in Nat /\ log \in Seq(Table)
  BY HistoryIsThere DEF Commit, IInv, TypeOK
<1> QED  BY <1>1, <1>2, ReplyIsTold DEF Now

\* A put or a removal changes one entry.
LEMMA WriteIsTheChange ==
    ASSUME IInv, AnsweredWhenDone, NEW r \in Request, PutMember(r) \/ RemoveMember(r)
    PROVE  Guarded!Change(r)
<1>1. pc[r] \in {"put", "remove"} /\ ask' = ask
  BY DEF PutMember, RemoveMember
<1>2. /\ Guarded!Waiting(r) /\ ask[r] \in AskOf /\ r \in LetIn
      /\ Now \in Table
  BY <1>1, RequestWaits, HistoryIsThere DEF LetIn, IInv
<1>3. PICK role \in Role \cup {NoRole} :
         /\ \/ ask[r].kind = "putMember" /\ role = ask[r].role /\ role \in Role
            \/ ask[r].kind = "removeMember" /\ role = NoRole
         /\ Commit(r, SetRole(Now, ask[r].archive, ask[r].account, role))
  BY DEF PutMember, RemoveMember, IInv, RequestsAreOrderly
<1>4. /\ Guarded!Told(r, {"ok", "error"})
      /\ Now' = SetRole(Now, ask[r].archive, ask[r].account, role)
  BY <1>1, <1>3, CommitIsTold
<1>5. /\ Now'.member = [Now.member EXCEPT ![ask[r].archive][ask[r].account] = role]
      /\ Now'.createdBy = Now.createdBy
  BY <1>2, <1>4 DEF SetRole, Table
<1> QED  BY <1>2, <1>3, <1>4, <1>5 DEF Guarded!Change

\* An archive that is not created yet has no members, so that its creator is
\* the only one afterwards.
LEMMA CreateIsFound ==
    ASSUME IInv, AnsweredWhenDone, NEW r \in Request, CreateArchive(r)
    PROVE  Guarded!Found(r)
<1> DEFINE m == ask[r].caller
<1>1. pc[r] = "create" /\ ask' = ask
  BY DEF CreateArchive
<1>2. /\ Guarded!Waiting(r) /\ ~Guarded!Guarded(r) /\ m \in AccountId
      /\ Now \in Table /\ Len(log) \in DOMAIN log
  BY <1>1, RequestWaits, HistoryIsThere DEF IInv, AskOf
<1>3. PICK a \in ArchiveId : ~Created(Now, a) /\ Commit(r, WithArchive(Now, a, m))
  BY DEF CreateArchive
<1>4. Guarded!Told(r, {"ok", "error"}) /\ Now' = WithArchive(Now, a, m)
  BY <1>1, <1>3, CommitIsTold
<1>5. \A n \in AccountId : Now.member[a][n] = NoRole
  BY <1>2, <1>3 DEF IInv, HistoryIsSound, Now
<1>6. /\ Now'.createdBy = [Now.createdBy EXCEPT ![a] = m]
      /\ Now'.member = [Now.member EXCEPT ![a][m] = "owner"]
  BY <1>2, <1>4 DEF WithArchive, SetRole, Table
<1>7. [Now.member[a] EXCEPT ![m] = "owner"] =
         [n \in AccountId |-> IF n = m THEN "owner" ELSE NoRole]
  BY <1>2, <1>5 DEF Table
<1>8. Now'.member = [Now.member EXCEPT ![a] =
                        [n \in AccountId |-> IF n = m THEN "owner" ELSE NoRole]]
  BY <1>2, <1>6, <1>7 DEF Table
<1>9. Now.createdBy[a] = NoAccount
  BY <1>3 DEF Created
<1> QED  BY <1>2, <1>4, <1>6, <1>8, <1>9 DEF Guarded!Found

\* Everything else reads, refuses or fails.
LEMMA OthersReturnOrStutter ==
    ASSUME IInv, AnsweredWhenDone, NEW r \in Request,
           \/ ListArchivesForAccount(r) \/ Act(r) \/ RefuseBody(r) \/ GetTarget(r)
           \/ CountOwners(r) \/ Fail(r)
    PROVE  Guarded!Return(r) \/ UNCHANGED Guarded!vars
<1>1. pc[r] \notin {"idle", "done"} /\ UNCHANGED <<log, ask>>
  BY DEF ListArchivesForAccount, Act, RefuseBody, GetTarget, CountOwners, Fail
<1>2. Guarded!Waiting(r) /\ UNCHANGED <<Now.member, Now.createdBy>>
  BY <1>1, RequestWaits DEF Now
<1>3. \A a : Reply(r, a) => Guarded!Told(r, {a})
  BY <1>1, ReplyIsTold
<1>4. CASE Fail(r)
  BY <1>2, <1>3, <1>4 DEF Fail, Guarded!Return
<1>5. CASE ListArchivesForAccount(r)
  <2>1. CASE Goto(r, "create")
    BY <1>1, <1>5, <2>1, GotoIsInvisible DEF ListArchivesForAccount, LetIn
  <2>2. CASE Reply(r, "ok") /\ ask[r].kind = "getMe"
    BY <1>2, <1>3, <2>2 DEF Guarded!Return
  <2> QED
    BY <1>5, <2>1, <2>2 DEF ListArchivesForAccount, IInv, RequestsAreOrderly
<1>6. CASE Act(r)
  <2>1. r \in LetIn /\ ask[r].kind \in {"getArchive", "writeItem"}
    BY <1>6 DEF Act, LetIn, IInv, RequestsAreOrderly
  <2> QED
    BY <1>2, <1>3, <1>6, <2>1 DEF Act, Guarded!Return
<1>7. CASE RefuseBody(r)
  <2>1. /\ \/ ask[r].kind = "createArchive"
           \/ ask[r].kind = "putMember" /\ r \in LetIn
        /\ Reply(r, "badRequest")
    BY <1>7 DEF RefuseBody, LetIn, IInv, RequestsAreOrderly
  <2> QED
    BY <1>2, <1>3, <2>1 DEF Guarded!Return
<1>8. CASE GetTarget(r) \/ CountOwners(r)
  <2>1. r \in LetIn /\ ask[r].kind = "removeMember"
    BY <1>8 DEF GetTarget, CountOwners, LetIn, IInv, RequestsAreOrderly
  <2>2. \/ \E a \in {"notFound", "conflict"} : Reply(r, a)
        \/ \E label \in {"owners", "remove"} : Goto(r, label)
    BY <1>8 DEF GetTarget, CountOwners
  <2>3. CASE \E a \in {"notFound", "conflict"} : Reply(r, a)
    BY <1>2, <1>3, <2>1, <2>3 DEF Guarded!Return
  <2>4. CASE \E label \in {"owners", "remove"} : Goto(r, label)
    BY <1>1, <2>1, <2>4, GotoIsInvisible
  <2> QED  BY <2>2, <2>3, <2>4
<1> QED  BY <1>4, <1>5, <1>6, <1>7, <1>8

\* An arrival is a submission.
LEMMA BeginIsSubmission ==
    ASSUME IInv, NEW r \in Request, Begin(r)
    PROVE  Guarded!Submit(r)
<1>1. ask[r] = NoAsk /\ UNCHANGED <<log, answer>> /\ pc[r] = "idle"
  BY DEF Begin, Goto, IInv, RequestsAreOrderly
<1>2. \E q \in Ask : ask' = [ask EXCEPT ![r] = q]
  BY DEF Begin
<1>3. \E label \in {"listMine", "create", "authorise"} : Goto(r, label)
  BY DEF Begin
<1>4. LetIn' = LetIn
  BY <1>1, <1>3 DEF Goto, LetIn, IInv, TypeOK
<1> QED  BY <1>1, <1>2, <1>4 DEF Guarded!Submit, Now

\* BehavesAsGuarded: whatever the replicas show and however requests
\* interleave, a membership changes only by one whole request that the guard
\* let in by a role held then, and a new archive has its creator as its only
\* member.
THEOREM ArchivesAreGuarded == Spec => BehavesAsGuarded
<1>1. Init => Guarded!Init
  <2> SUFFICES ASSUME Init PROVE Guarded!Init
    OBVIOUS
  <2>1. /\ Now.member = [a \in ArchiveId |-> [m \in AccountId |-> NoRole]]
        /\ Now.createdBy = [a \in ArchiveId |-> NoAccount]
    BY DEF Init, Now
  <2> QED  BY <2>1 DEF Init, Guarded!Init, LetIn, Pending, Guarded!Pending
<1>2. Init => AnsweredWhenDone
  BY DEF Init, AnsweredWhenDone
<1>3. IInv /\ AnsweredWhenDone /\ [Next]_vars => [Guarded!Next]_(Guarded!vars)
  <2> SUFFICES ASSUME IInv, AnsweredWhenDone, [Next]_vars
               PROVE  Guarded!Next \/ UNCHANGED Guarded!vars
    OBVIOUS
  <2>1. CASE UNCHANGED vars
    BY <2>1 DEF vars, Guarded!vars, Now, LetIn
  <2>2. ASSUME NEW r \in Request, Begin(r) \/ Step(r) \/ Fail(r)
        PROVE  Guarded!Next \/ UNCHANGED Guarded!vars
    <3>1. CASE Begin(r)
      BY <3>1, BeginIsSubmission DEF Guarded!Next
    <3>2. CASE Authorise(r)
      BY <3>2, AuthoriseIsTheGuard DEF Guarded!Next
    <3>3. CASE CreateArchive(r)
      BY <3>3, CreateIsFound DEF Guarded!Next
    <3>4. CASE PutMember(r) \/ RemoveMember(r)
      BY <3>4, WriteIsTheChange DEF Guarded!Next
    <3>5. CASE \/ ListArchivesForAccount(r) \/ Act(r) \/ RefuseBody(r)
               \/ GetTarget(r) \/ CountOwners(r) \/ Fail(r)
      BY <3>5, OthersReturnOrStutter DEF Guarded!Next
    <3> QED  BY <2>2, <3>1, <3>2, <3>3, <3>4, <3>5 DEF Step
  <2> QED  BY <2>1, <2>2 DEF Next
<1> QED
  BY <1>1, <1>2, <1>3, AnswersComeLast, MembershipInvariance, PTL
     DEF Spec, BehavesAsGuarded, Guarded!Spec

=============================================================================
