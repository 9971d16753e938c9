----------------------------- MODULE MCMembership -----------------------------
(***************************************************************************)
(* Two accounts, two archives that they may create, and every request      *)
(* about the first; those about the second would be the same again.        *)
(***************************************************************************)
EXTENDS Membership, TLC

CONSTANTS r1, r2, r3, r4, ann, bob, a1, a2

MCRequest == {r1, r2, r3, r4}
MCFewRequests == {r1, r2, r3}
MCAccountId == {ann, bob}
MCArchiveId == {a1, a2}
MCOneArchive == {a1}

\* A field the request's kind does not have is filled in once.
AskFor(kind, caller, a, m, role) ==
    [kind |-> kind, caller |-> caller, archive |-> a, account |-> m, role |-> role]

MCAsk ==
    {AskFor(kind, m, a1, m, "viewer") : m \in AccountId,
        kind \in {"getMe", "createArchive", "getArchive", "writeItem"}}
    \cup {AskFor("putMember", m, a1, n, role) :
        m \in AccountId, n \in AccountId, role \in BodyRole}
    \cup {AskFor("removeMember", m, a1, n, "viewer") :
        m \in AccountId, n \in AccountId}

\* Each role given in one way only: owners by one another, the rest to the
\* other account or, as viewer, to oneself.
MCFewAsk ==
    {q \in MCAsk : q.kind = "putMember" =>
        q.role \in IF q.caller = q.account THEN {"viewer"}
                   ELSE {"owner", "editor", "admin"}}

\* Nobody is demoted, and nobody asks for a second archive.
MCAskOwnersOnly ==
    {q \in MCAsk : \/ q.kind \in {"getMe", "removeMember"}
                   \/ (q.kind = "putMember" /\ q.role = "owner")}

Symmetry ==
    {p @@ q : p \in Permutations(MCRequest), q \in Permutations(MCAccountId)}
=============================================================================
