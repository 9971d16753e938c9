------------------------------ MODULE MCItemStore ------------------------------
(***************************************************************************)
(* A small item type for TLC: a slot `page' for an image or a PDF and a    *)
(* slot `audio', as in the manifests document.yaml and cd.yaml, with room  *)
(* for one file each or for two.                                           *)
(***************************************************************************)
EXTENDS ItemStore

CONSTANTS r1, r2, r3, r4, f1, f2

MCRequest == {r1, r2, r3, r4}
MCFileId == {f1, f2}
MCSlotOf == [x \in Role |-> IF x \in SlotId THEN x ELSE NoSlot]
MCSlotMin == [s \in SlotId |-> 0]
MCSlotMax == [s \in SlotId |-> 1]
MCRoomySlotMax == [s \in SlotId |-> 2]
MCMaxSizeBytes == [s \in SlotId |-> 0]
MCAccepts == [s \in SlotId |-> IF s = "page" THEN {"image", "pdf"} ELSE {"audio"}]
MCPrefer == <<"page">>

Page(f) == [id |-> f, role |-> "page", family |-> "image", size |-> 1]

PatchOf(t, d, c) == [kind |-> "patch", title |-> t, date |-> d, coverFileId |-> c]
Attach(file) == [kind |-> "attach", file |-> file]
Detach(f) == [kind |-> "detach", fileId |-> f]

\* Two uploads compete for the one place that `page' has, and a patch clears
\* the date and chooses the cover.
MCMutation ==
    {PatchOf("t2", Cleared, f1), Attach(Page(f1)), Attach(Page(f2)), Detach(f1)}

MCCreation == {[title |-> "t1", date |-> "d1"], [title |-> Blank, date |-> NoDate]}

\* A mutation of every kind, for the runs with fewer requests.
MCFewRequests == {r1, r2, r3}
MCFewMutations ==
    {PatchOf("t2", Absent, f1), Attach(Page(f1)), Detach(f1),
     [kind |-> "reorder", order |-> <<f1>>]}

\* What it takes for a copy of an item's first life to meet its second.
MCRebirthMutations == {PatchOf("t2", Absent, Absent), Attach(Page(f1))}

Symmetry == Permutations(MCRequest)
=============================================================================
