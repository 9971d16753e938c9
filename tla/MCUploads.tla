------------------------------ MODULE MCUploads ------------------------------
(***************************************************************************)
(* A type whose slot is renamed twice and gains a neighbour and an         *)
(* attribute on the way, and the releases that must not start.             *)
(***************************************************************************)
EXTENDS Uploads, TLC

MCSlot(id, accepts, max, former) ==
    [id |-> id, label |-> "l", accepts |-> accepts, min |-> 0, max |-> max,
     maxSizeBytes |-> 0, renamedFrom |-> former]
MCView(primitive, slots) == [primitive |-> primitive, slots |-> slots]
MCType(slots, views) ==
    [id |-> "photo", label |-> "l", version |-> 1, slots |-> slots,
     attributes |-> <<>>, prefer |-> <<slots[1].id>>, presentation |-> views]

MCMemo == [MCSlot("memo", {"audio"}, 1, <<>>) EXCEPT !.maxSizeBytes = 1]
MCPhoto == MCType(<<MCSlot("front", {"image"}, 1, <<>>)>>,
                  <<MCView("single-image", <<"front">>)>>)
MCRenamed == MCType(<<MCSlot("face", {"image"}, 1, <<"front">>), MCMemo>>,
                    <<MCView("single-image", <<"face">>), MCView("audio", <<"memo">>)>>)
MCDated == [MCRenamed EXCEPT
    !.attributes = <<[id |-> "year", kind |-> "integer", options |-> {},
                      min |-> 0, max |-> NoBound]>>]
MCAgain == [MCDated EXCEPT
    !.slots = <<MCSlot("side", {"image", "pdf"}, 1, <<"face", "front">>), MCMemo>>,
    !.prefer = <<"face">>,
    !.presentation = <<MCView("single-image", <<"side">>), MCView("audio", <<"memo">>)>>]

MCYear == MCAgain.attributes[1]
MCFirst == {MCPhoto}
MCSound == {MCFirst, {MCRenamed}, {MCAgain, [MCPhoto EXCEPT !.id = "cd"]}}
MCReleaseDated == {MCFirst, {MCRenamed}, {MCDated}}
MCBad ==
    {{}, {MCAgain, Garbled}, {MCAgain, MCRenamed}}
    \cup {{t} : t \in
        {[MCAgain EXCEPT !.id = "Photo"], [MCAgain EXCEPT !.label = ""],
         [MCAgain EXCEPT !.version = 0], [MCAgain EXCEPT !.slots = <<>>],
         [MCAgain EXCEPT !.prefer = <<>>], [MCAgain EXCEPT !.prefer = <<"memo">>],
         [MCAgain EXCEPT !.prefer = <<"back">>],
         [MCAgain EXCEPT !.slots[1].id = "Side"], [MCAgain EXCEPT !.slots[1].label = ""],
         [MCAgain EXCEPT !.slots[1].accepts = {}],
         [MCAgain EXCEPT !.slots[1].accepts = {"image", "text"}],
         [MCAgain EXCEPT !.slots[1].max = 2], [MCAgain EXCEPT !.slots[2].max = 0],
         [MCAgain EXCEPT !.slots[2].min = 2], [MCAgain EXCEPT !.slots[2].maxSizeBytes = -1],
         [MCAgain EXCEPT !.slots[2].renamedFrom = <<"front">>],
         [MCAgain EXCEPT !.attributes[1].id = "Year"],
         [MCAgain EXCEPT !.attributes = <<MCYear, MCYear>>],
         [MCAgain EXCEPT !.attributes[1].kind = "date"],
         [MCAgain EXCEPT !.attributes[1].kind = "boolean"],
         [MCAgain EXCEPT !.attributes[1].options = {"x"}],
         [MCAgain EXCEPT !.attributes[1].max = -1],
         [MCAgain EXCEPT !.presentation = <<>>],
         [MCAgain EXCEPT !.presentation = SubSeq(@, 1, 1)],
         [MCAgain EXCEPT !.presentation = SubSeq(@, 2, 2)],
         [MCAgain EXCEPT !.presentation = @ \o <<MCView("stack", <<"side">>)>>],
         [MCAgain EXCEPT !.presentation[1].slots = <<"face">>],
         [MCAgain EXCEPT !.presentation[1].slots = <<"back">>],
         [MCAgain EXCEPT !.presentation[1].slots = <<>>],
         [MCAgain EXCEPT !.presentation[1].slots = <<"side", "memo">>],
         [MCAgain EXCEPT !.presentation[1].primitive = "flippable"],
         [MCAgain EXCEPT !.presentation[1].primitive = "slide-show"]}}
MCRelease == MCSound \cup MCBad

MCName == {"photo", "cd", "front", "face", "side", "back", "memo", "year"}

MCImage(role) == [role |-> role, family |-> "image", size |-> 2]
MCWish == {MCImage("front"), MCImage("face"), MCImage("memo"),
           [MCImage("side") EXCEPT !.family = Unsupported],
           [role |-> "memo", family |-> "audio", size |-> 1],
           [role |-> "memo", family |-> "audio", size |-> 2]}

MCSymmetry == Permutations(Upload)
=============================================================================
