------------------------------ MODULE ItemDomain ------------------------------
(***************************************************************************)
(* The pure rules of one archive item (internal/domain): what a stored     *)
(* item looks like, what each mutation does to it in memory, what Validate *)
(* refuses, and the fields Normalize derives before every save.            *)
(*                                                                         *)
(* The item's type is one manifest of internal/domain/itemtypes, given by  *)
(* the constants SlotId .. Prefer.  Title stands for all the metadata a    *)
(* patch may not clear, Date for all it may.                               *)
(***************************************************************************)
EXTENDS SequencesExt

CONSTANTS
    FileId,         \* ids minted by createUploadURL
    NoFile,         \* the empty cover id
    Title, Blank,   \* titles; Blank is the one Validate refuses
    Date, NoDate,   \* dates a caller may send; NoDate is nil
    ValidDate,      \* the dates ArchiveDate.Validate lets through
    Role,           \* the role strings a file may carry
    SlotId, NoSlot, \* the slots the type declares, by id
    SlotOf,         \* slotsByID: role -> slot, renamedFrom aliases included
    SlotMin, SlotMax, MaxSizeBytes, Accepts,
    Prefer          \* cover.prefer

Absent == "absent"      \* a PATCH field that is not in the body
Cleared == "cleared"    \* a PATCH field that is null

Family == {"image", "pdf", "audio", "video", "model3d"}
Unsupported == "unsupported"     \* a content type no family claims
Renderable == {"image", "pdf"}

(***************************************************************************)
(* What Load checks of a manifest before the server starts.                *)
(***************************************************************************)
ManifestIsSound ==
    /\ SlotId \subseteq Role
    /\ SlotOf \in [Role -> SlotId \cup {NoSlot}]
    /\ SlotMin \in [SlotId -> Nat]
    /\ SlotMax \in [SlotId -> Nat]
    /\ MaxSizeBytes \in [SlotId -> Nat]
    /\ Accepts \in [SlotId -> SUBSET Family]
    /\ \A s \in SlotId : /\ SlotOf[s] = s
                       /\ SlotMax[s] >= 1
                       /\ SlotMin[s] <= SlotMax[s]
                       /\ Accepts[s] # {}
    /\ Prefer \in Seq(Role)
    /\ Prefer # <<>>
    /\ \A i \in DOMAIN Prefer :
          /\ SlotOf[Prefer[i]] \in SlotId
          /\ Accepts[SlotOf[Prefer[i]]] \cap Renderable # {}

ASSUME ManifestAssumption == ManifestIsSound
ASSUME ValidDateAssumption == ValidDate \subseteq Date
ASSUME SentinelAssumption ==
    /\ NoFile \notin FileId
    /\ NoSlot \notin Role
    /\ NoDate \notin Date
    /\ {Absent, Cleared} \cap (Title \cup {Blank} \cup Date \cup FileId) = {}

File == [id : FileId, role : Role, family : Family \cup {Unsupported},
         size : Nat]

(***************************************************************************)
(* ItemCard and Item.  coverContentType stands for the whole denormalised  *)
(* copy of the cover file (key, content type, width, height).              *)
(***************************************************************************)
Item == [version : Nat,
         title : Title \cup {Blank},
         date : Date \cup {NoDate},
         files : Seq(File),
         capabilities : SUBSET Family,
         coverFileId : FileId \cup {NoFile},
         coverContentType : Family \cup {Unsupported, NoFile},
         coverPinned : BOOLEAN,
         fileCount : Nat]

FileIds(item) == {item.files[i].id : i \in DOMAIN item.files}

DistinctFiles(files) ==
    \A i, j \in DOMAIN files : files[i].id = files[j].id => i = j

\* The position of the first file with this id, 0 when there is none.
PositionOf(fileId, files) == SelectInSeq(files, LAMBDA f : f.id = fileId)

-----------------------------------------------------------------------------
(***************************************************************************)
(* Validate.                                                               *)
(***************************************************************************)
FilesFilling(files, slot) == {i \in DOMAIN files : SlotOf[files[i].role] = slot}

FileFits(file) ==
    LET slot == SlotOf[file.role]
    IN /\ slot # NoSlot
       /\ file.family \in Accepts[slot]
       /\ MaxSizeBytes[slot] > 0 => file.size <= MaxSizeBytes[slot]

ValidFiles(files) ==
    /\ \A i \in DOMAIN files : FileFits(files[i])
    /\ \A s \in SlotId :
          Cardinality(FilesFilling(files, s)) \in SlotMin[s]..SlotMax[s]

Validate(item) ==
    /\ item.title # Blank
    /\ item.date \in ValidDate \cup {NoDate}
    /\ ValidFiles(item.files)

-----------------------------------------------------------------------------
(***************************************************************************)
(* Normalize: the derived fields.                                          *)
(***************************************************************************)
DeriveCapabilities(files) ==
    {files[i].family : i \in DOMAIN files} \cap Family

\* The files of one preferred slot that can be rendered.  The role is
\* compared as stored: an alias is not resolved here.
CoverCandidates(role, files) ==
    {i \in DOMAIN files : files[i].role = role /\ files[i].family \in Renderable}

CoverPreferences(files) ==
    {p \in DOMAIN Prefer : CoverCandidates(Prefer[p], files) # {}}

\* findCover: the position of the cover in the item's files, 0 when none.
FindCover(item) ==
    LET pinnedAt == PositionOf(item.coverFileId, item.files)
    IN IF item.coverPinned /\ pinnedAt # 0
       THEN pinnedAt
       ELSE IF CoverPreferences(item.files) = {}
            THEN 0
            ELSE Min(CoverCandidates(Prefer[Min(CoverPreferences(item.files))],
                                     item.files))

DeriveCover(item) ==
    LET at == FindCover(item)
    IN IF at = 0
       THEN [item EXCEPT !.coverFileId = NoFile,
                         !.coverContentType = NoFile,
                         !.coverPinned = FALSE]
       ELSE [item EXCEPT !.coverFileId = item.files[at].id,
                         !.coverContentType = item.files[at].family]

\* Mutant: a cover derived earlier is kept as it is.
NormalizeKeepingCover(item) ==
    [(IF item.coverFileId = NoFile THEN DeriveCover(item) ELSE item) EXCEPT
        !.capabilities = DeriveCapabilities(item.files),
        !.fileCount = Len(item.files)]

Normalize(item) ==
    [DeriveCover(item) EXCEPT
        !.capabilities = DeriveCapabilities(item.files),
        !.fileCount = Len(item.files)]

-----------------------------------------------------------------------------
(***************************************************************************)
(* The mutations of an item in memory.                                     *)
(***************************************************************************)
PatchOp == [kind : {"patch"},
            title : Title \cup {Blank, Absent},
            date : Date \cup {Absent, Cleared},
            coverFileId : FileId \cup {Absent, Cleared}]
AttachOp == [kind : {"attach"}, file : File]
DetachOp == [kind : {"detach"}, fileId : FileId]
ReorderOp == [kind : {"reorder"}, order : Seq(FileId)]
MutationOp == PatchOp \cup AttachOp \cup DetachOp \cup ReorderOp

\* ItemPatch.Apply: an absent field is left alone, null clears it, and a
\* cover that is set is pinned.
ApplyPatch(patch, item) ==
    [item EXCEPT
        !.title = IF patch.title = Absent THEN @ ELSE patch.title,
        !.date = IF patch.date = Absent THEN @
                 ELSE IF patch.date = Cleared THEN NoDate ELSE patch.date,
        !.coverFileId = IF patch.coverFileId = Absent THEN @
                        ELSE IF patch.coverFileId = Cleared THEN NoFile
                        ELSE patch.coverFileId,
        !.coverPinned = IF patch.coverFileId = Absent THEN @
                        ELSE patch.coverFileId # Cleared]

AppendAlways(file, item) ==                                   \* mutant
    [item EXCEPT !.files = Append(@, file)]

\* AppendFile: confirming the same upload twice adds nothing.
AppendFile(file, item) ==
    IF file.id \in FileIds(item)
    THEN item
    ELSE [item EXCEPT !.files = Append(@, file)]

DeleteFile(fileId, item) ==
    [item EXCEPT !.files = RemoveAt(@, PositionOf(fileId, @))]

\* ReorderFiles accepts exactly the permutations of the item's file ids.
IsReordering(order, item) ==
    /\ Len(order) = Len(item.files)
    /\ \A i, j \in DOMAIN order : i # j => order[i] # order[j]
    /\ \A i \in DOMAIN order : order[i] \in FileIds(item)

ReorderFiles(order, item) ==
    [item EXCEPT !.files =
        [i \in DOMAIN order |-> item.files[PositionOf(order[i], item.files)]]]

\* What the mutate callback itself refuses.
Refusal(op, item) ==
    CASE op.kind = "detach" /\ op.fileId \notin FileIds(item) -> "notFound"
      [] op.kind = "reorder" /\ ~IsReordering(op.order, item) -> "badRequest"
      [] OTHER -> "none"

Mutate(op, item) ==
    CASE op.kind = "patch" -> ApplyPatch(op, item)
      [] op.kind = "attach" -> AppendFile(op.file, item)
      [] op.kind = "detach" -> DeleteFile(op.fileId, item)
      [] op.kind = "reorder" -> ReorderFiles(op.order, item)

\* The record the store saves for op on item, and whether it may be saved.
Mutated(op, item) == [Mutate(op, item) EXCEPT !.version = item.version + 1]
Accepted(op, item) == Refusal(op, item) = "none" /\ Validate(Mutated(op, item))
Saved(op, item) == Normalize(Mutated(op, item))

\* CreateItem's record: no files, version 1.
NewItem(content) ==
    [version |-> 1, title |-> content.title, date |-> content.date,
     files |-> <<>>, capabilities |-> {}, coverFileId |-> NoFile,
     coverContentType |-> NoFile, coverPinned |-> FALSE, fileCount |-> 0]

\* What every saved item is meant to be: within its manifest, no upload
\* twice, its cover one of its own files, its capabilities those it holds.
IsSound(item) ==
    /\ Validate(item)
    /\ DistinctFiles(item.files)
    /\ item.coverFileId \in FileIds(item) \cup {NoFile}
    /\ item.coverPinned => item.coverFileId # NoFile
    /\ item.capabilities = DeriveCapabilities(item.files)
=============================================================================
