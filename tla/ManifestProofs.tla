---------------------------- MODULE ManifestProofs ----------------------------
(***************************************************************************)
(* One item, two accounts of it.  ItemDomain and ItemStore keep its files  *)
(* as a list and its manifest as a few functions; Uploads keeps them as a  *)
(* set and its type as the catalogue's record.  For any type that Load     *)
(* lets through, the record gives ItemDomain a sound manifest, both        *)
(* accounts validate alike, and what Uploads does to the set is what a     *)
(* mutation does to the list: what is proved of either model is about the  *)
(* other's item too.                                                       *)
(***************************************************************************)
EXTENDS UploadsProofs

CONSTANTS
    Chosen,     \* the item's type, any of the catalogue's
    NoId, Title, Blank, Date, NoDate, ValidDate, NoSlot

\* ItemDomain, and its lemmas, with the functions slotsByID makes of a type.
Domain == INSTANCE ItemDomainProofs WITH
    FileId <- Upload, NoFile <- NoId, Role <- STRING,
    SlotId <- SlotIds(Chosen),
    SlotOf <- [role \in STRING |->
                  IF HasSlot(Chosen, role) THEN Slot(Chosen, role).id ELSE NoSlot],
    SlotMin <- [id \in SlotIds(Chosen) |-> Slot(Chosen, id).min],
    SlotMax <- [id \in SlotIds(Chosen) |-> Slot(Chosen, id).max],
    MaxSizeBytes <- [id \in SlotIds(Chosen) |-> Slot(Chosen, id).maxSizeBytes],
    Accepts <- [id \in SlotIds(Chosen) |-> Slot(Chosen, id).accepts],
    Prefer <- Chosen.prefer

-----------------------------------------------------------------------------
\* A slot is found by its own id.
LEMMA SlotById ==
    ASSUME Sound(Chosen), NEW i \in DOMAIN Chosen.slots
    PROVE  /\ Chosen.slots[i].id \in STRING
           /\ HasSlot(Chosen, Chosen.slots[i].id)
           /\ Slot(Chosen, Chosen.slots[i].id) = Chosen.slots[i]
<1>1. /\ Chosen.slots[i].id \in STRING
      /\ Chosen.slots[i].id \in Range(Names(Chosen.slots[i]))
  BY SoundTypes
<1> QED BY <1>1, SlotOfName

\* What Load checks of a type (manifest.validate) is all that ItemDomain
\* assumes of a manifest: its ManifestAssumption holds for every item type.
THEOREM ManifestIsMet ==
    ASSUME Sound(Chosen)
    PROVE  Domain!ManifestIsSound
<1> DEFINE Known == SlotIds(Chosen)
           S(id) == Slot(Chosen, id)
           Of == [role \in STRING |->
                     IF HasSlot(Chosen, role) THEN Slot(Chosen, role).id ELSE NoSlot]
<1>1. ASSUME NEW id \in Known
      PROVE  /\ id \in STRING /\ HasSlot(Chosen, id)
             /\ S(id).id = id
             /\ S(id).min \in Nat /\ S(id).max \in Nat /\ S(id).maxSizeBytes \in Nat
             /\ S(id).accepts \in SUBSET Domain!Family /\ S(id).accepts # {}
             /\ S(id).max >= 1 /\ S(id).min <= S(id).max
  <2>1. PICK i \in DOMAIN Chosen.slots : id = Chosen.slots[i].id
    BY DEF SlotIds
  <2>2. S(id) = Chosen.slots[i] /\ id \in STRING /\ HasSlot(Chosen, id)
    BY <2>1, SlotById
  <2>3. SoundSlot(Chosen.slots[i])
    BY DEF Sound, Validate
  <2>4. /\ Chosen.slots[i].max \in Nat /\ Chosen.slots[i].min \in Nat
        /\ Chosen.slots[i].maxSizeBytes \in Nat
    BY SoundTypes
  <2>5. /\ Chosen.slots[i].accepts \subseteq Domain!Family
        /\ Chosen.slots[i].accepts # {}
        /\ Chosen.slots[i].max >= 1
        /\ Chosen.slots[i].min <= Chosen.slots[i].max
    <3>1. PICK slot : slot = Chosen.slots[i]
      OBVIOUS
    <3>2. slot.accepts # {} /\ slot.accepts \subseteq Domain!Family
      BY <2>3, <3>1 DEF SoundSlot, Families, Domain!Family
    <3>3. slot.max >= 1 /\ slot.min \in 0..slot.max
      BY <2>3, <3>1 DEF SoundSlot
    <3>4. slot.max \in Nat
      BY <2>4, <3>1
    <3> QED BY <3>1, <3>2, <3>3, <3>4
  <2> QED BY <2>1, <2>2, <2>4, <2>5
<1>2. ASSUME NEW role, HasSlot(Chosen, role)
      PROVE  S(role).id \in Known
  <2>1. PICK i \in DOMAIN Chosen.slots : S(role) = Chosen.slots[i]
    BY <1>2, SlotHasName
  <2> QED BY <2>1 DEF SlotIds
<1>3. \A role \in STRING : Of[role] \in Known \cup {NoSlot}
  BY <1>2
<1>4. Chosen.prefer \in Seq(STRING) /\ Chosen.prefer # <<>>
  BY DEF Sound, Validate, Manifest
<1>5. ASSUME NEW k \in DOMAIN Chosen.prefer
      PROVE  /\ Chosen.prefer[k] \in STRING
             /\ Of[Chosen.prefer[k]] \in Known
             /\ S(Of[Chosen.prefer[k]]).accepts \cap Domain!Renderable # {}
  <2>1. PICK role : role = Chosen.prefer[k]
    OBVIOUS
  <2>2. role \in STRING
    BY <1>4, <2>1
  <2>3. SoundPreference(Chosen, role)
    BY <2>1 DEF Sound, Validate
  <2>4. HasSlot(Chosen, role) /\ S(role).accepts \cap Domain!Renderable # {}
    BY <2>3 DEF SoundPreference, Domain!Renderable
  <2>5. Of[role] = S(role).id
    BY <2>2, <2>4
  <2>6. PICK i \in DOMAIN Chosen.slots : S(role) = Chosen.slots[i]
    BY <2>4, SlotHasName
  <2>7. S(S(role).id) = S(role)
    BY <2>6, SlotById
  <2> QED BY <1>2, <2>1, <2>2, <2>4, <2>5, <2>7
<1> HIDE DEF S
<1>6. /\ Known \subseteq STRING
      /\ Of \in [STRING -> Known \cup {NoSlot}]
      /\ [id \in Known |-> S(id).min] \in [Known -> Nat]
      /\ [id \in Known |-> S(id).max] \in [Known -> Nat]
      /\ [id \in Known |-> S(id).maxSizeBytes] \in [Known -> Nat]
      /\ [id \in Known |-> S(id).accepts] \in [Known -> SUBSET Domain!Family]
  BY <1>1, <1>3
<1>7. \A id \in Known : Of[id] = id
  BY <1>1 DEF S
<1> HIDE DEF Of
<1> QED BY <1>1, <1>4, <1>5, <1>6, <1>7 DEF Domain!ManifestIsSound, S, Of

-----------------------------------------------------------------------------
\* One file fits alike.
LEMMA SameFileFits ==
    ASSUME Sound(Chosen), NoSlot \notin STRING, NEW f \in File
    PROVE  Domain!FileFits(f) <=> FileFits(Chosen, f)
<1>1. PICK role \in STRING : role = f.role
  BY DEF File
<1>2. CASE ~HasSlot(Chosen, role)
  BY <1>1, <1>2 DEF Domain!FileFits, FileFits
<1>3. CASE HasSlot(Chosen, role)
  <2>1. PICK i \in DOMAIN Chosen.slots : Slot(Chosen, role) = Chosen.slots[i]
    BY <1>3, SlotHasName
  <2>2. PICK id \in STRING : /\ id = Slot(Chosen, role).id
                             /\ Slot(Chosen, id) = Slot(Chosen, role)
                             /\ id \in SlotIds(Chosen)
    BY <2>1, SlotById DEF SlotIds
  <2>3. id # NoSlot
    OBVIOUS
  <2> QED BY <1>1, <1>3, <2>2, <2>3 DEF Domain!FileFits, FileFits
<1> QED BY <1>2, <1>3

\* The files of a list.
FilesOf(list) == {list[k] : k \in DOMAIN list}

\* Counting the places of a list that fill a slot, as ItemDomain does, is
\* counting the files that do, as ItemTypes does, since no file is listed twice.
LEMMA SameFilling ==
    ASSUME Sound(Chosen), NoSlot \notin STRING, NEW list \in Seq(File),
           Domain!DistinctFiles(list), NEW i \in DOMAIN Chosen.slots
    PROVE  Cardinality(Domain!FilesFilling(list, Chosen.slots[i].id))
             = Cardinality(Filling(Chosen, FilesOf(list), Chosen.slots[i]))
<1> DEFINE id == Chosen.slots[i].id
           At == Domain!FilesFilling(list, id)
           Fs == Filling(Chosen, FilesOf(list), Chosen.slots[i])
           f == [k \in At |-> list[k]]
<1>1. id \in STRING
  BY SlotById
<1>2. \A k \in DOMAIN list : list[k] \in File /\ list[k].role \in STRING
  <2>1. \A g \in File : g.role \in STRING
    BY DEF File
  <2>2. \A k \in DOMAIN list : list[k] \in File
    OBVIOUS
  <2> QED BY <2>1, <2>2
<1>3. At = {k \in DOMAIN list : HasSlot(Chosen, list[k].role)
                                /\ Slot(Chosen, list[k].role).id = id}
  BY <1>1, <1>2 DEF Domain!FilesFilling
<1>4. Fs = {g \in FilesOf(list) : HasSlot(Chosen, g.role)
                                /\ Slot(Chosen, g.role).id = id}
  BY DEF Filling
<1> HIDE DEF At, Fs, id
<1>5. IsFiniteSet(At)
  <2>1. DOMAIN list = 1..Len(list) /\ Len(list) \in Nat
    OBVIOUS
  <2>2. IsFiniteSet(1..Len(list))
    BY <2>1, FS_Interval
  <2> QED BY <1>3, <2>1, <2>2, FS_Subset
<1>6. f \in [At -> Fs]
  BY <1>3, <1>4 DEF FilesOf
<1>7. \A k, l \in At : f[k] = f[l] => k = l
  BY <1>3 DEF Domain!DistinctFiles
<1>8. \A g \in Fs : \E k \in At : f[k] = g
  BY <1>3, <1>4 DEF FilesOf
<1>9. f \in Bijection(At, Fs)
  BY <1>6, <1>7, <1>8 DEF Bijection, Injection, Surjection, IsInjective
<1>10. ExistsBijection(At, Fs)
  BY <1>9 DEF ExistsBijection
<1>11. Cardinality(Fs) = Cardinality(At)
  BY <1>5, <1>10, FS_Bijection
<1> QED BY <1>11 DEF At, Fs, id

\* ItemDomain's instance has a Cardinality of its own.
LEMMA SameCardinality ==
    ASSUME NEW S PROVE Domain!Cardinality(S) = Cardinality(S)
  BY DEF Domain!Cardinality, Cardinality

\* The two accounts of validateFiles, of a list and of a set, agree on every
\* list in which no file is twice.
THEOREM SameValidation ==
    ASSUME Sound(Chosen), NoSlot \notin STRING, NEW list \in Seq(File),
           Domain!DistinctFiles(list)
    PROVE  Domain!ValidFiles(list) <=> ValidateFiles(Chosen, FilesOf(list))
<1>1. \A k \in DOMAIN list : list[k] \in File
  OBVIOUS
<1>2. (\A k \in DOMAIN list : Domain!FileFits(list[k]))
        <=> \A f \in FilesOf(list) : FileFits(Chosen, f)
  BY <1>1, SameFileFits DEF FilesOf
<1>3. ASSUME NEW i \in DOMAIN Chosen.slots
      PROVE  /\ Chosen.slots[i].id \in SlotIds(Chosen)
             /\ Slot(Chosen, Chosen.slots[i].id) = Chosen.slots[i]
             /\ Cardinality(Domain!FilesFilling(list, Chosen.slots[i].id))
                  = Cardinality(Filling(Chosen, FilesOf(list), Chosen.slots[i]))
  BY SlotById, SameFilling DEF SlotIds
<1>4. (\A s \in SlotIds(Chosen) :
          Cardinality(Domain!FilesFilling(list, s))
              \in Slot(Chosen, s).min .. Slot(Chosen, s).max)
        <=> \A i \in DOMAIN Chosen.slots :
                Cardinality(Filling(Chosen, FilesOf(list), Chosen.slots[i]))
                    \in Chosen.slots[i].min .. Chosen.slots[i].max
  <2>1. \A s \in SlotIds(Chosen) : \E i \in DOMAIN Chosen.slots : s = Chosen.slots[i].id
    BY DEF SlotIds
  <2> QED BY <1>3, <2>1
<1>5. Domain!ValidFiles(list)
        <=> /\ \A k \in DOMAIN list : Domain!FileFits(list[k])
            /\ \A s \in SlotIds(Chosen) :
                  Cardinality(Domain!FilesFilling(list, s))
                      \in Slot(Chosen, s).min .. Slot(Chosen, s).max
  BY SameCardinality DEF Domain!ValidFiles
<1>6. ValidateFiles(Chosen, FilesOf(list))
        <=> /\ \A f \in FilesOf(list) : FileFits(Chosen, f)
            /\ \A i \in DOMAIN Chosen.slots :
                  Cardinality(Filling(Chosen, FilesOf(list), Chosen.slots[i]))
                      \in Chosen.slots[i].min .. Chosen.slots[i].max
  BY DEF ValidateFiles
<1> QED BY <1>2, <1>4, <1>5, <1>6

-----------------------------------------------------------------------------
\* What ItemDomain assumes of the constants that are no part of the type.
Setting ==
    /\ Sound(Chosen)
    /\ ValidDate \subseteq Date
    /\ NoId \notin Upload /\ NoSlot \notin STRING /\ NoDate \notin Date
    /\ {"absent", "cleared"} \cap (Title \cup {Blank} \cup Date \cup Upload) = {}

\* A stored item, its metadata valid, that holds the files fs, none twice.
Holds(item, fs) ==
    /\ item \in Domain!Item
    /\ item.title # Blank
    /\ item.date \in ValidDate \cup {NoDate}
    /\ Domain!DistinctFiles(item.files)
    /\ FilesOf(item.files) = fs

\* A mutation of an item that touches only its files is saved exactly when the
\* files it leaves are valid, and what is saved holds them.
LEMMA FilesOnly ==
    ASSUME Setting, NEW fs, NEW item, Holds(item, fs),
           NEW op \in Domain!AttachOp \cup Domain!DetachOp,
           Domain!Refusal(op, item) = "none"
    PROVE  LET left == FilesOf(Domain!Mutate(op, item).files)
           IN  /\ Domain!Accepted(op, item) <=> ValidateFiles(Chosen, left)
               /\ Domain!Accepted(op, item) => Holds(Domain!Saved(op, item), left)
<1> DEFINE new == Domain!Mutated(op, item)
           left == FilesOf(Domain!Mutate(op, item).files)
<1>1. Domain!ManifestIsSound
  BY ManifestIsMet DEF Setting
<1>2. item \in Domain!Item /\ op \in Domain!MutationOp
  BY DEF Holds, Domain!MutationOp
<1>3. /\ Domain!Mutate(op, item) \in Domain!Item
      /\ Domain!DistinctFiles(Domain!Mutate(op, item).files)
  BY <1>1, <1>2, Domain!MutateYieldsItem, Domain!MutateKeepsFilesDistinct
     DEF Setting, Holds, Domain!Absent, Domain!Cleared
<1>4. /\ Domain!Mutate(op, item).title = item.title
      /\ Domain!Mutate(op, item).date = item.date
  BY <1>2 DEF Domain!Mutate, Domain!AttachOp, Domain!DetachOp, Domain!AppendFile,
              Domain!DeleteFile, Domain!Item
<1>5. /\ new \in Domain!Item
      /\ new.files = Domain!Mutate(op, item).files
      /\ new.title = item.title /\ new.date = item.date
  <2>1. item.version + 1 \in Nat
    BY <1>2 DEF Domain!Item
  <2> QED  BY <1>3, <1>4, <2>1 DEF Domain!Item, Domain!Mutated
<1> HIDE DEF new
<1>6. new.files \in Seq(File)
  BY <1>5 DEF Domain!Item, Domain!File, File, Families, Domain!Family,
              Unsupported, Domain!Unsupported
<1>7. Domain!ValidFiles(new.files) <=> ValidateFiles(Chosen, left)
  BY <1>3, <1>5, <1>6, SameValidation DEF Setting
<1>8. Domain!Accepted(op, item) <=> ValidateFiles(Chosen, left)
  BY <1>5, <1>7 DEF Domain!Accepted, Domain!Validate, Holds, new
<1>9. /\ Domain!Saved(op, item).title = new.title
      /\ Domain!Saved(op, item).date = new.date
      /\ Domain!Saved(op, item).files = new.files
      /\ Domain!Saved(op, item) \in Domain!Item
  BY <1>1, <1>5, Domain!NormalizeDerives
     DEF Setting, Domain!Saved, new, Domain!Absent, Domain!Cleared
<1>10. Holds(Domain!Saved(op, item), left)
  BY <1>3, <1>5, <1>9 DEF Holds
<1> QED  BY <1>8, <1>10

\* attachFile: what Uploads does to a set of files with one confirmation is
\* what ItemDomain's AppendFile, validation and save do to the item.
THEOREM AttachFileIsAMutation ==
    ASSUME Setting, TypeOK, NEW item, Holds(item, files), files # Gone,
           NEW u \in Upload, file[u] \in File, NEW release,
           Type(release) = Chosen, AttachFile(u, release)
    PROVE  LET op == [kind |-> "attach", file |-> file[u]]
           IN  IF Domain!Accepted(op, item)
               THEN Holds(Domain!Saved(op, item), files')
               ELSE files' = files
<1> DEFINE op == [kind |-> "attach", file |-> file[u]]
<1>1. op \in Domain!AttachOp /\ Domain!Refusal(op, item) = "none"
  BY DEF Domain!AttachOp, Domain!File, File, Families, Domain!Family,
         Unsupported, Domain!Unsupported, Domain!Refusal
<1>2. file[u].id = u
  BY UploadsAssumption DEF TypeOK
<1>3. FilesOf(Domain!Mutate(op, item).files) = Appended(u)
  <2>1. /\ Domain!FilesIn(Domain!Mutate(op, item)) =
              IF op.file.id \in Domain!FileIds(item) THEN Domain!FilesIn(item)
              ELSE Domain!FilesIn(item) \cup {op.file}
    BY <1>1, ManifestIsMet, Domain!MutateKeepsOtherFiles
       DEF Setting, Holds, Domain!AttachOp, Domain!MutationOp, Domain!Absent, Domain!Cleared
  <2>2. Domain!FilesIn(item) = files
    BY DEF Holds, Domain!FilesIn, FilesOf
  <2>3. Domain!FileIds(item) = Ids(files)
    BY <2>2 DEF Domain!FilesIn, Domain!FileIds, Ids
  <2>4. Domain!FilesIn(Domain!Mutate(op, item)) = FilesOf(Domain!Mutate(op, item).files)
    BY DEF Domain!FilesIn, FilesOf
  <2> QED  BY <1>2, <2>1, <2>2, <2>3, <2>4 DEF Appended
<1>4. AttachOutcome(u, release) = "ok" <=> ValidateFiles(Chosen, Appended(u))
  BY DEF AttachOutcome
<1>5. files' = IF AttachOutcome(u, release) = "ok" THEN Appended(u) ELSE files
  BY DEF AttachFile
<1> HIDE DEF op
<1>6. /\ Domain!Accepted(op, item) <=> ValidateFiles(Chosen, Appended(u))
      /\ Domain!Accepted(op, item) => Holds(Domain!Saved(op, item), Appended(u))
  BY <1>1, <1>3, FilesOnly
<1> QED  BY <1>4, <1>5, <1>6 DEF op

\* deleteFile: the same of a file taken off the item.
THEOREM DeleteFileIsAMutation ==
    ASSUME Setting, NEW item, Holds(item, files), NEW u \in Upload,
           NEW release, Type(release) = Chosen, DeleteFile(u, release)
    PROVE  LET op == [kind |-> "detach", fileId |-> u]
           IN  Domain!Accepted(op, item) /\ Holds(Domain!Saved(op, item), files')
<1> DEFINE op == [kind |-> "detach", fileId |-> u]
<1>1. Domain!FilesIn(item) = files
  BY DEF Holds, Domain!FilesIn, FilesOf
<1>2. Domain!FileIds(item) = Ids(files)
  BY <1>1 DEF Domain!FilesIn, Domain!FileIds, Ids
<1>3. op \in Domain!DetachOp /\ Domain!Refusal(op, item) = "none"
  BY <1>2 DEF Domain!DetachOp, Domain!Refusal, DeleteFile
<1>4. FilesOf(Domain!Mutate(op, item).files) = Detached(u)
  <2>1. Domain!FilesIn(Domain!Mutate(op, item)) =
           {f \in Domain!FilesIn(item) : f.id # op.fileId}
    BY <1>3, ManifestIsMet, Domain!MutateKeepsOtherFiles
       DEF Setting, Holds, Domain!DetachOp, Domain!MutationOp, Domain!Absent, Domain!Cleared
  <2>2. Domain!FilesIn(Domain!Mutate(op, item)) = FilesOf(Domain!Mutate(op, item).files)
    BY DEF Domain!FilesIn, FilesOf
  <2> QED  BY <1>1, <2>1, <2>2 DEF Detached
<1>5. ValidateFiles(Chosen, Detached(u)) /\ files' = Detached(u)
  BY DEF DeleteFile
<1> HIDE DEF op
<1> QED  BY <1>3, <1>4, <1>5, FilesOnly DEF op
====
