------------------------------ MODULE ItemTypes ------------------------------
(***************************************************************************)
(* internal/domain/itemtypes: the item types a release of the server was   *)
(* built with, and the rules a catalogue must meet for it to start.        *)
(*                                                                         *)
(* A release is the set of its manifests; in a reply they are ordered by   *)
(* id.  Names stand for slot, type and attribute ids; those outside Name   *)
(* are not lower-case kebab-case.                                          *)
(***************************************************************************)
EXTENDS Integers, Sequences, FiniteSets, Functions

CONSTANTS
    Name,
    Garbled,    \* a manifest that is not YAML, or has a key nobody knows
    NoBound     \* an attribute's min or max that is not given

Families == {"image", "audio", "video", "pdf", "model3d"}
Unsupported == "unsupported"    \* the family of any other content type

OneFace == {"single-image", "video", "model3d"}
Primitives == OneFace \cup {"flippable", "paged", "stack", "audio", "pdf"}
AttrKinds == {"string", "integer", "number", "boolean", "enum"}

\* A slot's id and its former ones; the keys of slotsByID.
Names(slot) == <<slot.id>> \o slot.renamedFrom
IdsAlone(type) == {type.slots[i].id : i \in DOMAIN type.slots}      \* mutant
AllNames(type) == UNION {Range(Names(type.slots[i])) : i \in DOMAIN type.slots}

\* Type.Slot.
HasSlot(type, role) == role \in AllNames(type)
Slot(type, role) == type.slots[CHOOSE i \in DOMAIN type.slots :
    role \in Range(Names(type.slots[i]))]

-----------------------------------------------------------------------------
(***************************************************************************)
(* validate and validatePresentation.                                      *)
(***************************************************************************)
SoundSlot(slot) ==
    /\ slot.id \in Name
    /\ slot.label # ""
    /\ slot.accepts # {} /\ slot.accepts \subseteq Families
    /\ slot.max >= 1
    /\ slot.min \in 0..slot.max
    /\ slot.maxSizeBytes >= 0

NamesAreDistinct(slots) ==
    \A i, j \in DOMAIN slots :
        \A m \in DOMAIN Names(slots[i]), n \in DOMAIN Names(slots[j]) :
            Names(slots[i])[m] = Names(slots[j])[n] => i = j /\ m = n

SoundAttribute(attr) ==
    /\ attr.id \in Name
    /\ attr.kind \in AttrKinds
    /\ attr.kind = "enum" <=> attr.options # {}
    /\ {attr.min, attr.max} # {NoBound} => attr.kind \in {"integer", "number"}
    /\ NoBound \notin {attr.min, attr.max} => attr.min <= attr.max

SoundPreference(type, role) ==
    HasSlot(type, role) /\ Slot(type, role).accepts \cap {"image", "pdf"} # {}

\* What a viewer's structure relies on.
SoundViewer(type, view) ==
    /\ view.primitive \in Primitives
    /\ view.slots # <<>>
    /\ \A k \in DOMAIN view.slots :
          /\ HasSlot(type, view.slots[k])
          /\ Slot(type, view.slots[k]).id = view.slots[k]
    /\ view.primitive \in OneFace => Len(view.slots) = 1
    /\ view.primitive = "flippable" => Len(view.slots) = 2
    /\ view.primitive \in OneFace \cup {"flippable"} =>
          \A k \in DOMAIN view.slots : Slot(type, view.slots[k]).max = 1

Rendered(type) ==
    UNION {Range(type.presentation[n].slots) : n \in DOMAIN type.presentation}

DrawnAtMostOnce(type) ==
    \A m, n \in DOMAIN type.presentation :
        \A k \in DOMAIN type.presentation[m].slots,
           l \in DOMAIN type.presentation[n].slots :
               type.presentation[m].slots[k] = type.presentation[n].slots[l]
               => m = n /\ k = l

ValidatePresentation(type) ==
    /\ type.presentation # <<>>
    /\ \A n \in DOMAIN type.presentation : SoundViewer(type, type.presentation[n])
    /\ DrawnAtMostOnce(type)
    /\ \A i \in DOMAIN type.slots : type.slots[i].id \in Rendered(type)

Validate(type) ==
    /\ type.id \in Name /\ type.label # "" /\ type.version >= 1
    /\ type.slots # <<>>
    /\ \A i \in DOMAIN type.slots : SoundSlot(type.slots[i])
    /\ NamesAreDistinct(type.slots)
    /\ \A i \in DOMAIN type.attributes : SoundAttribute(type.attributes[i])
    /\ \A i, j \in DOMAIN type.attributes :
          type.attributes[i].id = type.attributes[j].id => i = j
    /\ type.prefer # <<>>
    /\ \A i \in DOMAIN type.prefer : SoundPreference(type, type.prefer[i])
    /\ ValidatePresentation(type)

\* Load: the server starts only if all of it is sound.
Loads(release) ==
    /\ release # {}
    /\ Garbled \notin release
    /\ \A type \in release : Validate(type)
    /\ \A s, t \in release : s.id = t.id => s = t

\* Registry.Get.
Knows(release, id) == \E type \in release : type.id = id
Get(release, id) == CHOOSE type \in release : type.id = id

-----------------------------------------------------------------------------
(***************************************************************************)
(* Files and slots.                                                        *)
(***************************************************************************)

\* What createUploadURL and validateFiles both ask of one file.
FileFits(type, file) ==
    /\ HasSlot(type, file.role)
    /\ file.family \in Slot(type, file.role).accepts
    /\ Slot(type, file.role).maxSizeBytes > 0
          => file.size <= Slot(type, file.role).maxSizeBytes

\* Item.FilesInSlot compares the stored role, validateFiles the slot's own id.
FilesInSlot(files, role) == {f \in files : f.role = role}
FilledByRole(type, files, slot) == FilesInSlot(files, slot.id)     \* mutant
Filling(type, files, slot) ==
    {f \in files : HasSlot(type, f.role) /\ Slot(type, f.role).id = slot.id}

ValidateFiles(type, files) ==
    /\ \A f \in files : FileFits(type, f)
    /\ \A i \in DOMAIN type.slots :
          Cardinality(Filling(type, files, type.slots[i]))
              \in type.slots[i].min .. type.slots[i].max
=============================================================================
