---------------------------- MODULE UploadsProofs ----------------------------
(***************************************************************************)
(* For any item types, releases, uploads and clients: what an item stores  *)
(* fits the newest release and is drawn once, objects do not go missing,   *)
(* and clients know of every slot.                                         *)
(*                                                                         *)
(* The argument is about two releases: a compatible one takes every list   *)
(* of files the other would (FilesCarryOver), since a role keeps its slot  *)
(* (CarriedSlot).                                                          *)
(***************************************************************************)
EXTENDS Uploads, FiniteSetTheorems, TLAPS

-----------------------------------------------------------------------------
(***************************************************************************)
(* Slots and their names.                                                  *)
(***************************************************************************)

Sound(type) == type \in Manifest /\ Validate(type)

\* A slot is one of its names.
LEMMA IdIsAName ==
    ASSUME NEW slot, slot.renamedFrom \in Seq(STRING)
    PROVE  slot.id \in Range(Names(slot))
<1> DEFINE s == Names(slot)
<1>1. Len(<<slot.id>>) = 1 /\ <<slot.id>>[1] = slot.id
  OBVIOUS
<1>2. s = <<slot.id>> \o slot.renamedFrom
  BY DEF Names
<1>3. Len(slot.renamedFrom) \in Nat
  BY DEF Names
<1>4. DOMAIN s = 1..(1 + Len(slot.renamedFrom)) /\ s[1] = slot.id
  BY <1>1, <1>2, <1>3
<1>5. 1 \in DOMAIN s
  BY <1>3, <1>4
<1> QED  BY <1>4, <1>5 DEF Range

\* Names are distinct within a type: a role has one slot.
LEMMA OneSlotPerName ==
    ASSUME NEW type, Sound(type),
           NEW i \in DOMAIN type.slots, NEW j \in DOMAIN type.slots, NEW role,
           role \in Range(Names(type.slots[i])), role \in Range(Names(type.slots[j]))
    PROVE  i = j
<1>1. NamesAreDistinct(type.slots)
  BY DEF Sound, Validate
<1>2. PICK m \in DOMAIN Names(type.slots[i]) : Names(type.slots[i])[m] = role
  BY DEF Range
<1>3. PICK n \in DOMAIN Names(type.slots[j]) : Names(type.slots[j])[n] = role
  BY DEF Range
<1> QED  BY <1>1, <1>2, <1>3 DEF NamesAreDistinct

\* The types of a sound type's parts.
LEMMA SoundTypes ==
    ASSUME NEW type, Sound(type), NEW i \in DOMAIN type.slots
    PROVE  /\ type.slots[i].id \in STRING
           /\ type.slots[i].max \in Nat /\ type.slots[i].min \in Nat
           /\ type.slots[i].maxSizeBytes \in Nat
           /\ type.slots[i].renamedFrom \in Seq(STRING)
           /\ type.slots[i].id \in Range(Names(type.slots[i]))
<1>1. type.slots \in Seq(SlotManifest)
  BY DEF Sound, Manifest
<1> DEFINE slot == type.slots[i]
<1>2. slot \in SlotManifest
  BY <1>1
<1>3. SoundSlot(slot)
  BY DEF Sound, Validate
<1> HIDE DEF slot
<1>4. /\ slot.id \in STRING /\ slot.max \in Int /\ slot.min \in Int
      /\ slot.maxSizeBytes \in Int /\ slot.renamedFrom \in Seq(STRING)
  BY <1>2 DEF SlotManifest
<1>5. slot.max >= 1 /\ slot.min \in 0..slot.max /\ slot.maxSizeBytes >= 0
  BY <1>3 DEF SoundSlot
<1>6. slot.max \in Nat /\ slot.min \in Nat /\ slot.maxSizeBytes \in Nat
  BY <1>4, <1>5
<1>7. slot.id \in Range(Names(slot))
  BY <1>4, IdIsAName
<1> QED  BY <1>4, <1>6, <1>7 DEF slot

\* Type.Slot finds the slot that has the role among its names.
LEMMA SlotOfName ==
    ASSUME NEW type, Sound(type), NEW i \in DOMAIN type.slots, NEW role,
           role \in Range(Names(type.slots[i]))
    PROVE  HasSlot(type, role) /\ Slot(type, role) = type.slots[i]
<1>1. HasSlot(type, role)
  BY DEF HasSlot, AllNames
<1>2. \A j \in DOMAIN type.slots : role \in Range(Names(type.slots[j])) => j = i
  BY OneSlotPerName
<1>3. (CHOOSE j \in DOMAIN type.slots : role \in Range(Names(type.slots[j]))) = i
  BY <1>2
<1> QED  BY <1>1, <1>3 DEF Slot

\* What a role resolves to is a slot that bears the role as a name.
LEMMA SlotHasName ==
    ASSUME NEW type, Sound(type), NEW role, HasSlot(type, role)
    PROVE  \E i \in DOMAIN type.slots : /\ role \in Range(Names(type.slots[i]))
                                        /\ Slot(type, role) = type.slots[i]
<1>1. PICK i \in DOMAIN type.slots : role \in Range(Names(type.slots[i]))
  BY DEF HasSlot, AllNames
<1> QED  BY <1>1, SlotOfName

\* Slots are told apart by their ids.
LEMMA IdsAreDistinct ==
    ASSUME NEW type, Sound(type), NEW i \in DOMAIN type.slots, NEW j \in DOMAIN type.slots,
           type.slots[i].id = type.slots[j].id
    PROVE  i = j
<1>1. /\ type.slots[i].id \in Range(Names(type.slots[i]))
      /\ type.slots[j].id \in Range(Names(type.slots[j]))
  BY SoundTypes
<1>2. type.slots[i].id \in Range(Names(type.slots[j]))
  BY <1>1
<1> QED  BY <1>1, <1>2, OneSlotPerName

\* The files of a slot are those with one of its names for a role.
LEMMA FillingByName ==
    ASSUME NEW type, Sound(type), NEW i \in DOMAIN type.slots, NEW fs
    PROVE  Filling(type, fs, type.slots[i])
               = {f \in fs : f.role \in Range(Names(type.slots[i]))}
<1>1. ASSUME NEW f \in fs, HasSlot(type, f.role), Slot(type, f.role).id = type.slots[i].id
      PROVE  f.role \in Range(Names(type.slots[i]))
  <2>1. PICK j \in DOMAIN type.slots : /\ f.role \in Range(Names(type.slots[j]))
                                       /\ Slot(type, f.role) = type.slots[j]
    BY <1>1, SlotHasName
  <2>2. j = i
    BY <1>1, <2>1, IdsAreDistinct
  <2> QED  BY <2>1, <2>2
<1>2. ASSUME NEW f \in fs, f.role \in Range(Names(type.slots[i]))
      PROVE  HasSlot(type, f.role) /\ Slot(type, f.role).id = type.slots[i].id
  BY <1>2, SlotOfName
<1> QED  BY <1>1, <1>2 DEF Filling

-----------------------------------------------------------------------------
(***************************************************************************)
(* Two compatible releases.                                                *)
(***************************************************************************)

\* How the slots of one type are carried on by another.
CarriesOn(carried, old, new) ==
    /\ carried \in [DOMAIN old.slots -> DOMAIN new.slots]
    /\ \A i, j \in DOMAIN old.slots : carried[i] = carried[j] => i = j
    /\ \A i \in DOMAIN old.slots :
          /\ Range(Names(old.slots[i])) \subseteq Range(Names(new.slots[carried[i]]))
          /\ Widened(old.slots[i], new.slots[carried[i]])
    /\ \A j \in DOMAIN new.slots : j \notin Range(carried) => new.slots[j].min = 0

\* A compatible type comes with a map of the old slots to the new.
LEMMA CompatibleCarriesOn ==
    ASSUME NEW old, NEW new, CompatibleType(old, new)
    PROVE  \E carried : CarriesOn(carried, old, new)
<1>1. PICK carried \in Injection(DOMAIN old.slots, DOMAIN new.slots) :
        /\ \A i \in DOMAIN old.slots :
              /\ Range(Names(old.slots[i])) \subseteq Range(Names(new.slots[carried[i]]))
              /\ Widened(old.slots[i], new.slots[carried[i]])
        /\ \A j \in DOMAIN new.slots \ Range(carried) : new.slots[j].min = 0
  BY DEF CompatibleType
<1>2. /\ carried \in [DOMAIN old.slots -> DOMAIN new.slots]
      /\ \A i, j \in DOMAIN old.slots : carried[i] = carried[j] => i = j
  BY DEF Injection, IsInjective
<1>3. CarriesOn(carried, old, new)
  BY <1>1, <1>2 DEF CarriesOn
<1> QED  BY <1>3

\* A role of the old type is one of the new, in the slot that carries its own.
LEMMA CarriedSlot ==
    ASSUME NEW old, NEW new, Sound(new), NEW carried, CarriesOn(carried, old, new),
           NEW i \in DOMAIN old.slots, NEW role, role \in Range(Names(old.slots[i]))
    PROVE  /\ carried[i] \in DOMAIN new.slots
           /\ role \in Range(Names(new.slots[carried[i]]))
           /\ HasSlot(new, role) /\ Slot(new, role) = new.slots[carried[i]]
<1>1. carried[i] \in DOMAIN new.slots /\ role \in Range(Names(new.slots[carried[i]]))
  BY DEF CarriesOn
<1> QED  BY <1>1, SlotOfName

\* What fits the old type fits the new.
LEMMA FileFitsOn ==
    ASSUME NEW old, NEW new, Sound(old), Sound(new), NEW carried,
           CarriesOn(carried, old, new), NEW f \in File, FileFits(old, f)
    PROVE  FileFits(new, f)
<1>1. PICK i \in DOMAIN old.slots : /\ f.role \in Range(Names(old.slots[i]))
                                    /\ Slot(old, f.role) = old.slots[i]
  BY SlotHasName DEF FileFits
<1> DEFINE s == old.slots[i]
           t == new.slots[carried[i]]
<1>2. /\ carried[i] \in DOMAIN new.slots
      /\ HasSlot(new, f.role) /\ Slot(new, f.role) = t
  BY <1>1, CarriedSlot
<1>3. s.maxSizeBytes \in Nat /\ t.maxSizeBytes \in Nat
  BY <1>2, SoundTypes
<1>4. Widened(s, t)
  BY DEF CarriesOn
<1>5. /\ f.family \in s.accepts
      /\ s.maxSizeBytes > 0 => f.size <= s.maxSizeBytes
  BY <1>1 DEF FileFits
<1>6. f.size \in Nat
  BY DEF File
<1> HIDE DEF s, t
<1>7. f.family \in t.accepts
  BY <1>4, <1>5 DEF Widened
<1>8. t.maxSizeBytes > 0 => f.size <= t.maxSizeBytes
  BY <1>3, <1>4, <1>5, <1>6 DEF Widened
<1> QED  BY <1>2, <1>7, <1>8 DEF FileFits

\* A slot and the one that carries it on are filled by the same files.
LEMMA FillingCarriesOn ==
    ASSUME NEW old, NEW new, Sound(old), Sound(new), NEW carried,
           CarriesOn(carried, old, new), NEW fs, \A f \in fs : HasSlot(old, f.role),
           NEW i \in DOMAIN old.slots
    PROVE  Filling(new, fs, new.slots[carried[i]]) = Filling(old, fs, old.slots[i])
<1>0. carried[i] \in DOMAIN new.slots
  BY DEF CarriesOn
<1>1. ASSUME NEW f \in fs, f.role \in Range(Names(new.slots[carried[i]]))
      PROVE  f.role \in Range(Names(old.slots[i]))
  <2>1. PICK j \in DOMAIN old.slots : f.role \in Range(Names(old.slots[j]))
    BY SlotHasName
  <2>2. carried[j] \in DOMAIN new.slots /\ f.role \in Range(Names(new.slots[carried[j]]))
    BY <2>1, CarriedSlot
  <2>3. carried[j] = carried[i]
    BY <1>0, <1>1, <2>2, OneSlotPerName
  <2> QED  BY <2>1, <2>3 DEF CarriesOn
<1>2. ASSUME NEW f \in fs, f.role \in Range(Names(old.slots[i]))
      PROVE  f.role \in Range(Names(new.slots[carried[i]]))
  BY <1>2 DEF CarriesOn
<1>3. Filling(new, fs, new.slots[carried[i]])
         = {f \in fs : f.role \in Range(Names(new.slots[carried[i]]))}
  BY <1>0, FillingByName
<1>4. Filling(old, fs, old.slots[i]) = {f \in fs : f.role \in Range(Names(old.slots[i]))}
  BY FillingByName
<1> QED  BY <1>1, <1>2, <1>3, <1>4

\* Nothing is in a slot that is new.
LEMMA NewSlotsAreEmpty ==
    ASSUME NEW old, NEW new, Sound(old), Sound(new), NEW carried,
           CarriesOn(carried, old, new), NEW fs, \A f \in fs : HasSlot(old, f.role),
           NEW j \in DOMAIN new.slots, j \notin Range(carried)
    PROVE  Filling(new, fs, new.slots[j]) = {}
<1>1. ASSUME NEW f \in fs, f.role \in Range(Names(new.slots[j]))
      PROVE  FALSE
  <2>1. PICK i \in DOMAIN old.slots : f.role \in Range(Names(old.slots[i]))
    BY SlotHasName
  <2>2. carried[i] \in DOMAIN new.slots /\ f.role \in Range(Names(new.slots[carried[i]]))
    BY <2>1, CarriedSlot
  <2>3. carried[i] = j
    BY <1>1, <2>2, OneSlotPerName
  <2> QED  BY <2>3 DEF Range, CarriesOn
<1> QED  BY <1>1, FillingByName

\* A compatible type accepts every list of files that the old one does.
LEMMA FilesCarryOver ==
    ASSUME NEW old, NEW new, Sound(old), Sound(new), CompatibleType(old, new),
           NEW fs \in SUBSET File, ValidateFiles(old, fs)
    PROVE  ValidateFiles(new, fs)
<1>1. PICK carried : CarriesOn(carried, old, new)
  BY CompatibleCarriesOn
<1>2. \A f \in fs : FileFits(new, f)
  BY <1>1, FileFitsOn DEF ValidateFiles
<1>3. \A f \in fs : HasSlot(old, f.role)
  BY DEF ValidateFiles, FileFits
<1>4. ASSUME NEW j \in DOMAIN new.slots
      PROVE  Cardinality(Filling(new, fs, new.slots[j]))
                 \in new.slots[j].min .. new.slots[j].max
  <2>1. /\ new.slots[j].min \in Nat /\ new.slots[j].max \in Nat
    BY SoundTypes
  <2>2. CASE j \notin Range(carried)
    <3>1. Cardinality(Filling(new, fs, new.slots[j])) = 0
      BY <1>1, <1>3, <2>2, NewSlotsAreEmpty, FS_EmptySet
    <3>2. new.slots[j].min = 0
      BY <1>1, <2>2 DEF CarriesOn
    <3> QED  BY <2>1, <3>1, <3>2
  <2>3. CASE j \in Range(carried)
    <3>1. PICK i \in DOMAIN old.slots : carried[i] = j
      BY <1>1, <2>3 DEF Range, CarriesOn
    <3>2. Filling(new, fs, new.slots[j]) = Filling(old, fs, old.slots[i])
      BY <1>1, <1>3, <3>1, FillingCarriesOn
    <3>3. old.slots[i].min \in Nat /\ old.slots[i].max \in Nat
      BY SoundTypes
    <3>4. new.slots[j].min <= old.slots[i].min /\ old.slots[i].max <= new.slots[j].max
      BY <1>1, <3>1 DEF CarriesOn, Widened
    <3>5. Cardinality(Filling(old, fs, old.slots[i]))
              \in old.slots[i].min .. old.slots[i].max
      BY DEF ValidateFiles
    <3> QED  BY <2>1, <3>2, <3>3, <3>4, <3>5
  <2> QED  BY <2>2, <2>3
<1> QED  BY <1>2, <1>4 DEF ValidateFiles

\* Whatever loads knows its types and they are sound; what is compatible with
\* it knows them too, and carries them on.
LEMMA TypesOfRelease ==
    ASSUME NEW release \in Release, Loads(release), Knows(release, TypeId)
    PROVE  /\ Type(release) \in release /\ Type(release).id = TypeId
           /\ Sound(Type(release))
           /\ \A t \in release : t.id = TypeId => t = Type(release)
<1>1. Type(release) \in release /\ Type(release).id = TypeId
  BY DEF Knows, Type, Get
<1>2. release \subseteq Manifest
  BY CatalogueAssumption DEF Loads
<1>3. Sound(Type(release))
  BY <1>1, <1>2 DEF Loads, Sound
<1>4. \A t \in release : t.id = TypeId => t = Type(release)
  BY <1>1 DEF Loads
<1> QED  BY <1>1, <1>3, <1>4

\* The item's type is in every compatible release, and is compatible itself.
LEMMA CompatibleTypes ==
    ASSUME NEW old \in Release, NEW new \in Release, Loads(old), Loads(new),
           Knows(old, TypeId), Compatible(old, new)
    PROVE  Knows(new, TypeId) /\ CompatibleType(Type(old), Type(new))
<1>1. Type(old) \in old /\ Type(old).id = TypeId
  BY TypesOfRelease
<1>2. PICK t \in new : t.id = TypeId /\ CompatibleType(Type(old), t)
  BY <1>1 DEF Compatible
<1>3. Knows(new, TypeId)
  BY <1>2 DEF Knows
<1>4. t = Type(new)
  BY <1>2, <1>3, TypesOfRelease
<1> QED  BY <1>2, <1>3, <1>4

-----------------------------------------------------------------------------
(***************************************************************************)
(* Viewers.                                                                *)
(***************************************************************************)

\* A set of one element at most.
LEMMA AtMostOne ==
    ASSUME NEW S, IsFiniteSet(S), Cardinality(S) <= 1, NEW x \in S, NEW y \in S
    PROVE  x = y
<1>1. Cardinality(S) \in Nat
  BY FS_CardinalityType
<1>2. Cardinality(S) # 0
  BY FS_EmptySet
<1>3. Cardinality(S) = 1
  BY <1>1, <1>2
<1>4. \E z : S = {z}
  BY <1>3, FS_Singleton
<1> QED  BY <1>4

\* Every slot has a place, and no other.
LEMMA OnePlacePerSlot ==
    ASSUME NEW type, Sound(type), NEW i \in DOMAIN type.slots
    PROVE  \E p \in Places(type) :
              /\ type.presentation[p[1]].slots[p[2]] = type.slots[i].id
              /\ \A q \in Places(type) :
                    type.presentation[q[1]].slots[q[2]] = type.slots[i].id => q = p
<1>1. ValidatePresentation(type)
  BY DEF Sound, Validate
<1>2. PICK n \in DOMAIN type.presentation :
         type.slots[i].id \in Range(type.presentation[n].slots)
  BY <1>1 DEF ValidatePresentation, Rendered
<1>3. PICK k \in DOMAIN type.presentation[n].slots :
         type.presentation[n].slots[k] = type.slots[i].id
  BY <1>2 DEF Range
<1> DEFINE p == <<n, k>>
<1>4. p \in Places(type) /\ type.presentation[p[1]].slots[p[2]] = type.slots[i].id
  BY <1>3 DEF Places
<1>5. ASSUME NEW q \in Places(type),
             type.presentation[q[1]].slots[q[2]] = type.slots[i].id
      PROVE  q = p
  <2>0. PICK m \in DOMAIN type.presentation :
           q \in {<<m, l>> : l \in DOMAIN type.presentation[m].slots}
    BY DEF Places
  <2>1. PICK l \in DOMAIN type.presentation[m].slots : q = <<m, l>>
    BY <2>0
  <2>2. type.presentation[m].slots[l] = type.presentation[n].slots[k]
    BY <1>3, <1>5, <2>1
  <2>3. DrawnAtMostOnce(type)
    BY <1>1 DEF ValidatePresentation
  <2>4. m = n /\ l = k
    BY <2>2, <2>3 DEF DrawnAtMostOnce
  <2> QED  BY <2>1, <2>4
<1> QED  BY <1>4, <1>5

\* A viewer of one face has a slot for one file.
LEMMA SingleFace ==
    ASSUME NEW type, Sound(type), NEW i \in DOMAIN type.slots,
           NEW p \in Places(type), Single(type, p),
           type.presentation[p[1]].slots[p[2]] = type.slots[i].id
    PROVE  type.slots[i].max = 1
<1>0. PICK n \in DOMAIN type.presentation :
         p \in {<<n, k>> : k \in DOMAIN type.presentation[n].slots}
  BY DEF Places
<1>1. PICK k \in DOMAIN type.presentation[n].slots : p = <<n, k>>
  BY <1>0
<1>2. SoundViewer(type, type.presentation[n])
  BY DEF Sound, Validate, ValidatePresentation
<1>3. type.presentation[n].primitive \in OneFace \cup {"flippable"}
  BY <1>1 DEF Single
<1>4. Slot(type, type.presentation[n].slots[k]).max = 1
  BY <1>2, <1>3 DEF SoundViewer
<1>5. Slot(type, type.slots[i].id) = type.slots[i]
  BY SoundTypes, SlotOfName
<1> QED  BY <1>1, <1>4, <1>5

\* A sound type draws each file of a valid list once: Rendered has no slot
\* twice, and a slot in a viewer of one face holds one file.
LEMMA ValidFilesAreDrawnOnce ==
    ASSUME NEW type, Sound(type), NEW fs, IsFiniteSet(fs), ValidateFiles(type, fs),
           NEW f \in fs
    PROVE  \E p \in Places(type) :
              /\ Shown(type, f) = {p}
              /\ Single(type, p) => \A g \in fs : Shown(type, g) = {p} => g = f
<1>1. \A g \in fs : HasSlot(type, g.role)
  BY DEF ValidateFiles, FileFits
<1>2. PICK i \in DOMAIN type.slots : Slot(type, f.role) = type.slots[i]
  BY <1>1, SlotHasName
<1>3. PICK p \in Places(type) :
         /\ type.presentation[p[1]].slots[p[2]] = type.slots[i].id
         /\ \A q \in Places(type) :
               type.presentation[q[1]].slots[q[2]] = type.slots[i].id => q = p
  BY OnePlacePerSlot
<1>4. Shown(type, f) = {p}
  BY <1>2, <1>3 DEF Shown
<1>5. ASSUME Single(type, p), NEW g \in fs, Shown(type, g) = {p}
      PROVE  g = f
  <2>1. type.slots[i].max = 1 /\ type.slots[i].min \in Nat
    BY <1>3, <1>5, SingleFace, SoundTypes
  <2>2. Slot(type, g.role).id = type.slots[i].id
    BY <1>3, <1>5 DEF Shown
  <2> DEFINE S == Filling(type, fs, type.slots[i])
  <2>3. f \in S /\ g \in S
    BY <1>1, <1>2, <2>2 DEF Filling
  <2>4. IsFiniteSet(S)
    BY FS_Subset DEF Filling
  <2>5. Cardinality(S) \in type.slots[i].min .. type.slots[i].max
    BY DEF ValidateFiles
  <2>6. Cardinality(S) <= 1
    BY <2>1, <2>4, <2>5, FS_CardinalityType
  <2> QED  BY <2>3, <2>4, <2>6, AtMostOne
<1> QED  BY <1>4, <1>5

-----------------------------------------------------------------------------
(***************************************************************************)
(* Types are inductive by themselves.                                      *)
(***************************************************************************)
LEMMA TypesAtFirst == Init => TypeOK
<1> SUFFICES ASSUME Init PROVE TypeOK
  OBVIOUS
<1> USE CatalogueAssumption, UploadsAssumption DEF Init, CatalogueInit
<1>1. newest \in running /\ running \subseteq Release
  OBVIOUS
<1>2. {cache, asked} \subseteq [Client -> Release \cup {NoCatalogue}]
  OBVIOUS
<1>3. objects \subseteq Upload /\ (files = Gone \/ files \subseteq {file[u] : u \in Upload} \ {NoFile})
  OBVIOUS
<1>4. /\ stage \in [Upload -> Stages]
      /\ file \in [Upload -> File \cup {NoFile}]
      /\ {sent, inFlight} \subseteq [Upload -> 0..MaxSends]
      /\ answer \in [Upload -> Answers]
  BY DEF Stages, Answers
<1>5. ASSUME NEW u \in Upload
      PROVE  /\ inFlight[u] <= sent[u]
             /\ file[u] # NoFile <=> stage[u] \in {"granted", "expired", "uploaded"}
             /\ file[u] # NoFile => file[u].id = u
             /\ sent[u] > 0 => stage[u] = "uploaded"
  OBVIOUS
<1> QED  BY <1>1, <1>2, <1>3, <1>4, <1>5 DEF TypeOK

\* No step disturbs the types.
LEMMA TypesKept == TypeOK /\ [Next]_vars => TypeOK'
<1> SUFFICES ASSUME TypeOK, [Next]_vars PROVE TypeOK'
  OBVIOUS
<1> USE DEF TypeOK
<1>1. CASE CatalogueNext /\ UNCHANGED uploadVars
  <2>1. /\ newest' \in running' /\ running' \subseteq Release
        /\ {cache', asked'} \subseteq [Client -> Release \cup {NoCatalogue}]
    <3>1. CASE \E release \in Release : Deploy(release)
      BY <3>1 DEF Deploy
    <3>2. CASE Retire
      BY <3>2 DEF Retire
    <3>3. CASE \E c \in Client, release \in running : ListItemTypes(c, release)
      BY <3>3 DEF ListItemTypes
    <3> QED  BY <1>1, <3>1, <3>2, <3>3 DEF CatalogueNext
  <2> QED  BY <1>1, <2>1 DEF uploadVars
<1>2. ASSUME NEW u \in Upload, NEW c \in Client, NEW release \in running,
             CreateUploadURL(u, c, release)
      PROVE  TypeOK'
  <2>1. PICK wish \in Wish :
          LET f == [id |-> u, role |-> wish.role, family |-> wish.family, size |-> wish.size]
          IN  /\ stage[u] = "new"
              /\ \/ /\ stage' = [stage EXCEPT ![u] = "granted"]
                    /\ file' = [file EXCEPT ![u] = f]
                 \/ /\ stage' = [stage EXCEPT ![u] = "denied"]
                    /\ file' = file
              /\ UNCHANGED <<catalogueVars, files, objects, sent, inFlight, answer>>
    BY <1>2 DEF CreateUploadURL
  <2> DEFINE f == [id |-> u, role |-> wish.role, family |-> wish.family, size |-> wish.size]
  <2>2. f \in File /\ f.id = u
    BY UploadsAssumption DEF File
  <2>3. file[u] = NoFile /\ sent[u] = 0 /\ inFlight[u] = 0 /\ f # NoFile
    BY <2>1, <2>2, UploadsAssumption
  <2>4. UNCHANGED <<newest, running, cache, asked, files, objects, sent, inFlight, answer>>
    BY <2>1 DEF catalogueVars
  <2>5. \/ /\ stage' = [stage EXCEPT ![u] = "granted"]
           /\ file' = [file EXCEPT ![u] = f]
        \/ /\ stage' = [stage EXCEPT ![u] = "denied"]
           /\ file' = file
    BY <2>1
  <2> HIDE DEF f
  <2>6. stage' \in [Upload -> Stages] /\ file' \in [Upload -> File \cup {NoFile}]
    BY <2>2, <2>5 DEF Stages
  <2>7. ASSUME NEW v \in Upload
        PROVE  /\ inFlight'[v] <= sent'[v]
               /\ file'[v] # NoFile <=> stage'[v] \in {"granted", "expired", "uploaded"}
               /\ file'[v] # NoFile => file'[v].id = v
               /\ sent'[v] > 0 => stage'[v] = "uploaded"
    <3>1. /\ inFlight[v] <= sent[v]
          /\ file[v] # NoFile <=> stage[v] \in {"granted", "expired", "uploaded"}
          /\ file[v] # NoFile => file[v].id = v
          /\ sent[v] > 0 => stage[v] = "uploaded"
      OBVIOUS
    <3>2. CASE v # u
      <4>1. stage'[v] = stage[v] /\ file'[v] = file[v]
        BY <2>5, <3>2
      <4> QED  BY <2>4, <3>1, <4>1
    <3>3. CASE v = u
      <4>1. \/ stage'[v] = "granted" /\ file'[v] = f
            \/ stage'[v] = "denied" /\ file'[v] = NoFile
        BY <2>3, <2>5, <3>3
      <4> QED  BY <2>2, <2>3, <2>4, <3>1, <3>3, <4>1
    <3> QED  BY <3>2, <3>3
  <2>8. \A v \in Upload : file[v] # NoFile => file'[v] = file[v]
    BY <2>3, <2>5
  <2>9. files' = Gone \/ files' \subseteq {file'[v] : v \in Upload} \ {NoFile}
    BY <2>4, <2>8
  <2> QED  BY <2>4, <2>6, <2>7, <2>9
<1>3. ASSUME NEW u \in Upload, PutObject(u) PROVE TypeOK'
  BY <1>3 DEF PutObject, Stages, catalogueVars
<1>4. ASSUME NEW u \in Upload, Confirm(u) PROVE TypeOK'
  BY <1>4, UploadsAssumption DEF Confirm, catalogueVars
<1>5. ASSUME NEW u \in Upload, NEW release \in running, AttachFile(u, release)
      PROVE  TypeOK'
  <2>1. file[u] # NoFile
    BY <1>5, UploadsAssumption DEF AttachFile
  <2>2. files' = Gone \/ files' \subseteq {file[v] : v \in Upload} \ {NoFile}
    BY <1>5, <2>1 DEF AttachFile, Appended, AttachOutcome
  <2>3. answer' \in [Upload -> Answers]
    BY <1>5 DEF AttachFile, AttachOutcome, Answers
  <2>4. /\ UNCHANGED <<newest, running, cache, asked, objects, stage, file, sent>>
        /\ inFlight[u] > 0
        /\ inFlight' = [inFlight EXCEPT ![u] = @ - 1]
    BY <1>5 DEF AttachFile, catalogueVars
  <2>5. inFlight' \in [Upload -> 0..MaxSends] /\ \A v \in Upload : inFlight'[v] <= inFlight[v]
    BY <2>4, UploadsAssumption
  <2>6. \A v \in Upload : inFlight'[v] <= sent'[v]
    <3> TAKE v \in Upload
    <3>1. inFlight'[v] <= inFlight[v] /\ inFlight[v] <= sent[v] /\ sent'[v] = sent[v]
      BY <2>4, <2>5
    <3>2. inFlight'[v] \in Int /\ inFlight[v] \in Int /\ sent[v] \in Int
      BY <2>5, UploadsAssumption
    <3> QED  BY <3>1, <3>2
  <2> QED  BY <2>2, <2>3, <2>4, <2>5, <2>6
<1>6. ASSUME NEW u \in Upload, NEW release \in running, DeleteFile(u, release)
      PROVE  TypeOK'
  BY <1>6 DEF DeleteFile, Detached, catalogueVars
<1>7. CASE DeleteItem
  BY <1>7 DEF DeleteItem, catalogueVars
<1>8. CASE UNCHANGED vars
  BY <1>8 DEF vars
<1> QED  BY <1>1, <1>2, <1>3, <1>4, <1>5, <1>6, <1>7, <1>8 DEF Next

\* What reads as a type is one in every reachable state of uploads.
THEOREM UploadTypes == Spec => []TypeOK
BY TypesAtFirst, TypesKept, PTL DEF Spec

-----------------------------------------------------------------------------
(***************************************************************************)
(* The inductive invariant.                                                *)
(***************************************************************************)

\* Whatever serves requests can be followed by the newest.
Served ==
    \A release \in running :
        /\ Loads(release) /\ Knows(release, TypeId)
        /\ release = newest \/ CompatibleType(Type(release), Type(newest))

\* A catalogue has the ETag of the release that answered last.
Told ==
    \A c \in Client : HasAsked(c) =>
        cache[c] # NoCatalogue /\ TypesETag(cache[c]) = TypesETag(asked[c])

\* A confirmation is of an object that is there, and objects stay.
Uploaded == \A u \in Upload : stage[u] = "uploaded" => u \in objects

Stored ==
    files # Gone => /\ IsFiniteSet(files)
                    /\ ValidateFiles(Type(newest), files)
                    /\ Ids(files) \subseteq objects

IInv == TypeOK /\ Served /\ Told /\ Uploaded /\ Stored

\* An item's files are known uploads.
LEMMA FilesAreFiles ==
    ASSUME TypeOK, files # Gone
    PROVE  files \in SUBSET File
BY DEF TypeOK

\* A list of files that any release in service accepts is one the newest does.
LEMMA AcceptedByTheNewest ==
    ASSUME TypeOK, Served, NEW release \in running, NEW fs \in SUBSET File,
           ValidateFiles(Type(release), fs)
    PROVE  ValidateFiles(Type(newest), fs)
<1>1. release \in Release /\ newest \in running /\ newest \in Release
  BY DEF TypeOK
<1>2. Sound(Type(release)) /\ Sound(Type(newest))
  BY <1>1, TypesOfRelease DEF Served
<1>3. CASE release = newest
  BY <1>3
<1>4. CASE release # newest
  BY <1>2, <1>4, FilesCarryOver DEF Served
<1> QED  BY <1>3, <1>4

\* An item without files is valid to the first release.
LEMMA HoldsAtFirst == Init => IInv
<1> SUFFICES ASSUME Init PROVE IInv
  OBVIOUS
<1>1. TypeOK
  BY TypesAtFirst
<1>2. Served
  BY CatalogueAssumption, UploadsAssumption DEF Init, CatalogueInit, Served
<1>3. Told
  BY DEF Init, CatalogueInit, Told, HasAsked
<1>4. Uploaded
  BY DEF Init, Uploaded
<1>5. Stored
  BY UploadsAssumption, FS_EmptySet DEF Init, CatalogueInit, Stored, Type, Ids
<1> QED  BY <1>1, <1>2, <1>3, <1>4, <1>5 DEF IInv

\* A release is rolled out, retired or asked.
LEMMA KeptByTheCatalogue ==
    ASSUME IInv, CatalogueNext, UNCHANGED uploadVars
    PROVE  Served' /\ Told' /\ Uploaded' /\ Stored'
<1> USE DEF IInv
<1>0. UNCHANGED <<files, objects, stage>>
  BY DEF uploadVars
<1>u. Uploaded'
  BY <1>0 DEF Uploaded
<1>1. ASSUME NEW release \in Release, Deploy(release)
      PROVE  Served' /\ Told' /\ Stored'
  <2>1. /\ running = {newest} /\ running' = {newest, release} /\ newest' = release
        /\ Loads(release) /\ Compatible(newest, release)
        /\ UNCHANGED <<cache, asked>>
    BY <1>1 DEF Deploy
  <2>2. newest \in Release /\ Loads(newest) /\ Knows(newest, TypeId)
    BY <2>1 DEF TypeOK, Served
  <2>3. Knows(release, TypeId) /\ CompatibleType(Type(newest), Type(release))
    BY <2>1, <2>2, CompatibleTypes
  <2>4. Served'
    BY <2>1, <2>2, <2>3 DEF Served, Type
  <2>5. Sound(Type(newest)) /\ Sound(Type(release))
    BY <2>1, <2>2, <2>3, TypesOfRelease
  <2>6. files # Gone => ValidateFiles(Type(release), files)
    BY <2>3, <2>5, FilesAreFiles, FilesCarryOver DEF Stored
  <2>7. Stored'
    BY <1>0, <2>1, <2>6 DEF Stored, Type
  <2> QED  BY <2>1, <2>4, <2>7 DEF Told, HasAsked
<1>2. CASE Retire
  <2>1. newest' = newest /\ running' = {newest} /\ UNCHANGED <<cache, asked>>
    BY <1>2 DEF Retire
  <2>2. newest \in running
    BY DEF TypeOK
  <2>3. Served'
    BY <2>1, <2>2 DEF Served, Type
  <2>4. Told'
    BY <2>1 DEF Told, HasAsked
  <2>5. Stored'
    BY <1>0, <2>1 DEF Stored, Type, Ids
  <2> QED  BY <1>u, <2>3, <2>4, <2>5
<1>3. ASSUME NEW c \in Client, NEW release \in running, ListItemTypes(c, release)
      PROVE  Served' /\ Told' /\ Stored'
  <2>1. UNCHANGED <<newest, running>>
    BY <1>3 DEF ListItemTypes
  <2>2. release # NoCatalogue
    BY CatalogueAssumption DEF TypeOK
  <2>3. Told'
    <3> SUFFICES ASSUME NEW d \in Client, HasAsked(d)'
                 PROVE  cache'[d] # NoCatalogue /\ TypesETag(cache'[d]) = TypesETag(asked'[d])
      BY DEF Told
    <3>1. CASE d # c
      BY <1>3, <3>1 DEF ListItemTypes, TypeOK, Told, HasAsked
    <3>2. CASE d = c
      BY <1>3, <2>2, <3>2 DEF ListItemTypes, TypeOK
    <3> QED  BY <3>1, <3>2
  <2> QED  BY <1>0, <2>1, <2>3 DEF Served, Stored, Type
<1> QED  BY <1>1, <1>2, <1>3, <1>u DEF CatalogueNext

\* An attach adds a file that was uploaded, if some release accepts it.
LEMMA KeptByAttach ==
    ASSUME IInv, NEW u \in Upload, NEW release \in running, AttachFile(u, release)
    PROVE  Stored'
<1> USE DEF IInv
<1>1. UNCHANGED <<newest, objects>>
  BY DEF AttachFile, catalogueVars
<1>2. CASE files' = files
  BY <1>1, <1>2 DEF Stored, Type
<1>3. CASE files' # files
  <2>1. /\ files # Gone /\ files' = files \cup {file[u]}
        /\ ValidateFiles(Type(release), files')
    BY <1>3 DEF AttachFile, AttachOutcome, Appended
  <2>2. file[u] # NoFile /\ stage[u] = "uploaded"
    BY UploadsAssumption DEF AttachFile, TypeOK
  <2>3. file[u] \in File /\ file[u].id = u /\ u \in objects
    BY <2>2 DEF TypeOK, Uploaded
  <2>4. files' \in SUBSET File
    BY <2>1, <2>3, FilesAreFiles
  <2>5. ValidateFiles(Type(newest), files')
    BY <2>1, <2>4, AcceptedByTheNewest
  <2>6. IsFiniteSet(files')
    BY <2>1, FS_AddElement DEF Stored
  <2>7. Ids(files') \subseteq objects
    BY <2>1, <2>3 DEF Stored, Ids
  <2> QED  BY <1>1, <2>5, <2>6, <2>7 DEF Stored, Type, Ids
<1> QED  BY <1>2, <1>3

\* So does a detach, and it leaves the object.
LEMMA KeptByDetach ==
    ASSUME IInv, NEW u \in Upload, NEW release \in running, DeleteFile(u, release)
    PROVE  Stored'
<1> USE DEF IInv
<1>1. UNCHANGED <<newest, objects>>
  BY DEF DeleteFile, catalogueVars
<1>2. /\ files # Gone /\ files' \subseteq files
      /\ ValidateFiles(Type(release), files')
  BY DEF DeleteFile, Detached
<1>3. files' \in SUBSET File
  BY <1>2, FilesAreFiles
<1>4. ValidateFiles(Type(newest), files')
  BY <1>2, <1>3, AcceptedByTheNewest
<1>5. IsFiniteSet(files')
  BY <1>2, FS_Subset DEF Stored
<1>6. Ids(files') \subseteq objects
  BY <1>2 DEF Stored, Ids
<1> QED  BY <1>1, <1>4, <1>5, <1>6 DEF Stored, Type, Ids

\* Every step keeps the invariant.
LEMMA IsKept == IInv /\ [Next]_vars => IInv'
<1> SUFFICES ASSUME IInv, [Next]_vars PROVE IInv'
  OBVIOUS
<1>0. TypeOK'
  BY TypesKept DEF IInv
<1>1. CASE CatalogueNext /\ UNCHANGED uploadVars
  BY <1>0, <1>1, KeptByTheCatalogue DEF IInv
<1>2. ASSUME NEW u \in Upload, NEW c \in Client, NEW release \in running,
             CreateUploadURL(u, c, release)
      PROVE  IInv'
  <2>1. UNCHANGED <<newest, running, cache, asked, files, objects>>
    BY <1>2 DEF CreateUploadURL, catalogueVars
  <2>2. stage' \in {[stage EXCEPT ![u] = "granted"], [stage EXCEPT ![u] = "denied"]}
    BY <1>2 DEF CreateUploadURL
  <2>3. Uploaded'
    BY <2>1, <2>2 DEF IInv, Uploaded, TypeOK
  <2> QED  BY <1>0, <2>1, <2>3 DEF IInv, Served, Told, HasAsked, Stored, Type
<1>3. ASSUME NEW u \in Upload, PutObject(u)
      PROVE  IInv'
  <2>1. UNCHANGED <<newest, running, cache, asked, files>> /\ objects \subseteq objects'
    BY <1>3 DEF PutObject, catalogueVars
  <2>2. Uploaded'
    BY <1>3 DEF IInv, Uploaded, PutObject, TypeOK
  <2>3. Stored'
    BY <2>1 DEF IInv, Stored, Type, Ids
  <2> QED  BY <1>0, <2>1, <2>2, <2>3 DEF IInv, Served, Told, HasAsked, Type
<1>4. ASSUME NEW u \in Upload, Confirm(u)
      PROVE  IInv'
  BY <1>0, <1>4 DEF Confirm, catalogueVars, IInv, Served, Told, HasAsked, Uploaded, Stored,
                    Type, Ids
<1>5. ASSUME NEW u \in Upload, NEW release \in running, AttachFile(u, release)
      PROVE  IInv'
  BY <1>0, <1>5, KeptByAttach
  DEF AttachFile, catalogueVars, IInv, Served, Told, HasAsked, Uploaded, Type
<1>6. ASSUME NEW u \in Upload, NEW release \in running, DeleteFile(u, release)
      PROVE  IInv'
  BY <1>0, <1>6, KeptByDetach
  DEF DeleteFile, catalogueVars, IInv, Served, Told, HasAsked, Uploaded, Type
<1>7. CASE DeleteItem
  BY <1>0, <1>7
  DEF DeleteItem, catalogueVars, IInv, Served, Told, HasAsked, Uploaded, Stored, Type
<1>8. CASE UNCHANGED vars
  BY <1>0, <1>8 DEF vars, IInv, Served, Told, HasAsked, Uploaded, Stored, Type, Ids
<1> QED  BY <1>1, <1>2, <1>3, <1>4, <1>5, <1>6, <1>7, <1>8 DEF Next

-----------------------------------------------------------------------------
(***************************************************************************)
(* Theorems.                                                               *)
(***************************************************************************)

\* The inductive invariant holds in every reachable state.
THEOREM UploadsAreKept == Spec => []IInv
BY HoldsAtFirst, IsKept, PTL DEF Spec

\* Whichever release served a request, and however late a confirmation came,
\* what is stored is valid for the newest release: AppendFile and DeleteFile
\* validate the whole item.
THEOREM FilesFitTheNewest == Spec => []StoredFilesFitTheNewest
<1>1. IInv => StoredFilesFitTheNewest
  BY DEF IInv, Stored, StoredFilesFitTheNewest
<1> QED  BY <1>1, UploadsAreKept, PTL

\* registry.go's rules for presentations are enough: every stored file has one
\* place in the newest catalogue, and a viewer of one face gets one file.
THEOREM FilesAreDrawnOnce == Spec => []EveryFileIsDrawnOnce
<1>1. IInv => EveryFileIsDrawnOnce
  <2> SUFFICES ASSUME IInv, files # Gone, NEW f \in files
               PROVE  \E p \in Places(Type(newest)) :
                  /\ Shown(Type(newest), f) = {p}
                  /\ Single(Type(newest), p) =>
                        \A g \in files : Shown(Type(newest), g) = {p} => g = f
    BY DEF EveryFileIsDrawnOnce
  <2>1. newest \in Release /\ Loads(newest) /\ Knows(newest, TypeId)
    BY DEF IInv, TypeOK, Served
  <2>2. Sound(Type(newest))
    BY <2>1, TypesOfRelease
  <2>3. IsFiniteSet(files) /\ ValidateFiles(Type(newest), files)
    BY DEF IInv, Stored
  <2> QED  BY <2>2, <2>3, ValidFilesAreDrawnOnce
<1> QED  BY <1>1, UploadsAreKept, PTL

\* A file's object is in the bucket, since handlers delete records only.
THEOREM NoImageBreaks == Spec => []NoBrokenImages
<1>1. IInv => NoBrokenImages
  BY DEF IInv, Stored, NoBrokenImages
<1> QED  BY <1>1, UploadsAreKept, PTL

\* typesETag covers the slots: equal ETags are of catalogues with equal slots.
THEOREM ClientsKnowTheSlots == Spec => []NewSlotsReachClients
<1>1. ASSUME NEW old, NEW new, TypesETag(old) = TypesETag(new), NEW t \in new
      PROVE  \E s \in old : s.id = t.id /\ SlotIds(s) = SlotIds(t)
  <2> DEFINE ids(x) == [i \in DOMAIN x.slots |-> x.slots[i].id]
  <2>1. <<t.id, t.version, ids(t)>> \in TypesETag(old)
    BY <1>1 DEF TypesETag
  <2>2. PICK s \in old : <<t.id, t.version, ids(t)>> = <<s.id, s.version, ids(s)>>
    BY <2>1 DEF TypesETag
  <2>3. s.id = t.id /\ ids(s) = ids(t)
    BY <2>2
  <2>4. DOMAIN ids(s) = DOMAIN s.slots /\ DOMAIN ids(t) = DOMAIN t.slots
    OBVIOUS
  <2>5. /\ \A i \in DOMAIN s.slots : ids(s)[i] = s.slots[i].id
        /\ \A i \in DOMAIN t.slots : ids(t)[i] = t.slots[i].id
    OBVIOUS
  <2> HIDE DEF ids
  <2> QED  BY <2>3, <2>4, <2>5 DEF SlotIds
<1>2. IInv => NewSlotsReachClients
  <2> SUFFICES ASSUME IInv, NEW c \in Client, HasAsked(c), NEW t \in asked[c]
               PROVE  \E s \in cache[c] : s.id = t.id /\ SlotIds(s) = SlotIds(t)
    BY DEF NewSlotsReachClients
  <2>1. TypesETag(cache[c]) = TypesETag(asked[c])
    BY DEF IInv, Told
  <2> QED  BY <1>1, <2>1
<1> QED  BY <1>2, UploadsAreKept, PTL

-----------------------------------------------------------------------------
(***************************************************************************)
(* What createUploadURL foresees.                                          *)
(***************************************************************************)

\* What was checked of an upload that has its URL.
Checked(u) ==
    LET type == Type(granted[u].release)
    IN  /\ granted[u].files # Gone
        /\ FileFits(type, file[u])
        /\ Cardinality(FilesInSlot(granted[u].files, Slot(type, file[u].role).id))
              < Slot(type, file[u].role).max

Foreseen ==
    /\ DOMAIN granted = Upload
    /\ \A u \in Upload : stage[u] \in {"granted", "expired", "uploaded"} => Checked(u)

\* What a URL was given for does not change after.
LEMMA ForeseenIsKept == IInv /\ Foreseen /\ [Next]_vars => Foreseen'
<1> SUFFICES ASSUME IInv, Foreseen, [Next]_vars PROVE Foreseen'
  OBVIOUS
<1>0. stage \in [Upload -> Stages] /\ file \in [Upload -> File \cup {NoFile}]
  BY DEF IInv, TypeOK
<1>1. CASE UNCHANGED <<stage, file, granted>>
  BY <1>1 DEF Foreseen, Checked, Type
<1>2. ASSUME NEW u \in Upload, NEW c \in Client, NEW release \in running,
             CreateUploadURL(u, c, release)
      PROVE  Foreseen'
  <2>1. PICK wish \in Wish :
          LET f == [id |-> u, role |-> wish.role, family |-> wish.family, size |-> wish.size]
          IN  \/ /\ files # Gone /\ MayUpload(Type(release), f)
                 /\ stage' = [stage EXCEPT ![u] = "granted"]
                 /\ file' = [file EXCEPT ![u] = f]
                 /\ granted' = [granted EXCEPT ![u] =
                                   [release |-> release, files |-> files]]
              \/ /\ stage' = [stage EXCEPT ![u] = "denied"]
                 /\ UNCHANGED <<file, granted>>
    BY <1>2 DEF CreateUploadURL
  <2> DEFINE f == [id |-> u, role |-> wish.role, family |-> wish.family, size |-> wish.size]
  <2>2. CASE /\ files # Gone /\ MayUpload(Type(release), f)
             /\ stage' = [stage EXCEPT ![u] = "granted"]
             /\ file' = [file EXCEPT ![u] = f]
             /\ granted' = [granted EXCEPT ![u] = [release |-> release, files |-> files]]
    <3> HIDE DEF f
    <3>1. DOMAIN granted' = Upload
      BY <2>2 DEF Foreseen
    <3>2. file'[u] = f /\ granted'[u] = [release |-> release, files |-> files]
      BY <1>0, <2>2 DEF Foreseen
    <3>3. granted'[u].release = release /\ granted'[u].files = files
      BY <3>2
    <3>4. Checked(u)'
      BY <2>2, <3>2, <3>3 DEF Checked, MayUpload, Type
    <3>5. ASSUME NEW v \in Upload, v # u, stage'[v] \in {"granted", "expired", "uploaded"}
          PROVE  Checked(v)'
      <4>1. stage'[v] = stage[v] /\ file'[v] = file[v] /\ granted'[v] = granted[v]
        BY <2>2, <3>5
      <4> QED  BY <3>5, <4>1 DEF Foreseen, Checked, Type
    <3> QED  BY <3>1, <3>4, <3>5 DEF Foreseen
  <2>3. CASE stage' = [stage EXCEPT ![u] = "denied"] /\ UNCHANGED <<file, granted>>
    <3>1. \A v \in Upload : stage'[v] \in {"granted", "expired", "uploaded"} => stage'[v] = stage[v]
      BY <1>0, <2>3
    <3> QED  BY <2>3, <3>1 DEF Foreseen, Checked, Type
  <2> QED  BY <2>1, <2>2, <2>3
<1>3. ASSUME NEW u \in Upload, PutObject(u)
      PROVE  Foreseen'
  <2>1. /\ UNCHANGED <<file, granted>> /\ stage[u] = "granted"
        /\ \A v \in Upload : v # u => stage'[v] = stage[v]
    BY <1>0, <1>3 DEF PutObject
  <2> QED  BY <2>1 DEF Foreseen, Checked, Type
<1> QED  BY <1>1, <1>2, <1>3
         DEF Next, uploadVars, vars, Confirm, AttachFile, DeleteFile, DeleteItem

\* One more file in a slot with room, and with no files under former ids.
LEMMA OneMoreFits ==
    ASSUME NEW type, Sound(type), NEW fs, IsFiniteSet(fs), ValidateFiles(type, fs),
           NEW f, FileFits(type, f),
           Cardinality(FilesInSlot(fs, Slot(type, f.role).id)) < Slot(type, f.role).max,
           \A g \in fs : HasSlot(type, g.role) /\ Slot(type, g.role) = Slot(type, f.role)
                          => g.role = Slot(type, f.role).id
    PROVE  ValidateFiles(type, fs \cup {f})
<1>1. PICK i \in DOMAIN type.slots : Slot(type, f.role) = type.slots[i]
  BY SlotHasName DEF FileFits
<1>2. HasSlot(type, f.role)
  BY DEF FileFits
<1>3. ASSUME NEW j \in DOMAIN type.slots
      PROVE  Cardinality(Filling(type, fs \cup {f}, type.slots[j]))
                 \in type.slots[j].min .. type.slots[j].max
  <2> DEFINE S == Filling(type, fs, type.slots[j])
  <2>1. S \subseteq fs /\ IsFiniteSet(S)
    BY FS_Subset DEF Filling
  <2>2. Cardinality(S) \in type.slots[j].min .. type.slots[j].max
    BY DEF ValidateFiles
  <2>3. CASE j # i
    <3>1. type.slots[i].id # type.slots[j].id
      BY <2>3, IdsAreDistinct
    <3>2. Filling(type, fs \cup {f}, type.slots[j]) = S
      BY <1>1, <3>1 DEF Filling
    <3> QED  BY <2>2, <3>2
  <2>4. CASE j = i
    <3>1. S \subseteq FilesInSlot(fs, type.slots[i].id)
      <4> SUFFICES ASSUME NEW g \in S PROVE g \in FilesInSlot(fs, type.slots[i].id)
        OBVIOUS
      <4>1. g \in fs /\ HasSlot(type, g.role) /\ Slot(type, g.role).id = type.slots[i].id
        BY <2>4 DEF Filling
      <4>2. PICK k \in DOMAIN type.slots : Slot(type, g.role) = type.slots[k]
        BY <4>1, SlotHasName
      <4>3. k = i
        BY <4>1, <4>2, IdsAreDistinct
      <4> QED  BY <1>1, <4>1, <4>2, <4>3 DEF FilesInSlot
    <3>2. IsFiniteSet(FilesInSlot(fs, type.slots[i].id))
      BY FS_Subset DEF FilesInSlot
    <3>3. Cardinality(S) <= Cardinality(FilesInSlot(fs, type.slots[i].id))
      BY <3>1, <3>2, FS_Subset
    <3>4. Filling(type, fs \cup {f}, type.slots[j]) = S \cup {f}
      BY <1>1, <1>2, <2>4 DEF Filling
    <3>5. Cardinality(S \cup {f}) = IF f \in S THEN Cardinality(S) ELSE Cardinality(S) + 1
      BY <2>1, FS_AddElement
    <3>6. /\ Cardinality(S) \in Nat
          /\ Cardinality(FilesInSlot(fs, type.slots[i].id)) \in Nat
      BY <2>1, <3>2, FS_CardinalityType
    <3>7. type.slots[j].min \in Nat /\ type.slots[j].max \in Nat
      BY SoundTypes
    <3>8. Cardinality(FilesInSlot(fs, type.slots[i].id)) < type.slots[j].max
      BY <1>1, <2>4
    <3> DEFINE c == Cardinality(S)
               d == Cardinality(S \cup {f})
               e == Cardinality(FilesInSlot(fs, type.slots[i].id))
               min == type.slots[j].min
               max == type.slots[j].max
    <3>9. /\ c \in Nat /\ e \in Nat /\ min \in Nat /\ max \in Nat
          /\ c <= e /\ e < max /\ c \in min..max /\ d \in {c, c + 1}
      BY <2>2, <3>3, <3>5, <3>6, <3>7, <3>8
    <3> HIDE DEF c, d, e, min, max
    <3>10. d \in min..max
      BY <3>9
    <3> QED  BY <3>4, <3>10 DEF d, min, max
  <2> QED  BY <2>3, <2>4
<1>4. \A g \in fs \cup {f} : FileFits(type, g)
  BY DEF ValidateFiles
<1> QED  BY <1>3, <1>4 DEF ValidateFiles

\* The check before the upload is the check after it, if one release makes both
\* on the same files and none of them bears a former id of the slot.
THEOREM UploadsAreAttached == Spec => AllowedUploadsAreAttached
<1>1. Init => Foreseen
  BY DEF Init, Foreseen
<1>2. ASSUME IInv, Foreseen, NEW u \in Upload, NEW release \in running,
             AttachFile(u, release), granted[u].release = release,
             granted[u].files = files, ValidateFiles(Type(release), files),
             ~HasFormerFiles(Type(release), file[u])
      PROVE  files' = files \cup {file[u]}
  <2>1. stage[u] = "uploaded" /\ file[u] # NoFile /\ file[u].id = u
    BY <1>2, UploadsAssumption DEF IInv, TypeOK, AttachFile
  <2>2. Checked(u)
    BY <1>2, <2>1 DEF Foreseen
  <2>3. files # Gone
    BY <1>2, <2>2 DEF Checked
  <2>4. Sound(Type(release))
    BY <1>2, TypesOfRelease DEF IInv, TypeOK, Served
  <2>5. CASE u \in Ids(files)
    <3>1. file[u] \in files
      <4>1. PICK f \in files : f.id = u
        BY <2>5 DEF Ids
      <4>2. PICK v \in Upload : f = file[v] /\ f # NoFile
        BY <1>2, <2>3, <4>1 DEF IInv, TypeOK
      <4>3. v = u
        BY <1>2, <4>1, <4>2 DEF IInv, TypeOK
      <4> QED  BY <4>1, <4>2, <4>3
    <3> QED  BY <1>2, <2>3, <2>5, <3>1 DEF AttachFile, AttachOutcome, Appended
  <2>6. CASE u \notin Ids(files)
    <3>1. IsFiniteSet(files)
      BY <1>2, <2>3 DEF IInv, Stored
    <3>2. \A g \in files :
             HasSlot(Type(release), g.role)
             /\ Slot(Type(release), g.role) = Slot(Type(release), file[u].role)
             => g.role = Slot(Type(release), file[u].role).id
      BY <1>2 DEF HasFormerFiles
    <3>3. /\ FileFits(Type(release), file[u])
          /\ Cardinality(FilesInSlot(files, Slot(Type(release), file[u].role).id))
               < Slot(Type(release), file[u].role).max
      BY <1>2, <2>2 DEF Checked
    <3>4. ValidateFiles(Type(release), files \cup {file[u]})
      BY <1>2, <2>4, <3>1, <3>2, <3>3, OneMoreFits
    <3> QED  BY <1>2, <2>3, <2>6, <3>4 DEF AttachFile, AttachOutcome, Appended
  <2> QED  BY <2>5, <2>6
<1>3. IInv /\ Foreseen /\ [Next]_vars =>
         [\A u \in Upload, release \in running :
            /\ AttachFile(u, release)
            /\ granted[u].release = release
            /\ granted[u].files = files
            /\ ValidateFiles(Type(release), files)
            /\ ~HasFormerFiles(Type(release), file[u])
            => files' = files \cup {file[u]}]_vars
  BY <1>2
<1> QED  BY <1>1, <1>3, ForeseenIsKept, UploadsAreKept, PTL
         DEF Spec, AllowedUploadsAreAttached

-----------------------------------------------------------------------------
\* What would make the comment of handlers_archives.go true (CatalogueIsCurrent,
\* which the code as it is breaks): if no two catalogues that load had the same
\* ETag, a 304 would mean that the client has the registry that answered.
THEOREM AnExactETagIsEnough ==
    ASSUME \A old, new \in Release :
              Loads(old) /\ Loads(new) /\ TypesETag(old) = TypesETag(new) => old = new
    PROVE  Spec => []CatalogueIsCurrent
<1> DEFINE Loaded ==
        \A c \in Client : cache[c] # NoCatalogue \/ HasAsked(c) =>
            cache[c] = asked[c] /\ asked[c] \in Release /\ Loads(asked[c])
<1>1. Init => Loaded
  BY DEF Init, CatalogueInit, HasAsked
<1>2. IInv /\ Loaded /\ [Next]_vars => Loaded'
  <2> SUFFICES ASSUME IInv, Loaded, [Next]_vars PROVE Loaded'
    OBVIOUS
  <2>1. CASE UNCHANGED <<cache, asked>>
    BY <2>1 DEF HasAsked
  <2>2. ASSUME NEW c \in Client, NEW release \in running, ListItemTypes(c, release)
        PROVE  Loaded'
    <3>1. release \in Release /\ Loads(release) /\ release # NoCatalogue
      BY CatalogueAssumption DEF IInv, TypeOK, Served
    <3>2. cache \in [Client -> Release \cup {NoCatalogue}]
          /\ asked \in [Client -> Release \cup {NoCatalogue}]
      BY DEF IInv, TypeOK
    <3>3. \A d \in Client \ {c} : cache'[d] = cache[d] /\ asked'[d] = asked[d]
      BY <2>2, <3>2 DEF ListItemTypes
    <3>4. asked'[c] = release
      BY <2>2, <3>2 DEF ListItemTypes
    <3>5. cache'[c] = release
      <4>1. cache'[c] = IF cache[c] # NoCatalogue /\ TypesETag(cache[c]) = TypesETag(release)
                        THEN cache[c] ELSE release
        BY <2>2, <3>2 DEF ListItemTypes
      <4>2. CASE cache[c] # NoCatalogue /\ TypesETag(cache[c]) = TypesETag(release)
        <5>1. cache[c] \in Release /\ Loads(cache[c])
          BY <3>2, <4>2
        <5> QED  BY <3>1, <4>1, <4>2, <5>1
      <4> QED  BY <4>1, <4>2
    <3> QED  BY <3>1, <3>3, <3>4, <3>5 DEF HasAsked
  <2> QED
    BY <2>1, <2>2
       DEF Next, CatalogueNext, Deploy, Retire, CreateUploadURL, PutObject, Confirm,
           AttachFile, DeleteFile, DeleteItem, catalogueVars, vars
<1>3. Loaded => CatalogueIsCurrent
  BY DEF CatalogueIsCurrent
<1> QED  BY <1>1, <1>2, <1>3, UploadsAreKept, PTL DEF Spec
=============================================================================
