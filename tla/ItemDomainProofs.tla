--------------------------- MODULE ItemDomainProofs ---------------------------
(***************************************************************************)
(* Lemmas about the pure operators of ItemDomain: what they return, for    *)
(* every manifest, file list and mutation.                                 *)
(***************************************************************************)
EXTENDS ItemDomain, WellFoundedInduction, SequenceTheorems, FiniteSetTheorems,
        TLAPS

\* A non-empty set of naturals has a least element.
LEMMA LeastElement ==
    ASSUME NEW S, S \subseteq Nat, S # {}
    PROVE  \E x \in S : \A y \in S : x <= y
<1> DEFINE R == {ss \in Nat \X Nat : ss[1] < ss[2]}
<1>1. IsWellFoundedOn(R, Nat)
  BY NatLessThanWellFounded DEF OpToRel
<1>2. PICK x \in S : \A y \in S : ~(<<y, x>> \in R)
  <2> HIDE DEF R
  <2> QED  BY <1>1, WFMin
<1>3. ASSUME NEW y \in S PROVE x <= y
  <2>1. x \in Nat /\ y \in Nat
    OBVIOUS
  <2>2. y < x => <<y, x>> \in R
    BY <2>1
  <2> QED  BY <1>2, <2>1, <2>2
<1> QED
  BY <1>3

\* A non-empty set of naturals holds its minimum.
LEMMA MinIsElement ==
    ASSUME NEW S, S \subseteq Nat, S # {}
    PROVE  Min(S) \in S
BY LeastElement DEF Min

\* PositionOf finds a file with the id exactly when there is one.
LEMMA PositionFound ==
    ASSUME NEW files \in Seq(File), NEW fileId
    PROVE  /\ PositionOf(fileId, files) \in 0..Len(files)
           /\ PositionOf(fileId, files) # 0 =>
                 /\ PositionOf(fileId, files) \in DOMAIN files
                 /\ files[PositionOf(fileId, files)].id = fileId
           /\ (\E i \in DOMAIN files : files[i].id = fileId)
                 => PositionOf(fileId, files) # 0
<1> DEFINE I == {i \in 1..Len(files) : files[i].id = fileId}
<1>1. /\ Len(files) \in Nat
      /\ DOMAIN files = 1..Len(files)
  BY LenProperties
<1>2. PositionOf(fileId, files) = IF I # {} THEN Min(I) ELSE 0
  BY DEF PositionOf, SelectInSeq
<1>3. I \subseteq Nat
  BY <1>1
<1>4. CASE I = {}
  BY <1>1, <1>2, <1>4
<1>5. CASE I # {}
  <2>1. PositionOf(fileId, files) \in I
    BY <1>2, <1>3, <1>5, MinIsElement
  <2> QED  BY <1>1, <2>1
<1> QED
  BY <1>4, <1>5

\* The cover, when there is one, is a file of the item.
LEMMA CoverIsAFile ==
    ASSUME NEW item, item.files \in Seq(File)
    PROVE  FindCover(item) = 0 \/ FindCover(item) \in DOMAIN item.files
<1> DEFINE files == item.files
           prefs == CoverPreferences(files)
           cands == CoverCandidates(Prefer[Min(prefs)], files)
<1>1. DOMAIN files \subseteq Nat /\ DOMAIN Prefer \subseteq Nat
  BY LenProperties, ManifestAssumption DEF ManifestIsSound
<1>2. prefs # {} => Min(prefs) \in prefs
  <2>1. prefs \subseteq Nat
    BY <1>1 DEF CoverPreferences
  <2> QED  BY <2>1, MinIsElement
<1>3. prefs # {} => Min(cands) \in cands
  <2>1. cands \subseteq Nat
    BY <1>1 DEF CoverCandidates
  <2>2. prefs # {} => cands # {}
    BY <1>2 DEF CoverPreferences
  <2> QED  BY <2>1, <2>2, MinIsElement
<1>4. prefs # {} => Min(cands) \in DOMAIN files
  BY <1>3 DEF CoverCandidates
<1>5. PositionOf(item.coverFileId, files) # 0 =>
         PositionOf(item.coverFileId, files) \in DOMAIN files
  BY PositionFound
<1> QED
  BY <1>4, <1>5 DEF FindCover

\* Normalize changes only derived fields, and derives them from the files.
LEMMA NormalizeDerives ==
    ASSUME NEW item \in Item
    PROVE  /\ Normalize(item) \in Item
           /\ Normalize(item).version = item.version
           /\ Normalize(item).title = item.title
           /\ Normalize(item).date = item.date
           /\ Normalize(item).files = item.files
           /\ Normalize(item).capabilities = DeriveCapabilities(item.files)
           /\ Normalize(item).coverFileId \in FileIds(item) \cup {NoFile}
           /\ Normalize(item).coverPinned => Normalize(item).coverFileId # NoFile
<1> DEFINE at == FindCover(item)
           derived == DeriveCover(item)
<1>1. item.files \in Seq(File)
  BY DEF Item
<1>2. /\ Len(item.files) \in Nat
      /\ at = 0 \/ at \in DOMAIN item.files
  BY <1>1, CoverIsAFile, LenProperties
<1>3. at # 0 => /\ item.files[at] \in File
                /\ item.files[at].id \in FileIds(item)
                /\ item.files[at].id \in FileId
                /\ item.files[at].family \in Family \cup {Unsupported}
  <2> HIDE DEF at
  <2>1. \A i \in DOMAIN item.files : item.files[i] \in File
    BY <1>1, LenProperties, ElementOfSeq
  <2>2. \A i \in DOMAIN item.files : item.files[i].id \in FileIds(item)
    BY DEF FileIds
  <2> QED  BY <1>2, <2>1, <2>2 DEF File
<1>4. /\ derived \in Item
      /\ derived.version = item.version
      /\ derived.title = item.title
      /\ derived.date = item.date
      /\ derived.files = item.files
      /\ derived.coverFileId \in FileIds(item) \cup {NoFile}
      /\ derived.coverPinned => derived.coverFileId # NoFile
  <2>1. CASE at = 0
    BY <2>1 DEF DeriveCover, Item
  <2>2. CASE at # 0
    <3>1. derived = [item EXCEPT !.coverFileId = item.files[at].id,
                                 !.coverContentType = item.files[at].family]
      BY <2>2 DEF DeriveCover
    <3>2. item.files[at].id # NoFile
      BY <1>3, <2>2, SentinelAssumption
    <3> QED  BY <1>3, <2>2, <3>1, <3>2 DEF Item
  <2> QED  BY <2>1, <2>2
<1>5. DeriveCapabilities(item.files) \in SUBSET Family
  BY DEF DeriveCapabilities
<1>6. Normalize(item) = [derived EXCEPT
          !.capabilities = DeriveCapabilities(item.files),
          !.fileCount = Len(item.files)]
  BY DEF Normalize
<1> HIDE DEF derived, at
<1> QED
  BY <1>2, <1>4, <1>5, <1>6 DEF Item

\* What RemoveAt does, position by position.
LEMMA RemoveAtShortens ==
    ASSUME NEW S, NEW s \in Seq(S), NEW i \in 1..Len(s)
    PROVE  /\ RemoveAt(s, i) \in Seq(S)
           /\ Len(RemoveAt(s, i)) = Len(s) - 1
           /\ \A j \in 1..Len(s) - 1 :
                 RemoveAt(s, i)[j] = IF j < i THEN s[j] ELSE s[j + 1]
<1> DEFINE head == SubSeq(s, 1, i - 1)
           tail == SubSeq(s, i + 1, Len(s))
<1>1. Len(s) \in Nat /\ i \in Nat /\ \A j \in 1..Len(s) : s[j] \in S
  BY LenProperties, ElementOfSeq
<1>2. /\ head \in Seq(S)
      /\ Len(head) = i - 1
      /\ \A j \in 1..i - 1 : head[j] = s[j]
  BY <1>1, SubSeqProperties
<1>3. /\ tail \in Seq(S)
      /\ Len(tail) = Len(s) - i
      /\ \A j \in 1..Len(s) - i : tail[j] = s[i + j]
  <2>1. \A j \in i + 1..Len(s) : s[j] \in S
    BY <1>1
  <2>2. /\ tail \in Seq(S)
        /\ Len(tail) = IF i + 1 <= Len(s) THEN Len(s) - (i + 1) + 1 ELSE 0
        /\ \A j \in 1..Len(s) - (i + 1) + 1 : tail[j] = s[(i + 1) + j - 1]
    BY <1>1, <2>1, SubSeqProperties
  <2> QED  BY <1>1, <2>2
<1> HIDE DEF head, tail
<1>4. /\ head \o tail \in Seq(S)
      /\ Len(head \o tail) = Len(head) + Len(tail)
      /\ \A j \in 1..Len(head) + Len(tail) :
            (head \o tail)[j] = IF j <= Len(head) THEN head[j] ELSE tail[j - Len(head)]
  BY <1>2, <1>3, ConcatProperties
<1>5. RemoveAt(s, i) = head \o tail
  BY DEF RemoveAt, head, tail
<1>6. Len(head \o tail) = Len(s) - 1
  BY <1>1, <1>2, <1>3, <1>4
<1>7. ASSUME NEW j \in 1..Len(s) - 1
      PROVE  (head \o tail)[j] = IF j < i THEN s[j] ELSE s[j + 1]
  <2>1. CASE j < i
    <3>1. j \in 1..i - 1 /\ j \in 1..Len(head) + Len(tail) /\ j <= Len(head)
      BY <1>1, <1>2, <1>3, <2>1
    <3> QED  BY <1>2, <1>4, <2>1, <3>1
  <2>2. CASE ~(j < i)
    <3>1. /\ j \in 1..Len(head) + Len(tail)
          /\ ~(j <= Len(head))
          /\ j - Len(head) \in 1..Len(s) - i
          /\ i + (j - Len(head)) = j + 1
      BY <1>1, <1>2, <1>3, <2>2
    <3>2. tail[j - Len(head)] = s[i + (j - Len(head))]
      BY <1>3, <3>1
    <3> QED  BY <1>4, <2>2, <3>1, <3>2
  <2> QED  BY <2>1, <2>2
<1> QED
  BY <1>4, <1>5, <1>6, <1>7

\* A mutation the callback does not refuse yields an item with the same
\* version, and never two files with one id.
LEMMA MutateKeepsFilesDistinct ==
    ASSUME NEW item \in Item, NEW op \in MutationOp,
           Refusal(op, item) = "none",
           DistinctFiles(item.files)
    PROVE  DistinctFiles(Mutate(op, item).files)
<1>1. /\ item.files \in Seq(File)
      /\ Len(item.files) \in Nat
      /\ DOMAIN item.files = 1..Len(item.files)
  BY LenProperties DEF Item
<1>2. CASE op \in PatchOp
  BY <1>2 DEF PatchOp, Mutate, ApplyPatch, Item
<1>3. CASE op \in AttachOp
  <2>1. Mutate(op, item) = AppendFile(op.file, item) /\ op.file \in File
    BY <1>3 DEF AttachOp, Mutate
  <2>2. CASE op.file.id \in FileIds(item)
    BY <2>1, <2>2 DEF AppendFile
  <2>3. CASE op.file.id \notin FileIds(item)
    <3>1. Mutate(op, item).files = Append(item.files, op.file)
      BY <2>1, <2>3 DEF AppendFile, Item
    <3>2. \A i \in DOMAIN item.files : item.files[i].id # op.file.id
      BY <2>3 DEF FileIds
    <3> QED  BY <1>1, <2>1, <3>1, <3>2, AppendProperties DEF DistinctFiles
  <2> QED  BY <2>2, <2>3
<1>4. CASE op \in DetachOp
  <2> DEFINE at == PositionOf(op.fileId, item.files)
  <2>1. op.fileId \in FileIds(item)
    BY <1>4 DEF DetachOp, Refusal
  <2>2. at \in 1..Len(item.files)
    <3>1. \E i \in DOMAIN item.files : item.files[i].id = op.fileId
      BY <2>1 DEF FileIds
    <3> QED  BY <1>1, <3>1, PositionFound
  <2>3. Mutate(op, item).files = RemoveAt(item.files, at)
    BY <1>4 DEF DetachOp, Mutate, DeleteFile, Item
  <2> HIDE DEF at
  <2>4. /\ RemoveAt(item.files, at) \in Seq(File)
        /\ Len(RemoveAt(item.files, at)) = Len(item.files) - 1
        /\ \A j \in 1..Len(item.files) - 1 :
              RemoveAt(item.files, at)[j] =
                 IF j < at THEN item.files[j] ELSE item.files[j + 1]
    BY <1>1, <2>2, RemoveAtShortens
  <2>5. DOMAIN RemoveAt(item.files, at) = 1..Len(item.files) - 1
    BY <2>4, LenProperties
  <2>6. ASSUME NEW j \in 1..Len(item.files) - 1, NEW k \in 1..Len(item.files) - 1,
               RemoveAt(item.files, at)[j].id = RemoveAt(item.files, at)[k].id
        PROVE  j = k
    <3> DEFINE from(n) == IF n < at THEN n ELSE n + 1
    <3>1. /\ RemoveAt(item.files, at)[j] = item.files[from(j)]
          /\ RemoveAt(item.files, at)[k] = item.files[from(k)]
      BY <2>4
    <3>2. from(j) \in DOMAIN item.files /\ from(k) \in DOMAIN item.files
      BY <1>1, <2>2
    <3>3. from(j) = from(k)
      BY <2>6, <3>1, <3>2 DEF DistinctFiles
    <3> QED  BY <1>1, <2>2, <3>3
  <2> QED  BY <2>3, <2>5, <2>6 DEF DistinctFiles
<1>5. CASE op \in ReorderOp
  <2>1. IsReordering(op.order, item) /\ op.order \in Seq(FileId)
    BY <1>5 DEF ReorderOp, Refusal
  <2>2. Mutate(op, item).files =
           [i \in DOMAIN op.order |->
               item.files[PositionOf(op.order[i], item.files)]]
    BY <1>5 DEF ReorderOp, Mutate, ReorderFiles, Item
  <2>3. \A i \in DOMAIN op.order :
           item.files[PositionOf(op.order[i], item.files)].id = op.order[i]
    BY <1>1, <2>1, PositionFound DEF IsReordering, FileIds
  <2> QED  BY <2>1, <2>2, <2>3 DEF DistinctFiles, IsReordering
<1> QED
  BY <1>2, <1>3, <1>4, <1>5 DEF MutationOp

\* A mutation the callback does not refuse yields an item of the same version.
LEMMA MutateYieldsItem ==
    ASSUME NEW item \in Item, NEW op \in MutationOp,
           Refusal(op, item) = "none"
    PROVE  /\ Mutate(op, item) \in Item
           /\ Mutate(op, item).version = item.version
<1>1. /\ item.files \in Seq(File)
      /\ Len(item.files) \in Nat
      /\ DOMAIN item.files = 1..Len(item.files)
  BY LenProperties DEF Item
<1>2. CASE op \in PatchOp
  BY <1>2 DEF PatchOp, Mutate, ApplyPatch, Item
<1>3. CASE op \in AttachOp
  <2>1. Mutate(op, item) = AppendFile(op.file, item) /\ op.file \in File
    BY <1>3 DEF AttachOp, Mutate
  <2>2. Append(item.files, op.file) \in Seq(File)
    BY <1>1, <2>1, AppendProperties
  <2> QED  BY <2>1, <2>2 DEF AppendFile, Item
<1>4. CASE op \in DetachOp
  <2>1. op.fileId \in FileIds(item)
    BY <1>4 DEF DetachOp, Refusal
  <2>2. RemoveAt(item.files, PositionOf(op.fileId, item.files)) \in Seq(File)
    <3>1. \E i \in DOMAIN item.files : item.files[i].id = op.fileId
      BY <2>1 DEF FileIds
    <3>2. PositionOf(op.fileId, item.files) \in 1..Len(item.files)
      BY <1>1, <3>1, PositionFound
    <3> QED  BY <1>1, <3>2, RemoveAtShortens
  <2>3. Mutate(op, item) = [item EXCEPT !.files =
                              RemoveAt(item.files, PositionOf(op.fileId, item.files))]
    BY <1>4 DEF DetachOp, Mutate, DeleteFile, Item
  <2> QED  BY <2>2, <2>3 DEF Item
<1>5. CASE op \in ReorderOp
  <2> DEFINE new == [i \in DOMAIN op.order |->
                        item.files[PositionOf(op.order[i], item.files)]]
  <2>1. IsReordering(op.order, item) /\ op.order \in Seq(FileId)
    BY <1>5 DEF ReorderOp, Refusal
  <2>2. \A i \in DOMAIN op.order :
           item.files[PositionOf(op.order[i], item.files)] \in File
    <3>1. \A i \in DOMAIN op.order :
             PositionOf(op.order[i], item.files) \in 1..Len(item.files)
      BY <1>1, <2>1, PositionFound DEF IsReordering, FileIds
    <3> QED  BY <1>1, <3>1, ElementOfSeq
  <2>3. DOMAIN op.order = 1..Len(op.order) /\ Len(op.order) \in Nat
    BY <2>1, LenProperties
  <2>4. new \in Seq(File)
    BY <2>2, <2>3
  <2>5. Mutate(op, item) = [item EXCEPT !.files = new]
    BY <1>5 DEF ReorderOp, Mutate, ReorderFiles, Item
  <2> HIDE DEF new
  <2> QED  BY <2>4, <2>5 DEF Item
<1> QED
  BY <1>2, <1>3, <1>4, <1>5 DEF MutationOp

\* Normalizing an item that is valid and holds no upload twice makes it sound.
LEMMA NormalizeMakesSound ==
    ASSUME NEW item \in Item, Validate(item), DistinctFiles(item.files)
    PROVE  IsSound(Normalize(item))
<1>1. /\ Normalize(item).title = item.title
      /\ Normalize(item).date = item.date
      /\ Normalize(item).files = item.files
      /\ Normalize(item).capabilities = DeriveCapabilities(item.files)
      /\ Normalize(item).coverFileId \in FileIds(item) \cup {NoFile}
      /\ Normalize(item).coverPinned => Normalize(item).coverFileId # NoFile
  BY NormalizeDerives
<1>2. Validate(Normalize(item))
  BY <1>1 DEF Validate
<1>3. FileIds(Normalize(item)) = FileIds(item)
  BY <1>1 DEF FileIds
<1> QED
  BY <1>1, <1>2, <1>3 DEF IsSound

\* What the store saves: one version on, and sound if the item was.
LEMMA SavedIsSound ==
    ASSUME NEW item \in Item, NEW op \in MutationOp, Accepted(op, item)
    PROVE  /\ Saved(op, item) \in Item
           /\ Saved(op, item).version = item.version + 1
           /\ IsSound(item) => IsSound(Saved(op, item))
<1> DEFINE new == Mutated(op, item)
<1>1. Refusal(op, item) = "none" /\ Validate(new)
  BY DEF Accepted
<1>2. /\ Mutate(op, item) \in Item
      /\ new = [Mutate(op, item) EXCEPT !.version = item.version + 1]
  BY <1>1, MutateYieldsItem DEF Mutated
<1>3. /\ new \in Item
      /\ new.version = item.version + 1
      /\ new.files = Mutate(op, item).files
  <2>1. item.version + 1 \in Nat
    BY DEF Item
  <2> QED  BY <1>2, <2>1 DEF Item
<1>4. IsSound(item) => DistinctFiles(new.files)
  BY <1>1, <1>3, MutateKeepsFilesDistinct DEF IsSound
<1> HIDE DEF new
<1>5. Saved(op, item) = Normalize(new)
  BY DEF Saved, new
<1> QED
  BY <1>1, <1>3, <1>4, <1>5, NormalizeDerives, NormalizeMakesSound

\* CreateItem's first record.
LEMMA NewItemIsSound ==
    ASSUME NEW content \in [title : Title \cup {Blank}, date : Date \cup {NoDate}]
    PROVE  /\ NewItem(content) \in Item
           /\ Normalize(NewItem(content)) \in Item
           /\ Normalize(NewItem(content)).version = 1
           /\ Validate(NewItem(content)) => IsSound(Normalize(NewItem(content)))
<1>1. <<>> \in Seq(File) /\ DOMAIN <<>> = {}
  BY EmptySeq
<1>2. /\ NewItem(content) \in Item
      /\ NewItem(content).version = 1
      /\ NewItem(content).files = <<>>
  BY <1>1 DEF NewItem, Item
<1>3. DistinctFiles(NewItem(content).files)
  BY <1>1, <1>2 DEF DistinctFiles
<1> QED
  BY <1>2, <1>3, NormalizeDerives, NormalizeMakesSound

\* A list as long as a set of ids is large, without repetitions and of these
\* ids only, misses none of them.
LEMMA ReorderingIsComplete ==
    ASSUME NEW item \in Item, NEW order \in Seq(FileId), IsReordering(order, item)
    PROVE  \A f \in FileIds(item) : \E i \in DOMAIN order : order[i] = f
<1> DEFINE n == Len(item.files)
           ids == [i \in 1..n |-> item.files[i].id]
           named == {order[i] : i \in 1..n}
<1>1. /\ n \in Nat /\ DOMAIN item.files = 1..n
      /\ Len(order) = n /\ DOMAIN order = 1..n
  BY LenProperties DEF Item, IsReordering
<1>2. IsFiniteSet(1..n)
  BY <1>1, FS_Interval
<1>3. ids \in Surjection(1..n, FileIds(item))
  BY <1>1 DEF FileIds, Surjection
<1>4. IsFiniteSet(FileIds(item)) /\ Cardinality(FileIds(item)) <= Cardinality(1..n)
  BY <1>2, <1>3, FS_Surjection, Zenon
<1>5. [i \in 1..n |-> order[i]] \in Bijection(1..n, named)
  BY <1>1 DEF IsReordering, Bijection, Injection, Surjection, IsInjective
<1>6. IsFiniteSet(named) /\ Cardinality(named) = Cardinality(1..n)
  BY <1>2, <1>5, FS_Bijection DEF ExistsBijection
<1>7. named \subseteq FileIds(item)
  BY <1>1 DEF IsReordering
<1>8. Cardinality(named) <= Cardinality(FileIds(item))
  BY <1>4, <1>7, FS_Subset
<1>9. Cardinality(named) \in Int /\ Cardinality(FileIds(item)) \in Int
  BY <1>4, <1>6, FS_CardinalityType
<1>10. named = FileIds(item)
  BY <1>4, <1>6, <1>7, <1>8, <1>9, FS_Subset
<1> QED
  BY <1>1, <1>10

\* A mutation adds no file but the one attached, and takes none but the one
\* detached.
LEMMA MutateChangesOneFile ==
    ASSUME NEW item \in Item, NEW op \in MutationOp, Refusal(op, item) = "none"
    PROVE  /\ \A f \in FileIds(item) \ FileIds(Mutate(op, item)) :
                 op = [kind |-> "detach", fileId |-> f]
           /\ \A f \in FileIds(Mutate(op, item)) \ FileIds(item) :
                 op.kind = "attach" /\ op.file.id = f
           /\ op.kind = "attach" => op.file.id \in FileIds(Mutate(op, item))
<1>1. /\ item.files \in Seq(File)
      /\ Len(item.files) \in Nat
      /\ DOMAIN item.files = 1..Len(item.files)
  BY LenProperties DEF Item
<1>2. CASE op \in PatchOp
  <2>1. Mutate(op, item).files = item.files /\ op.kind = "patch"
    BY <1>2 DEF PatchOp, Mutate, ApplyPatch, Item
  <2> QED  BY <2>1 DEF FileIds
<1>3. CASE op \in AttachOp
  <2>1. Mutate(op, item) = AppendFile(op.file, item) /\ op.kind = "attach"
    BY <1>3 DEF AttachOp, Mutate
  <2>2. CASE op.file.id \in FileIds(item)
    BY <2>1, <2>2 DEF AppendFile
  <2>3. CASE op.file.id \notin FileIds(item)
    <3>1. Mutate(op, item).files = Append(item.files, op.file)
      BY <2>1, <2>3 DEF AppendFile, Item
    <3>2. op.file \in File
      BY <1>3 DEF AttachOp
    <3>3. FileIds(Mutate(op, item)) = FileIds(item) \cup {op.file.id}
      BY <1>1, <3>1, <3>2, AppendProperties DEF FileIds
    <3> QED  BY <2>1, <3>3
  <2> QED  BY <2>2, <2>3
<1>4. CASE op \in DetachOp
  <2> DEFINE at == PositionOf(op.fileId, item.files)
  <2>1. op.fileId \in FileIds(item) /\ op = [kind |-> "detach", fileId |-> op.fileId]
    BY <1>4 DEF DetachOp, Refusal
  <2>2. at \in 1..Len(item.files) /\ item.files[at].id = op.fileId
    <3>1. \E i \in DOMAIN item.files : item.files[i].id = op.fileId
      BY <2>1 DEF FileIds
    <3> QED  BY <1>1, <3>1, PositionFound
  <2>3. Mutate(op, item).files = RemoveAt(item.files, at)
    BY <1>4 DEF DetachOp, Mutate, DeleteFile, Item
  <2> HIDE DEF at
  <2> DEFINE left == RemoveAt(item.files, at)
  <2>4. /\ left \in Seq(File)
        /\ Len(left) = Len(item.files) - 1
        /\ \A j \in 1..Len(item.files) - 1 :
              left[j] = IF j < at THEN item.files[j] ELSE item.files[j + 1]
    BY <1>1, <2>2, RemoveAtShortens
  <2>5. DOMAIN left = 1..Len(item.files) - 1
    BY <2>4, LenProperties
  <2> HIDE DEF left
  <2>6. \A j \in DOMAIN left : left[j].id \in FileIds(item)
    BY <1>1, <2>2, <2>4, <2>5 DEF FileIds
  <2>7. ASSUME NEW i \in 1..Len(item.files), i # at
        PROVE  \E j \in DOMAIN left : left[j] = item.files[i]
    <3>1. CASE i < at
      BY <1>1, <2>2, <2>4, <2>5, <3>1
    <3>2. CASE i > at
      <4>1. i - 1 \in DOMAIN left /\ ~(i - 1 < at) /\ (i - 1) + 1 = i
        BY <1>1, <2>2, <2>5, <3>2
      <4> QED  BY <2>4, <2>5, <4>1
    <3> QED  BY <1>1, <2>2, <2>7, <3>1, <3>2
  <2>8. FileIds(Mutate(op, item)) = {left[j].id : j \in DOMAIN left}
    BY <2>3 DEF FileIds, left
  <2>9. \A f \in FileIds(item) \ FileIds(Mutate(op, item)) : f = op.fileId
    BY <1>1, <2>2, <2>7, <2>8 DEF FileIds
  <2> QED  BY <1>4, <2>1, <2>6, <2>8, <2>9 DEF DetachOp
<1>5. CASE op \in ReorderOp
  <2>1. IsReordering(op.order, item) /\ op.order \in Seq(FileId) /\ op.kind = "reorder"
    BY <1>5 DEF ReorderOp, Refusal
  <2>2. Mutate(op, item).files =
           [i \in DOMAIN op.order |->
               item.files[PositionOf(op.order[i], item.files)]]
    BY <1>5 DEF ReorderOp, Mutate, ReorderFiles, Item
  <2>3. \A i \in DOMAIN op.order :
           item.files[PositionOf(op.order[i], item.files)].id = op.order[i]
    BY <1>1, <2>1, PositionFound DEF IsReordering, FileIds
  <2>4. FileIds(Mutate(op, item)) = {op.order[i] : i \in DOMAIN op.order}
    BY <2>2, <2>3 DEF FileIds
  <2>5. {op.order[i] : i \in DOMAIN op.order} \subseteq FileIds(item)
    BY <2>1 DEF IsReordering
  <2> QED  BY <2>1, <2>4, <2>5, ReorderingIsComplete
<1> QED
  BY <1>2, <1>3, <1>4, <1>5 DEF MutationOp

\* The same of what is saved, and only a patch that says so changes metadata.
LEMMA SavedChangesWhatWasAsked ==
    ASSUME NEW item \in Item, NEW op \in MutationOp, Accepted(op, item)
    PROVE  /\ \A f \in FileIds(item) \ FileIds(Saved(op, item)) :
                 op = [kind |-> "detach", fileId |-> f]
           /\ \A f \in FileIds(Saved(op, item)) \ FileIds(item) :
                 op.kind = "attach" /\ op.file.id = f
           /\ op.kind = "attach" => op.file.id \in FileIds(Saved(op, item))
           /\ Saved(op, item).title # item.title =>
                 op.kind = "patch" /\ op.title = Saved(op, item).title
           /\ Saved(op, item).date # item.date =>
                 op.kind = "patch" /\ op.date # Absent
<1> DEFINE next == Mutated(op, item)
           mutated == Mutate(op, item)
<1>1. Refusal(op, item) = "none"
  BY DEF Accepted
<1>2. mutated \in Item
  BY <1>1, MutateYieldsItem
<1>3. /\ next \in Item
      /\ next.files = mutated.files
      /\ next.title = mutated.title /\ next.date = mutated.date
  <2>1. item.version + 1 \in Nat
    BY DEF Item
  <2> QED  BY <1>2, <2>1 DEF Item, Mutated
<1>4. /\ Saved(op, item).files = mutated.files
      /\ Saved(op, item).title = mutated.title
      /\ Saved(op, item).date = mutated.date
  BY <1>3, NormalizeDerives DEF Saved
<1>5. FileIds(Saved(op, item)) = FileIds(mutated)
  BY <1>4 DEF FileIds
<1>6. /\ mutated.title # item.title => op.kind = "patch" /\ op.title = mutated.title
      /\ mutated.date # item.date => op.kind = "patch" /\ op.date # Absent
  <2>1. CASE op \in PatchOp
    BY <2>1 DEF PatchOp, Mutate, ApplyPatch, Item
  <2>2. CASE op \notin PatchOp
    BY <2>2 DEF MutationOp, AttachOp, DetachOp, ReorderOp, Mutate, AppendFile,
                DeleteFile, ReorderFiles, Item
  <2> QED  BY <2>1, <2>2
<1> QED
  BY <1>1, <1>4, <1>5, <1>6, MutateChangesOneFile
-----------------------------------------------------------------------------
\* The files of an item, whatever their order.
FilesIn(item) == {item.files[i] : i \in DOMAIN item.files}

\* A mutation attaches its file, or detaches the one it names; the other files
\* stay as they are, a reordering's too.
LEMMA MutateKeepsOtherFiles ==
    ASSUME NEW item \in Item, NEW op \in MutationOp, Refusal(op, item) = "none",
           DistinctFiles(item.files)
    PROVE  /\ op.kind = "attach" =>
                 FilesIn(Mutate(op, item)) =
                    IF op.file.id \in FileIds(item) THEN FilesIn(item)
                    ELSE FilesIn(item) \cup {op.file}
           /\ op.kind = "detach" =>
                 FilesIn(Mutate(op, item)) = {f \in FilesIn(item) : f.id # op.fileId}
           /\ op.kind \in {"patch", "reorder"} =>
                 FilesIn(Mutate(op, item)) = FilesIn(item)
<1>1. /\ item.files \in Seq(File)
      /\ Len(item.files) \in Nat
      /\ DOMAIN item.files = 1..Len(item.files)
  BY LenProperties DEF Item
<1>2. CASE op \in PatchOp
  <2>1. Mutate(op, item).files = item.files /\ op.kind = "patch"
    BY <1>2 DEF PatchOp, Mutate, ApplyPatch, Item
  <2> QED  BY <2>1 DEF FilesIn
<1>3. CASE op \in AttachOp
  <2>1. Mutate(op, item) = AppendFile(op.file, item) /\ op.kind = "attach"
    BY <1>3 DEF AttachOp, Mutate
  <2>2. CASE op.file.id \in FileIds(item)
    BY <2>1, <2>2 DEF AppendFile
  <2>3. CASE op.file.id \notin FileIds(item)
    <3>1. Mutate(op, item).files = Append(item.files, op.file)
      BY <2>1, <2>3 DEF AppendFile, Item
    <3>2. op.file \in File
      BY <1>3 DEF AttachOp
    <3>3. FilesIn(Mutate(op, item)) = FilesIn(item) \cup {op.file}
      BY <1>1, <3>1, <3>2, AppendProperties DEF FilesIn
    <3> QED  BY <2>1, <2>3, <3>3
  <2> QED  BY <2>2, <2>3, <2>1
<1>4. CASE op \in DetachOp
  <2> DEFINE at == PositionOf(op.fileId, item.files)
  <2>1. op.fileId \in FileIds(item) /\ op.kind = "detach"
    BY <1>4 DEF DetachOp, Refusal
  <2>2. at \in 1..Len(item.files) /\ item.files[at].id = op.fileId
    <3>1. \E i \in DOMAIN item.files : item.files[i].id = op.fileId
      BY <2>1 DEF FileIds
    <3> QED  BY <1>1, <3>1, PositionFound
  <2>3. Mutate(op, item).files = RemoveAt(item.files, at)
    BY <1>4 DEF DetachOp, Mutate, DeleteFile, Item
  <2> HIDE DEF at
  <2> DEFINE left == RemoveAt(item.files, at)
  <2>4. /\ left \in Seq(File)
        /\ Len(left) = Len(item.files) - 1
        /\ \A j \in 1..Len(item.files) - 1 :
              left[j] = IF j < at THEN item.files[j] ELSE item.files[j + 1]
    BY <1>1, <2>2, RemoveAtShortens
  <2>5. DOMAIN left = 1..Len(item.files) - 1
    BY <2>4, LenProperties
  <2> HIDE DEF left
  <2>6. \A j \in DOMAIN left : \E i \in DOMAIN item.files :
           i # at /\ left[j] = item.files[i]
    <3>1. SUFFICES ASSUME NEW j \in 1..Len(item.files) - 1
                   PROVE  \E i \in 1..Len(item.files) :
                             i # at /\ left[j] = item.files[i]
      BY <1>1, <2>5
    <3>2. at \in Nat /\ j \in Nat /\ j \in 1..Len(item.files)
          /\ j + 1 \in 1..Len(item.files)
      BY <1>1, <2>2
    <3>3. CASE j < at
      <4>1. left[j] = item.files[j] /\ j # at
        BY <2>4, <3>2, <3>3
      <4> QED  BY <3>2, <4>1
    <3>4. CASE ~(j < at)
      <4>1. left[j] = item.files[j + 1] /\ j + 1 # at
        BY <2>4, <3>2, <3>4
      <4> QED  BY <3>2, <4>1
    <3> QED  BY <3>3, <3>4
  <2>7. ASSUME NEW i \in 1..Len(item.files), i # at
        PROVE  \E j \in DOMAIN left : left[j] = item.files[i]
    <3>1. CASE i < at
      BY <1>1, <2>2, <2>4, <2>5, <3>1
    <3>2. CASE i > at
      <4>1. i - 1 \in DOMAIN left /\ ~(i - 1 < at) /\ (i - 1) + 1 = i
        BY <1>1, <2>2, <2>5, <3>2
      <4> QED  BY <2>4, <2>5, <4>1
    <3> QED  BY <1>1, <2>2, <2>7, <3>1, <3>2
  <2>8. \A i \in DOMAIN item.files : item.files[i].id # op.fileId <=> i # at
    BY <1>1, <2>2 DEF DistinctFiles
  <2>9. FilesIn(Mutate(op, item)) = {left[j] : j \in DOMAIN left}
    BY <2>3 DEF FilesIn, left
  <2>10. {left[j] : j \in DOMAIN left} = {f \in FilesIn(item) : f.id # op.fileId}
    <3>1. \A f \in {left[j] : j \in DOMAIN left} : f \in FilesIn(item) /\ f.id # op.fileId
      BY <2>6, <2>8 DEF FilesIn
    <3>2. \A f \in FilesIn(item) : f.id # op.fileId => f \in {left[j] : j \in DOMAIN left}
      BY <1>1, <2>7, <2>8 DEF FilesIn
    <3> QED  BY <3>1, <3>2
  <2> QED  BY <2>1, <2>9, <2>10
<1>5. CASE op \in ReorderOp
  <2>1. IsReordering(op.order, item) /\ op.order \in Seq(FileId) /\ op.kind = "reorder"
    BY <1>5 DEF ReorderOp, Refusal
  <2>2. Mutate(op, item).files =
           [i \in DOMAIN op.order |->
               item.files[PositionOf(op.order[i], item.files)]]
    BY <1>5 DEF ReorderOp, Mutate, ReorderFiles, Item
  <2>3. \A i \in DOMAIN op.order :
           /\ PositionOf(op.order[i], item.files) \in DOMAIN item.files
           /\ item.files[PositionOf(op.order[i], item.files)].id = op.order[i]
    BY <1>1, <2>1, PositionFound DEF IsReordering, FileIds
  <2>4. ASSUME NEW k \in DOMAIN item.files
        PROVE  \E i \in DOMAIN op.order : PositionOf(op.order[i], item.files) = k
    <3>1. PICK i \in DOMAIN op.order : op.order[i] = item.files[k].id
      BY <2>1, ReorderingIsComplete DEF FileIds
    <3> QED  BY <2>3, <3>1 DEF DistinctFiles
  <2>5. FilesIn(Mutate(op, item)) =
           {item.files[PositionOf(op.order[i], item.files)] : i \in DOMAIN op.order}
    BY <2>2 DEF FilesIn
  <2>6. FilesIn(Mutate(op, item)) = FilesIn(item)
    BY <2>3, <2>4, <2>5 DEF FilesIn
  <2> QED  BY <2>1, <2>6
<1> QED
  BY <1>2, <1>3, <1>4, <1>5 DEF MutationOp

-----------------------------------------------------------------------------
(***************************************************************************)
(* Doing it twice.                                                         *)
(***************************************************************************)

\* Items are their fields.
LEMMA SameItem ==
    ASSUME NEW a \in Item, NEW b \in Item,
           a.version = b.version, a.title = b.title, a.date = b.date,
           a.files = b.files, a.capabilities = b.capabilities,
           a.coverFileId = b.coverFileId, a.coverContentType = b.coverContentType,
           a.coverPinned = b.coverPinned, a.fileCount = b.fileCount
    PROVE  a = b
BY DEF Item

\* What Normalize derives, field by field.
LEMMA NormalizedFields ==
    ASSUME NEW item \in Item, NEW at, at = FindCover(item)
    PROVE  /\ Normalize(item).version = item.version
           /\ Normalize(item).title = item.title
           /\ Normalize(item).date = item.date
           /\ Normalize(item).files = item.files
           /\ Normalize(item).capabilities = DeriveCapabilities(item.files)
           /\ Normalize(item).fileCount = Len(item.files)
           /\ Normalize(item).coverFileId =
                 IF at = 0 THEN NoFile ELSE item.files[at].id
           /\ Normalize(item).coverContentType =
                 IF at = 0 THEN NoFile ELSE item.files[at].family
           /\ Normalize(item).coverPinned = IF at = 0 THEN FALSE ELSE item.coverPinned
<1>1. DeriveCover(item) =
         IF at = 0
         THEN [item EXCEPT !.coverFileId = NoFile, !.coverContentType = NoFile,
                           !.coverPinned = FALSE]
         ELSE [item EXCEPT !.coverFileId = item.files[at].id,
                           !.coverContentType = item.files[at].family]
  BY DEF DeriveCover
<1>2. CASE at = 0
  BY <1>1, <1>2 DEF Normalize, Item
<1>3. CASE at # 0
  BY <1>1, <1>3 DEF Normalize, Item
<1> QED  BY <1>2, <1>3

\* Normalize finds the same cover from what was asked and from what it made of
\* that: it may be repeated, with either.
LEMMA NormalizeTwice ==
    ASSUME NEW item \in Item, DistinctFiles(item.files), NEW again \in Item,
           again.title = item.title, again.date = item.date, again.files = item.files,
           NEW from \in {item, Normalize(item)},
           again.coverFileId = from.coverFileId, again.coverPinned = from.coverPinned
    PROVE  Normalize(again) = [Normalize(item) EXCEPT !.version = again.version]
<1> DEFINE files == item.files
           once == Normalize(item)
           at == FindCover(item)
           preferred == IF CoverPreferences(files) = {} THEN 0
                        ELSE Min(CoverCandidates(Prefer[Min(CoverPreferences(files))],
                                                 files))
<1>1. item.files \in Seq(File)
  BY DEF Item
<1>2. \A x \in {item, again} :
         FindCover(x) = IF x.coverPinned /\ PositionOf(x.coverFileId, files) # 0
                        THEN PositionOf(x.coverFileId, files)
                        ELSE preferred
  BY DEF FindCover
<1>3. at = 0 \/ at \in DOMAIN files
  BY <1>1, CoverIsAFile
<1>4. /\ once.coverFileId = IF at = 0 THEN NoFile ELSE files[at].id
      /\ once.coverPinned = IF at = 0 THEN FALSE ELSE item.coverPinned
  BY NormalizedFields
<1>5. at # 0 => PositionOf(files[at].id, files) = at
  <2> SUFFICES ASSUME at # 0 PROVE PositionOf(files[at].id, files) = at
    OBVIOUS
  <2> DEFINE found == PositionOf(files[at].id, files)
  <2>1. at \in DOMAIN files
    BY <1>3
  <2>2. found \in DOMAIN files /\ files[found].id = files[at].id
    BY <1>1, <2>1, PositionFound
  <2> QED  BY <2>1, <2>2 DEF DistinctFiles
<1> HIDE DEF preferred, at, once
<1>6. FindCover(again) = at
  <2>1. CASE from = item
    BY <1>2, <2>1 DEF at
  <2>2. CASE from = once
    <3>1. again.coverPinned = IF at = 0 THEN FALSE ELSE item.coverPinned
      BY <1>4, <2>2
    <3>2. at = IF item.coverPinned /\ PositionOf(item.coverFileId, files) # 0
               THEN PositionOf(item.coverFileId, files)
               ELSE preferred
      BY <1>2 DEF at
    <3>3. CASE at = 0
      BY <1>2, <3>1, <3>2, <3>3
    <3>4. CASE at # 0 /\ item.coverPinned = TRUE
      <4>1. PositionOf(again.coverFileId, files) = at
        BY <1>4, <1>5, <2>2, <3>4
      <4> QED  BY <1>2, <3>1, <3>4, <4>1
    <3>5. CASE at # 0 /\ item.coverPinned = FALSE
      BY <1>2, <3>1, <3>2, <3>5
    <3> QED  BY <3>3, <3>4, <3>5 DEF Item
  <2> QED  BY <2>1, <2>2 DEF once
<1>7. again.coverPinned = item.coverPinned \/ at = 0
  BY <1>4 DEF once
<1>8. /\ once \in Item /\ Normalize(again) \in Item
      /\ again.version \in Nat
  BY NormalizeDerives DEF once, Item
<1>9. [once EXCEPT !.version = again.version] \in Item
  BY <1>8 DEF Item
<1> DEFINE twice == Normalize(again)
           renewed == [once EXCEPT !.version = again.version]
<1>10. /\ renewed.version = again.version /\ renewed.title = once.title
       /\ renewed.date = once.date /\ renewed.files = once.files
       /\ renewed.capabilities = once.capabilities
       /\ renewed.coverFileId = once.coverFileId
       /\ renewed.coverContentType = once.coverContentType
       /\ renewed.coverPinned = once.coverPinned
       /\ renewed.fileCount = once.fileCount
  BY <1>8 DEF Item
<1>11. /\ once.title = item.title /\ once.date = item.date /\ once.files = files
       /\ once.capabilities = DeriveCapabilities(files)
       /\ once.fileCount = Len(files)
       /\ once.coverFileId = IF at = 0 THEN NoFile ELSE files[at].id
       /\ once.coverContentType = IF at = 0 THEN NoFile ELSE files[at].family
       /\ once.coverPinned = IF at = 0 THEN FALSE ELSE item.coverPinned
  BY NormalizedFields DEF once, at
<1>12. /\ twice.version = again.version
       /\ twice.title = item.title /\ twice.date = item.date /\ twice.files = files
       /\ twice.capabilities = DeriveCapabilities(files)
       /\ twice.fileCount = Len(files)
       /\ twice.coverFileId = IF at = 0 THEN NoFile ELSE files[at].id
       /\ twice.coverContentType = IF at = 0 THEN NoFile ELSE files[at].family
       /\ twice.coverPinned = IF at = 0 THEN FALSE ELSE again.coverPinned
  <2>1. at = FindCover(again) /\ again.files = files
    BY <1>6
  <2> HIDE DEF at, files, once, preferred, renewed
  <2>2. /\ twice.version = again.version /\ twice.title = again.title
        /\ twice.date = again.date /\ twice.files = again.files
        /\ twice.capabilities = DeriveCapabilities(again.files)
        /\ twice.fileCount = Len(again.files)
        /\ twice.coverFileId = IF at = 0 THEN NoFile ELSE again.files[at].id
        /\ twice.coverContentType = IF at = 0 THEN NoFile ELSE again.files[at].family
        /\ twice.coverPinned = IF at = 0 THEN FALSE ELSE again.coverPinned
    BY <2>1, NormalizedFields
  <2> QED  BY <2>1, <2>2
<1> HIDE DEF twice, renewed
<1>13. twice = renewed
  <2>1. twice \in Item /\ renewed \in Item
    BY <1>8, <1>9 DEF twice, renewed
  <2> QED  BY <1>7, <1>10, <1>11, <1>12, <2>1, SameItem
<1> QED  BY <1>13 DEF twice, renewed, once

\* A mutation that is done again on what it saved is refused, or changes
\* nothing but the version: a retry whose first write went through unheard
\* does no harm, whatever the operation.
LEMMA MutationsAreIdempotent ==
    ASSUME NEW item \in Item, DistinctFiles(item.files), NEW op \in MutationOp,
           Accepted(op, item), Refusal(op, Saved(op, item)) = "none"
    PROVE  Saved(op, Saved(op, item)) =
              [Saved(op, item) EXCEPT !.version = item.version + 2]
<1> DEFINE new == Mutated(op, item)
           once == Saved(op, item)
           again == Mutated(op, once)
<1>1. /\ Refusal(op, item) = "none"
      /\ Mutate(op, item) \in Item
      /\ DistinctFiles(Mutate(op, item).files)
  BY MutateYieldsItem, MutateKeepsFilesDistinct DEF Accepted
<1>2. /\ new \in Item /\ new.files = Mutate(op, item).files
      /\ new.title = Mutate(op, item).title /\ new.date = Mutate(op, item).date
      /\ new.coverFileId = Mutate(op, item).coverFileId
      /\ new.coverPinned = Mutate(op, item).coverPinned
      /\ new.version = item.version + 1
  <2>1. item.version + 1 \in Nat
    BY DEF Item
  <2> QED  BY <1>1, <2>1 DEF Mutated, Item
<1>3. once = Normalize(new) /\ once \in Item /\ once.version = item.version + 1
      /\ once.files = new.files /\ once.title = new.title /\ once.date = new.date
  <2>1. once = Normalize(new)
    BY DEF Saved
  <2> HIDE DEF new, once
  <2> QED  BY <1>2, <2>1, NormalizeDerives
<1>4. Mutate(op, once) \in Item
  BY <1>3, MutateYieldsItem
<1>5. /\ again \in Item /\ again.files = Mutate(op, once).files
      /\ again.title = Mutate(op, once).title /\ again.date = Mutate(op, once).date
      /\ again.coverFileId = Mutate(op, once).coverFileId
      /\ again.coverPinned = Mutate(op, once).coverPinned
      /\ again.version = item.version + 2
  <2>1. once.version + 1 = item.version + 2 /\ item.version + 2 \in Nat
    BY <1>3 DEF Item
  <2> HIDE DEF once
  <2> QED  BY <1>4, <2>1 DEF Mutated, Item
<1>6. Saved(op, once) = Normalize(again)
  BY DEF Saved
<1> HIDE DEF new, once, again
<1>7. SUFFICES /\ again.title = new.title /\ again.date = new.date
               /\ again.files = new.files
               /\ \E from \in {new, once} : /\ again.coverFileId = from.coverFileId
                                            /\ again.coverPinned = from.coverPinned
  <2> SUFFICES ASSUME /\ again.title = new.title /\ again.date = new.date
                      /\ again.files = new.files,
                      NEW from \in {new, Normalize(new)},
                      again.coverFileId = from.coverFileId,
                      again.coverPinned = from.coverPinned
               PROVE  Normalize(again) = [Normalize(new) EXCEPT !.version = again.version]
    BY <1>3, <1>5, <1>6 DEF once
  <2> QED  BY <1>1, <1>2, <1>5, NormalizeTwice
<1>8. CASE op \in PatchOp
  <2>1. Mutate(op, item) = ApplyPatch(op, item) /\ Mutate(op, once) = ApplyPatch(op, once)
    BY <1>8 DEF PatchOp, Mutate
  <2>2. \A x \in Item :
          /\ ApplyPatch(op, x).title = IF op.title = Absent THEN x.title ELSE op.title
          /\ ApplyPatch(op, x).date = IF op.date = Absent THEN x.date
                                      ELSE IF op.date = Cleared THEN NoDate ELSE op.date
          /\ ApplyPatch(op, x).files = x.files
          /\ ApplyPatch(op, x).coverFileId =
                IF op.coverFileId = Absent THEN x.coverFileId
                ELSE IF op.coverFileId = Cleared THEN NoFile ELSE op.coverFileId
          /\ ApplyPatch(op, x).coverPinned =
                IF op.coverFileId = Absent THEN x.coverPinned
                ELSE op.coverFileId # Cleared
    BY DEF ApplyPatch, Item
  <2> QED  BY <1>2, <1>3, <1>5, <2>1, <2>2
<1>9. CASE op \in AttachOp
  <2>1. \A x : Mutate(op, x) = AppendFile(op.file, x)
    BY <1>9 DEF AttachOp, Mutate
  <2>2. op.file.id \in FileIds(once)
    <3>1. op.kind = "attach" /\ op.file \in File
      BY <1>9 DEF AttachOp
    <3>2. FilesIn(Mutate(op, item)) = IF op.file.id \in FileIds(item) THEN FilesIn(item)
                                      ELSE FilesIn(item) \cup {op.file}
      BY <1>1, <3>1, MutateKeepsOtherFiles
    <3>3. \A x : FileIds(x) = {f.id : f \in FilesIn(x)}
      BY DEF FileIds, FilesIn
    <3>4. op.file.id \in FileIds(Mutate(op, item))
      BY <3>2, <3>3
    <3> QED  BY <1>2, <1>3, <3>4 DEF FileIds
  <2>3. Mutate(op, once) = once
    BY <2>1, <2>2 DEF AppendFile
  <2> QED  BY <1>3, <1>5, <2>3
<1>10. CASE op \in DetachOp
  <2>1. op.kind = "detach"
    BY <1>10 DEF DetachOp
  <2>2. FilesIn(Mutate(op, item)) = {f \in FilesIn(item) : f.id # op.fileId}
    BY <1>1, <2>1, MutateKeepsOtherFiles
  <2>3. op.fileId \notin FileIds(once)
    BY <1>2, <1>3, <2>2 DEF FileIds, FilesIn
  <2> QED  BY <2>1, <2>3 DEF Refusal, once
<1>11. CASE op \in ReorderOp
  <2>1. op.kind = "reorder" /\ op.order \in Seq(FileId)
    BY <1>11 DEF ReorderOp
  <2>2. IsReordering(op.order, item) /\ IsReordering(op.order, once)
    BY <1>1, <2>1 DEF Refusal, once
  <2>3. \A x \in Item :
          /\ Mutate(op, x).files =
                [i \in DOMAIN op.order |-> x.files[PositionOf(op.order[i], x.files)]]
          /\ Mutate(op, x).title = x.title /\ Mutate(op, x).date = x.date
          /\ Mutate(op, x).coverFileId = x.coverFileId
          /\ Mutate(op, x).coverPinned = x.coverPinned
    BY <2>1 DEF Mutate, ReorderFiles, Item
  <2>4. DOMAIN once.files = DOMAIN op.order
    BY <1>2, <1>3, <2>3
  <2>5. \A i \in DOMAIN op.order : once.files[i].id = op.order[i]
    <3> SUFFICES ASSUME NEW i \in DOMAIN op.order
                 PROVE  once.files[i].id = op.order[i]
      OBVIOUS
    <3>0. once.files = [j \in DOMAIN op.order |->
                           item.files[PositionOf(op.order[j], item.files)]]
      BY <1>2, <1>3, <2>3, Zenon
    <3>1. once.files[i] = item.files[PositionOf(op.order[i], item.files)]
      BY <3>0
    <3>2. \E k \in DOMAIN item.files : item.files[k].id = op.order[i]
      BY <2>2 DEF IsReordering, FileIds
    <3>3. item.files \in Seq(File)
      BY DEF Item
    <3> QED  BY <3>1, <3>2, <3>3, PositionFound
  <2>6. \A i \in DOMAIN op.order : PositionOf(op.order[i], once.files) = i
    <3> SUFFICES ASSUME NEW i \in DOMAIN op.order
                 PROVE  PositionOf(op.order[i], once.files) = i
      OBVIOUS
    <3> DEFINE found == PositionOf(op.order[i], once.files)
    <3>1. once.files \in Seq(File) /\ DistinctFiles(once.files)
      BY <1>1, <1>2, <1>3 DEF Item
    <3>2. found \in DOMAIN once.files /\ once.files[found].id = op.order[i]
      BY <2>4, <2>5, <3>1, PositionFound
    <3> QED  BY <2>4, <2>5, <3>1, <3>2 DEF DistinctFiles
  <2>7. Mutate(op, once).files = once.files
    <3>1. Mutate(op, once).files = [i \in DOMAIN op.order |-> once.files[i]]
      BY <1>3, <2>3, <2>6
    <3>2. once.files = [i \in DOMAIN once.files |-> once.files[i]]
      BY <1>3, LenProperties DEF Item
    <3> QED  BY <2>4, <3>1, <3>2
  <2> QED  BY <1>3, <1>5, <2>3, <2>7
<1> QED  BY <1>8, <1>9, <1>10, <1>11 DEF MutationOp

=============================================================================
