------------------------------- MODULE Uploads -------------------------------
(***************************************************************************)
(* internal/httpapi/handlers_files.go and internal/storage: how a file     *)
(* comes to hang on an item.  A client is given a presigned URL (the slot  *)
(* is checked, nothing is reserved), puts the bytes in the bucket, and     *)
(* confirms; the confirmation may be sent again while it is unanswered, be *)
(* served late, and lose its answer.  Meanwhile other files are attached   *)
(* and detached, the item is deleted and releases are rolled out.          *)
(*                                                                         *)
(* The store's operations are single steps here: ItemStore shows that they *)
(* behave so.  An upload's id stands for its file id and its object's key, *)
(* which the server makes of it; only the prefix of the key is compared    *)
(* when the upload is confirmed.                                           *)
(***************************************************************************)
EXTENDS TypeCatalogue

CONSTANTS
    Upload,      \* the ids minted
    Wish,        \* the files people want to upload: role, family and size
    TypeId,      \* the item's type
    MaxSends,    \* how often a confirmation is sent
    Gone, NoFile, NoGrant

File == [id : Upload, role : STRING, family : Families \cup {Unsupported}, size : Nat]
Stages == {"new", "granted", "expired", "uploaded", "denied"}
Answers == {"none", "ok", "notFound", "invalid"}

ASSUME UploadsAssumption ==
    /\ Wish \subseteq [role : STRING, family : Families \cup {Unsupported}, size : Nat]
    /\ MaxSends \in Nat \ {0}
    /\ NoFile \notin File
    /\ Knows(First, TypeId)
    /\ ValidateFiles(Get(First, TypeId), {})

VARIABLES
    files,      \* the item's, Gone when it is deleted
    objects,    \* what is in the bucket
    stage,      \* how far the client is with each upload
    file,       \* the file it is
    sent,       \* how often it was confirmed
    inFlight,   \* confirmations not served yet
    answer,     \* the answer the client has
    granted     \* history: the release that gave the URL, and the files then

uploadVars == <<files, objects, stage, file, sent, inFlight, answer, granted>>
vars == <<newest, running, cache, asked, files, objects, stage, file, sent, inFlight,
          answer, granted>>

Type(release) == Get(release, TypeId)
Ids(fs) == {f.id : f \in fs}

Init ==
    /\ CatalogueInit
    /\ files = {}
    /\ objects = {}
    /\ stage = [u \in Upload |-> "new"]
    /\ file = [u \in Upload |-> NoFile]
    /\ sent = [u \in Upload |-> 0]
    /\ inFlight = [u \in Upload |-> 0]
    /\ answer = [u \in Upload |-> "none"]
    /\ granted = [u \in Upload |-> NoGrant]

-----------------------------------------------------------------------------
OneTooMany(type, f) ==                                        \* mutant
    /\ FileFits(type, f)
    /\ Cardinality(FilesInSlot(files, Slot(type, f.role).id)) <= Slot(type, f.role).max

\* The checks before the URL, on the item as it is now.
MayUpload(type, f) ==
    /\ FileFits(type, f)
    /\ Cardinality(FilesInSlot(files, Slot(type, f.role).id)) < Slot(type, f.role).max

\* createUploadURL, for a role of the catalogue the client has.  It writes
\* nothing, so its answer may as well come at once and be used late: where its
\* GetItem is behind, this step stands at the moment whose files it read.
CreateUploadURL(u, c, release) ==
    \E wish \in Wish :
        LET f == [id |-> u, role |-> wish.role, family |-> wish.family,
                  size |-> wish.size]
        IN  /\ stage[u] = "new"
            /\ release \in running
            /\ cache[c] # NoCatalogue /\ HasSlot(Type(cache[c]), wish.role)
            /\ IF files # Gone /\ MayUpload(Type(release), f)
               THEN /\ stage' = [stage EXCEPT ![u] = "granted"]
                    /\ file' = [file EXCEPT ![u] = f]
                    /\ granted' = [granted EXCEPT ![u] =
                                      [release |-> release, files |-> files]]
               ELSE /\ stage' = [stage EXCEPT ![u] = "denied"]
                    /\ UNCHANGED <<file, granted>>
            /\ UNCHANGED <<catalogueVars, files, objects, sent, inFlight, answer>>

\* The bucket takes the bytes while the URL is good, or the client is too late.
PutObject(u) ==
    /\ stage[u] = "granted"
    /\ \/ /\ stage' = [stage EXCEPT ![u] = "uploaded"]
          /\ objects' = objects \cup {u}
       \/ /\ stage' = [stage EXCEPT ![u] = "expired"]
          /\ objects' = objects
    /\ UNCHANGED <<catalogueVars, files, file, sent, inFlight, answer, granted>>

Confirm(u) ==
    /\ stage[u] = "uploaded"
    /\ answer[u] = "none"
    /\ sent[u] < MaxSends
    /\ sent' = [sent EXCEPT ![u] = @ + 1]
    /\ inFlight' = [inFlight EXCEPT ![u] = @ + 1]
    /\ UNCHANGED <<catalogueVars, files, objects, stage, file, answer, granted>>

CanonicalRole(u) ==                                           \* mutant
    files \cup {[file[u] EXCEPT !.role = Slot(Type(newest), @).id]}

\* The item's files with one more, unless it is there already.
Appended(u) == IF u \in Ids(files) THEN files ELSE files \cup {file[u]}

\* attachFile and AppendFile, which validates the item as a whole.
AttachOutcome(u, release) ==
    CASE files = Gone -> "notFound"
      [] files # Gone /\ ValidateFiles(Type(release), Appended(u)) -> "ok"
      [] OTHER -> "invalid"

AttachFile(u, release) ==
    /\ inFlight[u] > 0
    /\ release \in running
    /\ inFlight' = [inFlight EXCEPT ![u] = @ - 1]
    /\ files' = IF AttachOutcome(u, release) = "ok" THEN Appended(u) ELSE files
    /\ answer' \in {answer,
                    [answer EXCEPT ![u] = IF @ = "none" THEN AttachOutcome(u, release)
                                          ELSE @]}
    /\ UNCHANGED <<catalogueVars, objects, stage, file, sent, granted>>

Detached(u) == {f \in files : f.id # u}

SweepingDelete(u, release) ==                                 \* mutant
    /\ release \in running
    /\ files # Gone /\ u \in Ids(files)
    /\ ValidateFiles(Type(release), Detached(u))
    /\ files' = Detached(u)
    /\ objects' = objects \ {u}
    /\ UNCHANGED <<catalogueVars, stage, file, sent, inFlight, answer, granted>>

\* deleteFile: the record goes, the object stays for a later sweep.
DeleteFile(u, release) ==
    /\ release \in running
    /\ files # Gone /\ u \in Ids(files)
    /\ ValidateFiles(Type(release), Detached(u))
    /\ files' = Detached(u)
    /\ UNCHANGED <<catalogueVars, objects, stage, file, sent, inFlight, answer, granted>>

DeleteItem ==
    /\ files # Gone
    /\ files' = Gone
    /\ UNCHANGED <<catalogueVars, objects, stage, file, sent, inFlight, answer, granted>>

Next ==
    \/ CatalogueNext /\ UNCHANGED uploadVars
    \/ \E u \in Upload, c \in Client, release \in running : CreateUploadURL(u, c, release)
    \/ \E u \in Upload : PutObject(u) \/ Confirm(u)
    \/ \E u \in Upload, release \in running : AttachFile(u, release)
    \/ \E u \in Upload, release \in running : DeleteFile(u, release)
    \/ DeleteItem

Spec == Init /\ [][Next]_vars

-----------------------------------------------------------------------------
(***************************************************************************)
(* Properties.                                                             *)
(***************************************************************************)

\* An upload's file is known from the URL on, and a file of the item is the
\* file of the upload with its id.
TypeOK ==
    /\ newest \in running /\ running \subseteq Release
    /\ {cache, asked} \subseteq [Client -> Release \cup {NoCatalogue}]
    /\ objects \subseteq Upload
    /\ stage \in [Upload -> Stages]
    /\ file \in [Upload -> File \cup {NoFile}]
    /\ {sent, inFlight} \subseteq [Upload -> 0..MaxSends]
    /\ answer \in [Upload -> Answers]
    /\ \A u \in Upload :
          /\ inFlight[u] <= sent[u]
          /\ file[u] # NoFile <=> stage[u] \in {"granted", "expired", "uploaded"}
          /\ file[u] # NoFile => file[u].id = u
          /\ sent[u] > 0 => stage[u] = "uploaded"
    /\ files = Gone \/ files \subseteq {file[u] : u \in Upload} \ {NoFile}

\* However many URLs were given out for a slot, whichever of two releases
\* served a confirmation, and however late a copy of it came: what is stored
\* is valid for the newest release, so the item can still be saved.
StoredFilesFitTheNewest ==
    files # Gone => ValidateFiles(Type(newest), files)

\* Where a type's viewers draw the files of a file's slot.
Places(type) ==
    UNION {{<<n, k>> : k \in DOMAIN type.presentation[n].slots}
              : n \in DOMAIN type.presentation}
Shown(type, f) ==
    {p \in Places(type) : type.presentation[p[1]].slots[p[2]] = Slot(type, f.role).id}
Single(type, p) == type.presentation[p[1]].primitive \in OneFace \cup {"flippable"}

\* No slot is rendered twice and none goes unseen: the newest catalogue draws
\* every file of the item once, and no viewer of one face gets two for it.
EveryFileIsDrawnOnce ==
    files # Gone =>
        LET type == Type(newest)
        IN  \A f \in files :
                \E p \in Places(type) :
                    /\ Shown(type, f) = {p}
                    /\ Single(type, p) => \A g \in files : Shown(type, g) = {p} => g = f

\* A record never points at an object that is not there ("an orphaned record
\* is a broken image"), also when a late copy of a confirmation attaches a
\* file that was detached.
NoBrokenImages ==
    files # Gone => Ids(files) \subseteq objects

\* The slot a file would fill has others stored under a former id.
HasFormerFiles(type, f) ==
    \E g \in files : /\ HasSlot(type, g.role) /\ Slot(type, g.role) = Slot(type, f.role)
                     /\ g.role # Slot(type, f.role).id

\* createUploadURL's checks foresee attachFile's: if the same release serves
\* both, the item's files were valid to it and have not changed, then the
\* upload it allowed is attached.  Files stored under a slot's former id are
\* the exception: validateFiles counts them, FilesInSlot does not.
AllowedUploadsAreAttached ==
    [][\A u \in Upload, release \in running :
          /\ AttachFile(u, release)
          /\ granted[u].release = release
          /\ granted[u].files = files
          /\ ValidateFiles(Type(release), files)
          /\ ~HasFormerFiles(Type(release), file[u])
          => files' = files \cup {file[u]}]_vars
=============================================================================
