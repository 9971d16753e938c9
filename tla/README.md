# Archive API: specifications and proofs

TLA+ specifications of `archive-api`, a Go service that keeps family archives
(items, their files, and who may see them) in one DynamoDB table and one S3
bucket. The service is stateless: everything that can go wrong concurrently goes
wrong between the requests of many handler executions and the table they share.
Paths below are relative to the repository root (`src/`).

## 1. The system

| Component | State | Operations | Interacts with |
|---|---|---|---|
| Item rules (`internal/domain/item.go`, `itemvalidate.go`, `opt.go`) | none, a value in memory | `Validate`, `Normalize`, `ItemPatch.Apply` | called by the item store on every write |
| Item store (`internal/store/items.go`, `handlers_items.go`, `handlers_files.go`) | one row per item: version, metadata, files, derived fields | create, get, patch, delete, attach, detach, reorder | reads and conditional writes on the table |
| Archives and memberships (`internal/store/archives.go`, `handlers_archives.go`) | archive row, membership row, mirror row | `getMe`, create/get archive, put/remove/list members | transactions, consistent and stale reads |
| Access middleware (`internal/httpapi/middleware.go`) | the caller's `Member` in the request context | `withArchiveAccess` | `GetMember` before every archive route |
| Item type registry (`internal/domain/itemtypes`) | compiled-in manifests, immutable | `Load`, `Get`, `Slot` | consulted by validation and normalisation |
| Listing and cursors (`cursor.go`, `ListItems`) | the client holds the cursor | `ListItems` | the secondary index, ordered by date |
| Archive dates (`archivedate.go`) | the stored date and what was derived from it | `Validate`, `Resolve`, `Normalize`, `Overlaps` | the index key of an item |
| Uploads and objects (`createUploadURL`, `internal/storage`) | objects in the bucket | presign, PUT by the client, attach | the item store |
| Type catalogue endpoint (`listItemTypes`, `typesETag`) | an ETag computed once per process | conditional GET | browsers across deploys |
| Archive version counter (`BumpArchiveVersion`) | `version` of the archive row | bump | nothing calls it |
| HTTP pipeline (`middleware.go`, `router.go`, `respond.go`, `errors.go`) | per request | recovery, ids, keys, auth, error envelope | wraps everything |
| Locations, ids, token verification, configuration, conversion | none | pure checks and copies | - |

### What is hard here

*Concurrency without locks.* An item is changed by read, modify, conditional
write, retried at most `maxConflictRetries` times when the caller sent no
`If-Match`. The read is not consistent, so a request may start from an old
record. Memberships are changed by unconditional transactions after separate
reads.

*Failure.* A write may take effect and its acknowledgement be lost; the SDK
sends it again, and the second copy meets the row as others have left it. A
handler may end (context, Lambda time-out) between any two calls.

*Derived state.* The cover, the capabilities and the file count are copies of
what the files say and must be recomputed on every path.

*Time of check, time of use.* The caller's role, the number of owners, the
memberships of a new account and the room in a slot are all read before, and
used after, other requests may have run.

*Two releases at once.* The catalogue of item types is compiled in. While a
release is rolled out, the old and the new one validate the same items, and
files stored under a slot's former name outlive it, as do the catalogues that
clients keep.

*Walks.* A list is read page by page from an index that lags behind the table,
while the key it is ordered by, the date, is edited.

*Calendars.* A date is as vague as its author was. It is sorted by one instant,
computed with `time.Duration`s that hold 292 years only.

### What makes each component correct

* Items: a version names one record; a saved record obeys its type; no
  acknowledged change is lost or undone; a pinned write replaces what it names;
  deleted stays deleted, unless a copy of the item's own create comes late; every
  request ends.
* Memberships: both rows agree; nobody acts on a role it did not hold during
  the request; an archive keeps an owner; a new account gets one archive.
* Listing: an item that nobody re-dates during a walk is shown exactly once, at
  its place; no walk goes in a circle.
* Dates: the sort instant lies within the bounds, follows their order and fits
  the index's fixed width; a stored date keeps its meaning; widths and bands
  agree with what was written.
* Uploads: a file that is stored fits its type, has its object, and is drawn
  once; what the check before the upload allowed, the check after it accepts.
* Types: releases that follow the authoring guide accept what their forerunners
  stored, and clients learn of their slots.

## 2. The modules

| Module | Models | Depends on |
|---|---|---|
| `ItemDomain` | the pure rules of one item, for any manifest | - |
| `ItemStore` | concurrent requests on one item | `ItemDomain` |
| `AtomicItem` | abstract: one record, changed in one step | - |
| `Membership` | archives, members, roles, the middleware | `Roster` |
| `Roster` | abstract: one register of roles and a guard before it | - |
| `Listing` | one client's walks over the index of one archive | - |
| `ArchiveDate` | dates of items over the real calendar | - |
| `ItemTypes` | the manifests, what `Load` refuses, slots and files | - |
| `TypeCatalogue` | releases, and the catalogues clients keep | `ItemTypes` |
| `Uploads` | from the presigned URL to the file on the item, across releases | `TypeCatalogue` |
| `MCItemStore`, `MCMembership`, `MCArchiveDate`, `MCUploads` | constants for TLC | the above |
| `ItemDomainProofs`, `ItemStoreProofs`, `MembershipProofs`, `ListingProofs`, `ArchiveDateProofs`, `UploadsProofs`, `ManifestProofs` | theorems | the above, TLAPS |

### ItemDomain

An `Item` record has the fields the rules read or derive. *Title* stands for all
metadata that cannot be cleared, *Date* for all that can (location, place,
notes, tags, subjects and attributes go through the same three branches of
`ItemPatch.Apply`). Content types are their media family, or `Unsupported`. The
cover's copied fields are one field, `coverContentType`. The item's type is a
set of constants (`SlotId`, `SlotOf`, `SlotMin`, `SlotMax`, `MaxSizeBytes`,
`Accepts`, `Prefer`), and `ManifestIsSound`, an assumption, is what
`registry.go` `validate` refuses to start without. `SlotOf` includes
`renamedFrom` aliases. `Saved(op, item)` is the whole of `mutateItem`'s body
between the read and the put: the mutation, the new version, `Normalize`.

Files of one item have distinct ids, so the *last* match the code's map would
keep in `ReorderFiles` and the *first* that `PositionOf` finds are the same
file; that they are distinct is proved, not assumed.

### ItemStore

`rows` is the history of the item's row; the last entry is what the leader
holds, and `GetItem` may return any of the last `MaxLag + 1` entries. A request
goes through `pc`:

| `pc` | next action | code |
|---|---|---|
| `idle` | `CreateItem`, `Begin` | `store.CreateItem`; the handlers up to the store call |
| `create` | `CreateAgain` | the `PutItem` of `store.CreateItem`, sent again |
| `read` | `ReadItem` | `mutateItem` from `GetItem` to `Normalize` |
| `put` | `PutItem`, `PutRefused` | `putItemIfVersion` and the end of the loop |
| `delete` | `DeleteItem` | `store.DeleteItem` |
| any of the four | `TimeOut` | the context ends before the next call |

A write that takes effect has three outcomes: acknowledged; unheard, to be sent
again by the SDK (`Unheard`, at most `MaxSends` copies in all); lost for good. A
copy is a step of its own, decided by the write's own condition on the row as it
is when the copy arrives. After a put or a delete that mostly means refusal:
`version = :expected` and `attribute_exists` were true of a row that is no more.
A create's condition, `attribute_not_exists(pk)`, is true again once somebody has
found the new item in a listing and deleted it within the SDK's back-off. Then
the copy writes the item again, as it was first made, and its versions start
again from 1. `Reborn` says that this has happened. What holds of the item's first
life only says so; what holds in all lives does not mention it. The code has no
defence against it (a tombstone, or a condition on a token of the request), and
`resent_create` shows what can come of it.

An `If-Match` is `NoPin` or a version that some response has carried. A request
whose body or header cannot be parsed never reaches the store and is left out.

### AtomicItem

The promise: one record; each operation is one indivisible step on the current
record; "ok" is answered by that very step. A request that fails or is not yet
answered may have taken effect too. There is one exception, `CreateAgain`: an
unacknowledged create may make a deleted record again, and from there on an
operation may be computed from a former record that has the current one's version
(`Current`). `ItemStore` implements it with `row <- Row`, `reborn <- Reborn`
(`BehavesAtomically`), hiding drafts, copies, retries and program counters.

### Membership

`log` is the table after every transaction. `GetMember` reads the last entry;
the queries and `GetArchive` read any of the last `MaxLag + 1`. A request asks
for one `Ask` record; `Authorise` is `withArchiveAccess` followed by the
handler's own role check, `GetTarget`, `CountOwners` and `RemoveMember` are the
three calls of `removeMember`. `writeItem` stands for every item route that is
not a read; what it does to the item is `ItemStore`'s business. Transactions
carry an idempotency token that the SDK reuses when it resends, so a resent one
has no second effect. Two transactions that meet on one row cancel one another
at worst: `Fail`. `CountOwners` counts the owners on the page that `ListMembers`
read, which may be any of them (`ListOwners`): the query stops at a megabyte.

### Roster

The promise of the archives: a register with one role per archive and account,
and a guard. A request is let in or turned away by the role its caller has at that
moment; one that was let in may change the entry it is about, once. There are no
mirrors, replicas, logs or counts. `Membership` implements it (`BehavesAsGuarded`,
the instance `Guarded`) with the last table's memberships for the register; a
request is let in by the step that reads its caller's role, and is answered by the
step that answers it, also when the answer is an error and the change was made.
A body is refused only to those who may do what it asks.
The roster lets the caller's role be taken away between guard and change, because
the code does.

### Listing

`table` holds an archive's items, `index` the keys of GSI1. The index follows
the table item by item and later (`Propagate`); between two of its rows no order
is promised. `IndexKey` is `ItemIndexSK`: the date's sort instant, or the time of
creation without one, then the id. Both instants are formatted to one width, so
comparing the strings is comparing the pairs.

`BeginWalk` and `NextPage` are `ListItems`, the first without a cursor. A page
is any beginning of what lies ahead that the limit allows (a Query also stops
at a megabyte), a `LastEvaluatedKey` may come although nothing follows, and the
cursor is the key of the last row shown, whatever becomes of the row. The
fingerprint in a cursor is that of the filters; the handler sets none, so it
never differs. The sort order is not in it: a walk may begin from a cursor of
the other order, and does here. `steady` is history: what was ahead of the walk
when it began, as the table had it, and has not been re-dated or deleted since.

### ArchiveDate

A date is `<<year>>`, `<<year, month>>` or `<<year, month, day>>`; days are those
of the Gregorian calendar, leap years included. A tick stands for the nanosecond:
all that matters is that it is the least difference. `Sub` is `Time.Sub`, which
saturates at `MaxDays`; the other operators carry the names of the code. An
instant outside years 0 to 9999 has no fixed-width text and cannot be read back:
that is `FourDigitYears`.

`PatchDate`, `ClearDate` and `EditOtherwise` are the ways an item is saved; each
resolves and normalizes the date, the last one the stored date again. `rule` is
the release's inference of a circa date's unit, and `Deploy` changes it. `Open`,
the bound that leaves a side of `Overlaps` open, is the zero `time.Time`, midnight
of the first day of year 1, as in the code: a window that really begins there
cannot be asked for, and `OverlapsIsIntersection` says nothing of one.

### ItemTypes, TypeCatalogue and Uploads

`ItemTypes.Loads` is `Load`: it holds every check of `validate` and
`validatePresentation`, in full, for the records that a manifest decodes to
(icon, category, `ordered` and `deprecated` are read by no check and left out).
`Slot` resolves a role through `renamedFrom`. `FilesInSlot` compares roles as
stored, `Filling` resolves them: the two are different functions in the code
and their difference matters.

`TypeCatalogue` deploys releases. `Deploy` is refused to one that does not load,
which panics at start, and to one that is not `Compatible` with the newest, which
`docs/adding-an-item-type.md` asks of authors and nothing checks: that is an
assumption on the releases, marked external. Until `Retire`, both releases
serve requests. `ListItemTypes` answers from either; `typesETag` is an injective
function of exactly what the code feeds the hash.

`Uploads` follows each upload through `stage`: `new`, `granted` a URL,
`uploaded` or `expired`. `Confirm` sends the confirmation, up to `MaxSends`
times while unanswered; `AttachFile` serves one copy, perhaps late, by either
release, and its answer may be lost. `AttachFile` and `DeleteFile` validate the
item as a whole and are single steps, as `ItemStore` shows they may be.
`DeleteItem` and `DeleteFile` take the record and leave the object. The client
uploads to what its own catalogue offers, by whatever name the slot has there,
and confirms only after the bucket accepted the bytes: nothing in the server
checks that.

## 3. The runs

| Run | Instance | States | Shows |
|---|---|---|---|
| `item_store` | 4 requests, 2 files, 4 mutations, 1 retry, lag 1, 2 sends | 1.6 million | all safety of items |
| `item_store_live` | 3 requests, 4 mutations, 2 retries, lag 1, 2 sends | 275 thousand | refinement of `AtomicItem`; repeated writes; every request is answered |
| `membership` | 4 requests, 2 accounts, 1 archive, lag 1 | 4.5 million | all safety of memberships; refinement of `Roster` |
| `listing` | 3 items, 3 instants, pages of 1 or 2 | 1.2 million | walks over an index that moves |
| `archive_dates` | 2 items, 154 bodies, 10 partial dates, 4 ticks a day | 23 thousand | bounds, order, bands and meaning of dates |
| `uploads` | 2 uploads, 1 client, 3 sound releases and 35 unsound, 2 sends | 211 thousand | files against slots, objects and releases |
| `sticky_cover` | as `item_store`, no retry | counterexample | a pin passes to a derived cover |
| `stale_pin` | 3 requests, no retry | counterexample | 412 for the current version |
| `resent_create` | 4 requests, 2 mutations, 1 retry, lag 1, 2 sends | counterexample | an item made again by a copy of its create, and an update of it lost |
| `last_owner` | 2 accounts, no lag | counterexample | two removals, no owner left |
| `second_archive` | 2 accounts, 2 archives, lag 1 | counterexample | two `getMe`, two archives |
| `stale_catalogue` | 1 client, 3 releases, the last with a new attribute | counterexample | 304 for a catalogue that has changed |

**Bounds.** `Request`: a lost update needs two writers, and a third to make one
of them retry into the other's success; the fourth request is the create. With
one retry a request meets both ends of the loop (again, and give up);
`item_store_live` allows two. `MaxLag = 1` shows every stale read: what matters
is that the version read is not the last. `MaxSends = 2`: one copy of a create is
enough to bring an item back, and one of a put or delete to meet a newer row; a
third would only repeat the second. The mutations of `item_store` are two
attaches, a detach and a patch that clears the date and chooses the cover; a
reordering is in `item_store_live`, of one file, and orders of more are left to the
proofs (`ReorderingIsComplete`). One slot of `MCItemStore` has one
place, so two attaches compete for it, and two roles so that a file can be in no
slot's preference. In `item_store_live` that slot has two places: where one file
fills a slot, a second copy of it is refused before the duplicate check could
matter to `RepeatedWritesChangeNothing`. Two accounts are enough for owners to remove one another, and
a third would only repeat one of them; archives do not interact except through
`getMe`, so one archive suffices for `membership`. The proofs drop all of these
bounds.

`listing`: three items give a row before, at and after a cursor, and pages of
one and of two rows; with three instants there are ties, two writes during the
walk, and every order of dates and of creation times. `Instant` bounds the
writes, since each takes one. `archive_dates`: years 0 and 9999 are the ends of the
calendar, 1700 to 2000 is wider than a `Duration`, 1996 to 2000 and 1996 to 2005
hold as many leap days as five and ten years can, and February of 2000 is the
month that differs. Four ticks a day let half a span, and half a day, be told
from a whole. Two items are compared with one another. `uploads`: two uploads
compete for the one place of a slot, one of them under its former name; three
releases rename the slot twice, widen it and add another beside it; two sends
are a confirmation and its repetition. The 35 unsound releases break one rule
of `validate` each, or a compound one.

The versions an `If-Match` may name and the entries of `rows` and `log` are
bounded by the number of requests, since a request writes at most `MaxSends`
times per attempt; no state constraint is used.

**Symmetry.** Requests (and accounts) are interchangeable; symmetry is used for
safety only, never in the run with a temporal property under fairness. Uploads
are interchangeable likewise.

**Deadlock.** Every run says `CHECK_DEADLOCK FALSE`: when all requests have been
answered, the time is used up, or all uploads are made there is nothing left to
do. `EveryRequestIsAnswered` shows that requests are not stuck before.

**Fairness.** `FairSpec` has weak fairness of `Step(r)`, the next call of a
request already begun: each call to the table returns, with an error if nothing
else, because the SDK and the handler's context bound it. Nothing is assumed of
clients (`Begin`, `CreateItem`), nor that a time-out ever happens, nor that a
put ever wins or an acknowledgement arrives; progress comes from the retry limit
and the SDK's.

**Claims that do not hold.** Each violation run checks one sentence of the
repository against the code:

* *The last owner cannot be removed* (`openapi.yaml:254`): count and delete are
  two calls, and two removals interleave. What the count does protect is
  `ALoneRemovalLeavesAnOwner`, checked and proved, whatever page was counted.
* *One archive is made* on first sight (`handlers_archives.go:15`): the list is
  eventually consistent and the creation unconditional. What is kept is
  `NobodyIsStranded`.
* *CoverPinned records that a person chose this cover* (`item.go:115`): the pin
  survives the file it was for.
* *412 means somebody else edited this* (`openapi.yaml:634`): the comparison is
  made on a read that may be behind. That is the only reason
  (`ConsistentReadsMakeConflictsTrue`).
* *A lost update is impossible* (`items.go:203-205`): a create sent again after the
  item was deleted makes it again with the same versions, so a put conditioned on a
  version of the first life may pass on a record of the second and undo its changes.
  Copies are the only reason (`WithoutCopiesNoUpdateIsLost`), and in the item's first
  life the claim holds (`ChangesWereAsked`).
* *A client that already has it gets a 304* (`handlers_archives.go:226`), where
  "it" is the registry: the ETag covers ids, versions and slot ids, and a new
  attribute needs no new version, so a client is told that its catalogue is
  still good when it has changed. What it always learns of is slots
  (`NewSlotsReachClients`); an ETag that told all catalogues apart would be
  enough for the rest (`AnExactETagIsEnough`).

Five disagreements were met that no run shows, because one line of the code
decides them or a sentence in a comment is all there is against it:

* `handlers_files.go:18-20` has the slot checked before the URL is given, lest an
  upload be refused only after it was made. `createUploadURL` counts a slot's files by their stored role,
  `validateFiles` resolves it: files under a former name are not counted, and an
  upload may be let through that is then refused. `AllowedUploadsAreAttached`
  holds with that exception (`HasFormerFiles`), which it needs.
* `openapi.yaml:970` says that fields sent as `null` are cleared. `buildPatch`
  (`handlers_items.go:211-220`) takes a date object with no kind, `{}` or
  `{"date": "1952"}`, for `null`, and clears the stored date (`IsCleared`).
* `openapi.yaml:391` and `:545` say "Delete an item and its files" and "Detach and
  delete a file"; the handlers take the record and leave the object to a later sweep,
  which is not in the repository (`handlers_items.go:303`).
* `findCover` compares a file's stored role with `cover.prefer` as well, so an
  item whose preferred slot was renamed derives no cover from it.
* `archivedate.go:85-86` calls the sort instant the midpoint. Of a range wider
  than 292 years it is not: the difference saturates there. The order stays
  coherent all the same (`SortFollowsTheBounds`).

## 4. What is proved

All theorems are about every value of the constants that meets the named
assumptions: any number of requests and of copies of their writes, files, accounts, archives, items, uploads
and clients, any lag, any retry limit, any sound manifest, any releases. The
assumptions are `ManifestAssumption`, `ValidDateAssumption`, `SentinelAssumption`
(`ItemDomain`), `RequestAssumption` (`ItemStore`), `MembershipAssumption`,
`ListingAssumption` (ids and instants are naturals, which orders them),
`DateAssumption` (a day has two ticks at least and a `Duration` holds a century),
`CatalogueAssumption` and `UploadsAssumption` (the first release loads, knows the
item's type, and allows an item without files).

**ItemDomainProofs.** Lemmas on the pure operators: `Normalize` keeps the title,
date and files and yields a sound item; each mutation of a well-typed item is
well typed and keeps file ids distinct; what is saved differs from what was read
by what the operation says (`SavedChangesWhatWasAsked`). A reordering loses no
file because an injective list as long as the item's has all of its ids
(`ReorderingIsComplete`). `MutationsAreIdempotent`: done again on what it saved, a
mutation is refused or changes only the version. The cover is the hard part:
`NormalizeTwice` shows that `findCover` finds the same file from the item it was
given and from the one it made, with the pin kept or fallen.

**ManifestProofs.** `ItemDomain` and `Uploads` both model what confirming and
detaching a file does, the one for any manifest and an item whose files are in
order, the other for the item type of a release and a set of files.
`ManifestIsMet`: a type that passes `validate` meets `ItemDomain`'s assumption.
`AttachFileIsAMutation` and `DeleteFileIsAMutation`: where an item holds the files
`Uploads` has, a step of `Uploads` saves the files that `Saved` of `ItemDomain` does,
or both refuse. `SameValidation` is why: counting the files that fill each slot
is the same in a list and in a set when their ids are distinct.

**ItemStoreProofs.** The inductive invariant `IInv` is `TypeOK`,
`VersionNamesOneRecord`, `SavedItemsAreSound`, `DraftIsOneOperation` and three
pieces of bookkeeping: `HistoryBegins` (with no row, then with a new item),
`CopiesAreOfTheFirst` (a create that will be sent again carries the first record,
so what it makes is that), and `RequestsAreOrderly`, which ties `pc` to `ask`,
`pin`, `sent` and `answer`. `DraftIsOneOperation` is the strengthening that makes
the others inductive. A draft can only be saved when its version is current. In
the item's first life a version is the record's place in the history
(`VersionsArePositions`), so the draft was made from exactly the record it
replaces (`PutIsOnTheRecordRead`); in a later one, from some record of that
version. Either way the version grows by one, and what is saved is sound because
the operation was `Accepted`. `Reborn` changes only with a commit
(`RebornByCommit`), and once true stays true. From `IInv`:

* `VersionsNameRecords`, `SavedItemsStaySound`, `DraftsAreOneOperation`,
  `TypeCorrect`: the invariants, of all lives.
* `StoreIsAtomic`: `Spec => BehavesAtomically`, one step of the store at a time;
  only `PutItem`, `CreateItem`, `CreateAgain` and `DeleteItem` change the abstract
  record.
* `NothingComesBack`: on a missing row only a create's condition holds, and the item
  has one create.
* `PinsAreHonoured`, with `PinInv`: a version that a request has written over is
  behind the row's, and stays behind in that life; so is, where reads are consistent,
  one that it was refused for.
* `OnlyAskedChanges`: a put is one whole operation on the row it replaces.
* `AcknowledgedAttachesSurvive`, with `AttachInv`: an acknowledged attach was put,
  and no put but a detach of that file takes it away.
* `RetriesDoNoHarm`: a put is one operation on the row it replaces, so if that row
  is what the same operation made, `MutationsAreIdempotent` applies.
* `ContentionRunsOut`: `CallsLeft`, the calls a request may still make, falls with
  every call. It is the safety half of `EveryRequestIsAnswered`.
* `ConsistentReadsMakeConflictsTrue`: with `MaxLag = 0`, `PinnedConflictMeansStale`
  holds, by `PinInv`.
* `WithoutCopiesNoUpdateIsLost`: with `MaxSends = 1` no item is made again, and
  `LostUpdateIsImpossible` is `ChangesWereAsked`.

**MembershipProofs.** `IInv` is `TypeOK`, `PermissionWasHeld`,
`HistoryIsSound` (what `DirectionsAgree` says of the last table, of every one,
and no archive is ever uncreated) and `RequestsAreOrderly` (`pc` against `ask`,
and `began` within the log). From it `BothDirectionsAgree`, `NoStalePermission` (the witness is
the table entry `GetMember` read, which is not older than the request) and
`LostForGood` (only an owner passes the middleware with *manage members*, so
without one nothing but a request already let through can appoint one).
`ALoneRemovalIsSafe` has its own invariant, `LoneInv`: until the lone removal is
done, owners only grow, so an owner other than the target seen on any replica is
still one when the rows are deleted. `NobodyStranded` has `StrandInv`: an account
that nobody asked to remove keeps what any earlier table gave it, so whatever
replica `getMe` looked at, the membership it saw is still there.
`ArchivesAreGuarded` is the refinement of `Roster`, one lemma per kind of step:
`Authorise` is `LetIn` or `TurnAway`, or refuses a body that its caller could have
had accepted (`AuthoriseIsTheGuard`), because the consistent read is of the table at
that moment; a transaction that commits is `Change` or
`Found` (`WriteIsTheChange`, `CreateIsFound`), because the two rows it writes agree;
every other step is an answer without a change or invisible
(`OthersReturnOrStutter`).

**ListingProofs.** `IInv` is the three properties with what they rest on: a walk
in progress has a cursor and all it has shown is on the near side of it
(`ShownIsPassed`), keys carry their ids, and a steady item's index key is the one
its row gives (`SteadyItemsHavePlaces`). Keys are totally ordered
(`KeysAreTotallyOrdered`), so a cursor cuts the index in two; a page is a
beginning of the far part and its last key is the new cut
(`APageCutsWhatIsAhead`); a steady item's key does not move, so it crosses the
cut exactly when it is shown. This gives `SteadyItemsShown` and `PagesInOrder`.

**ArchiveDateProofs.** `IInv` says that a stored date was validated and resolved
(`Settled`), and that what is stored with it is `Means` of the date: bounds that do
not mention the release's rule. So `MeaningStays`. `DateTypes` needs the calendar
(`YearsGrow`, `MonthsGrow`, `SpansAreDays`): each written date spans some days
between years 0 and 9999, and the middle of a circa interval is the middle of
what was written although the interval leaves those years. `OrderFollowsTheBounds`
is that half a saturating difference, added to the lower bound, is monotone in
both bounds (`MidpointIsMonotone`). `OverlapIsIntersection` follows because no
stored interval is empty. `CircaIsLooser`: the unit inferred from a date is wider than
its longest span (`InferredIsWider`). `BandsFit` needs
how many leap days a number of consecutive years can have: at most two in five and
three in ten (`YearsSpan`), so a range of years stays within its band's limit, and
above that of the band below.

**UploadsProofs.** `IInv` is `TypeOK`, `Served` (whatever release still serves is
loaded, knows the type, and is carried on by the newest), `Told` (a client's
catalogue has the ETag of the release that answered it last), `Uploaded` and
`Stored`. At its heart is `FilesCarryOver`: if the new type carries the old one
on, a list of files valid for the old is valid for the new, because roles
resolve to the slots that carry theirs on, no two old slots become one, and slots
that are added require nothing. Hence `FilesFitTheNewest`, although the old
release lets files in and out during a rollout. `FilesAreDrawnOnce` is what
`validatePresentation` is for. `UploadsAreAttached` adds `Foreseen` (a URL was
given after the slot was checked) and counts: without files under former names
`FilesInSlot` is `Filling`, and one more still fits. `AnExactETagIsEnough` assumes of
`typesETag` that releases which load and differ have different ones, and proves
`CatalogueIsCurrent`, which the run `stale_catalogue` refutes without it.

**Only model-checked.** `EveryRequestIsAnswered`, because liveness under
fairness is beyond TLAPS; its measure is proved. Every other property of the
passing runs is a theorem. The three violated claims without a conditional
theorem are refuted by their runs and nothing is proved about them.

## 5. What is not modelled

*HTTP pipeline* (`router.go`, `respond.go`, `errors.go`, the rest of
`middleware.go`). Each request passes its layers alone and from top to bottom:
recovery, request id, shared key, token, error envelope. They share no state and
keep none, so there is no order of events to explore that a unit test does not
fix; a model would restate the order in which the layers are composed. What of it
matters to the other parts is in them: the caller's role in `Membership`, the
answers to conflicts, missing rows and invalid items in `ItemStore`.

*Archive version counter.* `BumpArchiveVersion` is one atomic `ADD` that no write
calls and no response reads.

*Locations, ids, token verification, configuration, wire types.* Range checks of
two numbers, random ids (taken as fresh), one call of a library, a start-up
without concurrency, and field-by-field copies; of these only `fromGenDate` is
modelled, since a patch tells its result from null.

*Within the modelled parts.* Attribute and subject validation is one more reason
for `Validate` to refuse, like a blank title. Display names and archive names are
left out. `getItem`, `listMembers` and `listArchives` only read. The list that `getMe`
looks at is taken whole, because it only asks whether there is any. Malformed parameters and cursors are refused
before anything is read. Download URLs and image dimensions are copies of what a
file says. DynamoDB is modelled by what the code asks of it: single-row
conditional writes and transactions are atomic, consistent reads are current,
others may be behind, the index follows row by row. That `Propagate` brings an
index key straight to the row's present one is an assumption about DynamoDB, as is
that all pages are read from one index: an item re-dated away and back before a
walk begins, whose index passes through the date between during the walk, is not
covered. Its own failures are lost acknowledgements and errors. S3 keeps what it was sent.

## 6. What is left

* `ArchiveApi`: `Membership` composed with `ItemStore`, so that the permission
  under which an item is written and the write are in one behaviour.
  `PermissionWasHeld` with `BehavesAtomically` says most of it apart.
* A theorem of what `getMe` would need in order to provision once: a condition on
  the account, or reads and creations of one account that do not overlap.
* A filter in `ListItems` will bring the cursor's fingerprint to life: then
  `Listing` needs walks that change it.
