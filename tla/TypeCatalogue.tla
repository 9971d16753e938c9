---------------------------- MODULE TypeCatalogue ----------------------------
(***************************************************************************)
(* Releases of the server come with their catalogues of item types, and    *)
(* clients keep the catalogue they fetched for as long as the server says  *)
(* that its ETag is still good (GET /v1/item-types).                       *)
(*                                                                         *)
(* While a release is rolled out, requests are served by the new one and   *)
(* by the one before.  Releases follow docs/adding-an-item-type.md: slots  *)
(* are added, renamed and widened, and never deleted or narrowed.          *)
(***************************************************************************)
EXTENDS ItemTypes

CONSTANTS
    Release,     \* what may be deployed, sound or not
    First,       \* what is running at the start
    Client,
    NoCatalogue

VARIABLES
    newest,     \* the release deployed last
    running,    \* the releases that serve requests
    cache,      \* each client's catalogue, with its ETag
    asked       \* history: the release that answered the client last

catalogueVars == <<newest, running, cache, asked>>

-----------------------------------------------------------------------------
(***************************************************************************)
(* Compatible releases, as the authoring guide has them.                   *)
(***************************************************************************)
Widened(old, new) ==
    /\ old.accepts \subseteq new.accepts
    /\ new.min <= old.min /\ old.max <= new.max
    /\ new.maxSizeBytes = 0
          \/ (old.maxSizeBytes > 0 /\ old.maxSizeBytes <= new.maxSizeBytes)

\* Every old slot is carried on by one of the new, which keeps its names; the
\* others are optional.
CompatibleType(old, new) ==
    \E carried \in Injection(DOMAIN old.slots, DOMAIN new.slots) :
        /\ \A i \in DOMAIN old.slots :
              /\ Range(Names(old.slots[i])) \subseteq Range(Names(new.slots[carried[i]]))
              /\ Widened(old.slots[i], new.slots[carried[i]])
        /\ \A j \in DOMAIN new.slots \ Range(carried) : new.slots[j].min = 0

Compatible(old, new) ==
    \A s \in old : \E t \in new : t.id = s.id /\ CompatibleType(s, t)

SlotManifest ==
    [id : STRING, label : STRING, accepts : SUBSET STRING, min : Int, max : Int,
     maxSizeBytes : Int, renamedFrom : Seq(STRING)]
AttributeManifest ==
    [id : STRING, kind : STRING, options : SUBSET STRING,
     min : Int \cup {NoBound}, max : Int \cup {NoBound}]
ViewManifest == [primitive : STRING, slots : Seq(STRING)]
Manifest ==
    [id : STRING, label : STRING, version : Int, slots : Seq(SlotManifest),
     attributes : Seq(AttributeManifest), prefer : Seq(STRING),
     presentation : Seq(ViewManifest)]

ASSUME CatalogueAssumption ==
    /\ \A release \in Release : release \subseteq Manifest \cup {Garbled}
    /\ First \in Release
    /\ Loads(First)
    /\ NoCatalogue \notin Release

-----------------------------------------------------------------------------
CatalogueInit ==
    /\ newest = First
    /\ running = {First}
    /\ cache = [c \in Client |-> NoCatalogue]
    /\ asked = [c \in Client |-> NoCatalogue]

\* A release whose catalogue is not sound panics at start and serves nothing.
Deploy(release) ==
    /\ running = {newest}
    /\ release # newest
    /\ Loads(release)
    /\ Compatible(newest, release)
    /\ newest' = release
    /\ running' = running \cup {release}
    /\ UNCHANGED <<cache, asked>>

Retire ==
    /\ running # {newest}
    /\ running' = {newest}
    /\ UNCHANGED <<newest, cache, asked>>

\* typesETag: a hash of ids, versions and slot ids, injective for all we know.
VersionsOnly(release) == {<<t.id, t.version>> : t \in release}    \* mutant
TypesETag(release) ==
    {<<t.id, t.version, [i \in DOMAIN t.slots |-> t.slots[i].id]>> : t \in release}

\* If-None-Match, answered 304 or with the whole catalogue.
ListItemTypes(c, release) ==
    /\ release \in running
    /\ cache' = [cache EXCEPT ![c] =
          IF @ # NoCatalogue /\ TypesETag(@) = TypesETag(release) THEN @ ELSE release]
    /\ asked' = [asked EXCEPT ![c] = release]
    /\ UNCHANGED <<newest, running>>

CatalogueNext ==
    \/ \E release \in Release : Deploy(release)
    \/ Retire
    \/ \E c \in Client, release \in running : ListItemTypes(c, release)

-----------------------------------------------------------------------------
HasAsked(c) == asked[c] # NoCatalogue
SlotIds(type) == {type.slots[i].id : i \in DOMAIN type.slots}

\* A client knows of every slot of the release that answered it last, also
\* when its catalogue is an older one that was found still good.
NewSlotsReachClients ==
    \A c \in Client : HasAsked(c) =>
        \A t \in asked[c] : \E s \in cache[c] : s.id = t.id /\ SlotIds(s) = SlotIds(t)

\* handlers_archives.go: "the ETag is the registry's identity and a client
\* that already has it gets a 304".  What the client then has is the registry.
CatalogueIsCurrent ==
    \A c \in Client : HasAsked(c) => cache[c] = asked[c]
=============================================================================
