------------------------------ MODULE Catalog ------------------------------
(* The catalog: which package brings which API, and which packages a package *)
(* revision of a catalog depends on (pkg/reconcilers/packagediscovery).      *)
(*                                                                           *)
(* One controller enters and removes the catalog's package revisions, one at *)
(* a time, and comes back to each of them, to drafts as well; a goroutine    *)
(* enters the APIs that the cluster serves.  All is in memory and gone after *)
(* a restart.  What a package revision brings and uses is read from its      *)
(* resources: constants here, of which a draft may have less.  An API stands *)
(* for a group and kind with one version.                                    *)
EXTENDS FiniteSets, Naturals

CONSTANTS
  Pkgs, Revs, PkgOf,  \* packages, the catalog's package revisions, whose they are
  RevNo,              \* the revision number it has or will get
  APIs,
  Services,           \* the APIServices: a group with the kind "apiService"
  ServiceOf,          \* the APIService of the group of an API, or None
  Core,               \* the APIs that the cluster has of its own
  Provides,           \* the CRDs a package revision brings (their APIs) and the APIServices
  Uses,               \* the APIs it has resources of
  Rules,              \* those its roles name in policy rules
  Names,              \* packages it names: PackageVariants, PackageDependencies
  Drafted,            \* those that are made as drafts; others are found released in git
  None,
  MaxFaults           \* bound: all that fails, restarts, is deleted or done by hand

Entries == APIs \cup Services  \* the keys of catalogAPIStore

(* What the cluster serves once a package revision is installed.             *)
Brings == [r \in Revs |-> {a \in APIs : a \in Provides[r] \/ ServiceOf[a] \in Provides[r]}]

ASSUME CatalogAssumption ==
  /\ PkgOf \in [Revs -> Pkgs] /\ RevNo \in [Revs -> Nat]
  /\ \A q, r \in Revs : PkgOf[q] = PkgOf[r] /\ RevNo[q] = RevNo[r] => q = r
  /\ APIs \cap Services = {} /\ ServiceOf \in [APIs -> Services \cup {None}]
  /\ Core \in SUBSET APIs /\ Provides \in [Revs -> SUBSET Entries]
  /\ Uses \in [Revs -> SUBSET APIs] /\ Rules \in [Revs -> SUBSET APIs]
  /\ Names \in [Revs -> SUBSET Pkgs] /\ Drafted \in SUBSET Revs
  /\ None \notin Pkgs \cup Revs \cup Entries
  /\ MaxFaults \in Nat
(* All versions of a group and kind are brought by one package: the entry of *)
(* an API holds one (packagediscovery/README.md).                            *)
ASSUME OneProvider ==
  \A q, r \in Revs : Brings[q] \cap Brings[r] # {} => PkgOf[q] = PkgOf[r]

VARIABLES
  objects,   \* the catalog's package revisions in the API server
  cluster,   \* the APIs the watched cluster serves
  given,     \* those it served at some time that no package on the target brought
  apis,      \* catalogAPIStore, catalogGRMap
  known,     \* catalogPkgStore
  drafts,    \* catalogPkgStore: packages with an entry for no revision
  faults

catalogVars == <<objects, cluster, given, apis, known, drafts, faults>>

Absent  == [there |-> FALSE, finalizer |-> FALSE, published |-> FALSE, numbered |-> FALSE,
            deleting |-> FALSE]
NoAPI   == [type |-> "none", owner |-> None, refs |-> {}]
CoreAPI == [type |-> "core", owner |-> None, refs |-> {}]
Unknown == [there |-> FALSE, error |-> FALSE, deps |-> {}]

CatalogTypes ==
  /\ objects \in [Revs -> [there : BOOLEAN, finalizer : BOOLEAN, published : BOOLEAN,
                           numbered : BOOLEAN, deleting : BOOLEAN]]
  /\ cluster \in SUBSET APIs /\ given \in SUBSET APIs
  /\ apis \in [Entries -> [type : {"none", "core", "package"}, owner : Pkgs \cup {None},
                           refs : SUBSET Revs]]
  /\ known \in [Revs -> [there : BOOLEAN, error : BOOLEAN, deps : SUBSET Pkgs]]
  /\ drafts \in SUBSET Pkgs
  /\ faults \in 0 .. MaxFaults

Fault == faults < MaxFaults /\ faults' = faults + 1

----------------------------------------------------------------------------
(* UpdatePkgRevAPI: what a package revision brings is its package's, whoever *)
(* entered it.                                                               *)
WithAPIs(r, brought) ==
  [e \in Entries |-> IF e \in brought
                     THEN [type |-> "package", owner |-> PkgOf[r], refs |-> apis[e].refs \cup {r}]
                     ELSE apis[e]]

(* An API with a version: the last package revision that goes takes the      *)
(* version with it, the entry stays.                                         *)
Served(entry) == entry.type = "core" \/ entry.refs # {}

(* A resource of a package's API is a dependency on that package.  Only the  *)
(* group and kind are looked up: never the APIService of the group.          *)
FromResources(r, entries) ==
  {entries[a].owner : a \in {b \in Uses[r] : Served(entries[b]) /\ entries[b].type = "package"}}

(* A policy rule finds the API by group and resource, or else the APIService *)
(* of the group.                                                             *)
RuleEntry(a, entries) ==
  IF entries[a].type = "none" /\ ServiceOf[a] # None THEN entries[ServiceOf[a]] ELSE entries[a]

(* It is a dependency if that is known and not of the own package.           *)
FromRules(r, entries) ==
  {e.owner : e \in {f \in {RuleEntry(a, entries) : a \in Rules[r]} : f.type = "package"}}
    \ {PkgOf[r]}

(* The dependency resolver; a resource of an API not served is an error.     *)
Resolve(r, entries) ==
  [there |-> TRUE,
   error |-> \E a \in Uses[r] : ~ Served(entries[a]),
   deps  |-> Names[r] \cup FromResources(r, entries) \cup FromRules(r, entries)]

(* UpdatePkgRevDependencies: a revision without a number has the entry of    *)
(* the package, which it shares with the other drafts.                       *)
Entered(r) ==
  IF objects[r].numbered
  THEN known' = [known EXCEPT ![r] = Resolve(r, apis')] /\ UNCHANGED drafts
  ELSE drafts' = drafts \cup {PkgOf[r]} /\ UNCHANGED known

(* A reconcile: the finalizer, then the APIs, then the dependencies.  The    *)
(* API goroutine only adds what is missing, so these are one step.           *)
Update(r) ==
  /\ objects[r].there /\ ~ objects[r].deleting
  /\ UNCHANGED <<cluster, given, faults>>
  /\ \E brought \in SUBSET Provides[r] :
       /\ objects[r].numbered => brought = Provides[r]
       /\ apis' = WithAPIs(r, brought)
  /\ Entered(r)

(* Mutant of Discover: no finalizer.                                         *)
DiscoverUnheld(r) == Update(r) /\ UNCHANGED objects

Discover(r) == objects' = [objects EXCEPT ![r].finalizer = TRUE] /\ Update(r)

(* The resources cannot be read: only the finalizer is there.                *)
DiscoverFails(r) ==
  /\ objects[r].there /\ ~ objects[r].deleting
  /\ Fault
  /\ objects' = [objects EXCEPT ![r].finalizer = TRUE]
  /\ UNCHANGED <<cluster, given, apis, known, drafts>>

(* DeletePkgRev, then the finalizer; not while it is published.  The entry   *)
(* removed is that of its number, or else of the package's drafts.           *)
Forget(r) ==
  /\ objects[r].deleting /\ ~ objects[r].published
  /\ apis' = [e \in Entries |-> IF apis[e].type = "package"
                                THEN [apis[e] EXCEPT !.refs = @ \ {r}] ELSE apis[e]]
  /\ IF objects[r].numbered
     THEN known' = [known EXCEPT ![r] = Unknown] /\ UNCHANGED drafts
     ELSE drafts' = drafts \ {PkgOf[r]} /\ UNCHANGED known
  /\ objects' = [objects EXCEPT ![r] = Absent]
  /\ UNCHANGED <<cluster, given, faults>>


(* The goroutine that lists the API resources every ten seconds.             *)
WatchAPIs ==
  /\ apis' = [e \in Entries |-> IF e \in cluster /\ apis[e].type = "none" THEN CoreAPI
                                                                         ELSE apis[e]]
  /\ UNCHANGED <<objects, cluster, given, known, drafts, faults>>

----------------------------------------------------------------------------
(* Users of the catalog and of the cluster. *)

(* A draft is made, or a release is found in git.                            *)
Appear(r) ==
  /\ ~ objects[r].there
  /\ objects' = [objects EXCEPT ![r] = [Absent EXCEPT !.there = TRUE,
                                                      !.published = r \notin Drafted,
                                                      !.numbered = r \notin Drafted]]
  /\ UNCHANGED <<cluster, given, apis, known, drafts, faults>>

Publish(r) ==
  /\ objects[r].there /\ ~ objects[r].published
  /\ objects' = [objects EXCEPT ![r].published = TRUE]
  /\ UNCHANGED <<cluster, given, apis, known, drafts, faults>>

(* The packagerevision controller gives what is published its number.        *)
Number(r) ==
  /\ objects[r].published /\ ~ objects[r].numbered /\ ~ objects[r].deleting
  /\ objects' = [objects EXCEPT ![r].numbered = TRUE]
  /\ UNCHANGED <<cluster, given, apis, known, drafts, faults>>

ProposeDeletion(r) ==
  /\ objects[r].published
  /\ Fault
  /\ objects' = [objects EXCEPT ![r].published = FALSE]
  /\ UNCHANGED <<cluster, given, apis, known, drafts>>

Delete(r) ==
  /\ objects[r].there /\ ~ objects[r].deleting
  /\ Fault
  /\ objects' = [objects EXCEPT ![r] = IF @.finalizer THEN [@ EXCEPT !.deleting = TRUE]
                                                      ELSE Absent]
  /\ UNCHANGED <<cluster, given, apis, known, drafts>>

(* A CRD or an APIService is put into the watched cluster by hand, before    *)
(* its package is found or after that, or taken out of it.                   *)
ServeAPI(a) ==
  /\ a \notin cluster
  /\ Fault
  /\ cluster' = cluster \cup {a} /\ given' = given \cup {a}
  /\ UNCHANGED <<objects, apis, known, drafts>>

RemoveAPI(a) ==
  /\ a \in cluster \ Core
  /\ Fault
  /\ cluster' = cluster \ {a}
  /\ UNCHANGED <<objects, given, apis, known, drafts>>

ForgetAll ==
  /\ apis' = [e \in Entries |-> NoAPI]
  /\ known' = [r \in Revs |-> Unknown]
  /\ drafts' = {}

CatalogInit ==
  /\ objects = [r \in Revs |-> Absent]
  /\ cluster = Core /\ given = Core
  /\ apis = [e \in Entries |-> NoAPI]
  /\ known = [r \in Revs |-> Unknown]
  /\ drafts = {}
  /\ faults = 0

CatalogNext ==
  \/ \E r \in Revs : \/ Discover(r) \/ DiscoverFails(r) \/ Forget(r)
                     \/ Appear(r) \/ Publish(r) \/ Number(r) \/ ProposeDeletion(r) \/ Delete(r)
  \/ \E a \in APIs : ServeAPI(a) \/ RemoveAPI(a)
  \/ WatchAPIs

----------------------------------------------------------------------------
(* What a package revision really needs: the packages it names and those     *)
(* that bring an API it has resources of; and those its policy rules name.   *)
Bringing(as) == {PkgOf[q] : q \in {p \in Revs : as \cap Brings[p] # {}}}
Needs(r)     == Names[r] \cup Bringing(Uses[r])
Mentions(r)  == Bringing(Rules[r]) \ {PkgOf[r]}

(* A package revision that is gone is in no store: no API is resolved by it, *)
(* nobody schedules by the dependencies of its revision.  (The entry for no  *)
(* revision, of the drafts, does outlive the draft that gets a number.)      *)
NothingLeft ==
  \A r \in Revs : ~ objects[r].there =>
    /\ ~ known[r].there
    /\ \A e \in Entries : r \notin apis[e].refs
=============================================================================
