-------------------------- MODULE SchedulerProofs --------------------------
(* Proofs about Scheduler and the Catalog under it: for any packages and     *)
(* APIs, whatever is deleted, fails, restarts or is put into the cluster by  *)
(* hand, a package is applied or ready only after what it has resources of   *)
(* was there, and nothing is left of a package revision that is gone.        *)
EXTENDS Scheduler, TLAPS

Objects  == [there : BOOLEAN, finalizer : BOOLEAN, published : BOOLEAN, numbered : BOOLEAN,
             deleting : BOOLEAN]
EntrySet == [type : {"none", "core", "package"}, owner : Pkgs \cup {None}, refs : SUBSET Revs]
KnownSet == [there : BOOLEAN, error : BOOLEAN, deps : SUBSET Pkgs]

(* What EntriesRight says of any entries.                                    *)
RightEntries(entries) ==
  \A e \in Entries :
    /\ entries[e].type = "core" => e \in Found
    /\ entries[e].type = "package" => \E r \in Revs : e \in Provides[r] /\ entries[e].owner = PkgOf[r]
    /\ entries[e].type # "package" => entries[e].refs = {}

----------------------------------------------------------------------------
(* What was installed or served stays so: nothing that was met is missed.    *)
LEMMA StaysMet ==
  ASSUME given \subseteq given', ever \subseteq ever'
  PROVE  /\ Found \subseteq Found'
         /\ \A r \in Revs : Met(r) => Met(r)'
         /\ \A r \in Revs : \A deps : Covers(deps, r) => Covers(deps, r)'
<1>1. Found \subseteq Found'
  BY DEF Found
<1>2. ASSUME NEW r \in Revs, Met(r) PROVE Met(r)'
  BY <1>2 DEF Met
<1>3. ASSUME NEW r \in Revs, NEW deps, Covers(deps, r) PROVE Covers(deps, r)'
  BY <1>3 DEF Covers
<1> QED BY <1>1, <1>2, <1>3

(* A package that provides an API brings it: by its CRD.                     *)
LEMMA ProvidedIsBrought ==
  ASSUME NEW a \in APIs, NEW r \in Revs, a \in Provides[r]
  PROVE  a \in Brings[r]
BY DEF Brings

LEMMA WithAPIsType ==
  ASSUME CatalogTypes, NEW r \in Revs, NEW brought
  PROVE  WithAPIs(r, brought) \in [Entries -> EntrySet]
<1>1. apis \in [Entries -> EntrySet] /\ PkgOf[r] \in Pkgs
  BY CatalogAssumption DEF CatalogTypes, EntrySet
<1>2. SUFFICES ASSUME NEW e \in Entries
               PROVE  (IF e \in brought
                       THEN [type |-> "package", owner |-> PkgOf[r],
                             refs |-> apis[e].refs \cup {r}]
                       ELSE apis[e]) \in EntrySet
  BY DEF WithAPIs
<1>3. apis[e] \in EntrySet /\ apis[e].refs \in SUBSET Revs
  BY <1>1 DEF EntrySet
<1> QED BY <1>1, <1>3 DEF EntrySet

LEMMA ResolveType ==
  ASSUME NEW r \in Revs, NEW entries \in [Entries -> EntrySet], RightEntries(entries)
  PROVE  Resolve(r, entries) \in KnownSet
<1>1. \A e \in Entries : entries[e].type = "package" => entries[e].owner \in Pkgs
  BY CatalogAssumption DEF RightEntries
<1>2. Names[r] \in SUBSET Pkgs /\ Uses[r] \in SUBSET Entries /\ Rules[r] \in SUBSET Entries
  BY CatalogAssumption DEF Entries
<1>3. FromResources(r, entries) \in SUBSET Pkgs
  BY <1>1, <1>2 DEF FromResources
<1>4. \A a \in Rules[r] : \E e \in Entries : RuleEntry(a, entries) = entries[e]
  BY <1>2, CatalogAssumption DEF RuleEntry, Entries
<1>5. FromRules(r, entries) \in SUBSET Pkgs
  BY <1>1, <1>4 DEF FromRules
<1> QED BY <1>2, <1>3, <1>5 DEF Resolve, KnownSet

(* Dependencies without an error miss only what was there.                   *)
LEMMA ResolveRight ==
  ASSUME NEW r \in Revs, NEW entries, RightEntries(entries), ~ Resolve(r, entries).error
  PROVE  Covers(Resolve(r, entries).deps, r)
<1> DEFINE deps == Resolve(r, entries).deps
<1>1. Names[r] \subseteq deps /\ FromResources(r, entries) \subseteq deps
  BY DEF Resolve
<1>2. ASSUME NEW a \in Uses[r], a \notin given, NEW q \in Revs, a \in Brings[q]
      PROVE  PkgOf[q] \in deps \cup ever
  <2>1. a \in APIs /\ a \in Entries
    BY CatalogAssumption DEF Entries
  <2>2. Served(entries[a])
    BY DEF Resolve
  <2>3. \A p \in Revs : a \in Brings[p] => PkgOf[p] = PkgOf[q]
    BY <1>2, OneProvider
  <2>4. CASE entries[a].type = "core"
    BY <1>2, <2>1, <2>3, <2>4 DEF RightEntries, Found
  <2>5. CASE entries[a].type = "package"
    <3>1. entries[a].owner = PkgOf[q]
      BY <2>1, <2>3, <2>5, ProvidedIsBrought DEF RightEntries
    <3> QED BY <1>1, <2>2, <2>5, <3>1 DEF FromResources
  <2> QED BY <2>1, <2>2, <2>4, <2>5 DEF Served, RightEntries
<1> HIDE DEF deps
<1> QED BY <1>1, <1>2 DEF Covers, deps

LEMMA WithAPIsRight ==
  ASSUME SchedulerInv, NEW r \in Revs, NEW brought \in SUBSET Provides[r]
  PROVE  RightEntries(WithAPIs(r, brought))
BY DEF SchedulerInv, EntriesRight, RightEntries, WithAPIs

(* What is visited are package revisions, the root among them.               *)
LEMMA VisitedFacts ==
  ASSUME NEW root \in Revs
  PROVE  Visited(root) \subseteq Revs /\ root \in Visited(root)
BY DEF Visited

(* What a plan holds has all that it has resources of.                       *)
LEMMA PlansAreMet ==
  ASSUME SchedulerInv, NEW root \in Revs, Resolved(root),
         NEW r \in Visited(root), \A d \in known[r].deps : Installed(d)
  PROVE  Met(r)
<1>1. r \in Revs /\ known[r].there /\ ~ known[r].error
  BY VisitedFacts DEF Resolved
<1>2. known[r].deps \subseteq Pkgs
  BY <1>1 DEF SchedulerInv, SchedulerTypes, CatalogTypes
<1>3. known[r].deps \subseteq ever
  BY <1>2 DEF SchedulerInv, EverInstalled
<1>4. Covers(known[r].deps, r)
  BY <1>1 DEF SchedulerInv, KnownRight
<1> QED BY <1>3, <1>4 DEF Covers, Met

----------------------------------------------------------------------------
(* The steps of the catalog. *)

(* A revision with a number gets its entry, a draft that of the package.     *)
LEMMA DiscoverStep ==
  ASSUME SchedulerInv, NEW r \in Revs, Discover(r), UNCHANGED targetVars
  PROVE  SchedulerInv'
<1> USE DEF targetVars
<1>0. PICK brought \in SUBSET Provides[r] : apis' = WithAPIs(r, brought)
  BY DEF Discover, Update
<1>1. apis' \in [Entries -> EntrySet] /\ RightEntries(apis')
  BY <1>0, WithAPIsType, WithAPIsRight DEF SchedulerInv, SchedulerTypes
<1>2. Resolve(r, apis') \in KnownSet
  BY <1>1, ResolveType
<1>3. UNCHANGED <<cluster, given, faults>>
  BY DEF Discover, Update
<1>4. /\ objects \in [Revs -> Objects] /\ known \in [Revs -> KnownSet]
      /\ apis \in [Entries -> EntrySet] /\ drafts \in SUBSET Pkgs
  BY DEF SchedulerInv, SchedulerTypes, CatalogTypes, Objects, KnownSet, EntrySet
<1>5. /\ objects' = [objects EXCEPT ![r].finalizer = TRUE]
      /\ objects[r].there
  BY DEF Discover, Update
<1>6. /\ known' \in [Revs -> KnownSet] /\ drafts' \in SUBSET Pkgs
      /\ \A s \in Revs : \/ known'[s] = known[s]
                         \/ s = r /\ objects[r].numbered /\ known'[s] = Resolve(r, apis')
  <2>1. Entered(r)
    BY DEF Discover, Update
  <2>2. CASE objects[r].numbered
    <3>1. known' = [known EXCEPT ![r] = Resolve(r, apis')] /\ UNCHANGED drafts
      BY <2>1, <2>2 DEF Entered
    <3> QED BY <1>2, <1>4, <2>2, <3>1
  <2>3. CASE ~ objects[r].numbered
    <3>1. UNCHANGED known /\ drafts' = drafts \cup {PkgOf[r]}
      BY <2>1, <2>3 DEF Entered
    <3> QED BY <1>4, <3>1, CatalogAssumption
  <2> QED BY <2>2, <2>3
<1>7. SchedulerTypes'
  <2>1. objects' \in [Revs -> Objects]
    BY <1>4, <1>5 DEF Objects
  <2> QED BY <1>1, <1>3, <1>6, <2>1
          DEF SchedulerInv, SchedulerTypes, CatalogTypes, Objects, KnownSet, EntrySet
<1>8. InstallOrder' /\ ClusterHas' /\ PlanRight' /\ EverInstalled' /\ OwnVariant'
  BY <1>3 DEF SchedulerInv, InstallOrder, ClusterHas, PlanRight, EverInstalled, OwnVariant,
              Met, Found, Installed, NoPlan
<1>9. EntriesRight'
  BY <1>1, <1>3 DEF RightEntries, EntriesRight, Found
<1>10. KnownRight'
  <2> SUFFICES ASSUME NEW s \in Revs, known'[s].there, ~ known'[s].error
               PROVE  Covers(known'[s].deps, s)
    BY <1>3 DEF KnownRight, Covers
  <2>1. CASE known'[s] = known[s]
    BY <2>1 DEF SchedulerInv, KnownRight
  <2>2. CASE s = r /\ known'[s] = Resolve(r, apis')
    BY <1>1, <2>2, ResolveRight
  <2> QED BY <1>6, <2>1, <2>2
<1>11. FinalizerHeld'
  <2> SUFFICES ASSUME NEW s \in Revs
               PROVE  /\ known'[s].there \/ (\E e \in Entries : s \in apis'[e].refs)
                         => objects'[s].there /\ objects'[s].finalizer
                      /\ known'[s].there => objects'[s].numbered
    BY DEF FinalizerHeld
  <2>1. CASE s = r
    <3>1. /\ objects'[r].there /\ objects'[r].finalizer
          /\ objects'[r].numbered = objects[r].numbered
      BY <1>4, <1>5 DEF Objects
    <3> QED BY <1>6, <2>1, <3>1 DEF SchedulerInv, FinalizerHeld
  <2>2. CASE s # r
    <3>1. objects'[s] = objects[s] /\ known'[s] = known[s]
      BY <1>4, <1>5, <1>6, <2>2
    <3>2. \A e \in Entries : s \in apis'[e].refs => s \in apis[e].refs
      BY <1>0, <2>2 DEF WithAPIs
    <3> QED BY <3>1, <3>2 DEF SchedulerInv, FinalizerHeld
  <2> QED BY <2>1, <2>2
<1> QED BY <1>7, <1>8, <1>9, <1>10, <1>11 DEF SchedulerInv

(* DeletePkgRev takes a package revision out of every store; a draft's entry *)
(* is nobody's own.                                                          *)
LEMMA ForgetStep ==
  ASSUME SchedulerInv, NEW r \in Revs, Forget(r), UNCHANGED targetVars
  PROVE  SchedulerInv'
<1> USE DEF targetVars
<1>1. /\ objects \in [Revs -> Objects] /\ known \in [Revs -> KnownSet]
      /\ apis \in [Entries -> EntrySet] /\ drafts \in SUBSET Pkgs
  BY DEF SchedulerInv, SchedulerTypes, CatalogTypes, Objects, KnownSet, EntrySet
<1>2. UNCHANGED <<cluster, given, faults>>
  BY DEF Forget
<1>3. \A e \in Entries : /\ apis'[e].type = apis[e].type /\ apis'[e].owner = apis[e].owner
                         /\ apis'[e].refs \subseteq apis[e].refs /\ r \notin apis'[e].refs
                         /\ apis'[e] \in EntrySet
  <2> SUFFICES ASSUME NEW e \in Entries
               PROVE  /\ apis'[e].type = apis[e].type /\ apis'[e].owner = apis[e].owner
                      /\ apis'[e].refs \subseteq apis[e].refs /\ r \notin apis'[e].refs
                      /\ apis'[e] \in EntrySet
    OBVIOUS
  <2>1. CASE apis[e].type = "package"
    <3>1. apis'[e] = [apis[e] EXCEPT !.refs = @ \ {r}]
      BY <2>1 DEF Forget
    <3> QED BY <1>1, <3>1 DEF EntrySet
  <2>2. CASE apis[e].type # "package"
    <3>1. apis'[e] = apis[e] /\ apis[e].refs = {}
      BY <2>2 DEF Forget, SchedulerInv, EntriesRight
    <3> QED BY <1>1, <3>1 DEF EntrySet
  <2> QED BY <2>1, <2>2
<1>4. /\ objects' = [objects EXCEPT ![r] = Absent]
      /\ apis' = [e \in Entries |-> apis'[e]]
  BY DEF Forget
<1>5. Unknown \in KnownSet /\ Absent \in Objects /\ ~ Unknown.there
  BY DEF Unknown, Absent, KnownSet, Objects
<1>6. /\ known' \in [Revs -> KnownSet] /\ drafts' \in SUBSET Pkgs
      /\ ~ known'[r].there
      /\ \A s \in Revs : known'[s] = known[s] \/ ~ known'[s].there
  <2>1. CASE objects[r].numbered
    <3>1. known' = [known EXCEPT ![r] = Unknown] /\ UNCHANGED drafts
      BY <2>1 DEF Forget
    <3> QED BY <1>1, <1>5, <3>1
  <2>2. CASE ~ objects[r].numbered
    <3>1. UNCHANGED known /\ drafts' = drafts \ {PkgOf[r]}
      BY <2>2 DEF Forget
    <3>2. ~ known[r].there
      BY <2>2 DEF SchedulerInv, FinalizerHeld
    <3> QED BY <1>1, <3>1, <3>2
  <2> QED BY <2>1, <2>2
<1>7. SchedulerTypes'
  <2>1. apis' \in [Entries -> EntrySet]
    BY <1>3, <1>4
  <2>2. objects' \in [Revs -> Objects]
    BY <1>1, <1>4, <1>5
  <2> QED BY <1>2, <1>6, <2>1, <2>2
          DEF SchedulerInv, SchedulerTypes, CatalogTypes, Objects, KnownSet, EntrySet
<1>8. InstallOrder' /\ ClusterHas' /\ PlanRight' /\ EverInstalled' /\ OwnVariant'
  BY <1>2 DEF SchedulerInv, InstallOrder, ClusterHas, PlanRight, EverInstalled, OwnVariant,
              Met, Found, Installed, NoPlan
<1>9. EntriesRight'
  BY <1>2, <1>3 DEF SchedulerInv, EntriesRight, Found
<1>10. KnownRight'
  BY <1>2, <1>6 DEF SchedulerInv, KnownRight, Covers
<1>11. FinalizerHeld'
  <2> SUFFICES ASSUME NEW s \in Revs
               PROVE  /\ known'[s].there \/ (\E e \in Entries : s \in apis'[e].refs)
                         => objects'[s].there /\ objects'[s].finalizer
                      /\ known'[s].there => objects'[s].numbered
    BY DEF FinalizerHeld
  <2>1. CASE s = r
    BY <1>3, <1>6, <2>1
  <2>2. CASE s # r
    <3>1. objects'[s] = objects[s]
      BY <1>1, <1>4, <2>2
    <3> QED BY <1>3, <1>6, <3>1 DEF SchedulerInv, FinalizerHeld
  <2> QED BY <2>1, <2>2
<1> QED BY <1>7, <1>8, <1>9, <1>10, <1>11 DEF SchedulerInv

(* The API goroutine only adds what the cluster serves.                      *)
LEMMA WatchStep ==
  ASSUME SchedulerInv, WatchAPIs, UNCHANGED targetVars
  PROVE  SchedulerInv'
<1> USE DEF targetVars
<1>1. UNCHANGED <<objects, cluster, given, known, drafts, faults>>
  BY DEF WatchAPIs
<1>2. apis \in [Entries -> EntrySet]
  BY DEF SchedulerInv, SchedulerTypes, CatalogTypes, EntrySet
<1>3. \A e \in Entries : \/ apis'[e] = apis[e]
                         \/ apis'[e] = CoreAPI /\ e \in cluster /\ apis[e].type = "none"
  BY Zenon DEF WatchAPIs
<1>4. apis' \in [Entries -> EntrySet]
  <2>1. CoreAPI \in EntrySet
    BY DEF CoreAPI, EntrySet
  <2> QED BY <1>2, <2>1 DEF WatchAPIs
<1>5. SchedulerTypes'
  BY <1>1, <1>4 DEF SchedulerInv, SchedulerTypes, CatalogTypes, EntrySet
<1>6. InstallOrder' /\ ClusterHas' /\ PlanRight' /\ EverInstalled' /\ OwnVariant' /\ KnownRight'
  BY <1>1 DEF SchedulerInv, InstallOrder, ClusterHas, PlanRight, EverInstalled, OwnVariant,
              KnownRight, Met, Covers, Found, Installed, NoPlan
<1>7. EntriesRight'
  BY <1>1, <1>3 DEF SchedulerInv, EntriesRight, ClusterHas, Found, CoreAPI
<1>8. FinalizerHeld'
  BY <1>1, <1>3 DEF SchedulerInv, FinalizerHeld, CoreAPI
<1> QED BY <1>5, <1>6, <1>7, <1>8 DEF SchedulerInv

(* Users, and a reconcile that fails, keep the finalizer and the number.     *)
LEMMA ObjectStep ==
  ASSUME SchedulerInv, NEW r \in Revs, UNCHANGED targetVars,
         \/ DiscoverFails(r) \/ Appear(r) \/ Publish(r) \/ Number(r)
         \/ ProposeDeletion(r) \/ Delete(r)
  PROVE  SchedulerInv'
<1> USE DEF targetVars
<1>1. UNCHANGED <<cluster, given, apis, known, drafts>>
  BY DEF DiscoverFails, Appear, Publish, Number, ProposeDeletion, Delete
<1>2. objects \in [Revs -> Objects] /\ faults \in 0 .. MaxFaults
  BY DEF SchedulerInv, SchedulerTypes, CatalogTypes, Objects
<1>3. faults' \in 0 .. MaxFaults
  <2>1. Fault \/ UNCHANGED faults
    BY DEF DiscoverFails, Appear, Publish, Number, ProposeDeletion, Delete
  <2> QED BY <1>2, <2>1, CatalogAssumption DEF Fault
<1>4. /\ objects' \in [Revs -> Objects]
      /\ \A s \in Revs : objects[s].there /\ objects[s].finalizer
                         => /\ objects'[s].there /\ objects'[s].finalizer
                            /\ objects[s].numbered => objects'[s].numbered
  <2>1. CASE DiscoverFails(r)
    BY <1>2, <2>1 DEF DiscoverFails, Objects
  <2>2. CASE Appear(r)
    BY <1>2, <2>2 DEF Appear, Objects, Absent
  <2>3. CASE Publish(r)
    BY <1>2, <2>3 DEF Publish, Objects
  <2>4. CASE Number(r)
    BY <1>2, <2>4 DEF Number, Objects
  <2>5. CASE ProposeDeletion(r)
    BY <1>2, <2>5 DEF ProposeDeletion, Objects
  <2>6. CASE Delete(r)
    BY <1>2, <2>6 DEF Delete, Objects, Absent
  <2> QED BY <2>1, <2>2, <2>3, <2>4, <2>5, <2>6
<1>5. SchedulerTypes'
  BY <1>1, <1>3, <1>4 DEF SchedulerInv, SchedulerTypes, CatalogTypes, Objects
<1>6. InstallOrder' /\ ClusterHas' /\ PlanRight' /\ EverInstalled' /\ OwnVariant' /\ KnownRight'
  BY <1>1 DEF SchedulerInv, InstallOrder, ClusterHas, PlanRight, EverInstalled, OwnVariant,
              KnownRight, Met, Covers, Found, Installed, NoPlan
<1>7. EntriesRight' /\ FinalizerHeld'
  BY <1>1, <1>4 DEF SchedulerInv, EntriesRight, FinalizerHeld, Found
<1> QED BY <1>5, <1>6, <1>7 DEF SchedulerInv

(* An API put into the cluster by hand is given from then on.                *)
LEMMA ServeStep ==
  ASSUME SchedulerInv, NEW a \in APIs, ServeAPI(a) \/ RemoveAPI(a), UNCHANGED targetVars
  PROVE  SchedulerInv'
<1> USE DEF targetVars
<1>1. UNCHANGED <<objects, apis, known, drafts>> /\ given \subseteq given'
  BY DEF ServeAPI, RemoveAPI
<1>2. faults \in 0 .. MaxFaults /\ cluster \in SUBSET APIs /\ given \in SUBSET APIs
  BY DEF SchedulerInv, SchedulerTypes, CatalogTypes
<1>3. faults' \in 0 .. MaxFaults
  BY <1>2, CatalogAssumption DEF ServeAPI, RemoveAPI, Fault
<1>4. cluster' \in SUBSET APIs /\ given' \in SUBSET APIs /\ cluster' \subseteq cluster \cup given'
  BY <1>2 DEF ServeAPI, RemoveAPI
<1>5. SchedulerTypes'
  BY <1>1, <1>3, <1>4 DEF SchedulerInv, SchedulerTypes, CatalogTypes
<1>6. /\ Found \subseteq Found'
      /\ \A r \in Revs : Met(r) => Met(r)'
      /\ \A r \in Revs : \A deps : Covers(deps, r) => Covers(deps, r)'
  BY <1>1, StaysMet
<1>7. InstallOrder' /\ PlanRight'
  <2>1. \A p \in Pkgs : variants[p] # None => variants[p] \in Revs
    BY DEF SchedulerInv, SchedulerTypes
  <2>2. plan.todo \subseteq Revs /\ (plan # NoPlan => plan.root \in Revs) /\ ~ NoPlan.alone
    BY RootsAssumption DEF SchedulerInv, SchedulerTypes, PlanRight, NoPlan
  <2>3. Roots \subseteq Revs
    BY RootsAssumption
  <2>4. InstallOrder'
    BY <1>6, <2>1, <2>3 DEF SchedulerInv, InstallOrder
  <2>5. PlanRight'
    BY <1>6, <2>2, <2>3 DEF SchedulerInv, PlanRight, NoPlan
  <2> QED BY <2>4, <2>5
<1>8. ClusterHas'
  BY <1>4, <1>6 DEF SchedulerInv, ClusterHas, Found
<1>9. EntriesRight' /\ KnownRight'
  BY <1>1, <1>6 DEF SchedulerInv, EntriesRight, KnownRight
<1>10. EverInstalled' /\ OwnVariant' /\ FinalizerHeld'
  BY <1>1 DEF SchedulerInv, EverInstalled, OwnVariant, FinalizerHeld, Installed
<1> QED BY <1>5, <1>7, <1>8, <1>9, <1>10 DEF SchedulerInv

----------------------------------------------------------------------------
(* The steps of the scheduler and of the target. *)

LEMMA ScheduleStep ==
  ASSUME SchedulerInv, NEW root \in Roots, Schedule(root)
  PROVE  SchedulerInv'
<1>1. UNCHANGED <<catalogVars, state, ever, variants>> /\ root \in Revs
  BY RootsAssumption DEF Schedule
<1> USE DEF catalogVars
<1>2. asked \in [Roots -> {"no", "waiting", "ready"}]
  BY DEF SchedulerInv, SchedulerTypes
<1>3. CASE Resolved(root) /\ plan' = [root |-> root, todo |-> Leaves(root),
                       alone |-> \A d \in known[root].deps : Installed(d)] /\ UNCHANGED asked
  <2>1. Leaves(root) \subseteq Revs /\ \A r \in Leaves(root) : Met(r)
    BY <1>1, <1>3, VisitedFacts, PlansAreMet DEF Leaves
  <2>2. plan'.alone => Met(root)
    BY <1>1, <1>3, VisitedFacts, PlansAreMet
  <2>3. SchedulerTypes'
    BY <1>1, <1>3, <2>1 DEF SchedulerInv, SchedulerTypes, CatalogTypes
  <2>4. PlanRight'
    BY <1>1, <1>3, <2>1, <2>2 DEF PlanRight, Met
  <2> QED BY <1>1, <1>3, <2>3, <2>4
          DEF SchedulerInv, InstallOrder, ClusterHas, EntriesRight, KnownRight, EverInstalled,
              OwnVariant, FinalizerHeld, Met, Covers, Found, Installed
<1>4. CASE asked' = [asked EXCEPT ![root] = "waiting"] /\ UNCHANGED plan
  <2>1. \A r \in Roots : asked'[r] = "ready" => asked[r] = "ready"
    BY <1>2, <1>4
  <2>2. SchedulerTypes'
    BY <1>1, <1>2, <1>4 DEF SchedulerInv, SchedulerTypes, CatalogTypes
  <2> QED BY <1>1, <1>4, <2>1, <2>2
          DEF SchedulerInv, InstallOrder, ClusterHas, EntriesRight, KnownRight, EverInstalled,
              OwnVariant, FinalizerHeld, PlanRight, Met, Covers, Found, Installed, NoPlan
<1> QED BY <1>3, <1>4 DEF Schedule

(* Apply, ApplyFails and Report: the plan gets smaller or goes.              *)
LEMMA PlanStep ==
  ASSUME SchedulerInv, (\E r \in Revs : Apply(r)) \/ ApplyFails \/ Report
  PROVE  SchedulerInv'
<1>1. UNCHANGED <<objects, cluster, given, apis, known, drafts, state, ever>>
  BY DEF Apply, ApplyFails, Report, catalogVars
<1>2. /\ asked \in [Roots -> {"no", "waiting", "ready"}] /\ variants \in [Pkgs -> Revs \cup {None}]
      /\ plan \in [root : Roots \cup {None}, todo : SUBSET Revs, alone : BOOLEAN]
      /\ faults \in 0 .. MaxFaults
  BY DEF SchedulerInv, SchedulerTypes, CatalogTypes
<1>3. faults' \in 0 .. MaxFaults
  BY <1>2, CatalogAssumption DEF Apply, ApplyFails, Report, Fault, catalogVars
<1>4. /\ NoPlan \in [root : Roots \cup {None}, todo : SUBSET Revs, alone : BOOLEAN]
      /\ NoPlan.todo = {} /\ ~ NoPlan.alone
  BY DEF NoPlan
<1>5. CatalogTypes'
  BY <1>1, <1>3 DEF SchedulerInv, SchedulerTypes, CatalogTypes
<1>6. ClusterHas' /\ EntriesRight' /\ KnownRight' /\ EverInstalled' /\ FinalizerHeld'
  BY <1>1 DEF SchedulerInv, ClusterHas, EntriesRight, KnownRight, EverInstalled,
              FinalizerHeld, Covers, Found, Installed
<1>7. CASE \E r \in Revs : Apply(r)
  <2>1. PICK r \in Revs : Apply(r)
    BY <1>7
  <2>2. /\ PkgOf[r] \in Pkgs /\ r # None /\ r \in plan.todo
        /\ variants' = [variants EXCEPT ![PkgOf[r]] = r] /\ UNCHANGED asked
        /\ plan' = [plan EXCEPT !.todo = @ \ {r}]
    BY <2>1, CatalogAssumption DEF Apply
  <2>3. Met(r)
    BY <2>2 DEF SchedulerInv, PlanRight
  <2>4. SchedulerTypes'
    BY <1>1, <1>2, <1>5, <2>2 DEF SchedulerInv, SchedulerTypes
  <2>5. \A p \in Pkgs : variants'[p] = IF p = PkgOf[r] THEN r ELSE variants[p]
    BY <1>2, <2>2
  <2>6. \A p \in Pkgs : variants'[p] # None => Met(variants'[p])
    BY <2>3, <2>5 DEF SchedulerInv, InstallOrder
  <2>7. InstallOrder'
    BY <1>1, <2>2, <2>6 DEF SchedulerInv, InstallOrder, Met
  <2>8. OwnVariant'
    BY <2>5 DEF SchedulerInv, OwnVariant
  <2>9. /\ plan'.root = plan.root /\ plan'.todo \subseteq plan.todo /\ plan'.alone = plan.alone
        /\ plan # NoPlan
    BY <1>2, <1>4, <2>2
  <2>10. PlanRight'
    BY <1>1, <2>9 DEF SchedulerInv, PlanRight, Met
  <2> QED BY <1>6, <2>4, <2>7, <2>8, <2>10 DEF SchedulerInv
<1>8. CASE ApplyFails \/ Report
  <2>1. plan' = NoPlan /\ UNCHANGED variants /\ plan.root \in Roots
    BY <1>8, <1>4 DEF ApplyFails, Report, SchedulerInv, PlanRight
  <2>2. /\ asked' \in [Roots -> {"no", "waiting", "ready"}]
        /\ \A r \in Roots : asked'[r] = "ready" =>
             asked[r] = "ready" \/ (r = plan.root /\ plan.alone)
    <3>1. \E v \in {"no", "waiting", "ready"} :
            asked' = [asked EXCEPT ![plan.root] = v] /\ (v = "ready" => plan.alone)
      <4>1. CASE asked[plan.root] = "no"
        BY <1>8, <4>1 DEF ApplyFails, Report
      <4>2. CASE asked[plan.root] # "no" /\ ApplyFails
        BY <4>2 DEF ApplyFails
      <4>3. CASE asked[plan.root] # "no" /\ Report /\ plan.alone
        BY <4>3 DEF Report
      <4>4. CASE asked[plan.root] # "no" /\ Report /\ ~ plan.alone
        BY <4>4 DEF Report
      <4> QED BY <1>8, <4>1, <4>2, <4>3, <4>4
    <3>2. PICK v \in {"no", "waiting", "ready"} :
            asked' = [asked EXCEPT ![plan.root] = v] /\ (v = "ready" => plan.alone)
      BY <3>1
    <3>3. asked' \in [Roots -> {"no", "waiting", "ready"}]
      BY <1>2, <3>2
    <3>4. \A r \in Roots : asked'[r] = IF r = plan.root THEN v ELSE asked[r]
      BY <1>2, <3>2
    <3> QED BY <3>2, <3>3, <3>4
  <2>3. SchedulerTypes'
    BY <1>1, <1>4, <1>5, <2>1, <2>2 DEF SchedulerInv, SchedulerTypes
  <2>4. InstallOrder'
    BY <1>1, <2>1, <2>2 DEF SchedulerInv, InstallOrder, PlanRight, Met
  <2>5. OwnVariant' /\ PlanRight'
    BY <1>4, <2>1 DEF SchedulerInv, OwnVariant, PlanRight, NoPlan
  <2> QED BY <1>6, <2>3, <2>4, <2>5 DEF SchedulerInv
<1> QED BY <1>7, <1>8

(* What is installed was, from then on, installed at some time.              *)
LEMMA TargetStep ==
  ASSUME SchedulerInv,
         \/ \E r \in Roots : Ask(r)
         \/ \E p \in Pkgs : Create(p) \/ Install(p) \/ Uninstall(p)
  PROVE  SchedulerInv'
<1>1. UNCHANGED <<objects, given, apis, known, drafts, variants, plan>>
  BY DEF Ask, Create, Install, Uninstall, catalogVars
<1>2. /\ asked \in [Roots -> {"no", "waiting", "ready"}] /\ faults \in 0 .. MaxFaults
      /\ variants \in [Pkgs -> Revs \cup {None}]
      /\ state \in [Pkgs -> {"not available", "scheduled", "installed"}] /\ ever \in SUBSET Pkgs
      /\ cluster \in SUBSET APIs
  BY DEF SchedulerInv, SchedulerTypes, CatalogTypes
<1>3. faults' \in 0 .. MaxFaults
  <2>1. Fault \/ UNCHANGED faults
    BY DEF Ask, Create, Install, Uninstall, catalogVars
  <2>2. faults \in 0 .. MaxFaults /\ MaxFaults \in Nat
    BY <1>2, CatalogAssumption
  <2> QED BY <2>1, <2>2 DEF Fault
<1>4. /\ state' \in [Pkgs -> {"not available", "scheduled", "installed"}]
      /\ ever' \in SUBSET Pkgs /\ ever \subseteq ever'
      /\ \A p \in Pkgs : state'[p] = "installed" => p \in ever'
  <2>1. CASE \E r \in Roots : Ask(r)
    BY <1>2, <2>1 DEF Ask, SchedulerInv, EverInstalled, Installed
  <2>2. CASE \E p \in Pkgs : Create(p)
    BY <1>2, <2>2 DEF Create, SchedulerInv, EverInstalled, Installed
  <2>3. CASE \E p \in Pkgs : Install(p)
    BY <1>2, <2>3 DEF Install, SchedulerInv, EverInstalled, Installed
  <2>4. CASE \E p \in Pkgs : Uninstall(p)
    BY <1>2, <2>4 DEF Uninstall, SchedulerInv, EverInstalled, Installed
  <2> QED BY <2>1, <2>2, <2>3, <2>4
<1>5. /\ asked' \in [Roots -> {"no", "waiting", "ready"}]
      /\ \A r \in Roots : asked'[r] = "ready" => asked[r] = "ready"
  <2>1. CASE \E r \in Roots : Ask(r)
    BY <1>2, <2>1 DEF Ask
  <2>2. CASE \E p \in Pkgs : Create(p) \/ Install(p)
    BY <1>2, <2>2 DEF Create, Install
  <2>3. CASE \E p \in Pkgs : Uninstall(p)
    BY <1>2, <2>3 DEF Uninstall
  <2> QED BY <2>1, <2>2, <2>3
<1>6. /\ cluster' \in SUBSET APIs
      /\ \A a \in cluster' \ cluster : \E r \in Revs : a \in Brings[r] /\ PkgOf[r] \in ever'
  <2>1. CASE (\E r \in Roots : Ask(r)) \/ \E p \in Pkgs : Create(p) \/ Uninstall(p)
    BY <1>2, <2>1 DEF Ask, Create, Uninstall, catalogVars
  <2>2. CASE \E p \in Pkgs : Install(p)
    <3>1. PICK p \in Pkgs : Install(p)
      BY <2>2
    <3> DEFINE revs == RootsOf(p) \cup ({variants[p]} \ {None})
    <3>2. /\ cluster' = IF Local THEN cluster \cup UNION {Brings[r] : r \in revs} ELSE cluster
          /\ p \in ever'
      BY <3>1, <1>2 DEF Install
    <3>3. \A r \in revs : r \in Revs /\ PkgOf[r] = p
      BY <1>2, RootsAssumption DEF RootsOf, SchedulerInv, OwnVariant
    <3>4. \A r \in Revs : Brings[r] \subseteq APIs
      BY DEF Brings
    <3>5. \A a \in cluster' : a \in cluster \/ \E r \in revs : a \in Brings[r]
      BY <3>2
    <3> HIDE DEF revs
    <3>6. cluster' \in SUBSET APIs
      BY <1>2, <3>2, <3>3, <3>4, <3>5
    <3> QED BY <3>2, <3>3, <3>5, <3>6
  <2> QED BY <2>1, <2>2
<1>7. /\ Found \subseteq Found'
      /\ \A r \in Revs : Met(r) => Met(r)'
      /\ \A r \in Revs : \A deps : Covers(deps, r) => Covers(deps, r)'
  BY <1>1, <1>4, StaysMet
<1>8. SchedulerTypes'
  BY <1>1, <1>2, <1>3, <1>4, <1>5, <1>6 DEF SchedulerInv, SchedulerTypes, CatalogTypes
<1>9. InstallOrder'
  BY <1>1, <1>2, <1>5, <1>7, RootsAssumption DEF SchedulerInv, InstallOrder
<1>10. ClusterHas'
  BY <1>6, <1>7 DEF SchedulerInv, ClusterHas, Found
<1>11. EntriesRight' /\ KnownRight'
  BY <1>1, <1>7 DEF SchedulerInv, EntriesRight, KnownRight
<1>12. FinalizerHeld' /\ OwnVariant'
  BY <1>1 DEF SchedulerInv, FinalizerHeld, OwnVariant
<1>13. PlanRight'
  <2>1. plan.todo \subseteq Revs /\ (plan # NoPlan => plan.root \in Revs) /\ ~ NoPlan.alone
    BY RootsAssumption DEF SchedulerInv, SchedulerTypes, PlanRight, NoPlan
  <2> QED BY <1>1, <1>7, <2>1 DEF SchedulerInv, PlanRight, NoPlan
<1>14. EverInstalled'
  BY <1>4 DEF EverInstalled, Installed
<1> QED BY <1>8, <1>9, <1>10, <1>11, <1>12, <1>13, <1>14 DEF SchedulerInv

(* A restart forgets; what was installed stays.                              *)
LEMMA RestartStep ==
  ASSUME SchedulerInv, Restart
  PROVE  SchedulerInv'
<1>1. UNCHANGED <<objects, cluster, given, state, ever, variants, asked>> /\ plan' = NoPlan
  BY DEF Restart
<1>2. apis' = [e \in Entries |-> NoAPI] /\ known' = [r \in Revs |-> Unknown] /\ drafts' = {}
  BY DEF Restart, ForgetAll
<1>3. faults \in 0 .. MaxFaults
  BY DEF SchedulerInv, SchedulerTypes, CatalogTypes
<1>4. faults' \in 0 .. MaxFaults
  BY <1>3, CatalogAssumption DEF Restart, Fault
<1>5. SchedulerTypes'
  BY <1>1, <1>2, <1>4 DEF SchedulerInv, SchedulerTypes, CatalogTypes, NoAPI, Unknown, NoPlan
<1>6. InstallOrder' /\ ClusterHas' /\ EverInstalled' /\ OwnVariant' /\ PlanRight'
  BY <1>1 DEF SchedulerInv, InstallOrder, ClusterHas, EverInstalled, OwnVariant, PlanRight,
              Met, Found, Installed, NoPlan
<1>7. EntriesRight' /\ KnownRight' /\ FinalizerHeld'
  BY <1>2 DEF EntriesRight, KnownRight, FinalizerHeld, NoAPI, Unknown
<1> QED BY <1>5, <1>6, <1>7 DEF SchedulerInv

----------------------------------------------------------------------------
(* The inductive invariant holds: what the catalog tells of dependencies may *)
(* be old, it never misses a package that is not installed.                  *)
THEOREM SchedulerHolds == Spec => []SchedulerInv
<1>1. Init => SchedulerInv
  <2> SUFFICES ASSUME Init PROVE SchedulerInv
    OBVIOUS
  <2> USE DEF Init, CatalogInit
  <2>1. SchedulerTypes
    <3>1. CatalogTypes
      <4>1. objects \in [Revs -> Objects] /\ apis \in [Entries -> EntrySet] /\ known \in [Revs -> KnownSet]
        BY DEF Absent, NoAPI, Unknown, Objects, EntrySet, KnownSet
      <4>2. cluster \in SUBSET APIs /\ given \in SUBSET APIs /\ faults \in 0 .. MaxFaults
        <5>1. Core \in SUBSET APIs /\ MaxFaults \in Nat
          BY CatalogAssumption
        <5>2. faults = 0 /\ cluster = Core /\ given = Core
          OBVIOUS
        <5> HIDE DEF Init, CatalogInit
        <5> QED BY <5>1, <5>2
      <4> QED BY <4>1, <4>2 DEF CatalogTypes, Objects, EntrySet, KnownSet
    <3>2. plan \in [root : Roots \cup {None}, todo : SUBSET Revs, alone : BOOLEAN]
      BY DEF NoPlan
    <3> QED BY <3>1, <3>2 DEF SchedulerTypes
  <2>2. InstallOrder /\ EverInstalled /\ OwnVariant /\ PlanRight
    BY DEF InstallOrder, EverInstalled, OwnVariant, PlanRight, Installed, NoPlan
  <2>3. ClusterHas
    <3>1. cluster = Core /\ given = Core
      OBVIOUS
    <3> HIDE DEF Init, CatalogInit
    <3> QED BY <3>1, CatalogAssumption DEF ClusterHas, Found
  <2>4. EntriesRight /\ KnownRight /\ FinalizerHeld
    BY DEF EntriesRight, KnownRight, FinalizerHeld, NoAPI, Unknown
  <2> QED BY <2>1, <2>2, <2>3, <2>4 DEF SchedulerInv
<1>2. SchedulerInv /\ [Next]_vars => SchedulerInv'
  <2> SUFFICES ASSUME SchedulerInv, [Next]_vars PROVE SchedulerInv'
    OBVIOUS
  <2>1. CASE CatalogNext /\ UNCHANGED targetVars
    BY <2>1, DiscoverStep, ForgetStep, WatchStep, ObjectStep, ServeStep DEF CatalogNext
  <2>2. CASE \E r \in Roots : Schedule(r)
    BY <2>2, ScheduleStep
  <2>3. CASE (\E r \in Revs : Apply(r)) \/ ApplyFails \/ Report
    BY <2>3, PlanStep
  <2>4. CASE \/ \E r \in Roots : Ask(r)
             \/ \E p \in Pkgs : Create(p) \/ Install(p) \/ Uninstall(p)
    BY <2>4, TargetStep
  <2>5. CASE Restart
    BY <2>5, RestartStep
  <2>6. CASE UNCHANGED vars
    <3> USE <2>6 DEF vars, catalogVars, targetVars, SchedulerInv
    <3>1. SchedulerTypes'
      BY DEF SchedulerTypes, CatalogTypes
    <3>2. InstallOrder' /\ ClusterHas' /\ EntriesRight' /\ KnownRight'
      BY DEF InstallOrder, ClusterHas, EntriesRight, KnownRight, Met, Covers, Found
    <3>3. PlanRight' /\ EverInstalled' /\ OwnVariant' /\ FinalizerHeld'
      BY DEF PlanRight, EverInstalled, OwnVariant, FinalizerHeld, Met, Installed, NoPlan
    <3> QED BY <3>1, <3>2, <3>3
  <2> QED BY <2>1, <2>2, <2>3, <2>4, <2>5, <2>6 DEF Next
<1> QED BY <1>1, <1>2, PTL DEF Spec

(* Packages are applied, ready and installed in the order of what they need. *)
THEOREM SchedulerInstallOrder == Spec => []InstallOrder
BY SchedulerHolds, PTL DEF SchedulerInv

(* A package revision that is gone is in no store of the catalog.            *)
THEOREM SchedulerNothingLeft == Spec => []NothingLeft
<1>1. SchedulerInv => NothingLeft
  BY DEF SchedulerInv, FinalizerHeld, NothingLeft
<1> QED BY <1>1, SchedulerHolds, PTL
=============================================================================
