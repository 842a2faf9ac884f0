----------------------------- MODULE Scheduler -----------------------------
(* The packagescheduler controller (pkg/reconcilers/packagescheduler): a     *)
(* package revision that waits to be scheduled on a target waits for all     *)
(* packages it depends on; the controller applies a PackageVariant for each  *)
(* of them that is not there yet, as soon as all that one depends on is      *)
(* installed.  The dependencies are those of the catalog.                    *)
(*                                                                           *)
(* What becomes of a PackageVariant (PackageVariants and PackageRevisions)   *)
(* is cut down to a package that is scheduled and then installed.            *)
EXTENDS Catalog

CONSTANTS
  Roots,   \* the catalog package revisions of which somebody asks for one on
           \* the target, with the gate for scheduling
  Local    \* is the target the cluster whose APIs are watched?

ASSUME RootsAssumption ==
  /\ Roots \in SUBSET Revs /\ Local \in BOOLEAN
  /\ \A p, q \in Roots : PkgOf[p] = PkgOf[q] => p = q
(* Packages do not depend on each other in a circle, nor on themselves: the  *)
(* recursion would not end.                                                  *)
ASSUME NoCircle ==
  \E rank \in [Pkgs -> 0 .. Cardinality(Pkgs)] :
    \A r \in Revs : \A d \in Needs(r) \cup Mentions(r) : rank[d] < rank[PkgOf[r]]

VARIABLES
  state,      \* getPkgState of a package on the target
  ever,       \* the packages that were installed there at some time
  variants,   \* the PackageVariants applied: a package's, for which revision
  asked,      \* the package revisions that wait to be scheduled
  plan        \* the reconcile that is going on

targetVars == <<state, ever, variants, asked, plan>>
vars == <<catalogVars, targetVars>>

NoPlan == [root |-> None, todo |-> {}, alone |-> FALSE]

SchedulerTypes ==
  /\ CatalogTypes
  /\ state \in [Pkgs -> {"not available", "scheduled", "installed"}]
  /\ ever \in SUBSET Pkgs
  /\ variants \in [Pkgs -> Revs \cup {None}]
  /\ asked \in [Roots -> {"no", "waiting", "ready"}]
  /\ plan \in [root : Roots \cup {None}, todo : SUBSET Revs, alone : BOOLEAN]

Installed(p) == state[p] = "installed"
Missing(p)   == state[p] = "not available"

----------------------------------------------------------------------------
(* The reconcile. *)

(* getLatestCatalogPackageRevision, none or one: no number is no revision.   *)
Latest(p) ==
  LET released == {r \in Revs : PkgOf[r] = p /\ objects[r].published /\ objects[r].numbered}
  IN  {r \in released : \A q \in released : RevNo[q] <= RevNo[r]}

(* Mutant of Visited: the dependencies of dependencies are left out.         *)
VisitedDirect(root) ==
  {root} \cup UNION {Latest(d) : d \in {e \in known[root].deps : Missing(e)}}

(* isPkgRevRecursivelyresolved: the package revisions it is called for, the  *)
(* root and from each on the latest of the packages that are missing.        *)
Visited(root) ==
  LET closed == {S \in SUBSET Revs : /\ root \in S
                                     /\ \A r \in S : \A d \in known[r].deps :
                                          Missing(d) => Latest(d) \subseteq S}
  IN  {r \in Revs : \A S \in closed : r \in S}

Resolved(root) ==
  \A r \in Visited(root) :
    /\ known[r].there /\ ~ known[r].error
    /\ \A d \in known[r].deps : Missing(d) => Latest(d) # {}

(* Mutant of Leaves: what is scheduled need not be waited for.               *)
LeavesScheduled(root) ==
  {r \in Visited(root) \ {root} : \A d \in known[r].deps : ~ Missing(d)}

(* The vertices of the graph without an edge down: nothing they depend on is *)
(* missing or only scheduled.                                                *)
Leaves(root) ==
  {r \in Visited(root) \ {root} : \A d \in known[r].deps : Installed(d)}

Schedule(root) ==
  /\ plan = NoPlan /\ asked[root] # "no"
  /\ UNCHANGED <<catalogVars, state, ever, variants>>
  /\ IF Resolved(root)
     THEN /\ plan' = [root |-> root, todo |-> Leaves(root),
                      alone |-> \A d \in known[root].deps : Installed(d)]
          /\ UNCHANGED asked
     ELSE /\ asked' = [asked EXCEPT ![root] = "waiting"]
          /\ UNCHANGED plan

Apply(r) ==
  /\ r \in plan.todo
  /\ variants' = [variants EXCEPT ![PkgOf[r]] = r]
  /\ plan' = [plan EXCEPT !.todo = @ \ {r}]
  /\ UNCHANGED <<catalogVars, state, ever, asked>>

(* A PackageVariant cannot be applied: the others are not either.            *)
ApplyFails ==
  /\ plan.todo # {}
  /\ Fault
  /\ plan' = NoPlan
  /\ asked' = [asked EXCEPT ![plan.root] = IF @ = "no" THEN "no" ELSE "waiting"]
  /\ UNCHANGED <<objects, cluster, given, apis, known, drafts, state, ever, variants>>

(* The condition is written; the update fails if the object has gone.        *)
Report ==
  /\ plan # NoPlan /\ plan.todo = {}
  /\ asked' = [asked EXCEPT ![plan.root] =
                 IF @ = "no" THEN "no" ELSE IF plan.alone THEN "ready" ELSE "waiting"]
  /\ plan' = NoPlan
  /\ UNCHANGED <<catalogVars, state, ever, variants>>

----------------------------------------------------------------------------
(* The target. *)

RootsOf(p) == {r \in Roots : PkgOf[r] = p /\ asked[r] # "no"}

Ask(root) ==
  /\ Missing(PkgOf[root]) /\ variants[PkgOf[root]] = None
  /\ asked' = [asked EXCEPT ![root] = "waiting"]
  /\ state' = [state EXCEPT ![PkgOf[root]] = "scheduled"]
  /\ UNCHANGED <<catalogVars, ever, variants, plan>>

(* The packagevariant controller makes a package revision.                   *)
Create(p) ==
  /\ variants[p] # None /\ Missing(p)
  /\ state' = [state EXCEPT ![p] = "scheduled"]
  /\ UNCHANGED <<catalogVars, ever, variants, asked, plan>>

(* Its other gates are passed, after that for scheduling if it has one.      *)
Install(p) ==
  LET revs == RootsOf(p) \cup ({variants[p]} \ {None})
  IN  /\ state[p] = "scheduled"
      /\ \A r \in RootsOf(p) : asked[r] = "ready"
      /\ state' = [state EXCEPT ![p] = "installed"]
      /\ ever' = ever \cup {p}
      /\ cluster' = IF Local THEN cluster \cup UNION {Brings[r] : r \in revs} ELSE cluster
      /\ UNCHANGED <<objects, given, apis, known, drafts, faults, variants, asked, plan>>

(* A package revision is deleted on the target.                              *)
Uninstall(p) ==
  /\ ~ Missing(p)
  /\ Fault
  /\ state' = [state EXCEPT ![p] = "not available"]
  /\ asked' = [r \in Roots |-> IF PkgOf[r] = p THEN "no" ELSE asked[r]]
  /\ UNCHANGED <<objects, cluster, given, apis, known, drafts, ever, variants, plan>>

Restart ==
  /\ Fault
  /\ ForgetAll /\ plan' = NoPlan
  /\ UNCHANGED <<objects, cluster, given, state, ever, variants, asked>>

Init ==
  /\ CatalogInit
  /\ state = [p \in Pkgs |-> "not available"]
  /\ ever = {}
  /\ variants = [p \in Pkgs |-> None]
  /\ asked = [r \in Roots |-> "no"]
  /\ plan = NoPlan

Next ==
  \/ CatalogNext /\ UNCHANGED targetVars
  \/ \E r \in Roots : Schedule(r) \/ Ask(r)
  \/ \E r \in Revs : Apply(r)
  \/ \E p \in Pkgs : Create(p) \/ Install(p) \/ Uninstall(p)
  \/ ApplyFails \/ Report \/ Restart

Spec == Init /\ [][Next]_vars

(* The controllers come back to every package revision, the scheduler after  *)
(* ten or fifteen seconds and discovery after five minutes; the API          *)
(* goroutine goes round; the other controllers do their work on the target.  *)
Fairness ==
  /\ \A r \in Revs : WF_vars(UNCHANGED targetVars /\ Discover(r))
  /\ WF_vars(UNCHANGED targetVars /\ WatchAPIs)
  /\ \A r \in Roots : SF_vars(Schedule(r))
  /\ WF_vars((\E r \in Revs : Apply(r)) \/ Report)
  /\ \A p \in Pkgs : WF_vars(Create(p) \/ Install(p))
FairSpec == Spec /\ Fairness

----------------------------------------------------------------------------
(* Properties. *)

(* All that r has resources of is there: the packages it names, and all that *)
(* bring an API it uses, were installed; unless the watched cluster served   *)
(* that API by itself, of its own or by hand.                                *)
Met(r) ==
  /\ Names[r] \subseteq ever
  /\ \A a \in Uses[r] : a \in given \/ \A q \in Revs : a \in Brings[q] => PkgOf[q] \in ever

(* Whatever is deleted or restarted, and in whatever order packages and APIs *)
(* are found: a package is applied, or ready to be installed on the target,  *)
(* only after all that it has resources of was there.                        *)
InstallOrder ==
  /\ \A p \in Pkgs : variants[p] # None => Met(variants[p])
  /\ \A r \in Roots : asked[r] = "ready" => Met(r)

(* The inductive invariant: an API entered as the cluster's own was served   *)
(* by itself or came with a package that was installed; dependencies without *)
(* an error miss only such packages; the plan keeps to what was there; only  *)
(* a revision with a number has an entry of its own.                         *)
Found      == {a \in APIs : a \in given \/ \E r \in Revs : a \in Brings[r] /\ PkgOf[r] \in ever}
ClusterHas == cluster \subseteq Found
EntriesRight ==
  \A e \in Entries :
    /\ apis[e].type = "core" => e \in Found
    /\ apis[e].type = "package" => \E r \in Revs : e \in Provides[r] /\ apis[e].owner = PkgOf[r]
    /\ apis[e].type # "package" => apis[e].refs = {}
(* Dependencies miss no more than the packages of APIs that were there.      *)
Covers(deps, r) ==
  /\ Names[r] \subseteq deps
  /\ \A a \in Uses[r] :
       a \in given \/ \A q \in Revs : a \in Brings[q] => PkgOf[q] \in deps \cup ever
KnownRight == \A r \in Revs : known[r].there /\ ~ known[r].error => Covers(known[r].deps, r)
PlanRight ==
  /\ \A r \in plan.todo : Met(r)
  /\ plan.alone => Met(plan.root)
  /\ plan # NoPlan => plan.root \in Roots
EverInstalled == \A p \in Pkgs : Installed(p) => p \in ever
OwnVariant    == \A p \in Pkgs : variants[p] # None => PkgOf[variants[p]] = p
FinalizerHeld ==
  \A r \in Revs :
    /\ known[r].there \/ (\E e \in Entries : r \in apis[e].refs)
       => objects[r].there /\ objects[r].finalizer
    /\ known[r].there => objects[r].numbered
SchedulerInv ==
  /\ SchedulerTypes /\ InstallOrder
  /\ ClusterHas /\ EntriesRight /\ KnownRight /\ PlanRight /\ EverInstalled /\ OwnVariant
  /\ FinalizerHeld

(* The dependencies of the catalog's revisions get right in the end,         *)
(* whatever order the package revisions and the APIs of the cluster were     *)
(* found in, also after a restart and after drafts that brought less: they   *)
(* name the packages whose CRDs are used, and an error is what nobody brings *)
(* as a CRD and the cluster does not serve as its own.                       *)
Right(r) ==
  LET Brought(a) == \E q \in Revs : objects[q].there /\ a \in Provides[q]
      Stays(a)   == \E q \in Revs : /\ objects[q].numbered /\ ~ objects[q].deleting
                                    /\ a \in Provides[q]
  IN  /\ known[r].there
      /\ \A a \in Uses[r] :
           Stays(a) => \E q \in Revs : a \in Provides[q] /\ PkgOf[q] \in known[r].deps
      /\ known[r].error =>
           \E a \in Uses[r] : ~ Stays(a) /\ (a \notin cluster \/ apis[a].type = "package")
      /\ (\E a \in Uses[r] : a \notin Found /\ ~ Brought(a)) => known[r].error

(* The package revisions that one depends on, as far down as it goes.        *)
Below ==
  LET closed == {S \in SUBSET Revs : \A r \in S, q \in Revs :
                                       PkgOf[q] \in Needs(r) \cup Mentions(r) => q \in S}
  IN  [root \in Roots |-> {r \in Revs : \A S \in closed : root \in S => r \in S}]

(* The catalog has what it takes: all that is below is released, and what it *)
(* has resources of comes with a CRD, or the cluster serves it already.      *)
Offered(root) ==
  \A r \in Below[root] :
    /\ objects[r].published /\ objects[r].numbered /\ ~ objects[r].deleting
    /\ \A a \in Uses[r] : a \in cluster \/ \E q \in Below[root] : a \in Provides[q]

(* What is asked for gets ready while the catalog has what it takes: one     *)
(* dependency is installed after the other, from the bottom up, in spite of  *)
(* restarts, of what fails and of packages deleted on the target.            *)
GetsReady ==
  \A root \in Roots :
    (asked[root] # "no" /\ Offered(root)) ~> (asked[root] \in {"no", "ready"} \/ ~ Offered(root))
=============================================================================
