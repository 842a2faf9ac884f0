-------------------------- MODULE PackageVariants --------------------------
(***************************************************************************)
(* The packagevariant controller (pkg/reconcilers/packagevariant): for a    *)
(* PackageVariant it keeps one package revision in the downstream package,  *)
(* named by a hash of the variant's spec, and deletes or orphans the others.*)
(* It reads variants and package revisions from informer caches that lag,   *)
(* works through the list it made with one write at a time, and is woken by *)
(* changes of variants only.  Users, the controllers of package revisions   *)
(* and the garbage collector change the same objects meanwhile.             *)
(*                                                                          *)
(* A resource version is not a number: "vsynced" and "synced" say of a      *)
(* cached copy, work.fresh and work.stale of the controller's copies,       *)
(* whether they still are what is stored.                                   *)
(***************************************************************************)
EXTENDS PackageLifecycle

CONSTANTS
  Variants, NoVariant,
  Specs,        \* specs of variants; the hash of a spec names a package revision
  NoSpec,
  Others,       \* package revisions that users have made and published
  Packages,
  PackageOf,    \* the (downstream) package of a spec and of a package revision
  PolicyOf,     \* the deletion policy of a spec
  SpecMoves,    \* the changes users make to a spec: pairs <<from, to>>
  MaxUid,       \* bound: variants ever created
  MaxEvents     \* bound: restarts, steps of the approver, changes of the surroundings

PRs == Specs \cup Others

ASSUME NamesAssumption ==
  NoVariant \notin Variants /\ NoSpec \notin PRs /\ Specs \cap Others = {}
ASSUME SpecsAssumption ==
  /\ PackageOf \in [PRs -> Packages]
  /\ PolicyOf \in [Specs -> {"delete", "orphan"}]
  /\ SpecMoves \in SUBSET (Specs \X Specs)
ASSUME BoundsAssumption == MaxUid \in Nat /\ MaxEvents \in Nat

VARIABLES
  vstore, vcache, vsynced,    \* the variants: API server, informer cache
  store, cache, synced,       \* the package revisions: the same
  upstream, repository,       \* is the upstream ready, is there a Repository?
  queue,                      \* the controller's work queue
  work,                       \* its reconcile
  uids,                       \* the last UID given
  events

variantVars == <<vstore, vcache, vsynced>>
prVars      == <<store, cache, synced>>
vars == <<variantVars, prVars, upstream, repository, queue, work, uids, events>>

(* A variant.  The status is its Ready condition with the reason.            *)
Statuses  == {"none", "ready", "upstream", "repository", "exists", "deleting"}
NoObject  == [uid |-> 0, spec |-> NoSpec, deleting |-> FALSE, fin |-> FALSE, status |-> "none"]
VariantObjects ==
  [uid : 1 .. MaxUid, spec : Specs, deleting : BOOLEAN, fin : BOOLEAN, status : Statuses]
    \cup {NoObject}
There(o) == o.uid # 0

(* A package revision: owner is the UID of the variant it refers to, or 0;   *)
(* held, when some controller has a finalizer on it.                         *)
NoPR == [lifecycle |-> "absent", owner |-> 0, held |-> FALSE, deleting |-> FALSE]
PRObjects ==
  [lifecycle : Lifecycles, owner : 0 .. MaxUid, held : BOOLEAN, deleting : BOOLEAN] \cup {NoPR}
NoCopies == [n \in PRs |-> NoPR]

(* A reconcile: the variant as read, whether that is what is stored, the     *)
(* listed package revisions still to be dealt with, those of them that have  *)
(* changed since, and whether all was deleted so far.                        *)
Work == [step : {"idle", "validate", "listed", "outdated"}, v : Variants \cup {NoVariant},
         cr : VariantObjects, fresh : BOOLEAN, copies : [PRs -> PRObjects],
         stale : SUBSET PRs, done : BOOLEAN]
NoWork == [step |-> "idle", v |-> NoVariant, cr |-> NoObject, fresh |-> FALSE,
           copies |-> NoCopies, stale |-> {}, done |-> TRUE]

TypeOK ==
  /\ vstore \in [Variants -> VariantObjects] /\ vcache \in [Variants -> VariantObjects]
  /\ vsynced \in [Variants -> BOOLEAN]
  /\ store \in [PRs -> PRObjects] /\ cache \in [PRs -> PRObjects]
  /\ synced \in [PRs -> BOOLEAN]
  /\ upstream \in BOOLEAN /\ repository \in BOOLEAN
  /\ queue \in SUBSET Variants
  /\ work \in Work
  /\ uids \in 0 .. MaxUid /\ events \in 0 .. MaxEvents

----------------------------------------------------------------------------
(* The API server and the informers. *)

VariantChanged(v, o) ==
  /\ vstore' = [vstore EXCEPT ![v] = o]
  /\ vsynced' = [vsynced EXCEPT ![v] = @ /\ o = vstore[v]]
PRChanged(n, o) ==
  /\ store' = [store EXCEPT ![n] = o]
  /\ synced' = [synced EXCEPT ![n] = @ /\ o = store[n]]

(* Changes that others make while the controller is at work.                 *)
VariantWrite(v, o) ==
  /\ VariantChanged(v, o)
  /\ work' = [work EXCEPT !.fresh = @ /\ (work.v # v \/ o = vstore[v])]
  /\ UNCHANGED <<vcache, prVars, upstream, repository, queue, events>>
PRWrite(n, o) ==
  /\ PRChanged(n, o)
  /\ work' = [work EXCEPT !.stale = IF Exists(work.copies[n]) /\ o # store[n]
                                    THEN @ \cup {n} ELSE @]
  /\ UNCHANGED <<variantVars, cache, upstream, repository, queue, uids>>

(* Events that are bounded. *)
Event == events < MaxEvents /\ events' = events + 1

VariantSync(v) ==
  /\ ~ vsynced[v]
  /\ vcache' = [vcache EXCEPT ![v] = vstore[v]]
  /\ vsynced' = [vsynced EXCEPT ![v] = TRUE]
  /\ queue' = queue \cup {v}
  /\ UNCHANGED <<vstore, prVars, upstream, repository, work, uids, events>>

PRSync(n) ==
  /\ ~ synced[n]
  /\ cache' = [cache EXCEPT ![n] = store[n]]
  /\ synced' = [synced EXCEPT ![n] = TRUE]
  /\ UNCHANGED <<variantVars, store, upstream, repository, queue, work, uids, events>>

(* A package revision in object o is asked to go.                            *)
DeleteRequested(o) == IF o.held THEN [o EXCEPT !.deleting = TRUE] ELSE NoPR

----------------------------------------------------------------------------
(* The controller. *)

Skip(v) ==
  /\ work = NoWork /\ v \in queue
  /\ ~ There(vcache[v])
  /\ queue' = queue \ {v}
  /\ UNCHANGED <<variantVars, prVars, upstream, repository, work, uids, events>>

(* The listed package revisions that matter to the variant: all of its       *)
(* downstream package, and those of other packages that it owns.             *)
Matches(n, cr)  == PackageOf[n] = PackageOf[cr.spec]
Relevant(n, cr) == Matches(n, cr) \/ cache[n].owner = cr.uid
(* Mutant of Listed: the copies are written back whatever came in between.   *)
ListedUnversioned(w, cr) ==
  [w EXCEPT !.step = "listed",
            !.copies = [n \in PRs |-> IF Relevant(n, cr) THEN cache[n] ELSE NoPR],
            !.stale = {}]

Listed(w, cr) ==
  [w EXCEPT !.step = "listed",
            !.copies = [n \in PRs |-> IF Relevant(n, cr) THEN cache[n] ELSE NoPR],
            !.stale = {n \in PRs : Relevant(n, cr) /\ ~ synced[n]}]

(* Mutant of Reconcile: package revisions come before the finalizer.         *)
ReconcileUnheld(v) ==
  /\ work = NoWork /\ v \in queue
  /\ There(vcache[v])
  /\ LET begun == [NoWork EXCEPT !.v = v, !.cr = vcache[v], !.fresh = vsynced[v]]
     IN  work' = IF vcache[v].deleting THEN Listed(begun, vcache[v])
                 ELSE [begun EXCEPT !.step = "validate"]
  /\ queue' = queue \ {v}
  /\ UNCHANGED <<variantVars, prVars, upstream, repository, uids, events>>

(* The variant is read; unless it is being deleted, it gets its finalizer.   *)
(* A conflict there changes nothing and is retried.                          *)
Reconcile(v) ==
  LET cr == IF vcache[v].deleting THEN vcache[v] ELSE [vcache[v] EXCEPT !.fin = TRUE]
      begun == [NoWork EXCEPT !.v = v, !.cr = cr, !.fresh = vsynced[v]]
  IN  /\ work = NoWork /\ v \in queue
      /\ There(vcache[v])
      /\ IF cr = vcache[v] THEN UNCHANGED <<vstore, vsynced>>
         ELSE vsynced[v] /\ VariantChanged(v, cr)
      /\ work' = IF cr.deleting THEN Listed(begun, cr) ELSE [begun EXCEPT !.step = "validate"]
      /\ queue' = queue \ {v}
      /\ UNCHANGED <<vcache, prVars, upstream, repository, uids, events>>

(* The end of a reconcile: the status is written, and the variant comes back *)
(* when asked to, or after a conflict.                                       *)
End(status, again) ==
  LET v == work.v
  IN  /\ IF work.fresh THEN VariantChanged(v, [work.cr EXCEPT !.status = status])
         ELSE UNCHANGED <<vstore, vsynced>>
      /\ queue' = IF again \/ ~ work.fresh THEN queue \cup {v} ELSE queue
      /\ work' = NoWork
      /\ UNCHANGED <<vcache, prVars, upstream, repository, uids, events>>

(* Mutant of Validate: neither is tried again. *)
ValidateOnce ==
  /\ work.step = "validate"
  /\ \/ ~ upstream /\ End("upstream", FALSE)
     \/ upstream /\ ~ repository /\ End("repository", FALSE)
     \/ /\ upstream /\ repository
        /\ work' = Listed(work, work.cr)
        /\ UNCHANGED <<variantVars, prVars, upstream, repository, queue, uids, events>>

(* validateUpstream, validateDownstreamRepo: only the first is tried again.  *)
Validate ==
  /\ work.step = "validate"
  /\ \/ ~ upstream /\ End("upstream", TRUE)
     \/ upstream /\ ~ repository /\ End("repository", FALSE)
     \/ /\ upstream /\ repository
        /\ work' = Listed(work, work.cr)
        /\ UNCHANGED <<variantVars, prVars, upstream, repository, queue, uids, events>>

(* deleteOrOrphan for the listed copy of n: what is stored afterwards, and   *)
(* whether it was deleted; an error changes nothing, and its callers go on   *)
(* as if n were done.                                                        *)
Outcome(n) ==
  LET copy == work.copies[n]
      Update(o) == IF n \in work.stale THEN store[n] ELSE o
  IN  CASE PolicyOf[work.cr.spec] = "orphan" ->
             [o |-> Update(IF copy.owner = work.cr.uid THEN [copy EXCEPT !.owner = 0] ELSE copy),
              done |-> TRUE]
        [] PolicyOf[work.cr.spec] = "delete" /\ copy.lifecycle = "published" ->
             [o |-> Update([copy EXCEPT !.lifecycle = "deletionProposed"]),
              done |-> n \in work.stale]
        [] OTHER ->
             [o |-> IF Exists(store[n]) THEN DeleteRequested(store[n]) ELSE NoPR, done |-> TRUE]

DeleteOrOrphan(n) ==
  LET out == Outcome(n)
  IN  /\ Exists(work.copies[n])
      /\ PRChanged(n, out.o)
      /\ work' = [work EXCEPT !.copies[n] = NoPR, !.stale = @ \ {n},
                              !.done = @ /\ (out.done \/ ~ work.cr.deleting \/ ~ Matches(n, work.cr))]
      /\ UNCHANGED <<variantVars, cache, upstream, repository, queue, uids, events>>

(* getDownstreamPRs: what the variant owns elsewhere goes while it lists.    *)
Elsewhere == {n \in PRs : Exists(work.copies[n]) /\ ~ Matches(n, work.cr)}
LeaveElsewhere(n) ==
  /\ work.step = "listed" /\ n \in Elsewhere
  /\ DeleteOrOrphan(n)

(* ensurePackageRevision: the package revision of the spec, unless listed.   *)
Ensure ==
  LET wanted == work.cr.spec
  IN  /\ work.step = "listed" /\ ~ work.cr.deleting /\ Elsewhere = {}
      /\ \/ /\ ~ Exists(work.copies[wanted]) /\ Exists(store[wanted])
            /\ End("exists", TRUE)
         \/ /\ Exists(work.copies[wanted])
            /\ work' = [work EXCEPT !.step = "outdated", !.copies[wanted] = NoPR,
                                    !.stale = @ \ {wanted}]
            /\ UNCHANGED <<variantVars, prVars, upstream, repository, queue, uids, events>>
         \/ /\ ~ Exists(work.copies[wanted]) /\ ~ Exists(store[wanted])
            /\ PRChanged(wanted, [NoPR EXCEPT !.lifecycle = "draft", !.owner = work.cr.uid])
            /\ work' = [work EXCEPT !.step = "outdated", !.stale = @ \ {wanted}]
            /\ UNCHANGED <<variantVars, cache, upstream, repository, queue, uids, events>>

LeaveOutdated(n) == work.step = "outdated" /\ DeleteOrOrphan(n)

EnsureDone ==
  /\ work.step = "outdated" /\ work.copies = NoCopies
  /\ End("ready", FALSE)

(* deletePackageRevisions: all of the package, whoever owns them.            *)
DeleteDownstream(n) ==
  /\ work.step = "listed" /\ work.cr.deleting /\ Elsewhere = {}
  /\ DeleteOrOrphan(n)

(* Mutant of AllDone: it is waited until they have gone. *)
AllGone == work.done /\ \A n \in PRs : Matches(n, work.cr) => ~ Exists(store[n])
AllDone == work.done

(* The finalizer goes once all are deleted; otherwise it is tried again.     *)
DeletionDone ==
  /\ work.step = "listed" /\ work.cr.deleting /\ work.copies = NoCopies
  /\ \/ ~ AllDone /\ End("deleting", TRUE)
     \/ /\ AllDone /\ ~ work.fresh
        /\ End("deleting", TRUE)
     \/ /\ AllDone /\ work.fresh
        /\ VariantChanged(work.v, NoObject)
        /\ work' = NoWork
        /\ UNCHANGED <<vcache, prVars, upstream, repository, queue, uids, events>>

----------------------------------------------------------------------------
(* Users of variants. *)

CreateVariant(v) ==
  /\ ~ There(vstore[v]) /\ uids < MaxUid
  /\ uids' = uids + 1
  /\ \E spec \in Specs :
       VariantWrite(v, [NoObject EXCEPT !.uid = uids + 1, !.spec = spec])

ChangeSpec(v) ==
  \E move \in SpecMoves :
    /\ vstore[v].spec = move[1]
    /\ VariantWrite(v, [vstore[v] EXCEPT !.spec = move[2]])
    /\ UNCHANGED uids

DeleteVariant(v) ==
  /\ There(vstore[v]) /\ ~ vstore[v].deleting
  /\ VariantWrite(v, IF vstore[v].fin THEN [vstore[v] EXCEPT !.deleting = TRUE] ELSE NoObject)
  /\ UNCHANGED uids

----------------------------------------------------------------------------
(* The package revisions' own controllers and the garbage collector. *)

(* The approver sets its finalizer and moves the lifecycle on.               *)
Advance(n) ==
  /\ Event
  /\ ~ store[n].deleting
  /\ \E move \in {<<"draft", "proposed">>, <<"proposed", "published">>} :
       /\ store[n].lifecycle = move[1]
       /\ PRWrite(n, [store[n] EXCEPT !.held = TRUE, !.lifecycle = move[2]])

(* The packagerevision controller lets go of what is not published.          *)
Vanish(n) ==
  /\ store[n].deleting /\ store[n].lifecycle # "published"
  /\ PRWrite(n, NoPR)
  /\ UNCHANGED events

(* The garbage collector deletes what refers to an owner that is gone.       *)
Collect(n) ==
  /\ store[n].owner # 0 /\ ~ store[n].deleting
  /\ \A v \in Variants : vstore[v].uid # store[n].owner
  /\ PRWrite(n, DeleteRequested(store[n]))
  /\ UNCHANGED events

(* The upstream becomes ready or stops being so; Repositories come and go.   *)
Surroundings ==
  /\ Event
  /\ \/ upstream' = ~ upstream /\ UNCHANGED repository
     \/ repository' = ~ repository /\ UNCHANGED upstream
  /\ UNCHANGED <<variantVars, prVars, queue, work, uids>>

Restart ==
  /\ Event
  /\ vcache' = vstore /\ vsynced' = [v \in Variants |-> TRUE]
  /\ cache' = store /\ synced' = [n \in PRs |-> TRUE]
  /\ queue' = Variants
  /\ work' = NoWork
  /\ UNCHANGED <<vstore, store, upstream, repository, uids>>

----------------------------------------------------------------------------
Init ==
  /\ vstore = [v \in Variants |-> NoObject] /\ vcache = vstore
  /\ vsynced = [v \in Variants |-> TRUE]
  /\ store = [n \in PRs |-> IF n \in Others
                             THEN [NoPR EXCEPT !.lifecycle = "published", !.held = TRUE]
                             ELSE NoPR]
  /\ cache = store /\ synced = [n \in PRs |-> TRUE]
  /\ upstream \in BOOLEAN /\ repository \in BOOLEAN
  /\ queue = {}
  /\ work = NoWork
  /\ uids = 0 /\ events = 0

Controller ==
  \/ \E v \in Variants : Skip(v) \/ Reconcile(v)
  \/ \E n \in PRs : LeaveElsewhere(n) \/ LeaveOutdated(n) \/ DeleteDownstream(n)
  \/ Validate \/ Ensure \/ EnsureDone \/ DeletionDone

Next ==
  \/ Controller
  \/ \E v \in Variants : VariantSync(v) \/ CreateVariant(v) \/ ChangeSpec(v) \/ DeleteVariant(v)
  \/ \E n \in PRs : PRSync(n) \/ Advance(n) \/ Vanish(n) \/ Collect(n)
  \/ Surroundings \/ Restart

Spec == Init /\ [][Next]_vars

(* The informers deliver, the controller works its queue off.                *)
Fairness ==
  /\ WF_vars(Controller)
  /\ \A v \in Variants : WF_vars(VariantSync(v))
  /\ \A n \in PRs : WF_vars(PRSync(n))
FairSpec == Spec /\ Fairness

----------------------------------------------------------------------------
(* Properties. *)

(* A package revision is made for a variant only while the variant is stored *)
(* and holds its finalizer, however old the copies are that the controller   *)
(* decides by (reconciler.go:101-165): no variant that has gone leaves one.  *)
CreatedForLiving ==
  [][\A n \in Specs : ~ Exists(store[n]) /\ Exists(store'[n]) =>
       \E v \in Variants : /\ There(vstore[v]) /\ vstore[v].fin
                           /\ vstore[v].uid = store'[n].owner]_vars

(* What that takes: the reconcile that may make one is that of a variant     *)
(* which cannot go meanwhile; and what is cached of a variant that is not    *)
(* being deleted and has the finalizer is still there.                       *)
Kept(v, uid) == There(vstore[v]) /\ vstore[v].uid = uid /\ vstore[v].fin
WorkKept ==
  work.step # "idle" =>
    /\ work.v \in Variants /\ There(work.cr)
    /\ ~ work.cr.deleting => Kept(work.v, work.cr.uid)
    /\ work.cr.deleting => work.step = "listed"
FreshIsStored ==
  work.step # "idle" /\ work.fresh =>
    /\ vstore[work.v] = work.cr
    /\ work.cr.deleting => vcache[work.v].deleting
CachedIsKept ==
  \A v \in Variants :
    /\ vsynced[v] => vcache[v] = vstore[v]
    /\ There(vcache[v]) /\ ~ vcache[v].deleting /\ vcache[v].fin => Kept(v, vcache[v].uid)
(* A listed copy that has not changed since is what is stored.               *)
CopiesAreStored ==
  \A n \in PRs :
    /\ synced[n] => cache[n] = store[n]
    /\ Exists(work.copies[n]) /\ n \notin work.stale => store[n] = work.copies[n]
VariantInv == TypeOK /\ WorkKept /\ FreshIsStored /\ CachedIsKept /\ CopiesAreStored

(* With a Repository there and an upstream that gets ready for good, the     *)
(* package revision of a spec is made, unless the variant changes or goes    *)
(* (ensurePackageRevision, reconciler.go:224-270).                           *)
Ensured ==
  []repository /\ <>[]upstream =>
    \A v \in Variants, s \in Specs :
      vstore[v].spec = s /\ ~ vstore[v].deleting
        ~> Exists(store[s]) \/ vstore[v].spec # s \/ vstore[v].deleting

(* A variant that is being deleted goes, published package revisions or not: *)
(* they are proposed for deletion first, and the variant waits for that      *)
(* (deletePackageRevisions, reconciler.go:199-222).                          *)
VariantGoes == \A v \in Variants : vstore[v].deleting ~> ~ There(vstore[v])
=============================================================================
