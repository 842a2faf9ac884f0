----------------------- MODULE PackageVariantsProofs -----------------------
(* Proofs about PackageVariants: for any variants, specs, package revisions  *)
(* and bounds, a package revision is made only for a variant that is stored  *)
(* and holds its finalizer.                                                  *)
EXTENDS PackageVariants, TLAPS

(* The fields of what is stored, and of what is changed in it.               *)
LEMMA VariantFields ==
  ASSUME NEW o \in VariantObjects
  PROVE  /\ o.uid \in 0 .. MaxUid /\ o.deleting \in BOOLEAN /\ o.fin \in BOOLEAN
         /\ o.status \in Statuses
         /\ There(o) =>
              /\ o.spec \in Specs
              /\ \A b \in BOOLEAN : [o EXCEPT !.fin = b] \in VariantObjects
              /\ \A b \in BOOLEAN : [o EXCEPT !.deleting = b] \in VariantObjects
              /\ \A s \in Statuses : [o EXCEPT !.status = s] \in VariantObjects
              /\ \A s \in Specs : [o EXCEPT !.spec = s] \in VariantObjects
         /\ o.fin => There(o)
         /\ o.deleting => There(o)
         /\ o.spec \in Specs => There(o)
<1> DEFINE Stored == [uid : 1 .. MaxUid, spec : Specs, deleting : BOOLEAN,
                      fin : BOOLEAN, status : Statuses]
<1>1. CASE o \in Stored
  <2>1. /\ o.uid \in 0 .. MaxUid /\ o.uid # 0 /\ o.deleting \in BOOLEAN /\ o.fin \in BOOLEAN
        /\ o.status \in Statuses /\ o.spec \in Specs
    BY <1>1, BoundsAssumption
  <2>2. /\ \A b \in BOOLEAN : [o EXCEPT !.fin = b] \in Stored
        /\ \A b \in BOOLEAN : [o EXCEPT !.deleting = b] \in Stored
        /\ \A s \in Statuses : [o EXCEPT !.status = s] \in Stored
        /\ \A s \in Specs : [o EXCEPT !.spec = s] \in Stored
    BY <1>1
  <2> QED BY <2>1, <2>2 DEF VariantObjects, There
<1>2. CASE o = NoObject
  <2>1. o.uid = 0 /\ o.spec = NoSpec /\ o.deleting = FALSE /\ o.fin = FALSE /\ o.status = "none"
    BY <1>2 DEF NoObject
  <2>2. NoSpec \notin Specs
    BY NamesAssumption DEF PRs
  <2>3. 0 \in 0 .. MaxUid
    BY BoundsAssumption
  <2> QED BY <2>1, <2>2, <2>3 DEF There, Statuses
<1> QED BY <1>1, <1>2 DEF VariantObjects

LEMMA PRFields ==
  ASSUME NEW o \in PRObjects
  PROVE  /\ o.owner \in 0 .. MaxUid
         /\ NoPR \in PRObjects
         /\ Exists(o) =>
              /\ \A u \in 0 .. MaxUid : [o EXCEPT !.owner = u] \in PRObjects
              /\ \A l \in Lifecycles : [o EXCEPT !.lifecycle = l] \in PRObjects
              /\ \A l \in Lifecycles :
                   [o EXCEPT !.held = TRUE, !.lifecycle = l] \in PRObjects
              /\ DeleteRequested(o) \in PRObjects
<1> DEFINE Stored == [lifecycle : Lifecycles, owner : 0 .. MaxUid, held : BOOLEAN,
                      deleting : BOOLEAN]
<1>1. NoPR \in PRObjects /\ ~ Exists(NoPR) /\ NoPR.owner = 0 /\ 0 \in 0 .. MaxUid
  BY BoundsAssumption DEF PRObjects, NoPR, Exists
<1>2. CASE o \in Stored
  <2>1. o.owner \in 0 .. MaxUid
    BY <1>2
  <2>2. /\ \A u \in 0 .. MaxUid : [o EXCEPT !.owner = u] \in Stored
        /\ \A l \in Lifecycles : [o EXCEPT !.lifecycle = l] \in Stored
        /\ \A l \in Lifecycles : [o EXCEPT !.held = TRUE, !.lifecycle = l] \in Stored
        /\ [o EXCEPT !.deleting = TRUE] \in Stored
    BY <1>2
  <2> QED BY <1>1, <2>1, <2>2 DEF PRObjects, DeleteRequested
<1> QED BY <1>1, <1>2 DEF PRObjects

(* What a write keeps of the types.                                          *)
LEMMA PRChangedTyped ==
  ASSUME TypeOK, NEW n \in PRs, NEW o \in PRObjects, PRChanged(n, o)
  PROVE  store' \in [PRs -> PRObjects] /\ synced' \in [PRs -> BOOLEAN]
  BY DEF TypeOK, PRChanged

LEMMA VariantChangedTyped ==
  ASSUME TypeOK, NEW v \in Variants, NEW o \in VariantObjects, VariantChanged(v, o)
  PROVE  vstore' \in [Variants -> VariantObjects] /\ vsynced' \in [Variants -> BOOLEAN]
  BY DEF TypeOK, VariantChanged

LEMMA NoWorkTyped == NoWork \in Work
  BY DEF NoWork, Work, NoCopies, NoPR, NoObject, VariantObjects, PRObjects

LEMMA ListedTyped ==
  ASSUME TypeOK, NEW w \in Work, NEW cr \in VariantObjects
  PROVE  Listed(w, cr) \in Work
<1>1. [n \in PRs |-> IF Relevant(n, cr) THEN cache[n] ELSE NoPR] \in [PRs -> PRObjects]
  BY DEF TypeOK, PRObjects
<1>2. {n \in PRs : Relevant(n, cr) /\ ~ synced[n]} \in SUBSET PRs
  OBVIOUS
<1> QED BY <1>1, <1>2 DEF Listed, Work

LEMMA NoWorkCopies ==
  ASSUME \A n \in PRs : synced[n] => cache[n] = store[n], work.copies = NoCopies
  PROVE  CopiesAreStored
BY DEF CopiesAreStored, NoCopies, NoPR, Exists

LEMMA ListedCopies ==
  ASSUME TypeOK, CopiesAreStored, NEW w \in Work, NEW cr \in VariantObjects,
         work' = Listed(w, cr), UNCHANGED prVars
  PROVE  CopiesAreStored'
<1>1. /\ work'.copies = [n \in PRs |-> IF Relevant(n, cr) THEN cache[n] ELSE NoPR]
      /\ work'.stale = {n \in PRs : Relevant(n, cr) /\ ~ synced[n]}
  BY DEF Listed, Work
<1> QED BY <1>1 DEF CopiesAreStored, prVars, NoPR, Exists

(* What of the invariant depends on the variants and the reconcile.          *)
LEMMA SameVariants ==
  ASSUME VariantInv, UNCHANGED variantVars, TypeOK', CopiesAreStored',
         \/ work'.step = "idle"
         \/ /\ work.step # "idle"
            /\ work'.v = work.v /\ work'.cr = work.cr /\ work'.fresh = work.fresh
            /\ work'.step = "listed" \/ ~ work.cr.deleting
  PROVE  VariantInv'
  BY DEF VariantInv, WorkKept, FreshIsStored, CachedIsKept, Kept, There, variantVars

(* The cache stays good when what is stored does.                            *)
LEMMA CachedKeeps ==
  ASSUME VariantInv, vcache' = vcache,
         \A x \in Variants, u \in 0 .. MaxUid : Kept(x, u) => Kept(x, u)',
         \A x \in Variants : vsynced'[x] => vcache[x] = vstore'[x]
  PROVE  CachedIsKept'
<1>1. \A x \in Variants : vcache[x].uid \in 0 .. MaxUid
  BY VariantFields DEF VariantInv, TypeOK
<1>2. \A x \in Variants, u \in 0 .. MaxUid :
        Kept(x, u)' <=> There(vstore'[x]) /\ vstore'[x].uid = u /\ vstore'[x].fin
  BY DEF Kept, There
<1> QED BY <1>1, <1>2 DEF VariantInv, CachedIsKept, Kept, There

(* A write by someone else: a stored variant with its finalizer stays.       *)
LEMMA VariantWriteKeeps ==
  ASSUME VariantInv, NEW v \in Variants, NEW o \in VariantObjects, VariantWrite(v, o),
         uids' \in 0 .. MaxUid,
         vstore[v].fin => o.fin /\ o.uid = vstore[v].uid
  PROVE  VariantInv'
<1>1. /\ vstore' = [vstore EXCEPT ![v] = o]
      /\ vsynced' = [vsynced EXCEPT ![v] = @ /\ o = vstore[v]]
      /\ vcache' = vcache
      /\ work' = [work EXCEPT !.fresh = @ /\ (work.v # v \/ o = vstore[v])]
  BY DEF VariantWrite, VariantChanged
<1>2. TypeOK'
  <2>1. work' \in Work
    BY <1>1 DEF VariantInv, TypeOK, Work
  <2> QED BY <2>1, <1>1, VariantChangedTyped DEF VariantInv, TypeOK, VariantWrite, prVars
<1>3. work'.step = work.step /\ work'.v = work.v /\ work'.cr = work.cr
      /\ (work'.fresh => work.fresh /\ (work.v # v \/ o = vstore[v]))
  BY <1>1 DEF VariantInv, TypeOK, Work
<1>4. \A x \in Variants, u \in 0 .. MaxUid : Kept(x, u) => Kept(x, u)'
  BY <1>1, VariantFields DEF VariantInv, TypeOK, Kept, There
<1>5. WorkKept'
  BY <1>3, <1>4, VariantFields DEF VariantInv, WorkKept, TypeOK, Work, There
<1>6. FreshIsStored'
  BY <1>1, <1>3 DEF VariantInv, FreshIsStored, WorkKept, TypeOK
<1>7. CachedIsKept'
  <2>1. \A x \in Variants : vsynced'[x] => vcache[x] = vstore'[x]
    BY <1>1 DEF VariantInv, TypeOK, CachedIsKept
  <2> QED BY <1>1, <1>4, <2>1, CachedKeeps
<1>8. CopiesAreStored'
  <2>1. work'.copies = work.copies /\ work'.stale = work.stale
    BY <1>1 DEF VariantInv, TypeOK, Work
  <2> QED BY <2>1 DEF VariantInv, CopiesAreStored, VariantWrite, prVars
<1> QED BY <1>2, <1>5, <1>6, <1>7, <1>8 DEF VariantInv

(* The end of a reconcile.                                                   *)
LEMMA EndKeeps ==
  ASSUME VariantInv, work.step # "idle", NEW status \in Statuses, NEW again \in BOOLEAN,
         End(status, again)
  PROVE  VariantInv'
<1>1. /\ work.v \in Variants /\ There(work.cr) /\ work.cr \in VariantObjects
      /\ work' = NoWork /\ vcache' = vcache
  BY DEF VariantInv, WorkKept, TypeOK, Work, End
<1> DEFINE o == [work.cr EXCEPT !.status = status]
<1>2. o \in VariantObjects /\ o.uid = work.cr.uid /\ o.fin = work.cr.fin
  BY <1>1, VariantFields DEF VariantObjects, NoObject
<1>3. TypeOK'
  <2>1. vstore' \in [Variants -> VariantObjects] /\ vsynced' \in [Variants -> BOOLEAN]
    <3>1. CASE work.fresh
      BY <3>1, <1>1, <1>2, VariantChangedTyped DEF End, VariantInv
    <3>2. CASE ~ work.fresh
      BY <3>2 DEF End, VariantInv, TypeOK
    <3> QED BY <3>1, <3>2
  <2>2. queue' \in SUBSET Variants
    BY <1>1 DEF End, VariantInv, TypeOK
  <2> QED BY <1>1, <2>1, <2>2, NoWorkTyped DEF End, VariantInv, TypeOK, prVars
<1>4. WorkKept' /\ FreshIsStored'
  BY <1>1 DEF WorkKept, FreshIsStored, NoWork
<1>5. CachedIsKept'
  <2>1. CASE ~ work.fresh
    BY <2>1, <1>1 DEF End, VariantInv, CachedIsKept, Kept
  <2>2. CASE work.fresh
    <3>1. /\ vstore[work.v] = work.cr
          /\ vstore' = [vstore EXCEPT ![work.v] = o]
          /\ vsynced' = [vsynced EXCEPT ![work.v] = @ /\ o = vstore[work.v]]
      BY <2>2 DEF VariantInv, FreshIsStored, End, VariantChanged
    <3>2. \A x \in Variants, u \in 0 .. MaxUid : Kept(x, u) => Kept(x, u)'
      BY <1>1, <1>2, <3>1 DEF VariantInv, TypeOK, Kept, There
    <3>3. \A x \in Variants : vsynced'[x] => vcache[x] = vstore'[x]
      BY <1>1, <3>1 DEF VariantInv, TypeOK, CachedIsKept
    <3> QED BY <1>1, <3>2, <3>3, CachedKeeps
  <2> QED BY <2>1, <2>2
<1>6. CopiesAreStored'
  BY <1>1, NoWorkCopies DEF VariantInv, CopiesAreStored, End, prVars, NoWork, NoCopies, NoPR, Exists
<1> QED BY <1>3, <1>4, <1>5, <1>6 DEF VariantInv

(* What a step does that touches neither variants nor the reconcile.         *)
LEMMA DeleteOrOrphanKeeps ==
  ASSUME VariantInv, work.step # "idle", NEW n \in PRs, DeleteOrOrphan(n)
  PROVE  VariantInv'
<1> DEFINE out == Outcome(n)
           copy == work.copies[n]
<1>1. /\ work.cr \in VariantObjects /\ work.cr.uid \in 0 .. MaxUid
      /\ copy \in PRObjects /\ Exists(copy) /\ store[n] \in PRObjects
  BY VariantFields DEF VariantInv, TypeOK, Work, DeleteOrOrphan
<1>2. out.o \in PRObjects /\ out.done \in BOOLEAN
  <2>1. \A o \in PRObjects : (IF n \in work.stale THEN store[n] ELSE o) \in PRObjects
    BY <1>1
  <2>2. "deletionProposed" \in Lifecycles
    BY DEF Lifecycles
  <2>3. /\ \A u \in 0 .. MaxUid : [copy EXCEPT !.owner = u] \in PRObjects
        /\ \A l \in Lifecycles : [copy EXCEPT !.lifecycle = l] \in PRObjects
    BY <1>1, PRFields
  <2>4. 0 \in 0 .. MaxUid
    BY BoundsAssumption
  <2>5. (IF Exists(store[n]) THEN DeleteRequested(store[n]) ELSE NoPR) \in PRObjects
    BY <1>1, PRFields
  <2>6. CASE PolicyOf[work.cr.spec] = "orphan"
    <3>1. (IF copy.owner = work.cr.uid THEN [copy EXCEPT !.owner = 0] ELSE copy) \in PRObjects
      BY <1>1, <2>3, <2>4
    <3> QED BY <2>1, <2>6, <3>1 DEF Outcome
  <2>7. CASE PolicyOf[work.cr.spec] = "delete" /\ copy.lifecycle = "published"
    <3>1. [copy EXCEPT !.lifecycle = "deletionProposed"] \in PRObjects
      BY <2>2, <2>3
    <3>2. out = [o |-> IF n \in work.stale THEN store[n]
                       ELSE [copy EXCEPT !.lifecycle = "deletionProposed"],
                 done |-> n \in work.stale]
      BY <2>7 DEF Outcome
    <3>3. (n \in work.stale) \in BOOLEAN
      OBVIOUS
    <3> HIDE DEF out
    <3>4. out.o \in PRObjects
      BY <2>1, <3>1, <3>2
    <3>5. out.done = (n \in work.stale)
      BY <3>2
    <3> QED BY <3>3, <3>4, <3>5
  <2>8. CASE ~ (PolicyOf[work.cr.spec] = "orphan")
             /\ ~ (PolicyOf[work.cr.spec] = "delete" /\ copy.lifecycle = "published")
    BY <2>5, <2>8 DEF Outcome
  <2> QED BY <2>6, <2>7, <2>8
<1>3. /\ work' \in Work
      /\ work'.step = work.step /\ work'.v = work.v /\ work'.cr = work.cr
      /\ work'.fresh = work.fresh
  BY <1>2, PRFields DEF VariantInv, TypeOK, Work, DeleteOrOrphan
<1>4. TypeOK'
  BY <1>2, <1>3, PRChangedTyped DEF VariantInv, TypeOK, DeleteOrOrphan, variantVars
<1>5. work'.step = "listed" \/ ~ work.cr.deleting
  BY <1>3 DEF VariantInv, WorkKept
<1>6. CopiesAreStored'
  <2>1. work'.copies = [work.copies EXCEPT ![n] = NoPR] /\ work'.stale = work.stale \ {n}
    BY DEF VariantInv, TypeOK, Work, DeleteOrOrphan
  <2>2. /\ store' = [store EXCEPT ![n] = out.o]
        /\ synced' = [synced EXCEPT ![n] = @ /\ out.o = store[n]]
        /\ cache' = cache
    BY DEF DeleteOrOrphan, PRChanged
  <2>3. work.copies \in [PRs -> PRObjects] /\ ~ Exists(NoPR)
    BY DEF VariantInv, TypeOK, Work, NoPR, Exists
  <2> HIDE DEF out
  <2> QED BY <2>1, <2>2, <2>3 DEF VariantInv, TypeOK, CopiesAreStored
<1> QED BY <1>3, <1>4, <1>5, <1>6, SameVariants DEF DeleteOrOrphan

LEMMA PRWriteKeeps ==
  ASSUME VariantInv, NEW n \in PRs, NEW o \in PRObjects, PRWrite(n, o),
         events' \in 0 .. MaxEvents
  PROVE  VariantInv'
<1>1. /\ work' \in Work
      /\ work'.step = work.step /\ work'.v = work.v /\ work'.cr = work.cr
      /\ work'.fresh = work.fresh
  BY DEF VariantInv, TypeOK, Work, PRWrite
<1>2. TypeOK'
  BY <1>1, PRChangedTyped DEF VariantInv, TypeOK, PRWrite, variantVars
<1>3. work.step # "idle" => work'.step = "listed" \/ ~ work.cr.deleting
  BY <1>1 DEF VariantInv, WorkKept
<1>4. CopiesAreStored'
  <2>1. /\ work'.copies = work.copies
        /\ work'.stale = IF Exists(work.copies[n]) /\ o # store[n]
                         THEN work.stale \cup {n} ELSE work.stale
        /\ store' = [store EXCEPT ![n] = o]
        /\ synced' = [synced EXCEPT ![n] = @ /\ o = store[n]]
        /\ cache' = cache
    BY DEF VariantInv, TypeOK, Work, PRWrite, PRChanged
  <2> QED BY <2>1 DEF VariantInv, TypeOK, CopiesAreStored
<1> QED BY <1>1, <1>2, <1>3, <1>4, SameVariants DEF PRWrite

LEMMA EventTyped ==
  ASSUME TypeOK, Event
  PROVE  events' \in 0 .. MaxEvents
BY BoundsAssumption DEF TypeOK, Event

(* The beginning of a reconcile: the variant as cached is the one that is    *)
(* stored, as far as the finalizer goes.                                     *)
LEMMA ReconcileKeeps ==
  ASSUME VariantInv, NEW v \in Variants, Reconcile(v)
  PROVE  VariantInv'
<1> DEFINE cr == IF vcache[v].deleting THEN vcache[v] ELSE [vcache[v] EXCEPT !.fin = TRUE]
           begun == [NoWork EXCEPT !.v = v, !.cr = cr, !.fresh = vsynced[v]]
<1>1. /\ vcache[v] \in VariantObjects /\ There(vcache[v]) /\ vsynced[v] \in BOOLEAN
      /\ vcache[v].deleting \in BOOLEAN /\ vcache[v].fin \in BOOLEAN
      /\ vcache[v].uid \in 0 .. MaxUid
  BY VariantFields DEF VariantInv, TypeOK, Reconcile
<1>2. /\ cr \in VariantObjects /\ There(cr) /\ cr.uid = vcache[v].uid
      /\ cr.deleting = vcache[v].deleting
      /\ ~ cr.deleting => cr.fin
      /\ cr = vcache[v] /\ ~ cr.deleting => vcache[v].fin
  BY <1>1, VariantFields DEF VariantObjects, NoObject, There
<1>3. begun \in Work /\ [begun EXCEPT !.step = "validate"] \in Work
  BY <1>1, <1>2, NoWorkTyped DEF Work
<1>4. work' \in Work
  BY <1>2, <1>3, ListedTyped DEF VariantInv, Reconcile
<1>5. /\ work'.v = v /\ work'.cr = cr /\ work'.fresh = vsynced[v]
      /\ work'.step = IF cr.deleting THEN "listed" ELSE "validate"
  BY DEF Reconcile, Listed, NoWork
<1>6. vcache' = vcache
  BY DEF Reconcile
<1>7. CopiesAreStored'
  <2>1. CASE cr.deleting
    BY <1>2, <1>3, <2>1, ListedCopies DEF Reconcile, VariantInv
  <2>2. CASE ~ cr.deleting
    <3>1. work'.copies = NoCopies /\ UNCHANGED prVars
      BY <2>2 DEF Reconcile, NoWork
    <3> QED BY <3>1 DEF VariantInv, CopiesAreStored, NoCopies, NoPR, Exists, prVars
  <2> QED BY <2>1, <2>2
<1>8. CASE cr = vcache[v]
  <2>1. vstore' = vstore /\ vsynced' = vsynced
    BY <1>8 DEF Reconcile
  <2>2. TypeOK'
    BY <1>4, <1>6, <2>1 DEF VariantInv, TypeOK, Reconcile, prVars
  <2>3. ~ cr.deleting => Kept(v, cr.uid)
    BY <1>1, <1>2, <1>8 DEF VariantInv, CachedIsKept
  <2>4. WorkKept'
    BY <1>2, <1>5, <2>1, <2>3 DEF WorkKept, Kept, There
  <2>5. FreshIsStored'
    BY <1>5, <1>6, <1>8, <2>1 DEF VariantInv, CachedIsKept, FreshIsStored
  <2>6. CachedIsKept'
    BY <1>6, <2>1 DEF VariantInv, CachedIsKept, Kept
  <2> QED BY <1>7, <2>2, <2>4, <2>5, <2>6 DEF VariantInv
<1>9. CASE cr # vcache[v]
  <2>1. vsynced[v] /\ VariantChanged(v, cr) /\ ~ cr.deleting
    BY <1>2, <1>9 DEF Reconcile
  <2>2. /\ vstore' = [vstore EXCEPT ![v] = cr]
        /\ vsynced' = [vsynced EXCEPT ![v] = @ /\ cr = vstore[v]]
        /\ vstore[v] = vcache[v]
    BY <2>1 DEF VariantChanged, VariantInv, CachedIsKept
  <2>3. TypeOK'
    BY <1>2, <1>4, <1>6, <2>1, VariantChangedTyped DEF VariantInv, TypeOK, Reconcile, prVars
  <2>4. vstore'[v] = cr
    BY <2>2 DEF VariantInv, TypeOK
  <2>5. WorkKept'
    BY <1>2, <1>5, <2>1, <2>4 DEF WorkKept, Kept, There
  <2>6. FreshIsStored'
    BY <1>5, <2>1, <2>4 DEF FreshIsStored
  <2>7. \A x \in Variants, u \in 0 .. MaxUid : Kept(x, u) => Kept(x, u)'
    BY <1>2, <2>1, <2>2 DEF VariantInv, TypeOK, Kept, There
  <2>8. \A x \in Variants : vsynced'[x] => vcache[x] = vstore'[x]
    BY <2>2, <1>9 DEF VariantInv, TypeOK, CachedIsKept
  <2>9. CachedIsKept'
    BY <1>6, <2>7, <2>8, CachedKeeps
  <2> QED BY <1>7, <2>3, <2>5, <2>6, <2>9 DEF VariantInv
<1> QED BY <1>8, <1>9

(* The invariant of the controller holds for any variants and bounds.       *)
THEOREM VariantInvariant == Spec => []VariantInv
<1>1. Init => VariantInv
  <2> SUFFICES ASSUME Init PROVE VariantInv
    OBVIOUS
  <2>1. NoObject \in VariantObjects /\ ~ There(NoObject)
    BY DEF NoObject, VariantObjects, There
  <2>2. /\ NoPR \in PRObjects
        /\ [NoPR EXCEPT !.lifecycle = "published", !.held = TRUE] \in PRObjects
    <3>1. 0 \in 0 .. MaxUid
      BY BoundsAssumption
    <3>2. [NoPR EXCEPT !.lifecycle = "published", !.held = TRUE] \in PRObjects
      BY <3>1 DEF NoPR, PRObjects, Lifecycles
    <3> QED BY <3>2 DEF PRObjects
  <2>3. TypeOK
    BY <2>1, <2>2, NoWorkTyped, BoundsAssumption DEF Init, TypeOK
  <2>4. WorkKept /\ FreshIsStored
    BY DEF Init, WorkKept, FreshIsStored, NoWork
  <2>5. CachedIsKept
    BY <2>1 DEF Init, CachedIsKept
  <2>6. CopiesAreStored
    BY NoWorkCopies DEF Init, NoWork
  <2> QED BY <2>3, <2>4, <2>5, <2>6 DEF VariantInv
<1>2. VariantInv /\ [Next]_vars => VariantInv'
  <2> SUFFICES ASSUME VariantInv, [Next]_vars PROVE VariantInv'
    OBVIOUS
  <2> USE DEF prVars
  <2>1. CASE UNCHANGED vars
    BY <2>1 DEF vars, variantVars, VariantInv, TypeOK, WorkKept, FreshIsStored, CachedIsKept, Kept,
               CopiesAreStored
  <2>2. ASSUME NEW v \in Variants, Skip(v) PROVE VariantInv'
    <3>1. TypeOK'
      BY <2>2 DEF Skip, VariantInv, TypeOK, variantVars
    <3>2. work'.step = "idle"
      BY <2>2 DEF Skip, NoWork
    <3>3. CopiesAreStored'
      BY <2>2 DEF Skip, VariantInv, CopiesAreStored
    <3> QED BY <2>2, <3>1, <3>2, <3>3, SameVariants DEF Skip
  <2>3. ASSUME NEW v \in Variants, Reconcile(v) PROVE VariantInv'
    BY <2>3, ReconcileKeeps
  <2>4. ASSUME NEW n \in PRs,
               LeaveElsewhere(n) \/ LeaveOutdated(n) \/ DeleteDownstream(n)
        PROVE  VariantInv'
    BY <2>4, DeleteOrOrphanKeeps DEF LeaveElsewhere, LeaveOutdated, DeleteDownstream
  <2>5. CASE Validate
    <3>1. \A s \in {"upstream", "repository"} : s \in Statuses
      BY DEF Statuses
    <3>2. CASE End("upstream", TRUE) \/ End("repository", FALSE)
      BY <2>5, <3>1, <3>2, EndKeeps DEF Validate
    <3>3. CASE work' = Listed(work, work.cr)
               /\ UNCHANGED <<variantVars, prVars, upstream, repository, queue, uids, events>>
      <4>1. work' \in Work
        BY <3>3, ListedTyped DEF VariantInv, TypeOK, Work
      <4>2. /\ work'.step = "listed" /\ work'.v = work.v /\ work'.cr = work.cr
            /\ work'.fresh = work.fresh /\ work.step # "idle"
        BY <2>5, <3>3 DEF Listed, VariantInv, TypeOK, Work, Validate
      <4>3. TypeOK'
        BY <3>3, <4>1 DEF VariantInv, TypeOK, variantVars
      <4>4. CopiesAreStored'
        BY <3>3, ListedCopies DEF VariantInv, TypeOK, Work
      <4> QED BY <3>3, <4>2, <4>3, <4>4, SameVariants
    <3> QED BY <2>5, <3>2, <3>3 DEF Validate
  <2>6. CASE Ensure
    <3> DEFINE wanted == work.cr.spec
    <3>1. work.step = "listed" /\ work.step # "idle" /\ ~ work.cr.deleting
      BY <2>6 DEF Ensure
    <3>2. wanted \in PRs /\ work.cr.uid \in 0 .. MaxUid
      BY <3>1, VariantFields DEF VariantInv, WorkKept, TypeOK, Work, PRs
    <3>3. CASE End("exists", TRUE)
      BY <3>1, <3>3, EndKeeps DEF Statuses
    <3>4. CASE /\ work' = [work EXCEPT !.step = "outdated", !.copies[wanted] = NoPR,
                                       !.stale = @ \ {wanted}]
               /\ UNCHANGED <<variantVars, prVars, upstream, repository, queue, uids, events>>
      <4>1. work' \in Work /\ work'.v = work.v /\ work'.cr = work.cr /\ work'.fresh = work.fresh
        BY <3>2, <3>4, NoWorkTyped DEF VariantInv, TypeOK, Work, PRObjects
      <4>2. TypeOK'
        BY <3>4, <4>1 DEF VariantInv, TypeOK, variantVars
      <4>3. /\ work'.copies = [work.copies EXCEPT ![wanted] = NoPR]
            /\ work'.stale = work.stale \ {wanted}
        BY <3>4 DEF VariantInv, TypeOK, Work
      <4>4. CopiesAreStored'
        BY <3>2, <3>4, <4>3 DEF VariantInv, TypeOK, Work, CopiesAreStored, NoPR, Exists
      <4> QED BY <3>1, <3>4, <4>1, <4>2, <4>4, SameVariants
    <3>5. CASE /\ ~ Exists(work.copies[wanted])
               /\ PRChanged(wanted, [NoPR EXCEPT !.lifecycle = "draft", !.owner = work.cr.uid])
               /\ work' = [work EXCEPT !.step = "outdated", !.stale = @ \ {wanted}]
               /\ UNCHANGED <<variantVars, cache, upstream, repository, queue, uids, events>>
      <4>1. [NoPR EXCEPT !.lifecycle = "draft", !.owner = work.cr.uid] \in PRObjects
        BY <3>2 DEF NoPR, PRObjects, Lifecycles
      <4>2. work' \in Work /\ work'.v = work.v /\ work'.cr = work.cr /\ work'.fresh = work.fresh
        BY <3>5 DEF VariantInv, TypeOK, Work
      <4>3. TypeOK'
        BY <3>2, <3>5, <4>1, <4>2, PRChangedTyped DEF VariantInv, TypeOK, variantVars
      <4>4. work'.copies = work.copies /\ work'.stale = work.stale \ {wanted}
        BY <3>5 DEF VariantInv, TypeOK, Work
      <4>5. CopiesAreStored'
        BY <3>2, <3>5, <4>4 DEF VariantInv, TypeOK, CopiesAreStored, PRChanged
      <4> QED BY <3>1, <3>5, <4>2, <4>3, <4>5, SameVariants
    <3> QED BY <2>6, <3>3, <3>4, <3>5 DEF Ensure
  <2>7. CASE EnsureDone
    <3>1. "ready" \in Statuses /\ work.step # "idle"
      BY <2>7 DEF Statuses, EnsureDone
    <3> QED BY <2>7, <3>1, EndKeeps DEF EnsureDone
  <2>8. CASE DeletionDone
    <3>1. "deleting" \in Statuses /\ work.step # "idle" /\ work.cr.deleting
      BY <2>8 DEF Statuses, DeletionDone
    <3>2. CASE End("deleting", TRUE)
      BY <3>1, <3>2, EndKeeps
    <3>3. CASE /\ work.fresh
               /\ VariantChanged(work.v, NoObject)
               /\ work' = NoWork
               /\ UNCHANGED <<vcache, prVars, upstream, repository, queue, uids, events>>
      <4>1. /\ work.v \in Variants /\ There(work.cr)
            /\ vstore[work.v] = work.cr /\ vcache[work.v].deleting
        BY <3>1, <3>3 DEF VariantInv, WorkKept, FreshIsStored
      <4>2. /\ vstore' = [vstore EXCEPT ![work.v] = NoObject]
            /\ vsynced' = [vsynced EXCEPT ![work.v] = @ /\ NoObject = vstore[work.v]]
            /\ NoObject \in VariantObjects /\ ~ There(NoObject)
        BY <3>3 DEF VariantChanged, VariantObjects, There, NoObject
      <4>3. TypeOK'
        BY <3>3, <4>1, <4>2, VariantChangedTyped, NoWorkTyped DEF VariantInv, TypeOK
      <4>4. WorkKept' /\ FreshIsStored'
        BY <3>3 DEF WorkKept, FreshIsStored, NoWork
      <4>5. CachedIsKept'
        BY <3>3, <4>1, <4>2 DEF VariantInv, TypeOK, CachedIsKept, Kept
      <4>6. CopiesAreStored'
        BY <3>3, NoWorkCopies DEF VariantInv, CopiesAreStored, NoWork, NoCopies, NoPR, Exists
      <4> QED BY <4>3, <4>4, <4>5, <4>6 DEF VariantInv
    <3> QED BY <2>8, <3>2, <3>3 DEF DeletionDone
  <2>9. ASSUME NEW v \in Variants, VariantSync(v) PROVE VariantInv'
    <3>1. /\ vcache' = [vcache EXCEPT ![v] = vstore[v]]
          /\ vsynced' = [vsynced EXCEPT ![v] = TRUE]
          /\ vstore' = vstore /\ work' = work
      BY <2>9 DEF VariantSync
    <3>2. TypeOK'
      BY <2>9, <3>1 DEF VariantSync, VariantInv, TypeOK
    <3>3. WorkKept'
      BY <3>1 DEF VariantInv, WorkKept, Kept
    <3>4. FreshIsStored'
      BY <3>1 DEF VariantInv, TypeOK, FreshIsStored
    <3>5. CachedIsKept'
      BY <3>1 DEF VariantInv, TypeOK, CachedIsKept, Kept
    <3>6. CopiesAreStored'
      BY <2>9 DEF VariantSync, VariantInv, CopiesAreStored
    <3> QED BY <3>2, <3>3, <3>4, <3>5, <3>6 DEF VariantInv
  <2>10. ASSUME NEW v \in Variants, CreateVariant(v) \/ ChangeSpec(v) \/ DeleteVariant(v)
         PROVE  VariantInv'
    <3>1. vstore[v] \in VariantObjects
      BY DEF VariantInv, TypeOK
    <3>2. CASE CreateVariant(v)
      <4>1. PICK spec \in Specs :
              VariantWrite(v, [NoObject EXCEPT !.uid = uids + 1, !.spec = spec])
        BY <3>2 DEF CreateVariant
      <4>2. uids + 1 \in 1 .. MaxUid /\ uids' = uids + 1 /\ uids' \in 0 .. MaxUid
        BY <3>2, BoundsAssumption DEF CreateVariant, VariantInv, TypeOK
      <4>3. [NoObject EXCEPT !.uid = uids + 1, !.spec = spec] \in VariantObjects
        BY <4>2 DEF NoObject, VariantObjects, Statuses
      <4>4. ~ vstore[v].fin
        BY <3>1, <3>2, VariantFields DEF CreateVariant
      <4> QED BY <4>1, <4>2, <4>3, <4>4, VariantWriteKeeps
    <3>3. CASE ChangeSpec(v)
      <4>1. PICK move \in SpecMoves :
              /\ vstore[v].spec = move[1]
              /\ VariantWrite(v, [vstore[v] EXCEPT !.spec = move[2]])
        BY <3>3 DEF ChangeSpec
      <4>2. move[1] \in Specs /\ move[2] \in Specs /\ uids' = uids
        BY <3>3, <4>1, SpecsAssumption DEF ChangeSpec
      <4>3. There(vstore[v]) /\ [vstore[v] EXCEPT !.spec = move[2]] \in VariantObjects
        BY <3>1, <4>1, <4>2, VariantFields
      <4>4. /\ [vstore[v] EXCEPT !.spec = move[2]].fin = vstore[v].fin
            /\ [vstore[v] EXCEPT !.spec = move[2]].uid = vstore[v].uid
        BY <3>1 DEF VariantObjects, NoObject
      <4>5. uids' \in 0 .. MaxUid
        BY <4>2 DEF VariantInv, TypeOK
      <4> QED BY <4>1, <4>3, <4>4, <4>5, VariantWriteKeeps
    <3>4. CASE DeleteVariant(v)
      <4> DEFINE o == IF vstore[v].fin THEN [vstore[v] EXCEPT !.deleting = TRUE] ELSE NoObject
      <4>1. There(vstore[v]) /\ VariantWrite(v, o) /\ uids' \in 0 .. MaxUid
        BY <3>4 DEF DeleteVariant, VariantInv, TypeOK
      <4>2. NoObject \in VariantObjects
        BY DEF VariantObjects
      <4>3. [vstore[v] EXCEPT !.deleting = TRUE] \in VariantObjects
        BY <3>1, <4>1, VariantFields
      <4>4. vstore[v].fin => o.fin /\ o.uid = vstore[v].uid
        BY <3>1 DEF VariantObjects, NoObject
      <4> HIDE DEF o
      <4>5. o \in VariantObjects
        BY <4>2, <4>3 DEF o
      <4> QED BY <4>1, <4>4, <4>5, VariantWriteKeeps
    <3> QED BY <2>10, <3>2, <3>3, <3>4
  <2>11. ASSUME NEW n \in PRs, PRSync(n) PROVE VariantInv'
    <3>1. TypeOK'
      BY <2>11 DEF PRSync, VariantInv, TypeOK, variantVars
    <3>2. work' = work /\ UNCHANGED variantVars
      BY <2>11 DEF PRSync
    <3>3. work.step # "idle" => work.step = "listed" \/ ~ work.cr.deleting
      BY DEF VariantInv, WorkKept
    <3>4. CopiesAreStored'
      BY <2>11 DEF PRSync, VariantInv, TypeOK, CopiesAreStored
    <3> QED BY <3>1, <3>2, <3>3, <3>4, SameVariants
  <2>12. ASSUME NEW n \in PRs, Advance(n) \/ Vanish(n) \/ Collect(n) PROVE VariantInv'
    <3>1. store[n] \in PRObjects /\ events \in 0 .. MaxEvents
      BY DEF VariantInv, TypeOK
    <3>2. CASE Advance(n)
      <4>1. PICK move \in {<<"draft", "proposed">>, <<"proposed", "published">>} :
              /\ store[n].lifecycle = move[1]
              /\ PRWrite(n, [store[n] EXCEPT !.held = TRUE, !.lifecycle = move[2]])
        BY <3>2 DEF Advance
      <4>2. Exists(store[n]) /\ move[2] \in Lifecycles
        BY <4>1 DEF Exists, Lifecycles
      <4>3. [store[n] EXCEPT !.held = TRUE, !.lifecycle = move[2]] \in PRObjects
        BY <3>1, <4>2, PRFields
      <4>4. events' \in 0 .. MaxEvents
        BY <3>2, EventTyped DEF Advance, VariantInv
      <4> QED BY <4>1, <4>3, <4>4, PRWriteKeeps
    <3>3. CASE Vanish(n)
      BY <3>1, <3>3, PRFields, PRWriteKeeps DEF Vanish
    <3>4. CASE Collect(n)
      <4>1. Exists(store[n])
        BY <3>1, <3>4 DEF Collect, PRObjects, NoPR, Exists, Lifecycles
      <4> QED BY <3>1, <3>4, <4>1, PRFields, PRWriteKeeps DEF Collect
    <3> QED BY <2>12, <3>2, <3>3, <3>4
  <2>13. CASE Surroundings
    <3>1. events' \in 0 .. MaxEvents
      BY <2>13, EventTyped DEF Surroundings, VariantInv
    <3>2. TypeOK'
      BY <2>13, <3>1 DEF Surroundings, VariantInv, TypeOK, variantVars
    <3>3. work' = work /\ UNCHANGED variantVars
      BY <2>13 DEF Surroundings
    <3>4. work.step # "idle" => work.step = "listed" \/ ~ work.cr.deleting
      BY DEF VariantInv, WorkKept
    <3>5. CopiesAreStored'
      BY <2>13 DEF Surroundings, VariantInv, CopiesAreStored
    <3> QED BY <3>2, <3>3, <3>4, <3>5, SameVariants
  <2>14. CASE Restart
    <3>1. events' \in 0 .. MaxEvents
      BY <2>14, EventTyped DEF Restart, VariantInv
    <3>2. TypeOK'
      BY <2>14, <3>1, NoWorkTyped DEF Restart, VariantInv, TypeOK
    <3>3. WorkKept' /\ FreshIsStored'
      BY <2>14 DEF Restart, WorkKept, FreshIsStored, NoWork
    <3>4. CachedIsKept'
      BY <2>14, VariantFields DEF Restart, VariantInv, TypeOK, CachedIsKept, Kept
    <3>5. CopiesAreStored'
      BY <2>14 DEF Restart, CopiesAreStored, NoWork, NoCopies, NoPR, Exists
    <3> QED BY <3>2, <3>3, <3>4, <3>5 DEF VariantInv
  <2> QED BY <2>1, <2>2, <2>3, <2>4, <2>5, <2>6, <2>7, <2>8, <2>9, <2>10, <2>11, <2>12,
             <2>13, <2>14 DEF Next, Controller
<1> QED BY <1>1, <1>2, PTL DEF Spec

(* A package revision is made only for a variant that is stored and holds    *)
(* its finalizer: Ensure is the only step that makes one, for the variant of *)
(* the reconcile.                                                            *)
THEOREM VariantCreatesForLiving == Spec => CreatedForLiving
<1> DEFINE For(n) == \E v \in Variants : /\ There(vstore[v]) /\ vstore[v].fin
                                         /\ vstore[v].uid = store'[n].owner
           Made == \A n \in Specs : ~ Exists(store[n]) /\ Exists(store'[n]) => For(n)
<1>1. VariantInv /\ [Next]_vars => [Made]_vars
  <2> SUFFICES ASSUME VariantInv, Next PROVE Made
    OBVIOUS
  <2>1. CASE store' = store
    BY <2>1
  <2>2. ASSUME NEW n \in PRs, DeleteOrOrphan(n) PROVE Made
    <3>1. Exists(store[n]) \/ ~ Exists(Outcome(n).o)
      <4>1. Exists(work.copies[n]) /\ (n \notin work.stale => store[n] = work.copies[n])
        BY <2>2 DEF DeleteOrOrphan, VariantInv, CopiesAreStored
      <4>2. CASE n \notin work.stale
        BY <4>1, <4>2
      <4>3. CASE n \in work.stale /\ ~ Exists(store[n])
        <5>1. Outcome(n).o = store[n] \/ Outcome(n).o = NoPR
          BY <4>3 DEF Outcome
        <5> QED BY <4>3, <5>1 DEF NoPR, Exists
      <4> QED BY <4>2, <4>3
    <3>2. store' = [store EXCEPT ![n] = Outcome(n).o]
      BY <2>2 DEF DeleteOrOrphan, PRChanged
    <3> QED BY <3>1, <3>2 DEF VariantInv, TypeOK
  <2>3. ASSUME NEW n \in PRs, Advance(n) \/ Vanish(n) \/ Collect(n) PROVE Made
    <3>1. store[n] \in PRObjects /\ ~ Exists(NoPR)
      BY DEF VariantInv, TypeOK, NoPR, Exists
    <3>2. PICK o : store' = [store EXCEPT ![n] = o] /\ (Exists(o) => Exists(store[n]))
      <4>1. CASE Advance(n)
        <5>1. PICK move \in {<<"draft", "proposed">>, <<"proposed", "published">>} :
                /\ store[n].lifecycle = move[1]
                /\ PRWrite(n, [store[n] EXCEPT !.held = TRUE, !.lifecycle = move[2]])
          BY <4>1 DEF Advance
        <5>2. Exists(store[n])
          BY <5>1 DEF Exists
        <5> QED BY <5>1, <5>2 DEF PRWrite, PRChanged
      <4>2. CASE Vanish(n)
        BY <3>1, <4>2 DEF Vanish, PRWrite, PRChanged
      <4>3. CASE Collect(n)
        <5>1. Exists(store[n])
          BY <3>1, <4>3 DEF Collect, PRObjects, NoPR, Exists, Lifecycles
        <5> QED BY <4>3, <5>1 DEF Collect, PRWrite, PRChanged
      <4> QED BY <2>3, <4>1, <4>2, <4>3
    <3> QED BY <3>1, <3>2 DEF VariantInv, TypeOK
  <2>4. CASE Ensure
    <3> DEFINE wanted == work.cr.spec
    <3>1. work.step # "idle" /\ ~ work.cr.deleting
      BY <2>4 DEF Ensure
    <3>2. work.v \in Variants /\ Kept(work.v, work.cr.uid)
      BY <3>1 DEF VariantInv, WorkKept
    <3>3. CASE PRChanged(wanted, [NoPR EXCEPT !.lifecycle = "draft", !.owner = work.cr.uid])
      <4>1. [NoPR EXCEPT !.lifecycle = "draft", !.owner = work.cr.uid].owner = work.cr.uid
        BY DEF NoPR
      <4> QED BY <3>2, <3>3, <4>1 DEF PRChanged, Kept, VariantInv, TypeOK
    <3>4. CASE UNCHANGED store
      BY <3>4
    <3> QED BY <2>4, <3>3, <3>4 DEF Ensure, End, prVars
  <2> QED BY <2>1, <2>2, <2>3, <2>4
          DEF Next, Controller, Skip, Reconcile, LeaveElsewhere, LeaveOutdated, DeleteDownstream,
              Validate, EnsureDone, DeletionDone, End, VariantSync, CreateVariant, ChangeSpec,
              DeleteVariant, VariantWrite, PRSync, Surroundings, Restart, prVars
<1>2. VariantInv /\ [Next]_vars => [\A n \in Specs : ~ Exists(store[n]) /\ Exists(store'[n]) =>
                                      \E v \in Variants :
                                        /\ There(vstore[v]) /\ vstore[v].fin
                                        /\ vstore[v].uid = store'[n].owner]_vars
  BY <1>1
<1> QED BY <1>2, VariantInvariant, PTL DEF Spec, CreatedForLiving
=============================================================================
