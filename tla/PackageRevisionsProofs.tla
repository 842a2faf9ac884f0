----------------------- MODULE PackageRevisionsProofs -----------------------
(* Proofs about PackageRevisions, for every set of package revisions, every  *)
(* order of readiness gates, every behaviour of users and every bound.       *)
EXTENDS PackageRevisions, GitRepositoryProofs, FiniteSetTheorems, WellFoundedInduction

USE PRsAssumption, PackagesAssumption, DirectoryAssumption, BoundsAssumption

----------------------------------------------------------------------------
(* Objects. *)

LEMMA StoredParts ==
  ASSUME NEW o \in Stored
  PROVE  /\ o.rev \in 0 .. MaxRev /\ o.fins \in SUBSET Controllers
         /\ o.conds \in SUBSET (Gates \cup {Ready})
         /\ o.tasks \in BOOLEAN /\ o.deleting \in BOOLEAN
         /\ Exists(o) => o \in Objects(MaxRev) /\ o.lifecycle \in Lifecycles
         /\ ~ Exists(o) => o = Absent
<1>1. CASE o = Absent
  BY <1>1 DEF Absent, Exists
<1>2. CASE o \in Objects(MaxRev)
  BY <1>2 DEF Objects, Exists, Lifecycles
<1> QED BY <1>1, <1>2 DEF Stored

(* What the controllers do to an object.                                     *)
LEMMA ObjectWrites ==
  ASSUME NEW o \in Objects(MaxRev)
  PROVE  /\ \A c \in Gates \cup {Ready} :
              /\ SetTrue(o, c) \in Objects(MaxRev) /\ SetFalse(o, c) \in Objects(MaxRev)
              /\ SetTrue(o, c) = [o EXCEPT !.conds = o.conds \cup {c}]
              /\ SetFalse(o, c) = [o EXCEPT !.conds = o.conds \ {c}]
         /\ \A c \in Controllers :
              /\ AddFinalizer(o, c) \in Objects(MaxRev)
              /\ AddFinalizer(o, c) = [o EXCEPT !.fins = o.fins \cup {c}]
              /\ RemoveFinalizer(o, c) \in Objects(MaxRev) \cup {Absent}
              /\ \/ RemoveFinalizer(o, c) = Absent
                 \/ RemoveFinalizer(o, c) = [o EXCEPT !.fins = o.fins \ {c}]
  BY DEF Objects, SetTrue, SetFalse, AddFinalizer, RemoveFinalizer

(* The revision that is allocated is one higher than those in use.           *)
LEMMA NextRevisionBound ==
  ASSUME NEW n \in Nat, NEW revs \in SUBSET (0 .. n)
  PROVE  NextRevision(revs) \in 1 .. n + 1 /\ \A r \in revs : r < NextRevision(revs)
<1> DEFINE Above == {b \in Nat : \A r \in revs : r <= b}
<1>0. n \in Above
  OBVIOUS
<1>1. PICK b \in Above : \A a \in Above : ~ (<<a, b>> \in OpToRel(<, Nat))
  <2> QED BY <1>0, WFMin, NatLessThanWellFounded
<1>2. \A a \in Above : ~ (a < b)
  BY <1>1 DEF OpToRel
<1>3. b \in revs \cup {0}
  <2> SUFFICES ASSUME b # 0, b \notin revs PROVE FALSE
    OBVIOUS
  <2>1. b - 1 \in Above
    OBVIOUS
  <2> QED BY <1>2, <2>1
<1>4. b <= n
  BY <1>0, <1>2
<1> DEFINE P(m) == m \in {r + 1 : r \in revs \cup {0}} /\ \A r \in revs : r < m
<1>5. P(b + 1)
  BY <1>3
<1>6. P(NextRevision(revs))
  BY <1>5 DEF NextRevision
<1> QED BY <1>6

(* A copy that is in step is what is stored.                                 *)
LEMMA CurrentParts ==
  ASSUME TypeOK, CopiesKept, NEW pr \in PRs
  PROVE  /\ Current(pr) \in Stored /\ IsSynced(pr) \in BOOLEAN
         /\ IsSynced(pr) => Current(pr) = store[pr]
         /\ RevisionsCounted => Current(pr).rev <= Numbered
  BY ServerAssumption DEF TypeOK, CopiesKept, Current, IsSynced, RevisionsCounted

----------------------------------------------------------------------------
(* Writes.  A step that writes no object counts as writing what is stored.   *)

GatesDistinct ==
  \A pr \in PRs : \A i, j \in DOMAIN GatesOf[pr] : GatesOf[pr][i] = GatesOf[pr][j] => i = j

Kind(old, new) ==
  /\ Exists(old) /\ Exists(new) =>
       /\ old.rev # 0 => new.rev = old.rev
       /\ old.lifecycle = "published" => Released(new)
  /\ ~ Exists(old) => new.rev = 0

(* What an update may do to the object of pr.                                *)
Legal(pr, o) ==
  /\ o \in Stored /\ ReleasedFirst(o) /\ Kind(store[pr], o)
  /\ Exists(store[pr]) /\ store[pr].rev = 0 => o.rev <= Numbered + 1
  /\ creates' \in 0 .. MaxCreates
  /\ creates' = IF ~ Exists(store[pr]) /\ Exists(o) THEN creates + 1 ELSE creates
  /\ GatesDistinct /\ InOrder(GatesOf[pr], store[pr]) => InOrder(GatesOf[pr], o)

(* Removing an object frees no number, giving one takes one, creating none.  *)
LEMMA WriteCounts ==
  ASSUME TypeOK, RevisionsCounted, NEW pr \in PRs, NEW o, Legal(pr, o),
         store' = [store EXCEPT ![pr] = o]
  PROVE  Numbered' \in Nat /\ Numbered <= Numbered' /\ o.rev <= Numbered'
<1> DEFINE s == store[pr]
<1>0. /\ s \in Stored /\ o \in Stored /\ s.rev \in Nat /\ o.rev \in Nat
      /\ creates \in Nat /\ Numbered \in Nat /\ s.rev <= Numbered
  <2>1. s \in Stored /\ o \in Stored /\ creates \in 0 .. MaxCreates /\ MaxCreates \in Nat
    BY ServerAssumption DEF TypeOK, Legal
  <2>2. s.rev \in 0 .. MaxRev /\ o.rev \in 0 .. MaxRev
    BY <2>1, StoredParts
  <2>3. Numbered \in Nat /\ s.rev <= Numbered
    BY DEF RevisionsCounted
  <2> QED BY <2>1, <2>2, <2>3
<1>1. IsFiniteSet(Unnumbered)
  BY FiniteAssumption, FS_Subset DEF Unnumbered
<1>2. /\ Cardinality(Unnumbered) \in Nat
      /\ Cardinality(Unnumbered \cup {pr})
           = IF pr \in Unnumbered THEN Cardinality(Unnumbered) ELSE Cardinality(Unnumbered) + 1
      /\ Cardinality(Unnumbered \ {pr})
           = IF pr \in Unnumbered THEN Cardinality(Unnumbered) - 1 ELSE Cardinality(Unnumbered)
  BY <1>1, FS_CardinalityType, FS_AddElement, FS_RemoveElement
<1>3. Unnumbered' = IF Exists(o) /\ o.rev = 0 THEN Unnumbered \cup {pr} ELSE Unnumbered \ {pr}
  BY DEF TypeOK, Unnumbered
<1>4. pr \in Unnumbered <=> Exists(s) /\ s.rev = 0
  BY DEF Unnumbered
<1>5. /\ Numbered = creates - Cardinality(Unnumbered)
      /\ Numbered' = creates' - Cardinality(Unnumbered')
  BY DEF Numbered
<1>6. ~ Exists(o) => o.rev = 0
  BY <1>0, StoredParts DEF Absent
<1>7. CASE Exists(o) /\ o.rev = 0
  <2>1. Exists(s) => s.rev = 0
    BY <1>0, <1>7 DEF Legal, Kind
  <2>2. creates' = IF pr \in Unnumbered THEN creates ELSE creates + 1
    BY <1>4, <1>7, <2>1 DEF Legal
  <2>3. Cardinality(Unnumbered') = Cardinality(Unnumbered \cup {pr})
    BY <1>3, <1>7
  <2> QED BY <1>0, <1>2, <1>5, <1>7, <2>2, <2>3
<1>8. CASE ~ Exists(o)
  BY <1>0, <1>2, <1>3, <1>4, <1>5, <1>6, <1>8 DEF Legal, Kind
<1>9. CASE Exists(o) /\ o.rev # 0
  BY <1>0, <1>2, <1>3, <1>4, <1>5, <1>9 DEF Legal, Kind
<1> QED BY <1>7, <1>8, <1>9

(* What is written and what the writer goes on with.                         *)
Written(pr, o, w, next) == Changed(pr, o) /\ work' = WorkAfter(pr, o, w, next)
GoesOn(pr, o, w, next) ==
  w \in Workers =>
    /\ next \in Work /\ RequestMade(w, next)
    /\ next = NoWork \/ next.pr = pr
    /\ next.fresh => next.cr = o
    /\ next.cr = o \/ next.cr.rev <= Numbered
    /\ next.request.rev \in {0, next.cr.rev} \/ next.request.rev <= Numbered

(* The invariant, but for git and the queues.                                *)
ObjectsInv ==
  /\ store \in [PRs -> Stored] /\ cache \in [PRs -> Stored]
  /\ synced \in [PRs -> BOOLEAN] /\ work \in [Workers -> Work]
  /\ creates \in 0 .. MaxCreates
  /\ CopiesKept /\ RequestsMade /\ AllReleasedFirst
  /\ Numbered \in Nat
  /\ \A pr \in PRs : store[pr].rev <= Numbered /\ cache[pr].rev <= Numbered
  /\ \A w \in Workers : work[w].cr.rev <= Numbered /\ work[w].request.rev <= Numbered

LEMMA NoWorkParts ==
  /\ NoWork \in Work /\ \A w \in Workers : RequestMade(w, NoWork)
  /\ NoWork.cr = Absent /\ NoWork.request = Idle /\ ~ NoWork.fresh /\ NoWork.step = "idle"
  /\ NoWork.pr = NoPR /\ NoWork.cr.rev = 0 /\ NoWork.request.rev = 0
<1>1. Absent \in Stored /\ Idle \in Calls(0)
  BY IdleType DEF Stored
<1>2. NoWork \in Work
  BY <1>1 DEF NoWork, Work
<1> QED BY <1>2 DEF NoWork, RequestMade, Absent, Idle

LEMMA WriteInv ==
  ASSUME TypeOK, RevisionsCounted, ObjectsInv, NEW pr \in PRs, NEW o, Legal(pr, o),
         NEW w, NEW next, Written(pr, o, w, next), GoesOn(pr, o, w, next),
         UNCHANGED cache
  PROVE  ObjectsInv' /\ Numbered <= Numbered'
<1>0. /\ o \in Stored /\ store' = [store EXCEPT ![pr] = o]
      /\ synced' = [synced EXCEPT ![pr] = @ /\ o = store[pr]]
      /\ work' = WorkAfter(pr, o, w, next)
  BY DEF Legal, Written, Changed
<1>1. Numbered' \in Nat /\ Numbered <= Numbered' /\ o.rev <= Numbered'
  BY <1>0, WriteCounts
<1>2. store' \in [PRs -> Stored] /\ synced' \in [PRs -> BOOLEAN]
  BY <1>0 DEF ObjectsInv
<1>3. \A v \in Workers :
        \/ v = w /\ work'[v] = next
        \/ /\ v # w /\ work'[v] \in {work[v], [work[v] EXCEPT !.fresh = FALSE]}
           /\ work'[v].fresh => work'[v] = work[v] /\ (work[v].pr = pr => o = store[pr])
  BY <1>0 DEF WorkAfter, ObjectsInv, Work
<1>4. work' \in [Workers -> Work]
  <2>1. \A k \in Work : [k EXCEPT !.fresh = FALSE] \in Work
    BY DEF Work
  <2>2. \A v \in Workers : work'[v] \in Work
    BY <1>3, <2>1 DEF ObjectsInv, GoesOn
  <2> QED BY <1>0, <2>2 DEF WorkAfter
<1>5. CopiesKept'
  <2>1. ASSUME NEW q \in PRs, synced'[q] PROVE cache'[q] = store'[q]
    BY <1>0, <2>1 DEF ObjectsInv, CopiesKept
  <2>2. ASSUME NEW v \in Workers, work'[v].fresh PROVE work'[v].cr = store'[work'[v].pr]
    <3>1. CASE v = w
      <4>1. next # NoWork
        BY <1>3, <2>2, <3>1, NoWorkParts
      <4>2. work'[v].pr = pr /\ work'[v].cr = o
        BY <1>3, <2>2, <3>1, <4>1 DEF GoesOn
      <4> QED BY <1>0, <4>2 DEF ObjectsInv
    <3>2. CASE v # w
      BY <1>0, <1>3, <2>2, <3>2 DEF ObjectsInv, CopiesKept
    <3> QED BY <3>1, <3>2
  <2> QED BY <2>1, <2>2 DEF CopiesKept
<1>6. RequestsMade'
  <2> SUFFICES ASSUME NEW v \in Workers PROVE RequestMade(v, work'[v])
    BY DEF RequestsMade
  <2>1. CASE v = w
    BY <1>3, <2>1 DEF GoesOn
  <2>2. CASE v # w /\ work'[v] = work[v]
    BY <2>2 DEF ObjectsInv, RequestsMade
  <2>3. CASE v # w /\ work'[v] # work[v]
    <3>1. work'[v] = [work[v] EXCEPT !.fresh = FALSE] /\ RequestMade(v, work[v]) /\ work[v] \in Work
      BY <1>3, <2>3 DEF ObjectsInv, RequestsMade
    <3>2. work[v].step # "idle"
      <4> SUFFICES ASSUME work[v].step = "idle" PROVE FALSE
        OBVIOUS
      <4>1. work[v] = NoWork
        BY <3>1 DEF RequestMade
      <4>2. [NoWork EXCEPT !.fresh = FALSE] = NoWork
        BY NoWorkParts DEF Work
      <4> QED BY <2>3, <3>1, <4>1, <4>2
    <3> QED BY <3>1, <3>2 DEF RequestMade, Work
  <2> QED BY <2>1, <2>2, <2>3
<1>7. AllReleasedFirst'
  <2> SUFFICES ASSUME NEW q \in PRs PROVE ReleasedFirst(store'[q])
    BY DEF AllReleasedFirst, ReleasedFirst, Released
  <2> QED BY <1>0 DEF ObjectsInv, AllReleasedFirst, Legal
<1>8. \A q \in PRs : store'[q].rev <= Numbered' /\ cache'[q].rev <= Numbered'
  BY <1>0, <1>1, StoredParts DEF ObjectsInv
<1>9. \A v \in Workers : work'[v].cr.rev <= Numbered' /\ work'[v].request.rev <= Numbered'
  <2> SUFFICES ASSUME NEW v \in Workers
               PROVE  work'[v].cr.rev <= Numbered' /\ work'[v].request.rev <= Numbered'
    OBVIOUS
  <2>1. CASE v = w
    <3>1. next \in Work /\ work'[v] = next
      BY <1>3, <2>1 DEF GoesOn
    <3>2. next.cr.rev \in Nat /\ next.request.rev \in Nat /\ Numbered \in Nat
      BY <3>1, StoredParts DEF Work, Calls, ObjectsInv
    <3> QED BY <1>1, <2>1, <3>1, <3>2 DEF GoesOn
  <2>2. CASE v # w
    <3>1. work[v] \in Work /\ work'[v].cr = work[v].cr /\ work'[v].request = work[v].request
      BY <1>3, <2>2 DEF ObjectsInv, Work
    <3>2. work[v].cr.rev \in Nat /\ work[v].request.rev \in Nat
      BY <3>1, StoredParts DEF Work, Calls
    <3> QED BY <1>1, <3>1, <3>2 DEF ObjectsInv
  <2> QED BY <2>1, <2>2
<1> QED BY <1>1, <1>2, <1>4, <1>5, <1>6, <1>7, <1>8, <1>9 DEF Legal, ObjectsInv

----------------------------------------------------------------------------
(* The running call. *)

(* No step of a call changes what it was asked, nor makes it idle.           *)
SameCall(c) ==
  /\ c.step # "idle" /\ c.op = call.op /\ c.pr = call.pr /\ c.rev = call.rev
  /\ c.found \in {{}, call.found, ListedRevs(Fetched, PkgOf[call.pr])}

LEMMA SameCalls ==
  ASSUME GitTypeOK
  PROVE  /\ \A r : SameCall(Done(r))
         /\ \A r, f : SameCall([Done(r) EXCEPT !.files = f])
         /\ \A r : SameCall([Done(r) EXCEPT !.found = ListedRevs(Fetched, PkgOf[call.pr])])
         /\ \A s : s # "idle" => /\ SameCall(Goto(s))
                                 /\ \A h : SameCall([Goto(s) EXCEPT !.head = h])
                                 /\ \A c : SameCall([Goto(s) EXCEPT !.commit = c])
                                 /\ \A f : SameCall([Goto(s) EXCEPT !.files = f])
<1>1. call \in Calls(Len(commits))
  BY DEF GitTypeOK
<1>2. \A c \in Calls(Len(commits)) : \A s :
        /\ [c EXCEPT !.step = s].step = s /\ [c EXCEPT !.step = s].op = c.op
        /\ [c EXCEPT !.step = s].pr = c.pr /\ [c EXCEPT !.step = s].rev = c.rev
        /\ [c EXCEPT !.step = s].found = c.found
        /\ [c EXCEPT !.step = s]
             = [op |-> c.op, pr |-> c.pr, rev |-> c.rev, published |-> c.published,
                strict |-> c.strict, files |-> c.files, step |-> s, head |-> c.head,
                commit |-> c.commit, found |-> c.found, result |-> c.result]
  BY DEF Calls
<1>3. \A s : Goto(s) = [op |-> call.op, pr |-> call.pr, rev |-> call.rev,
                        published |-> call.published, strict |-> call.strict,
                        files |-> call.files, step |-> s, head |-> call.head,
                        commit |-> call.commit, found |-> call.found, result |-> call.result]
  BY <1>1, <1>2 DEF Goto
<1>4. \A s : s # "idle" => /\ SameCall(Goto(s))
                           /\ \A h : SameCall([Goto(s) EXCEPT !.head = h])
                           /\ \A c : SameCall([Goto(s) EXCEPT !.commit = c])
                           /\ \A f : SameCall([Goto(s) EXCEPT !.files = f])
  BY <1>3 DEF SameCall
<1>5. /\ \A r : SameCall(Done(r))
      /\ \A r, f : SameCall([Done(r) EXCEPT !.files = f])
      /\ \A r : SameCall([Done(r) EXCEPT !.found = ListedRevs(Fetched, PkgOf[call.pr])])
  BY DEF Done, SameCall
<1> QED BY <1>4, <1>5

LEMMA CallStepSame == ASSUME GitTypeOK, CallStep PROVE call.step # "idle" /\ SameCall(call')
<1>0. /\ \A r : SameCall(Done(r))
      /\ \A r, f : SameCall([Done(r) EXCEPT !.files = f])
      /\ SameCall([Done("ok") EXCEPT !.found = ListedRevs(Fetched, PkgOf[call.pr])])
      /\ \A h : SameCall([Goto("refetch") EXCEPT !.head = h])
      /\ \A c : SameCall([Goto("createTag") EXCEPT !.commit = c])
      /\ \A f : SameCall([Goto("publish") EXCEPT !.files = f])
      /\ \A s \in Steps \ {"idle"} : SameCall(Goto(s))
  BY SameCalls
<1>1. CASE Fetch
  BY <1>0, <1>1 DEF Steps, Fetch, AfterFetch, FetchFails, Fault
<1>2. CASE List \/ Read
  <2>1. \/ call' = Done("fault") \/ call' = Done("not found")
        \/ call' = [Done("ok") EXCEPT !.found = ListedRevs(Fetched, PkgOf[call.pr])]
        \/ \E r, f : call' = [Done(r) EXCEPT !.files = f]
    BY <1>2 DEF List, Read, FetchFails, Fault
  <2>2. call.step # "idle"
    BY <1>2 DEF List, Read
  <2>3. CASE \E r, f : call' = [Done(r) EXCEPT !.files = f]
    <3>1. PICK r, f : call' = [Done(r) EXCEPT !.files = f]
      BY <2>3
    <3>2. SameCall([Done(r) EXCEPT !.files = f])
      BY <1>0
    <3> QED BY <2>2, <3>1, <3>2
  <2> QED BY <1>0, <2>1, <2>2, <2>3
<1>3. CASE CommitWorkspace
  BY <1>0, <1>3 DEF CommitWorkspace, PushDone, PushFails, Fault
<1>4. CASE CheckBranch \/ ReadBranch
  BY <1>0, <1>4 DEF CheckBranch, ReadBranch, FetchFails, Fault
<1>5. CASE CommitToMain
  <2>1. call' \in {Done("fault"), [Goto("createTag") EXCEPT !.commit = Len(commits) + 1]}
    BY <1>5 DEF CommitToMain, PushDone, PushFails, Fault
  <2>2. call.step # "idle"
    BY <1>5 DEF CommitToMain
  <2> QED BY <1>0, <2>1, <2>2
<1>6. CASE CreateTag \/ PushTag
  BY <1>0, <1>6 DEF Steps, CreateTag, PushTag, PushDone, PushFails, Fault
<1>7. CASE DeleteBranch \/ DeleteDraft \/ DeleteTag
  BY <1>0, <1>7 DEF DeleteBranch, DeleteDraft, DeleteTag, DeleteRef, PushDone, PushFails, Fault
<1> QED BY <1>1, <1>2, <1>3, <1>4, <1>5, <1>6, <1>7 DEF CallStep

(* A call makes no tag but its own.                                          *)
LEMMA CallStepTags ==
  ASSUME GitInv, CallStep, NEW t \in TagNames,
         remote'.tag[t] # NoRef \/ local'.tag[t] # NoRef
  PROVE  \/ remote.tag[t] # NoRef \/ local.tag[t] # NoRef
         \/ t = Tag(call.pr, call.rev)
<1> DEFINE own == Tag(call.pr, call.rev)
<1>0. /\ GitTypeOK /\ call.step # "idle" /\ call.pr \in PRs
      /\ remote \in Refs(Len(commits)) /\ local \in Refs(Len(commits)) /\ Len(commits) \in Nat
  BY CallStepSame DEF GitInv, GitTypeOK, CallShape
<1>1. CASE local' = Fetched /\ remote' = remote
  BY <1>0, <1>1 DEF Fetched, Overlay
<1>2. CASE UNCHANGED <<remote.tag, local.tag>>
  BY <1>2
<1>3. \A c : /\ SetMain(remote, c).tag = remote.tag /\ SetMain(local, c).tag = local.tag
             /\ SetBranch(remote, call.pr, c).tag = remote.tag
             /\ SetBranch(local, call.pr, c).tag = local.tag
             /\ SetTag(remote, own, c).tag = [remote.tag EXCEPT ![own] = c]
             /\ SetTag(local, own, c).tag = [local.tag EXCEPT ![own] = c]
  BY <1>0 DEF SetMain, SetBranch, SetTag, Refs
<1>4. CASE Fetch \/ List \/ Read \/ CheckBranch \/ ReadBranch
  BY <1>1, <1>2, <1>4 DEF Fetch, FetchFails, List, Read, CheckBranch, ReadBranch
<1>5. CASE CommitWorkspace \/ CommitToMain
  <2> DEFINE new == Len(commits) + 1
  <2>1. /\ \/ remote' = remote \/ remote' = SetMain(remote, new)
           \/ remote' = SetBranch(remote, call.pr, new)
        /\ \/ local' = local \/ local' = SetMain(local, new)
           \/ local' = SetBranch(local, call.pr, new)
    <3>1. CASE CommitWorkspace
      BY <3>1 DEF CommitWorkspace, PushDone, PushFails
    <3>2. CASE CommitToMain
      BY <3>2 DEF CommitToMain, PushDone, PushFails
    <3> QED BY <1>5, <3>1, <3>2
  <2> QED BY <1>2, <1>3, <2>1
<1>6. CASE DeleteBranch \/ DeleteDraft
  <2>1. /\ remote' = remote \/ remote' = SetBranch(remote, call.pr, NoRef)
        /\ local' = local \/ local' = SetBranch(local, call.pr, NoRef)
    <3>1. CASE DeleteBranch
      BY <3>1 DEF DeleteBranch, DeleteRef, PushDone, PushFails
    <3>2. CASE DeleteDraft
      BY <3>2 DEF DeleteDraft, DeleteRef, PushDone, PushFails
    <3> QED BY <1>6, <3>1, <3>2
  <2> QED BY <1>2, <1>3, <2>1
<1>7. CASE CreateTag \/ PushTag \/ DeleteTag
  <2>1. /\ remote'.tag \in {remote.tag, [remote.tag EXCEPT ![own] = call.commit],
                            [remote.tag EXCEPT ![own] = NoRef]}
        /\ local'.tag \in {local.tag, [local.tag EXCEPT ![own] = call.commit],
                           [local.tag EXCEPT ![own] = NoRef]}
    <3>1. /\ \/ remote' = remote \/ remote' = SetTag(remote, own, call.commit)
             \/ remote' = SetTag(remote, own, NoRef)
          /\ \/ local' = local \/ local' = SetTag(local, own, call.commit)
             \/ local' = SetTag(local, own, NoRef)
      BY <1>7 DEF CreateTag, PushTag, DeleteTag, DeleteRef, PushDone, PushFails
    <3> HIDE DEF own
    <3> QED BY <1>3, <3>1
  <2> HIDE DEF own
  <2>2. remote.tag \in [TagNames -> 0 .. Len(commits)] /\ local.tag \in [TagNames -> 0 .. Len(commits)]
    BY <1>0 DEF Refs
  <2> QED BY <2>1, <2>2 DEF own
<1> QED BY <1>4, <1>5, <1>6, <1>7 DEF CallStep

(* Revisions in git are among those given out.                               *)
GitBelow(n) ==
  /\ call.rev <= n /\ \A r \in call.found : r <= n
  /\ \A t \in TagNames :
       remote.tag[t] # NoRef \/ local.tag[t] # NoRef => t[2] <= n

LEMMA CallStepBelow ==
  ASSUME GitInv, CallStep, NEW n \in Nat, GitBelow(n) PROVE GitBelow(n)'
<1>1. GitTypeOK /\ call.step # "idle" /\ SameCall(call') /\ call.pr \in PRs
  BY CallStepSame DEF GitInv, CallShape
<1>2. \A r \in ListedRevs(Fetched, PkgOf[call.pr]) : r <= n
  <2> SUFFICES ASSUME NEW r \in ListedRevs(Fetched, PkgOf[call.pr]) PROVE r <= n
    OBVIOUS
  <2> DEFINE t == <<PkgOf[call.pr], r>>
  <2>1. t \in TagNames /\ Fetched.tag[t] # NoRef /\ t[2] = r
    BY <1>1 DEF ListedRevs, TagNames
  <2> HIDE DEF t
  <2>2. remote.tag[t] # NoRef \/ local.tag[t] # NoRef
    BY <2>1 DEF Fetched, Overlay
  <2> QED BY <2>1, <2>2 DEF GitBelow
<1>3. call'.rev <= n /\ \A r \in call'.found : r <= n
  BY <1>1, <1>2 DEF SameCall, GitBelow
<1>4. ASSUME NEW t \in TagNames, remote'.tag[t] # NoRef \/ local'.tag[t] # NoRef
      PROVE  t[2] <= n
  BY <1>4, CallStepTags DEF GitBelow, Tag
<1> QED BY <1>3, <1>4 DEF GitBelow

----------------------------------------------------------------------------
(* What a step keeps: the invariant, what was released, the order of gates.  *)

Follows ==
  /\ PackagesInv'
  /\ \A pr \in PRs : Kind(store[pr], store'[pr])
  /\ GatesDistinct /\ GatesInOrder => GatesInOrder'

LEMMA InvParts ==
  PackagesInv <=>
    /\ GitInv /\ ObjectsInv /\ CallOfHolder /\ GitBelow(Numbered)
    /\ queue \in [Controllers -> SUBSET PRs] /\ holder \in Workers \cup {"none"}
<1>1. PackagesInv => /\ GitInv /\ ObjectsInv /\ CallOfHolder /\ GitBelow(Numbered)
                     /\ queue \in [Controllers -> SUBSET PRs]
                     /\ holder \in Workers \cup {"none"}
  BY DEF PackagesInv, TypeOK, ObjectsInv, RevisionsCounted, GitBelow
<1>2. /\ GitInv /\ ObjectsInv /\ CallOfHolder /\ GitBelow(Numbered)
      /\ queue \in [Controllers -> SUBSET PRs] /\ holder \in Workers \cup {"none"}
      => PackagesInv
  BY DEF PackagesInv, TypeOK, ObjectsInv, RevisionsCounted, GitBelow, GitInv
<1> QED BY <1>1, <1>2

LEMMA WriteFollows ==
  ASSUME PackagesInv, NEW pr \in PRs, NEW o, Legal(pr, o),
         NEW w, NEW next, Written(pr, o, w, next), GoesOn(pr, o, w, next),
         UNCHANGED cache, queue' \in [Controllers -> SUBSET PRs],
         GitInv', \A n \in Nat : n = Numbered /\ GitBelow(n) => GitBelow(n)',
         CallOfHolder', holder' \in Workers \cup {"none"}
  PROVE  Follows
<1>1. TypeOK /\ RevisionsCounted /\ ObjectsInv /\ GitBelow(Numbered)
  BY InvParts DEF PackagesInv
<1>2. ObjectsInv' /\ Numbered <= Numbered' /\ Numbered \in Nat /\ Numbered' \in Nat
  BY <1>1, WriteInv DEF ObjectsInv
<1>3. GitBelow(Numbered)'
  <2>1. PICK n \in Nat : n = Numbered
    BY <1>2
  <2>2. GitBelow(n)'
    BY <1>1, <2>1
  <2>3. /\ call'.rev \in Nat /\ \A r \in call'.found : r \in Nat
        /\ \A t \in TagNames : t[2] \in Nat
    BY DEF GitInv, GitTypeOK, Calls, Revs, TagNames
  <2> QED BY <1>2, <2>1, <2>2, <2>3 DEF GitBelow
<1>4. PackagesInv'
  BY <1>2, <1>3 DEF PackagesInv, TypeOK, ObjectsInv, RevisionsCounted, GitBelow, GitInv
<1>5. \A q \in PRs : store'[q] = IF q = pr THEN o ELSE store[q]
  BY <1>1 DEF Written, Changed, TypeOK
<1>6. \A q \in PRs : Kind(store[q], store[q])
  <2> SUFFICES ASSUME NEW q \in PRs PROVE Kind(store[q], store[q])
    OBVIOUS
  <2>1. store[q] \in Stored
    BY <1>1 DEF TypeOK
  <2> QED BY <2>1, StoredParts DEF Kind, Released, Absent
<1>7. \A q \in PRs : Kind(store[q], store'[q])
  BY <1>5, <1>6 DEF Legal
<1>8. GatesDistinct /\ GatesInOrder => GatesInOrder'
  <2> SUFFICES ASSUME GatesDistinct, GatesInOrder, NEW q \in PRs
               PROVE  InOrder(GatesOf[q], store'[q])
    BY DEF GatesInOrder
  <2> QED BY <1>5 DEF GatesInOrder, Legal
<1> QED BY <1>4, <1>7, <1>8 DEF Follows

----------------------------------------------------------------------------
(* Legal updates. *)

LEMMA StoredFacts ==
  ASSUME PackagesInv, NEW pr \in PRs
  PROVE  /\ store[pr] \in Stored /\ ReleasedFirst(store[pr]) /\ creates \in 0 .. MaxCreates
         /\ Numbered \in Nat /\ store[pr].rev \in 0 .. Numbered
         /\ Exists(store[pr]) => store[pr] \in Objects(MaxRev)
         /\ ~ Exists(store[pr]) => store[pr] = Absent
<1>1. store[pr] \in Stored /\ ReleasedFirst(store[pr]) /\ creates \in 0 .. MaxCreates
  BY DEF PackagesInv, TypeOK, AllReleasedFirst
<1>2. Numbered \in Nat /\ store[pr].rev <= Numbered
  BY DEF PackagesInv, RevisionsCounted
<1> QED BY <1>1, <1>2, StoredParts

(* Nothing is written.                                                       *)
LEMMA LegalStay ==
  ASSUME PackagesInv, NEW pr \in PRs, UNCHANGED creates PROVE Legal(pr, store[pr])
  BY StoredFacts DEF Legal, Kind, Released, Absent

(* The object goes.                                                          *)
LEMMA LegalAbsent ==
  ASSUME PackagesInv, NEW pr \in PRs, UNCHANGED creates PROVE Legal(pr, Absent)
<1>1. /\ Absent \in Stored /\ ~ Exists(Absent) /\ Absent.rev = 0
      /\ Absent.conds = {} /\ Absent.deleting = FALSE
  BY DEF Stored, Absent, Exists
<1>2. InOrder(GatesOf[pr], Absent) /\ ReleasedFirst(Absent)
  BY <1>1 DEF InOrder, ReleasedFirst
<1> QED BY <1>1, <1>2, StoredFacts DEF Legal, Kind

(* The readiness, the finalizers and the tasks matter to no gate.            *)
LEMMA LegalSame ==
  ASSUME PackagesInv, NEW pr \in PRs, UNCHANGED creates, Exists(store[pr]),
         NEW o \in Objects(MaxRev), o.rev = store[pr].rev,
         ReleasedFirst(o), Released(store[pr]) => Released(o),
         \/ o.deleting
         \/ ~ store[pr].deleting /\ o.conds \ {Ready} = store[pr].conds \ {Ready}
  PROVE  Legal(pr, o)
<1>1. o \in Stored /\ Exists(o)
  BY DEF Stored, Objects, Exists, Lifecycles
<1>2. Kind(store[pr], o)
  BY DEF Kind, Released
<1>3. InOrder(GatesOf[pr], store[pr]) => InOrder(GatesOf[pr], o)
  <2>1. \A i \in DOMAIN GatesOf[pr] : GatesOf[pr][i] # Ready
    <3>1. GatesOf[pr] \in Seq(Gates) /\ Ready \notin Gates
      BY GatesAssumption DEF Gates, Ready
    <3> QED BY <3>1, ElementOfSeq
  <2>2. ~ o.deleting => ~ store[pr].deleting /\ \A i \in DOMAIN GatesOf[pr] :
          GatesOf[pr][i] \in o.conds <=> GatesOf[pr][i] \in store[pr].conds
    BY <2>1
  <2>3. \A i \in DOMAIN GatesOf[pr] : \A j : j \in 1 .. i - 1 => j \in DOMAIN GatesOf[pr]
    BY GatesAssumption
  <2> QED BY <2>2, <2>3 DEF InOrder
<1> QED BY <1>1, <1>2, <1>3, StoredFacts DEF Legal

(* A gate is passed when the one before it is.                               *)
LEMMA LegalGate ==
  ASSUME PackagesInv, NEW pr \in PRs, UNCHANGED creates, Exists(store[pr]),
         NEW gate \in Gates, PreviousTrue(GatesOf[pr], gate, store[pr]),
         NEW o \in Objects(MaxRev), o.rev = store[pr].rev,
         o.lifecycle = store[pr].lifecycle, o.deleting = store[pr].deleting,
         o.conds = store[pr].conds \cup {gate}, gate = "approve" => Released(o)
  PROVE  Legal(pr, o)
<1>1. o \in Stored /\ Exists(o)
  BY DEF Stored, Objects, Exists, Lifecycles
<1>2. Kind(store[pr], o) /\ ReleasedFirst(o)
  BY StoredFacts DEF Kind, Released, ReleasedFirst
<1>3. ASSUME GatesDistinct, InOrder(GatesOf[pr], store[pr]) PROVE InOrder(GatesOf[pr], o)
  <2> DEFINE gates == GatesOf[pr]
  <2>0. gates \in Seq(Gates) /\ Len(gates) \in Nat /\ DOMAIN gates = 1 .. Len(gates)
    BY GatesAssumption
  <2>1. PICK k \in FirstGate(gates, gate) : k = 1 \/ gates[k - 1] \in store[pr].conds
    BY DEF PreviousTrue
  <2>2. k \in 1 .. Len(gates) /\ gates[k] = gate
    BY <2>0, <2>1 DEF FirstGate
  <2>3. \A i, j \in 1 .. Len(gates) : gates[i] = gates[j] => i = j
    BY <1>3, <2>0 DEF GatesDistinct
  <2> HIDE DEF gates
  <2>4. SUFFICES ASSUME ~ store[pr].deleting, NEW i \in 1 .. Len(gates), gates[i] \in o.conds,
                        NEW j \in 1 .. i - 1
                 PROVE  gates[j] \in o.conds
    BY <2>0 DEF InOrder, gates
  <2>5. \A m \in 1 .. Len(gates) : gates[m] \in store[pr].conds =>
          \A n \in 1 .. m - 1 : gates[n] \in store[pr].conds
    BY <1>3, <2>0, <2>4 DEF InOrder, gates
  <2>6. CASE gates[i] \in store[pr].conds
    BY <2>4, <2>5, <2>6
  <2>7. CASE gates[i] = gate
    <3>1. i = k
      BY <2>2, <2>3, <2>7
    <3>2. gates[k - 1] \in store[pr].conds /\ k - 1 \in 1 .. Len(gates)
      BY <2>0, <2>1, <2>2, <2>4, <3>1
    <3>3. j = k - 1 \/ j \in 1 .. (k - 1) - 1
      BY <2>2, <2>4, <3>1
    <3> QED BY <2>5, <3>2, <3>3
  <2> QED BY <2>4, <2>6, <2>7
<1> QED BY <1>1, <1>2, <1>3, StoredFacts DEF Legal

----------------------------------------------------------------------------
(* Requests. *)

LEMMA RequestsTyped ==
  ASSUME NEW pr \in PRs, NEW rev \in 0 .. MaxRev
  PROVE  /\ \A published \in BOOLEAN, strict \in BOOLEAN, files \in SUBSET Files :
              LET q == UpsertRequest(pr, rev, published, strict, files)
              IN  /\ q \in Calls(0) /\ Requested(q)
                  /\ q.op = "upsert" /\ q.pr = pr /\ q.rev = rev
         /\ \A strict \in BOOLEAN :
              LET q == EnsureRequest(pr, rev, strict)
              IN  /\ q \in Calls(0) /\ (rev # 0 => Requested(q))
                  /\ q.op = "ensure" /\ q.pr = pr /\ q.rev = rev
         /\ LET q == DeleteRequest(pr, rev)
            IN  q \in Calls(0) /\ Requested(q) /\ q.op = "delete" /\ q.pr = pr /\ q.rev = rev
         /\ LET q == ListRequest(pr)
            IN  q \in Calls(0) /\ Requested(q) /\ q.op = "list" /\ q.pr = pr /\ q.rev = 0
         /\ LET q == GetRequest(pr, rev)
            IN  q \in Calls(0) /\ Requested(q) /\ q.op = "get" /\ q.pr = pr /\ q.rev = rev
<1>1. 0 \in Nat /\ 0 \in 0 .. MaxRev /\ {} \in SUBSET Files /\ TRUE \in BOOLEAN /\ FALSE \in BOOLEAN
  OBVIOUS
<1>2. {"upsert", "ensure", "delete", "list", "get"} \subseteq Ops
      /\ "fetch" \in Steps /\ "" \in Results /\ NoRef \in 0 .. 0
  BY DEF Ops, Steps, Results, NoRef
<1>3. ASSUME NEW published \in BOOLEAN, NEW strict \in BOOLEAN, NEW files \in SUBSET Files
      PROVE  LET q == UpsertRequest(pr, rev, published, strict, files)
             IN  /\ q \in Calls(0) /\ Requested(q)
                 /\ q.op = "upsert" /\ q.pr = pr /\ q.rev = rev
  <2> DEFINE q == Request("upsert", pr, rev, published, strict, files)
  <2>1. /\ q \in Calls(0) /\ q.op = "upsert" /\ q.pr = pr /\ q.rev = rev
        /\ q.published = published /\ q.strict = strict /\ q.files = files
    <3>1. q.published = published /\ q.strict = strict /\ q.files = files
      BY DEF Request
    <3> QED BY <1>1, <3>1, RequestType
  <2>2. q = UpsertRequest(pr, rev, published, strict, files)
    BY DEF UpsertRequest
  <2> HIDE DEF q
  <2> QED BY <2>1, <2>2 DEF Requested
<1>4. ASSUME NEW strict \in BOOLEAN
      PROVE  LET q == EnsureRequest(pr, rev, strict)
             IN  /\ q \in Calls(0) /\ (rev # 0 => Requested(q))
                 /\ q.op = "ensure" /\ q.pr = pr /\ q.rev = rev
  <2> DEFINE q == Request("ensure", pr, rev, TRUE, strict, {})
  <2>1. q \in Calls(0) /\ q.op = "ensure" /\ q.pr = pr /\ q.rev = rev /\ q.strict = strict
    <3>1. q.strict = strict
      BY DEF Request
    <3>2. q \in Calls(0) /\ q.op = "ensure" /\ q.pr = pr /\ q.rev = rev
      BY <1>1, <1>2 DEF Request, Calls
    <3> QED BY <3>1, <3>2
  <2>2. q = EnsureRequest(pr, rev, strict)
    BY DEF EnsureRequest
  <2> HIDE DEF q
  <2> QED BY <2>1, <2>2 DEF Requested
<1>5. LET q == DeleteRequest(pr, rev)
      IN  q \in Calls(0) /\ Requested(q) /\ q.op = "delete" /\ q.pr = pr /\ q.rev = rev
  <2> DEFINE q == Request("delete", pr, rev, FALSE, FALSE, {})
  <2>1. q \in Calls(0) /\ q.op = "delete" /\ q.pr = pr /\ q.rev = rev
    BY <1>1, <1>2 DEF Request, Calls
  <2>2. q = DeleteRequest(pr, rev)
    BY DEF DeleteRequest
  <2> HIDE DEF q
  <2> QED BY <2>1, <2>2 DEF Requested
<1>6. LET q == ListRequest(pr)
      IN  q \in Calls(0) /\ Requested(q) /\ q.op = "list" /\ q.pr = pr /\ q.rev = 0
  <2> DEFINE q == Request("list", pr, 0, FALSE, FALSE, {})
  <2>1. q \in Calls(0) /\ q.op = "list" /\ q.pr = pr /\ q.rev = 0
    BY <1>1, <1>2 DEF Request, Calls
  <2>2. q = ListRequest(pr)
    BY DEF ListRequest
  <2> HIDE DEF q
  <2> QED BY <1>1, <2>1, <2>2 DEF Requested
<1>7. LET q == GetRequest(pr, rev)
      IN  q \in Calls(0) /\ Requested(q) /\ q.op = "get" /\ q.pr = pr /\ q.rev = rev
  <2> DEFINE q == Request("get", pr, rev, FALSE, FALSE, {})
  <2>1. q \in Calls(0) /\ q.op = "get" /\ q.pr = pr /\ q.rev = rev
    BY <1>1, <1>2 DEF Request, Calls
  <2>2. q = GetRequest(pr, rev)
    BY DEF GetRequest
  <2> HIDE DEF q
  <2> QED BY <2>1, <2>2 DEF Requested
<1> QED BY <1>3, <1>4, <1>5, <1>6, <1>7

LEMMA RequestedParts ==
  ASSUME NEW q \in Calls(0), Requested(q)
  PROVE  /\ q.step = "fetch" /\ q.op # "none" /\ q.pr \in PRs /\ q.found = {}
         /\ q.op = "ensure" => q.rev \in Revs
<1>1. \E op \in {"upsert", "ensure", "delete", "list", "get"} :
      \E pr, rev, published, strict, files :
        /\ q = Request(op, pr, rev, published, strict, files)
        /\ op = "ensure" => q.rev # 0
  BY DEF Requested, UpsertRequest, EnsureRequest, DeleteRequest, ListRequest, GetRequest
<1>2. PICK op \in {"upsert", "ensure", "delete", "list", "get"} :
      \E pr, rev, published, strict, files :
        /\ q = Request(op, pr, rev, published, strict, files)
        /\ op = "ensure" => q.rev # 0
  BY <1>1
<1>3. PICK pr, rev, published, strict, files :
        /\ q = Request(op, pr, rev, published, strict, files)
        /\ op = "ensure" => q.rev # 0
  BY <1>2
<1>4. q.step = "fetch" /\ q.op = op /\ q.found = {}
  BY <1>3 DEF Request
<1>5. q.pr \in PRs /\ q.rev \in 0 .. MaxRev
  BY DEF Requested
<1> QED BY <1>3, <1>4, <1>5 DEF Revs

(* A worker that is about to wait for the repository.                        *)
LEMMA WaitingType ==
  ASSUME NEW pr \in PRs, NEW cr \in Stored, NEW fresh \in BOOLEAN, NEW request \in Calls(0)
  PROVE  /\ Waiting(pr, cr, fresh, request) \in Work
         /\ Waiting(pr, cr, fresh, request).step = "waiting"
         /\ Waiting(pr, cr, fresh, request).pr = pr
         /\ Waiting(pr, cr, fresh, request).cr = cr
         /\ Waiting(pr, cr, fresh, request).fresh = fresh
         /\ Waiting(pr, cr, fresh, request).request = request
  BY DEF Waiting, Work

(* Git stays as it is, although something else may have failed.              *)
GitRests ==
  /\ UNCHANGED <<commits, remote, local, annotated, call, externals>>
  /\ faults' \in 0 .. MaxFaults

LEMMA RestsInv == ASSUME GitInv, GitRests PROVE GitInv'
  BY DEF GitRests, GitInv, GitTypeOK, Commits, InOwnHistory, SeenMainKept,
         TagsOnSeenMain, TagsKnown, CallShape, NewTagOnSeenMain, NewTagIsNew

LEMMA GitStays == ASSUME GitInv, UNCHANGED gitVars PROVE GitRests
  BY DEF gitVars, GitRests, GitInv, GitTypeOK

LEMMA UnreadRests == ASSUME GitInv, RepositoryUnread PROVE GitRests
<1>1. MaxFaults \in Nat /\ faults \in 0 .. MaxFaults
  BY BoundsAssumption DEF GitInv, GitTypeOK
<1> QED BY <1>1 DEF RepositoryUnread, GitRests

(* A step that changes objects only.                                         *)
LEMMA RestFollows ==
  ASSUME PackagesInv, NEW pr \in PRs, NEW o, Legal(pr, o),
         NEW w, NEW next, Written(pr, o, w, next), GoesOn(pr, o, w, next),
         w \in Workers => work[w].step # "calling" /\ next.step # "calling",
         GitRests, UNCHANGED <<cache, holder>>, queue' \in [Controllers -> SUBSET PRs]
  PROVE  Follows
<1>1. GitInv'
  BY RestsInv DEF PackagesInv
<1>2. \A n \in Nat : GitBelow(n) => GitBelow(n)'
  BY DEF GitRests, GitBelow
<1>3. holder' \in Workers \cup {"none"}
  BY DEF PackagesInv, TypeOK
<1>4. CallOfHolder'
  <2>1. work' = WorkAfter(pr, o, w, next) /\ work \in [Workers -> Work] /\ CallOfHolder
    BY DEF Written, PackagesInv, TypeOK
  <2>2. \A v \in Workers :
          \/ v = w /\ work'[v] = next
          \/ v # w /\ work'[v].step = work[v].step /\ work'[v].request = work[v].request
    BY <2>1 DEF WorkAfter, Work
  <2>3. call' = call /\ holder' = holder
    BY DEF GitRests
  <2> QED BY <2>1, <2>2, <2>3 DEF CallOfHolder
<1> QED BY <1>1, <1>2, <1>3, <1>4, WriteFollows

LEMMA ObjectFollows ==
  ASSUME PackagesInv, NEW pr \in PRs, NEW o, Legal(pr, o),
         NEW w, NEW next, Written(pr, o, w, next), GoesOn(pr, o, w, next),
         w \in Workers => work[w].step # "calling" /\ next.step # "calling",
         UNCHANGED <<gitVars, cache, holder>>, queue' \in [Controllers -> SUBSET PRs]
  PROVE  Follows
<1>1. GitRests
  BY GitStays DEF PackagesInv
<1> QED BY <1>1, RestFollows

----------------------------------------------------------------------------
(* The steps that change objects only. *)

(* What a controller reads, and what adding its finalizer leaves alone.      *)
LEMMA ReadObject ==
  ASSUME PackagesInv, NEW pr \in PRs, Exists(Current(pr)), NEW c \in Controllers
  PROVE  /\ Current(pr) \in Objects(MaxRev) /\ AddFinalizer(Current(pr), c) \in Objects(MaxRev)
         /\ AddFinalizer(Current(pr), c)
              = [Current(pr) EXCEPT !.fins = Current(pr).fins \cup {c}]
         /\ Exists(AddFinalizer(Current(pr), c))
         /\ Current(pr).rev \in 0 .. MaxRev /\ Current(pr).rev <= Numbered
         /\ IsSynced(pr) \in BOOLEAN /\ (IsSynced(pr) => Current(pr) = store[pr])
<1>1. /\ Current(pr) \in Stored /\ Current(pr).rev <= Numbered
      /\ IsSynced(pr) \in BOOLEAN /\ (IsSynced(pr) => Current(pr) = store[pr])
  BY CurrentParts DEF PackagesInv
<1>2. Current(pr) \in Objects(MaxRev) /\ Current(pr).rev \in 0 .. MaxRev
  BY <1>1, StoredParts
<1>3. /\ AddFinalizer(Current(pr), c) \in Objects(MaxRev)
      /\ AddFinalizer(Current(pr), c)
           = [Current(pr) EXCEPT !.fins = Current(pr).fins \cup {c}]
  BY <1>2, ObjectWrites
<1>4. Exists(AddFinalizer(Current(pr), c))
  BY <1>3 DEF Objects, Lifecycles, Exists
<1> QED BY <1>1, <1>2, <1>3, <1>4

(* What is stored, with other finalizers or another readiness.               *)
Marked(pr, o) ==
  /\ o \in Objects(MaxRev)
  /\ o.rev = store[pr].rev /\ o.lifecycle = store[pr].lifecycle
  /\ o.deleting = store[pr].deleting /\ o.conds \ {Ready} = store[pr].conds \ {Ready}

LEMMA LegalMarked ==
  ASSUME PackagesInv, NEW pr \in PRs, UNCHANGED creates, Exists(store[pr]),
         NEW o, Marked(pr, o)
  PROVE  Legal(pr, o)
<1>1. ReleasedFirst(o) /\ (Released(store[pr]) => Released(o))
  BY StoredFacts DEF Marked, ReleasedFirst, Released, Ready
<1> QED BY <1>1, LegalSame DEF Marked

LEMMA MarkedCurrent ==
  ASSUME PackagesInv, NEW pr \in PRs, Exists(Current(pr)), IsSynced(pr), NEW c \in Controllers
  PROVE  LET f == AddFinalizer(Current(pr), c)
         IN  /\ Marked(pr, f) /\ Marked(pr, SetTrue(f, Ready)) /\ Marked(pr, SetFalse(f, Ready))
             /\ Marked(pr, SetFalse(Current(pr), Ready)) /\ Exists(store[pr])
<1> DEFINE f == AddFinalizer(Current(pr), c)
<1>1. /\ f \in Objects(MaxRev) /\ Current(pr) \in Objects(MaxRev) /\ Current(pr) = store[pr]
      /\ f = [store[pr] EXCEPT !.fins = store[pr].fins \cup {c}]
  BY ReadObject
<1>2. Marked(pr, f) /\ Exists(store[pr])
  <2>1. Exists(store[pr])
    BY <1>1
  <2> HIDE DEF f
  <2> QED BY <1>1, <2>1 DEF Marked, Objects
<1> HIDE DEF f
<1>3. Marked(pr, SetTrue(f, Ready)) /\ Marked(pr, SetFalse(f, Ready))
  <2>1. /\ SetTrue(f, Ready) = [f EXCEPT !.conds = f.conds \cup {Ready}]
        /\ SetFalse(f, Ready) = [f EXCEPT !.conds = f.conds \ {Ready}]
        /\ SetTrue(f, Ready) \in Objects(MaxRev) /\ SetFalse(f, Ready) \in Objects(MaxRev)
    BY <1>1, ObjectWrites
  <2> QED BY <1>1, <1>2, <2>1 DEF Marked, Objects
<1>4. Marked(pr, SetFalse(Current(pr), Ready))
  BY <1>1, ObjectWrites DEF Marked, Objects
<1> QED BY <1>2, <1>3, <1>4 DEF f

(* Nothing is written, and the worker w goes on as next.                     *)
LEMMA StayAfter ==
  ASSUME PackagesInv, NEW pr \in PRs, NEW w, NEW next
  PROVE  /\ WorkAfter(pr, store[pr], w, next) = [work EXCEPT ![w] = next]
         /\ w \notin Workers => WorkAfter(pr, store[pr], w, next) = work
<1>1. work \in [Workers -> Work]
  BY DEF PackagesInv, TypeOK
<1> QED BY <1>1 DEF WorkAfter

LEMMA StayWritten ==
  ASSUME PackagesInv, NEW pr \in PRs, UNCHANGED <<store, synced>>, NEW w, NEW next,
         work' = WorkAfter(pr, store[pr], w, next)
  PROVE  Written(pr, store[pr], w, next)
<1>1. store \in [PRs -> Stored] /\ synced \in [PRs -> BOOLEAN]
  BY DEF PackagesInv, TypeOK
<1> QED BY <1>1 DEF Written, Changed

(* A copy that is requeued or not.                                           *)
LEMMA QueueTyped ==
  ASSUME PackagesInv, NEW pr \in PRs, NEW c \in Controllers,
         Dequeue(c, pr) \/ Requeue(c, pr) \/ queue' = queue
  PROVE  queue' \in [Controllers -> SUBSET PRs]
  BY DEF PackagesInv, TypeOK, Dequeue, Requeue

(* The packagerevision controller makes the request the object calls for.    *)
LEMMA RevisionRequested ==
  ASSUME NEW pr \in PRs, NEW cr \in Objects(MaxRev), RevisionRequest(pr, cr) # Idle
  PROVE  LET q == RevisionRequest(pr, cr)
         IN  /\ q \in Calls(0) /\ Requested(q) /\ q.pr = pr /\ q.rev \in {0, cr.rev}
             /\ q.op = "list" => cr.rev = 0 /\ cr.lifecycle = "published"
             /\ q.op # "delete"
<1>1. cr.rev \in 0 .. MaxRev /\ Strict \in BOOLEAN /\ Upstream \in SUBSET Files
  BY ServerAssumption DEF Objects
<1>2. CASE ~ cr.tasks /\ cr.lifecycle = "published" /\ cr.rev = 0
  <2>1. RevisionRequest(pr, cr) = ListRequest(pr)
    BY <1>2 DEF RevisionRequest
  <2> QED BY <1>1, <1>2, <2>1, RequestsTyped
<1>3. CASE ~ cr.tasks /\ cr.lifecycle = "published" /\ cr.rev # 0 /\ Deployment
  <2>1. RevisionRequest(pr, cr) = EnsureRequest(pr, cr.rev, Strict)
    BY <1>3 DEF RevisionRequest
  <2> QED BY <1>1, <1>3, <2>1, RequestsTyped
<1>4. CASE cr.tasks /\ Ready \notin cr.conds
  <2>1. RevisionRequest(pr, cr)
          = UpsertRequest(pr, cr.rev, cr.lifecycle = "published", Strict, Upstream)
    BY <1>4 DEF RevisionRequest
  <2>2. PICK published \in BOOLEAN : published = (cr.lifecycle = "published")
    OBVIOUS
  <2> DEFINE q == UpsertRequest(pr, cr.rev, published, Strict, Upstream)
  <2>3. q \in Calls(0) /\ Requested(q) /\ q.op = "upsert" /\ q.pr = pr /\ q.rev = cr.rev
    BY <1>1, RequestsTyped
  <2>4. RevisionRequest(pr, cr) = q
    BY <2>1, <2>2
  <2> HIDE DEF q
  <2> QED BY <2>3, <2>4
<1> QED BY <1>2, <1>3, <1>4 DEF RevisionRequest

LEMMA ReconcileFollows ==
  ASSUME PackagesInv, NEW pr \in PRs, RevisionReconcile(pr) PROVE Follows
<1> DEFINE cr == AddFinalizer(Current(pr), "revision")
           request == RevisionRequest(pr, cr)
           o == IF cr = Current(pr) THEN store[pr] ELSE cr
           next == Waiting(pr, cr, IsSynced(pr), request)
<1>0. /\ work["revision"] = NoWork /\ "revision" \in Workers /\ "revision" \in Controllers
      /\ Exists(cr) /\ ~ cr.deleting /\ (cr # Current(pr) => IsSynced(pr))
      /\ Dequeue("revision", pr)
      /\ UNCHANGED <<gitVars, cache, holder, creates>>
  BY DEF RevisionReconcile, Workers, Controllers
<1>1. Exists(Current(pr))
  BY <1>0 DEF AddFinalizer, Exists
<1>2. /\ cr \in Objects(MaxRev) /\ cr \in Stored /\ cr.rev = Current(pr).rev
      /\ cr.rev <= Numbered /\ IsSynced(pr) \in BOOLEAN
      /\ IsSynced(pr) => Current(pr) = store[pr]
  BY <1>0, <1>1, ReadObject DEF Stored, Objects
<1>3. IsSynced(pr) => /\ Legal(pr, cr) /\ Legal(pr, SetTrue(cr, Ready))
                      /\ store[pr] = Current(pr)
  BY <1>0, <1>1, <1>2, MarkedCurrent, LegalMarked
<1>4. queue' \in [Controllers -> SUBSET PRs]
  BY <1>0, QueueTyped
<1>5. work["revision"].step # "calling" /\ NoWork.step # "calling"
  BY <1>0, NoWorkParts
<1>6. GoesOn(pr, cr, "revision", NoWork) /\ GoesOn(pr, SetTrue(cr, Ready), "revision", NoWork)
  BY NoWorkParts, StoredFacts DEF GoesOn
<1>7. CASE /\ request # Idle
           /\ IF cr = Current(pr) THEN UNCHANGED <<store, synced>> ELSE Changed(pr, cr)
           /\ work' = WorkAfter(pr, o, "revision", next)
  <2>1. /\ request \in Calls(0) /\ Requested(request) /\ request.pr = pr
        /\ request.rev \in {0, cr.rev}
        /\ request.op = "list" => cr.rev = 0 /\ cr.lifecycle = "published"
    BY <1>2, <1>7, RevisionRequested
  <2> HIDE DEF request
  <2>2. /\ next \in Work /\ next.step = "waiting" /\ next.pr = pr /\ next.cr = cr
        /\ next.fresh = IsSynced(pr) /\ next.request = request
    BY <1>2, <2>1, WaitingType
  <2> HIDE DEF next
  <2>3. RequestMade("revision", next)
    BY <1>0, <2>1, <2>2 DEF RequestMade
  <2>4. Written(pr, o, "revision", next)
    BY <1>0, <1>7, StayWritten DEF Written
  <2>5. GoesOn(pr, o, "revision", next)
    BY <1>0, <1>2, <2>1, <2>2, <2>3 DEF GoesOn
  <2>6. Legal(pr, o)
    BY <1>0, <1>3, LegalStay
  <2> HIDE DEF o, cr
  <2> QED BY <1>0, <1>4, <1>5, <2>2, <2>4, <2>5, <2>6, ObjectFollows
<1>8. CASE IsSynced(pr) /\ Finish("revision", pr, SetTrue(cr, Ready))
  <2> HIDE DEF cr
  <2>1. Written(pr, SetTrue(cr, Ready), "revision", NoWork)
    BY <1>8 DEF Written, Finish
  <2> QED BY <1>0, <1>3, <1>4, <1>5, <1>6, <1>8, <2>1, ObjectFollows
<1>9. CASE cr # Current(pr) /\ Finish("revision", pr, cr)
  <2> HIDE DEF cr
  <2>1. Written(pr, cr, "revision", NoWork)
    BY <1>9 DEF Written, Finish
  <2> QED BY <1>0, <1>3, <1>4, <1>5, <1>6, <1>9, <2>1, ObjectFollows
<1> QED BY <1>7, <1>8, <1>9 DEF RevisionReconcile

LEMMA DeleteFollows ==
  ASSUME PackagesInv, NEW pr \in PRs, RevisionDelete(pr) PROVE Follows
<1> DEFINE cr == Current(pr)
           request == DeleteRequest(pr, cr.rev)
           next == Waiting(pr, cr, IsSynced(pr), request)
<1>0. /\ work["revision"] = NoWork /\ "revision" \in Workers /\ "revision" \in Controllers
      /\ Exists(cr) /\ UNCHANGED <<gitVars, cache, holder, creates>>
  BY DEF RevisionDelete, Workers, Controllers
<1>1. /\ cr \in Stored /\ cr.rev \in 0 .. MaxRev /\ cr.rev <= Numbered /\ IsSynced(pr) \in BOOLEAN
      /\ IsSynced(pr) => cr = store[pr]
  BY <1>0, ReadObject DEF Stored
<1>2. work["revision"].step # "calling" /\ NoWork.step # "calling"
  BY <1>0, NoWorkParts
<1>3. CASE /\ IsSynced(pr) /\ Finish("revision", pr, SetFalse(cr, Ready))
           /\ Dequeue("revision", pr) \/ Requeue("revision", pr)
  <2>1. Written(pr, SetFalse(cr, Ready), "revision", NoWork)
    BY <1>3 DEF Written, Finish
  <2>2. Legal(pr, SetFalse(cr, Ready))
    BY <1>0, <1>3, MarkedCurrent, LegalMarked
  <2>3. GoesOn(pr, SetFalse(cr, Ready), "revision", NoWork)
    BY NoWorkParts, StoredFacts DEF GoesOn
  <2>4. queue' \in [Controllers -> SUBSET PRs]
    BY <1>0, <1>3, QueueTyped
  <2> HIDE DEF cr
  <2> QED BY <1>0, <1>2, <2>1, <2>2, <2>3, <2>4, ObjectFollows
<1>4. CASE /\ work' = [work EXCEPT !["revision"] = next]
           /\ Dequeue("revision", pr) /\ UNCHANGED <<store, synced>>
  <2>1. /\ request \in Calls(0) /\ Requested(request) /\ request.op = "delete"
        /\ request.pr = pr /\ request.rev = cr.rev
    <3> HIDE DEF cr
    <3>1. PICK rev \in 0 .. MaxRev : rev = cr.rev
      BY <1>1
    <3> QED BY <3>1, RequestsTyped
  <2> HIDE DEF request
  <2>2. /\ next \in Work /\ next.step = "waiting" /\ next.pr = pr /\ next.cr = cr
        /\ next.fresh = IsSynced(pr) /\ next.request = request
    BY <1>1, <2>1, WaitingType
  <2> HIDE DEF next
  <2>3. RequestMade("revision", next)
    BY <1>0, <2>1, <2>2 DEF RequestMade
  <2>4. Written(pr, store[pr], "revision", next)
    BY <1>4, StayAfter, StayWritten
  <2>5. GoesOn(pr, store[pr], "revision", next)
    BY <1>1, <2>1, <2>2, <2>3 DEF GoesOn
  <2>6. Legal(pr, store[pr])
    BY <1>0, LegalStay
  <2>7. queue' \in [Controllers -> SUBSET PRs]
    BY <1>0, <1>4, QueueTyped
  <2> HIDE DEF cr
  <2> QED BY <1>0, <1>2, <2>2, <2>4, <2>5, <2>6, <2>7, ObjectFollows
<1> QED BY <1>3, <1>4 DEF RevisionDelete

(* The Repository cannot be read: the object is not ready, or goes.          *)
LEMMA RemovesFinalizer ==
  ASSUME PackagesInv, NEW pr \in PRs, Exists(store[pr])
  PROVE  LET o == RemoveFinalizer(store[pr], "revision")
         IN  o = Absent \/ (Marked(pr, o) /\ o.fins \subseteq store[pr].fins)
<1>1. PICK s \in Objects(MaxRev) : s = store[pr]
  BY StoredFacts
<1>2. /\ RemoveFinalizer(s, "revision") \in Objects(MaxRev) \cup {Absent}
      /\ \/ RemoveFinalizer(s, "revision") = Absent
         \/ RemoveFinalizer(s, "revision") = [s EXCEPT !.fins = s.fins \ {"revision"}]
  BY <1>1, ObjectWrites DEF Controllers
<1> DEFINE o == RemoveFinalizer(s, "revision")
<1> HIDE DEF o
<1>3. \/ o = Absent
      \/ o \in Objects(MaxRev) /\ o = [s EXCEPT !.fins = s.fins \ {"revision"}]
  BY <1>2 DEF o
<1>4. o = Absent \/ (Marked(pr, o) /\ o.fins \subseteq store[pr].fins)
  BY <1>1, <1>3 DEF Marked, Objects
<1> QED BY <1>1, <1>4 DEF o

LEMMA UnservedFollows ==
  ASSUME PackagesInv, NEW pr \in PRs, RevisionUnserved(pr) PROVE Follows
<1> DEFINE o == SetFalse(AddFinalizer(Current(pr), "revision"), Ready)
<1>0. /\ work["revision"] = NoWork /\ "revision" \in Workers /\ "revision" \in Controllers
      /\ Exists(AddFinalizer(Current(pr), "revision")) /\ IsSynced(pr)
      /\ Finish("revision", pr, o) /\ Dequeue("revision", pr) /\ RepositoryUnread
      /\ UNCHANGED <<cache, holder, creates>>
  BY DEF RevisionUnserved, Workers, Controllers
<1>1. Exists(Current(pr))
  BY <1>0 DEF AddFinalizer, Exists
<1>2. Legal(pr, o)
  BY <1>0, <1>1, MarkedCurrent, LegalMarked
<1> HIDE DEF o
<1>3. Written(pr, o, "revision", NoWork) /\ GoesOn(pr, o, "revision", NoWork)
  BY <1>0, NoWorkParts, StoredFacts DEF Written, Finish, GoesOn
<1>4. work["revision"].step # "calling" /\ NoWork.step # "calling"
  BY <1>0, NoWorkParts
<1>5. GitRests /\ queue' \in [Controllers -> SUBSET PRs]
  BY <1>0, UnreadRests, QueueTyped DEF PackagesInv
<1> QED BY <1>0, <1>2, <1>3, <1>4, <1>5, RestFollows

LEMMA GivesUpFollows ==
  ASSUME PackagesInv, NEW pr \in PRs, RevisionGivesUp(pr) PROVE Follows
<1> DEFINE o == RemoveFinalizer(store[pr], "revision")
<1>0. /\ work["revision"] = NoWork /\ "revision" \in Workers /\ "revision" \in Controllers
      /\ Exists(Current(pr)) /\ IsSynced(pr)
      /\ Finish("revision", pr, RemoveFinalizer(Current(pr), "revision"))
      /\ Dequeue("revision", pr) /\ RepositoryUnread
      /\ UNCHANGED <<cache, holder, creates>>
  BY DEF RevisionGivesUp, Workers, Controllers
<1>1. Current(pr) = store[pr] /\ Exists(store[pr])
  BY <1>0, ReadObject
<1>2. o = Absent \/ Marked(pr, o)
  BY <1>1, RemovesFinalizer
<1>3. Finish("revision", pr, o)
  BY <1>0, <1>1
<1> HIDE DEF o
<1>4. Legal(pr, o)
  BY <1>0, <1>1, <1>2, LegalAbsent, LegalMarked
<1>5. Written(pr, o, "revision", NoWork) /\ GoesOn(pr, o, "revision", NoWork)
  BY <1>3, NoWorkParts, StoredFacts DEF Written, Finish, GoesOn
<1>6. work["revision"].step # "calling" /\ NoWork.step # "calling"
  BY <1>0, NoWorkParts
<1>7. GitRests /\ queue' \in [Controllers -> SUBSET PRs]
  BY <1>0, UnreadRests, QueueTyped DEF PackagesInv
<1> QED BY <1>0, <1>4, <1>5, <1>6, <1>7, RestFollows

(* A step that leaves the objects and the work alone.                        *)
LEMMA IdleFollows ==
  ASSUME PackagesInv, NEW pr \in PRs, NEW c \in Controllers, Dequeue(c, pr),
         UNCHANGED <<gitVars, store, cache, synced, work, holder, creates>>
  PROVE  Follows
<1>1. "none" \notin Workers
  BY DEF Workers
<1>2. Written(pr, store[pr], "none", NoWork)
  BY <1>1, StayAfter, StayWritten
<1>3. GoesOn(pr, store[pr], "none", NoWork)
  BY <1>1 DEF GoesOn
<1> QED BY <1>1, <1>2, <1>3, LegalStay, QueueTyped, ObjectFollows

LEMMA ProcessorFollows ==
  ASSUME PackagesInv, NEW pr \in PRs, ProcessorReconcile(pr) PROVE Follows
<1> DEFINE C == Current(pr)
           cr == IF C.deleting THEN C ELSE AddFinalizer(C, "processor")
           Todo == cr.deleting \/ "process" \notin cr.conds
           request == GetRequest(pr, C.rev)
           o == IF cr = C THEN store[pr] ELSE cr
           waiting == Waiting(pr, cr, IsSynced(pr), request)
           next == IF Todo THEN waiting ELSE NoWork
<1>0. /\ work["processor"] = NoWork /\ "processor" \in Workers /\ "processor" \in Controllers
      /\ ~ ProcessorIdle(pr, C) /\ (cr # C => IsSynced(pr))
      /\ IF cr = C THEN UNCHANGED <<store, synced>> ELSE Changed(pr, cr)
      /\ work' = WorkAfter(pr, o, "processor", next)
      /\ Dequeue("processor", pr)
      /\ UNCHANGED <<gitVars, cache, holder, creates>>
  BY DEF ProcessorReconcile, Workers, Controllers
<1>1. Exists(C)
  BY <1>0 DEF ProcessorIdle
<1>2. /\ C \in Objects(MaxRev) /\ C.rev \in 0 .. MaxRev /\ C.rev <= Numbered
      /\ IsSynced(pr) \in BOOLEAN /\ (IsSynced(pr) => C = store[pr])
      /\ AddFinalizer(C, "processor") \in Objects(MaxRev)
      /\ AddFinalizer(C, "processor") = [C EXCEPT !.fins = C.fins \cup {"processor"}]
  BY <1>0, <1>1, ReadObject
<1>3. cr # C => Legal(pr, cr)
  BY <1>0, <1>1, MarkedCurrent, LegalMarked
<1>4. /\ cr \in Objects(MaxRev) /\ cr.rev = C.rev /\ cr.conds = C.conds
      /\ cr.deleting = C.deleting /\ cr \in Stored /\ Exists(cr)
  BY <1>2 DEF Objects, Stored, Exists, Lifecycles
<1>5. ~ C.deleting => PreviousTrue(GatesOf[pr], "process", C)
  BY <1>0 DEF ProcessorIdle
<1>6. PreviousTrue(GatesOf[pr], "process", C) => PreviousTrue(GatesOf[pr], "process", cr)
  BY <1>4 DEF PreviousTrue
<1>7. request \in Calls(0) /\ Requested(request) /\ request.op = "get"
      /\ request.pr = pr /\ request.rev = C.rev
  <2>1. PICK rev \in 0 .. MaxRev : rev = C.rev
    BY <1>2
  <2> HIDE DEF C
  <2> QED BY <2>1, RequestsTyped
<1> HIDE DEF request
<1>8. /\ waiting \in Work /\ waiting.step = "waiting" /\ waiting.pr = pr
      /\ waiting.cr = cr /\ waiting.fresh = IsSynced(pr) /\ waiting.request = request
  BY <1>2, <1>4, <1>7, WaitingType
<1> HIDE DEF waiting, C, cr
<1>9. Todo => RequestMade("processor", waiting)
  BY <1>4, <1>5, <1>6, <1>7, <1>8 DEF RequestMade
<1>10. Legal(pr, o)
  BY <1>0, <1>3, LegalStay
<1>11. Written(pr, o, "processor", next)
  BY <1>0, StayWritten DEF Written
<1>12. GoesOn(pr, o, "processor", next)
  <2>1. CASE Todo
    BY <1>0, <1>2, <1>4, <1>7, <1>8, <1>9, <2>1 DEF GoesOn
  <2>2. CASE ~ Todo
    BY <2>2, NoWorkParts, StoredFacts DEF GoesOn
  <2> QED BY <2>1, <2>2
<1>13. work["processor"].step # "calling" /\ next.step # "calling"
  BY <1>0, <1>8, NoWorkParts
<1>14. queue' \in [Controllers -> SUBSET PRs]
  BY <1>0, QueueTyped
<1> HIDE DEF o, next
<1> QED BY <1>0, <1>10, <1>11, <1>12, <1>13, <1>14, ObjectFollows

(* An update that no worker makes.                                           *)
LEMMA UpdateFollows ==
  ASSUME PackagesInv, NEW pr \in PRs, NEW o, Legal(pr, o), Changed(pr, o),
         work' = WorkAfter(pr, o, "none", NoWork),
         UNCHANGED <<gitVars, cache, holder>>, queue' \in [Controllers -> SUBSET PRs]
  PROVE  Follows
<1>1. "none" \notin Workers
  BY DEF Workers
<1>2. Written(pr, o, "none", NoWork) /\ GoesOn(pr, o, "none", NoWork)
  BY <1>1 DEF Written, GoesOn
<1> QED BY <1>1, <1>2, ObjectFollows

LEMMA WriteReconcileFollows ==
  ASSUME PackagesInv, NEW pr \in PRs, NEW c \in Controllers, NEW results,
         WriteReconcile(c, pr, results),
         UNCHANGED creates /\ IsSynced(pr) =>
           \A o \in results : o # Current(pr) => Legal(pr, o)
  PROVE  Follows
<1>1. PICK o \in results :
        /\ o # Current(pr) => IsSynced(pr)
        /\ IF o = Current(pr) THEN UNCHANGED <<store, synced, work>>
           ELSE Changed(pr, o) /\ work' = WorkAfter(pr, o, "none", NoWork)
  BY DEF WriteReconcile
<1>2. Dequeue(c, pr) /\ UNCHANGED <<gitVars, cache, holder, creates>>
  BY DEF WriteReconcile
<1>3. queue' \in [Controllers -> SUBSET PRs]
  BY <1>2, QueueTyped
<1>4. CASE o = Current(pr)
  BY <1>1, <1>2, <1>4, IdleFollows
<1>5. CASE o # Current(pr)
  BY <1>1, <1>2, <1>3, <1>5, UpdateFollows
<1> QED BY <1>4, <1>5

LEMMA ApproverFollows ==
  ASSUME PackagesInv, NEW pr \in PRs, ApproverReconcile(pr) PROVE Follows
<1> DEFINE cr == Current(pr)
           f == AddFinalizer(cr, "approver")
           results == IF ApproverIdle(pr, cr) THEN {cr}
                      ELSE IF cr.deleting THEN {RemoveFinalizer(cr, "approver")}
                      ELSE {Approved(f)} \cup ({f} \ {cr})
<1>0. WriteReconcile("approver", pr, results) /\ "approver" \in Controllers
      /\ "approve" \in Gates
  BY DEF ApproverReconcile, Controllers, Gates
<1>1. ASSUME UNCHANGED creates, IsSynced(pr), NEW o \in results, o # cr PROVE Legal(pr, o)
  <2>1. ~ ApproverIdle(pr, cr) /\ Exists(cr) /\ PreviousTrue(GatesOf[pr], "approve", cr)
    BY <1>1 DEF ApproverIdle
  <2>2. /\ cr \in Objects(MaxRev) /\ cr = store[pr] /\ f \in Objects(MaxRev)
        /\ f = [store[pr] EXCEPT !.fins = store[pr].fins \cup {"approver"}]
        /\ Marked(pr, f) /\ Exists(store[pr])
    BY <1>0, <1>1, <2>1, ReadObject, MarkedCurrent
  <2>3. CASE o = RemoveFinalizer(cr, "approver")
    <3>1. o = Absent \/ Marked(pr, o)
      BY <1>0, <2>2, <2>3, ObjectWrites DEF Marked, Objects
    <3> QED BY <1>1, <2>2, <3>1, LegalAbsent, LegalMarked
  <2>4. CASE o = f
    BY <1>1, <2>2, <2>4, LegalMarked
  <2>5. CASE o = Approved(f)
    <3>1. /\ f.rev = store[pr].rev /\ f.lifecycle = store[pr].lifecycle
          /\ f.conds = store[pr].conds /\ f.deleting = store[pr].deleting
          /\ ReleasedFirst(store[pr])
      BY <2>2, StoredFacts DEF Objects
    <3> HIDE DEF f, cr
    <3>2. CASE f.lifecycle \in {"draft", "proposed"}
      <4> DEFINE g == [f EXCEPT !.tasks = FALSE,
                         !.lifecycle = IF f.lifecycle = "draft" THEN "proposed" ELSE "published"]
      <4>1. /\ g \in Objects(MaxRev) /\ g.rev = f.rev /\ g.conds = f.conds
            /\ g.deleting = f.deleting
        BY <2>2 DEF Objects, Lifecycles
      <4>2. "approve" \notin f.conds /\ f.rev = 0
        BY <3>1, <3>2 DEF ReleasedFirst, Released
      <4>3. o = SetFalse(g, "approve")
        BY <2>5, <3>2 DEF Approved
      <4> HIDE DEF g
      <4>4. o \in Objects(MaxRev) /\ o = [g EXCEPT !.conds = g.conds \ {"approve"}]
        BY <1>0, <4>1, <4>3, ObjectWrites
      <4>5. /\ o.rev = 0 /\ o.conds = store[pr].conds
            /\ o.deleting = store[pr].deleting
        BY <3>1, <4>1, <4>2, <4>4 DEF Objects
      <4>6. ReleasedFirst(o) /\ ~ Released(store[pr])
        BY <3>1, <3>2, <4>2, <4>5 DEF ReleasedFirst, Released
      <4> QED BY <1>1, <2>2, <3>1, <4>2, <4>4, <4>5, <4>6, LegalSame
    <3>3. CASE f.lifecycle = "published"
      <4>1. o = SetTrue(f, "approve")
        BY <2>5, <3>3 DEF Approved
      <4>2. /\ o \in Objects(MaxRev) /\ o.rev = f.rev /\ o.lifecycle = f.lifecycle
            /\ o.deleting = f.deleting /\ o.conds = f.conds \cup {"approve"}
        BY <1>0, <2>2, <4>1, ObjectWrites DEF Objects
      <4>3. Released(o)
        BY <3>3, <4>2 DEF Released
      <4> QED BY <1>0, <1>1, <2>1, <2>2, <3>1, <4>2, <4>3, LegalGate DEF cr
    <3>4. CASE f.lifecycle \notin {"draft", "proposed", "published"}
      <4>1. o = f
        BY <2>5, <3>4 DEF Approved
      <4> QED BY <1>1, <2>2, <4>1, LegalMarked
    <3> QED BY <3>2, <3>3, <3>4
  <2> QED BY <1>1, <2>1, <2>3, <2>4, <2>5
<1> HIDE DEF results
<1> QED BY <1>0, <1>1, WriteReconcileFollows

LEMMA InstallerFollows ==
  ASSUME PackagesInv, NEW pr \in PRs, InstallerReconcile(pr) PROVE Follows
<1> DEFINE cr == Current(pr)
           f == AddFinalizer(cr, "installer")
           results == IF InstallerIdle(pr, cr) THEN {cr}
                      ELSE IF cr.deleting THEN {RemoveFinalizer(cr, "installer")}
                      ELSE {SetTrue(f, "install"), f}
<1>0. WriteReconcile("installer", pr, results) /\ "installer" \in Controllers
      /\ "install" \in Gates /\ "install" # "approve"
  BY DEF InstallerReconcile, Controllers, Gates
<1>1. ASSUME UNCHANGED creates, IsSynced(pr), NEW o \in results, o # cr PROVE Legal(pr, o)
  <2>1. ~ InstallerIdle(pr, cr) /\ Exists(cr) /\ PreviousTrue(GatesOf[pr], "install", cr)
    BY <1>1 DEF InstallerIdle
  <2>2. /\ cr \in Objects(MaxRev) /\ cr = store[pr] /\ f \in Objects(MaxRev)
        /\ f = [store[pr] EXCEPT !.fins = store[pr].fins \cup {"installer"}]
        /\ Marked(pr, f) /\ Exists(store[pr])
    BY <1>0, <1>1, <2>1, ReadObject, MarkedCurrent
  <2>3. CASE o = RemoveFinalizer(cr, "installer")
    <3>1. o = Absent \/ Marked(pr, o)
      BY <1>0, <2>2, <2>3, ObjectWrites DEF Marked, Objects
    <3> QED BY <1>1, <2>2, <3>1, LegalAbsent, LegalMarked
  <2>4. CASE o = f
    BY <1>1, <2>2, <2>4, LegalMarked
  <2>5. CASE o = SetTrue(f, "install")
    <3>1. /\ o \in Objects(MaxRev) /\ o.rev = store[pr].rev /\ o.lifecycle = store[pr].lifecycle
          /\ o.deleting = store[pr].deleting /\ o.conds = store[pr].conds \cup {"install"}
      <4>1. /\ f.rev = store[pr].rev /\ f.lifecycle = store[pr].lifecycle
            /\ f.conds = store[pr].conds /\ f.deleting = store[pr].deleting
        BY <2>2 DEF Objects
      <4> HIDE DEF f
      <4> QED BY <1>0, <2>2, <2>5, <4>1, ObjectWrites DEF Objects
    <3> QED BY <1>0, <1>1, <2>1, <2>2, <3>1, LegalGate
  <2> QED BY <1>1, <2>1, <2>3, <2>4, <2>5
<1> HIDE DEF results
<1> QED BY <1>0, <1>1, WriteReconcileFollows

LEMMA CreateFollows ==
  ASSUME PackagesInv, NEW pr \in PRs, UserCreate(pr) PROVE Follows
<1>1. PICK tasks \in Tasked :
        Changed(pr, Draft(tasks)) /\ work' = WorkAfter(pr, Draft(tasks), "none", NoWork)
  BY DEF UserCreate
<1>2. /\ ~ Exists(store[pr]) /\ creates < MaxCreates /\ creates' = creates + 1
      /\ UNCHANGED <<gitVars, cache, queue, holder>>
  BY DEF UserCreate
<1> DEFINE o == Draft(tasks)
<1>3. /\ o \in Objects(MaxRev) /\ o.rev = 0 /\ o.conds = {} /\ Exists(o)
  <2>1. tasks \in BOOLEAN
    BY <1>1, ServerAssumption
  <2>2. /\ Absent \in [lifecycle : Lifecycles \cup {"absent"}, rev : 0 .. MaxRev,
                        tasks : BOOLEAN, fins : SUBSET Controllers, deleting : BOOLEAN,
                        conds : SUBSET (Gates \cup {Ready})]
        /\ Absent.rev = 0 /\ Absent.conds = {} /\ "draft" \in Lifecycles
        /\ Exists([Absent EXCEPT !.lifecycle = "draft", !.tasks = tasks])
    BY DEF Absent, Lifecycles, Exists
  <2>3. o = [Absent EXCEPT !.lifecycle = "draft", !.tasks = tasks]
    BY DEF Draft
  <2> HIDE DEF o
  <2> QED BY <2>1, <2>2, <2>3 DEF Objects
<1> HIDE DEF o
<1>4. creates \in 0 .. MaxCreates /\ MaxCreates \in Nat /\ o \in Stored
  BY <1>3, ServerAssumption DEF PackagesInv, TypeOK, Stored
<1>5. InOrder(GatesOf[pr], o) /\ ReleasedFirst(o)
  BY <1>3 DEF InOrder, ReleasedFirst
<1>6. Legal(pr, o)
  BY <1>2, <1>3, <1>4, <1>5, StoredFacts DEF Legal, Kind
<1>7. queue' \in [Controllers -> SUBSET PRs]
  BY <1>2 DEF PackagesInv, TypeOK
<1> QED BY <1>1, <1>2, <1>6, <1>7, UpdateFollows DEF o

LEMMA MoveFollows ==
  ASSUME PackagesInv, NEW pr \in PRs, UserMove(pr) PROVE Follows
<1>1. PICK move \in UserMoves, tasks \in BOOLEAN :
        LET o == [store[pr] EXCEPT !.lifecycle = move[2], !.tasks = @ /\ tasks]
        IN  /\ store[pr].lifecycle = move[1]
            /\ ValidUpdate(store[pr], o)
            /\ Changed(pr, o)
            /\ work' = WorkAfter(pr, o, "none", NoWork)
            /\ UNCHANGED <<gitVars, cache, queue, holder, creates>>
  BY DEF UserMove
<1> DEFINE o == [store[pr] EXCEPT !.lifecycle = move[2], !.tasks = @ /\ tasks]
<1>2. move[1] \in Lifecycles /\ move[2] \in Lifecycles
  BY ServerAssumption
<1>3. Exists(store[pr]) /\ store[pr] \in Objects(MaxRev) /\ ReleasedFirst(store[pr])
  BY <1>1, <1>2, StoredFacts DEF Exists, Lifecycles
<1>4. /\ o \in Objects(MaxRev) /\ o.lifecycle = move[2] /\ o.rev = store[pr].rev
      /\ o.conds = store[pr].conds /\ o.deleting = store[pr].deleting
  <2>1. PICK t \in BOOLEAN : t = (store[pr].tasks /\ tasks)
    OBVIOUS
  <2>2. o = [store[pr] EXCEPT !.lifecycle = move[2], !.tasks = t]
    BY <2>1
  <2> HIDE DEF o
  <2> QED BY <1>2, <1>3, <2>1, <2>2 DEF Objects
<1>5. /\ ValidUpdate(store[pr], o) /\ Changed(pr, o)
      /\ work' = WorkAfter(pr, o, "none", NoWork)
      /\ UNCHANGED <<gitVars, cache, queue, holder, creates>>
  BY <1>1
<1> HIDE DEF o
<1>6. Released(store[pr]) => Released(o)
  BY <1>5 DEF ValidUpdate, NextLifecycles, Released
<1>7. ReleasedFirst(o)
  BY <1>3, <1>4, <1>6 DEF ReleasedFirst
<1>8. Legal(pr, o)
  BY <1>3, <1>4, <1>5, <1>6, <1>7, LegalSame
<1>9. queue' \in [Controllers -> SUBSET PRs]
  BY <1>5 DEF PackagesInv, TypeOK
<1> QED BY <1>5, <1>8, <1>9, UpdateFollows

LEMMA UserDeleteFollows ==
  ASSUME PackagesInv, NEW pr \in PRs, UserDelete(pr) PROVE Follows
<1> DEFINE d == [store[pr] EXCEPT !.deleting = TRUE]
           o == IF store[pr].fins = {} THEN Absent ELSE d
<1>1. /\ Exists(store[pr]) /\ Changed(pr, o) /\ work' = WorkAfter(pr, o, "none", NoWork)
      /\ UNCHANGED <<gitVars, cache, queue, holder, creates>>
  BY DEF UserDelete
<1>2. /\ d \in Objects(MaxRev) /\ d.lifecycle = store[pr].lifecycle /\ d.rev = store[pr].rev
      /\ d.conds = store[pr].conds /\ d.deleting
  BY <1>1, StoredFacts DEF Objects
<1> HIDE DEF d
<1>3. ReleasedFirst(d) /\ (Released(store[pr]) => Released(d))
  BY <1>2, StoredFacts DEF ReleasedFirst, Released
<1>4. Legal(pr, o)
  <2>1. Legal(pr, Absent)
    BY <1>1, LegalAbsent
  <2>2. Legal(pr, d)
    BY <1>1, <1>2, <1>3, LegalSame
  <2> QED BY <2>1, <2>2
<1>5. queue' \in [Controllers -> SUBSET PRs]
  BY <1>1 DEF PackagesInv, TypeOK
<1> QED BY <1>1, <1>4, <1>5, UpdateFollows

LEMMA UserUpdateFollows ==
  ASSUME PackagesInv, NEW pr \in PRs, UserUpdate(pr) PROVE Follows
<1> DEFINE request == GetRequest(pr, store[pr].rev)
           next == Waiting(pr, store[pr], FALSE, request)
<1>1. /\ work["user"] = NoWork /\ Exists(store[pr]) /\ "user" \in Workers
      /\ work' = [work EXCEPT !["user"] = next]
      /\ UNCHANGED <<gitVars, store, cache, synced, queue, holder, creates>>
  BY DEF UserUpdate, Workers
<1>2. store[pr] \in Stored /\ store[pr].rev \in 0 .. MaxRev /\ store[pr].rev <= Numbered
  BY StoredFacts, StoredParts
<1>3. request \in Calls(0) /\ Requested(request) /\ request.op = "get"
      /\ request.pr = pr /\ request.rev = store[pr].rev
  <2>1. PICK rev \in 0 .. MaxRev : rev = store[pr].rev
    BY <1>2
  <2> QED BY <2>1, RequestsTyped
<1> HIDE DEF request
<1>4. /\ next \in Work /\ next.step = "waiting" /\ next.pr = pr /\ next.cr = store[pr]
      /\ next.fresh = FALSE /\ next.request = request
  BY <1>2, <1>3 DEF Waiting, Work
<1> HIDE DEF next
<1>5. RequestMade("user", next)
  BY <1>1, <1>3, <1>4 DEF RequestMade
<1>6. GoesOn(pr, store[pr], "user", next)
  BY <1>3, <1>4, <1>5 DEF GoesOn
<1>7. Written(pr, store[pr], "user", next)
  BY <1>1, StayAfter, StayWritten
<1>8. work["user"].step # "calling" /\ queue' \in [Controllers -> SUBSET PRs]
  BY <1>1, NoWorkParts DEF PackagesInv, TypeOK
<1> QED BY <1>1, <1>4, <1>6, <1>7, <1>8, LegalStay, ObjectFollows

(* The informer brings the cache up to what is stored.                       *)
LEMMA SyncFollows ==
  ASSUME PackagesInv, NEW pr \in PRs, InformerSync(pr) PROVE Follows
<1>0. /\ cache' = [cache EXCEPT ![pr] = store[pr]] /\ synced' = [synced EXCEPT ![pr] = TRUE]
      /\ queue' = [c \in Controllers |->
                     IF c \in Watching(pr) THEN queue[c] \cup {pr} ELSE queue[c]]
      /\ UNCHANGED <<gitVars, store, work, holder, creates>>
  BY DEF InformerSync
<1>1. /\ GitInv /\ ObjectsInv /\ CallOfHolder /\ GitBelow(Numbered)
      /\ queue \in [Controllers -> SUBSET PRs] /\ holder \in Workers \cup {"none"}
  BY InvParts
<1>2. GitInv'
  BY <1>0, <1>1, GitInvStep
<1>3. /\ cache' \in [PRs -> Stored] /\ synced' \in [PRs -> BOOLEAN]
      /\ queue' \in [Controllers -> SUBSET PRs]
      /\ \A q \in PRs : /\ cache'[q] = IF q = pr THEN store[q] ELSE cache[q]
                        /\ synced'[q] => q = pr \/ synced[q]
  BY <1>0, <1>1 DEF ObjectsInv
<1>4. Numbered' = Numbered
  BY <1>0 DEF Numbered, Unnumbered
<1>5. CopiesKept'
  BY <1>0, <1>1, <1>3 DEF ObjectsInv, CopiesKept
<1>6. ObjectsInv'
  BY <1>0, <1>1, <1>3, <1>4, <1>5 DEF ObjectsInv, RequestsMade, AllReleasedFirst
<1>7. CallOfHolder' /\ GitBelow(Numbered)'
  BY <1>0, <1>1, <1>4 DEF gitVars, CallOfHolder, GitBelow
<1>8. PackagesInv'
  BY <1>0, <1>1, <1>2, <1>3, <1>6, <1>7
     DEF PackagesInv, TypeOK, ObjectsInv, RevisionsCounted, GitBelow, GitInv
<1>9. \A q \in PRs : Kind(store[q], store[q])
  BY LegalStay, StoredFacts DEF Kind, Released, Absent
<1> QED BY <1>0, <1>8, <1>9 DEF Follows, GatesInOrder

----------------------------------------------------------------------------
(* The steps that call git. *)

(* A worker that is not idle.                                                *)
LEMMA BusyParts ==
  ASSUME PackagesInv, NEW w \in Workers, work[w].step # "idle"
  PROVE  /\ work[w] \in Work /\ RequestMade(w, work[w]) /\ work[w].pr \in PRs
         /\ work[w].cr \in Objects(MaxRev) /\ work[w].request \in Calls(0)
         /\ Requested(work[w].request) /\ work[w].request.pr = work[w].pr
         /\ work[w].cr.rev <= Numbered /\ work[w].request.rev <= Numbered
         /\ work[w].request.rev \in 0 .. MaxRev
         /\ work[w].fresh => work[w].cr = store[work[w].pr]
<1>1. /\ work[w] \in Work /\ RequestMade(w, work[w])
      /\ work[w].cr.rev <= Numbered /\ work[w].request.rev <= Numbered
      /\ work[w].fresh => work[w].cr = store[work[w].pr]
  BY DEF PackagesInv, TypeOK, RequestsMade, RevisionsCounted, CopiesKept
<1>2. /\ work[w].pr \in PRs /\ Exists(work[w].cr) /\ Requested(work[w].request)
      /\ work[w].request.pr = work[w].pr
  BY <1>1 DEF RequestMade
<1>3. work[w].cr \in Stored /\ work[w].request \in Calls(0)
  BY <1>1 DEF Work
<1>4. work[w].cr \in Objects(MaxRev)
  BY <1>2, <1>3, StoredParts
<1>5. work[w].request.rev \in 0 .. MaxRev
  BY <1>2 DEF Requested
<1> QED BY <1>1, <1>2, <1>3, <1>4, <1>5

(* The requests are those that StartAny allows.                              *)
LEMMA StartRequested ==
  ASSUME NEW q \in Calls(0), Requested(q), Start(q) PROVE StartAny
<1>1. /\ q.pr \in PRs /\ q.rev \in 0 .. MaxRev /\ q.published \in BOOLEAN
      /\ q.strict \in BOOLEAN /\ q.files \in SUBSET Files
  BY DEF Calls, Requested
<1>2. CASE q = UpsertRequest(q.pr, q.rev, q.published, q.strict, q.files)
  BY <1>1, <1>2 DEF StartAny
<1>3. CASE q = EnsureRequest(q.pr, q.rev, q.strict) /\ q.rev # 0
  BY <1>1, <1>3 DEF StartAny
<1>4. CASE q = DeleteRequest(q.pr, q.rev) \/ q = ListRequest(q.pr) \/ q = GetRequest(q.pr, q.rev)
  BY <1>1, <1>4 DEF StartAny
<1> QED BY <1>2, <1>3, <1>4 DEF Requested

LEMMA StartFollows ==
  ASSUME PackagesInv, NEW w \in Workers, StartCall(w) PROVE Follows /\ StartAny
<1> DEFINE k == work[w]
           next == [k EXCEPT !.step = "calling"]
<1>0. /\ k.step = "waiting" /\ holder = "none" /\ Start(k.request) /\ holder' = w
      /\ work' = [work EXCEPT ![w].step = "calling"]
      /\ UNCHANGED <<store, cache, synced, queue, creates>>
  BY DEF StartCall
<1>1. /\ k \in Work /\ RequestMade(w, k) /\ k.pr \in PRs /\ k.request \in Calls(0)
      /\ Requested(k.request) /\ k.cr.rev <= Numbered /\ k.request.rev <= Numbered
      /\ k.fresh => k.cr = store[k.pr]
  BY <1>0, BusyParts
<1>2. /\ next \in Work /\ next.step = "calling" /\ next.pr = k.pr /\ next.cr = k.cr
      /\ next.fresh = k.fresh /\ next.request = k.request
  BY <1>1 DEF Work
<1>3. RequestMade(w, next)
  BY <1>0, <1>1, <1>2 DEF RequestMade
<1>4. work' = [work EXCEPT ![w] = next]
  BY <1>0
<1> HIDE DEF next
<1>5. Written(k.pr, store[k.pr], w, next)
  <2>0. \A p \in PRs : WorkAfter(p, store[p], w, next) = [work EXCEPT ![w] = next]
    BY StayAfter
  <2>1. work' = WorkAfter(k.pr, store[k.pr], w, next)
    BY <1>1, <1>4, <2>0
  <2> QED BY <1>0, <1>1, <2>1, StayWritten
<1>6. GoesOn(k.pr, store[k.pr], w, next)
  BY <1>1, <1>2, <1>3 DEF GoesOn
<1>7. StartAny /\ GitInv'
  <2>1. StartAny
    BY <1>0, <1>1, StartRequested
  <2> QED BY <2>1, StartAnyInv DEF PackagesInv
<1>8. \A n \in Nat : n = Numbered /\ GitBelow(n) => GitBelow(n)'
  <2>1. call' = k.request /\ UNCHANGED <<remote, local>>
    BY <1>0 DEF Start
  <2>2. k.request.found = {}
    BY <1>1, RequestedParts
  <2> QED BY <1>1, <2>1, <2>2 DEF GitBelow
<1>9. CallOfHolder'
  <2>1. CallOfHolder /\ work \in [Workers -> Work] /\ call' = k.request
    BY <1>0 DEF PackagesInv, TypeOK, Start
  <2>2. \A v \in Workers : work'[v] = IF v = w THEN next ELSE work[v]
    BY <1>4, <2>1
  <2>3. k.request.step = "fetch" /\ "none" \notin Workers
    BY <1>1, RequestedParts DEF Workers
  <2> QED BY <1>0, <1>2, <2>1, <2>2, <2>3 DEF CallOfHolder
<1>10. queue' \in [Controllers -> SUBSET PRs] /\ holder' \in Workers \cup {"none"}
  BY <1>0 DEF PackagesInv, TypeOK
<1> HIDE DEF k
<1>11. Legal(k.pr, store[k.pr])
  BY <1>0, <1>1, LegalStay
<1> QED BY <1>0, <1>1, <1>5, <1>6, <1>7, <1>8, <1>9, <1>10, <1>11, WriteFollows

(* Nothing happens to the objects and the work.                              *)
LEMMA GitFollows ==
  ASSUME PackagesInv, UNCHANGED objVars, NEW pr \in PRs, GitInv',
         \A n \in Nat : GitBelow(n) => GitBelow(n)',
         call'.step # "idle", call.step # "idle", call'.op = call.op, call'.pr = call.pr,
         call'.rev = call.rev
  PROVE  Follows
<1>1. /\ "none" \notin Workers /\ queue' \in [Controllers -> SUBSET PRs]
      /\ holder' \in Workers \cup {"none"}
  BY DEF Workers, objVars, PackagesInv, TypeOK
<1>2. Written(pr, store[pr], "none", NoWork) /\ GoesOn(pr, store[pr], "none", NoWork)
  <2>1. UNCHANGED <<store, synced, work>>
    BY DEF objVars
  <2>2. work' = WorkAfter(pr, store[pr], "none", NoWork)
    <3>1. work \in [Workers -> Work]
      BY DEF PackagesInv, TypeOK
    <3> QED BY <1>1, <2>1, <3>1 DEF WorkAfter
  <2>3. Written(pr, store[pr], "none", NoWork)
    <3>1. store \in [PRs -> Stored] /\ synced \in [PRs -> BOOLEAN]
      BY DEF PackagesInv, TypeOK
    <3> QED BY <2>1, <2>2, <3>1 DEF Written, Changed
  <2>4. GoesOn(pr, store[pr], "none", NoWork)
    BY <1>1 DEF GoesOn
  <2> QED BY <2>3, <2>4
<1>3. CallOfHolder'
  BY DEF objVars, PackagesInv, CallOfHolder
<1>4. Legal(pr, store[pr]) /\ cache' = cache
  BY LegalStay DEF objVars
<1> QED BY <1>1, <1>2, <1>3, <1>4, WriteFollows

LEMMA RunFollows == ASSUME PackagesInv, RunCall PROVE Follows
<1>1. GitInv /\ CallStep /\ UNCHANGED objVars
  BY DEF PackagesInv, RunCall
<1>2. call.step # "idle" /\ SameCall(call')
  BY <1>1, CallStepSame DEF GitInv
<1>3. GitInv'
  BY <1>1, GitInvStep DEF GitNext
<1>4. call.pr \in PRs
  BY <1>1, <1>2 DEF GitInv, CallShape
<1>5. \A n \in Nat : GitBelow(n) => GitBelow(n)'
  BY <1>1, CallStepBelow
<1>6. call'.step # "idle" /\ call'.op = call.op /\ call'.pr = call.pr /\ call'.rev = call.rev
  BY <1>2 DEF SameCall
<1> QED BY <1>1, <1>2, <1>3, <1>4, <1>5, <1>6, GitFollows

LEMMA PipelineFollows ==
  ASSUME PackagesInv, PipelineFails PROVE Follows /\ FetchFails /\ call.step = "done"
<1>1. /\ GitInv /\ FetchFails /\ call.step = "done" /\ UNCHANGED objVars
      /\ call' = Done("fault") /\ UNCHANGED <<remote, local>>
  BY DEF PackagesInv, PipelineFails, FetchFails, Fault
<1>2. GitInv' /\ call.pr \in PRs
  BY <1>1, FetchFailsInv DEF GitInv, CallShape
<1>3. /\ call'.step # "idle" /\ call'.op = call.op /\ call'.pr = call.pr
      /\ call'.rev = call.rev /\ call'.found = {}
  BY <1>1 DEF Done
<1>4. \A n \in Nat : GitBelow(n) => GitBelow(n)'
  BY <1>1, <1>3 DEF GitBelow
<1> QED BY <1>1, <1>2, <1>3, <1>4, GitFollows

(* A worker takes its answer and writes.                                     *)
LEMMA AnswerFollows ==
  ASSUME PackagesInv, NEW w \in Workers, Answered(w), NEW pr \in PRs, NEW o, Legal(pr, o),
         NEW next, Written(pr, o, w, next), GoesOn(pr, o, w, next),
         next.step # "calling", UNCHANGED cache, queue' \in [Controllers -> SUBSET PRs]
  PROVE  Follows
<1>1. holder = w /\ holder' = "none" /\ Return
  BY DEF Answered
<1>2. GitInv'
  BY <1>1, ReturnInv DEF PackagesInv
<1>3. call' = Idle /\ UNCHANGED <<remote, local>>
  BY <1>1 DEF Return
<1>4. \A n \in Nat : GitBelow(n) => GitBelow(n)'
  <2>1. call'.rev = 0 /\ call'.found = {}
    BY <1>3 DEF Idle
  <2>2. SUFFICES ASSUME NEW n \in Nat, GitBelow(n) PROVE GitBelow(n)'
    OBVIOUS
  <2> QED BY <1>3, <2>1, <2>2 DEF GitBelow
<1>5. CallOfHolder'
  <2>1. work' = WorkAfter(pr, o, w, next) /\ work \in [Workers -> Work] /\ CallOfHolder
    BY DEF Written, PackagesInv, TypeOK
  <2>2. \A v \in Workers :
          \/ v = w /\ work'[v] = next
          \/ v # w /\ work'[v].step = work[v].step
    BY <2>1 DEF WorkAfter, Work
  <2>3. \A v \in Workers : v # "none"
    BY DEF Workers
  <2> QED BY <1>1, <1>3, <2>1, <2>2, <2>3 DEF CallOfHolder, Idle
<1> QED BY <1>1, <1>2, <1>4, <1>5, WriteFollows

(* The worker that holds the repository.                                     *)
LEMMA HolderParts ==
  ASSUME PackagesInv, NEW w \in Workers, Answered(w)
  PROVE  /\ work[w].step = "calling" /\ call.op = work[w].request.op
         /\ work[w].pr \in PRs /\ work[w].cr \in Objects(MaxRev) /\ RequestMade(w, work[w])
         /\ work[w].fresh => work[w].cr = store[work[w].pr] /\ Exists(store[work[w].pr])
  <1>1. work[w].step = "calling" /\ call.op = work[w].request.op
    BY DEF PackagesInv, CallOfHolder, Answered
  <1>2. /\ work[w].pr \in PRs /\ work[w].cr \in Objects(MaxRev) /\ RequestMade(w, work[w])
        /\ work[w].fresh => work[w].cr = store[work[w].pr]
    BY <1>1, BusyParts
  <1>3. Exists(work[w].cr)
    BY <1>2 DEF Objects, Lifecycles, Exists
  <1> QED BY <1>1, <1>2, <1>3

(* The last write of a reconcile, or its conflict.                           *)
LEMMA LastFollows ==
  ASSUME PackagesInv, NEW w \in Workers, Answered(w), NEW o,
         IF work[w].fresh THEN Finish(w, work[w].pr, o) ELSE Conflict(w),
         work[w].fresh => Legal(work[w].pr, o),
         UNCHANGED <<cache, creates>>, queue' \in [Controllers -> SUBSET PRs]
  PROVE  Follows
<1> DEFINE pr == work[w].pr
<1>1. pr \in PRs
  BY HolderParts
<1>2. NoWork.step # "calling" /\ GoesOn(pr, o, w, NoWork) /\ GoesOn(pr, store[pr], w, NoWork)
  BY <1>1, NoWorkParts, StoredFacts DEF GoesOn
<1> HIDE DEF pr
<1>3. CASE work[w].fresh
  <2>1. Written(pr, o, w, NoWork) /\ Legal(pr, o)
    BY <1>3 DEF Finish, Written, pr
  <2> QED BY <1>1, <1>2, <2>1, AnswerFollows
<1>4. CASE ~ work[w].fresh
  <2>0. work' = [work EXCEPT ![w] = NoWork] /\ UNCHANGED <<store, synced>>
    BY <1>4 DEF Conflict
  <2>1. work' = WorkAfter(pr, store[pr], w, NoWork)
    <3>1. \A p \in PRs : WorkAfter(p, store[p], w, NoWork) = [work EXCEPT ![w] = NoWork]
      BY StayAfter
    <3> QED BY <1>1, <2>0, <3>1
  <2>2. Written(pr, store[pr], w, NoWork) /\ Legal(pr, store[pr])
    BY <1>1, <2>0, <2>1, StayWritten, LegalStay
  <2> QED BY <1>1, <1>2, <2>2, AnswerFollows
<1> QED BY <1>3, <1>4

(* The revision that is given is one nobody has yet.                         *)
LEMMA LegalAllocate ==
  ASSUME PackagesInv, NEW pr \in PRs, UNCHANGED creates, Exists(store[pr]),
         store[pr].rev = 0, store[pr].lifecycle = "published",
         NEW listed \in SUBSET (0 .. Numbered)
  PROVE  Legal(pr, [store[pr] EXCEPT !.rev = NextRevision(AllocatedRevs(pr, listed))])
<1>1. /\ store[pr] \in Objects(MaxRev) /\ creates \in 0 .. MaxCreates /\ Numbered \in Nat
  BY StoredFacts
<1>2. AllocatedRevs(pr, listed) \in SUBSET (0 .. Numbered)
  <2>1. \A q \in PRs : Exists(Current(q)) => Current(q).rev \in 0 .. Numbered
    <3> SUFFICES ASSUME NEW q \in PRs, Exists(Current(q)) PROVE Current(q).rev \in 0 .. Numbered
      OBVIOUS
    <3>1. "revision" \in Controllers
      BY DEF Controllers
    <3>2. Current(q).rev \in 0 .. MaxRev /\ Current(q).rev <= Numbered
      BY <3>1, ReadObject
    <3> QED BY <1>1, <3>2
  <2>2. Recognized(listed) \in SUBSET (0 .. Numbered)
    BY DEF Recognized
  <2>3. {Current(q).rev : q \in {q \in PRs : PkgOf[q] = PkgOf[pr] /\ Exists(Current(q))}}
          \in SUBSET (0 .. Numbered)
    BY <2>1
  <2> QED BY <2>2, <2>3 DEF AllocatedRevs
<1> DEFINE next == NextRevision(AllocatedRevs(pr, listed))
           o == [store[pr] EXCEPT !.rev = next]
<1>3. next \in 1 .. Numbered + 1
  <2>1. PICK n \in Nat : n = Numbered
    BY <1>1
  <2> QED BY <1>2, <2>1, NextRevisionBound
<1> HIDE DEF next
<1>4. Numbered + 1 <= creates
  <2>1. IsFiniteSet(Unnumbered) /\ pr \in Unnumbered
    BY FiniteAssumption, FS_Subset DEF Unnumbered
  <2>2. Cardinality(Unnumbered) \in Nat /\ Cardinality(Unnumbered) # 0
    BY <2>1, FS_CardinalityType, FS_EmptySet
  <2> QED BY <1>1, <2>2 DEF Numbered
<1>5. next \in 0 .. MaxRev
  BY <1>1, <1>3, <1>4, ServerAssumption
<1>6. /\ o \in Objects(MaxRev) /\ o.rev = next /\ o.lifecycle = "published"
      /\ o.conds = store[pr].conds /\ o.deleting = store[pr].deleting
  BY <1>1, <1>5 DEF Objects
<1> HIDE DEF o
<1>7. o \in Stored /\ ReleasedFirst(o) /\ Kind(store[pr], o) /\ Exists(o)
  BY <1>6 DEF Stored, ReleasedFirst, Released, Kind, Exists
<1>8. InOrder(GatesOf[pr], store[pr]) => InOrder(GatesOf[pr], o)
  BY <1>6 DEF InOrder
<1>9. Legal(pr, o)
  BY <1>1, <1>3, <1>6, <1>7, <1>8 DEF Legal
<1> QED BY <1>9 DEF o, next

LEMMA RevisionDoneFollows == ASSUME PackagesInv, RevisionDone PROVE Follows
<1> DEFINE w == work["revision"]
           out == RevisionOutcome(w)
<1>0. /\ "revision" \in Workers /\ "revision" \in Controllers /\ Answered("revision")
      /\ IF w.fresh THEN Finish("revision", w.pr, out.o) ELSE Conflict("revision")
      /\ (IF w.fresh /\ ~ out.again THEN UNCHANGED queue ELSE Requeue("revision", w.pr))
      /\ UNCHANGED <<cache, creates>>
  BY DEF RevisionDone, Workers, Controllers
<1>1. /\ call.op = w.request.op /\ w.step = "calling" /\ w.pr \in PRs
      /\ w.cr \in Objects(MaxRev) /\ RequestMade("revision", w)
      /\ w.fresh => w.cr = store[w.pr] /\ Exists(store[w.pr])
  BY <1>0, HolderParts
<1>2. queue' \in [Controllers -> SUBSET PRs]
  BY <1>0, <1>1, QueueTyped
<1>3. ASSUME w.fresh PROVE Legal(w.pr, out.o)
  <2>0. w.cr = store[w.pr] /\ Exists(store[w.pr]) /\ store[w.pr] \in Objects(MaxRev)
    BY <1>1, <1>3
  <2>1. CASE Deleted
    <3>1. out.o = RemoveFinalizer(w.cr, "revision")
      <4>1. call.op = "delete"
        BY <2>1 DEF Deleted
      <4> QED BY <2>1, <4>1 DEF RevisionOutcome
    <3> HIDE DEF out, w
    <3>2. out.o = Absent \/ Marked(w.pr, out.o)
      <4>1. PICK cr \in Objects(MaxRev) : cr = w.cr
        BY <1>1
      <4>2. \/ out.o = Absent
            \/ /\ out.o \in Objects(MaxRev)
               /\ out.o = [cr EXCEPT !.fins = cr.fins \ {"revision"}]
        <5>1. out.o = RemoveFinalizer(cr, "revision")
          BY <3>1, <4>1
        <5>2. RemoveFinalizer(cr, "revision") \in Objects(MaxRev) \cup {Absent}
          BY <1>0, ObjectWrites
        <5>3. \/ RemoveFinalizer(cr, "revision") = Absent
              \/ RemoveFinalizer(cr, "revision") = [cr EXCEPT !.fins = cr.fins \ {"revision"}]
          BY <1>0, ObjectWrites
        <5> QED BY <5>1, <5>2, <5>3
      <4> QED BY <2>0, <4>1, <4>2 DEF Marked, Objects
    <3> QED BY <1>0, <1>1, <2>0, <3>2, LegalAbsent, LegalMarked
  <2>2. CASE ~ Deleted /\ call.op = "list" /\ ~ Failed
    <3>1. out.o = [w.cr EXCEPT !.rev = NextRevision(AllocatedRevs(w.pr, call.found))]
      BY <2>2 DEF RevisionOutcome
    <3>2. w.cr.rev = 0 /\ w.cr.lifecycle = "published"
      BY <1>1, <2>2 DEF RequestMade
    <3>3. call.found \in SUBSET (0 .. Numbered)
      <4>1. call \in Calls(Len(commits)) /\ \A r \in call.found : r <= Numbered
        BY DEF PackagesInv, TypeOK, GitTypeOK, RevisionsCounted
      <4>2. Numbered \in Nat
        BY DEF PackagesInv, RevisionsCounted
      <4> QED BY <4>1, <4>2 DEF Calls, Revs
    <3> HIDE DEF w, out
    <3>4. PICK pr \in PRs : pr = w.pr
      BY <1>1
    <3>5. PICK listed \in SUBSET (0 .. Numbered) : listed = call.found
      BY <3>3
    <3>6. Exists(store[pr]) /\ store[pr].rev = 0 /\ store[pr].lifecycle = "published"
      BY <2>0, <3>2, <3>4
    <3>7. Legal(pr, [store[pr] EXCEPT !.rev = NextRevision(AllocatedRevs(pr, listed))])
      BY <1>0, <3>6, LegalAllocate
    <3>8. out.o = [store[pr] EXCEPT !.rev = NextRevision(AllocatedRevs(pr, listed))]
      BY <2>0, <3>1, <3>4, <3>5
    <3> QED BY <3>4, <3>7, <3>8
  <2>3. CASE ~ Deleted /\ ~ (call.op = "list" /\ ~ Failed)
    <3>1. out.o = SetTrue(w.cr, Ready) \/ out.o = SetFalse(w.cr, Ready)
      BY <2>3 DEF RevisionOutcome
    <3> HIDE DEF w, out
    <3>2. Marked(w.pr, out.o)
      BY <2>0, <3>1, ObjectWrites DEF Marked, Objects
    <3> QED BY <1>0, <1>1, <2>0, <3>2, LegalMarked
  <2> QED BY <2>1, <2>2, <2>3
<1> HIDE DEF out
<1> QED BY <1>0, <1>2, <1>3, LastFollows

LEMMA ProcessorDoneFollows == ASSUME PackagesInv, ProcessorDone PROVE Follows
<1> DEFINE w == work["processor"]
           o == IF Failed THEN SetFalse(w.cr, "process")
                ELSE IF w.cr.deleting THEN RemoveFinalizer(w.cr, "processor")
                ELSE SetTrue(w.cr, "process")
<1>0. /\ "processor" \in Workers /\ "processor" \in Controllers /\ "process" \in Gates
      /\ Answered("processor")
      /\ IF w.fresh THEN Finish("processor", w.pr, o) ELSE Conflict("processor")
      /\ (IF w.fresh /\ ~ Failed THEN UNCHANGED queue ELSE Requeue("processor", w.pr))
      /\ UNCHANGED <<cache, creates>>
  BY DEF ProcessorDone, Workers, Controllers, Gates
<1>1. /\ w.step = "calling" /\ w.pr \in PRs /\ w.cr \in Objects(MaxRev)
      /\ RequestMade("processor", w)
      /\ w.fresh => w.cr = store[w.pr] /\ Exists(store[w.pr])
  BY <1>0, HolderParts
<1>2. queue' \in [Controllers -> SUBSET PRs]
  BY <1>0, <1>1, QueueTyped
<1>3. PICK pr \in PRs, cr \in Objects(MaxRev) : pr = w.pr /\ cr = w.cr
  BY <1>1
<1>4. ~ cr.deleting =>
        "process" \notin cr.conds /\ PreviousTrue(GatesOf[pr], "process", cr)
  BY <1>1, <1>3 DEF RequestMade
<1>5. w.fresh => cr = store[pr] /\ Exists(store[pr])
  BY <1>1, <1>3
<1>6. o = IF Failed THEN SetFalse(cr, "process")
          ELSE IF cr.deleting THEN RemoveFinalizer(cr, "processor")
          ELSE SetTrue(cr, "process")
  BY <1>3
<1> HIDE DEF o
<1>7. ASSUME w.fresh PROVE Legal(pr, o)
  <2>0. cr = store[pr] /\ Exists(store[pr]) /\ ReleasedFirst(cr)
    BY <1>5, <1>7, StoredFacts
  <2>1. CASE Failed
    <3>1. o \in Objects(MaxRev) /\ o = [cr EXCEPT !.conds = cr.conds \ {"process"}]
      BY <1>0, <1>6, <2>1, ObjectWrites
    <3>2. /\ o.rev = cr.rev /\ o.lifecycle = cr.lifecycle /\ o.deleting = cr.deleting
          /\ o.conds = cr.conds \ {"process"}
      BY <3>1 DEF Objects
    <3>3. ReleasedFirst(o) /\ (Released(cr) => Released(o))
      BY <2>0, <3>2 DEF ReleasedFirst, Released
    <3>4. ~ cr.deleting => o.conds = cr.conds
      BY <1>4, <3>2
    <3> QED BY <1>0, <2>0, <3>1, <3>2, <3>3, <3>4, LegalSame
  <2>2. CASE ~ Failed /\ cr.deleting
    <3>1. \/ o = Absent
          \/ o \in Objects(MaxRev) /\ o = [cr EXCEPT !.fins = cr.fins \ {"processor"}]
      <4>1. o = RemoveFinalizer(cr, "processor")
        BY <1>6, <2>2
      <4>2. RemoveFinalizer(cr, "processor") \in Objects(MaxRev) \cup {Absent}
        BY <1>0, ObjectWrites
      <4>3. \/ RemoveFinalizer(cr, "processor") = Absent
            \/ RemoveFinalizer(cr, "processor") = [cr EXCEPT !.fins = cr.fins \ {"processor"}]
        BY <1>0, ObjectWrites
      <4> QED BY <4>1, <4>2, <4>3
    <3>2. o = Absent \/ Marked(pr, o)
      BY <2>0, <3>1 DEF Marked, Objects
    <3> QED BY <1>0, <2>0, <3>2, LegalAbsent, LegalMarked
  <2>3. CASE ~ Failed /\ ~ cr.deleting
    <3>1. o \in Objects(MaxRev) /\ o = [cr EXCEPT !.conds = cr.conds \cup {"process"}]
      BY <1>0, <1>6, <2>3, ObjectWrites
    <3>2. /\ o.rev = cr.rev /\ o.lifecycle = cr.lifecycle /\ o.deleting = cr.deleting
          /\ o.conds = cr.conds \cup {"process"}
      BY <3>1 DEF Objects
    <3>3. PreviousTrue(GatesOf[pr], "process", store[pr])
      BY <1>4, <2>0, <2>3
    <3> QED BY <1>0, <2>0, <3>1, <3>2, <3>3, LegalGate
  <2> QED BY <2>1, <2>2, <2>3
<1> QED BY <1>0, <1>2, <1>3, <1>7, LastFollows

(* The resources are there: the worker goes on to write them.                *)
LEMMA UpsertFollows ==
  ASSUME PackagesInv, NEW w \in Workers, NEW files \in SUBSET Files, Upsert(w, files),
         w = "processor" => ~ work[w].cr.deleting
  PROVE  Follows
<1>0. /\ Answered(w) /\ UNCHANGED <<store, cache, synced, queue, creates>>
      /\ work' = [work EXCEPT ![w].step = "waiting",
                              ![w].request = UpsertRequest(@.pr, @.rev, FALSE, FALSE, files)]
  BY DEF Upsert
<1>1. work[w].step # "idle"
  BY <1>0, HolderParts
<1>2. PICK k \in Work : k = work[w]
  BY <1>1, BusyParts
<1>3. /\ RequestMade(w, k) /\ k.pr \in PRs /\ k.request \in Calls(0) /\ Requested(k.request)
      /\ k.request.pr = k.pr /\ k.cr.rev <= Numbered /\ k.request.rev <= Numbered
      /\ k.request.rev \in 0 .. MaxRev /\ (k.fresh => k.cr = store[k.pr])
  BY <1>1, <1>2, BusyParts
<1>4. PICK pr \in PRs, rev \in 0 .. MaxRev : pr = k.pr /\ rev = k.request.rev
  BY <1>3
<1> DEFINE q == UpsertRequest(pr, rev, FALSE, FALSE, files)
           next == [k EXCEPT !.step = "waiting", !.request = q]
<1>5. q \in Calls(0) /\ Requested(q) /\ q.op = "upsert" /\ q.pr = pr /\ q.rev = rev
  <2>1. PICK no \in BOOLEAN : no = FALSE
    OBVIOUS
  <2> DEFINE r == UpsertRequest(pr, rev, no, no, files)
  <2>2. r \in Calls(0) /\ Requested(r) /\ r.op = "upsert" /\ r.pr = pr /\ r.rev = rev
    BY RequestsTyped
  <2>3. r = q
    BY <2>1
  <2> HIDE DEF r, q
  <2> QED BY <2>2, <2>3
<1>6. work' = [work EXCEPT ![w] = next]
  <2> DEFINE Upserted(request) == UpsertRequest(request.pr, request.rev, FALSE, FALSE, files)
  <2>1. work' = [work EXCEPT ![w].step = "waiting", ![w].request = Upserted(@)]
    BY <1>0
  <2>2. q = Upserted(k.request)
    BY <1>3, <1>4
  <2> HIDE DEF q, Upserted
  <2>3. work \in [Workers -> Work]
    BY DEF PackagesInv, TypeOK
  <2>4. [k EXCEPT !.step = "waiting"].request = k.request
    BY DEF Work
  <2> QED BY <1>2, <2>1, <2>2, <2>3, <2>4
<1> HIDE DEF q
<1>7. /\ next \in Work /\ next.step = "waiting" /\ next.pr = pr /\ next.cr = k.cr
      /\ next.fresh = k.fresh /\ next.request = q
  BY <1>4, <1>5 DEF Work
<1> HIDE DEF next
<1>8. RequestMade(w, next)
  <2>1. /\ k.step # "idle" /\ Exists(k.cr)
        /\ w = "processor" /\ ~ k.cr.deleting =>
             "process" \notin k.cr.conds /\ PreviousTrue(GatesOf[k.pr], "process", k.cr)
    BY <1>1, <1>2, <1>3 DEF RequestMade
  <2> QED BY <1>4, <1>5, <1>7, <2>1 DEF RequestMade
<1>9. GoesOn(pr, store[pr], w, next)
  <2>1. next.fresh => next.cr = store[pr]
    BY <1>3, <1>4, <1>7
  <2>2. next.cr.rev <= Numbered /\ next.request.rev <= Numbered
    BY <1>3, <1>4, <1>5, <1>7
  <2> QED BY <1>7, <1>8, <2>1, <2>2 DEF GoesOn
<1>10. Written(pr, store[pr], w, next)
  <2>1. /\ store \in [PRs -> Stored] /\ synced \in [PRs -> BOOLEAN]
        /\ work \in [Workers -> Work] /\ UNCHANGED <<store, synced>>
    BY <1>0 DEF PackagesInv, TypeOK
  <2>2. work' = WorkAfter(pr, store[pr], w, next)
    BY <1>6, <2>1 DEF WorkAfter
  <2> QED BY <2>1, <2>2 DEF Written, Changed
<1>11. queue' \in [Controllers -> SUBSET PRs]
  BY <1>0 DEF PackagesInv, TypeOK
<1>12. Answered(w) /\ UNCHANGED cache /\ Legal(pr, store[pr])
  BY <1>0, LegalStay
<1> QED BY <1>7, <1>9, <1>10, <1>11, <1>12, AnswerFollows

LEMMA RunsFollow == ASSUME PackagesInv, ProcessorRun \/ UserRun PROVE Follows
<1>1. "processor" \in Workers /\ "user" \in Workers /\ "user" # "processor"
  BY DEF Workers
<1>2. Generated \in SUBSET Files /\ UserFiles \in SUBSET SUBSET Files
  BY ServerAssumption
<1>3. CASE ProcessorRun
  BY <1>1, <1>2, <1>3, UpsertFollows DEF ProcessorRun
<1>4. CASE UserRun
  BY <1>1, <1>2, <1>4, UpsertFollows DEF UserRun
<1> QED BY <1>3, <1>4

LEMMA UserDoneFollows == ASSUME PackagesInv, UserDone PROVE Follows
<1>0. /\ "user" \in Workers /\ Answered("user") /\ work' = [work EXCEPT !["user"] = NoWork]
      /\ UNCHANGED <<store, cache, synced, queue, creates>>
  BY DEF UserDone, Workers
<1>1. PICK pr \in PRs : pr = work["user"].pr
  BY <1>0, HolderParts
<1>2. Written(pr, store[pr], "user", NoWork)
  BY <1>0, StayAfter, StayWritten
<1>3. GoesOn(pr, store[pr], "user", NoWork) /\ NoWork.step # "calling"
  BY NoWorkParts, StoredFacts DEF GoesOn
<1>4. queue' \in [Controllers -> SUBSET PRs]
  BY <1>0 DEF PackagesInv, TypeOK
<1> QED BY <1>0, <1>2, <1>3, <1>4, LegalStay, AnswerFollows

LEMMA SkipFollows ==
  ASSUME PackagesInv, NEW pr \in PRs, RevisionSkip(pr) \/ ProcessorSkip(pr) PROVE Follows
<1>1. "revision" \in Controllers /\ "processor" \in Controllers
  BY DEF Controllers
<1> QED BY <1>1, IdleFollows DEF RevisionSkip, ProcessorSkip

(* The server starts again: nothing is under way.                            *)
LEMMA RestartFollows == ASSUME PackagesInv, ServerRestart PROVE Follows
<1>0. /\ Restart /\ cache' = store /\ synced' = [pr \in PRs |-> TRUE]
      /\ queue' = [c \in Controllers |-> {pr \in PRs : c \in Watching(pr)}]
      /\ work' = [w \in Workers |-> NoWork] /\ holder' = "none"
      /\ UNCHANGED <<store, creates>>
  BY DEF ServerRestart
<1>1. /\ GitInv /\ ObjectsInv /\ CallOfHolder /\ GitBelow(Numbered)
  BY InvParts
<1>2. GitInv'
  BY <1>0, <1>1, GitInvStep DEF GitNext
<1>3. Numbered' = Numbered /\ Numbered \in Nat
  BY <1>0, <1>1 DEF Numbered, Unnumbered, ObjectsInv
<1>4. CopiesKept' /\ RequestsMade' /\ AllReleasedFirst'
  BY <1>0, <1>1, NoWorkParts DEF ObjectsInv, CopiesKept, RequestsMade, AllReleasedFirst
<1>5. ObjectsInv'
  BY <1>0, <1>1, <1>3, <1>4, NoWorkParts DEF ObjectsInv
<1>6. CallOfHolder'
  <2>1. call' = Idle
    BY <1>0 DEF Restart
  <2> QED BY <1>0, <2>1, NoWorkParts DEF CallOfHolder, Idle, Workers
<1>7. GitBelow(Numbered)'
  <2>1. call'.rev = 0 /\ call'.found = {} /\ remote' = remote
    BY <1>0 DEF Restart, Idle
  <2>2. \A t \in TagNames : local'.tag[t] # NoRef =>
          remote.tag[t] # NoRef \/ local.tag[t] # NoRef
    BY <1>0 DEF Restart, Fetched, Overlay
  <2> QED BY <1>1, <1>3, <2>1, <2>2 DEF GitBelow
<1>8. queue' \in [Controllers -> SUBSET PRs] /\ holder' \in Workers \cup {"none"}
  BY <1>0
<1>9. PackagesInv'
  BY <1>2, <1>5, <1>6, <1>7, <1>8
     DEF PackagesInv, TypeOK, ObjectsInv, RevisionsCounted, GitBelow, GitInv
<1>10. \A q \in PRs : Kind(store[q], store[q])
  BY LegalStay, StoredFacts DEF Kind, Released, Absent
<1> QED BY <1>0, <1>9, <1>10 DEF Follows, GatesInOrder
----------------------------------------------------------------------------
(* All steps. *)

LEMMA PackagesInit == ASSUME Init PROVE PackagesInv /\ GatesInOrder
<1>0. /\ GitInit /\ store = [pr \in PRs |-> Absent] /\ cache = store
      /\ synced = [pr \in PRs |-> TRUE] /\ queue = [c \in Controllers |-> {}]
      /\ work = [w \in Workers |-> NoWork] /\ holder = "none" /\ creates = 0
  BY DEF Init
<1>1. /\ Absent \in Stored /\ ~ Exists(Absent) /\ Absent.rev = 0 /\ Absent.conds = {}
  BY DEF Stored, Absent, Exists
<1>2. Numbered = 0
  <2>1. Unnumbered = {}
    BY <1>0, <1>1 DEF Unnumbered
  <2> QED BY <1>0, <2>1, FS_EmptySet DEF Numbered
<1>3. GitInv /\ call = Idle /\ remote.tag = [t \in TagNames |-> NoRef] /\ local = remote
  BY <1>0, GitInvInit DEF GitInit
<1>4. CopiesKept /\ RequestsMade /\ AllReleasedFirst
  BY <1>0, <1>1, NoWorkParts DEF CopiesKept, RequestsMade, AllReleasedFirst, ReleasedFirst
<1>5. ObjectsInv
  <2>1. /\ store \in [PRs -> Stored] /\ cache \in [PRs -> Stored]
        /\ synced \in [PRs -> BOOLEAN] /\ creates \in 0 .. MaxCreates
    BY <1>0, <1>1, ServerAssumption
  <2>2. work \in [Workers -> Work]
    BY <1>0, NoWorkParts
  <2>3. \A w \in Workers : work[w].cr.rev <= Numbered /\ work[w].request.rev <= Numbered
    BY <1>0, <1>2, NoWorkParts
  <2>4. \A pr \in PRs : store[pr].rev <= Numbered /\ cache[pr].rev <= Numbered
    BY <1>0, <1>1, <1>2
  <2> QED BY <1>2, <1>4, <2>1, <2>2, <2>3, <2>4 DEF ObjectsInv
<1>6. CallOfHolder
  BY <1>0, <1>3, NoWorkParts DEF CallOfHolder, Idle, Workers
<1>7. GitBelow(Numbered)
  <2>1. call.rev = 0 /\ call.found = {}
    BY <1>3 DEF Idle
  <2>2. \A t \in TagNames : remote.tag[t] = NoRef /\ local.tag[t] = NoRef
    BY <1>3
  <2> QED BY <1>2, <2>1, <2>2 DEF GitBelow
<1>8. PackagesInv
  BY <1>0, <1>3, <1>5, <1>6, <1>7, InvParts
<1>9. GatesInOrder
  BY <1>0, <1>1 DEF GatesInOrder, InOrder
<1> QED BY <1>8, <1>9

LEMMA StutterFollows == ASSUME PackagesInv, UNCHANGED vars PROVE Follows
<1>1. UNCHANGED <<gitVars, store, cache, synced, queue, work, holder, creates>>
  BY DEF vars, objVars
<1>2. GitInv'
  BY <1>1, GitInvStep DEF PackagesInv
<1>3. Numbered' = Numbered
  BY <1>1 DEF Numbered, Unnumbered
<1>4. ObjectsInv /\ CallOfHolder /\ GitBelow(Numbered) /\ queue \in [Controllers -> SUBSET PRs]
      /\ holder \in Workers \cup {"none"}
  BY InvParts
<1>5. ObjectsInv'
  BY <1>1, <1>3, <1>4 DEF ObjectsInv, CopiesKept, RequestsMade, AllReleasedFirst
<1>6. CallOfHolder' /\ GitBelow(Numbered)'
  BY <1>1, <1>3, <1>4 DEF gitVars, CallOfHolder, GitBelow
<1>7. PackagesInv'
  BY <1>1, <1>2, <1>4, <1>5, <1>6
     DEF PackagesInv, TypeOK, ObjectsInv, RevisionsCounted, GitBelow, GitInv
<1>8. \A q \in PRs : Kind(store[q], store[q])
  BY LegalStay, StoredFacts DEF Kind, Released, Absent
<1> QED BY <1>1, <1>7, <1>8 DEF Follows, GatesInOrder

LEMMA PackagesStep == ASSUME PackagesInv, [Next]_vars PROVE Follows
<1>1. ASSUME NEW pr \in PRs, InformerSync(pr) \/ UserStep(pr) PROVE Follows
  BY <1>1, SyncFollows, CreateFollows, MoveFollows, UserDeleteFollows, UserUpdateFollows
     DEF UserStep
<1>2. ASSUME NEW pr \in PRs, RevisionStep(pr) \/ ProcessorStep(pr) PROVE Follows
  BY <1>2, ReconcileFollows, UnservedFollows, DeleteFollows, GivesUpFollows, SkipFollows,
     ProcessorFollows DEF RevisionStep, ProcessorStep
<1>3. ASSUME NEW pr \in PRs, ApproverReconcile(pr) \/ InstallerReconcile(pr) PROVE Follows
  BY <1>3, ApproverFollows, InstallerFollows
<1>4. CASE \E w \in Workers : StartCall(w)
  BY <1>4, StartFollows
<1>5. CASE RunCall \/ RevisionDone
  BY <1>5, RunFollows, RevisionDoneFollows
<1>6. CASE ProcessorRun \/ PipelineFails \/ ProcessorDone
  BY <1>6, RunsFollow, PipelineFollows, ProcessorDoneFollows
<1>7. CASE UserRun \/ UserDone \/ ServerRestart
  BY <1>7, RunsFollow, UserDoneFollows, RestartFollows
<1>8. CASE UNCHANGED vars
  BY <1>8, StutterFollows
<1> QED BY <1>1, <1>2, <1>3, <1>4, <1>5, <1>6, <1>7, <1>8 DEF Next

(* Seen from git, the controllers and users are one of the callers it        *)
(* expects; a pipeline that fails only turns the answer into a failure, and  *)
(* git knows nothing of a Repository that cannot be read.                    *)
LEMMA GitStep ==
  ASSUME PackagesInv, [Next]_vars
  PROVE  [GitNext]_gitVars \/ (FetchFails /\ call.step = "done") \/ GitRests
<1>1. ASSUME NEW pr \in PRs, InformerSync(pr) \/ UserStep(pr) PROVE UNCHANGED gitVars
  BY <1>1 DEF InformerSync, UserStep, UserCreate, UserMove, UserDelete, UserUpdate
<1>2. ASSUME NEW pr \in PRs, RevisionStep(pr) \/ ProcessorStep(pr)
      PROVE  UNCHANGED gitVars \/ GitRests
  <2>1. CASE RevisionUnserved(pr) \/ RevisionGivesUp(pr)
    BY <2>1, UnreadRests DEF RevisionUnserved, RevisionGivesUp, PackagesInv
  <2>2. CASE ~ (RevisionUnserved(pr) \/ RevisionGivesUp(pr))
    BY <1>2, <2>2 DEF RevisionStep, RevisionReconcile, RevisionDelete, RevisionSkip,
                      ProcessorStep, ProcessorSkip, ProcessorReconcile
  <2> QED BY <2>1, <2>2
<1>3. ASSUME NEW pr \in PRs, ApproverReconcile(pr) \/ InstallerReconcile(pr)
      PROVE  UNCHANGED gitVars
  BY <1>3 DEF ApproverReconcile, InstallerReconcile, WriteReconcile
<1>4. CASE \E w \in Workers : StartCall(w)
  BY <1>4, StartFollows DEF GitNext
<1>5. CASE RunCall
  BY <1>5 DEF RunCall, GitNext
<1>6. CASE RevisionDone \/ ProcessorRun \/ ProcessorDone \/ UserRun \/ UserDone
  BY <1>6 DEF RevisionDone, ProcessorRun, ProcessorDone, UserRun, UserDone, Upsert,
              Answered, GitNext
<1>7. CASE PipelineFails
  BY <1>7, PipelineFollows
<1>8. CASE ServerRestart
  BY <1>8 DEF ServerRestart, GitNext
<1>9. CASE UNCHANGED vars
  BY <1>9 DEF vars
<1> QED BY <1>1, <1>2, <1>3, <1>4, <1>5, <1>6, <1>7, <1>8, <1>9 DEF Next

----------------------------------------------------------------------------
(* What the workers ask of the repository, and what its answers say.         *)

(* Neither the branch of a draft nor the tag of a release is left.           *)
Cleaned(pr, rev) ==
  IF rev = 0 THEN remote.branch[pr] = NoRef ELSE remote.tag[Tag(pr, rev)] = NoRef

(* Ensure is through with main when it removes the branch, a delete that is  *)
(* done or has nothing to do left nothing, and a draft that was written is   *)
(* in its branch: the call keeps the mutex until its answer is taken.        *)
CallTold ==
  /\ call.step = "delete" => (remote.branch[call.pr] # NoRef => local.branch[call.pr] # NoRef)
  /\ call.op = "delete" /\ call.step = "done" /\ call.result \in {"ok", "not found"} =>
       Cleaned(call.pr, call.rev)
  /\ call.step = "deleteBranch" => remote.tag[Tag(call.pr, call.rev)] # NoRef
  /\ call.op = "upsert" /\ ~ call.published /\ call.rev = 0
       /\ call.step = "done" /\ call.result = "ok" => remote.branch[call.pr] # NoRef

(* Only the packagerevision controller publishes and deletes, and the        *)
(* processor writes what is no release yet as a draft.                       *)
Asked(w, k) ==
  k.step # "idle" =>
    /\ w # "revision" => k.request.op \in {"get", "upsert"} /\ ~ k.request.published
    /\ w = "processor" \/ k.request.op = "delete" => k.request.rev = k.cr.rev
CallAsked ==
  /\ \A w \in Workers : holder = w => call.published = work[w].request.published
  /\ call.op \in {"delete", "ensure"} => holder = "revision"

AskedInv == CallTold /\ CallAsked /\ \A w \in Workers : Asked(w, work[w])

(* The call between two of its steps, and when it is done.                   *)
LEMMA CallParts ==
  ASSUME GitTypeOK
  PROVE  /\ \A s : LET c == Goto(s)
                   IN  /\ c.op = call.op /\ c.pr = call.pr /\ c.rev = call.rev
                       /\ c.published = call.published /\ c.step = s /\ c.result = call.result
         /\ \A s, h : LET c == [Goto(s) EXCEPT !.head = h]
                      IN  /\ c.op = call.op /\ c.pr = call.pr /\ c.rev = call.rev
                          /\ c.published = call.published /\ c.step = s
         /\ \A s, h : LET c == [Goto(s) EXCEPT !.commit = h]
                      IN  /\ c.op = call.op /\ c.pr = call.pr /\ c.rev = call.rev
                          /\ c.published = call.published /\ c.step = s
         /\ \A s, h : LET c == [Goto(s) EXCEPT !.files = h]
                      IN  /\ c.op = call.op /\ c.pr = call.pr /\ c.rev = call.rev
                          /\ c.published = call.published /\ c.step = s
         /\ \A r : LET c == Done(r)
                   IN  /\ c.op = call.op /\ c.pr = call.pr /\ c.rev = call.rev
                       /\ c.published = call.published /\ c.step = "done" /\ c.result = r
         /\ \A r, f : LET c == [Done(r) EXCEPT !.found = f]
                      IN  /\ c.op = call.op /\ c.pr = call.pr /\ c.rev = call.rev
                          /\ c.published = call.published /\ c.step = "done" /\ c.result = r
         /\ \A r, f : LET c == [Done(r) EXCEPT !.files = f]
                      IN  /\ c.op = call.op /\ c.pr = call.pr /\ c.rev = call.rev
                          /\ c.published = call.published /\ c.step = "done" /\ c.result = r
<1>1. call \in Calls(Len(commits))
  BY DEF GitTypeOK
<1>2. \A s : Goto(s) = [op |-> call.op, pr |-> call.pr, rev |-> call.rev,
                        published |-> call.published, strict |-> call.strict,
                        files |-> call.files, step |-> s, head |-> call.head,
                        commit |-> call.commit, found |-> call.found, result |-> call.result]
  BY <1>1 DEF Goto, Calls
<1>3. \A s : LET c == Goto(s)
             IN  /\ c.op = call.op /\ c.pr = call.pr /\ c.rev = call.rev
                 /\ c.published = call.published /\ c.step = s /\ c.result = call.result
  BY <1>2
<1>4. /\ \A s, h : LET c == [Goto(s) EXCEPT !.head = h]
                   IN  /\ c.op = call.op /\ c.pr = call.pr /\ c.rev = call.rev
                       /\ c.published = call.published /\ c.step = s
      /\ \A s, h : LET c == [Goto(s) EXCEPT !.commit = h]
                   IN  /\ c.op = call.op /\ c.pr = call.pr /\ c.rev = call.rev
                       /\ c.published = call.published /\ c.step = s
      /\ \A s, h : LET c == [Goto(s) EXCEPT !.files = h]
                   IN  /\ c.op = call.op /\ c.pr = call.pr /\ c.rev = call.rev
                       /\ c.published = call.published /\ c.step = s
  BY <1>2
<1>5. /\ \A r : LET c == Done(r)
                IN  /\ c.op = call.op /\ c.pr = call.pr /\ c.rev = call.rev
                    /\ c.published = call.published /\ c.step = "done" /\ c.result = r
      /\ \A r, f : LET c == [Done(r) EXCEPT !.found = f]
                   IN  /\ c.op = call.op /\ c.pr = call.pr /\ c.rev = call.rev
                       /\ c.published = call.published /\ c.step = "done" /\ c.result = r
      /\ \A r, f : LET c == [Done(r) EXCEPT !.files = f]
                   IN  /\ c.op = call.op /\ c.pr = call.pr /\ c.rev = call.rev
                       /\ c.published = call.published /\ c.step = "done" /\ c.result = r
  BY DEF Done
<1> QED BY <1>3, <1>4, <1>5

(* A step of a call: what it was asked stays, its answer is true, and only   *)
(* a delete, or an Ensure that has published, takes something away.          *)
CallKept ==
  /\ call'.op = call.op /\ call'.pr = call.pr /\ call'.rev = call.rev
  /\ call'.published = call.published
BranchesKept ==
  \A pr \in PRs : remote.branch[pr] # NoRef =>
    \/ remote'.branch[pr] # NoRef
    \/ pr = call.pr /\ call.op = "delete"
    \/ pr = call.pr /\ call.op = "ensure" /\ remote'.tag[Tag(call.pr, call.rev)] # NoRef
ReleasesKeptBut ==
  \A t \in TagNames : remote.tag[t] # NoRef =>
    remote'.tag[t] # NoRef \/ (call.op = "delete" /\ t = Tag(call.pr, call.rev))

LEMMA CallStepTold ==
  ASSUME GitInv, CallTold, CallStep
  PROVE  CallKept /\ BranchesKept /\ ReleasesKeptBut /\ CallTold'
<1> DEFINE own == Tag(call.pr, call.rev)
           new == Len(commits) + 1
<1>0. /\ GitTypeOK /\ call.step # "idle" /\ call.pr \in PRs /\ Len(commits) \in Nat
      /\ remote \in Refs(Len(commits)) /\ local \in Refs(Len(commits))
      /\ remote.branch \in [PRs -> 0 .. Len(commits)] /\ local.branch \in [PRs -> 0 .. Len(commits)]
      /\ remote.tag \in [TagNames -> 0 .. Len(commits)]
      /\ TagsKnown /\ CallShape /\ new # NoRef
  <2>1. GitTypeOK /\ call.step # "idle" /\ call.pr \in PRs /\ TagsKnown /\ CallShape
    BY CallStepSame DEF GitInv, CallShape
  <2>2. /\ Len(commits) \in Nat
        /\ remote \in Refs(Len(commits)) /\ local \in Refs(Len(commits))
    BY <2>1 DEF GitTypeOK
  <2> QED BY <2>1, <2>2 DEF Refs, NoRef
<1>r. /\ SetMain(remote, new).branch = remote.branch /\ SetMain(remote, new).tag = remote.tag
      /\ \A c : /\ SetBranch(remote, call.pr, c).branch = [remote.branch EXCEPT ![call.pr] = c]
                /\ SetBranch(remote, call.pr, c).tag = remote.tag
                /\ SetTag(remote, own, c).tag = [remote.tag EXCEPT ![own] = c]
                /\ SetTag(remote, own, c).branch = remote.branch
  <2> HIDE DEF own, new
  <2>1. Len(commits) \in Nat /\ remote \in Refs(Len(commits))
    BY <1>0
  <2> QED BY <2>1 DEF Refs, SetMain, SetBranch, SetTag
<1>g. \A s : /\ Goto(s).op = call.op /\ Goto(s).pr = call.pr /\ Goto(s).rev = call.rev
             /\ Goto(s).published = call.published /\ Goto(s).step = s
  BY <1>0, CallParts
<1>d. \A r : /\ Done(r).op = call.op /\ Done(r).pr = call.pr /\ Done(r).rev = call.rev
             /\ Done(r).published = call.published /\ Done(r).step = "done"
             /\ Done(r).result = r
  BY DEF Done
<1>k. \A r : call' = Done(r) => CallKept /\ call'.step = "done" /\ call'.result = r
  BY <1>d DEF CallKept
<1>1. /\ call.step = "delete" => (remote.branch[call.pr] # NoRef => local.branch[call.pr] # NoRef)
      /\ call.step = "deleteBranch" => remote.tag[own] # NoRef
  BY DEF CallTold
<1>2. ASSUME remote' = remote PROVE BranchesKept /\ ReleasesKeptBut
  BY <1>2 DEF BranchesKept, ReleasesKeptBut
<1>3. ASSUME CallKept,
             \/ call'.step \notin {"delete", "done", "deleteBranch"}
             \/ call'.step = "done" /\ call'.result \notin {"ok", "not found"}
             \/ call'.step = "done" /\ call.op \notin {"delete", "upsert"}
             \/ call'.step = "done" /\ call.op = "upsert" /\ call.published
             \/ call'.step = "done" /\ call.op # "delete" /\ call'.result # "ok"
      PROVE  CallTold'
  BY <1>3 DEF CallTold, CallKept
<1> HIDE DEF own, new
<1>4. ASSUME call' = Done("fault") PROVE CallKept /\ CallTold'
  <2>1. CallKept /\ call'.step = "done" /\ call'.result = "fault"
    BY <1>0, <1>4, CallParts DEF CallKept
  <2> QED BY <1>3, <2>1
<1>5. CASE Fetch
  <2>0. remote' = remote
    BY <1>5 DEF Fetch, FetchFails
  <2>1. CASE local' = Fetched /\ call' = AfterFetch
    <3>1. \/ call' = Done("ok") /\ call.op = "upsert" /\ call.published
          \/ \E s \in {"commit", "branch", "delete", "refetch", "read"} : call' = Goto(s)
      BY <2>1 DEF AfterFetch
    <3>2. CallKept /\ (call'.step = "done" => call.op = "upsert" /\ call.published)
          /\ call'.step # "deleteBranch"
      BY <1>0, <3>1, CallParts DEF CallKept
    <3>3. remote'.branch[call'.pr] # NoRef => local'.branch[call'.pr] # NoRef
      BY <1>0, <2>0, <2>1, <3>2 DEF CallKept, Fetched, Overlay
    <3>4. CallTold'
      BY <3>2, <3>3 DEF CallTold, CallKept
    <3> QED BY <1>2, <2>0, <3>2, <3>4
  <2>2. CASE call' = Done("fault")
    BY <1>2, <1>4, <2>0, <2>2
  <2> QED BY <1>5, <2>1, <2>2 DEF Fetch, FetchFails, Fault
<1>6. CASE List \/ Read \/ CheckBranch \/ ReadBranch \/ CreateTag
  <2>0. remote' = remote
    BY <1>6 DEF List, Read, CheckBranch, ReadBranch, CreateTag, FetchFails
  <2>1. CASE call' = Done("fault")
    BY <1>2, <1>4, <2>0, <2>1
  <2>2. CASE call' # Done("fault")
    <3>1. /\ call.op \in {"list", "get", "ensure"}
          /\ \/ \E f : call' = [Done("ok") EXCEPT !.found = f]
             \/ \E f : call' = [Done("ok") EXCEPT !.files = f]
             \/ call' \in {Done("ok"), Done("not found"), Goto("pushTag")}
             \/ \E f : call' = [Goto("refetch") EXCEPT !.head = f]
             \/ \E f : call' = [Goto("publish") EXCEPT !.files = f]
      BY <1>6, <2>2 DEF List, Read, CheckBranch, ReadBranch, CreateTag, FetchFails, Fault
    <3>2. /\ CallKept
          /\ call'.step = "done" \/ call'.step \in {"pushTag", "refetch", "publish"}
      <4>1. CASE call' = Done("ok") \/ call' = Done("not found")
        BY <4>1, <1>k
      <4>2. CASE call' = Goto("pushTag")
        BY <4>2, <1>g DEF CallKept
      <4>3. CASE \E f : \/ call' = [Done("ok") EXCEPT !.found = f]
                       \/ call' = [Done("ok") EXCEPT !.files = f]
        BY <4>3 DEF CallKept, Done
      <4>4. CASE \E f : call' = [Goto("refetch") EXCEPT !.head = f]
        <5>1. PICK f : call' = [Goto("refetch") EXCEPT !.head = f]
          BY <4>4
        <5> QED BY <1>0, <5>1, CallParts DEF CallKept
      <4>5. CASE \E f : call' = [Goto("publish") EXCEPT !.files = f]
        <5>1. PICK f : call' = [Goto("publish") EXCEPT !.files = f]
          BY <4>5
        <5> QED BY <1>0, <5>1, CallParts DEF CallKept
      <4> QED BY <3>1, <4>1, <4>2, <4>3, <4>4, <4>5
    <3>3. CallTold'
      BY <1>3, <3>1, <3>2
    <3> QED BY <1>2, <2>0, <3>2, <3>3
  <2> QED BY <2>1, <2>2
<1>7. CASE CommitWorkspace
  <2>0. call.op = "upsert"
    BY <1>7 DEF CommitWorkspace
  <2>1. \/ remote' = remote
        \/ remote' = IF call.rev # 0 THEN SetMain(remote, new) ELSE SetBranch(remote, call.pr, new)
    BY <1>7 DEF CommitWorkspace, PushDone, PushFails, new
  <2>2. BranchesKept /\ ReleasesKeptBut
    <3>1. /\ remote'.branch \in {remote.branch, [remote.branch EXCEPT ![call.pr] = new]}
          /\ remote'.tag = remote.tag
      BY <2>1, <1>r
    <3> QED BY <1>0, <3>1 DEF BranchesKept, ReleasesKeptBut
  <2>3. CASE call' \in {Done("fault"), Done("not found")}
    <3>1. CASE call' = Done("fault")
      BY <1>4, <2>2, <3>1
    <3>2. CASE call' = Done("not found")
      <4>1. CallKept /\ call'.step = "done" /\ call'.result = "not found"
        BY <1>k, <3>2
      <4> QED BY <1>3, <2>0, <2>2, <4>1
    <3> QED BY <2>3, <3>1, <3>2
  <2>4. CASE call' \notin {Done("fault"), Done("not found")}
    <3>1. /\ call' = Done("ok")
          /\ remote' = IF call.rev # 0 THEN SetMain(remote, new) ELSE SetBranch(remote, call.pr, new)
      BY <1>7, <2>4 DEF CommitWorkspace, PushDone, PushFails, Fault, new
    <3>2. CallKept /\ call'.step = "done" /\ call'.result = "ok"
      BY <1>k, <3>1
    <3>3. call.rev = 0 => remote'.branch[call.pr] # NoRef
      <4>1. SUFFICES ASSUME call.rev = 0
                     PROVE  remote'.branch[call.pr] # NoRef
        OBVIOUS
      <4>2. remote'.branch = [remote.branch EXCEPT ![call.pr] = new]
        BY <3>1, <4>1, <1>r
      <4> QED BY <1>0, <4>2
    <3>4. CallTold'
      BY <2>0, <3>2, <3>3 DEF CallTold, CallKept
    <3> QED BY <2>2, <3>2, <3>4
  <2> QED BY <2>3, <2>4
<1>8. CASE CommitToMain
  <2>1. remote' = remote \/ remote' = SetMain(remote, new)
    BY <1>8 DEF CommitToMain, PushDone, PushFails, new
  <2>2. BranchesKept /\ ReleasesKeptBut
    <3>1. remote'.branch = remote.branch /\ remote'.tag = remote.tag
      BY <2>1, <1>r
    <3> QED BY <3>1 DEF BranchesKept, ReleasesKeptBut
  <2>3. call' = Done("fault") \/ call' = [Goto("createTag") EXCEPT !.commit = new]
    BY <1>8 DEF CommitToMain, PushDone, PushFails, Fault, new
  <2>4. CASE call' = [Goto("createTag") EXCEPT !.commit = new]
    <3>1. CallKept /\ call'.step = "createTag"
      BY <1>0, <2>4, CallParts DEF CallKept
    <3> QED BY <1>3, <2>2, <3>1
  <2> QED BY <1>4, <2>2, <2>3, <2>4
<1>9. CASE PushTag
  <2>0. call.commit # NoRef /\ own \in TagNames
    <3>1. call.op = "ensure" /\ call.step = "pushTag" /\ call.rev \in Revs
      BY <1>0, <1>9 DEF PushTag, CallShape
    <3> QED BY <1>0, <3>1 DEF CallShape, own, Tag, TagNames
  <2>1. remote' = remote \/ remote' = SetTag(remote, own, call.commit)
    BY <1>9 DEF PushTag, PushDone, PushFails, own
  <2>2. BranchesKept /\ ReleasesKeptBut
    <3>1. /\ remote'.branch = remote.branch
          /\ remote'.tag \in {remote.tag, [remote.tag EXCEPT ![own] = call.commit]}
      BY <2>1, <1>r
    <3> QED BY <1>0, <2>0, <3>1 DEF BranchesKept, ReleasesKeptBut
  <2>3. CASE call' # Done("fault")
    <3>1. remote' = SetTag(remote, own, call.commit) /\ call' = Goto("deleteBranch")
      BY <1>9, <2>3 DEF PushTag, PushDone, PushFails, Fault, own
    <3>2. CallKept /\ call'.step = "deleteBranch"
      BY <1>g, <1>d, <3>1 DEF CallKept
    <3>3. remote'.tag[own] # NoRef
      <4>1. remote'.tag = [remote.tag EXCEPT ![own] = call.commit]
        BY <3>1, <1>r
      <4> QED BY <1>0, <2>0, <4>1
    <3>4. CallTold'
      BY <3>2, <3>3 DEF CallTold, CallKept, own
    <3> QED BY <2>2, <3>2, <3>4
  <2> QED BY <1>4, <2>2, <2>3
<1>10. CASE DeleteBranch
  <2>0. call.op = "ensure" /\ call.step = "deleteBranch"
    BY <1>10 DEF DeleteBranch
  <2>1. remote' = remote \/ remote' = SetBranch(remote, call.pr, NoRef)
    BY <1>10 DEF DeleteBranch, DeleteRef, PushDone, PushFails
  <2>2. BranchesKept /\ ReleasesKeptBut
    <3>1. /\ remote'.branch \in {remote.branch, [remote.branch EXCEPT ![call.pr] = NoRef]}
          /\ remote'.tag = remote.tag
      BY <2>1, <1>r
    <3> QED BY <1>0, <1>1, <2>0, <3>1 DEF BranchesKept, ReleasesKeptBut, own
  <2>3. call' \in {Done("stale"), Done("ok"), Done("fault")}
    BY <1>10 DEF DeleteBranch, DeleteRef, PushDone, PushFails, Fault
  <2>4. CallKept /\ call'.step = "done"
    BY <1>k, <2>3
  <2> QED BY <1>3, <2>0, <2>2, <2>4
<1>11. CASE DeleteDraft
  <2>0. call.op = "delete" /\ call.step = "delete" /\ call.rev = 0
    BY <1>11 DEF DeleteDraft
  <2>1. remote' = remote \/ remote' = SetBranch(remote, call.pr, NoRef)
    BY <1>11 DEF DeleteDraft, DeleteRef, PushDone, PushFails
  <2>2. BranchesKept /\ ReleasesKeptBut
    <3>1. /\ remote'.branch \in {remote.branch, [remote.branch EXCEPT ![call.pr] = NoRef]}
          /\ remote'.tag = remote.tag
      BY <2>1, <1>r
    <3> QED BY <1>0, <2>0, <3>1 DEF BranchesKept, ReleasesKeptBut
  <2>3. \/ call' \in {Done("stale"), Done("fault")}
        \/ call' = Done("not found") /\ local.branch[call.pr] = NoRef /\ remote' = remote
        \/ call' = Done("ok") /\ remote' = SetBranch(remote, call.pr, NoRef)
    BY <1>11 DEF DeleteDraft, DeleteRef, PushDone, PushFails, Fault
  <2>4. CASE call' \in {Done("stale"), Done("fault")}
    <3>1. CallKept /\ call'.step = "done" /\ call'.result \in {"stale", "fault"}
      BY <1>k, <2>4
    <3> QED BY <1>3, <2>2, <3>1
  <2>5. CASE call' \notin {Done("stale"), Done("fault")}
    <3>1. CallKept /\ call'.step = "done"
      BY <1>k, <2>3, <2>5
    <3>2. remote'.branch[call.pr] = NoRef
      <4>1. CASE remote' = remote /\ local.branch[call.pr] = NoRef
        BY <1>1, <2>0, <4>1
      <4>2. CASE remote' = SetBranch(remote, call.pr, NoRef)
        <5>1. remote'.branch = [remote.branch EXCEPT ![call.pr] = NoRef]
          BY <4>2, <1>r
        <5> QED BY <1>0, <5>1
      <4> QED BY <2>3, <2>5, <4>1, <4>2
    <3>3. CallTold'
      BY <2>0, <3>1, <3>2 DEF CallTold, CallKept, Cleaned
    <3> QED BY <2>2, <3>1, <3>3
  <2> QED BY <2>4, <2>5
<1>12. CASE DeleteTag
  <2>0. call.op = "delete" /\ call.step = "delete" /\ call.rev # 0 /\ own \in TagNames
    <3>1. call.op = "delete" /\ call.step = "delete" /\ call.rev # 0
      BY <1>12 DEF DeleteTag
    <3>2. call.rev \in Revs
      BY <1>0, <3>1 DEF GitTypeOK, Calls, Revs
    <3> QED BY <1>0, <3>1, <3>2 DEF own, Tag, TagNames
  <2>1. remote' = remote \/ remote' = SetTag(remote, own, NoRef)
    BY <1>12 DEF DeleteTag, DeleteRef, PushDone, PushFails, own
  <2>2. BranchesKept /\ ReleasesKeptBut
    <3>1. /\ remote'.branch = remote.branch
          /\ remote'.tag \in {remote.tag, [remote.tag EXCEPT ![own] = NoRef]}
      BY <2>1, <1>r
    <3> QED BY <1>0, <2>0, <3>1 DEF BranchesKept, ReleasesKeptBut, own
  <2>3. \/ call' \in {Done("stale"), Done("fault")}
        \/ call' = Done("ok") /\ local.tag[own] = NoRef /\ remote' = remote
        \/ call' = Done("ok") /\ remote' = SetTag(remote, own, NoRef)
    BY <1>12 DEF DeleteTag, DeleteRef, PushDone, PushFails, Fault, own
  <2>4. CASE call' \in {Done("stale"), Done("fault")}
    <3>1. CallKept /\ call'.step = "done" /\ call'.result \in {"stale", "fault"}
      BY <1>k, <2>4
    <3> QED BY <1>3, <2>2, <3>1
  <2>5. CASE call' \notin {Done("stale"), Done("fault")}
    <3>1. CallKept /\ call'.step = "done"
      BY <1>k, <2>3, <2>5
    <3>2. remote'.tag[own] = NoRef
      <4>1. CASE remote' = remote /\ local.tag[own] = NoRef
        BY <1>0, <2>0, <4>1 DEF TagsKnown
      <4>2. CASE remote' = SetTag(remote, own, NoRef)
        <5>1. remote'.tag = [remote.tag EXCEPT ![own] = NoRef]
          BY <4>2, <1>r
        <5> QED BY <1>0, <2>0, <5>1
      <4> QED BY <2>3, <2>5, <4>1, <4>2
    <3>3. CallTold'
      BY <2>0, <3>1, <3>2 DEF CallTold, CallKept, Cleaned, own
    <3> QED BY <2>2, <3>1, <3>3
  <2> QED BY <2>4, <2>5
<1> QED BY <1>5, <1>6, <1>7, <1>8, <1>9, <1>10, <1>11, <1>12 DEF CallStep

----------------------------------------------------------------------------
(* Who holds an object, and what git then has of it. *)

(* The first readiness gate is not the approval, which could be given before *)
(* anything holds the object; users publish nothing themselves.              *)
ApproveNotFirst ==
  \A pr \in PRs : 1 \in DOMAIN GatesOf[pr] => GatesOf[pr][1] # "approve"
UsersOnlyRetire == \A move \in UserMoves : move[2] # "published"

(* The packagerevision controller is the first to hold an object and the     *)
(* last to let it go.                                                        *)
FirstHeld(o) ==
  /\ o.fins # {} \/ o.conds # {} => "revision" \in o.fins
  /\ o.deleting => o.fins # {}
LetGo(o, fins) == o.fins = {} \/ (o.deleting /\ o.fins \subseteq fins)
RevisionHeld(k, o) ==
  k.step # "idle" =>
    IF k.request.op = "delete"
    THEN k.cr.deleting /\ k.cr.fins = {"revision"} /\ LetGo(o, {"revision"})
    ELSE ~ k.cr.deleting /\ "revision" \in k.cr.fins
ProcessorHeld(k) == k.step # "idle" /\ ~ k.cr.deleting => "processor" \in k.cr.fins

HeldInv ==
  /\ \A pr \in PRs :
       /\ FirstHeld(store[pr]) /\ FirstHeld(Current(pr))
       /\ Current(pr).deleting => LetGo(store[pr], Current(pr).fins)
  /\ RevisionHeld(work["revision"], store[work["revision"].pr])
  /\ ProcessorHeld(work["processor"])

(* An object that has passed a gate has been written to git.                 *)
Claimed(o) ==
  \/ o.lifecycle = "published"
  \/ o.lifecycle # "deletionProposed" /\ ~ o.deleting /\ o.conds \cap Gates # {}
(* A held copy in the cache is an earlier state of the same object, and no   *)
(* other package revision has its revision.                                  *)
SeenRight(pr) ==
  LET c == Current(pr)
  IN  /\ ~ c.deleting /\ "revision" \in c.fins =>
           "revision" \in store[pr].fins /\ (c.rev # 0 => store[pr].rev = c.rev)
      /\ c.deleting /\ c.lifecycle # "published" => store[pr].lifecycle # "published"
Apart(pr, rev) ==
  \A p \in PRs : p # pr /\ PkgOf[p] = PkgOf[pr] /\ store[p].rev # 0 => store[p].rev # rev
RevisionRooted(k) ==
  k.step # "idle" =>
    IF k.request.op = "delete"
    THEN /\ Current(k.pr).deleting \/ Current(k.pr).fins = {}
         /\ store[k.pr].lifecycle # "published"
         /\ Apart(k.pr, k.request.rev)
    ELSE /\ "revision" \in store[k.pr].fins
         /\ k.request.rev # 0 => store[k.pr].rev = k.request.rev

RootedInv ==
  /\ \A pr \in PRs :
       /\ Claimed(store[pr]) => OnRemote(pr)
       /\ store[pr].lifecycle = "published" => "revision" \in store[pr].fins
       /\ SeenRight(pr) /\ Apart(pr, Current(pr).rev)
  /\ RevisionRooted(work["revision"])

(* A write of o by worker w, which goes on as next: what it may do to the    *)
(* revision, to those who hold the object, and to what git has of it.        *)
NumberWrite(pr, o, w, next) ==
  \/ o.rev \in {0, store[pr].rev}
  \/ /\ w = "revision" /\ next.step = "idle"
     /\ \A q \in PRs : PkgOf[q] = PkgOf[pr] => Current(q).rev < o.rev
HeldWrite(pr, o, w, next) ==
  /\ FirstHeld(o)
  /\ \/ \A fins : LetGo(store[pr], fins) => LetGo(o, fins)
     \/ w = "revision" /\ ~ store[pr].deleting /\ Current(pr) = store[pr]
  /\ w = "revision" => RevisionHeld(next, o)
  /\ w = "processor" => ProcessorHeld(next)
RootedWrite(pr, o, w, next) ==
  /\ "revision" \in store[pr].fins =>
       \/ "revision" \in o.fins
       \/ /\ w = "revision" /\ work["revision"].step # "idle"
          /\ work["revision"].pr = pr /\ work["revision"].request.op = "delete"
       \/ w = "revision" /\ Current(pr).deleting
  /\ o.lifecycle = "published" =>
       /\ "revision" \in o.fins
       /\ \/ store[pr].lifecycle = "published"
          \/ Current(pr) = store[pr] /\ ~ store[pr].deleting /\ store[pr].conds # {}
  /\ Claimed(o) => Claimed(store[pr]) \/ OnRemote(pr)
  /\ w = "revision" /\ next.step # "idle" =>
       IF next.request.op = "delete"
       THEN /\ o = store[pr] /\ Current(pr).deleting /\ o.lifecycle # "published"
            /\ Apart(pr, next.request.rev)
       ELSE /\ "revision" \in o.fins
            /\ next.request.rev # 0 => o.rev = next.request.rev

Write(pr, o, w, next) ==
  /\ pr \in PRs /\ Written(pr, o, w, next) /\ cache' = cache
  /\ w \in Workers => Asked(w, next) /\ (next.step # "idle" => next.pr = pr)
  /\ NumberWrite(pr, o, w, next)
  /\ AskedInv /\ "revision" \in store[pr].fins /\ ~ Exists(o) =>
       Cleaned(pr, store[pr].rev) \/ RevisionGivesUp(pr)
  /\ ApproveNotFirst /\ AskedInv /\ HeldInv =>
       /\ HeldWrite(pr, o, w, next)
       /\ UsersOnlyRetire /\ RootedInv => RootedWrite(pr, o, w, next)

(* What a step keeps.                                                        *)
Keeps ==
  /\ AskedInv =>
       /\ AskedInv'
       /\ \A pr \in PRs : "revision" \in store[pr].fins /\ ~ Exists(store'[pr]) =>
            Cleaned(pr, store[pr].rev) \/ RevisionGivesUp(pr)
  /\ ~ CacheLag /\ RevisionsUnique => RevisionsUnique'
  /\ ApproveNotFirst /\ AskedInv /\ HeldInv =>
       /\ HeldInv'
       /\ UsersOnlyRetire /\ RootedInv /\ RevisionsUnique' => RootedInv'

LEMMA WrittenAt ==
  ASSUME PackagesInv, NEW pr \in PRs, NEW o, NEW w, NEW next, Written(pr, o, w, next)
  PROVE  /\ \A q \in PRs : store'[q] = IF q = pr THEN o ELSE store[q]
         /\ w \in Workers => work'[w] = next
         /\ \A v \in Workers : v # w =>
              /\ work'[v].step = work[v].step /\ work'[v].pr = work[v].pr
              /\ work'[v].cr = work[v].cr /\ work'[v].request = work[v].request
<1>1. /\ store \in [PRs -> Stored] /\ work \in [Workers -> Work]
      /\ store' = [store EXCEPT ![pr] = o] /\ work' = WorkAfter(pr, o, w, next)
  BY DEF PackagesInv, TypeOK, Written, Changed
<1>2. \A v \in Workers : work'[v] \in {work[v], [work[v] EXCEPT !.fresh = FALSE]} \/ v = w
  BY <1>1 DEF WorkAfter
<1>3. \A v \in Workers : v # w =>
        /\ work'[v].step = work[v].step /\ work'[v].pr = work[v].pr
        /\ work'[v].cr = work[v].cr /\ work'[v].request = work[v].request
  BY <1>1, <1>2 DEF Work
<1>4. w \in Workers => work'[w] = next
  BY <1>1 DEF WorkAfter
<1> QED BY <1>1, <1>3, <1>4

(* Git and the holder stay; or a worker takes its answer.                    *)
LEMMA AskedStays ==
  ASSUME AskedInv, UNCHANGED <<remote, local, call, holder>>,
         \A v \in Workers : /\ Asked(v, work'[v])
                            /\ holder = v => work'[v].request = work[v].request
  PROVE  AskedInv'
<1>1. CallTold'
  BY DEF AskedInv, CallTold, Cleaned, Tag
<1>2. CallAsked'
  BY DEF AskedInv, CallAsked
<1>3. \A v \in Workers : Asked(v, work[v])'
  BY DEF Asked
<1> QED BY <1>1, <1>2, <1>3 DEF AskedInv

LEMMA AskedIdles ==
  ASSUME call' = Idle, holder' = "none", \A v \in Workers : Asked(v, work'[v])
  PROVE  AskedInv'
<1>1. call'.step = "idle" /\ call'.op = "none" /\ "none" \notin Workers
  BY DEF Idle, Workers
<1>2. CallTold' /\ CallAsked'
  BY <1>1 DEF CallTold, CallAsked
<1>3. \A v \in Workers : Asked(v, work[v])'
  BY DEF Asked
<1> QED BY <1>2, <1>3 DEF AskedInv

(* Where git is while a worker writes.                                       *)
Aside(w) ==
  \/ UNCHANGED <<remote, local, call, holder>> /\ (w \in Workers => holder # w)
  \/ w \in Workers /\ Answered(w)

LEMMA WriteAsked ==
  ASSUME PackagesInv, AskedInv, NEW pr, NEW o, NEW w, NEW next,
         Write(pr, o, w, next), Aside(w)
  PROVE  AskedInv'
<1>1. pr \in PRs /\ Written(pr, o, w, next) /\ (w \in Workers => Asked(w, next))
  BY DEF Write
<1>2. /\ w \in Workers => work'[w] = next
      /\ \A v \in Workers : v # w =>
           /\ work'[v].step = work[v].step /\ work'[v].cr = work[v].cr
           /\ work'[v].request = work[v].request
  BY <1>1, WrittenAt
<1>3. \A v \in Workers : Asked(v, work'[v])
  <2> SUFFICES ASSUME NEW v \in Workers PROVE Asked(v, work'[v])
    OBVIOUS
  <2>1. Asked(v, work[v])
    BY DEF AskedInv
  <2>2. CASE v = w
    BY <1>1, <1>2, <2>2
  <2>3. CASE v # w
    BY <1>2, <2>1, <2>3 DEF Asked
  <2> QED BY <2>2, <2>3
<1>4. CASE UNCHANGED <<remote, local, call, holder>> /\ (w \in Workers => holder # w)
  <2>1. \A v \in Workers : holder = v => work'[v].request = work[v].request
    BY <1>2, <1>4
  <2> QED BY <1>3, <1>4, <2>1, AskedStays
<1>5. CASE w \in Workers /\ Answered(w)
  BY <1>3, <1>5, AskedIdles DEF Answered, Return
<1> QED BY <1>4, <1>5 DEF Aside

LEMMA WriteUnique ==
  ASSUME PackagesInv, ~ CacheLag, RevisionsUnique, NEW pr, NEW o, NEW w, NEW next,
         Write(pr, o, w, next)
  PROVE  RevisionsUnique'
<1>1. pr \in PRs /\ \A q \in PRs : store'[q] = IF q = pr THEN o ELSE store[q]
  BY WrittenAt DEF Write
<1>2. \A q \in PRs : store[q].rev \in Nat
  BY StoredFacts
<1>3. \/ o.rev \in {0, store[pr].rev}
      \/ \A q \in PRs : PkgOf[q] = PkgOf[pr] => store[q].rev < o.rev
  BY DEF Write, NumberWrite, Current
<1>4. SUFFICES ASSUME NEW p \in PRs, NEW q \in PRs, p # q, PkgOf[p] = PkgOf[q],
                      store'[p].rev # 0
               PROVE  store'[p].rev # store'[q].rev
  BY DEF RevisionsUnique
<1>5. /\ store[p].rev # 0 => store[p].rev # store[q].rev
      /\ store[q].rev # 0 => store[q].rev # store[p].rev
  BY <1>4 DEF RevisionsUnique
<1>6. CASE o.rev \in {0, store[pr].rev}
  BY <1>1, <1>4, <1>5, <1>6
<1>7. CASE \A r \in PRs : PkgOf[r] = PkgOf[pr] => store[r].rev < o.rev
  <2>1. p = pr => store[q].rev < o.rev
    BY <1>4, <1>7
  <2>2. q = pr => store[p].rev < o.rev
    BY <1>4, <1>7
  <2>3. o.rev # store[p].rev \/ q # pr
    BY <1>2, <2>2
  <2>4. o.rev # store[q].rev \/ p # pr
    BY <1>2, <2>1
  <2> QED BY <1>1, <1>4, <1>5, <2>3, <2>4
<1> QED BY <1>3, <1>6, <1>7

LEMMA WriteHeld ==
  ASSUME PackagesInv, HeldInv, NEW pr, NEW o, NEW w, NEW next,
         Write(pr, o, w, next), HeldWrite(pr, o, w, next)
  PROVE  HeldInv'
<1> DEFINE s == store[pr]
<1>1. /\ pr \in PRs /\ cache' = cache
      /\ w \in Workers /\ next.step # "idle" => next.pr = pr
      /\ \A q \in PRs : store'[q] = IF q = pr THEN o ELSE store[q]
      /\ w \in Workers => work'[w] = next
      /\ \A v \in Workers : v # w =>
           /\ work'[v].step = work[v].step /\ work'[v].pr = work[v].pr
           /\ work'[v].cr = work[v].cr /\ work'[v].request = work[v].request
  BY WrittenAt DEF Write
<1>2. /\ FirstHeld(o)
      /\ \/ \A fins : LetGo(s, fins) => LetGo(o, fins)
         \/ w = "revision" /\ ~ s.deleting /\ Current(pr) = s
      /\ w = "revision" => RevisionHeld(next, o)
      /\ w = "processor" => ProcessorHeld(next)
  BY DEF HeldWrite
<1>3. ASSUME NEW q \in PRs
      PROVE  /\ FirstHeld(store'[q]) /\ FirstHeld(Current(q)')
             /\ Current(q)'.deleting => LetGo(store'[q], Current(q)'.fins)
  <2>1. /\ FirstHeld(store[q]) /\ FirstHeld(Current(q))
        /\ Current(q).deleting => LetGo(store[q], Current(q).fins)
    BY <1>3 DEF HeldInv
  <2>2. FirstHeld(store'[q])
    BY <1>1, <1>2, <2>1
  <2>3. CASE CacheLag
    <3>1. Current(q)' = Current(q)
      BY <1>1, <2>3 DEF Current
    <3>2. CASE q = pr
      BY <1>1, <1>2, <2>1, <2>2, <3>1, <3>2
    <3>3. CASE q # pr
      BY <1>1, <2>1, <2>2, <3>1, <3>3
    <3> QED BY <3>2, <3>3
  <2>4. CASE ~ CacheLag
    BY <2>2, <2>4 DEF Current, LetGo
  <2> QED BY <2>3, <2>4
<1>4. RevisionHeld(work'["revision"], store'[work'["revision"].pr])
  <2> DEFINE k == work["revision"]
  <2>0. "revision" \in Workers
    BY DEF Workers
  <2>1. CASE w = "revision"
    BY <1>1, <1>2, <2>0, <2>1 DEF RevisionHeld
  <2>2. CASE w # "revision"
    <3>1. RevisionHeld(k, store[k.pr])
      BY DEF HeldInv
    <3>2. k.step # "idle" => k.pr \in PRs
      BY <2>0, BusyParts
    <3>3. LetGo(store[k.pr], {"revision"}) => k.step = "idle" \/ LetGo(store'[k.pr], {"revision"})
      BY <1>1, <1>2, <2>2, <3>2
    <3> QED BY <1>1, <2>0, <2>2, <3>1, <3>3 DEF RevisionHeld
  <2> QED BY <2>1, <2>2
<1>5. ProcessorHeld(work'["processor"])
  <2>0. "processor" \in Workers
    BY DEF Workers
  <2>1. CASE w = "processor"
    BY <1>1, <1>2, <2>0, <2>1
  <2>2. CASE w # "processor"
    BY <1>1, <2>0, <2>2 DEF HeldInv, ProcessorHeld
  <2> QED BY <2>1, <2>2
<1> QED BY <1>3, <1>4, <1>5 DEF HeldInv

LEMMA WriteRooted ==
  ASSUME PackagesInv, PackagesInv', HeldInv, HeldInv', RootedInv, RevisionsUnique',
         NEW pr, NEW o, NEW w, NEW next, Kind(store[pr], o),
         Write(pr, o, w, next), RootedWrite(pr, o, w, next), remote' = remote
  PROVE  RootedInv'
<1> DEFINE s == store[pr]
           k == work["revision"]
<1>1. /\ pr \in PRs /\ cache' = cache
      /\ w \in Workers /\ next.step # "idle" => next.pr = pr
      /\ \A q \in PRs : store'[q] = IF q = pr THEN o ELSE store[q]
      /\ w \in Workers => work'[w] = next
      /\ \A v \in Workers : v # w =>
           /\ work'[v].step = work[v].step /\ work'[v].pr = work[v].pr
           /\ work'[v].cr = work[v].cr /\ work'[v].request = work[v].request
  BY WrittenAt DEF Write
<1>2. /\ "revision" \in s.fins =>
           \/ "revision" \in o.fins
           \/ w = "revision" /\ k.step # "idle" /\ k.pr = pr /\ k.request.op = "delete"
           \/ w = "revision" /\ Current(pr).deleting
      /\ o.lifecycle = "published" =>
           /\ "revision" \in o.fins
           /\ \/ s.lifecycle = "published"
              \/ Current(pr) = s /\ ~ s.deleting /\ s.conds # {}
      /\ Claimed(o) => Claimed(s) \/ OnRemote(pr)
      /\ w = "revision" /\ next.step # "idle" =>
           IF next.request.op = "delete"
           THEN /\ o = s /\ Current(pr).deleting /\ o.lifecycle # "published"
                /\ Apart(pr, next.request.rev)
           ELSE "revision" \in o.fins /\ (next.request.rev # 0 => o.rev = next.request.rev)
  BY DEF RootedWrite
<1>3. /\ \A q \in PRs : /\ store[q] \in Stored /\ store[q].rev \in Nat
                        /\ ~ Exists(store[q]) => store[q] = Absent
      /\ \A q \in PRs : /\ store'[q] \in Stored /\ store'[q].rev \in Nat
                        /\ ~ Exists(store'[q]) => store'[q] = Absent
  <2>1. PackagesInv => \A q \in PRs : /\ store[q] \in Stored /\ store[q].rev \in Nat
                                      /\ ~ Exists(store[q]) => store[q] = Absent
    <3> SUFFICES ASSUME PackagesInv, NEW q \in PRs
                 PROVE  /\ store[q] \in Stored /\ store[q].rev \in Nat
                        /\ ~ Exists(store[q]) => store[q] = Absent
      OBVIOUS
    <3>1. store[q] \in Stored
      BY DEF PackagesInv, TypeOK
    <3> QED BY <3>1, StoredParts
  <2>2. (PackagesInv => \A q \in PRs : /\ store[q] \in Stored /\ store[q].rev \in Nat
                                       /\ ~ Exists(store[q]) => store[q] = Absent)'
    <3> SUFFICES ASSUME PackagesInv', NEW q \in PRs
                 PROVE  /\ store'[q] \in Stored /\ store'[q].rev \in Nat
                        /\ ~ Exists(store'[q]) => store'[q] = Absent
      OBVIOUS
    <3>1. store'[q] \in Stored
      BY DEF PackagesInv, TypeOK
    <3> QED BY <3>1, StoredParts
  <2> QED BY <2>1, <2>2
<1>4. /\ ~ Exists(Absent) /\ Absent.rev = 0 /\ Absent.fins = {} /\ ~ Claimed(Absent)
      /\ Absent.lifecycle # "published"
  BY DEF Absent, Exists, Claimed
<1>5. s.rev # 0 /\ o # Absent => o.rev = s.rev
  BY <1>1, <1>3, <1>4 DEF Kind
<1>6. \A q \in PRs : Claimed(store'[q]) => OnRemote(q)'
  <2> SUFFICES ASSUME NEW q \in PRs, Claimed(store'[q]) PROVE OnRemote(q)'
    OBVIOUS
  <2>1. Claimed(store[q]) => OnRemote(q)
    BY DEF RootedInv
  <2>2. CASE q = pr
    <3>1. OnRemote(pr) /\ o # Absent
      BY <1>1, <1>2, <1>4, <2>1, <2>2
    <3> QED BY <1>1, <1>5, <2>2, <3>1 DEF OnRemote, Tag
  <2>3. CASE q # pr
    BY <1>1, <2>1, <2>3 DEF OnRemote, Tag
  <2> QED BY <2>2, <2>3
<1>7. \A q \in PRs : store'[q].lifecycle = "published" => "revision" \in store'[q].fins
  BY <1>1, <1>2 DEF RootedInv
<1>8. \A q \in PRs : SeenRight(q)'
  <2> SUFFICES ASSUME NEW q \in PRs PROVE SeenRight(q)'
    OBVIOUS
  <2>1. CASE ~ CacheLag
    BY <2>1 DEF SeenRight, Current
  <2>2. CASE CacheLag
    <3>1. Current(q)' = Current(q) /\ SeenRight(q)
      BY <1>1, <2>2 DEF Current, RootedInv
    <3>2. CASE q # pr
      BY <1>1, <3>1, <3>2 DEF SeenRight
    <3>3. CASE q = pr
      <4> DEFINE c == Current(pr)
      <4>1. ~ c.deleting /\ "revision" \in c.fins => "revision" \in o.fins
        <5>1. SUFFICES ASSUME ~ c.deleting, "revision" \in c.fins, "revision" \notin o.fins
                       PROVE  FALSE
          OBVIOUS
        <5>2. "revision" \in s.fins
          BY <3>1, <3>3, <5>1 DEF SeenRight
        <5>3. k.step # "idle" /\ k.pr = pr /\ k.request.op = "delete"
          BY <1>2, <5>1, <5>2
        <5>4. c.deleting \/ c.fins = {}
          BY <5>3 DEF RootedInv, RevisionRooted
        <5> QED BY <5>1, <5>4
      <4>2. ~ c.deleting /\ "revision" \in c.fins /\ c.rev # 0 => o.rev = c.rev
        <5>1. SUFFICES ASSUME ~ c.deleting, "revision" \in c.fins, c.rev # 0
                       PROVE  o.rev = c.rev
          OBVIOUS
        <5>2. s.rev = c.rev
          BY <3>1, <3>3, <5>1 DEF SeenRight
        <5>3. o # Absent
          BY <1>4, <4>1, <5>1
        <5> QED BY <1>5, <5>1, <5>2, <5>3
      <4>3. c.deleting /\ c.lifecycle # "published" => o.lifecycle # "published"
        BY <1>2, <3>1, <3>3 DEF SeenRight
      <4> QED BY <1>1, <3>1, <3>3, <4>1, <4>2, <4>3 DEF SeenRight
    <3> QED BY <3>2, <3>3
  <2> QED BY <2>1, <2>2
<1>9. \A q \in PRs : Apart(q, Current(q).rev)'
  <2> SUFFICES ASSUME NEW q \in PRs PROVE Apart(q, Current(q).rev)'
    OBVIOUS
  <2>1. CASE ~ CacheLag
    <3>1. Current(q)' = store'[q]
      BY <2>1 DEF Current
    <3> QED BY <3>1 DEF Apart, RevisionsUnique
  <2>2. CASE CacheLag
    <3>1. Current(q)' = Current(q) /\ Apart(q, Current(q).rev)
      BY <1>1, <2>2 DEF Current, RootedInv
    <3>2. SUFFICES ASSUME NEW p \in PRs, p # q, PkgOf[p] = PkgOf[q], store'[p].rev # 0
                   PROVE  store'[p].rev # Current(q).rev
      BY <3>1 DEF Apart
    <3>3. store[p].rev # 0 => store[p].rev # Current(q).rev
      BY <3>1, <3>2 DEF Apart
    <3>4. CASE o.rev \in {0, s.rev}
      BY <1>1, <3>2, <3>3, <3>4
    <3>5. CASE \A r \in PRs : PkgOf[r] = PkgOf[pr] => Current(r).rev < o.rev
      <4>1. CASE p = pr
        <5>1. Current(q).rev < o.rev /\ o.rev \in Nat
          BY <1>1, <1>3, <3>2, <3>5, <4>1
        <5>2. CASE Current(q).rev = o.rev
          BY <5>1, <5>2
        <5> QED BY <1>1, <4>1, <5>2
      <4>2. CASE p # pr
        BY <1>1, <3>2, <3>3, <4>2
      <4> QED BY <4>1, <4>2
    <3> QED BY <3>4, <3>5 DEF Write, NumberWrite
  <2> QED BY <2>1, <2>2
<1>10. RevisionRooted(work["revision"])'
  <2>0. "revision" \in Workers
    BY DEF Workers
  <2>1. CASE w = "revision"
    <3>1. work'["revision"] = next
      BY <1>1, <2>0, <2>1
    <3>2. CASE next.step = "idle"
      BY <3>1, <3>2 DEF RevisionRooted
    <3>3. CASE next.step # "idle" /\ next.request.op = "delete"
      <4>1. /\ o = s /\ next.pr = pr /\ Current(pr).deleting /\ o.lifecycle # "published"
            /\ Apart(pr, next.request.rev)
        BY <1>1, <1>2, <2>0, <2>1, <3>3
      <4>2. \A q \in PRs : store'[q] = store[q]
        BY <1>1, <4>1
      <4>3. Current(pr)' = Current(pr)
        BY <1>1, <4>2 DEF Current
      <4>4. Apart(pr, next.request.rev)'
        BY <3>1, <4>1, <4>2 DEF Apart
      <4> QED BY <1>1, <3>1, <3>3, <4>1, <4>2, <4>3, <4>4 DEF RevisionRooted
    <3>4. CASE next.step # "idle" /\ next.request.op # "delete"
      BY <1>1, <1>2, <2>0, <2>1, <3>1, <3>4 DEF RevisionRooted
    <3> QED BY <3>2, <3>3, <3>4
  <2>2. CASE w # "revision"
    <3>0. /\ work'["revision"].step = k.step /\ work'["revision"].pr = k.pr
          /\ work'["revision"].request = k.request /\ work'["revision"].cr = k.cr
          /\ o.rev \in {0, s.rev}
      BY <1>1, <2>0, <2>2 DEF Write, NumberWrite
    <3>1. SUFFICES ASSUME k.step # "idle" PROVE RevisionRooted(work["revision"])'
      BY <3>0 DEF RevisionRooted
    <3>2. k.pr \in PRs /\ RevisionRooted(k)
      BY <2>0, <3>1, BusyParts DEF RootedInv
    <3>3. CASE k.request.op # "delete"
      <4>1. "revision" \in store[k.pr].fins /\ (k.request.rev # 0 => store[k.pr].rev = k.request.rev)
        BY <3>1, <3>2, <3>3 DEF RevisionRooted
      <4>2. "revision" \in store'[k.pr].fins /\ (k.pr = pr => o # Absent)
        BY <1>1, <1>2, <1>4, <2>2, <3>2, <4>1
      <4>3. k.request.rev # 0 => store'[k.pr].rev = k.request.rev
        BY <1>1, <1>5, <3>2, <4>1, <4>2
      <4> QED BY <3>0, <3>3, <4>2, <4>3 DEF RevisionRooted
    <3>4. CASE k.request.op = "delete"
      <4>1. /\ Current(k.pr).deleting \/ Current(k.pr).fins = {}
            /\ store[k.pr].lifecycle # "published" /\ Apart(k.pr, k.request.rev)
        BY <3>1, <3>2, <3>4 DEF RevisionRooted
      <4>2. LetGo(store[k.pr], {"revision"}) /\ LetGo(store'[k.pr], {"revision"})
        BY <3>0, <3>1, <3>4 DEF HeldInv, RevisionHeld
      <4>3. Current(k.pr)'.deleting \/ Current(k.pr)'.fins = {}
        BY <1>1, <3>0, <4>1, <4>2 DEF Current, LetGo
      <4>4. store'[k.pr].lifecycle # "published"
        <5>1. CASE k.pr = pr
          <6>1. ~ s.deleting => s.conds = {}
            BY <3>2, <4>2, <5>1 DEF HeldInv, FirstHeld, LetGo
          <6> QED BY <1>1, <1>2, <4>1, <5>1, <6>1
        <5>2. CASE k.pr # pr
          BY <1>1, <3>2, <4>1, <5>2
        <5> QED BY <5>1, <5>2
      <4>5. Apart(k.pr, k.request.rev)'
        <5>1. \A p \in PRs : store'[p].rev \in {0, store[p].rev}
          BY <1>1, <3>0
        <5> QED BY <3>0, <4>1, <5>1 DEF Apart
      <4> QED BY <3>0, <3>4, <4>3, <4>4, <4>5 DEF RevisionRooted
    <3> QED BY <3>3, <3>4
  <2> QED BY <2>1, <2>2
<1> QED BY <1>6, <1>7, <1>8, <1>9, <1>10 DEF RootedInv

LEMMA WriteKeeps ==
  ASSUME PackagesInv, Follows, NEW pr, NEW o, NEW w, NEW next,
         Write(pr, o, w, next), Aside(w)
  PROVE  Keeps
<1>1. pr \in PRs /\ \A q \in PRs : store'[q] = IF q = pr THEN o ELSE store[q]
  BY WrittenAt DEF Write
<1>2. AskedInv => AskedInv'
  BY WriteAsked
<1>3. AskedInv => \A q \in PRs : "revision" \in store[q].fins /\ ~ Exists(store'[q]) =>
        Cleaned(q, store[q].rev) \/ RevisionGivesUp(q)
  <2> SUFFICES ASSUME AskedInv, NEW q \in PRs, "revision" \in store[q].fins, ~ Exists(store'[q])
               PROVE  Cleaned(q, store[q].rev) \/ RevisionGivesUp(q)
    OBVIOUS
  <2>1. CASE q = pr
    BY <1>1, <2>1 DEF Write
  <2>2. CASE q # pr
    BY <1>1, <2>2, StoredFacts DEF Absent
  <2> QED BY <2>1, <2>2
<1>4. ~ CacheLag /\ RevisionsUnique => RevisionsUnique'
  BY WriteUnique
<1>5. ASSUME ApproveNotFirst, AskedInv, HeldInv PROVE HeldInv'
  <2>1. HeldWrite(pr, o, w, next)
    BY <1>5 DEF Write
  <2> QED BY <1>5, <2>1, WriteHeld
<1>6. ASSUME ApproveNotFirst, AskedInv, HeldInv, UsersOnlyRetire, RootedInv, RevisionsUnique'
      PROVE  RootedInv'
  <2>1. RootedWrite(pr, o, w, next) /\ Kind(store[pr], o) /\ PackagesInv'
    BY <1>1, <1>6 DEF Write, Follows
  <2>2. remote' = remote
    BY DEF Aside, Answered, Return
  <2> QED BY <1>5, <1>6, <2>1, <2>2, WriteRooted
<1> QED BY <1>2, <1>3, <1>4, <1>5, <1>6 DEF Keeps

(* A step that writes no object: copies in the cache may get younger, and    *)
(* the workers end their work or go on with it.                              *)
GoesOnWith(k, next) ==
  next.step # "idle" =>
    k.step # "idle" /\ next.pr = k.pr /\ next.cr = k.cr /\ next.request = k.request

LEMMA QuietKeeps ==
  ASSUME PackagesInv, store' = store, AskedInv => AskedInv',
         \A q \in PRs : Current(q)' = Current(q) \/ Current(q)' = store[q],
         GoesOnWith(work["revision"], work'["revision"]),
         work'["processor"].step # "idle" =>
           work["processor"].step # "idle" /\ work'["processor"].cr = work["processor"].cr,
         AskedInv /\ HeldInv /\ RootedInv =>
           \A q \in PRs : Claimed(store[q]) /\ OnRemote(q) => OnRemote(q)'
  PROVE  Keeps
<1> DEFINE k == work["revision"]
<1>1. \A q \in PRs : "revision" \in store[q].fins => Exists(store'[q])
  BY StoredFacts DEF Absent
<1>2. RevisionsUnique => RevisionsUnique'
  BY DEF RevisionsUnique
<1>3. ASSUME HeldInv PROVE HeldInv'
  <2>1. ASSUME NEW q \in PRs
        PROVE  /\ FirstHeld(store'[q]) /\ FirstHeld(Current(q)')
               /\ Current(q)'.deleting => LetGo(store'[q], Current(q)'.fins)
    <3>1. /\ FirstHeld(store[q]) /\ FirstHeld(Current(q))
          /\ Current(q).deleting => LetGo(store[q], Current(q).fins)
      BY <1>3 DEF HeldInv
    <3>2. CASE Current(q)' = Current(q)
      BY <3>1, <3>2
    <3>3. CASE Current(q)' = store[q]
      BY <3>1, <3>3 DEF LetGo
    <3> QED BY <2>1, <3>2, <3>3
  <2>2. RevisionHeld(work'["revision"], store'[work'["revision"].pr])
    BY <1>3 DEF HeldInv, RevisionHeld, GoesOnWith
  <2>3. ProcessorHeld(work'["processor"])
    BY <1>3 DEF HeldInv, ProcessorHeld
  <2> QED BY <2>1, <2>2, <2>3 DEF HeldInv
<1>4. ASSUME AskedInv, HeldInv, RootedInv, RevisionsUnique' PROVE RootedInv'
  <2>1. ASSUME NEW q \in PRs
        PROVE  /\ Claimed(store'[q]) => OnRemote(q)'
               /\ store'[q].lifecycle = "published" => "revision" \in store'[q].fins
               /\ SeenRight(q)' /\ Apart(q, Current(q).rev)'
    <3>1. /\ Claimed(store[q]) => OnRemote(q)
          /\ store[q].lifecycle = "published" => "revision" \in store[q].fins
          /\ SeenRight(q) /\ Apart(q, Current(q).rev)
      BY <1>4 DEF RootedInv
    <3>2. Claimed(store'[q]) => OnRemote(q)'
      BY <1>4, <2>1, <3>1
    <3>3. CASE Current(q)' = Current(q)
      BY <3>1, <3>2, <3>3 DEF SeenRight, Apart
    <3>4. CASE Current(q)' = store[q]
      <4>1. SeenRight(q)'
        BY <3>4 DEF SeenRight
      <4>2. Apart(q, Current(q).rev)'
        BY <1>4, <3>4 DEF Apart, RevisionsUnique
      <4> QED BY <3>1, <3>2, <4>1, <4>2
    <3> QED BY <2>1, <3>3, <3>4
  <2>2. RevisionRooted(work["revision"])'
    <3>1. SUFFICES ASSUME work'["revision"].step # "idle" PROVE RevisionRooted(work["revision"])'
      BY DEF RevisionRooted
    <3>2. /\ k.step # "idle" /\ work'["revision"].pr = k.pr /\ work'["revision"].cr = k.cr
          /\ work'["revision"].request = k.request /\ RevisionRooted(k)
      BY <1>4, <3>1 DEF GoesOnWith, RootedInv
    <3>3. k.pr \in PRs
      BY <3>2, BusyParts DEF Workers
    <3>4. CASE k.request.op # "delete"
      BY <3>2, <3>4 DEF RevisionRooted
    <3>5. CASE k.request.op = "delete"
      <4>1. /\ Current(k.pr).deleting \/ Current(k.pr).fins = {}
            /\ store[k.pr].lifecycle # "published" /\ Apart(k.pr, k.request.rev)
        BY <3>2, <3>5 DEF RevisionRooted
      <4>2. store[k.pr].deleting \/ store[k.pr].fins = {}
        BY <1>4, <3>2, <3>5 DEF HeldInv, RevisionHeld, LetGo
      <4>3. Current(k.pr)'.deleting \/ Current(k.pr)'.fins = {}
        <5>1. PICK q \in PRs : q = k.pr
          BY <3>3
        <5>2. Current(q)'.deleting \/ Current(q)'.fins = {}
          BY <4>1, <4>2, <5>1
        <5>3. Current(k.pr)' = Current(q)'
          BY <3>2, <5>1 DEF Current
        <5> QED BY <5>2, <5>3
      <4>4. Apart(k.pr, k.request.rev)'
        BY <3>2, <4>1 DEF Apart
      <4> QED BY <3>2, <3>5, <4>1, <4>3, <4>4 DEF RevisionRooted
    <3> QED BY <3>4, <3>5
  <2> QED BY <2>1, <2>2 DEF RootedInv
<1> QED BY <1>1, <1>2, <1>3, <1>4 DEF Keeps

----------------------------------------------------------------------------
(* The steps that write no object. *)

LEMMA RemoteStays ==
  ASSUME UNCHANGED <<store, remote>>, NEW pr \in PRs, OnRemote(pr) PROVE OnRemote(pr)'
  BY DEF OnRemote, Tag

(* A step that leaves git and the repository alone.                          *)
LEMMA RestKeeps ==
  ASSUME PackagesInv, UNCHANGED <<store, work, holder, remote, local, call>>,
         \A q \in PRs : cache'[q] \in {cache[q], store[q]}
  PROVE  Keeps
<1>1. AskedInv => AskedInv'
  BY AskedStays DEF AskedInv
<1>2. \A q \in PRs : Current(q)' = Current(q) \/ Current(q)' = store[q]
  BY DEF Current
<1>3. \A q \in PRs : OnRemote(q) => OnRemote(q)'
  BY RemoteStays
<1> QED BY <1>1, <1>2, <1>3, QuietKeeps DEF GoesOnWith

LEMMA SyncKeeps == ASSUME PackagesInv, NEW pr \in PRs, InformerSync(pr) PROVE Keeps
<1>1. /\ UNCHANGED <<store, work, holder, remote, local, call>>
      /\ cache' = [cache EXCEPT ![pr] = store[pr]] /\ cache \in [PRs -> Stored]
  BY DEF InformerSync, gitVars, PackagesInv, TypeOK
<1> QED BY <1>1, RestKeeps

LEMMA IdleKeeps ==
  ASSUME PackagesInv, UNCHANGED <<gitVars, store, cache, work, holder>> PROVE Keeps
  BY RestKeeps DEF gitVars

(* Workers but the two that hold objects do not matter here.                 *)
LEMMA UserUpdateKeeps == ASSUME PackagesInv, NEW pr \in PRs, UserUpdate(pr) PROVE Keeps
<1> DEFINE next == Waiting(pr, store[pr], FALSE, GetRequest(pr, store[pr].rev))
<1>1. /\ work["user"] = NoWork /\ work' = [work EXCEPT !["user"] = next]
      /\ UNCHANGED <<store, cache, holder, remote, local, call>>
  BY DEF UserUpdate, gitVars
<1>2. /\ next.request.op = "get" /\ ~ next.request.published
  BY DEF Waiting, GetRequest, Request
<1> HIDE DEF next
<1>3. work \in [Workers -> Work] /\ CallOfHolder
  BY DEF PackagesInv, TypeOK
<1>4. /\ \A v \in Workers : v # "user" => work'[v] = work[v]
      /\ {"revision", "processor", "user"} = Workers /\ work'["user"] = next
  BY <1>1, <1>3 DEF Workers
<1>5. AskedInv => AskedInv'
  <2> SUFFICES ASSUME AskedInv PROVE AskedInv'
    OBVIOUS
  <2>1. \A v \in Workers : Asked(v, work'[v])
    BY <1>2, <1>4 DEF AskedInv, Asked
  <2>2. holder # "user"
    BY <1>1, <1>3, <1>4, NoWorkParts DEF CallOfHolder
  <2>3. \A v \in Workers : holder = v => work'[v].request = work[v].request
    BY <1>4, <2>2
  <2> QED BY <1>1, <2>1, <2>3, AskedStays
<1>6. \A q \in PRs : Current(q)' = Current(q) /\ (OnRemote(q) => OnRemote(q)')
  BY <1>1, RemoteStays DEF Current
<1>7. /\ GoesOnWith(work["revision"], work'["revision"])
      /\ work'["processor"] = work["processor"]
  BY <1>4 DEF GoesOnWith
<1> QED BY <1>1, <1>5, <1>6, <1>7, QuietKeeps

LEMMA StartKeeps == ASSUME PackagesInv, NEW w \in Workers, StartCall(w) PROVE Keeps
<1> DEFINE k == work[w]
<1>1. /\ k.step = "waiting" /\ call' = k.request /\ holder' = w
      /\ work' = [work EXCEPT ![w].step = "calling"]
      /\ UNCHANGED <<store, cache, remote, local>>
  BY DEF StartCall, Start
<1>2. work \in [Workers -> Work]
  BY DEF PackagesInv, TypeOK
<1>3. \A v \in Workers :
        /\ work'[v].request = work[v].request /\ work'[v].cr = work[v].cr
        /\ work'[v].pr = work[v].pr
        /\ work'[v].step # "idle" => work[v].step # "idle"
  BY <1>1, <1>2 DEF Work
<1>4. AskedInv => AskedInv'
  <2> SUFFICES ASSUME AskedInv PROVE AskedInv'
    OBVIOUS
  <2>1. \A v \in Workers : Asked(v, work'[v])
    BY <1>3 DEF AskedInv, Asked
  <2>2. Asked(w, k) /\ k.request.step = "fetch"
    BY <1>1, BusyParts, RequestedParts DEF AskedInv
  <2>3. CallTold'
    BY <1>1, <2>2 DEF CallTold
  <2>4. CallAsked'
    BY <1>1, <1>3, <2>2 DEF CallAsked, Asked
  <2>5. \A v \in Workers : Asked(v, work[v])'
    BY <2>1 DEF Asked
  <2> QED BY <2>3, <2>4, <2>5 DEF AskedInv
<1>5. \A q \in PRs : Current(q)' = Current(q) /\ (OnRemote(q) => OnRemote(q)')
  BY <1>1, RemoteStays DEF Current
<1>6. /\ GoesOnWith(work["revision"], work'["revision"])
      /\ work'["processor"].step # "idle" =>
           work["processor"].step # "idle" /\ work'["processor"].cr = work["processor"].cr
  BY <1>3 DEF GoesOnWith, Workers
<1> QED BY <1>1, <1>4, <1>5, <1>6, QuietKeeps

(* A worker that takes its answer and writes nothing.                        *)
LEMMA AnswerKeeps ==
  ASSUME PackagesInv, NEW w \in Workers, w # "revision", Answered(w),
         UNCHANGED <<store, cache>>, NEW next, work' = [work EXCEPT ![w] = next],
         AskedInv => Asked(w, next), w = "processor" => next.step = "idle" \/ next.cr = work[w].cr
  PROVE  Keeps
<1>1. /\ call' = Idle /\ holder' = "none" /\ remote' = remote
      /\ work \in [Workers -> Work] /\ work[w].step # "idle"
  BY HolderParts DEF Answered, Return, PackagesInv, TypeOK
<1>2. \A v \in Workers : work'[v] = IF v = w THEN next ELSE work[v]
  BY <1>1
<1>3. AskedInv => AskedInv'
  BY <1>1, <1>2, AskedIdles DEF AskedInv
<1>4. \A q \in PRs : Current(q)' = Current(q) /\ (OnRemote(q) => OnRemote(q)')
  BY <1>1, RemoteStays DEF Current
<1>5. /\ GoesOnWith(work["revision"], work'["revision"])
      /\ work'["processor"].step # "idle" =>
           work["processor"].step # "idle" /\ work'["processor"].cr = work["processor"].cr
  BY <1>1, <1>2 DEF GoesOnWith, Workers
<1> QED BY <1>3, <1>4, <1>5, QuietKeeps

LEMMA UpsertKeeps ==
  ASSUME PackagesInv, NEW w \in Workers, w # "revision", NEW files, Upsert(w, files)
  PROVE  Keeps
<1> DEFINE k == work[w]
           q == UpsertRequest(k.request.pr, k.request.rev, FALSE, FALSE, files)
           next == [k EXCEPT !.step = "waiting", !.request = q]
<1>0. /\ Answered(w) /\ UNCHANGED <<store, cache>>
      /\ work' = [work EXCEPT ![w].step = "waiting",
                              ![w].request = UpsertRequest(@.pr, @.rev, FALSE, FALSE, files)]
  BY DEF Upsert
<1>1. k \in Work /\ k.step # "idle" /\ work \in [Workers -> Work]
  BY <1>0, HolderParts DEF PackagesInv, TypeOK
<1>2. q.op = "upsert" /\ ~ q.published /\ q.rev = k.request.rev
  BY DEF UpsertRequest, Request
<1>3. work' = [work EXCEPT ![w] = next]
  <2> DEFINE Upserted(request) == UpsertRequest(request.pr, request.rev, FALSE, FALSE, files)
  <2>1. work' = [work EXCEPT ![w].step = "waiting", ![w].request = Upserted(@)]
    BY <1>0
  <2>2. q = Upserted(k.request)
    OBVIOUS
  <2> HIDE DEF q, Upserted
  <2>3. [k EXCEPT !.step = "waiting"].request = k.request
    BY <1>1 DEF Work
  <2> QED BY <1>1, <2>1, <2>2, <2>3
<1> HIDE DEF q
<1>4. next.step = "waiting" /\ next.cr = k.cr /\ next.request = q
  BY <1>1 DEF Work
<1> HIDE DEF next
<1>5. AskedInv => Asked(w, next)
  BY <1>1, <1>2, <1>4 DEF AskedInv, Asked
<1> QED BY <1>0, <1>3, <1>4, <1>5, AnswerKeeps

LEMMA RunsKeep == ASSUME PackagesInv, ProcessorRun \/ UserRun PROVE Keeps
<1>1. "processor" \in Workers /\ "user" \in Workers
  BY DEF Workers
<1>2. CASE ProcessorRun
  BY <1>1, <1>2, UpsertKeeps DEF ProcessorRun
<1>3. CASE UserRun
  BY <1>1, <1>3, UpsertKeeps DEF UserRun
<1> QED BY <1>2, <1>3

LEMMA UserDoneKeeps == ASSUME PackagesInv, UserDone PROVE Keeps
<1>1. /\ "user" \in Workers /\ Answered("user") /\ work' = [work EXCEPT !["user"] = NoWork]
      /\ UNCHANGED <<store, cache>>
  BY DEF UserDone, Workers
<1>2. Asked("user", NoWork)
  BY NoWorkParts DEF Asked
<1> QED BY <1>1, <1>2, AnswerKeeps

LEMMA RestartKeeps == ASSUME PackagesInv, ServerRestart PROVE Keeps
<1>1. /\ call' = Idle /\ remote' = remote /\ cache' = store /\ holder' = "none"
      /\ work' = [w \in Workers |-> NoWork] /\ store' = store
  BY DEF ServerRestart, Restart
<1>2. \A v \in Workers : work'[v].step = "idle"
  BY <1>1, NoWorkParts
<1>3. AskedInv'
  BY <1>1, <1>2, AskedIdles DEF Asked
<1>4. \A q \in PRs : Current(q)' = store[q] /\ (OnRemote(q) => OnRemote(q)')
  BY <1>1, RemoteStays DEF Current
<1>5. "revision" \in Workers /\ "processor" \in Workers
  BY DEF Workers
<1> QED BY <1>1, <1>2, <1>3, <1>4, <1>5, QuietKeeps DEF GoesOnWith

LEMMA PipelineKeeps == ASSUME PackagesInv, PipelineFails PROVE Keeps
<1>1. /\ call.op = "get" /\ call' = Done("fault") /\ holder = "processor"
      /\ UNCHANGED <<store, cache, work, holder, remote, local>>
  BY DEF PipelineFails, Fault, objVars
<1>2. call'.op = "get" /\ call'.published = call.published /\ call'.step = "done"
  BY <1>1 DEF Done
<1>3. AskedInv => AskedInv'
  <2> SUFFICES ASSUME AskedInv PROVE AskedInv'
    OBVIOUS
  <2>1. CallTold'
    BY <1>2 DEF CallTold
  <2>2. CallAsked'
    BY <1>1, <1>2 DEF AskedInv, CallAsked
  <2>3. \A v \in Workers : Asked(v, work[v])'
    BY <1>1 DEF AskedInv, Asked
  <2> QED BY <2>1, <2>2, <2>3 DEF AskedInv
<1>4. \A q \in PRs : Current(q)' = Current(q) /\ (OnRemote(q) => OnRemote(q)')
  BY <1>1, RemoteStays DEF Current
<1> QED BY <1>1, <1>3, <1>4, QuietKeeps DEF GoesOnWith

(* A step of a call takes from git what nothing claims.                      *)
LEMMA RunKeeps == ASSUME PackagesInv, RunCall PROVE Keeps
<1> DEFINE k == work["revision"]
<1>1. CallStep /\ UNCHANGED <<store, cache, work, holder>> /\ GitInv /\ CallOfHolder
  BY DEF RunCall, objVars, PackagesInv
<1>2. ASSUME CallTold
      PROVE  CallKept /\ BranchesKept /\ ReleasesKeptBut /\ CallTold'
  BY <1>1, <1>2, CallStepTold
<1>3. AskedInv => AskedInv'
  <2> SUFFICES ASSUME AskedInv PROVE AskedInv'
    OBVIOUS
  <2>1. CallTold' /\ CallKept
    BY <1>2 DEF AskedInv
  <2>2. CallAsked'
    BY <1>1, <2>1 DEF AskedInv, CallAsked, CallKept
  <2>3. \A v \in Workers : Asked(v, work[v])'
    BY <1>1 DEF AskedInv, Asked
  <2> QED BY <2>1, <2>2, <2>3 DEF AskedInv
<1>4. \A q \in PRs : Current(q)' = Current(q)
  BY <1>1 DEF Current
<1>5. ASSUME AskedInv, HeldInv, RootedInv, NEW q \in PRs, Claimed(store[q]), OnRemote(q)
      PROVE  OnRemote(q)'
  <2>1. BranchesKept /\ ReleasesKeptBut /\ CallAsked
    BY <1>2, <1>5 DEF AskedInv
  <2>2. call.op \in {"delete", "ensure"} =>
          /\ k.step # "idle" /\ k.pr \in PRs /\ call.op = k.request.op
          /\ call.pr = k.pr /\ call.rev = k.request.rev
    <3>1. SUFFICES ASSUME call.op \in {"delete", "ensure"}
                   PROVE  /\ k.step # "idle" /\ k.pr \in PRs /\ call.op = k.request.op
                          /\ call.pr = k.pr /\ call.rev = k.request.rev
      OBVIOUS
    <3>2. holder = "revision" /\ "revision" \in Workers
      BY <2>1, <3>1 DEF CallAsked, Workers
    <3>3. /\ k.step = "calling" /\ call.op = k.request.op
          /\ call.pr = k.request.pr /\ call.rev = k.request.rev
      BY <1>1, <3>2 DEF CallOfHolder
    <3> QED BY <3>2, <3>3, BusyParts
  <2>3. HeldInv /\ RootedInv
    BY <1>5
  <2>4. call.op = "delete" => ~ Claimed(store[call.pr]) /\ Apart(call.pr, call.rev)
    <3>1. SUFFICES ASSUME call.op = "delete"
                   PROVE  ~ Claimed(store[call.pr]) /\ Apart(call.pr, call.rev)
      OBVIOUS
    <3>2. store[k.pr].lifecycle # "published" /\ Apart(k.pr, k.request.rev)
      BY <2>2, <2>3, <3>1 DEF RootedInv, RevisionRooted
    <3>3. LetGo(store[k.pr], {"revision"}) /\ FirstHeld(store[k.pr])
      BY <2>2, <2>3, <3>1 DEF HeldInv, RevisionHeld
    <3>4. ~ Claimed(store[k.pr])
      BY <3>2, <3>3 DEF Claimed, LetGo, FirstHeld
    <3> QED BY <2>2, <3>1, <3>2, <3>4
  <2>5. call.op = "ensure" => call.rev # 0 /\ store[call.pr].rev = call.rev
    <3>1. call.op = "ensure" => call.rev # 0
      BY <1>1 DEF GitInv, CallShape, Revs
    <3> QED BY <2>2, <2>3, <3>1 DEF RootedInv, RevisionRooted
  <2>6. CASE remote.branch[q] # NoRef
    <3>1. \/ remote'.branch[q] # NoRef
          \/ q = call.pr /\ call.op = "delete"
          \/ q = call.pr /\ call.op = "ensure" /\ remote'.tag[Tag(call.pr, call.rev)] # NoRef
      BY <2>1, <2>6 DEF BranchesKept
    <3> QED BY <1>1, <1>5, <2>4, <2>5, <3>1 DEF OnRemote, Tag
  <2>7. CASE store[q].rev # 0 /\ remote.tag[Tag(q, store[q].rev)] # NoRef
    <3> DEFINE t == Tag(q, store[q].rev)
    <3>1. t \in TagNames
      <4>1. store[q].rev \in 0 .. MaxRev
        <5>1. store[q] \in Stored
          BY DEF PackagesInv, TypeOK
        <5> QED BY <5>1, StoredParts
      <4> QED BY <2>7, <4>1 DEF Tag, TagNames, Revs
    <3>2. remote'.tag[t] # NoRef \/ (call.op = "delete" /\ t = Tag(call.pr, call.rev))
      BY <2>1, <2>7, <3>1 DEF ReleasesKeptBut
    <3>3. ~ (call.op = "delete" /\ t = Tag(call.pr, call.rev))
      <4>1. SUFFICES ASSUME call.op = "delete", t = Tag(call.pr, call.rev) PROVE FALSE
        OBVIOUS
      <4>2. PkgOf[q] = PkgOf[call.pr] /\ store[q].rev = call.rev
        BY <4>1 DEF Tag
      <4> QED BY <1>5, <2>4, <2>7, <4>1, <4>2 DEF Apart
    <3> QED BY <1>1, <2>7, <3>2, <3>3 DEF OnRemote, Tag
  <2> QED BY <1>5, <2>6, <2>7 DEF OnRemote
<1> QED BY <1>1, <1>3, <1>4, <1>5, QuietKeeps DEF GoesOnWith

----------------------------------------------------------------------------
(* The steps that write objects. *)

(* The object as far as these properties are about it: another has the same  *)
(* standing when it says nothing more of git and of who holds it.            *)
Standing(s, o) ==
  /\ Exists(o) \/ o = Absent
  /\ o.rev \in {0, s.rev}
  /\ "revision" \in s.fins => "revision" \in o.fins
  /\ FirstHeld(s) => FirstHeld(o)
  /\ \A fins : LetGo(s, fins) => LetGo(o, fins)
  /\ o.lifecycle = "published" => s.lifecycle = "published"
  /\ Claimed(o) => Claimed(s)

LEMMA AbsentParts ==
  /\ ~ Exists(Absent) /\ Absent.rev = 0 /\ Absent.fins = {} /\ Absent.conds = {}
  /\ ~ Absent.deleting /\ ~ Claimed(Absent) /\ Absent.lifecycle = "absent"
  /\ FirstHeld(Absent) /\ \A fins : LetGo(Absent, fins)
  BY DEF Absent, Exists, Claimed, FirstHeld, LetGo

(* Another controller's finalizer is added or taken away.                    *)
LEMMA StandingRemoved ==
  ASSUME NEW s \in Objects(MaxRev), s.deleting, NEW c \in Controllers, c # "revision"
  PROVE  Standing(s, RemoveFinalizer(s, c))
<1> DEFINE o == RemoveFinalizer(s, c)
           r == [s EXCEPT !.fins = s.fins \ {c}]
<1>1. /\ r.rev = s.rev /\ r.fins = s.fins \ {c} /\ r.lifecycle = s.lifecycle
      /\ r.deleting /\ r.conds = s.conds /\ Exists(r)
  BY DEF Objects, Exists, Lifecycles
<1> HIDE DEF r
<1>2. CASE s.fins \subseteq {c}
  <2>1. o = Absent /\ "revision" \notin s.fins
    BY <1>2 DEF RemoveFinalizer
  <2> QED BY <2>1, AbsentParts DEF Standing
<1>3. CASE ~ (s.fins \subseteq {c})
  <2>1. o = r
    BY <1>3 DEF RemoveFinalizer, r
  <2>2. FirstHeld(s) => FirstHeld(r)
    BY <1>1, <1>3 DEF FirstHeld
  <2>3. \A fins : LetGo(s, fins) => LetGo(r, fins)
    BY <1>1 DEF LetGo
  <2>4. Claimed(r) => Claimed(s)
    BY <1>1 DEF Claimed
  <2>5. Standing(s, r)
    BY <1>1, <2>2, <2>3, <2>4 DEF Standing
  <2> QED BY <2>1, <2>5
<1> QED BY <1>2, <1>3

LEMMA StandingAdded ==
  ASSUME NEW s \in Objects(MaxRev), ~ s.deleting, "revision" \in s.fins, NEW c \in Controllers
  PROVE  Standing(s, AddFinalizer(s, c))
<1> DEFINE o == [s EXCEPT !.fins = s.fins \cup {c}]
<1>1. /\ o.rev = s.rev /\ o.fins = s.fins \cup {c} /\ o.lifecycle = s.lifecycle
      /\ o.deleting = s.deleting /\ o.conds = s.conds /\ Exists(o)
  BY DEF Objects, Exists, Lifecycles
<1>2. AddFinalizer(s, c) = o
  BY ObjectWrites
<1> HIDE DEF o
<1>3. FirstHeld(o) /\ \A fins : ~ LetGo(s, fins)
  BY <1>1 DEF FirstHeld, LetGo
<1>4. Claimed(o) => Claimed(s)
  BY <1>1 DEF Claimed
<1> QED BY <1>1, <1>2, <1>3, <1>4 DEF Standing

(* Conditions and finalizers of an object that stays.                        *)
LEMMA StandingMarked ==
  ASSUME NEW s \in Objects(MaxRev), NEW o \in Objects(MaxRev),
         o.rev = s.rev, o.lifecycle = s.lifecycle, o.deleting = s.deleting, o.fins = s.fins,
         o.conds \cap Gates \subseteq s.conds, o.conds # {} => s.conds # {} \/ "revision" \in s.fins
  PROVE  Standing(s, o)
<1>1. FirstHeld(s) => FirstHeld(o)
  BY DEF FirstHeld
<1>2. \A fins : LetGo(s, fins) => LetGo(o, fins)
  BY DEF LetGo
<1>3. Claimed(o) => Claimed(s)
  BY DEF Claimed
<1>4. Exists(o)
  BY DEF Objects, Exists, Lifecycles
<1> QED BY <1>1, <1>2, <1>3, <1>4 DEF Standing

LEMMA StandingSame == ASSUME PackagesInv, NEW pr \in PRs PROVE Standing(store[pr], store[pr])
  BY StoredFacts DEF Standing

(* A write of anyone but the packagerevision controller.                     *)
LEMMA OtherWrites ==
  ASSUME PackagesInv, NEW pr \in PRs, NEW o, NEW w, w # "revision", NEW next,
         Written(pr, o, w, next), cache' = cache,
         w \in Workers => Asked(w, next) /\ (next.step # "idle" => next.pr = pr),
         Exists(o) \/ o = Absent, o.rev \in {0, store[pr].rev},
         "revision" \in store[pr].fins => "revision" \in o.fins,
         ApproveNotFirst /\ AskedInv /\ HeldInv =>
           /\ FirstHeld(o) /\ \A fins : LetGo(store[pr], fins) => LetGo(o, fins)
           /\ w = "processor" => ProcessorHeld(next),
         ApproveNotFirst /\ AskedInv /\ HeldInv /\ UsersOnlyRetire /\ RootedInv =>
           /\ o.lifecycle = "published" =>
                \/ store[pr].lifecycle = "published"
                \/ Current(pr) = store[pr] /\ ~ store[pr].deleting /\ store[pr].conds # {}
           /\ Claimed(o) => Claimed(store[pr]) \/ OnRemote(pr)
  PROVE  Write(pr, o, w, next)
<1>1. NumberWrite(pr, o, w, next)
  BY DEF NumberWrite
<1>2. "revision" \in store[pr].fins => Exists(o)
  BY AbsentParts
<1>3. ASSUME ApproveNotFirst, AskedInv, HeldInv PROVE HeldWrite(pr, o, w, next)
  BY <1>3 DEF HeldWrite
<1>4. ASSUME ApproveNotFirst, AskedInv, HeldInv, UsersOnlyRetire, RootedInv
      PROVE  RootedWrite(pr, o, w, next)
  <2>1. store[pr].lifecycle = "published" \/ store[pr].conds # {} => "revision" \in store[pr].fins
    BY <1>4 DEF HeldInv, RootedInv, FirstHeld
  <2> QED BY <1>4, <2>1 DEF RootedWrite
<1> QED BY <1>1, <1>2, <1>3, <1>4 DEF Write

LEMMA StandingWrites ==
  ASSUME PackagesInv, NEW pr \in PRs, NEW o, NEW w, w # "revision", NEW next,
         Written(pr, o, w, next), cache' = cache,
         w \in Workers => Asked(w, next) /\ (next.step # "idle" => next.pr = pr),
         Exists(o) \/ o = Absent, o.rev \in {0, store[pr].rev},
         "revision" \in store[pr].fins => "revision" \in o.fins,
         ApproveNotFirst /\ HeldInv => Standing(store[pr], o),
         HeldInv /\ w = "processor" => ProcessorHeld(next)
  PROVE  Write(pr, o, w, next)
<1>1. HeldInv => FirstHeld(store[pr])
  BY DEF HeldInv
<1> QED BY <1>1, OtherWrites DEF Standing

LEMMA ProcessorReconcileKeeps ==
  ASSUME PackagesInv, NEW pr \in PRs, ProcessorReconcile(pr) PROVE Keeps
<1> DEFINE C == Current(pr)
           cr == IF C.deleting THEN C ELSE AddFinalizer(C, "processor")
           Todo == cr.deleting \/ "process" \notin cr.conds
           request == GetRequest(pr, C.rev)
           o == IF cr = C THEN store[pr] ELSE cr
           waiting == Waiting(pr, cr, IsSynced(pr), request)
           next == IF Todo THEN waiting ELSE NoWork
<1>0. /\ work["processor"] = NoWork /\ "processor" \in Workers /\ "processor" \in Controllers
      /\ ~ ProcessorIdle(pr, C) /\ (cr # C => IsSynced(pr))
      /\ IF cr = C THEN UNCHANGED <<store, synced>> ELSE Changed(pr, cr)
      /\ work' = WorkAfter(pr, o, "processor", next)
      /\ UNCHANGED <<gitVars, cache, holder>>
  BY DEF ProcessorReconcile, Workers, Controllers
<1>1. Exists(C) /\ (~ C.deleting => Ready \in C.conds)
  BY <1>0 DEF ProcessorIdle
<1>2. /\ C \in Objects(MaxRev) /\ (IsSynced(pr) => C = store[pr])
      /\ AddFinalizer(C, "processor") = [C EXCEPT !.fins = C.fins \cup {"processor"}]
  BY <1>0, <1>1, ReadObject
<1>3. /\ cr.rev = C.rev /\ cr.deleting = C.deleting
      /\ ~ cr.deleting => "processor" \in cr.fins
  BY <1>2 DEF Objects
<1>4. request.op = "get" /\ ~ request.published /\ request.rev = C.rev
  BY DEF GetRequest, Request
<1>5. /\ waiting.step = "waiting" /\ waiting.pr = pr /\ waiting.cr = cr
      /\ waiting.request = request
  BY DEF Waiting
<1>6. Written(pr, o, "processor", next)
  BY <1>0, StayWritten DEF Written
<1>7. CASE cr = C
  <2>1. o = store[pr] /\ Standing(store[pr], store[pr])
    BY <1>7, StandingSame
  <2> HIDE DEF o, waiting, cr, C
  <2>2. ProcessorHeld(next) /\ Asked("processor", next) /\ (next.step # "idle" => next.pr = pr)
    BY <1>3, <1>4, <1>5, NoWorkParts DEF ProcessorHeld, Asked
  <2> HIDE DEF next
  <2>3. Write(pr, o, "processor", next)
    BY <1>0, <1>6, <2>1, <2>2, StandingWrites DEF Standing
  <2>4. Aside("processor")
    BY <1>0, NoWorkParts DEF Aside, gitVars, PackagesInv, CallOfHolder
  <2> QED BY <2>3, <2>4, ProcessorFollows, WriteKeeps
<1>8. CASE cr # C
  <2>1. o = cr /\ cr = AddFinalizer(C, "processor") /\ C = store[pr] /\ ~ C.deleting
    BY <1>0, <1>2, <1>8
  <2>2. HeldInv => Standing(store[pr], o)
    <3>1. SUFFICES ASSUME HeldInv PROVE Standing(store[pr], o)
      OBVIOUS
    <3>2. "revision" \in C.fins
      BY <1>1, <2>1, <3>1 DEF HeldInv, FirstHeld
    <3> HIDE DEF C
    <3> QED BY <1>0, <1>2, <2>1, <3>2, StandingAdded
  <2>3. o = [C EXCEPT !.fins = C.fins \cup {"processor"}]
    BY <1>2, <2>1
  <2>4. o.rev = C.rev /\ Exists(o) /\ C.fins \subseteq o.fins
    BY <1>2, <2>3 DEF Objects, Exists, Lifecycles
  <2> HIDE DEF o, waiting, cr, C
  <2>5. ProcessorHeld(next) /\ Asked("processor", next) /\ (next.step # "idle" => next.pr = pr)
    BY <1>3, <1>4, <1>5, NoWorkParts DEF ProcessorHeld, Asked
  <2> HIDE DEF next
  <2>6. Write(pr, o, "processor", next)
    BY <1>0, <1>6, <2>1, <2>2, <2>4, <2>5, StandingWrites
  <2>7. Aside("processor")
    BY <1>0, NoWorkParts DEF Aside, gitVars, PackagesInv, CallOfHolder
  <2> QED BY <2>6, <2>7, ProcessorFollows, WriteKeeps
<1> QED BY <1>7, <1>8

(* A write that no worker makes.                                             *)
LEMMA UpdateKeeps ==
  ASSUME PackagesInv, Follows, NEW pr \in PRs, NEW o, Changed(pr, o),
         work' = WorkAfter(pr, o, "none", NoWork), UNCHANGED <<gitVars, cache, holder>>,
         Exists(o) \/ o = Absent, o.rev \in {0, store[pr].rev},
         "revision" \in store[pr].fins => "revision" \in o.fins,
         ApproveNotFirst /\ HeldInv =>
           FirstHeld(o) /\ \A fins : LetGo(store[pr], fins) => LetGo(o, fins),
         ApproveNotFirst /\ HeldInv /\ UsersOnlyRetire /\ RootedInv =>
           /\ o.lifecycle = "published" =>
                \/ store[pr].lifecycle = "published"
                \/ Current(pr) = store[pr] /\ ~ store[pr].deleting /\ store[pr].conds # {}
           /\ Claimed(o) => Claimed(store[pr]) \/ OnRemote(pr)
  PROVE  Keeps
<1>1. "none" \notin Workers /\ "none" \notin {"revision", "processor"}
  BY DEF Workers
<1>2. Written(pr, o, "none", NoWork) /\ Aside("none")
  BY <1>1 DEF Written, Aside, gitVars
<1>3. Write(pr, o, "none", NoWork)
  BY <1>1, <1>2, OtherWrites
<1> QED BY <1>2, <1>3, WriteKeeps

LEMMA StandingKeeps ==
  ASSUME PackagesInv, Follows, NEW pr \in PRs, NEW o, Changed(pr, o),
         work' = WorkAfter(pr, o, "none", NoWork), UNCHANGED <<gitVars, cache, holder>>,
         Exists(o) \/ o = Absent, o.rev \in {0, store[pr].rev},
         "revision" \in store[pr].fins => "revision" \in o.fins,
         ApproveNotFirst /\ HeldInv => Standing(store[pr], o)
  PROVE  Keeps
<1>1. HeldInv => FirstHeld(store[pr])
  BY DEF HeldInv
<1> QED BY <1>1, UpdateKeeps DEF Standing

(* The condition that was waited for holds the object in place.              *)
LEMMA GateHeld ==
  ASSUME NEW pr \in PRs, NEW o, NEW gate, PreviousTrue(GatesOf[pr], gate, o), ApproveNotFirst,
         gate = "approve"
  PROVE  o.conds \cap Gates # {}
<1>1. PICK i \in DOMAIN GatesOf[pr] :
        GatesOf[pr][i] = gate /\ (i = 1 \/ GatesOf[pr][i - 1] \in o.conds)
  BY DEF PreviousTrue, FirstGate
<1>2. i # 1
  BY <1>1 DEF ApproveNotFirst
<1>3. GatesOf[pr] \in Seq(Gates)
  BY GatesAssumption
<1>4. i - 1 \in DOMAIN GatesOf[pr]
  BY <1>1, <1>2, <1>3
<1>5. GatesOf[pr][i - 1] \in Gates
  BY <1>3, <1>4
<1> QED BY <1>1, <1>2, <1>5

LEMMA InstallerKeeps ==
  ASSUME PackagesInv, NEW pr \in PRs, InstallerReconcile(pr) PROVE Keeps
<1> DEFINE cr == Current(pr)
           f == AddFinalizer(cr, "installer")
           g == SetTrue(f, "install")
<1>1. /\ UNCHANGED <<gitVars, cache, holder>> /\ "installer" \in Controllers
      /\ "install" \in Gates \cup {Ready}
  BY DEF InstallerReconcile, WriteReconcile, Controllers, Gates
<1>2. PICK o : /\ o # cr => IsSynced(pr)
               /\ IF o = cr THEN UNCHANGED <<store, synced, work>>
                  ELSE Changed(pr, o) /\ work' = WorkAfter(pr, o, "none", NoWork)
               /\ \/ o = cr
                  \/ /\ Exists(cr) /\ Ready \in cr.conds /\ cr.rev # 0
                     /\ IF cr.deleting THEN o = RemoveFinalizer(cr, "installer")
                                       ELSE o \in {g, f}
  BY DEF InstallerReconcile, WriteReconcile, InstallerIdle
<1>3. CASE o = cr
  BY <1>1, <1>2, <1>3, IdleKeeps
<1>4. CASE o # cr
  <2>1. /\ cr \in Objects(MaxRev) /\ cr = store[pr] /\ f \in Objects(MaxRev)
        /\ f = [cr EXCEPT !.fins = cr.fins \cup {"installer"}]
        /\ Ready \in cr.conds /\ cr.rev # 0 /\ ReleasedFirst(cr)
        /\ Changed(pr, o) /\ work' = WorkAfter(pr, o, "none", NoWork)
    BY <1>1, <1>2, <1>4, ReadObject, StoredFacts
  <2>2. HeldInv => "revision" \in cr.fins
    BY <2>1 DEF HeldInv, FirstHeld
  <2>3. CASE cr.deleting
    <3>1. o = RemoveFinalizer(cr, "installer")
      BY <1>2, <1>4, <2>3
    <3> HIDE DEF cr, f, g
    <3>2. Standing(cr, o)
      BY <1>1, <2>1, <2>3, <3>1, StandingRemoved
    <3> QED BY <1>1, <2>1, <3>2, InstallerFollows, StandingKeeps DEF Standing
  <2>4. CASE ~ cr.deleting
    <3>1. g \in Objects(MaxRev) /\ g = [f EXCEPT !.conds = f.conds \cup {"install"}]
      BY <1>1, <2>1, ObjectWrites
    <3>2. o \in {f, g}
      BY <1>2, <1>4, <2>4
    <3> HIDE DEF cr, f, g
    <3>3. /\ o.rev = cr.rev /\ o.fins = cr.fins \cup {"installer"} /\ Exists(o)
          /\ o.lifecycle = cr.lifecycle /\ o.deleting = cr.deleting
      <4>1. /\ f.rev = cr.rev /\ f.fins = cr.fins \cup {"installer"}
            /\ f.lifecycle = cr.lifecycle /\ f.deleting = cr.deleting
        BY <2>1 DEF Objects
      <4>2. /\ g.rev = f.rev /\ g.fins = f.fins
            /\ g.lifecycle = f.lifecycle /\ g.deleting = f.deleting
        BY <2>1, <3>1 DEF Objects
      <4>3. cr.lifecycle \in Lifecycles
        BY <2>1 DEF Objects
      <4>4. o.lifecycle = cr.lifecycle
        BY <3>2, <4>1, <4>2
      <4> QED BY <3>2, <4>1, <4>2, <4>3, <4>4 DEF Exists, Lifecycles
    <3>4. Claimed(o) => Claimed(cr)
      BY <2>1, <2>4, <3>3 DEF Claimed, ReleasedFirst, Released
    <3>5. HeldInv => FirstHeld(o) /\ \A fins : ~ LetGo(cr, fins)
      BY <2>2, <2>4, <3>3 DEF FirstHeld, LetGo
    <3>6. HeldInv => Standing(store[pr], o)
      BY <2>1, <3>3, <3>4, <3>5 DEF Standing
    <3> QED BY <1>1, <2>1, <3>3, <3>6, InstallerFollows, StandingKeeps
  <2> QED BY <2>3, <2>4
<1> QED BY <1>3, <1>4

LEMMA ApproverKeeps ==
  ASSUME PackagesInv, NEW pr \in PRs, ApproverReconcile(pr) PROVE Keeps
<1> DEFINE cr == Current(pr)
           f == AddFinalizer(cr, "approver")
<1>1. UNCHANGED <<gitVars, cache, holder>> /\ "approver" \in Controllers
  BY DEF ApproverReconcile, WriteReconcile, Controllers
<1>2. PICK o : /\ o # cr => IsSynced(pr)
               /\ IF o = cr THEN UNCHANGED <<store, synced, work>>
                  ELSE Changed(pr, o) /\ work' = WorkAfter(pr, o, "none", NoWork)
               /\ \/ o = cr
                  \/ /\ Exists(cr) /\ PreviousTrue(GatesOf[pr], "approve", cr)
                     /\ IF cr.deleting THEN o = RemoveFinalizer(cr, "approver")
                                       ELSE o \in {Approved(f), f}
  BY DEF ApproverReconcile, WriteReconcile, ApproverIdle
<1>3. CASE o = cr
  BY <1>1, <1>2, <1>3, IdleKeeps
<1>4. CASE o # cr
  <2>1. /\ cr \in Objects(MaxRev) /\ cr = store[pr] /\ f \in Objects(MaxRev)
        /\ f = [cr EXCEPT !.fins = cr.fins \cup {"approver"}]
        /\ PreviousTrue(GatesOf[pr], "approve", cr)
        /\ Changed(pr, o) /\ work' = WorkAfter(pr, o, "none", NoWork)
    BY <1>1, <1>2, <1>4, ReadObject
  <2>2. ApproveNotFirst => cr.conds \cap Gates # {}
    BY <2>1, GateHeld
  <2>3. ApproveNotFirst /\ HeldInv => "revision" \in cr.fins
    BY <2>1, <2>2 DEF HeldInv, FirstHeld
  <2>4. CASE cr.deleting
    <3>1. o = RemoveFinalizer(cr, "approver")
      BY <1>2, <1>4, <2>4
    <3> HIDE DEF cr, f
    <3>2. Standing(cr, o)
      BY <1>1, <2>1, <2>4, <3>1, StandingRemoved
    <3> QED BY <1>1, <2>1, <3>2, ApproverFollows, StandingKeeps DEF Standing
  <2>5. CASE ~ cr.deleting
    <3>1. o \in {Approved(f), f}
      BY <1>2, <1>4, <2>5
    <3> HIDE DEF cr, f
    <3>2. /\ f.rev = cr.rev /\ f.fins = cr.fins \cup {"approver"} /\ f.conds = cr.conds
          /\ f.lifecycle = cr.lifecycle /\ f.deleting = cr.deleting
      BY <2>1 DEF Objects
    <3>3. /\ o.rev = f.rev /\ o.fins = f.fins /\ o.deleting = f.deleting /\ Exists(o)
          /\ o.lifecycle = f.lifecycle \/ (o.lifecycle # "deletionProposed"
                                             /\ f.lifecycle # "deletionProposed")
          /\ f.lifecycle = "deletionProposed" => o = f
      <4>1. CASE o = f
        BY <2>1, <4>1 DEF Objects, Exists, Lifecycles
      <4>2. CASE o = Approved(f) /\ f.lifecycle \in {"draft", "proposed"}
        BY <2>1, <4>2 DEF Objects, Exists, Approved, SetFalse
      <4>3. CASE o = Approved(f) /\ f.lifecycle = "published"
        BY <2>1, <4>3 DEF Objects, Exists, Approved, SetTrue
      <4>4. CASE o = Approved(f) /\ f.lifecycle \notin {"draft", "proposed", "published"}
        BY <2>1, <4>4 DEF Objects, Exists, Lifecycles, Approved
      <4> QED BY <3>1, <4>1, <4>2, <4>3, <4>4
    <3>4. ApproveNotFirst /\ HeldInv => FirstHeld(o) /\ \A fins : ~ LetGo(cr, fins)
      BY <2>3, <2>5, <3>2, <3>3 DEF FirstHeld, LetGo
    <3>5. ApproveNotFirst /\ Claimed(o) => Claimed(cr)
      BY <2>2, <2>5, <3>2, <3>3 DEF Claimed
    <3>6. ApproveNotFirst =>
            (o.lifecycle = "published" => Current(pr) = store[pr] /\ ~ cr.deleting /\ cr.conds # {})
      BY <2>1, <2>2, <2>5 DEF cr
    <3> QED BY <1>1, <2>1, <3>2, <3>3, <3>4, <3>5, <3>6, ApproverFollows, UpdateKeeps
  <2> QED BY <2>4, <2>5
<1> QED BY <1>3, <1>4

LEMMA CreateKeeps == ASSUME PackagesInv, NEW pr \in PRs, UserCreate(pr) PROVE Keeps
<1>1. PICK tasks \in Tasked :
        Changed(pr, Draft(tasks)) /\ work' = WorkAfter(pr, Draft(tasks), "none", NoWork)
  BY DEF UserCreate
<1>2. ~ Exists(store[pr]) /\ UNCHANGED <<gitVars, cache, holder>>
  BY DEF UserCreate
<1> DEFINE o == Draft(tasks)
<1>3. /\ o.rev = 0 /\ o.conds = {} /\ o.fins = {} /\ ~ o.deleting /\ o.lifecycle = "draft"
  BY DEF Draft, Absent
<1> HIDE DEF o
<1>4. FirstHeld(o) /\ (\A fins : LetGo(o, fins)) /\ ~ Claimed(o) /\ Exists(o)
  BY <1>3 DEF FirstHeld, LetGo, Claimed, Exists
<1>5. Standing(store[pr], o)
  <2>1. store[pr] = Absent
    BY <1>2, StoredFacts
  <2> QED BY <1>3, <1>4, <2>1, AbsentParts DEF Standing
<1> QED BY <1>1, <1>2, <1>5, CreateFollows, StandingKeeps DEF o, Standing

LEMMA MoveKeeps == ASSUME PackagesInv, NEW pr \in PRs, UserMove(pr) PROVE Keeps
<1>1. PICK move \in UserMoves, tasks \in BOOLEAN :
        LET o == [store[pr] EXCEPT !.lifecycle = move[2], !.tasks = @ /\ tasks]
        IN  /\ store[pr].lifecycle = move[1]
            /\ ValidUpdate(store[pr], o)
            /\ Changed(pr, o)
            /\ work' = WorkAfter(pr, o, "none", NoWork)
            /\ UNCHANGED <<gitVars, cache, queue, holder, creates>>
  BY DEF UserMove
<1> DEFINE s == store[pr]
           o == [s EXCEPT !.lifecycle = move[2], !.tasks = @ /\ tasks]
<1>2. move[1] \in Lifecycles /\ move[2] \in Lifecycles
  BY ServerAssumption
<1>3. s \in Objects(MaxRev)
  BY <1>1, <1>2, StoredFacts DEF Exists, Lifecycles
<1>4. /\ o.lifecycle = move[2] /\ o.rev = s.rev /\ o.conds = s.conds
      /\ o.deleting = s.deleting /\ o.fins = s.fins /\ Exists(o)
  BY <1>2, <1>3 DEF Objects, Exists, Lifecycles
<1>5. /\ ValidUpdate(s, o) /\ Changed(pr, o) /\ work' = WorkAfter(pr, o, "none", NoWork)
      /\ UNCHANGED <<gitVars, cache, holder>>
  BY <1>1
<1> HIDE DEF s, o
<1>6. HeldInv => FirstHeld(o) /\ \A fins : LetGo(s, fins) => LetGo(o, fins)
  BY <1>4 DEF HeldInv, FirstHeld, LetGo, s
<1>7. UsersOnlyRetire => o.lifecycle # "published"
  BY <1>4 DEF UsersOnlyRetire
<1>8. UsersOnlyRetire /\ Claimed(o) => Claimed(s)
  <2>1. SUFFICES ASSUME UsersOnlyRetire, Claimed(o) PROVE Claimed(s)
    OBVIOUS
  <2>2. o.lifecycle # "deletionProposed" /\ ~ s.deleting /\ s.conds \cap Gates # {}
    BY <1>4, <1>7, <2>1 DEF Claimed
  <2>3. s.lifecycle # "deletionProposed"
    BY <1>5, <1>7, <2>1, <2>2 DEF ValidUpdate, NextLifecycles
  <2> QED BY <2>2, <2>3 DEF Claimed
<1> QED BY <1>4, <1>5, <1>6, <1>7, <1>8, MoveFollows, UpdateKeeps DEF s

LEMMA UserDeleteKeeps == ASSUME PackagesInv, NEW pr \in PRs, UserDelete(pr) PROVE Keeps
<1> DEFINE s == store[pr]
           d == [s EXCEPT !.deleting = TRUE]
           o == IF s.fins = {} THEN Absent ELSE d
<1>1. /\ Exists(s) /\ Changed(pr, o) /\ work' = WorkAfter(pr, o, "none", NoWork)
      /\ UNCHANGED <<gitVars, cache, holder>> /\ ~ s.deleting
  BY DEF UserDelete
<1>2. s \in Objects(MaxRev)
  BY <1>1, StoredFacts
<1>3. /\ d.lifecycle = s.lifecycle /\ d.rev = s.rev /\ d.fins = s.fins
      /\ d.conds = s.conds /\ d.deleting /\ Exists(d)
  BY <1>2 DEF Objects, Exists, Lifecycles
<1> HIDE DEF d, s
<1>4. CASE s.fins = {}
  BY <1>1, <1>4, AbsentParts, UserDeleteFollows, StandingKeeps DEF Standing, s
<1>5. CASE s.fins # {}
  <2>1. (FirstHeld(s) => FirstHeld(d)) /\ \A fins : ~ LetGo(s, fins)
    BY <1>1, <1>3, <1>5 DEF FirstHeld, LetGo
  <2>2. Claimed(d) => Claimed(s)
    BY <1>3 DEF Claimed
  <2>3. Standing(s, d) /\ o = d
    BY <1>3, <1>5, <2>1, <2>2 DEF Standing
  <2> HIDE DEF o
  <2> QED BY <1>1, <2>3, UserDeleteFollows, StandingKeeps DEF Standing, s
<1> QED BY <1>4, <1>5

LEMMA ProcessorDoneKeeps == ASSUME PackagesInv, ProcessorDone PROVE Keeps
<1> DEFINE k == work["processor"]
           o == IF Failed THEN SetFalse(k.cr, "process")
                ELSE IF k.cr.deleting THEN RemoveFinalizer(k.cr, "processor")
                ELSE SetTrue(k.cr, "process")
<1>0. /\ "processor" \in Workers /\ "processor" \in Controllers /\ "process" \in Gates
      /\ Answered("processor") /\ cache' = cache
      /\ call.op = "upsert" \/ Failed \/ k.cr.deleting
      /\ IF k.fresh THEN Finish("processor", k.pr, o) ELSE Conflict("processor")
  BY DEF ProcessorDone, Workers, Controllers, Gates
<1>1. /\ k.step = "calling" /\ k.pr \in PRs /\ k.cr \in Objects(MaxRev)
      /\ k.fresh => k.cr = store[k.pr] /\ Exists(store[k.pr])
  BY <1>0, HolderParts
<1>2. PICK pr \in PRs, s \in Objects(MaxRev) : pr = k.pr /\ s = k.cr
  BY <1>1
<1>3. Aside("processor") /\ Follows
  BY <1>0, ProcessorDoneFollows DEF Aside
<1>4. Asked("processor", NoWork) /\ NoWork.step = "idle" /\ ProcessorHeld(NoWork)
  BY NoWorkParts DEF Asked, ProcessorHeld
<1>5. CASE ~ k.fresh
  <2>1. work' = [work EXCEPT !["processor"] = NoWork] /\ UNCHANGED <<store, synced>>
    BY <1>0, <1>5 DEF Conflict
  <2>2. Written(pr, store[pr], "processor", NoWork)
    BY <2>1, StayAfter, StayWritten
  <2>3. Standing(store[pr], store[pr])
    BY StandingSame
  <2>4. Write(pr, store[pr], "processor", NoWork)
    BY <1>0, <1>4, <2>2, <2>3, StandingWrites DEF Standing
  <2> QED BY <1>3, <2>4, WriteKeeps
<1>6. CASE k.fresh
  <2>0. s = store[pr] /\ Written(pr, o, "processor", NoWork) /\ ReleasedFirst(s)
    BY <1>0, <1>1, <1>2, <1>6, StoredFacts DEF Finish, Written
  <2>1. CASE Failed
    <3>1. o = SetFalse(s, "process")
      BY <1>2, <2>1
    <3> HIDE DEF o, k
    <3>2. o \in Objects(MaxRev) /\ o = [s EXCEPT !.conds = s.conds \ {"process"}]
      BY <1>0, <3>1, ObjectWrites
    <3>3. /\ o.rev = s.rev /\ o.lifecycle = s.lifecycle /\ o.deleting = s.deleting
          /\ o.fins = s.fins /\ o.conds = s.conds \ {"process"}
      BY <3>2 DEF Objects
    <3>4. Standing(s, o)
      BY <3>2, <3>3, StandingMarked
    <3>5. Write(pr, o, "processor", NoWork)
      BY <1>0, <1>4, <2>0, <3>4, StandingWrites DEF Standing
    <3> QED BY <1>3, <3>5, WriteKeeps
  <2>2. CASE ~ Failed /\ s.deleting
    <3>1. o = RemoveFinalizer(s, "processor")
      BY <1>2, <2>2
    <3> HIDE DEF o, k
    <3>2. Standing(s, o)
      BY <1>0, <2>2, <3>1, StandingRemoved
    <3>3. Write(pr, o, "processor", NoWork)
      BY <1>0, <1>4, <2>0, <3>2, StandingWrites DEF Standing
    <3> QED BY <1>3, <3>3, WriteKeeps
  <2>3. CASE ~ Failed /\ ~ s.deleting
    <3>1. o = SetTrue(s, "process")
      BY <1>2, <2>3
    <3>2. call.op = "upsert" /\ call.result = "ok" /\ call.step = "done" /\ holder = "processor"
      BY <1>0, <1>2, <2>3 DEF Failed, Answered, Return
    <3>3. call.pr = pr /\ call.rev = k.request.rev
      <4>1. call.pr = k.request.pr /\ call.rev = k.request.rev
        BY <1>0, <3>2 DEF PackagesInv, CallOfHolder
      <4>2. k.request.pr = k.pr
        BY <1>0, <1>1, BusyParts
      <4> QED BY <1>2, <4>1, <4>2
    <3>4. AskedInv /\ s.rev = 0 => OnRemote(pr)
      <4>1. SUFFICES ASSUME AskedInv, s.rev = 0 PROVE OnRemote(pr)
        OBVIOUS
      <4>2. k.request.rev = k.cr.rev /\ ~ k.request.published
        BY <1>0, <1>1, <4>1 DEF AskedInv, Asked
      <4>3. call.rev = 0 /\ ~ call.published
        BY <1>0, <1>2, <3>2, <3>3, <4>1, <4>2 DEF AskedInv, CallAsked
      <4> QED BY <3>2, <3>3, <4>1, <4>3 DEF AskedInv, CallTold, OnRemote
    <3>5. HeldInv => "revision" \in s.fins
      BY <1>1, <1>2, <2>0, <2>3 DEF HeldInv, ProcessorHeld, FirstHeld
    <3> HIDE DEF o, k
    <3>6. o \in Objects(MaxRev) /\ o = [s EXCEPT !.conds = s.conds \cup {"process"}]
      BY <1>0, <3>1, ObjectWrites
    <3>7. /\ o.rev = s.rev /\ o.lifecycle = s.lifecycle /\ o.deleting = s.deleting
          /\ o.fins = s.fins /\ Exists(o)
      BY <3>6 DEF Objects, Exists, Lifecycles
    <3>8. AskedInv /\ Claimed(o) => Claimed(s) \/ OnRemote(pr)
      BY <2>0, <3>4, <3>7 DEF Claimed, ReleasedFirst, Released
    <3>9. HeldInv => FirstHeld(o) /\ \A fins : LetGo(s, fins) => LetGo(o, fins)
      BY <2>3, <3>5, <3>7 DEF FirstHeld, LetGo
    <3>10. Write(pr, o, "processor", NoWork)
      BY <1>0, <1>4, <2>0, <3>7, <3>8, <3>9, OtherWrites
    <3> QED BY <1>3, <3>10, WriteKeeps
  <2> QED BY <2>1, <2>2, <2>3
<1> QED BY <1>5, <1>6

(* The packagerevision controller's last write, that changes what it holds   *)
(* or the readiness only.                                                    *)
LEMMA RevisionEnds ==
  ASSUME PackagesInv, NEW pr \in PRs, NEW o, Written(pr, o, "revision", NoWork), cache' = cache,
         Exists(store[pr]), Marked(pr, o), store[pr].fins \subseteq o.fins,
         HeldInv =>
           \/ /\ o.fins = store[pr].fins
              /\ "revision" \in store[pr].fins \/ o.conds \subseteq store[pr].conds
           \/ "revision" \in o.fins /\ ~ store[pr].deleting /\ Current(pr) = store[pr]
  PROVE  Write(pr, o, "revision", NoWork)
<1> DEFINE s == store[pr]
<1>1. /\ o.rev = s.rev /\ o.lifecycle = s.lifecycle /\ o.deleting = s.deleting /\ Exists(o)
      /\ Claimed(o) => Claimed(s)
  <2>1. /\ o \in Objects(MaxRev) /\ o.rev = s.rev /\ o.lifecycle = s.lifecycle
        /\ o.deleting = s.deleting /\ o.conds \ {Ready} = s.conds \ {Ready}
    BY DEF Marked
  <2>2. o.conds \cap Gates = s.conds \cap Gates
    BY <2>1 DEF Gates, Ready
  <2>3. Exists(o)
    BY <2>1 DEF Objects, Exists, Lifecycles
  <2> QED BY <2>1, <2>2, <2>3 DEF Claimed
<1>2. NoWork.step = "idle"
  BY NoWorkParts
<1>3. NumberWrite(pr, o, "revision", NoWork) /\ Asked("revision", NoWork)
  BY <1>1, <1>2 DEF NumberWrite, Asked
<1>4. HeldInv => HeldWrite(pr, o, "revision", NoWork)
  <2>1. SUFFICES ASSUME HeldInv PROVE HeldWrite(pr, o, "revision", NoWork)
    OBVIOUS
  <2>2. FirstHeld(s)
    BY <2>1 DEF HeldInv
  <2>3. FirstHeld(o)
    BY <1>1, <2>1, <2>2 DEF FirstHeld
  <2>4. \/ \A fins : LetGo(s, fins) => LetGo(o, fins)
        \/ ~ s.deleting /\ Current(pr) = s
    BY <1>1, <2>1 DEF LetGo
  <2> QED BY <1>2, <2>3, <2>4 DEF HeldWrite, RevisionHeld
<1>5. RootedInv => RootedWrite(pr, o, "revision", NoWork)
  BY <1>1, <1>2 DEF RootedInv, RootedWrite
<1> QED BY <1>1, <1>2, <1>3, <1>4, <1>5 DEF Write

(* The request of a reconcile names what is in git under the object's name.  *)
LEMMA RevisionWaits ==
  ASSUME PackagesInv, NEW pr \in PRs, NEW o, NEW next, Written(pr, o, "revision", next),
         cache' = cache, Exists(Current(pr)), ~ Current(pr).deleting,
         next.pr = pr, next.request.op # "delete",
         next.request.rev \in {0, Current(pr).rev},
         ~ next.cr.deleting, "revision" \in next.cr.fins,
         \/ o = store[pr] /\ "revision" \in Current(pr).fins
         \/ /\ Current(pr) = store[pr]
            /\ o = [store[pr] EXCEPT !.fins = store[pr].fins \cup {"revision"}]
  PROVE  Write(pr, o, "revision", next)
<1> DEFINE s == store[pr]
           cr == Current(pr)
<1>1. /\ o.rev = s.rev /\ o.lifecycle = s.lifecycle /\ o.deleting = s.deleting
      /\ o.conds = s.conds /\ s.fins \subseteq o.fins
      /\ \/ o = s /\ "revision" \in cr.fins
         \/ Current(pr) = s /\ "revision" \in o.fins
      /\ o # s => Exists(o)
  <2>1. CASE o = s /\ "revision" \in cr.fins
    BY <2>1
  <2>2. CASE cr = s /\ o = [s EXCEPT !.fins = s.fins \cup {"revision"}]
    <3>1. s \in Objects(MaxRev)
      BY <2>2, StoredFacts
    <3> HIDE DEF s, cr
    <3> QED BY <2>2, <3>1 DEF Objects, Exists, Lifecycles, cr
  <2> QED BY <2>1, <2>2
<1>2. "revision" \in s.fins => Exists(o)
  <2>1. CASE o = s
    BY <2>1, StoredFacts, AbsentParts
  <2> QED BY <1>1, <2>1
<1>3. NumberWrite(pr, o, "revision", next) /\ Asked("revision", next)
  BY <1>1 DEF NumberWrite, Asked
<1>4. HeldInv => HeldWrite(pr, o, "revision", next)
  <2>1. SUFFICES ASSUME HeldInv PROVE HeldWrite(pr, o, "revision", next)
    OBVIOUS
  <2>2. FirstHeld(s)
    BY <2>1 DEF HeldInv
  <2>3. FirstHeld(o)
    BY <1>1, <2>2 DEF FirstHeld
  <2>4. \/ \A fins : LetGo(s, fins) => LetGo(o, fins)
        \/ ~ s.deleting /\ Current(pr) = s
    BY <1>1
  <2>5. RevisionHeld(next, o)
    BY DEF RevisionHeld
  <2> QED BY <2>3, <2>4, <2>5 DEF HeldWrite
<1>5. RootedInv => RootedWrite(pr, o, "revision", next)
  <2>1. SUFFICES ASSUME RootedInv PROVE RootedWrite(pr, o, "revision", next)
    OBVIOUS
  <2>2. (Claimed(o) => Claimed(s)) /\ (s.lifecycle = "published" => "revision" \in s.fins)
    <3>1. Claimed(o) => Claimed(s)
      BY <1>1 DEF Claimed
    <3>2. s.lifecycle = "published" => "revision" \in s.fins
      BY <2>1 DEF RootedInv
    <3> QED BY <3>1, <3>2
  <2>3. "revision" \in o.fins /\ (next.request.rev # 0 => o.rev = next.request.rev)
    <3>1. SeenRight(pr)
      BY <2>1 DEF RootedInv
    <3>2. CASE o = s /\ "revision" \in cr.fins
      BY <3>1, <3>2 DEF SeenRight
    <3>3. CASE cr = s /\ "revision" \in o.fins
      BY <1>1, <3>3
    <3> QED BY <1>1, <3>2, <3>3
  <2>4. o.lifecycle = "published" =>
          /\ "revision" \in o.fins
          /\ \/ s.lifecycle = "published"
             \/ Current(pr) = s /\ ~ s.deleting /\ s.conds # {}
    BY <1>1, <2>3
  <2> HIDE DEF s, cr
  <2> QED BY <2>2, <2>3, <2>4 DEF RootedWrite, s
<1> QED BY <1>2, <1>3, <1>4, <1>5 DEF Write

LEMMA RevisionReconcileKeeps ==
  ASSUME PackagesInv, NEW pr \in PRs, RevisionReconcile(pr) PROVE Keeps
<1> DEFINE C == Current(pr)
           cr == AddFinalizer(C, "revision")
           request == RevisionRequest(pr, cr)
           o == IF cr = C THEN store[pr] ELSE cr
           next == Waiting(pr, cr, IsSynced(pr), request)
<1>0. /\ work["revision"] = NoWork /\ "revision" \in Workers /\ "revision" \in Controllers
      /\ Exists(cr) /\ ~ cr.deleting /\ (cr # C => IsSynced(pr))
      /\ UNCHANGED <<gitVars, cache, holder>>
  BY DEF RevisionReconcile, Workers, Controllers
<1>1. Exists(C)
  BY <1>0 DEF AddFinalizer, Exists
<1>2. /\ C \in Objects(MaxRev) /\ cr \in Objects(MaxRev)
      /\ cr = [C EXCEPT !.fins = C.fins \cup {"revision"}]
      /\ IsSynced(pr) => C = store[pr]
  BY <1>0, <1>1, ReadObject
<1> HIDE DEF C
<1>3. /\ cr.rev = C.rev /\ "revision" \in cr.fins /\ C.fins \subseteq cr.fins
      /\ cr.deleting = C.deleting
  BY <1>2 DEF Objects
<1>4. Follows /\ Aside("revision")
  <2>1. holder # "revision"
    BY <1>0, NoWorkParts DEF PackagesInv, CallOfHolder
  <2> QED BY <1>0, <2>1, ReconcileFollows DEF Aside, gitVars
<1>5. CASE /\ request # Idle
           /\ IF cr = C THEN UNCHANGED <<store, synced>> ELSE Changed(pr, cr)
           /\ work' = WorkAfter(pr, o, "revision", next)
  <2>1. request.rev \in {0, cr.rev} /\ request.op # "delete"
    <3> HIDE DEF cr
    <3> QED BY <1>2, <1>5, RevisionRequested
  <2> HIDE DEF request
  <2>2. next.pr = pr /\ next.cr = cr /\ next.request = request
    BY DEF Waiting
  <2>3. Written(pr, o, "revision", next)
    BY <1>0, <1>5, StayWritten DEF Written
  <2>4. \/ o = store[pr] /\ "revision" \in C.fins
        \/ /\ C = store[pr]
           /\ o = [store[pr] EXCEPT !.fins = store[pr].fins \cup {"revision"}]
    BY <1>0, <1>2, <1>3
  <2> HIDE DEF o, cr, next
  <2>5. Write(pr, o, "revision", next)
    BY <1>0, <1>1, <1>3, <2>1, <2>2, <2>3, <2>4, RevisionWaits DEF C
  <2> QED BY <1>4, <2>5, WriteKeeps
<1>6. ASSUME IsSynced(pr), NEW f, f \in {cr, SetTrue(cr, Ready)}, Finish("revision", pr, f)
      PROVE  Keeps
  <2>1. Marked(pr, f) /\ Exists(store[pr]) /\ C = store[pr]
    BY <1>0, <1>1, <1>2, <1>6, MarkedCurrent DEF C
  <2>2. f.fins = cr.fins
    <3> HIDE DEF cr
    <3>1. SetTrue(cr, Ready) = [cr EXCEPT !.conds = cr.conds \cup {Ready}]
      BY <1>2, ObjectWrites
    <3> QED BY <1>2, <1>6, <3>1 DEF Objects
  <2>3. Written(pr, f, "revision", NoWork)
    BY <1>6 DEF Finish, Written
  <2> HIDE DEF cr
  <2>4. Write(pr, f, "revision", NoWork)
    BY <1>0, <1>3, <2>1, <2>2, <2>3, RevisionEnds DEF C
  <2> QED BY <1>4, <2>4, WriteKeeps
<1>7. CASE IsSynced(pr) /\ Finish("revision", pr, SetTrue(cr, Ready))
  BY <1>6, <1>7
<1>8. CASE cr # C /\ Finish("revision", pr, cr)
  BY <1>0, <1>6, <1>8
<1> QED BY <1>5, <1>7, <1>8 DEF RevisionReconcile, C

(* With one finalizer at most, one that is there is the only one.            *)
LEMMA OnlyHolder ==
  ASSUME NEW o \in Objects(MaxRev), "revision" \in o.fins, ~ HeldByOthers(o)
  PROVE  o.fins = {"revision"}
<1>1. o.fins \subseteq Controllers
  BY DEF Objects
<1>2. IsFiniteSet(Controllers)
  <2>1. IsFiniteSet({"revision", "processor"})
    <3>1. IsFiniteSet({"revision"})
      BY FS_Singleton
    <3>2. IsFiniteSet({"revision"} \cup {"processor"})
      BY <3>1, FS_AddElement
    <3>3. {"revision"} \cup {"processor"} = {"revision", "processor"}
      OBVIOUS
    <3> QED BY <3>2, <3>3
  <2>2. IsFiniteSet({"revision", "processor"} \cup {"approver"} \cup {"installer"})
    <3>1. IsFiniteSet({"revision", "processor"} \cup {"approver"})
      BY <2>1, FS_AddElement
    <3> QED BY <3>1, FS_AddElement
  <2>3. Controllers = {"revision", "processor"} \cup {"approver"} \cup {"installer"}
    BY DEF Controllers
  <2> QED BY <2>2, <2>3
<1> DEFINE others == o.fins \ {"revision"}
<1>3. IsFiniteSet(o.fins) /\ IsFiniteSet(others)
  <2>1. IsFiniteSet(o.fins)
    BY <1>1, <1>2, FS_Subset
  <2> QED BY <2>1, FS_RemoveElement
<1>4. /\ Cardinality(o.fins) \in Nat /\ Cardinality(others) \in Nat
      /\ Cardinality(others) = Cardinality(o.fins) - 1
  BY <1>3, FS_CardinalityType, FS_RemoveElement
<1>5. Cardinality(others) = 0
  BY <1>4 DEF HeldByOthers
<1>6. others = {}
  BY <1>3, <1>5, FS_EmptySet
<1> QED BY <1>6

LEMMA RevisionDeleteKeeps ==
  ASSUME PackagesInv, NEW pr \in PRs, RevisionDelete(pr) PROVE Keeps
<1> DEFINE cr == Current(pr)
           s == store[pr]
           request == DeleteRequest(pr, cr.rev)
           next == Waiting(pr, cr, IsSynced(pr), request)
<1>0. /\ work["revision"] = NoWork /\ "revision" \in Workers /\ "revision" \in Controllers
      /\ Ready \in Gates \cup {Ready}
      /\ Exists(cr) /\ cr.deleting /\ UNCHANGED <<gitVars, cache, holder>>
  BY DEF RevisionDelete, Workers, Controllers
<1>1. cr \in Objects(MaxRev) /\ (IsSynced(pr) => cr = s)
  BY <1>0, ReadObject
<1>2. Follows /\ Aside("revision")
  <2>1. holder # "revision"
    BY <1>0, NoWorkParts DEF PackagesInv, CallOfHolder
  <2> QED BY <1>0, <2>1, DeleteFollows DEF Aside, gitVars
<1>3. CASE IsSynced(pr) /\ Finish("revision", pr, SetFalse(cr, Ready))
  <2> DEFINE o == SetFalse(cr, Ready)
  <2>1. Marked(pr, o) /\ Exists(s)
    BY <1>0, <1>3, MarkedCurrent
  <2> HIDE DEF cr
  <2>2. o = [cr EXCEPT !.conds = cr.conds \ {Ready}]
    BY <1>0, <1>1, ObjectWrites
  <2> HIDE DEF o
  <2>3. o.fins = cr.fins /\ o.conds \subseteq cr.conds /\ cr = s
    BY <1>1, <1>3, <2>2 DEF Objects
  <2>4. Written(pr, o, "revision", NoWork)
    BY <1>3 DEF Finish, Written, o
  <2>5. Write(pr, o, "revision", NoWork)
    BY <1>0, <2>1, <2>3, <2>4, RevisionEnds DEF s
  <2> QED BY <1>2, <2>5, WriteKeeps
<1>4. CASE /\ cr.lifecycle # "published" /\ ~ HeldByOthers(cr)
           /\ work' = [work EXCEPT !["revision"] = next] /\ UNCHANGED <<store, synced>>
  <2>1. request.op = "delete" /\ request.rev = cr.rev
    BY DEF DeleteRequest, Request
  <2> HIDE DEF request
  <2>2. next.pr = pr /\ next.cr = cr /\ next.request = request
    BY DEF Waiting
  <2>3. Written(pr, s, "revision", next)
    BY <1>4, StayAfter, StayWritten
  <2>4. HeldInv => cr.fins = {"revision"} /\ LetGo(s, {"revision"}) /\ FirstHeld(s)
    <3>1. SUFFICES ASSUME HeldInv
                   PROVE  cr.fins = {"revision"} /\ LetGo(s, {"revision"}) /\ FirstHeld(s)
      OBVIOUS
    <3>2. FirstHeld(cr) /\ LetGo(s, cr.fins) /\ FirstHeld(s)
      BY <1>0, <3>1 DEF HeldInv
    <3>3. "revision" \in cr.fins
      BY <1>0, <3>2 DEF FirstHeld
    <3> HIDE DEF cr, s
    <3>4. cr.fins = {"revision"}
      BY <1>1, <1>4, <3>3, OnlyHolder
    <3> QED BY <3>2, <3>4
  <2>5. RootedInv =>
          /\ s.lifecycle # "published" /\ Apart(pr, cr.rev)
          /\ s.lifecycle = "published" => "revision" \in s.fins
    BY <1>0, <1>4 DEF RootedInv, SeenRight
  <2>6. "revision" \in s.fins => Exists(s)
    BY StoredFacts, AbsentParts
  <2> HIDE DEF next
  <2>7. NumberWrite(pr, s, "revision", next) /\ Asked("revision", next)
    BY <2>1, <2>2 DEF NumberWrite, Asked
  <2>8. HeldInv => HeldWrite(pr, s, "revision", next)
    <3>1. HeldInv => RevisionHeld(next, s)
      BY <1>0, <2>1, <2>2, <2>4 DEF RevisionHeld
    <3> QED BY <2>4, <3>1 DEF HeldWrite
  <2>9. RootedInv => RootedWrite(pr, s, "revision", next)
    BY <1>0, <2>1, <2>2, <2>5 DEF RootedWrite
  <2>10. Write(pr, s, "revision", next)
    <3> HIDE DEF s
    <3> QED BY <1>0, <2>2, <2>3, <2>6, <2>7, <2>8, <2>9 DEF Write, s
  <2> QED BY <1>2, <2>10, WriteKeeps
<1> QED BY <1>3, <1>4 DEF RevisionDelete

(* And where the Repository cannot be read.                                  *)
LEMMA UnservedKeeps ==
  ASSUME PackagesInv, NEW pr \in PRs, RevisionUnserved(pr) PROVE Keeps
<1> DEFINE f == AddFinalizer(Current(pr), "revision")
           o == SetFalse(f, Ready)
<1>0. /\ work["revision"] = NoWork /\ "revision" \in Workers /\ "revision" \in Controllers
      /\ Ready \in Gates \cup {Ready}
      /\ Exists(f) /\ ~ f.deleting /\ IsSynced(pr)
      /\ Finish("revision", pr, o) /\ RepositoryUnread /\ UNCHANGED <<cache, holder>>
  BY DEF RevisionUnserved, Workers, Controllers
<1>1. Exists(Current(pr))
  BY <1>0 DEF AddFinalizer, Exists
<1>2. /\ f \in Objects(MaxRev) /\ Current(pr) = store[pr] /\ store[pr] \in Objects(MaxRev)
      /\ f = [store[pr] EXCEPT !.fins = store[pr].fins \cup {"revision"}]
  BY <1>0, <1>1, ReadObject
<1>3. Marked(pr, o) /\ Exists(store[pr])
  BY <1>0, <1>1, MarkedCurrent
<1>4. Follows /\ Aside("revision")
  <2>1. holder # "revision"
    BY <1>0, NoWorkParts DEF PackagesInv, CallOfHolder
  <2> QED BY <1>0, <2>1, UnservedFollows DEF Aside, RepositoryUnread
<1> HIDE DEF f
<1>5. /\ o.fins = store[pr].fins \cup {"revision"} /\ ~ store[pr].deleting
  <2>1. o = [f EXCEPT !.conds = f.conds \ {Ready}]
    BY <1>0, <1>2, ObjectWrites
  <2> QED BY <1>0, <1>2, <2>1 DEF Objects
<1>6. Written(pr, o, "revision", NoWork)
  BY <1>0 DEF Finish, Written
<1> HIDE DEF o
<1>7. Write(pr, o, "revision", NoWork)
  BY <1>0, <1>2, <1>3, <1>5, <1>6, RevisionEnds
<1> QED BY <1>4, <1>7, WriteKeeps

LEMMA GivesUpKeeps ==
  ASSUME PackagesInv, NEW pr \in PRs, RevisionGivesUp(pr) PROVE Keeps
<1> DEFINE s == store[pr]
           o == RemoveFinalizer(s, "revision")
<1>0. /\ work["revision"] = NoWork /\ "revision" \in Workers /\ "revision" \in Controllers
      /\ Exists(Current(pr)) /\ Current(pr).deleting /\ ~ HeldByOthers(Current(pr))
      /\ IsSynced(pr) /\ RepositoryUnread /\ UNCHANGED <<cache, holder>>
      /\ Finish("revision", pr, RemoveFinalizer(Current(pr), "revision"))
      /\ NoWork.step = "idle"
  BY NoWorkParts DEF RevisionGivesUp, Workers, Controllers
<1>1. Current(pr) = s /\ Exists(s) /\ s \in Objects(MaxRev)
  BY <1>0, ReadObject
<1>2. o = Absent \/ Marked(pr, o)
  BY <1>1, RemovesFinalizer
<1>3. Follows /\ Aside("revision")
  <2>1. holder # "revision"
    BY <1>0, NoWorkParts DEF PackagesInv, CallOfHolder
  <2> QED BY <1>0, <2>1, GivesUpFollows DEF Aside, RepositoryUnread
<1>4. HeldInv => o = Absent
  <2>1. SUFFICES ASSUME HeldInv PROVE o = Absent
    OBVIOUS
  <2>2. "revision" \in s.fins
    BY <1>0, <1>1, <2>1 DEF HeldInv, FirstHeld
  <2>3. s.fins = {"revision"} /\ s.deleting
    <3> HIDE DEF s
    <3> QED BY <1>0, <1>1, <2>2, OnlyHolder
  <2> QED BY <2>3 DEF RemoveFinalizer
<1>5. Written(pr, o, "revision", NoWork)
  BY <1>0, <1>1 DEF Finish, Written
<1> HIDE DEF o
<1>6. o.rev \in {0, s.rev}
  BY <1>2, AbsentParts DEF Marked
<1>7. NumberWrite(pr, o, "revision", NoWork) /\ Asked("revision", NoWork)
  BY <1>0, <1>6 DEF NumberWrite, Asked
<1>8. HeldInv => HeldWrite(pr, o, "revision", NoWork)
  BY <1>0, <1>4, AbsentParts DEF HeldWrite, RevisionHeld
<1>9. HeldInv => RootedWrite(pr, o, "revision", NoWork)
  BY <1>0, <1>4, AbsentParts DEF RootedWrite
<1>10. Write(pr, o, "revision", NoWork)
  BY <1>0, <1>5, <1>7, <1>8, <1>9 DEF Write
<1> QED BY <1>3, <1>10, WriteKeeps

(* The number given is higher than those in the cache.                       *)
LEMMA AllocatedAbove ==
  ASSUME PackagesInv, NEW pr \in PRs, NEW listed \in SUBSET (0 .. Numbered),
         NEW q \in PRs, PkgOf[q] = PkgOf[pr]
  PROVE  Current(q).rev < NextRevision(AllocatedRevs(pr, listed))
<1> DEFINE revs == AllocatedRevs(pr, listed)
<1>0. "revision" \in Controllers /\ Numbered \in Nat
  BY StoredFacts DEF Controllers
<1>1. \A p \in PRs : Exists(Current(p)) => Current(p).rev \in 0 .. Numbered
  BY <1>0, ReadObject
<1>2. revs \in SUBSET (0 .. Numbered)
  BY <1>1 DEF AllocatedRevs, Recognized
<1>3. NextRevision(revs) \in Nat \ {0} /\ \A r \in revs : r < NextRevision(revs)
  <2> HIDE DEF revs
  <2>1. PICK n \in Nat : n = Numbered
    BY <1>0
  <2> QED BY <1>2, <2>1, NextRevisionBound
<1>4. CASE Exists(Current(q))
  <2>1. Current(q).rev \in revs
    BY <1>4 DEF AllocatedRevs
  <2> QED BY <1>3, <2>1
<1>5. CASE ~ Exists(Current(q))
  <2>1. Current(q) \in Stored
    BY CurrentParts DEF PackagesInv
  <2>2. Current(q) = Absent
    BY <1>5, <2>1, StoredParts
  <2> QED BY <1>3, <2>2, AbsentParts
<1> QED BY <1>4, <1>5

LEMMA AllocationWrites ==
  ASSUME PackagesInv, NEW pr \in PRs, NEW listed \in SUBSET (0 .. Numbered), NEW o,
         o = [store[pr] EXCEPT !.rev = NextRevision(AllocatedRevs(pr, listed))],
         Exists(store[pr]), store[pr].lifecycle = "published",
         Written(pr, o, "revision", NoWork), cache' = cache
  PROVE  Write(pr, o, "revision", NoWork)
<1> DEFINE s == store[pr]
           n == NextRevision(AllocatedRevs(pr, listed))
<1>1. s \in Objects(MaxRev)
  BY StoredFacts
<1>2. \A q \in PRs : PkgOf[q] = PkgOf[pr] => Current(q).rev < n
  BY AllocatedAbove
<1> HIDE DEF n, s
<1>3. /\ o.rev = n /\ o.lifecycle = s.lifecycle /\ o.deleting = s.deleting
      /\ o.fins = s.fins /\ o.conds = s.conds /\ Exists(o)
  BY <1>1 DEF Objects, Exists, Lifecycles, n, s
<1>4. NoWork.step = "idle"
  BY NoWorkParts
<1>5. NumberWrite(pr, o, "revision", NoWork) /\ Asked("revision", NoWork)
  BY <1>2, <1>3, <1>4 DEF NumberWrite, Asked
<1>6. HeldInv => HeldWrite(pr, o, "revision", NoWork)
  <2>1. HeldInv => FirstHeld(o)
    BY <1>3 DEF HeldInv, FirstHeld, s
  <2>2. \A fins : LetGo(s, fins) => LetGo(o, fins)
    BY <1>3 DEF LetGo
  <2> QED BY <1>4, <2>1, <2>2 DEF HeldWrite, RevisionHeld, s
<1>7. RootedInv => RootedWrite(pr, o, "revision", NoWork)
  <2>1. Claimed(o) => Claimed(s)
    BY <1>3 DEF Claimed
  <2>2. RootedInv => "revision" \in s.fins
    BY DEF RootedInv, s
  <2> QED BY <1>3, <1>4, <2>1, <2>2 DEF RootedWrite, s
<1> QED BY <1>3, <1>4, <1>5, <1>6, <1>7 DEF Write

(* Removing the last finalizer: git was cleaned before.                      *)
LEMMA ReleaseWrites ==
  ASSUME PackagesInv, NEW pr \in PRs, NEW s \in Objects(MaxRev), s = store[pr],
         work["revision"].step # "idle", work["revision"].pr = pr, work["revision"].cr = s,
         work["revision"].request.op = "delete",
         AskedInv => Cleaned(pr, s.rev),
         Written(pr, RemoveFinalizer(s, "revision"), "revision", NoWork), cache' = cache
  PROVE  Write(pr, RemoveFinalizer(s, "revision"), "revision", NoWork)
<1> DEFINE o == RemoveFinalizer(s, "revision")
<1>0. NoWork.step = "idle"
  BY NoWorkParts
<1>1. o.rev \in {0, s.rev}
  <2>1. o = Absent \/ o = [s EXCEPT !.fins = s.fins \ {"revision"}]
    BY ObjectWrites DEF Controllers
  <2> HIDE DEF o
  <2> QED BY <2>1, AbsentParts DEF Objects
<1>2. HeldInv => o = Absent
  <2>1. SUFFICES ASSUME HeldInv PROVE o = Absent
    OBVIOUS
  <2>2. s.deleting /\ s.fins = {"revision"}
    BY <2>1 DEF HeldInv, RevisionHeld
  <2> QED BY <2>2 DEF RemoveFinalizer
<1> HIDE DEF o
<1>3. NumberWrite(pr, o, "revision", NoWork) /\ Asked("revision", NoWork)
  BY <1>0, <1>1 DEF NumberWrite, Asked
<1>4. HeldInv => HeldWrite(pr, o, "revision", NoWork)
  BY <1>0, <1>2, AbsentParts DEF HeldWrite, RevisionHeld
<1>5. HeldInv => RootedWrite(pr, o, "revision", NoWork)
  BY <1>0, <1>2, AbsentParts DEF RootedWrite
<1>6. Write(pr, o, "revision", NoWork)
  BY <1>0, <1>3, <1>4, <1>5 DEF Write, o
<1> QED BY <1>6 DEF o

(* Nothing is written when the copy is stale.                                *)
LEMMA ConflictWrites ==
  ASSUME PackagesInv, NEW pr \in PRs, Conflict("revision"), cache' = cache
  PROVE  Write(pr, store[pr], "revision", NoWork)
<1> DEFINE s == store[pr]
<1>1. NoWork.step = "idle"
  BY NoWorkParts
<1>2. Written(pr, s, "revision", NoWork)
  <2>1. work' = [work EXCEPT !["revision"] = NoWork] /\ UNCHANGED <<store, synced>>
    BY DEF Conflict
  <2> QED BY <2>1, StayAfter, StayWritten
<1>3. "revision" \in s.fins => Exists(s)
  BY StoredFacts, AbsentParts
<1>4. NumberWrite(pr, s, "revision", NoWork) /\ Asked("revision", NoWork)
  BY <1>1 DEF NumberWrite, Asked
<1>5. HeldInv => HeldWrite(pr, s, "revision", NoWork)
  BY <1>1 DEF HeldInv, HeldWrite, RevisionHeld
<1>6. RootedInv => RootedWrite(pr, s, "revision", NoWork)
  BY <1>1 DEF RootedInv, RootedWrite
<1> QED BY <1>1, <1>2, <1>3, <1>4, <1>5, <1>6 DEF Write

LEMMA RevisionDoneKeeps == ASSUME PackagesInv, RevisionDone PROVE Keeps
<1> DEFINE k == work["revision"]
           o == RevisionOutcome(k).o
<1>0. /\ "revision" \in Workers /\ "revision" \in Controllers /\ Ready \in Gates \cup {Ready}
      /\ Answered("revision") /\ cache' = cache
      /\ IF k.fresh THEN Finish("revision", k.pr, o) ELSE Conflict("revision")
  BY DEF RevisionDone, Workers, Controllers
<1>1. /\ k.step = "calling" /\ k.pr \in PRs /\ k.cr \in Objects(MaxRev)
      /\ RequestMade("revision", k) /\ call.op = k.request.op
      /\ k.fresh => k.cr = store[k.pr] /\ Exists(store[k.pr])
  BY <1>0, HolderParts
<1>2. PICK pr \in PRs, s \in Objects(MaxRev) : pr = k.pr /\ s = k.cr
  BY <1>1
<1>3. Aside("revision") /\ Follows
  BY <1>0, RevisionDoneFollows DEF Aside
<1>4. CASE ~ k.fresh
  <2>1. Write(pr, store[pr], "revision", NoWork)
    BY <1>0, <1>4, ConflictWrites
  <2> QED BY <1>3, <2>1, WriteKeeps
<1>5. CASE k.fresh
  <2>0. s = store[pr] /\ Written(pr, o, "revision", NoWork) /\ Exists(store[pr])
    BY <1>0, <1>1, <1>2, <1>5 DEF Finish, Written
  <2>1. CASE Deleted
    <3>1. o = RemoveFinalizer(s, "revision") /\ call.op = "delete"
      BY <1>2, <2>1 DEF RevisionOutcome, Deleted
    <3>2. AskedInv => Cleaned(pr, s.rev)
      <4>1. SUFFICES ASSUME AskedInv PROVE Cleaned(pr, s.rev)
        OBVIOUS
      <4>2. holder = "revision" /\ call.step = "done" /\ call.result \in {"ok", "not found"}
        BY <1>0, <2>1 DEF Answered, Return, Deleted
      <4>3. call.pr = k.request.pr /\ call.rev = k.request.rev
        BY <1>0, <4>2 DEF PackagesInv, CallOfHolder
      <4>4. k.request.pr = pr /\ k.request.rev = s.rev
        <5>1. k.request.pr = k.pr
          BY <1>1 DEF RequestMade
        <5>2. k.request.rev = k.cr.rev
          BY <1>0, <1>1, <3>1, <4>1 DEF AskedInv, Asked
        <5> QED BY <1>2, <5>1, <5>2
      <4> QED BY <3>1, <4>1, <4>2, <4>3, <4>4 DEF AskedInv, CallTold
    <3>3. Write(pr, o, "revision", NoWork)
      <4> HIDE DEF o
      <4> QED BY <1>0, <1>1, <1>2, <2>0, <3>1, <3>2, ReleaseWrites
    <3> QED BY <1>3, <3>3, WriteKeeps
  <2>2. CASE ~ Deleted /\ call.op = "list" /\ ~ Failed
    <3>1. PICK listed \in SUBSET (0 .. Numbered) : listed = call.found
      <4>1. call \in Calls(Len(commits)) /\ \A r \in call.found : r <= Numbered
        BY DEF PackagesInv, TypeOK, GitTypeOK, RevisionsCounted
      <4>2. Numbered \in Nat
        BY DEF PackagesInv, RevisionsCounted
      <4>3. call.found \in SUBSET (0 .. Numbered)
        BY <4>1, <4>2 DEF Calls, Revs
      <4> QED BY <4>3
    <3>2. o = [s EXCEPT !.rev = NextRevision(AllocatedRevs(pr, listed))]
      BY <1>2, <2>2, <3>1 DEF RevisionOutcome
    <3>3. s.lifecycle = "published"
      BY <1>1, <1>2, <2>2 DEF RequestMade
    <3> HIDE DEF o, k
    <3>4. o = [store[pr] EXCEPT !.rev = NextRevision(AllocatedRevs(pr, listed))]
      BY <2>0, <3>2
    <3>5. Write(pr, o, "revision", NoWork)
      BY <1>0, <2>0, <3>3, <3>4, AllocationWrites
    <3> QED BY <1>3, <3>5, WriteKeeps
  <2>3. CASE ~ Deleted /\ ~ (call.op = "list" /\ ~ Failed)
    <3>1. \/ o = SetTrue(s, Ready) /\ call.op \in {"ensure", "upsert"}
          \/ o = SetFalse(s, Ready)
      BY <1>2, <2>3 DEF RevisionOutcome
    <3>2. HeldInv /\ call.op \in {"ensure", "upsert"} => "revision" \in s.fins
      BY <1>1, <1>2 DEF HeldInv, RevisionHeld
    <3> HIDE DEF o, k
    <3>3. /\ SetTrue(s, Ready) \in Objects(MaxRev) /\ SetFalse(s, Ready) \in Objects(MaxRev)
          /\ SetTrue(s, Ready) = [s EXCEPT !.conds = s.conds \cup {Ready}]
          /\ SetFalse(s, Ready) = [s EXCEPT !.conds = s.conds \ {Ready}]
      BY <1>0, ObjectWrites
    <3>4. /\ o \in Objects(MaxRev) /\ o.rev = s.rev /\ o.lifecycle = s.lifecycle
          /\ o.deleting = s.deleting /\ o.fins = s.fins
          /\ o.conds \ {Ready} = s.conds \ {Ready}
          /\ o.conds \subseteq s.conds \/ call.op \in {"ensure", "upsert"}
      BY <3>1, <3>3 DEF Objects
    <3>5. Write(pr, o, "revision", NoWork)
      <4>1. Marked(pr, o)
        BY <2>0, <3>4 DEF Marked
      <4> QED BY <1>0, <2>0, <3>2, <3>4, <4>1, RevisionEnds
    <3> QED BY <1>3, <3>5, WriteKeeps
  <2> QED BY <2>1, <2>2, <2>3
<1> QED BY <1>4, <1>5

LEMMA SkipKeeps ==
  ASSUME PackagesInv, NEW pr \in PRs, RevisionSkip(pr) \/ ProcessorSkip(pr) PROVE Keeps
<1>1. UNCHANGED <<gitVars, store, cache, work, holder>>
  BY DEF RevisionSkip, ProcessorSkip
<1> QED BY <1>1, IdleKeeps

LEMMA PackagesKeep == ASSUME PackagesInv, [Next]_vars PROVE Keeps
<1>1. ASSUME NEW pr \in PRs, InformerSync(pr) \/ UserStep(pr) PROVE Keeps
  BY <1>1, SyncKeeps, CreateKeeps, MoveKeeps, UserDeleteKeeps, UserUpdateKeeps DEF UserStep
<1>2. ASSUME NEW pr \in PRs, RevisionStep(pr) \/ ProcessorStep(pr) PROVE Keeps
  BY <1>2, RevisionReconcileKeeps, UnservedKeeps, RevisionDeleteKeeps, GivesUpKeeps,
     SkipKeeps, ProcessorReconcileKeeps DEF RevisionStep, ProcessorStep
<1>3. ASSUME NEW pr \in PRs, ApproverReconcile(pr) \/ InstallerReconcile(pr) PROVE Keeps
  BY <1>3, ApproverKeeps, InstallerKeeps
<1>4. CASE \E w \in Workers : StartCall(w)
  BY <1>4, StartKeeps
<1>5. CASE RunCall \/ RevisionDone
  BY <1>5, RunKeeps, RevisionDoneKeeps
<1>6. CASE ProcessorRun \/ PipelineFails \/ ProcessorDone
  BY <1>6, RunsKeep, PipelineKeeps, ProcessorDoneKeeps
<1>7. CASE UserRun \/ UserDone \/ ServerRestart
  BY <1>7, RunsKeep, UserDoneKeeps, RestartKeeps
<1>8. CASE UNCHANGED vars
  <2>1. UNCHANGED <<gitVars, store, cache, work, holder>>
    BY <1>8 DEF vars, objVars
  <2> QED BY <2>1, IdleKeeps
<1> QED BY <1>1, <1>2, <1>3, <1>4, <1>5, <1>6, <1>7, <1>8 DEF Next

LEMMA PackagesKeptFirst ==
  ASSUME Init PROVE AskedInv /\ HeldInv /\ RootedInv /\ RevisionsUnique
<1>1. /\ GitInit /\ store = [pr \in PRs |-> Absent] /\ cache = store
      /\ work = [w \in Workers |-> NoWork] /\ holder = "none"
  BY DEF Init
<1>2. \A w \in Workers : work[w].step = "idle"
  BY <1>1, NoWorkParts
<1>3. "revision" \in Workers /\ "processor" \in Workers /\ "none" \notin Workers
  BY DEF Workers
<1>4. call.step = "idle" /\ call.op = "none"
  BY <1>1 DEF GitInit, Idle
<1>5. \A pr \in PRs : store[pr] = Absent /\ Current(pr) = Absent
  BY <1>1 DEF Current
<1>6. AskedInv
  BY <1>1, <1>2, <1>3, <1>4 DEF AskedInv, CallTold, CallAsked, Asked
<1>7. HeldInv
  BY <1>2, <1>3, <1>5, AbsentParts DEF HeldInv, RevisionHeld, ProcessorHeld
<1>8. RootedInv
  BY <1>2, <1>3, <1>5, AbsentParts DEF RootedInv, RevisionRooted, SeenRight, Apart
<1>9. RevisionsUnique
  BY <1>5, AbsentParts DEF RevisionsUnique
<1> QED BY <1>6, <1>7, <1>8, <1>9

(* A call works on what it has read: it commits on top of the branch it has  *)
(* seen, and what it is about to tag holds the files it was given.           *)
LEMMA ContentStep ==
  ASSUME ~ InDirectory, PackagesInv, ContentInv, [Next]_vars
  PROVE  ContentInv' /\ [Store!Next]_(Store!vars)
<1>1. CASE [GitNext]_gitVars
  BY <1>1, StoreStep DEF PackagesInv
<1>2. CASE FetchFails /\ call.step = "done"
  <2>1. GitTypeOK /\ call \in Calls(Len(commits)) /\ Kept
    BY <1>2 DEF PackagesInv, GitInv, GitTypeOK, FetchFails, Kept
  <2>2. Same /\ call'.step = "done" /\ UNCHANGED <<commits, remote>>
    <3>1. call' = Done("fault") /\ UNCHANGED <<commits, remote>>
      BY <1>2 DEF FetchFails, Fault
    <3> QED BY <3>1 DEF Done, Same
  <2>3. UNCHANGED <<StoreDrafts, StoreReleases>>
    BY <2>1, <2>2, DraftsKept, ReleasesKept
  <2>4. StoreRequest' = StoreRequest
    BY <1>2, <2>2 DEF StoreRequest, Open, Same
  <2>5. ContentInv'
    BY <2>2, QuietContent
  <2> QED BY <2>3, <2>4, <2>5 DEF Store!vars
<1>3. CASE GitRests
  <2>1. ContentInv'
    BY <1>3 DEF GitRests, ContentInv, RestsBlank, WritesDrafts, BranchWasThere,
                BranchWasRead, CommitHoldsFiles, TaggedBeforeDelete, StoredFiles
  <2>2. UNCHANGED Store!vars
    BY <1>3 DEF GitRests, Store!vars, StoreDrafts, StoreReleases, StoreRequest,
                StoreContent, StoredFiles, Open
  <2> QED BY <2>1, <2>2
<1> QED BY <1>1, <1>2, <1>3, GitStep

----------------------------------------------------------------------------
(* The theorems. *)

(* Types, and the invariant behind what follows: copies that count as fresh  *)
(* are what is stored, whatever the cache lags behind; the running call is   *)
(* the holder's; only what is published has a revision or is approved; no    *)
(* revision is higher than the number of objects that have or had one.       *)
THEOREM PackagesHold == Spec => []PackagesInv
<1>1. PackagesInv /\ [Next]_vars => PackagesInv'
  BY PackagesStep DEF Follows
<1>2. Init => PackagesInv
  BY PackagesInit
<1> QED BY <1>1, <1>2, PTL DEF Spec

(* A revision is allocated once and a published object never goes back to    *)
(* draft or proposed, whoever updates it and from how old a copy.            *)
THEOREM PackagesReleaseIsFinal == Spec => ReleaseIsFinal
<1> DEFINE Final == \A pr \in PRs : Exists(store[pr]) /\ Exists(store'[pr]) =>
             /\ store[pr].rev # 0 => store'[pr].rev = store[pr].rev
             /\ store[pr].lifecycle = "published" =>
                  store'[pr].lifecycle \in {"published", "deletionProposed"}
<1>1. PackagesInv /\ [Next]_vars => Final
  BY PackagesStep DEF Follows, Kind, Released
<1>2. Final => [Final]_vars
  OBVIOUS
<1> HIDE DEF Final
<1>3. Spec => [][Final]_vars
  BY <1>1, <1>2, PackagesHold, PTL DEF Spec
<1> QED BY <1>3 DEF ReleaseIsFinal, Final

(* However old the copies that the controllers work from, a gate is passed   *)
(* after the gates before it, when no gate is named twice.                   *)
THEOREM PackagesGatesInOrder == GatesDistinct => (Spec => []GatesInOrder)
<1> SUFFICES ASSUME GatesDistinct PROVE Spec => []GatesInOrder
  OBVIOUS
<1>1. Init => GatesInOrder
  BY PackagesInit
<1>2. PackagesInv /\ GatesInOrder /\ [Next]_vars => GatesInOrder'
  BY PackagesStep DEF Follows
<1> QED BY <1>1, <1>2, PackagesHold, PTL DEF Spec

(* Whatever the controllers and users ask, every published tag stays in main *)
(* and no push throws away what the server has seen of main.                 *)
THEOREM PackagesKeepMain == Spec => [](SeenMainKept /\ TagsOnMain)
<1>1. PackagesInv => SeenMainKept /\ TagsOnMain
  BY DEF PackagesInv, GitInv, TagsOnSeenMain, SeenMainKept, TagsOnMain
<1> QED BY <1>1, PackagesHold, PTL

(* And no tag moves, however often a reconcile is repeated.                  *)
THEOREM PackagesTagsNeverMove == Spec => TagsNeverMove
<1>1. ASSUME PackagesInv, [Next]_vars PROVE TagsKept
  <2>1. CASE [GitNext]_gitVars
    BY <1>1, <2>1, TagsKeptStep DEF PackagesInv
  <2>2. CASE FetchFails
    BY <2>2 DEF FetchFails, TagsKept
  <2>3. CASE GitRests
    BY <2>3 DEF GitRests, TagsKept
  <2> QED BY <1>1, <2>1, <2>2, <2>3, GitStep
<1>2. TagsKept => [TagsKept]_gitVars
  OBVIOUS
<1>3. Spec => [][TagsKept]_gitVars
  BY <1>1, <1>2, PackagesHold, PTL DEF Spec
<1> QED BY <1>3 DEF TagsNeverMove, TagsKept

(* Git is cleaned first: an object that the packagerevision controller holds *)
(* goes away only when its tag, or the branch of a draft, is gone, whatever  *)
(* was retried, read from an old copy or lost with a restart.  The one way   *)
(* out is a Repository that cannot be read.                                  *)
THEOREM PackagesGitCleanedFirst == Spec => GitCleanedFirst
<1> DEFINE CleanedFirst ==
             \A pr \in PRs : "revision" \in store[pr].fins /\ ~ Exists(store'[pr]) =>
               CleanedUp(pr) \/ RevisionGivesUp(pr)
<1>1. PackagesInv /\ AskedInv /\ [Next]_vars => AskedInv' /\ CleanedFirst
  BY PackagesKeep DEF Keeps, Cleaned, CleanedUp
<1>2. CleanedFirst => [CleanedFirst]_vars
  OBVIOUS
<1>3. Init => AskedInv
  BY PackagesKeptFirst
<1> HIDE DEF CleanedFirst
<1>4. Spec => [][CleanedFirst]_vars
  BY <1>1, <1>2, <1>3, PackagesHold, PTL DEF Spec
<1> QED BY <1>4 DEF GitCleanedFirst, CleanedFirst

(* Without a cache that lags behind, no two package revisions of a package   *)
(* get the same number, although each is taken from a list of git made      *)
(* before the write.  With one they may (packagerevision/reconciler.go).     *)
THEOREM PackagesUniqueWithoutLag == ~ CacheLag => (Spec => []RevisionsUnique)
<1> SUFFICES ASSUME ~ CacheLag PROVE Spec => []RevisionsUnique
  OBVIOUS
<1>1. Init => RevisionsUnique
  BY PackagesKeptFirst
<1>2. PackagesInv /\ RevisionsUnique /\ [Next]_vars => RevisionsUnique'
  BY PackagesKeep DEF Keeps
<1> QED BY <1>1, <1>2, PackagesHold, PTL DEF Spec

(* When a delete reaches git, no other controller has a finalizer on the     *)
(* object any more: not while the call runs, and not in the stored object    *)
(* though the controller read the cache.  An approval that is the first gate *)
(* may come before the packagerevision controller holds the object.          *)
THEOREM PackagesOthersLetGoFirst == ApproveNotFirst => (Spec => []OthersLetGoFirst)
<1> SUFFICES ASSUME ApproveNotFirst PROVE Spec => []OthersLetGoFirst
  OBVIOUS
<1>1. Init => AskedInv /\ HeldInv
  BY PackagesKeptFirst
<1>2. PackagesInv /\ AskedInv /\ HeldInv /\ [Next]_vars => AskedInv' /\ HeldInv'
  BY PackagesKeep DEF Keeps
<1>3. ASSUME PackagesInv, AskedInv, HeldInv PROVE OthersLetGoFirst
  <2> DEFINE k == work["revision"]
  <2>1. SUFFICES ASSUME NEW pr \in PRs, call.op = "delete", call.pr = pr
                 PROVE  store[pr].fins \subseteq {"revision"}
    BY DEF OthersLetGoFirst
  <2>2. holder = "revision" /\ "revision" \in Workers
    BY <1>3, <2>1 DEF AskedInv, CallAsked, Workers
  <2>3. k.step = "calling" /\ call.op = k.request.op /\ call.pr = k.request.pr
    BY <1>3, <2>2 DEF PackagesInv, CallOfHolder
  <2>4. k.request.pr = k.pr
    BY <1>3, <2>2, <2>3, BusyParts
  <2>5. LetGo(store[pr], {"revision"})
    BY <1>3, <2>1, <2>3, <2>4 DEF HeldInv, RevisionHeld
  <2> QED BY <2>5 DEF LetGo
<1> QED BY <1>1, <1>2, <1>3, PackagesHold, PTL DEF Spec

(* What is published is in git, in its branch or under its tag, as long as   *)
(* no two package revisions of a package have the same revision: then the    *)
(* deletion of one removes the tag of the other.  Users who publish an       *)
(* object themselves, and an approval that is the first gate, come before    *)
(* git has anything.                                                         *)
THEOREM PackagesPublishedIsInGit ==
  ApproveNotFirst /\ UsersOnlyRetire => (Spec /\ []RevisionsUnique => []PublishedIsInGit)
<1> SUFFICES ASSUME ApproveNotFirst, UsersOnlyRetire
             PROVE  Spec /\ []RevisionsUnique => []PublishedIsInGit
  OBVIOUS
<1>1. Init => AskedInv /\ HeldInv /\ RootedInv
  BY PackagesKeptFirst
<1>2. PackagesInv /\ AskedInv /\ HeldInv /\ RootedInv /\ RevisionsUnique' /\ [Next]_vars
        => AskedInv' /\ HeldInv' /\ RootedInv'
  BY PackagesKeep DEF Keeps
<1>3. RootedInv => PublishedIsInGit
  BY DEF RootedInv, Claimed, PublishedIsInGit
<1> QED BY <1>1, <1>2, <1>3, PackagesHold, PTL DEF Spec

(* So it is without a lagging cache.                                         *)
THEOREM PackagesPublishedWithoutLag ==
  ~ CacheLag /\ ApproveNotFirst /\ UsersOnlyRetire => (Spec => []PublishedIsInGit)
  BY PackagesUniqueWithoutLag, PackagesPublishedIsInGit

(* Whatever controllers and users ask of it, a call of git works on what it  *)
(* has read: the branch it commits to is the one it has seen, and the commit *)
(* it is about to tag is that of the files it was given.                     *)
THEOREM PackagesContent == ~ InDirectory => (Spec => []ContentInv)
<1> SUFFICES ASSUME ~ InDirectory PROVE Spec => []ContentInv
  OBVIOUS
<1>1. Init => ContentInv
  BY StoreInit DEF Init
<1>2. PackagesInv /\ ContentInv /\ [Next]_vars => ContentInv'
  BY ContentStep
<1> QED BY <1>1, <1>2, PackagesHold, PTL DEF Spec

(* The server as a whole implements the store of drafts and releases that    *)
(* pkg/repository promises, when its Repository has no directory.            *)
THEOREM PackagesImplementStore == ~ InDirectory => (Spec => ImplementsStore)
<1> SUFFICES ASSUME ~ InDirectory PROVE Spec => ImplementsStore
  OBVIOUS
<1>1. Init => Store!Init
  BY StoreInit DEF Init
<1>2. PackagesInv /\ ContentInv /\ [Next]_vars => [Store!Next]_(Store!vars)
  BY ContentStep
<1> QED BY <1>1, <1>2, PackagesContent, PackagesHold, PTL DEF Spec, ImplementsStore, Store!Spec
=============================================================================
