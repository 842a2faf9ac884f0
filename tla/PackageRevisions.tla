-------------------------- MODULE PackageRevisions --------------------------
(***************************************************************************)
(* The life of package revisions: users and four controllers                *)
(* (packagerevision, packageprocessor, packageapproval, packageinstaller)   *)
(* change PackageRevision objects through an API server with optimistic     *)
(* concurrency, read them from one informer cache that lags behind, and     *)
(* carry them out in the git repository of module GitRepository.            *)
(*                                                                          *)
(* A resource version is not a number here: "synced" and a worker's "fresh" *)
(* say whether the copy still has the version that is stored; a write from  *)
(* a copy that is not fresh is a conflict and changes nothing.  A           *)
(* controller runs one reconcile at a time.  Reconciles that do nothing but *)
(* write the object are one action; those that call git are split there.    *)
(***************************************************************************)
EXTENDS GitRepository, PackageLifecycle

CONSTANTS
  GatesOf,        \* the readiness gates of a package revision, in order
  Deployment,     \* is the repository a deployment repository?
  CacheLag,       \* may the informer cache lag behind the API server?
  Upstream,       \* the files a clone task brings
  Generated,      \* the files the function pipeline writes
  Strict,         \* is the update policy strict?
  Tasked,         \* may a new object have a task (TRUE), or none (FALSE)?
  UserMoves,      \* the lifecycle changes users make: pairs <<from, to>>
  UserFiles,      \* the file sets users write
  UserCommits,    \* bound: users begin to write while git holds fewer commits
  MaxCreates      \* bound: objects ever created

ASSUME FiniteAssumption == IsFiniteSet(PRs)
ASSUME GatesAssumption == GatesOf \in [PRs -> Seq(Gates)]
ASSUME ServerAssumption ==
  /\ Deployment \in BOOLEAN /\ CacheLag \in BOOLEAN /\ Strict \in BOOLEAN
  /\ Tasked \in SUBSET BOOLEAN
  /\ Upstream \in SUBSET Files /\ Generated \in SUBSET Files
  /\ UserMoves \in SUBSET (Lifecycles \X Lifecycles)
  /\ UserFiles \in SUBSET (SUBSET Files) /\ UserCommits \in Nat
  /\ MaxCreates \in 0 .. MaxRev    \* an object gets one revision at most

VARIABLES
  store,    \* the objects in the API server
  cache,    \* the informer cache all controllers read
  synced,   \* is the cached copy the stored version?
  queue,    \* the controllers' work queues
  work,     \* the requests that are between two of their steps
  holder,   \* whose call of the repository is running
  creates

objVars == <<store, cache, synced, queue, work, holder, creates>>
vars    == <<gitVars, objVars>>

Workers == {"revision", "processor", "user"}
NoWork  == [step |-> "idle", pr |-> NoPR, cr |-> Absent, fresh |-> FALSE, request |-> Idle]

Stored == Objects(MaxRev) \cup {Absent}
Work   == [step : {"idle", "waiting", "calling"}, pr : PRs \cup {NoPR}, cr : Stored,
           fresh : BOOLEAN, request : Calls(0)]

TypeOK ==
  /\ GitTypeOK
  /\ store \in [PRs -> Stored] /\ cache \in [PRs -> Stored]
  /\ synced \in [PRs -> BOOLEAN]
  /\ queue \in [Controllers -> SUBSET PRs]
  /\ work \in [Workers -> Work]
  /\ holder \in Workers \cup {"none"}
  /\ creates \in 0 .. MaxCreates

Current(pr) == IF CacheLag THEN cache[pr] ELSE store[pr]
IsSynced(pr) == ~ CacheLag \/ synced[pr]

----------------------------------------------------------------------------
(* The API server and the informer. *)

(* An update that gets through: all other copies are stale from here on.    *)
(* Writing what is stored changes nothing, not even the version.            *)
Changed(pr, o) ==
  /\ store' = [store EXCEPT ![pr] = o]
  /\ synced' = [synced EXCEPT ![pr] = @ /\ o = store[pr]]

(* Mutant of WorkAfter: a copy that was fresh stays so. *)
AlwaysFresh(pr, o, w, next) == [v \in Workers |-> IF v = w THEN next ELSE work[v]]

(* The work in progress after that, where worker w goes on as next.         *)
WorkAfter(pr, o, w, next) ==
  [v \in Workers |->
     CASE v = w -> next
       [] v # w /\ work[v].pr = pr /\ o # store[pr] -> [work[v] EXCEPT !.fresh = FALSE]
       [] OTHER -> work[v]]

(* A worker's write of o, the last thing it does.                           *)
Finish(w, pr, o) ==
  /\ Changed(pr, o)
  /\ work' = WorkAfter(pr, o, w, NoWork)
(* It is a conflict when the worker's copy is stale: nothing is written.    *)
Conflict(w) ==
  /\ work' = [work EXCEPT ![w] = NoWork]
  /\ UNCHANGED <<store, synced>>

(* Every controller watches the objects; it returns at once for one that     *)
(* lacks its readiness gate, which is left out here.                         *)
GateOf   == [processor |-> "process", approver |-> "approve", installer |-> "install"]
Watching(pr) ==
  {"revision"} \cup {c \in DOMAIN GateOf : HasReadinessGate(GatesOf[pr], GateOf[c])}

(* The watch event of a change reaches the controllers.                      *)
InformerSync(pr) ==
  /\ ~ synced[pr]
  /\ cache' = [cache EXCEPT ![pr] = store[pr]]
  /\ synced' = [synced EXCEPT ![pr] = TRUE]
  /\ queue' = [c \in Controllers |->
                 IF c \in Watching(pr) THEN queue[c] \cup {pr} ELSE queue[c]]
  /\ UNCHANGED <<gitVars, store, work, holder, creates>>

Dequeue(c, pr) == queue' = [queue EXCEPT ![c] = @ \ {pr}]
Requeue(c, pr) == queue' = [queue EXCEPT ![c] = @ \cup {pr}]

----------------------------------------------------------------------------
(* Calls of the repository.  A worker waits for the repository's mutex.     *)

Waiting(pr, cr, fresh, request) ==
  [step |-> "waiting", pr |-> pr, cr |-> cr, fresh |-> fresh, request |-> request]

StartCall(w) ==
  /\ work[w].step = "waiting"
  /\ holder = "none"
  /\ Start(work[w].request)
  /\ holder' = w
  /\ work' = [work EXCEPT ![w].step = "calling"]
  /\ UNCHANGED <<store, cache, synced, queue, creates>>

RunCall == CallStep /\ UNCHANGED objVars

(* The worker has its answer. *)
Answered(w) ==
  /\ holder = w
  /\ Return
  /\ holder' = "none"
Failed == call.result # "ok"

----------------------------------------------------------------------------
(* The packagerevision controller. *)

(* What a reconcile that does not delete asks of git, if anything.          *)
RevisionRequest(pr, cr) ==
  CASE ~ cr.tasks /\ cr.lifecycle = "published" /\ cr.rev = 0 -> ListRequest(pr)
    [] ~ cr.tasks /\ cr.lifecycle = "published" /\ cr.rev # 0 /\ Deployment ->
         EnsureRequest(pr, cr.rev, Strict)
    [] cr.tasks /\ Ready \notin cr.conds ->
         UpsertRequest(pr, cr.rev, cr.lifecycle = "published", Strict, Upstream)
    [] OTHER -> Idle

(* Reconcile, as far as it gets without git: the finalizer, then either the *)
(* request or the Ready condition.  A conflict is retried; it may come      *)
(* between the two writes.                                                  *)
RevisionReconcile(pr) ==
  LET cr      == AddFinalizer(Current(pr), "revision")
      request == RevisionRequest(pr, cr)
  IN  /\ pr \in queue["revision"] /\ work["revision"] = NoWork
      /\ Exists(cr) /\ ~ cr.deleting
      /\ cr # Current(pr) => IsSynced(pr)
      /\ \/ /\ request # Idle
            /\ IF cr = Current(pr) THEN UNCHANGED <<store, synced>> ELSE Changed(pr, cr)
            /\ work' = WorkAfter(pr, IF cr = Current(pr) THEN store[pr] ELSE cr, "revision",
                                 Waiting(pr, cr, IsSynced(pr), request))
         \/ /\ request = Idle
            /\ IsSynced(pr)
            /\ Finish("revision", pr, SetTrue(cr, Ready))
         \/ /\ request = Idle /\ cr # Current(pr)
            /\ Finish("revision", pr, cr)
      /\ Dequeue("revision", pr)
      /\ UNCHANGED <<gitVars, cache, holder, creates>>

(* The Repository cannot be read, for whatever reason. *)
RepositoryUnread ==
  /\ faults < MaxFaults
  /\ faults' = faults + 1
  /\ UNCHANGED <<commits, remote, local, annotated, call, externals>>

(* Without it nothing is asked of git, and nobody comes back to it.         *)
RevisionUnserved(pr) ==
  LET cr == AddFinalizer(Current(pr), "revision")
  IN  /\ pr \in queue["revision"] /\ work["revision"] = NoWork
      /\ Exists(cr) /\ ~ cr.deleting
      /\ RevisionRequest(pr, cr) # Idle
      /\ IsSynced(pr)
      /\ RepositoryUnread
      /\ Finish("revision", pr, SetFalse(cr, Ready))
      /\ Dequeue("revision", pr)
      /\ UNCHANGED <<cache, holder, creates>>

RevisionSkip(pr) ==
  /\ pr \in queue["revision"] /\ work["revision"] = NoWork
  /\ ~ Exists(Current(pr))
  /\ Dequeue("revision", pr)
  /\ UNCHANGED <<gitVars, store, cache, synced, work, holder, creates>>

(* Mutant of HeldByOthers: one other finalizer is let pass. *)
HeldByTwoOthers(cr) == Cardinality(cr.fins) > 2

(* Finalizers are counted: one is taken to be the controller's own.         *)
HeldByOthers(cr) == Cardinality(cr.fins) > 1

(* Deletion: refused while published, put off while others have finalizers. *)
RevisionDelete(pr) ==
  LET cr == Current(pr)
  IN  /\ pr \in queue["revision"] /\ work["revision"] = NoWork
      /\ Exists(cr) /\ cr.deleting
      /\ \/ /\ cr.lifecycle = "published"
            /\ IsSynced(pr)
            /\ Finish("revision", pr, SetFalse(cr, Ready))
            /\ Dequeue("revision", pr)
         \/ /\ cr.lifecycle # "published" /\ HeldByOthers(cr)
            /\ IsSynced(pr)
            /\ Finish("revision", pr, SetFalse(cr, Ready))
            /\ Requeue("revision", pr)
         \/ /\ cr.lifecycle # "published" /\ ~ HeldByOthers(cr)
            /\ work' = [work EXCEPT !["revision"] =
                          Waiting(pr, cr, IsSynced(pr), DeleteRequest(pr, cr.rev))]
            /\ Dequeue("revision", pr)
            /\ UNCHANGED <<store, synced>>
      /\ UNCHANGED <<gitVars, cache, holder, creates>>

(* Without the Repository the finalizer goes and git stays as it is.        *)
RevisionGivesUp(pr) ==
  LET cr == Current(pr)
  IN  /\ pr \in queue["revision"] /\ work["revision"] = NoWork
      /\ Exists(cr) /\ cr.deleting
      /\ cr.lifecycle # "published" /\ ~ HeldByOthers(cr)
      /\ IsSynced(pr)
      /\ RepositoryUnread
      /\ Finish("revision", pr, RemoveFinalizer(cr, "revision"))
      /\ Dequeue("revision", pr)
      /\ UNCHANGED <<cache, holder, creates>>

(* A package found in a deployment repository has lost the last element of  *)
(* its realm and is never that of the object.                               *)
Recognized(listed) == IF Deployment THEN {} ELSE listed

(* The revisions in use: the tags git lists and the objects in the cache.   *)
AllocatedRevs(pr, listed) ==
  Recognized(listed)
    \cup {Current(q).rev : q \in {q \in PRs : PkgOf[q] = PkgOf[pr] /\ Exists(Current(q))}}

(* Mutant of Deleted: a failure counts as well. *)
DeleteTried == call.op = "delete"

(* What is not there any more has been deleted. *)
Deleted == call.op = "delete" /\ call.result \in {"ok", "not found"}

(* The answer is in: the last write of the reconcile, and whether it comes  *)
(* back by itself.  A failed list does not.                                 *)
RevisionOutcome(w) ==
  LET next == NextRevision(AllocatedRevs(w.pr, call.found))
  IN  CASE Deleted ->
             [o |-> RemoveFinalizer(w.cr, "revision"), again |-> FALSE]
        [] call.op = "list" /\ ~ Failed ->
             [o |-> [w.cr EXCEPT !.rev = next], again |-> TRUE]
        [] call.op \in {"ensure", "upsert"} /\ ~ Failed ->
             [o |-> SetTrue(w.cr, Ready), again |-> FALSE]
        [] OTHER -> [o |-> SetFalse(w.cr, Ready), again |-> call.op # "list"]

RevisionDone ==
  LET w   == work["revision"]
      out == RevisionOutcome(w)
  IN  /\ Answered("revision")
      /\ IF w.fresh THEN Finish("revision", w.pr, out.o) ELSE Conflict("revision")
      /\ IF w.fresh /\ ~ out.again THEN UNCHANGED queue ELSE Requeue("revision", w.pr)
      /\ UNCHANGED <<cache, creates>>

----------------------------------------------------------------------------
(* The function processor. *)

(* It waits for the packagerevision controller (Ready) and for the previous *)
(* gate; not when the object is being deleted, unless it is released.       *)
ProcessorIdle(pr, cr) ==
  \/ ~ Exists(cr)
  \/ /\ ~ cr.deleting
     /\ Ready \notin cr.conds \/ ~ PreviousTrue(GatesOf[pr], "process", cr)
  \/ cr.deleting /\ cr.rev # 0 /\ cr.lifecycle # "deletionProposed"

ProcessorSkip(pr) ==
  /\ pr \in queue["processor"] /\ work["processor"] = NoWork
  /\ ProcessorIdle(pr, Current(pr))
  /\ Dequeue("processor", pr)
  /\ UNCHANGED <<gitVars, store, cache, synced, work, holder, creates>>

(* It reads the package's resources, by the revision the API server knows.  *)
ProcessorReconcile(pr) ==
  LET cr == IF Current(pr).deleting THEN Current(pr)
            ELSE AddFinalizer(Current(pr), "processor")
      Todo == cr.deleting \/ "process" \notin cr.conds
  IN  /\ pr \in queue["processor"] /\ work["processor"] = NoWork
      /\ ~ ProcessorIdle(pr, Current(pr))
      /\ cr # Current(pr) => IsSynced(pr)
      /\ IF cr = Current(pr) THEN UNCHANGED <<store, synced>> ELSE Changed(pr, cr)
      /\ work' = WorkAfter(pr, IF cr = Current(pr) THEN store[pr] ELSE cr, "processor",
                   IF Todo THEN Waiting(pr, cr, IsSynced(pr), GetRequest(pr, Current(pr).rev))
                           ELSE NoWork)
      /\ Dequeue("processor", pr)
      /\ UNCHANGED <<gitVars, cache, holder, creates>>

(* The resources are there: run the pipeline, then write its outcome through *)
(* PackageRevisionResources, whose update knows no lifecycle and no policy.  *)
Upsert(w, files) ==
  /\ call.op = "get" /\ ~ Failed
  /\ Answered(w)
  /\ work' = [work EXCEPT ![w].step = "waiting",
                          ![w].request = UpsertRequest(@.pr, @.rev, FALSE, FALSE, files)]
  /\ UNCHANGED <<store, cache, synced, queue, creates>>

ProcessorRun == ~ work["processor"].cr.deleting /\ Upsert("processor", Generated)

(* The pipeline fails (runkform).                                            *)
PipelineFails ==
  /\ holder = "processor" /\ call.op = "get" /\ call.step = "done" /\ ~ Failed
  /\ Fault
  /\ UNCHANGED <<commits, remote, local, annotated, externals, objVars>>

(* The last write: an error leaves the condition False and is retried.       *)
ProcessorDone ==
  LET w == work["processor"]
      o == IF Failed THEN SetFalse(w.cr, "process")
           ELSE IF w.cr.deleting THEN RemoveFinalizer(w.cr, "processor")
           ELSE SetTrue(w.cr, "process")
  IN  /\ Answered("processor")
      /\ call.op = "upsert" \/ Failed \/ w.cr.deleting
      /\ IF w.fresh THEN Finish("processor", w.pr, o) ELSE Conflict("processor")
      /\ IF w.fresh /\ ~ Failed THEN UNCHANGED queue ELSE Requeue("processor", w.pr)
      /\ UNCHANGED <<cache, creates>>

----------------------------------------------------------------------------
(* Approver and installer: they only write the object. *)

(* The condition that holds the approver and the installer back holds for   *)
(* deletion as well.                                                        *)
ApproverIdle(pr, cr) ==
  \/ ~ Exists(cr)
  \/ ~ PreviousTrue(GatesOf[pr], "approve", cr)

Approved(o) ==
  CASE o.lifecycle \in {"draft", "proposed"} ->
         SetFalse([o EXCEPT !.tasks = FALSE,
                     !.lifecycle = IF o.lifecycle = "draft" THEN "proposed" ELSE "published"],
                  "approve")
    [] o.lifecycle = "published" -> SetTrue(o, "approve")
    [] OTHER -> o

InstallerIdle(pr, cr) ==
  \/ ~ Exists(cr)
  \/ Ready \notin cr.conds
  \/ ~ PreviousTrue(GatesOf[pr], "install", cr)
  \/ cr.rev = 0

(* One reconcile that ends in one of the results; f, the object with the    *)
(* finalizer only, when a conflict comes between the two writes.            *)
WriteReconcile(c, pr, results) ==
  LET cr == Current(pr)
  IN  /\ pr \in queue[c]
      /\ \E o \in results :
           /\ o # cr => IsSynced(pr)
           /\ IF o = cr THEN UNCHANGED <<store, synced, work>>
              ELSE Changed(pr, o) /\ work' = WorkAfter(pr, o, "none", NoWork)
      /\ Dequeue(c, pr)
      /\ UNCHANGED <<gitVars, cache, holder, creates>>

ApproverReconcile(pr) ==
  LET cr == Current(pr)
      f  == AddFinalizer(cr, "approver")
  IN  WriteReconcile("approver", pr,
        IF ApproverIdle(pr, cr) THEN {cr}
        ELSE IF cr.deleting THEN {RemoveFinalizer(cr, "approver")}
        ELSE {Approved(f)} \cup ({f} \ {cr}))

(* The RootSync is created or replaced, and found in good shape or not.     *)
InstallerReconcile(pr) ==
  LET cr == Current(pr)
      f  == AddFinalizer(cr, "installer")
  IN  WriteReconcile("installer", pr,
        IF InstallerIdle(pr, cr) THEN {cr}
        ELSE IF cr.deleting THEN {RemoveFinalizer(cr, "installer")}
        ELSE {SetTrue(f, "install"), f})

----------------------------------------------------------------------------
(* Users, and the end of a process. *)

UserCreate(pr) ==
  /\ ~ Exists(store[pr]) /\ creates < MaxCreates
  /\ creates' = creates + 1
  /\ \E tasks \in Tasked :
       Changed(pr, Draft(tasks)) /\ work' = WorkAfter(pr, Draft(tasks), "none", NoWork)
  /\ UNCHANGED <<gitVars, cache, queue, holder>>

(* A user moves the lifecycle, and may drop the tasks while doing so.       *)
UserMove(pr) ==
  \E move \in UserMoves, tasks \in BOOLEAN :
    LET o == [store[pr] EXCEPT !.lifecycle = move[2], !.tasks = @ /\ tasks]
    IN  /\ store[pr].lifecycle = move[1]
        /\ ValidUpdate(store[pr], o)
        /\ Changed(pr, o)
        /\ work' = WorkAfter(pr, o, "none", NoWork)
        /\ UNCHANGED <<gitVars, cache, queue, holder, creates>>

UserDelete(pr) ==
  LET o == IF store[pr].fins = {} THEN Absent ELSE [store[pr] EXCEPT !.deleting = TRUE]
  IN  /\ Exists(store[pr]) /\ ~ store[pr].deleting
      /\ Changed(pr, o)
      /\ work' = WorkAfter(pr, o, "none", NoWork)
      /\ UNCHANGED <<gitVars, cache, queue, holder, creates>>

(* A user updates the package's resources (PackageRevisionResources): the   *)
(* API server reads them first, by the revision the user has read.          *)
UserUpdate(pr) ==
  /\ work["user"] = NoWork
  /\ Exists(store[pr])
  /\ UserFiles # {} /\ Len(commits) < UserCommits
  /\ work' = [work EXCEPT !["user"] =
                Waiting(pr, store[pr], FALSE, GetRequest(pr, store[pr].rev))]
  /\ UNCHANGED <<gitVars, store, cache, synced, queue, holder, creates>>

UserRun == \E files \in UserFiles : Upsert("user", files)

UserDone ==
  /\ call.op = "upsert" \/ Failed
  /\ Answered("user")
  /\ work' = [work EXCEPT !["user"] = NoWork]
  /\ UNCHANGED <<store, cache, synced, queue, creates>>

(* The server starts again: an up-to-date cache, everything queued.         *)
ServerRestart ==
  /\ Restart
  /\ cache' = store
  /\ synced' = [pr \in PRs |-> TRUE]
  /\ queue' = [c \in Controllers |-> {pr \in PRs : c \in Watching(pr)}]
  /\ work' = [w \in Workers |-> NoWork]
  /\ holder' = "none"
  /\ UNCHANGED <<store, creates>>

----------------------------------------------------------------------------
Init ==
  /\ GitInit
  /\ store = [pr \in PRs |-> Absent] /\ cache = store
  /\ synced = [pr \in PRs |-> TRUE]
  /\ queue = [c \in Controllers |-> {}]
  /\ work = [w \in Workers |-> NoWork]
  /\ holder = "none"
  /\ creates = 0

RevisionStep(pr)  == \/ RevisionReconcile(pr) \/ RevisionUnserved(pr)
                     \/ RevisionDelete(pr) \/ RevisionGivesUp(pr) \/ RevisionSkip(pr)
ProcessorStep(pr) == ProcessorSkip(pr) \/ ProcessorReconcile(pr)
UserStep(pr)      == UserCreate(pr) \/ UserMove(pr) \/ UserDelete(pr) \/ UserUpdate(pr)

Next ==
  \/ \E pr \in PRs : \/ InformerSync(pr) \/ UserStep(pr)
                     \/ RevisionStep(pr) \/ ProcessorStep(pr)
                     \/ ApproverReconcile(pr) \/ InstallerReconcile(pr)
  \/ \E w \in Workers : StartCall(w)
  \/ RunCall \/ RevisionDone
  \/ ProcessorRun \/ PipelineFails \/ ProcessorDone
  \/ UserRun \/ UserDone
  \/ ServerRestart

Spec == Init /\ [][Next]_vars

(* The informer delivers, every controller works off its queue, calls end.  *)
Fairness ==
  /\ \A pr \in PRs : /\ WF_vars(InformerSync(pr))
                     /\ WF_vars(RevisionStep(pr)) /\ WF_vars(ProcessorStep(pr))
                     /\ WF_vars(ApproverReconcile(pr)) /\ WF_vars(InstallerReconcile(pr))
  /\ \A w \in Workers : SF_vars(StartCall(w))
  /\ WF_vars(RunCall) /\ WF_vars(RevisionDone)
  /\ WF_vars(ProcessorRun \/ ProcessorDone) /\ WF_vars(UserRun \/ UserDone)

FairSpec == Spec /\ Fairness

----------------------------------------------------------------------------
(* Properties. *)

OnRemote(pr) ==
  \/ remote.branch[pr] # NoRef
  \/ store[pr].rev # 0 /\ remote.tag[Tag(pr, store[pr].rev)] # NoRef

(* No two package revisions of a package have the same revision: the number  *)
(* is taken from a list made before the update that writes it               *)
(* (packagerevision/reconciler.go:221-291).                                  *)
RevisionsUnique ==
  \A p, q \in PRs :
    p # q /\ PkgOf[p] = PkgOf[q] /\ store[p].rev # 0 => store[p].rev # store[q].rev

(* The inductive invariant behind ReleaseIsFinal, GatesInOrder and the types: *)
(* what a copy that counts as fresh says is what is stored, a request is one  *)
(* of those that a worker makes, and the running call is that of the holder.  *)
CopiesKept ==
  /\ \A pr \in PRs : synced[pr] => cache[pr] = store[pr]
  /\ \A w \in Workers : work[w].fresh => work[w].cr = store[work[w].pr]

Requested(q) ==
  /\ q.pr \in PRs /\ q.rev \in 0 .. MaxRev
  /\ \/ q = UpsertRequest(q.pr, q.rev, q.published, q.strict, q.files)
     \/ q = EnsureRequest(q.pr, q.rev, q.strict) /\ q.rev # 0
     \/ q = DeleteRequest(q.pr, q.rev)
     \/ q = ListRequest(q.pr)
     \/ q = GetRequest(q.pr, q.rev)
RequestMade(w, k) ==
  IF k.step = "idle" THEN k = NoWork
  ELSE /\ k.pr \in PRs /\ Exists(k.cr)
       /\ Requested(k.request) /\ k.request.pr = k.pr
       /\ k.request.op = "list" =>
            w = "revision" /\ k.cr.rev = 0 /\ k.cr.lifecycle = "published"
       /\ w = "processor" /\ ~ k.cr.deleting =>
            "process" \notin k.cr.conds /\ PreviousTrue(GatesOf[k.pr], "process", k.cr)
RequestsMade == \A w \in Workers : RequestMade(w, work[w])

CallOfHolder ==
  /\ holder = "none" => call.step = "idle"
  /\ \A w \in Workers : work[w].step = "calling" <=> holder = w
  /\ \A w \in Workers : holder = w =>
       /\ call.step # "idle" /\ call.op = work[w].request.op
       /\ call.pr = work[w].request.pr /\ call.rev = work[w].request.rev

(* Only what is published has a revision or is approved.                     *)
Released(o) == o.lifecycle \in {"published", "deletionProposed"}
ReleasedFirst(o) == o.rev # 0 \/ "approve" \in o.conds => Released(o)
AllReleasedFirst == \A pr \in PRs : ReleasedFirst(store[pr])

(* An object gets one revision at most, so that there are never more than    *)
(* objects that have one, or had.                                            *)
Unnumbered == {pr \in PRs : Exists(store[pr]) /\ store[pr].rev = 0}
Numbered   == creates - Cardinality(Unnumbered)
RevisionsCounted ==
  /\ Numbered \in Nat
  /\ \A pr \in PRs : store[pr].rev <= Numbered /\ cache[pr].rev <= Numbered
  /\ \A w \in Workers : work[w].cr.rev <= Numbered /\ work[w].request.rev <= Numbered
  /\ call.rev <= Numbered /\ \A r \in call.found : r <= Numbered
  /\ \A t \in TagNames :
       remote.tag[t] # NoRef \/ local.tag[t] # NoRef => t[2] <= Numbered

PackagesInv ==
  /\ TypeOK /\ GitInv
  /\ CopiesKept /\ RequestsMade /\ CallOfHolder /\ AllReleasedFirst /\ RevisionsCounted

(* A revision is allocated once and a published object never goes back to    *)
(* draft or proposed, although the approver, the packagerevision controller  *)
(* and users all update the object from copies read earlier.                 *)
ReleaseIsFinal ==
  [][\A pr \in PRs : Exists(store[pr]) /\ Exists(store'[pr]) =>
       /\ store[pr].rev # 0 => store'[pr].rev = store[pr].rev
       /\ store[pr].lifecycle = "published" =>
            store'[pr].lifecycle \in {"published", "deletionProposed"}]_vars

(* A gate is passed after the gates before it, although the controllers     *)
(* work from copies of different age (GetPreviousCondition in each of them). *)
(* Deletion takes the gates back in any order.                               *)
InOrder(gates, o) ==
  ~ o.deleting =>
    \A i \in DOMAIN gates : gates[i] \in o.conds =>
      \A j \in 1 .. i - 1 : gates[j] \in o.conds
GatesInOrder == \A pr \in PRs : InOrder(GatesOf[pr], store[pr])

(* What is published is in git: in the workspace branch, then under the tag. *)
PublishedIsInGit ==
  \A pr \in PRs : store[pr].lifecycle = "published" => OnRemote(pr)

(* What may be written after a file was stored: by the pipeline, by users    *)
(* and, from a cache that lags behind, by the task again.  A file is spared  *)
(* by them when none replaces the directory it is in without it.             *)
Overwrites == {Generated} \cup UserFiles \cup (IF CacheLag THEN {Upstream} ELSE {})
Spared == {f \in Files : \A files \in Overwrites : f \in files \/ f \notin Replaced(files)}

(* A released package holds what its task brought and its pipeline wrote,    *)
(* but for what was replaced with the directory it was in (commit.go:244-274 *)
(* under the loose policy of the pipeline's and the users' writes).          *)
Full == (Upstream \cup Generated) \cap Spared
ReleasedIsComplete ==
  \A pr \in PRs :
    LET tag == remote.tag[Tag(pr, store[pr].rev)]
    IN  store[pr].rev # 0 /\ tag # NoRef => Full \subseteq StoredFiles(tag, PkgOf[pr])

(* The object goes last: its tag, or the branch of a draft, is then gone,    *)
(* unless the controller could not read the Repository and gave git up       *)
(* (packagerevision/reconciler.go:147-196).                                  *)
CleanedUp(pr) ==
  IF store[pr].rev = 0 THEN remote.branch[pr] = NoRef
                       ELSE remote.tag[Tag(pr, store[pr].rev)] = NoRef
GitCleanedFirst ==
  [][\A pr \in PRs : "revision" \in store[pr].fins /\ ~ Exists(store'[pr]) =>
       CleanedUp(pr) \/ RevisionGivesUp(pr)]_vars

(* Git is cleaned after the other controllers have let go.                   *)
OthersLetGoFirst ==
  \A pr \in PRs : call.op = "delete" /\ call.pr = pr =>
                    store[pr].fins \subseteq {"revision"}

(* A deleted package revision goes away, once it is not published.           *)
DeletionCompletes ==
  \A pr \in PRs : store[pr].deleting /\ store[pr].lifecycle # "published"
                    ~> ~ Exists(store[pr]) \/ store[pr].lifecycle = "published"

(* A package revision whose tag is in git gets or stays ready: commitToMain   *)
(* (pkg/git/pkg/git_upsert.go:263-315) is asked again on every reconcile.     *)
ReleasedIsReady ==
  \A pr \in PRs :
    store[pr].rev # 0 /\ remote.tag[Tag(pr, store[pr].rev)] # NoRef
      ~> Ready \in store[pr].conds \/ store[pr].deleting \/ ~ Exists(store[pr])

(* A draft with a task and gates for processing and approval is released.    *)
DraftIsReleased ==
  \A pr \in PRs : store[pr].lifecycle = "draft" /\ store[pr].tasks
    ~> \/ store[pr].rev # 0 /\ remote.tag[Tag(pr, store[pr].rev)] # NoRef
       \/ store[pr].deleting \/ ~ Exists(store[pr])
=============================================================================
