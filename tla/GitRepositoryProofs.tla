------------------------ MODULE GitRepositoryProofs ------------------------
(* Proofs about GitRepository, for every set of package revisions, packages  *)
(* and files, and for every bound: its invariants, and that a repository     *)
(* whose Repository has no directory implements the store of PackageStore.   *)
EXTENDS GitRepository, SequenceTheorems, TLAPS

USE PRsAssumption, PackagesAssumption, DirectoryAssumption, BoundsAssumption

----------------------------------------------------------------------------
(* Lemmas about the operators. *)

(* Every tag belongs to the package of its package revision.                 *)
LEMMA TagType ==
  ASSUME NEW pr \in PRs, NEW rev \in Revs PROVE Tag(pr, rev) \in TagNames
  BY DEF Tag, TagNames

(* References stay references when the object stores grow.                   *)
LEMMA RefsGrow ==
  ASSUME NEW n \in Nat, NEW m \in Nat, n <= m PROVE Refs(n) \subseteq Refs(m)
  BY DEF Refs

LEMMA CallsGrow ==
  ASSUME NEW n \in Nat, NEW m \in Nat, n <= m PROVE Calls(n) \subseteq Calls(m)
  BY DEF Calls

(* Setting one reference.                                                    *)
LEMMA SetRefs ==
  ASSUME NEW n \in Nat, NEW refs \in Refs(n), NEW c \in 0 .. n
  PROVE  /\ c # 0 => SetMain(refs, c) \in Refs(n)
         /\ \A pr \in PRs : SetBranch(refs, pr, c) \in Refs(n)
         /\ \A t \in TagNames : SetTag(refs, t, c) \in Refs(n)
  BY DEF Refs, SetMain, SetBranch, SetTag

LEMMA SetRefsFields ==
  ASSUME NEW n \in Nat, NEW refs \in Refs(n), NEW c
  PROVE  /\ SetMain(refs, c).main = c
         /\ SetMain(refs, c).tag = refs.tag /\ SetMain(refs, c).branch = refs.branch
         /\ \A pr \in PRs : /\ SetBranch(refs, pr, c).main = refs.main
                            /\ SetBranch(refs, pr, c).tag = refs.tag
         /\ \A t \in TagNames : /\ SetTag(refs, t, c).main = refs.main
                                /\ SetTag(refs, t, c).branch = refs.branch
                                /\ SetTag(refs, t, c).tag = [refs.tag EXCEPT ![t] = c]
  BY DEF Refs, SetMain, SetBranch, SetTag

(* A fetch lays the remote's references over those of the clone.             *)
LEMMA OverlayType ==
  ASSUME NEW n \in Nat, remote \in Refs(n), NEW refs \in Refs(n)
  PROVE  Overlay(refs) \in Refs(n)
  BY DEF Refs, Overlay

(* The call between two steps.                                               *)
LEMMA GotoType ==
  ASSUME NEW n \in Nat, call \in Calls(n), NEW step \in Steps
  PROVE  /\ Goto(step) \in Calls(n)
         /\ Goto(step).step = step /\ Goto(step).op = call.op /\ Goto(step).pr = call.pr
         /\ Goto(step).rev = call.rev /\ Goto(step).head = call.head
         /\ Goto(step).commit = call.commit /\ Goto(step).files = call.files
         /\ Goto(step).strict = call.strict
  BY DEF Calls, Goto

LEMMA DoneType ==
  ASSUME NEW n \in Nat, call \in Calls(n), NEW result \in Results
  PROVE  /\ Done(result) \in Calls(n)
         /\ Done(result).step = "done" /\ Done(result).op = call.op
         /\ Done(result).pr = call.pr /\ Done(result).rev = call.rev
  BY DEF Calls, Done, Steps, NoRef

LEMMA IdleType ==
  ASSUME NEW n \in Nat
  PROVE  Idle \in Calls(n)
<1>1. "none" \in Ops /\ "idle" \in Steps /\ "" \in Results
  BY DEF Ops, Steps, Results
<1>2. 0 \in 0 .. MaxRev /\ NoRef \in 0 .. n
  BY DEF NoRef
<1> QED BY <1>1, <1>2 DEF Idle, Calls

LEMMA CallExcept ==
  ASSUME NEW n \in Nat, NEW c \in Calls(n)
  PROVE  /\ \A h \in 0 .. n : /\ [c EXCEPT !.head = h] \in Calls(n)
                              /\ [c EXCEPT !.commit = h] \in Calls(n)
         /\ \A f \in SUBSET Files : [c EXCEPT !.files = f] \in Calls(n)
         /\ \A f \in SUBSET Revs : [c EXCEPT !.found = f] \in Calls(n)
  BY DEF Calls

(* A commit adds itself to its parent's history and changes one package.     *)
LEMMA NewCommitType ==
  ASSUME GitTypeOK, NEW parent \in Commits, NEW pkg \in Packages,
         NEW files \in SUBSET Files, NEW strict \in BOOLEAN
  PROVE  /\ NewCommit(parent, pkg, files, strict)
              \in [history : SUBSET (1 .. Len(commits) + 1), tree : Trees]
         /\ NewCommit(parent, pkg, files, strict).history
              = commits[parent].history \cup {Len(commits) + 1}
<1> DEFINE Old == [history : SUBSET Commits, tree : Trees]
<1>0. commits \in Seq(Old) /\ parent \in 1 .. Len(commits)
  BY DEF GitTypeOK, Commits
<1> HIDE DEF Old
<1>1. commits[parent] \in [history : SUBSET Commits, tree : Trees]
  BY <1>0, ElementOfSeq DEF Old
<1>2. PackageTree(parent, pkg) \in SUBSET (Files \cup {Here})
  BY <1>1 DEF PackageTree, Trees
<1>3. StoreFiles(PackageTree(parent, pkg), files, strict) \in SUBSET (Files \cup {Here})
  BY <1>2 DEF StoreFiles
<1> DEFINE stored == StoreFiles(PackageTree(parent, pkg), files, strict)
<1> HIDE DEF stored
<1>4. [commits[parent].tree EXCEPT ![pkg] = stored] \in Trees
  BY <1>1, <1>3 DEF Trees, stored
<1>5. /\ Len(commits) \in Nat /\ Len(commits) + 1 \in 1 .. Len(commits) + 1
      /\ Commits \subseteq 1 .. Len(commits) + 1
  BY DEF GitTypeOK, Commits
<1>6. commits[parent].history \cup {Len(commits) + 1} \in SUBSET (1 .. Len(commits) + 1)
  BY <1>1, <1>5
<1> QED BY <1>4, <1>6 DEF NewCommit, stored

(* The resources of a commit are files.                                      *)
LEMMA ResourcesType ==
  ASSUME GitTypeOK, NEW c \in Commits, NEW pkg \in Packages
  PROVE  Resources(c, pkg) \in SUBSET Files
<1> DEFINE Old == [history : SUBSET Commits, tree : Trees]
<1>1. commits \in Seq(Old) /\ c \in 1 .. Len(commits)
  BY DEF GitTypeOK, Commits
<1> HIDE DEF Old
<1>2. commits[c] \in Old
  BY <1>1, ElementOfSeq
<1>3. commits[c].tree[pkg] \in SUBSET (Files \cup {Here})
  BY <1>2 DEF Old, Trees
<1> QED BY <1>3 DEF Resources, PackageTree

(* The object stores only grow.                                              *)
Grown ==
  /\ Len(commits') = Len(commits) + 1
  /\ \A c \in Commits : commits'[c] = commits[c]
  /\ commits' \in Seq([history : SUBSET Commits', tree : Trees])

LEMMA AppendGrows ==
  ASSUME GitTypeOK,
         NEW new \in [history : SUBSET (1 .. Len(commits) + 1), tree : Trees],
         commits' = Append(commits, new)
  PROVE  Grown /\ commits'[Len(commits) + 1] = new
<1> DEFINE Old == [history : SUBSET Commits, tree : Trees]
           New == [history : SUBSET (1 .. Len(commits) + 1), tree : Trees]
<1>1. commits \in Seq(Old) /\ Len(commits) \in Nat
  BY DEF GitTypeOK
<1>2. Old \subseteq New /\ new \in New
  BY <1>1 DEF Commits
<1> HIDE DEF Old, New
<1>3. commits \in Seq(New)
  BY <1>1, <1>2
<1>4. /\ commits' \in Seq(New) /\ Len(commits') = Len(commits) + 1
      /\ \A c \in 1 .. Len(commits) : commits'[c] = commits[c]
      /\ commits'[Len(commits) + 1] = new
  BY <1>1, <1>2, <1>3, AppendProperties
<1> QED BY <1>4 DEF Grown, Commits, New

----------------------------------------------------------------------------
(* Type correctness. *)

LEMMA GitTypeInit == GitInit => GitTypeOK
<1> SUFFICES ASSUME GitInit PROVE GitTypeOK
  OBVIOUS
<1> DEFINE first == [history |-> {1}, tree |-> [p \in Packages |-> {}]]
<1>1. commits = <<first>> /\ Len(commits) = 1 /\ Len(commits) \in Nat \ {0}
  BY DEF GitInit
<1>2. first \in [history : SUBSET Commits, tree : Trees]
  BY <1>1 DEF Commits, Trees
<1> DEFINE Type == [history : SUBSET Commits, tree : Trees]
<1> HIDE DEF first, Type
<1>3. commits \in Seq(Type)
  <2>1. commits = Append(<<>>, first) /\ << >> \in Seq(Type)
    BY <1>1
  <2> QED BY <1>2, <2>1, AppendProperties DEF Type
<1>4. remote \in Refs(1) /\ local \in Refs(1)
  BY DEF GitInit, Refs, NoRef
<1>5. call \in Calls(1)
  BY IdleType DEF GitInit
<1> QED BY <1>1, <1>3, <1>4, <1>5 DEF GitInit, GitTypeOK, Type

(* The references and the call keep their type when a commit is added.       *)
LEMMA TypeGrows ==
  ASSUME GitTypeOK, Grown
  PROVE  /\ Len(commits') \in Nat \ {0}
         /\ Len(commits) + 1 \in 0 .. Len(commits')
         /\ remote \in Refs(Len(commits')) /\ local \in Refs(Len(commits'))
         /\ call \in Calls(Len(commits'))
  BY RefsGrow, CallsGrow DEF GitTypeOK, Grown

(* What a step that makes no commit has to keep, and what one that does.     *)
LEMMA TypeStays ==
  ASSUME GitTypeOK, UNCHANGED commits,
         remote' \in Refs(Len(commits)), local' \in Refs(Len(commits)),
         annotated' \in SUBSET TagNames, call' \in Calls(Len(commits)),
         faults' \in 0 .. MaxFaults, externals' \in 0 .. MaxExternal
  PROVE  GitTypeOK'
  BY DEF GitTypeOK, Commits

LEMMA TypeAppends ==
  ASSUME GitTypeOK, Grown,
         remote' \in Refs(Len(commits')), local' \in Refs(Len(commits')),
         annotated' \in SUBSET TagNames, call' \in Calls(Len(commits')),
         faults' \in 0 .. MaxFaults, externals' \in 0 .. MaxExternal
  PROVE  GitTypeOK'
  BY DEF GitTypeOK, Grown

(* A failed exchange ends the call.                                          *)
LEMMA FaultType ==
  ASSUME GitTypeOK, NEW n \in Nat, call \in Calls(n), Fault
  PROVE  faults' \in 0 .. MaxFaults /\ call' \in Calls(n)
                 /\ call'.step = "done" /\ call'.op = call.op
                 /\ call'.pr = call.pr /\ call'.rev = call.rev
<1>1. "fault" \in Results
  BY DEF Results
<1> QED BY <1>1, DoneType DEF Fault, GitTypeOK

(* The fetched references.                                                   *)
LEMMA FetchType ==
  ASSUME GitTypeOK
  PROVE  /\ Fetched \in Refs(Len(commits))
         /\ StillAnnotated \in SUBSET TagNames
         /\ Fetched.main = remote.main
         /\ \A t \in TagNames : remote.tag[t] # NoRef => Fetched.tag[t] # NoRef
         /\ \A pr \in PRs : local.branch[pr] # NoRef => Fetched.branch[pr] # NoRef
<1>1. Fetched \in Refs(Len(commits))
  BY OverlayType DEF GitTypeOK, Fetched
<1> QED BY <1>1 DEF GitTypeOK, Fetched, Overlay, StillAnnotated

----------------------------------------------------------------------------
(* Steps, by what they do to the references and to the call. *)

RefsInv == InOwnHistory /\ SeenMainKept /\ TagsOnSeenMain /\ TagsKnown
CallInv == CallShape /\ NewTagOnSeenMain /\ NewTagIsNew

LEMMA GitInvParts == GitInv <=> GitTypeOK /\ RefsInv /\ CallInv
  BY DEF GitInv, RefsInv, CallInv
LEMMA GitInvNext == ASSUME GitTypeOK', RefsInv', CallInv' PROVE GitInv'
  BY DEF GitInv, RefsInv, CallInv

(* A fetch brings the clone's main up to the remote's.                       *)
LEMMA RefsFetched ==
  ASSUME GitTypeOK, RefsInv, UNCHANGED <<commits, remote>>, local' = Fetched
  PROVE  RefsInv'
<1>1. InOwnHistory' /\ SeenMainKept'
  BY FetchType DEF RefsInv, InOwnHistory, Commits, SeenMainKept
<1>2. TagsOnSeenMain' /\ TagsKnown'
  BY FetchType DEF RefsInv, SeenMainKept, TagsOnSeenMain, TagsKnown
<1> QED BY <1>1, <1>2 DEF RefsInv

(* Tags come and go while main stays.                                        *)
LEMMA RefsTagged ==
  ASSUME GitTypeOK, RefsInv, UNCHANGED commits,
         remote'.main = remote.main, local'.main = local.main,
         \A t \in TagNames : remote'.tag[t] # NoRef =>
           local'.tag[t] # NoRef /\ remote'.tag[t] \in commits[local.main].history
  PROVE  RefsInv'
  BY DEF RefsInv, InOwnHistory, Commits, SeenMainKept, TagsOnSeenMain, TagsKnown

(* A commit is added; main stays, or moves to that commit.                   *)
LEMMA RefsCommitted ==
  ASSUME GitTypeOK, RefsInv, Grown, NEW new, new = Len(commits) + 1,
         new \in commits'[new].history,
         remote'.tag = remote.tag, local'.tag = local.tag,
         \/ remote'.main = remote.main /\ local'.main = local.main
         \/ /\ remote'.main = new /\ local'.main \in {local.main, new}
            /\ commits[local.main].history \subseteq commits'[new].history
  PROVE  RefsInv'
<1>1. local.main \in Commits /\ remote.main \in Commits
  BY DEF GitTypeOK, Refs, Commits
<1>2. commits'[local.main] = commits[local.main] /\ commits'[remote.main] = commits[remote.main]
  BY <1>1 DEF Grown
<1>3. InOwnHistory'
  <2> SUFFICES ASSUME NEW c \in Commits' PROVE c \in commits'[c].history
    BY DEF InOwnHistory
  <2>1. c = new \/ c \in Commits
    BY DEF Grown, GitTypeOK, Commits
  <2> QED BY <2>1 DEF RefsInv, InOwnHistory, Grown
<1>4. SeenMainKept' /\ TagsOnSeenMain' /\ TagsKnown'
  BY <1>1, <1>2 DEF RefsInv, SeenMainKept, TagsOnSeenMain, TagsKnown
<1> QED BY <1>3, <1>4 DEF RefsInv

(* A call that is not between the reading of a branch and its removal.       *)
LEMMA QuietCall ==
  ASSUME call'.step \notin {"publish", "createTag", "pushTag", "deleteBranch"},
         call'.op = "ensure" => call'.step # "refetch" /\ call'.rev \in Revs,
         call'.step # "idle" => call'.pr \in PRs /\ call'.op # "none"
  PROVE  CallInv'
  BY DEF CallInv, CallShape, NewTagOnSeenMain, NewTagIsNew

LEMMA IdleQuiet == ASSUME call' = Idle PROVE CallInv'
  BY QuietCall DEF Idle

(* A call that has ended.                                                    *)
LEMMA DoneQuiet ==
  ASSUME GitTypeOK, CallShape, call.step # "idle",
         call'.step = "done", call'.op = call.op, call'.pr = call.pr, call'.rev = call.rev
  PROVE  CallInv'
  BY QuietCall DEF CallShape
----------------------------------------------------------------------------
(* The actions. *)

LEMMA RequestType ==
  ASSUME NEW n \in Nat, NEW op \in {"upsert", "ensure", "delete", "list", "get"},
         NEW pr \in PRs, NEW rev \in 0 .. MaxRev, NEW published \in BOOLEAN,
         NEW strict \in BOOLEAN, NEW files \in SUBSET Files
  PROVE  /\ Request(op, pr, rev, published, strict, files) \in Calls(n)
         /\ Request(op, pr, rev, published, strict, files).step = "fetch"
         /\ Request(op, pr, rev, published, strict, files).op = op
         /\ Request(op, pr, rev, published, strict, files).pr = pr
         /\ Request(op, pr, rev, published, strict, files).rev = rev
<1>1. "fetch" \in Steps /\ "" \in Results /\ op \in Ops
  BY DEF Steps, Results, Ops
<1>2. NoRef \in 0 .. n
  BY DEF NoRef
<1> QED BY <1>1, <1>2 DEF Request, Calls

(* Any request that is valid may start.                                      *)
LEMMA StartInv ==
  ASSUME GitInv, NEW request \in Calls(Len(commits)), Start(request),
         request.step = "fetch", request.pr \in PRs, request.op # "none",
         request.op = "ensure" => request.rev \in Revs
  PROVE  GitInv'
<1>1. GitTypeOK'
  BY TypeStays DEF GitInv, GitTypeOK, Start
<1>2. RefsInv'
  BY GitInvParts, RefsTagged DEF Start, RefsInv, TagsKnown, TagsOnSeenMain
<1>3. CallInv'
  BY QuietCall DEF Start
<1> QED BY <1>1, <1>2, <1>3, GitInvNext

LEMMA StartAnyInv == ASSUME GitInv, StartAny PROVE GitInv'
<1>1. PICK pr \in PRs, rev \in 0 .. MaxRev, strict \in BOOLEAN :
        \/ \E published \in BOOLEAN, files \in SUBSET Files :
             Start(UpsertRequest(pr, rev, published, strict, files))
        \/ rev # 0 /\ Start(EnsureRequest(pr, rev, strict))
        \/ Start(DeleteRequest(pr, rev))
        \/ Start(ListRequest(pr))
        \/ Start(GetRequest(pr, rev))
  BY DEF StartAny
<1>2. Len(commits) \in Nat /\ 0 \in 0 .. MaxRev
  BY DEF GitInv, GitTypeOK
<1>10. \A op \in {"upsert", "ensure", "delete", "list", "get"} :
       \A r \in 0 .. MaxRev, published \in BOOLEAN, s \in BOOLEAN, files \in SUBSET Files :
         Start(Request(op, pr, r, published, s, files)) /\ (op = "ensure" => r \in Revs)
           => GitInv'
  <2> SUFFICES ASSUME NEW op \in {"upsert", "ensure", "delete", "list", "get"},
                      NEW r \in 0 .. MaxRev, NEW published \in BOOLEAN,
                      NEW s \in BOOLEAN, NEW files \in SUBSET Files,
                      Start(Request(op, pr, r, published, s, files)),
                      op = "ensure" => r \in Revs
               PROVE  GitInv'
    OBVIOUS
  <2> DEFINE request == Request(op, pr, r, published, s, files)
  <2>1. /\ request \in Calls(Len(commits)) /\ request.step = "fetch"
        /\ request.op = op /\ request.pr = pr /\ request.rev = r
    BY <1>2, RequestType
  <2>2. Start(request)
    OBVIOUS
  <2> HIDE DEF request
  <2> QED BY <2>1, <2>2, StartInv
<1>3. CASE \E published \in BOOLEAN, files \in SUBSET Files :
             Start(UpsertRequest(pr, rev, published, strict, files))
  BY <1>10, <1>3 DEF UpsertRequest
<1>11. FALSE \in BOOLEAN /\ TRUE \in BOOLEAN /\ {} \in SUBSET Files
  OBVIOUS
<1>4. CASE rev # 0 /\ Start(EnsureRequest(pr, rev, strict))
  <2>1. rev \in Revs
    BY <1>4 DEF Revs
  <2> QED BY <1>10, <1>11, <1>4, <2>1 DEF EnsureRequest
<1>5. CASE Start(DeleteRequest(pr, rev))
  BY <1>10, <1>11, <1>5 DEF DeleteRequest
<1>6. CASE Start(ListRequest(pr))
  BY <1>10, <1>11, <1>2, <1>6 DEF ListRequest
<1>7. CASE Start(GetRequest(pr, rev))
  BY <1>10, <1>11, <1>7 DEF GetRequest
<1> QED BY <1>1, <1>3, <1>4, <1>5, <1>6, <1>7

LEMMA ReturnInv == ASSUME GitInv, Return PROVE GitInv'
<1>1. GitTypeOK'
  BY IdleType, TypeStays DEF GitInv, GitTypeOK, Return
<1>2. RefsInv'
  BY GitInvParts, RefsTagged DEF Return, RefsInv, TagsKnown, TagsOnSeenMain
<1>3. CallInv'
  BY IdleQuiet DEF Return
<1> QED BY <1>1, <1>2, <1>3, GitInvNext

(* A failed exchange that leaves the references alone.                       *)
LEMMA FetchFailsInv ==
  ASSUME GitInv, FetchFails, call.step # "idle" PROVE GitInv'
<1>1. /\ faults' \in 0 .. MaxFaults /\ call' \in Calls(Len(commits))
      /\ call'.step = "done" /\ call'.op = call.op
      /\ call'.pr = call.pr /\ call'.rev = call.rev
  BY FaultType DEF FetchFails, GitInv, GitTypeOK
<1>2. GitTypeOK'
  BY <1>1, TypeStays DEF FetchFails, GitInv, GitTypeOK
<1>3. RefsInv'
  BY GitInvParts, RefsTagged DEF FetchFails, RefsInv, TagsKnown, TagsOnSeenMain
<1>4. CallInv'
  BY <1>1, DoneQuiet DEF GitInv
<1> QED BY <1>2, <1>3, <1>4, GitInvNext

(* A step of the call that ends it and touches no reference.                 *)
LEMMA EndsInv ==
  ASSUME GitInv, call.step # "idle",
         UNCHANGED <<commits, remote, local, annotated, faults, externals>>,
         call' \in Calls(Len(commits)),
         call'.step = "done", call'.op = call.op, call'.pr = call.pr, call'.rev = call.rev
  PROVE  GitInv'
<1>1. GitTypeOK'
  BY TypeStays DEF GitInv, GitTypeOK
<1>2. RefsInv'
  BY GitInvParts, RefsTagged DEF RefsInv, TagsKnown, TagsOnSeenMain
<1>3. CallInv'
  BY DoneQuiet DEF GitInv
<1> QED BY <1>1, <1>2, <1>3, GitInvNext

(* A fetch.                                                                  *)
LEMMA FetchedInv ==
  ASSUME GitInv, local' = Fetched, annotated' = StillAnnotated,
         UNCHANGED <<commits, remote, faults, externals>>,
         call' \in Calls(Len(commits)), CallInv'
  PROVE  GitInv'
<1>1. GitTypeOK'
  BY FetchType, TypeStays DEF GitInv, GitTypeOK
<1>2. RefsInv'
  BY GitInvParts, RefsFetched
<1> QED BY <1>1, <1>2, GitInvNext

LEMMA AfterFetchType ==
  ASSUME NEW n \in Nat, call \in Calls(n)
  PROVE  /\ AfterFetch \in Calls(n)
         /\ AfterFetch.op = call.op /\ AfterFetch.pr = call.pr /\ AfterFetch.rev = call.rev
         /\ AfterFetch.step \in {"commit", "branch", "delete", "refetch", "read", "done"}
         /\ call.op = "ensure" => AfterFetch.step = "branch"
<1>1. {"commit", "branch", "delete", "refetch", "read"} \subseteq Steps /\ "ok" \in Results
  BY DEF Steps, Results
<1>2. \A step \in {"commit", "branch", "delete", "refetch", "read"} :
        /\ Goto(step) \in Calls(n) /\ Goto(step).step = step
        /\ Goto(step).op = call.op /\ Goto(step).pr = call.pr /\ Goto(step).rev = call.rev
  BY <1>1, GotoType
<1>3. /\ Done("ok") \in Calls(n) /\ Done("ok").step = "done"
      /\ Done("ok").op = call.op /\ Done("ok").pr = call.pr /\ Done("ok").rev = call.rev
  BY <1>1, DoneType
<1>4. CASE call.op = "upsert"
  BY <1>2, <1>3, <1>4 DEF AfterFetch
<1>5. CASE call.op = "ensure"
  BY <1>2, <1>5 DEF AfterFetch
<1>6. CASE call.op = "delete"
  BY <1>2, <1>6 DEF AfterFetch
<1>7. CASE call.op = "list"
  BY <1>2, <1>7 DEF AfterFetch
<1>8. CASE call.op \notin {"upsert", "ensure", "delete", "list"}
  BY <1>2, <1>8 DEF AfterFetch
<1> QED BY <1>4, <1>5, <1>6, <1>7, <1>8

LEMMA FetchInv == ASSUME GitInv, Fetch PROVE GitInv'
<1>0. call \in Calls(Len(commits)) /\ Len(commits) \in Nat /\ call.step = "fetch"
  BY DEF GitInv, GitTypeOK, Fetch
<1>1. CASE local' = Fetched /\ annotated' = StillAnnotated /\ call' = AfterFetch
           /\ UNCHANGED <<commits, remote, faults, externals>>
  <2>1. /\ call' \in Calls(Len(commits))
        /\ call'.op = call.op /\ call'.pr = call.pr /\ call'.rev = call.rev
        /\ call'.step \in {"commit", "branch", "delete", "refetch", "read", "done"}
        /\ call'.op = "ensure" => call'.step = "branch"
    BY <1>0, <1>1, AfterFetchType
  <2>2. CallInv'
    BY <1>0, <2>1, QuietCall DEF GitInv, CallShape
  <2> QED BY <1>1, <2>1, <2>2, FetchedInv
<1>2. CASE FetchFails
  BY <1>0, <1>2, FetchFailsInv
<1> QED BY <1>1, <1>2 DEF Fetch

LEMMA ListInv == ASSUME GitInv, List PROVE GitInv'
<1>0. call \in Calls(Len(commits)) /\ Len(commits) \in Nat /\ call.step # "idle"
  BY DEF GitInv, GitTypeOK, List
<1>1. CASE /\ local' = Fetched /\ annotated' = StillAnnotated
           /\ call' = [Done("ok") EXCEPT !.found = ListedRevs(Fetched, PkgOf[call.pr])]
           /\ UNCHANGED <<commits, remote, faults, externals>>
  <2>1. "ok" \in Results /\ ListedRevs(Fetched, PkgOf[call.pr]) \in SUBSET Revs
    BY DEF Results, ListedRevs
  <2>2. /\ Done("ok") \in Calls(Len(commits)) /\ Done("ok").step = "done"
        /\ Done("ok").op = call.op /\ Done("ok").pr = call.pr /\ Done("ok").rev = call.rev
    BY <1>0, <2>1, DoneType
  <2>3. call' \in Calls(Len(commits))
    BY <1>0, <1>1, <2>1, <2>2, CallExcept
  <2>4. call'.step = "done" /\ call'.op = call.op /\ call'.pr = call.pr /\ call'.rev = call.rev
    BY <1>1, <2>2 DEF Calls
  <2>5. CallInv'
    BY <1>0, <2>4, DoneQuiet DEF GitInv
  <2> QED BY <1>1, <2>3, <2>5, FetchedInv
<1>2. CASE FetchFails
  BY <1>0, <1>2, FetchFailsInv
<1> QED BY <1>1, <1>2 DEF List

LEMMA ReadInv == ASSUME GitInv, Read PROVE GitInv'
<1> DEFINE c == IF call.rev # 0 THEN local.tag[Tag(call.pr, call.rev)]
                                ELSE local.branch[call.pr]
           pkg == PkgOf[call.pr]
<1>0. call \in Calls(Len(commits)) /\ Len(commits) \in Nat /\ call.step # "idle"
  BY DEF GitInv, GitTypeOK, Read
<1>1. call.pr \in PRs /\ pkg \in Packages
  BY <1>0 DEF GitInv, CallShape
<1>2. c \in 0 .. Len(commits)
  <2>1. call.rev # 0 => Tag(call.pr, call.rev) \in TagNames
    <3>1. call.rev # 0 => call.rev \in Revs
      BY <1>0 DEF Calls, Revs
    <3> QED BY <1>1, <3>1, TagType
  <2> QED BY <1>1, <2>1 DEF GitInv, GitTypeOK, Refs
<1>3. c # NoRef => Resources(c, pkg) \in SUBSET Files
  <2>1. c # NoRef => c \in Commits
    BY <1>0, <1>2 DEF NoRef, Commits
  <2> QED BY <1>1, <2>1, ResourcesType DEF GitInv
<1>4. "not found" \in Results /\ "ok" \in Results
  BY DEF Results
<1>5. \A result \in {"not found", "ok"} :
        /\ Done(result) \in Calls(Len(commits)) /\ Done(result).step = "done"
        /\ Done(result).op = call.op /\ Done(result).pr = call.pr
        /\ Done(result).rev = call.rev
  BY <1>0, <1>4, DoneType
<1>6. call' = IF c = NoRef THEN Done("not found")
              ELSE [Done("ok") EXCEPT !.files = Resources(c, pkg)]
  BY DEF Read
<1> HIDE DEF c, pkg
<1>7. call' \in Calls(Len(commits))
  BY <1>0, <1>3, <1>5, <1>6, CallExcept
<1>8. call'.step = "done" /\ call'.op = call.op /\ call'.pr = call.pr /\ call'.rev = call.rev
  BY <1>5, <1>6 DEF Calls
<1> QED BY <1>0, <1>7, <1>8, EndsInv DEF Read

(* A commit on top of another one.                                           *)
LEMMA CommitGrows ==
  ASSUME GitTypeOK, NEW parent \in Commits, NEW pkg \in Packages,
         NEW files \in SUBSET Files, NEW strict \in BOOLEAN,
         commits' = Append(commits, NewCommit(parent, pkg, files, strict))
  PROVE  /\ Grown
         /\ commits'[Len(commits) + 1].history
              = commits[parent].history \cup {Len(commits) + 1}
<1> DEFINE new == NewCommit(parent, pkg, files, strict)
<1>1. /\ new \in [history : SUBSET (1 .. Len(commits) + 1), tree : Trees]
      /\ new.history = commits[parent].history \cup {Len(commits) + 1}
      /\ commits' = Append(commits, new)
  BY NewCommitType
<1> HIDE DEF new
<1> QED BY <1>1, AppendGrows

(* The references that a commit moves: main, or one branch.                  *)
Moves(new, refs) == {SetMain(refs, new)} \cup {SetBranch(refs, pr, new) : pr \in PRs}

LEMMA MovesType ==
  ASSUME NEW n \in Nat, NEW refs \in Refs(n), NEW new \in 1 .. n,
         NEW moved \in Moves(new, refs)
  PROVE  moved \in Refs(n) /\ moved.tag = refs.tag /\ moved.main \in {refs.main, new}
<1>1. CASE moved = SetMain(refs, new)
  BY <1>1, SetRefs, SetRefsFields
<1>2. CASE \E pr \in PRs : moved = SetBranch(refs, pr, new)
  BY <1>2, SetRefs, SetRefsFields
<1> QED BY <1>1, <1>2 DEF Moves

LEMMA CommitTyped ==
  ASSUME GitTypeOK, Grown, NEW new, new = Len(commits) + 1,
         remote' \in {remote} \cup Moves(new, remote),
         local' \in {local} \cup Moves(new, local),
         annotated' = annotated, call' \in Calls(Len(commits')),
         faults' \in 0 .. MaxFaults, externals' \in 0 .. MaxExternal
  PROVE  /\ GitTypeOK'
         /\ remote'.tag = remote.tag /\ remote'.main \in {remote.main, new}
         /\ local'.tag = local.tag /\ local'.main \in {local.main, new}
<1>1. /\ Len(commits') \in Nat /\ new \in 1 .. Len(commits')
      /\ remote \in Refs(Len(commits')) /\ local \in Refs(Len(commits'))
  BY TypeGrows DEF Grown, GitTypeOK
<1>2. /\ remote' \in Refs(Len(commits')) /\ remote'.tag = remote.tag
      /\ remote'.main \in {remote.main, new}
  BY <1>1, MovesType
<1>3. /\ local' \in Refs(Len(commits')) /\ local'.tag = local.tag
      /\ local'.main \in {local.main, new}
  BY <1>1, MovesType
<1> QED BY <1>2, <1>3, TypeAppends DEF GitTypeOK
(* What a running call holds.                                                *)
LEMMA Running ==
  ASSUME GitInv, call.step # "idle"
  PROVE  /\ call \in Calls(Len(commits)) /\ Len(commits) \in Nat \ {0}
         /\ call.pr \in PRs /\ PkgOf[call.pr] \in Packages /\ call.rev \in 0 .. MaxRev
         /\ call.files \in SUBSET Files /\ call.strict \in BOOLEAN
         /\ call.head \in 0 .. Len(commits) /\ call.commit \in 0 .. Len(commits)
         /\ local.main \in Commits /\ remote.main \in Commits
         /\ local.branch[call.pr] \in 0 .. Len(commits)
         /\ call.rev # 0 => Tag(call.pr, call.rev) \in TagNames
<1>1. call.pr \in PRs /\ call \in Calls(Len(commits))
  BY DEF GitInv, CallShape, GitTypeOK
<1>2. call.rev # 0 => call.rev \in Revs
  BY <1>1 DEF Calls, Revs
<1>3. call.rev # 0 => Tag(call.pr, call.rev) \in TagNames
  BY <1>1, <1>2, TagType
<1> QED BY <1>1, <1>3 DEF GitInv, GitTypeOK, Calls, Refs, Commits

(* A workspace commit, pushed or not: main moves only when it is the parent. *)
LEMMA WorkspaceInv == ASSUME GitInv, CommitWorkspace PROVE GitInv'
<1> DEFINE new == Len(commits) + 1
           Moved(refs) == IF call.rev # 0 THEN SetMain(refs, new)
                                          ELSE SetBranch(refs, call.pr, new)
<1>0. call.step # "idle"
  BY DEF CommitWorkspace
<1>1. PICK parent \in 0 .. Len(commits) :
        /\ call.rev # 0 => parent = local.main
        /\ \/ /\ call' = Done("not found")
              /\ UNCHANGED <<commits, remote, local, annotated, faults, externals>>
           \/ /\ parent # NoRef
              /\ commits' = Append(commits, NewCommit(parent, PkgOf[call.pr],
                                                      call.files, call.strict))
              /\ \/ /\ PushDone(Moved(remote), Moved(local), Done("ok"))
                    /\ UNCHANGED annotated
                 \/ PushFails(Moved(remote))
  BY DEF CommitWorkspace
<1>2. \A result \in {"not found", "ok"} :
        /\ Done(result) \in Calls(Len(commits)) /\ Done(result).step = "done"
        /\ Done(result).op = call.op /\ Done(result).pr = call.pr
        /\ Done(result).rev = call.rev
  BY <1>0, Running, DoneType DEF Results
<1>3. CASE /\ call' = Done("not found")
           /\ UNCHANGED <<commits, remote, local, annotated, faults, externals>>
  BY <1>0, <1>2, <1>3, EndsInv
<1>4. ASSUME parent # NoRef,
             commits' = Append(commits, NewCommit(parent, PkgOf[call.pr],
                                                  call.files, call.strict)),
             \/ PushDone(Moved(remote), Moved(local), Done("ok")) /\ UNCHANGED annotated
             \/ PushFails(Moved(remote))
      PROVE  GitInv'
  <2>1. parent \in Commits
    BY <1>4 DEF NoRef, Commits
  <2>2. Grown /\ commits'[new].history = commits[parent].history \cup {new}
    BY <1>0, <1>4, <2>1, Running, CommitGrows DEF GitInv
  <2>3. /\ Moved(remote) \in Moves(new, remote) /\ Moved(local) \in Moves(new, local)
    BY <1>0, Running DEF Moves
  <2>4. /\ remote' \in {remote, Moved(remote)} /\ local' \in {local, Moved(local)}
        /\ local' = local \/ remote' = Moved(remote)
        /\ annotated' = annotated /\ externals' = externals
    BY <1>4 DEF PushDone, PushFails
  <2>5. /\ call' \in Calls(Len(commits')) /\ faults' \in 0 .. MaxFaults
        /\ call'.step = "done" /\ call'.op = call.op
        /\ call'.pr = call.pr /\ call'.rev = call.rev
    <3>1. Len(commits') \in Nat /\ call \in Calls(Len(commits')) /\ "ok" \in Results
      BY <2>2, TypeGrows DEF GitInv, Results
    <3>2. CASE PushDone(Moved(remote), Moved(local), Done("ok"))
      BY <3>1, <3>2, DoneType DEF PushDone, GitInv, GitTypeOK
    <3>3. CASE PushFails(Moved(remote))
      BY <3>1, <3>3, FaultType DEF PushFails, GitInv
    <3> QED BY <1>4, <3>2, <3>3
  <2>6. /\ GitTypeOK' /\ remote'.tag = remote.tag /\ local'.tag = local.tag
    BY <2>2, <2>3, <2>4, <2>5, CommitTyped DEF GitInv, GitTypeOK
  <2>7. \/ remote'.main = remote.main /\ local'.main = local.main
        \/ /\ remote'.main = new /\ local'.main \in {local.main, new}
           /\ commits[local.main].history \subseteq commits'[new].history
    <3>1. CASE call.rev = 0
      <4>1. Moved(remote).main = remote.main /\ Moved(local).main = local.main
        <5>1. /\ Moved(remote) = SetBranch(remote, call.pr, new)
              /\ Moved(local) = SetBranch(local, call.pr, new)
          BY <3>1
        <5>2. /\ Len(commits) \in Nat /\ call.pr \in PRs
              /\ remote \in Refs(Len(commits)) /\ local \in Refs(Len(commits))
          BY <1>0, Running DEF GitInv, GitTypeOK
        <5>3. /\ SetBranch(remote, call.pr, new).main = remote.main
              /\ SetBranch(local, call.pr, new).main = local.main
          BY <5>2 DEF SetBranch, Refs
        <5> QED BY <5>1, <5>3
      <4> HIDE DEF Moved
      <4> QED BY <2>4, <4>1
    <3>2. CASE call.rev # 0
      <4>1. Moved(remote).main = new /\ Moved(local).main = new
        BY <3>2, SetRefsFields DEF GitInv, GitTypeOK
      <4>2. commits[local.main].history \subseteq commits'[new].history
        BY <1>1, <2>2, <3>2
      <4>3. CASE remote' = remote /\ local' = local
        BY <4>3
      <4> HIDE DEF Moved
      <4>4. CASE remote' = Moved(remote) /\ local' \in {local, Moved(local)}
        BY <4>1, <4>2, <4>4
      <4> QED BY <2>4, <4>3, <4>4
    <3> QED BY <3>1, <3>2, <1>0, Running
  <2>8. RefsInv'
    BY <2>2, <2>6, <2>7, RefsCommitted, GitInvParts
  <2>9. CallInv'
    BY <1>0, <2>5, DoneQuiet DEF GitInv
  <2> QED BY <2>6, <2>8, <2>9, GitInvNext
<1> QED BY <1>1, <1>3, <1>4

LEMMA CheckBranchInv == ASSUME GitInv, CheckBranch PROVE GitInv'
<1> DEFINE head == local.branch[call.pr]
<1>0. call.step # "idle" /\ call.op = "ensure"
  BY DEF CheckBranch
<1>1. CASE head = NoRef
  <2>1. /\ Done("not found") \in Calls(Len(commits)) /\ Done("not found").step = "done"
        /\ Done("not found").op = call.op /\ Done("not found").pr = call.pr
        /\ Done("not found").rev = call.rev
    BY <1>0, Running, DoneType DEF Results
  <2> QED BY <1>0, <1>1, <2>1, EndsInv DEF CheckBranch
<1>2. CASE head # NoRef
  <2>1. /\ Goto("refetch") \in Calls(Len(commits)) /\ Goto("refetch").step = "refetch"
        /\ Goto("refetch").op = call.op /\ Goto("refetch").pr = call.pr
        /\ Goto("refetch").rev = call.rev
    BY <1>0, Running, GotoType DEF Steps
  <2>2. call' = [Goto("refetch") EXCEPT !.head = head]
    BY <1>2 DEF CheckBranch
  <2>3. head \in 0 .. Len(commits) /\ Len(commits) \in Nat
    BY <1>0, Running
  <2> HIDE DEF head
  <2>4. call' \in Calls(Len(commits))
    BY <2>1, <2>2, <2>3, CallExcept
  <2>5. /\ call'.step = "refetch" /\ call'.op = call.op /\ call'.pr = call.pr
        /\ call'.rev = call.rev /\ call'.head = head
    BY <2>1, <2>2 DEF Calls
  <2>6. UNCHANGED <<commits, remote, local, annotated, faults, externals>>
    BY DEF CheckBranch
  <2>7. GitTypeOK'
    BY <2>4, <2>6, TypeStays DEF GitInv, GitTypeOK
  <2>8. RefsInv'
    BY <2>6, GitInvParts, RefsTagged DEF RefsInv, TagsKnown, TagsOnSeenMain
  <2>9. CallInv'
    BY <1>0, <1>2, <2>5, <2>6 DEF head, GitInv, CallInv, CallShape, NewTagOnSeenMain, NewTagIsNew
  <2> QED BY <2>7, <2>8, <2>9, GitInvNext
<1> QED BY <1>1, <1>2

LEMMA ReadBranchInv == ASSUME GitInv, ReadBranch PROVE GitInv'
<1> DEFINE files == Resources(Fetched.branch[call.pr], PkgOf[call.pr])
<1>0. call.step = "refetch" /\ call.op = "ensure"
  BY DEF ReadBranch
<1>1. CASE /\ local' = Fetched /\ annotated' = StillAnnotated
           /\ call' = [Goto("publish") EXCEPT !.files = files]
           /\ UNCHANGED <<commits, remote, faults, externals>>
  <2>1. Fetched.branch[call.pr] \in Commits /\ Fetched.branch[call.pr] # NoRef
    BY <1>0, Running, FetchType DEF GitInv, CallShape, Refs, Commits, NoRef
  <2>2. files \in SUBSET Files
    BY <1>0, <2>1, Running, ResourcesType DEF GitInv
  <2>3. /\ Goto("publish") \in Calls(Len(commits)) /\ Goto("publish").step = "publish"
        /\ Goto("publish").op = call.op /\ Goto("publish").pr = call.pr
        /\ Goto("publish").rev = call.rev /\ Goto("publish").head = call.head
    BY <1>0, Running, GotoType DEF Steps
  <2> HIDE DEF files
  <2>4. call' \in Calls(Len(commits))
    BY <1>0, <1>1, <2>2, <2>3, Running, CallExcept
  <2>5. /\ call'.step = "publish" /\ call'.op = call.op /\ call'.pr = call.pr
        /\ call'.rev = call.rev /\ call'.head = call.head
    BY <1>1, <2>3 DEF Calls
  <2>6. CallInv'
    BY <1>0, <1>1, <2>1, <2>5 DEF GitInv, CallInv, CallShape, NewTagOnSeenMain, NewTagIsNew
  <2> QED BY <1>1, <2>4, <2>6, FetchedInv
<1>2. CASE FetchFails
  BY <1>0, <1>2, FetchFailsInv
<1> QED BY <1>1, <1>2 DEF ReadBranch

(* The commit of a publication: its parent is the main that the clone knows. *)
LEMMA CommitToMainInv == ASSUME GitInv, CommitToMain PROVE GitInv'
<1> DEFINE new == Len(commits) + 1
<1>0. call.step = "publish" /\ call.op = "ensure"
  BY DEF CommitToMain
<1>1. Grown /\ commits'[new].history = commits[local.main].history \cup {new}
  BY <1>0, Running, CommitGrows DEF CommitToMain, GitInv
<1>2. SetMain(remote, new) \in Moves(new, remote) /\ SetMain(local, new) \in Moves(new, local)
  BY DEF Moves
<1>3. Len(commits') \in Nat /\ call \in Calls(Len(commits')) /\ new \in 0 .. Len(commits')
  BY <1>1, TypeGrows DEF GitInv
<1>4. SetMain(remote, new).main = new /\ SetMain(local, new).main = new
  BY SetRefsFields DEF GitInv, GitTypeOK
<1>5. CASE /\ PushDone(SetMain(remote, new), SetMain(local, new),
                       [Goto("createTag") EXCEPT !.commit = new])
           /\ UNCHANGED annotated
  <2>1. /\ Goto("createTag") \in Calls(Len(commits')) /\ Goto("createTag").step = "createTag"
        /\ Goto("createTag").op = call.op /\ Goto("createTag").pr = call.pr
        /\ Goto("createTag").rev = call.rev
    BY <1>3, GotoType DEF Steps
  <2>2. /\ remote' = SetMain(remote, new) /\ local' = SetMain(local, new)
        /\ call' = [Goto("createTag") EXCEPT !.commit = new]
        /\ UNCHANGED <<annotated, faults, externals>>
    BY <1>5 DEF PushDone
  <2>3. call' \in Calls(Len(commits'))
    BY <1>3, <2>1, <2>2, CallExcept
  <2>4. /\ call'.step = "createTag" /\ call'.op = call.op /\ call'.pr = call.pr
        /\ call'.rev = call.rev /\ call'.commit = new
    BY <2>1, <2>2 DEF Calls
  <2>5. GitTypeOK' /\ remote'.tag = remote.tag /\ local'.tag = local.tag
    BY <1>1, <1>2, <2>2, <2>3, CommitTyped DEF GitInv, GitTypeOK
  <2>6. RefsInv'
    BY <1>1, <1>4, <2>2, <2>5, RefsCommitted, GitInvParts
  <2>7. CallInv'
    <3>1. new # NoRef /\ new \in commits'[local'.main].history
      BY <1>1, <1>4, <2>2, <1>0, Running DEF NoRef
    <3> QED BY <1>0, <2>4, <3>1 DEF GitInv, CallInv, CallShape, NewTagOnSeenMain, NewTagIsNew
  <2> QED BY <2>5, <2>6, <2>7, GitInvNext
<1>6. CASE PushFails(SetMain(remote, new))
  <2>1. /\ call' \in Calls(Len(commits')) /\ faults' \in 0 .. MaxFaults
        /\ call'.step = "done" /\ call'.op = call.op
        /\ call'.pr = call.pr /\ call'.rev = call.rev
    BY <1>3, <1>6, FaultType DEF PushFails, GitInv
  <2>2. /\ remote' \in {remote, SetMain(remote, new)}
        /\ UNCHANGED <<local, annotated, externals>>
    BY <1>6 DEF PushFails
  <2>3. GitTypeOK' /\ remote'.tag = remote.tag /\ local'.tag = local.tag
    BY <1>1, <1>2, <2>1, <2>2, CommitTyped DEF GitInv, GitTypeOK
  <2>4. RefsInv'
    BY <1>1, <1>4, <2>2, <2>3, RefsCommitted, GitInvParts
  <2>5. CallInv'
    BY <1>0, <2>1, DoneQuiet DEF GitInv
  <2> QED BY <2>3, <2>4, <2>5, GitInvNext
<1> QED BY <1>5, <1>6 DEF CommitToMain
LEMMA NewTag ==
  ASSUME NEW n \in Nat, NEW refs \in Refs(n), NEW t \in TagNames, NEW c \in 0 .. n
  PROVE  /\ SetTag(refs, t, c) \in Refs(n)
         /\ SetTag(refs, t, c).main = refs.main
         /\ SetTag(refs, t, c).tag = [refs.tag EXCEPT ![t] = c]
  BY DEF SetTag, Refs

(* The commit id of the new tag is kept; a tag in the way ends the call.     *)
LEMMA CreateTagInv == ASSUME GitInv, CreateTag PROVE GitInv'
<1> DEFINE t == Tag(call.pr, call.rev)
<1>0. /\ call.step = "createTag" /\ call.op = "ensure" /\ call.step # "idle"
      /\ UNCHANGED <<commits, remote, faults, externals>>
  BY DEF CreateTag
<1>1. t \in TagNames /\ call.commit # NoRef /\ call.rev \in Revs
  BY <1>0, Running DEF GitInv, CallShape, Revs
<1>2. CASE local.tag[t] # NoRef /\ call' = Done("ok") /\ UNCHANGED <<local, annotated>>
  <2>1. /\ Done("ok") \in Calls(Len(commits)) /\ Done("ok").step = "done"
        /\ Done("ok").op = call.op /\ Done("ok").pr = call.pr
        /\ Done("ok").rev = call.rev
    BY <1>0, Running, DoneType DEF Results
  <2> QED BY <1>0, <1>2, <2>1, EndsInv
<1>3. CASE /\ local.tag[t] = NoRef
           /\ local' = SetTag(local, t, call.commit)
           /\ annotated' = annotated \cup {t} /\ call' = Goto("pushTag")
  <2>1. /\ call' \in Calls(Len(commits)) /\ call'.step = "pushTag" /\ call'.op = call.op
        /\ call'.pr = call.pr /\ call'.rev = call.rev /\ call'.commit = call.commit
    BY <1>0, <1>3, Running, GotoType DEF Steps
  <2>2. /\ local' \in Refs(Len(commits)) /\ local'.main = local.main
        /\ local'.tag = [local.tag EXCEPT ![t] = call.commit]
    <3> HIDE DEF t
    <3>1. /\ Len(commits) \in Nat /\ call.commit \in 0 .. Len(commits)
          /\ local \in Refs(Len(commits))
      BY <1>0, Running DEF GitInv, GitTypeOK
    <3> QED BY <1>1, <1>3, <3>1, NewTag
  <2>3. \A u \in TagNames : local'.tag[u] = IF u = t THEN call.commit ELSE local.tag[u]
    BY <2>2 DEF GitInv, GitTypeOK, Refs
  <2> HIDE DEF t
  <2>4. GitTypeOK'
    BY <1>0, <1>1, <1>3, <2>1, <2>2, TypeStays DEF GitInv, GitTypeOK
  <2>5. RefsInv'
    BY <1>0, <1>1, <2>2, <2>3, RefsTagged DEF GitInv, RefsInv, TagsOnSeenMain, TagsKnown
  <2>6. CallInv'
    <3>1. remote.tag[t] = NoRef /\ local'.tag[t] = call.commit
      BY <1>1, <1>3, <2>3 DEF GitInv, TagsKnown
    <3> QED BY <1>0, <1>1, <2>1, <2>2, <3>1
              DEF t, GitInv, CallInv, CallShape, NewTagOnSeenMain, NewTagIsNew
  <2> QED BY <2>4, <2>5, <2>6, GitInvNext
<1> QED BY <1>2, <1>3 DEF CreateTag

(* The tag gets to the remote after main did.                                *)
LEMMA PushTagInv == ASSUME GitInv, PushTag PROVE GitInv'
<1> DEFINE t == Tag(call.pr, call.rev)
<1>0. /\ call.step = "pushTag" /\ call.op = "ensure" /\ call.step # "idle"
      /\ UNCHANGED commits
  BY DEF PushTag
<1>1. /\ t \in TagNames /\ call.commit # NoRef /\ call.rev \in Revs
      /\ local.tag[t] = call.commit /\ call.commit \in commits[local.main].history
  BY <1>0, Running DEF GitInv, CallShape, NewTagOnSeenMain, Revs
<1> HIDE DEF t
<1>2. /\ SetTag(remote, t, call.commit) \in Refs(Len(commits))
      /\ SetTag(remote, t, call.commit).main = remote.main
      /\ SetTag(local, t, call.commit) \in Refs(Len(commits))
      /\ SetTag(local, t, call.commit).main = local.main
  <2>1. /\ Len(commits) \in Nat /\ call.commit \in 0 .. Len(commits)
        /\ remote \in Refs(Len(commits)) /\ local \in Refs(Len(commits))
        /\ t \in TagNames
    BY <1>0, <1>1, Running DEF GitInv, GitTypeOK
  <2>2. /\ SetTag(remote, t, call.commit) \in Refs(Len(commits))
        /\ SetTag(remote, t, call.commit).main = remote.main
    BY <2>1 DEF SetTag, Refs
  <2>3. /\ SetTag(local, t, call.commit) \in Refs(Len(commits))
        /\ SetTag(local, t, call.commit).main = local.main
    BY <2>1 DEF SetTag, Refs
  <2> QED BY <2>2, <2>3
<1>3. \A u \in TagNames :
        /\ SetTag(remote, t, call.commit).tag[u] = IF u = t THEN call.commit ELSE remote.tag[u]
        /\ SetTag(local, t, call.commit).tag[u] = IF u = t THEN call.commit ELSE local.tag[u]
  BY <1>1 DEF GitInv, GitTypeOK, Refs, SetTag
<1>4. CASE /\ PushDone(SetTag(remote, t, call.commit), SetTag(local, t, call.commit),
                       Goto("deleteBranch"))
           /\ annotated' = annotated \ {t}
  <2>1. /\ remote' = SetTag(remote, t, call.commit) /\ local' = SetTag(local, t, call.commit)
        /\ call' = Goto("deleteBranch") /\ UNCHANGED <<faults, externals>>
    BY <1>4 DEF PushDone
  <2>2. /\ call' \in Calls(Len(commits)) /\ call'.step = "deleteBranch"
        /\ call'.op = call.op /\ call'.pr = call.pr /\ call'.rev = call.rev
        /\ call'.commit = call.commit
    BY <1>0, <2>1, Running, GotoType DEF Steps
  <2>3. GitTypeOK'
    BY <1>0, <1>2, <1>4, <2>1, <2>2, TypeStays DEF GitInv, GitTypeOK
  <2>4. RefsInv'
    BY <1>0, <1>1, <1>2, <1>3, <2>1, RefsTagged
       DEF GitInv, RefsInv, TagsOnSeenMain, TagsKnown
  <2>5. CallInv'
    BY <1>0, <1>1, <2>2 DEF GitInv, CallInv, CallShape, NewTagOnSeenMain, NewTagIsNew
  <2> QED BY <2>3, <2>4, <2>5, GitInvNext
<1>5. CASE PushFails(SetTag(remote, t, call.commit))
  <2>1. /\ call' \in Calls(Len(commits)) /\ faults' \in 0 .. MaxFaults
        /\ call'.step = "done" /\ call'.op = call.op
        /\ call'.pr = call.pr /\ call'.rev = call.rev
    BY <1>0, <1>5, Running, FaultType DEF PushFails, GitInv
  <2>2. /\ remote' \in {remote, SetTag(remote, t, call.commit)}
        /\ UNCHANGED <<local, annotated, externals>>
    BY <1>5 DEF PushFails
  <2>3. GitTypeOK'
    BY <1>0, <1>2, <2>1, <2>2, TypeStays DEF GitInv, GitTypeOK
  <2>4. RefsInv'
    BY <1>0, <1>1, <1>2, <1>3, <2>2, RefsTagged
       DEF GitInv, RefsInv, TagsOnSeenMain, TagsKnown
  <2>5. CallInv'
    BY <1>0, <2>1, DoneQuiet DEF GitInv
  <2> QED BY <2>3, <2>4, <2>5, GitInvNext
<1> QED BY <1>4, <1>5 DEF PushTag, t

(* Removing a branch or a tag.                                               *)
LEMMA DeleteRefInv ==
  ASSUME GitInv, call.step # "idle", NEW same \in BOOLEAN,
         NEW newRemote \in Refs(Len(commits)), NEW newLocal \in Refs(Len(commits)),
         newRemote.main = remote.main, newLocal.main = local.main,
         \A t \in TagNames : newRemote.tag[t] # NoRef =>
           newRemote.tag[t] = remote.tag[t] /\ newLocal.tag[t] = local.tag[t],
         DeleteRef(same, newRemote, newLocal)
  PROVE  GitInv'
<1>0. \A result \in {"stale", "ok"} :
        /\ Done(result) \in Calls(Len(commits)) /\ Done(result).step = "done"
        /\ Done(result).op = call.op /\ Done(result).pr = call.pr
        /\ Done(result).rev = call.rev
  BY Running, DoneType DEF Results
<1>1. UNCHANGED commits
  BY DEF DeleteRef
<1>2. CASE call' = Done("stale") /\ UNCHANGED <<remote, local, annotated, faults, externals>>
  BY <1>0, <1>1, <1>2, EndsInv
<1>3. CASE PushDone(newRemote, newLocal, Done("ok")) /\ UNCHANGED annotated
  <2>1. /\ remote' = newRemote /\ local' = newLocal /\ call' = Done("ok")
        /\ UNCHANGED <<annotated, faults, externals>>
    BY <1>3 DEF PushDone
  <2>2. GitTypeOK'
    BY <1>0, <1>1, <2>1, TypeStays DEF GitInv, GitTypeOK
  <2>3. RefsInv'
    BY <1>1, <2>1, RefsTagged DEF GitInv, RefsInv, TagsOnSeenMain, TagsKnown
  <2>4. CallInv'
    BY <1>0, <2>1, DoneQuiet DEF GitInv
  <2> QED BY <2>2, <2>3, <2>4, GitInvNext
<1>4. CASE PushFails(IF same THEN newRemote ELSE remote)
  <2>1. /\ call' \in Calls(Len(commits)) /\ faults' \in 0 .. MaxFaults
        /\ call'.step = "done" /\ call'.op = call.op
        /\ call'.pr = call.pr /\ call'.rev = call.rev
    BY <1>4, Running, FaultType DEF PushFails, GitInv
  <2>2. remote' \in {remote, newRemote} /\ UNCHANGED <<local, annotated, externals>>
    BY <1>4 DEF PushFails
  <2>3. GitTypeOK'
    BY <1>1, <2>1, <2>2, TypeStays DEF GitInv, GitTypeOK
  <2>4. RefsInv'
    BY <1>1, <2>2, RefsTagged DEF GitInv, RefsInv, TagsOnSeenMain, TagsKnown
  <2>5. CallInv'
    BY <2>1, DoneQuiet DEF GitInv
  <2> QED BY <2>3, <2>4, <2>5, GitInvNext
<1> QED BY <1>2, <1>3, <1>4 DEF DeleteRef

(* Clearing a branch or a tag keeps the type and every other reference.      *)
LEMMA ClearBranch ==
  ASSUME NEW n \in Nat, NEW refs \in Refs(n), NEW pr \in PRs
  PROVE  /\ SetBranch(refs, pr, NoRef) \in Refs(n)
         /\ SetBranch(refs, pr, NoRef).main = refs.main
         /\ SetBranch(refs, pr, NoRef).tag = refs.tag
  BY DEF SetBranch, Refs, NoRef

LEMMA ClearTag ==
  ASSUME NEW n \in Nat, NEW refs \in Refs(n), NEW t \in TagNames
  PROVE  /\ SetTag(refs, t, NoRef) \in Refs(n)
         /\ SetTag(refs, t, NoRef).main = refs.main
         /\ SetTag(refs, t, NoRef).tag[t] = NoRef
         /\ \A u \in TagNames \ {t} : SetTag(refs, t, NoRef).tag[u] = refs.tag[u]
  BY DEF SetTag, Refs, NoRef

LEMMA DeleteBranchInv == ASSUME GitInv, DeleteBranch PROVE GitInv'
<1> DEFINE newRemote == SetBranch(remote, call.pr, NoRef)
           newLocal == SetBranch(local, call.pr, NoRef)
           same == call.head = remote.branch[call.pr]
<1>0. call.step # "idle" /\ DeleteRef(same, newRemote, newLocal) /\ same \in BOOLEAN
  BY DEF DeleteBranch
<1>1. /\ newRemote \in Refs(Len(commits)) /\ newLocal \in Refs(Len(commits))
      /\ newRemote.main = remote.main /\ newRemote.tag = remote.tag
      /\ newLocal.main = local.main /\ newLocal.tag = local.tag
  BY <1>0, Running, ClearBranch DEF GitInv, GitTypeOK
<1> HIDE DEF newRemote, newLocal, same
<1> QED BY <1>0, <1>1, DeleteRefInv

LEMMA DeleteDraftInv == ASSUME GitInv, DeleteDraft PROVE GitInv'
<1> DEFINE newRemote == SetBranch(remote, call.pr, NoRef)
           newLocal == SetBranch(local, call.pr, NoRef)
           same == local.branch[call.pr] = remote.branch[call.pr]
<1>0. call.step # "idle" /\ same \in BOOLEAN
  BY DEF DeleteDraft
<1>1. /\ newRemote \in Refs(Len(commits)) /\ newLocal \in Refs(Len(commits))
      /\ newRemote.main = remote.main /\ newRemote.tag = remote.tag
      /\ newLocal.main = local.main /\ newLocal.tag = local.tag
  BY <1>0, Running, ClearBranch DEF GitInv, GitTypeOK
<1>2. /\ Done("not found") \in Calls(Len(commits)) /\ Done("not found").step = "done"
      /\ Done("not found").op = call.op /\ Done("not found").pr = call.pr
      /\ Done("not found").rev = call.rev
  BY <1>0, Running, DoneType DEF Results
<1>3. CASE /\ call' = Done("not found")
           /\ UNCHANGED <<commits, remote, local, annotated, faults, externals>>
  BY <1>0, <1>2, <1>3, EndsInv
<1>4. CASE DeleteRef(same, newRemote, newLocal)
  <2> HIDE DEF newRemote, newLocal, same
  <2> QED BY <1>0, <1>1, <1>4, DeleteRefInv
<1> QED BY <1>3, <1>4 DEF DeleteDraft

LEMMA DeleteTagInv == ASSUME GitInv, DeleteTag PROVE GitInv'
<1> DEFINE t == Tag(call.pr, call.rev)
           newRemote == SetTag(remote, t, NoRef)
           newLocal == SetTag(local, t, NoRef)
           same == t \notin annotated /\ local.tag[t] = remote.tag[t]
<1>0. call.step # "idle" /\ call.rev # 0 /\ same \in BOOLEAN
  BY DEF DeleteTag
<1>1. t \in TagNames
  BY <1>0, Running
<1>2. /\ newRemote \in Refs(Len(commits)) /\ newLocal \in Refs(Len(commits))
      /\ newRemote.main = remote.main /\ newLocal.main = local.main
      /\ newRemote.tag[t] = NoRef
      /\ \A u \in TagNames \ {t} : /\ newRemote.tag[u] = remote.tag[u]
                                  /\ newLocal.tag[u] = local.tag[u]
  <2> HIDE DEF t
  <2> QED BY <1>0, <1>1, Running, ClearTag DEF GitInv, GitTypeOK
<1>3. /\ Done("ok") \in Calls(Len(commits)) /\ Done("ok").step = "done"
      /\ Done("ok").op = call.op /\ Done("ok").pr = call.pr /\ Done("ok").rev = call.rev
  BY <1>0, Running, DoneType DEF Results
<1>4. CASE /\ call' = Done("ok")
           /\ UNCHANGED <<commits, remote, local, annotated, faults, externals>>
  BY <1>0, <1>3, <1>4, EndsInv
<1>5. CASE DeleteRef(same, newRemote, newLocal)
  <2> HIDE DEF t, newRemote, newLocal, same
  <2>1. \A u \in TagNames : newRemote.tag[u] # NoRef =>
          newRemote.tag[u] = remote.tag[u] /\ newLocal.tag[u] = local.tag[u]
    BY <1>2
  <2> QED BY <1>0, <1>2, <1>5, <2>1, DeleteRefInv
<1> QED BY <1>4, <1>5 DEF DeleteTag
(* A restart forgets the call, and the clone is as a fetch leaves it, or new. *)
LEMMA RestartInv == ASSUME GitInv, Restart PROVE GitInv'
<1>1. call' \in Calls(Len(commits)) /\ CallInv' /\ faults' \in 0 .. MaxFaults
  BY IdleType, IdleQuiet DEF Restart, GitInv, GitTypeOK
<1>2. CASE local' = Fetched /\ annotated' = StillAnnotated
  <2>1. GitTypeOK'
    BY <1>1, <1>2, FetchType, TypeStays DEF Restart, GitInv, GitTypeOK
  <2>2. RefsInv'
    BY <1>2, GitInvParts, RefsFetched DEF Restart
  <2> QED BY <1>1, <2>1, <2>2, GitInvNext
<1>3. CASE local' = remote /\ annotated' = {}
  <2>1. GitTypeOK'
    BY <1>1, <1>3, TypeStays DEF Restart, GitInv, GitTypeOK
  <2>2. RefsInv'
    BY <1>3 DEF Restart, GitInv, RefsInv, InOwnHistory, Commits, SeenMainKept,
                TagsOnSeenMain, TagsKnown
  <2> QED BY <1>1, <2>1, <2>2, GitInvNext
<1> QED BY <1>2, <1>3 DEF Restart

(* A commit that the clone does not know yet, on main or on a branch.        *)
LEMMA ExternalInv == ASSUME GitInv, ExternalCommit PROVE GitInv'
<1> DEFINE new == Len(commits) + 1
<1>0. /\ UNCHANGED <<local, annotated, call, faults>> /\ externals' \in 0 .. MaxExternal
      /\ Len(commits) \in Nat \ {0}
  BY DEF ExternalCommit, GitInv, GitTypeOK
<1>1. SUFFICES ASSUME Grown, new \in commits'[new].history,
                      \/ /\ remote' = SetMain(remote, new)
                         /\ commits[remote.main].history \subseteq commits'[new].history
                      \/ \E pr \in PRs : remote' = SetBranch(remote, pr, new)
               PROVE  GitInv'
  <2>1. CASE /\ commits' = Append(commits,
                  [commits[remote.main] EXCEPT !.history = @ \cup {new}])
             /\ remote' = SetMain(remote, new)
    <3> DEFINE Old == [history : SUBSET Commits, tree : Trees]
    <3>1. commits \in Seq(Old) /\ remote.main \in 1 .. Len(commits)
      BY DEF GitInv, GitTypeOK, Refs
    <3> HIDE DEF Old
    <3>2. commits[remote.main] \in Old
      BY <3>1, ElementOfSeq
    <3> DEFINE parent == commits[remote.main]
    <3> HIDE DEF parent
    <3>3. parent \in [history : SUBSET Commits, tree : Trees]
      BY <3>2 DEF Old, parent
    <3>4. /\ Len(commits) + 1 \in 1 .. Len(commits) + 1
          /\ Commits \subseteq 1 .. Len(commits) + 1
      BY <1>0 DEF Commits
    <3> DEFINE commit == [parent EXCEPT !.history = @ \cup {new}]
    <3>5. /\ commit \in [history : SUBSET (1 .. Len(commits) + 1), tree : Trees]
          /\ commit.history = parent.history \cup {new}
      BY <3>3, <3>4
    <3>6. commits' = Append(commits, commit)
      BY <2>1 DEF parent
    <3> HIDE DEF commit
    <3>7. Grown /\ commits'[Len(commits) + 1] = commit
      BY <3>5, <3>6, AppendGrows DEF GitInv
    <3> QED BY <1>1, <2>1, <3>5, <3>7 DEF parent
  <2>2. ASSUME NEW pr \in PRs, NEW f \in SUBSET Files,
               remote.branch[pr] # NoRef,
               commits' = Append(commits,
                 NewCommit(remote.branch[pr], PkgOf[pr], f, TRUE)),
               remote' = SetBranch(remote, pr, new)
        PROVE  GitInv'
    <3>1. remote.branch[pr] \in Commits /\ PkgOf[pr] \in Packages /\ TRUE \in BOOLEAN
      BY <2>2 DEF GitInv, GitTypeOK, Refs, Commits, NoRef
    <3>2. /\ Grown
          /\ commits'[new].history
               = commits[remote.branch[pr]].history \cup {Len(commits) + 1}
      BY <2>2, <3>1, CommitGrows DEF GitInv
    <3> QED BY <1>1, <2>2, <3>2
  <2> QED BY <2>1, <2>2 DEF ExternalCommit
<1>2. /\ remote' \in Moves(new, remote) /\ local.main \in Commits /\ remote.main \in Commits
  BY <1>1 DEF Moves, GitInv, GitTypeOK, Refs, Commits
<1>3. call \in Calls(Len(commits')) /\ Len(commits') \in Nat
  BY <1>1, TypeGrows DEF GitInv
<1>4. GitTypeOK' /\ remote'.tag = remote.tag
  BY <1>0, <1>1, <1>2, <1>3, CommitTyped DEF GitInv, GitTypeOK
<1>5. \/ remote'.main = remote.main
      \/ /\ remote'.main = new
         /\ commits[local.main].history \subseteq commits'[new].history
  <2>1. CASE /\ remote' = SetMain(remote, new)
             /\ commits[remote.main].history \subseteq commits'[new].history
    BY <2>1, SetRefsFields DEF GitInv, GitTypeOK, SeenMainKept
  <2>2. ASSUME NEW pr \in PRs, remote' = SetBranch(remote, pr, new)
        PROVE  remote'.main = remote.main
    BY <2>2 DEF SetBranch, GitInv, GitTypeOK, Refs
  <2> QED BY <1>1, <2>1, <2>2
<1>6. RefsInv'
  BY <1>0, <1>1, <1>4, <1>5, RefsCommitted, GitInvParts
<1>7. CallInv'
  <2>1. commits'[local.main] = commits[local.main]
    BY <1>1, <1>2 DEF Grown
  <2> QED BY <1>0, <1>4, <2>1 DEF GitInv, CallInv, CallShape, NewTagOnSeenMain, NewTagIsNew
<1> QED BY <1>4, <1>6, <1>7, GitInvNext

----------------------------------------------------------------------------
(* The invariant. *)

LEMMA GitInvInit == ASSUME GitInit PROVE GitInv
<1>1. GitTypeOK
  BY GitTypeInit
<1>2. RefsInv
  BY <1>1 DEF GitInit, RefsInv, InOwnHistory, Commits, SeenMainKept, TagsOnSeenMain,
              TagsKnown, NoRef, TagNames
<1>3. CallInv
  BY DEF GitInit, Idle, CallInv, CallShape, NewTagOnSeenMain, NewTagIsNew
<1> QED BY <1>1, <1>2, <1>3, GitInvParts

LEMMA GitInvStep == ASSUME GitInv, [GitNext]_gitVars PROVE GitInv'
<1>1. CASE StartAny
  BY <1>1, StartAnyInv
<1>2. CASE Return
  BY <1>2, ReturnInv
<1>3. CASE CallStep
  BY <1>3, FetchInv, ListInv, ReadInv, WorkspaceInv, CheckBranchInv, ReadBranchInv,
     CommitToMainInv, CreateTagInv, PushTagInv, DeleteBranchInv, DeleteDraftInv,
     DeleteTagInv DEF CallStep
<1>4. CASE Restart
  BY <1>4, RestartInv
<1>5. CASE ExternalCommit
  BY <1>5, ExternalInv
<1>6. CASE UNCHANGED gitVars
  BY <1>6 DEF gitVars, GitInv, GitTypeOK, Commits, InOwnHistory, SeenMainKept,
              TagsOnSeenMain, TagsKnown, CallShape, NewTagOnSeenMain, NewTagIsNew
<1> QED BY <1>1, <1>2, <1>3, <1>4, <1>5, <1>6 DEF GitNext

(* GitInv holds in every state of every run of one git repository.           *)
THEOREM GitInvariant == GitSpec => []GitInv
  BY GitInvInit, GitInvStep, PTL DEF GitSpec

(* Every variable keeps its type.                                            *)
THEOREM GitTyped == GitSpec => []GitTypeOK
<1>1. GitInv => GitTypeOK
  BY DEF GitInv
<1> QED BY <1>1, GitInvariant, PTL

(* What a clone has seen of main is never overwritten by its forced pushes.  *)
THEOREM GitSeenMainKept == GitSpec => []SeenMainKept
<1>1. GitInv => SeenMainKept
  BY DEF GitInv
<1> QED BY <1>1, GitInvariant, PTL

(* Every tag on the remote is part of main.                                  *)
THEOREM GitTagsOnMain == GitSpec => []TagsOnMain
<1>1. GitInv => TagsOnMain
  BY DEF GitInv, TagsOnSeenMain, SeenMainKept, TagsOnMain
<1> QED BY <1>1, GitInvariant, PTL

(* Only PushTag gives a tag a commit, and it had none.                       *)
TagsKept ==
  \A t \in TagNames : remote.tag[t] # NoRef => remote'.tag[t] \in {remote.tag[t], NoRef}

LEMMA TagsKeptStep == ASSUME GitInv, [GitNext]_gitVars PROVE TagsKept
<1> USE DEF TagsKept
<1>1. CASE PushTag
  <2> DEFINE t == Tag(call.pr, call.rev)
  <2>1. call.step = "pushTag" /\ call.step # "idle" /\ call.rev \in Revs
    BY <1>1 DEF PushTag, GitInv, CallShape
  <2>2. t \in TagNames /\ remote.tag[t] = NoRef
    BY <2>1, Running DEF GitInv, NewTagIsNew, Revs
  <2>3. remote' = remote \/ remote' = SetTag(remote, t, call.commit)
    BY <1>1 DEF PushTag, PushDone, PushFails
  <2> HIDE DEF t
  <2> QED BY <2>2, <2>3 DEF SetTag, GitInv, GitTypeOK, Refs
<1>2. CASE DeleteTag
  <2> DEFINE t == Tag(call.pr, call.rev)
  <2>1. call.step # "idle" /\ call.rev # 0
    BY <1>2 DEF DeleteTag
  <2>2. t \in TagNames
    BY <2>1, Running
  <2>3. remote' = remote \/ remote' = SetTag(remote, t, NoRef)
    BY <1>2 DEF DeleteTag, DeleteRef, PushDone, PushFails
  <2> HIDE DEF t
  <2>4. remote \in Refs(Len(commits)) /\ Len(commits) \in Nat
    BY DEF GitInv, GitTypeOK
  <2> QED BY <2>2, <2>3, <2>4, ClearTag
<1>3. CASE DeleteBranch \/ DeleteDraft
  <2>1. call.step # "idle"
    BY <1>3 DEF DeleteBranch, DeleteDraft
  <2>2. remote' = remote \/ remote' = SetBranch(remote, call.pr, NoRef)
    BY <1>3 DEF DeleteBranch, DeleteDraft, DeleteRef, PushDone, PushFails
  <2> QED BY <2>1, <2>2, Running, ClearBranch DEF GitInv, GitTypeOK
<1>4. CASE CommitToMain \/ CommitWorkspace
  <2>1. call.step # "idle"
    BY <1>4 DEF CommitToMain, CommitWorkspace
  <2>2. \/ remote' = remote \/ remote' = SetMain(remote, Len(commits) + 1)
        \/ remote' = SetBranch(remote, call.pr, Len(commits) + 1)
    BY <1>4 DEF CommitToMain, CommitWorkspace, PushDone, PushFails
  <2>3. remote'.tag = remote.tag
    BY <2>1, <2>2, Running DEF SetMain, SetBranch, GitInv, GitTypeOK, Refs
  <2> QED BY <2>3
<1>5. CASE ExternalCommit
  <2>1. \/ remote' = SetMain(remote, Len(commits) + 1)
        \/ \E pr \in PRs : remote' = SetBranch(remote, pr, Len(commits) + 1)
    BY <1>5 DEF ExternalCommit
  <2>2. remote'.tag = remote.tag
    BY <2>1 DEF SetMain, SetBranch, GitInv, GitTypeOK, Refs
  <2> QED BY <2>2
<1>6. CASE StartAny \/ Return \/ Restart \/ UNCHANGED gitVars
  BY <1>6 DEF StartAny, Start, Return, Restart, gitVars
<1>7. CASE Fetch \/ List \/ Read \/ CheckBranch \/ ReadBranch \/ CreateTag
  BY <1>7 DEF Fetch, FetchFails, List, Read, CheckBranch, ReadBranch, CreateTag
<1> QED BY <1>1, <1>2, <1>3, <1>4, <1>5, <1>6, <1>7 DEF GitNext, CallStep

(* The tag of a revision stays where it is until it is deleted, whatever     *)
(* calls, retries and foreign pushes come in between.                        *)
THEOREM GitTagsNeverMove == GitSpec => TagsNeverMove
<1>1. TagsKept => [TagsKept]_gitVars
  OBVIOUS
<1>2. GitSpec => [][TagsKept]_gitVars
  BY <1>1, TagsKeptStep, GitInvariant, PTL DEF GitSpec
<1> QED BY <1>2 DEF TagsNeverMove, TagsKept

----------------------------------------------------------------------------
(* The store of drafts and releases that a repository is.                    *)

USE FilesAssumption

(* The object stores grow or stay.                                           *)
Kept == Grown \/ commits' = commits

(* What a commit holds, and where every reference of the remote points.      *)
LEMMA CommitParts ==
  ASSUME GitTypeOK
  PROVE  /\ \A c \in Commits :
              /\ commits[c].tree \in Trees
              /\ \A pkg \in Packages : StoredFiles(c, pkg) \in SUBSET Files
         /\ \A pr \in PRs : remote.branch[pr] \in 0 .. Len(commits)
         /\ \A t \in TagNames : remote.tag[t] \in 0 .. Len(commits)
         /\ Commits = 1 .. Len(commits) /\ Len(commits) \in Nat
<1> DEFINE Old == [history : SUBSET Commits, tree : Trees]
<1>1. commits \in Seq(Old) /\ Commits = 1 .. Len(commits)
  BY DEF GitTypeOK, Commits
<1> HIDE DEF Old
<1>2. \A c \in Commits : commits[c] \in Old
  BY <1>1, ElementOfSeq
<1>3. \A c \in Commits : commits[c].tree \in Trees
  BY <1>2 DEF Old
<1>4. \A c \in Commits, pkg \in Packages : StoredFiles(c, pkg) \in SUBSET Files
  BY <1>3 DEF Trees, StoredFiles
<1> QED BY <1>1, <1>3, <1>4 DEF GitTypeOK, Refs

(* A commit that is made keeps its content.                                  *)
LEMMA StoredKept ==
  ASSUME GitTypeOK, Kept, NEW c \in Commits, NEW pkg
  PROVE  StoredFiles(c, pkg)' = StoredFiles(c, pkg)
  BY DEF Kept, Grown, StoredFiles

LEMMA ContentKept ==
  ASSUME GitTypeOK, Kept, NEW c \in 0 .. Len(commits), NEW pkg
  PROVE  StoreContent(c, pkg)' = StoreContent(c, pkg)
<1>1. c # NoRef => c \in Commits
  BY DEF GitTypeOK, Commits, NoRef
<1> QED BY <1>1, StoredKept DEF StoreContent

(* What a reference that does not move shows does not change; one that moves *)
(* shows its new content.                                                    *)
LEMMA DraftsKept ==
  ASSUME GitTypeOK, Kept, remote'.branch = remote.branch
  PROVE  StoreDrafts' = StoreDrafts
  BY CommitParts, ContentKept DEF StoreDrafts

LEMMA ReleasesKept ==
  ASSUME GitTypeOK, Kept, remote'.tag = remote.tag
  PROVE  StoreReleases' = StoreReleases
  BY CommitParts, ContentKept DEF StoreReleases

LEMMA DraftMoved ==
  ASSUME GitTypeOK, Kept, NEW pr \in PRs, NEW c,
         remote'.branch = [remote.branch EXCEPT ![pr] = c]
  PROVE  StoreDrafts' = [StoreDrafts EXCEPT ![pr] = StoreContent(c, PkgOf[pr])']
<1>1. /\ \A p \in PRs : remote.branch[p] \in 0 .. Len(commits)
      /\ DOMAIN remote.branch = PRs
  BY DEF GitTypeOK, Refs
<1>2. \A p \in PRs \ {pr} : StoreDrafts'[p] = StoreDrafts[p]
  BY <1>1, ContentKept DEF StoreDrafts
<1>3. StoreDrafts'[pr] = StoreContent(c, PkgOf[pr])'
  BY <1>1 DEF StoreDrafts, StoreContent, StoredFiles
<1> QED BY <1>2, <1>3 DEF StoreDrafts

LEMMA ReleaseMoved ==
  ASSUME GitTypeOK, Kept, NEW t \in TagNames, NEW c,
         remote'.tag = [remote.tag EXCEPT ![t] = c]
  PROVE  StoreReleases' = [StoreReleases EXCEPT ![t] = StoreContent(c, t[1])']
<1>1. /\ \A u \in TagNames : remote.tag[u] \in 0 .. Len(commits)
      /\ DOMAIN remote.tag = TagNames
  BY DEF GitTypeOK, Refs
<1>2. \A u \in TagNames \ {t} : StoreReleases'[u] = StoreReleases[u]
  BY <1>1, ContentKept DEF StoreReleases
<1>3. StoreReleases'[t] = StoreContent(c, t[1])'
  BY <1>1 DEF StoreReleases, StoreContent, StoredFiles
<1> QED BY <1>2, <1>3 DEF StoreReleases

(* The content of a commit that stores files in a package.                   *)
LEMMA NewContent ==
  ASSUME GitTypeOK, ~ InDirectory, NEW parent \in Commits, NEW pkg \in Packages,
         NEW files \in SUBSET Files, NEW strict \in BOOLEAN,
         NEW new, new = Len(commits) + 1,
         commits' = Append(commits, NewCommit(parent, pkg, files, strict))
  PROVE  /\ Grown
         /\ StoredFiles(new, pkg)' \in SUBSET Files
         /\ files \subseteq StoredFiles(new, pkg)'
         /\ strict => StoredFiles(new, pkg)' = files
<1> DEFINE commit == NewCommit(parent, pkg, files, strict)
           stored == StoreFiles(PackageTree(parent, pkg), files, strict)
<1>1. commit \in [history : SUBSET (1 .. Len(commits) + 1), tree : Trees]
  BY NewCommitType
<1>2. commit.tree = [commits[parent].tree EXCEPT ![pkg] = stored]
  BY DEF NewCommit
<1>3. commits[parent].tree \in Trees
  BY CommitParts
<1>4. commit.tree[pkg] = stored
  BY <1>2, <1>3 DEF Trees
<1> HIDE DEF commit
<1>5. Grown /\ commits'[new] = commit
  BY <1>1, AppendGrows DEF commit
<1>6. StoredFiles(new, pkg)' = stored \ {Here}
  BY <1>4, <1>5 DEF StoredFiles
<1>7. PackageTree(parent, pkg) \in SUBSET (Files \cup {Here})
  BY <1>3 DEF Trees, PackageTree
<1>8. /\ files \subseteq stored \ {Here} /\ stored \ {Here} \in SUBSET Files
      /\ strict => stored \ {Here} = files
  BY <1>7 DEF StoreFiles, Here
<1> QED BY <1>5, <1>6, <1>8

----------------------------------------------------------------------------
(* Requests.  A call that has ended is a request that is answered.           *)
Same == call'.op = call.op /\ call'.pr = call.pr /\ call'.rev = call.rev
          /\ call'.published = call.published /\ call'.strict = call.strict

LEMMA RequestAnswered ==
  ASSUME Open, Same, call'.step = "done"
  PROVE  /\ StoreRequest' = Store!Answered /\ StoreRequest.open
<1>1. Open = TRUE /\ Open' = FALSE
  BY DEF Open
<1>2. StoreRequest.open
  BY <1>1 DEF StoreRequest
<1>3. StoreRequest' = [op |-> call.op, pr |-> call.pr, rev |-> call.rev,
                       published |-> call.published, strict |-> call.strict,
                       open |-> FALSE, files |-> {}]
  BY <1>1 DEF StoreRequest, Same
<1>4. Store!Answered = [op |-> call.op, pr |-> call.pr, rev |-> call.rev,
                        published |-> call.published, strict |-> call.strict,
                        open |-> FALSE, files |-> {}]
  BY DEF Store!Answered, StoreRequest
<1> QED BY <1>2, <1>3, <1>4

LEMMA RequestGoesOn ==
  ASSUME Open, Open', Same, call.op = "upsert" => call'.files = call.files
  PROVE  StoreRequest' = StoreRequest /\ StoreRequest.open
  BY DEF Open, Same, StoreRequest

(* A call that ends without a change that callers could see.                 *)
LEMMA AnswerStep ==
  ASSUME GitTypeOK, Kept, Open, Same, call'.step = "done",
         remote'.branch = remote.branch, remote'.tag = remote.tag
  PROVE  ContentInv' /\ [Store!Next]_(Store!vars)
<1>1. ContentInv'
  BY DEF ContentInv, RestsBlank, WritesDrafts, BranchWasThere, BranchWasRead,
         CommitHoldsFiles, TaggedBeforeDelete
<1>2. Store!Answer
  BY RequestAnswered, DraftsKept, ReleasesKept DEF Store!Answer
<1> QED BY <1>1, <1>2 DEF Store!Next

(* One that goes on without such a change.                                   *)
LEMMA StutterStep ==
  ASSUME GitTypeOK, Kept, Open, Open', Same, call.op = "upsert" => call'.files = call.files,
         remote'.branch = remote.branch, remote'.tag = remote.tag
  PROVE  [Store!Next]_(Store!vars)
  BY RequestGoesOn, DraftsKept, ReleasesKept DEF Store!vars

LEMMA QuietContent ==
  ASSUME call'.step \notin {"idle", "commit", "publish", "createTag", "pushTag", "deleteBranch"}
  PROVE  ContentInv'
  BY DEF ContentInv, RestsBlank, WritesDrafts, BranchWasThere, BranchWasRead,
         CommitHoldsFiles, TaggedBeforeDelete

LEMMA DoneSame ==
  ASSUME NEW n \in Nat, call \in Calls(n), NEW result, NEW files, NEW found
  PROVE  /\ call' = Done(result) => Same /\ call'.step = "done"
         /\ call' = [Done(result) EXCEPT !.files = files] => Same /\ call'.step = "done"
         /\ call' = [Done(result) EXCEPT !.found = found] => Same /\ call'.step = "done"
  BY DEF Done, Same, Calls

LEMMA GotoSame ==
  ASSUME NEW n \in Nat, call \in Calls(n), NEW step, call' = Goto(step)
  PROVE  /\ Same /\ call'.step = step /\ call'.files = call.files
         /\ call'.head = call.head /\ call'.commit = call.commit
  BY DEF Goto, Same, Calls

(* A failed exchange that changes nothing on the remote.                     *)
LEMMA FaultAnswers ==
  ASSUME GitInv, Kept, Open, Fault,
         remote'.branch = remote.branch, remote'.tag = remote.tag
  PROVE  ContentInv' /\ [Store!Next]_(Store!vars)
<1>1. Same /\ call'.step = "done"
  BY DoneSame DEF GitInv, GitTypeOK, Fault
<1> QED BY <1>1, AnswerStep DEF GitInv

LEMMA FetchFailsAnswers ==
  ASSUME GitInv, Open, FetchFails
  PROVE  ContentInv' /\ [Store!Next]_(Store!vars)
  BY FaultAnswers DEF FetchFails, Kept

----------------------------------------------------------------------------
(* The actions. *)

LEMMA StartStores ==
  ASSUME GitInv, ContentInv, StartAny
  PROVE  ContentInv' /\ [Store!Next]_(Store!vars)
<1>1. PICK pr \in PRs, rev \in 0 .. MaxRev, op \in {"upsert", "ensure", "delete", "list", "get"},
           published \in BOOLEAN, strict \in BOOLEAN, files \in SUBSET Files :
        Start(Request(op, pr, rev, published, strict, files))
  <2>1. PICK pr \in PRs, rev \in 0 .. MaxRev, strict \in BOOLEAN :
          \/ \E published \in BOOLEAN, files \in SUBSET Files :
               Start(Request("upsert", pr, rev, published, strict, files))
          \/ Start(Request("ensure", pr, rev, TRUE, strict, {}))
          \/ Start(Request("delete", pr, rev, FALSE, FALSE, {}))
          \/ Start(Request("list", pr, 0, FALSE, FALSE, {}))
          \/ Start(Request("get", pr, rev, FALSE, FALSE, {}))
    BY DEF StartAny, UpsertRequest, EnsureRequest, DeleteRequest, ListRequest, GetRequest
  <2>2. {} \in SUBSET Files /\ 0 \in 0 .. MaxRev
    OBVIOUS
  <2> QED BY <2>1, <2>2, ZenonT(60)
<1>2. /\ call' = Request(op, pr, rev, published, strict, files)
      /\ call.step = "idle" /\ commits' = commits /\ remote' = remote
  BY <1>1 DEF Start
<1>3. call = Idle
  BY <1>2 DEF ContentInv, RestsBlank
<1>4. /\ StoreRequest' = [op |-> op, pr |-> pr, rev |-> rev, published |-> published,
                          strict |-> strict, open |-> TRUE,
                          files |-> IF op = "upsert" THEN files ELSE {}]
      /\ StoreRequest' \in Store!Requests
  BY <1>2 DEF Request, StoreRequest, Open, Store!Requests
<1>5. StoreRequest = Store!NoRequest
  BY <1>3 DEF Idle, StoreRequest, Open, Store!NoRequest
<1>6. UNCHANGED <<StoreDrafts, StoreReleases>>
  BY <1>2, DraftsKept, ReleasesKept DEF GitInv, Kept
<1>7. ContentInv'
  BY <1>2, QuietContent DEF Request
<1> QED BY <1>4, <1>5, <1>6, <1>7 DEF Store!Accept, Store!Next

(* The caller takes the answer, or the process starts again.                 *)
LEMMA IdleStores ==
  ASSUME GitInv, call' = Idle, UNCHANGED <<commits, remote>>
  PROVE  ContentInv' /\ [Store!Next]_(Store!vars)
<1>1. ContentInv'
  BY DEF Idle, ContentInv, RestsBlank, WritesDrafts, BranchWasThere, BranchWasRead,
         CommitHoldsFiles, TaggedBeforeDelete
<1>2. StoreRequest' = Store!NoRequest
  BY DEF Idle, StoreRequest, Open, Store!NoRequest
<1>3. UNCHANGED <<StoreDrafts, StoreReleases>>
  BY DraftsKept, ReleasesKept DEF GitInv, Kept
<1> QED BY <1>1, <1>2, <1>3 DEF Store!Forget, Store!Next

LEMMA FetchStores ==
  ASSUME GitInv, Fetch
  PROVE  ContentInv' /\ [Store!Next]_(Store!vars)
<1>0. /\ Open /\ GitTypeOK /\ call \in Calls(Len(commits)) /\ Len(commits) \in Nat
      /\ call.op \in Ops /\ call.step = "fetch"
  BY DEF Fetch, Open, GitInv, GitTypeOK, Calls
<1>1. CASE FetchFails
  BY <1>0, <1>1, FetchFailsAnswers
<1>2. CASE call' = AfterFetch /\ UNCHANGED <<commits, remote>>
  <2>1. CASE call' = Done("ok")
    BY <1>0, <1>2, <2>1, DoneSame, AnswerStep DEF Kept
  <2>2. ASSUME NEW step \in {"commit", "branch", "delete", "refetch", "read"},
               call' = Goto(step), step = "commit" => call.op = "upsert" /\ ~ call.published
        PROVE  ContentInv' /\ [Store!Next]_(Store!vars)
    <3>1. Same /\ call'.step = step /\ call'.files = call.files
      BY <1>0, <2>2, GotoSame
    <3>2. Open'
      BY <3>1 DEF Open
    <3>3. ContentInv'
      BY <2>2, <3>1 DEF Same, ContentInv, RestsBlank, WritesDrafts, BranchWasThere,
                        BranchWasRead, CommitHoldsFiles, TaggedBeforeDelete
    <3> QED BY <1>0, <1>2, <3>1, <3>2, <3>3, StutterStep DEF Kept
  <2> QED BY <1>2, <2>1, <2>2 DEF AfterFetch
<1> QED BY <1>1, <1>2 DEF Fetch

LEMMA ListStores ==
  ASSUME GitInv, List
  PROVE  ContentInv' /\ [Store!Next]_(Store!vars)
<1>0. Open /\ GitTypeOK /\ call \in Calls(Len(commits)) /\ Len(commits) \in Nat
  BY DEF List, Open, GitInv, GitTypeOK
<1>1. CASE FetchFails
  BY <1>0, <1>1, FetchFailsAnswers
<1>2. CASE /\ call' = [Done("ok") EXCEPT !.found = ListedRevs(Fetched, PkgOf[call.pr])]
           /\ UNCHANGED <<commits, remote>>
  BY <1>0, <1>2, DoneSame, AnswerStep DEF Kept
<1> QED BY <1>1, <1>2 DEF List

LEMMA ReadStores ==
  ASSUME GitInv, Read
  PROVE  ContentInv' /\ [Store!Next]_(Store!vars)
<1>0. /\ Open /\ GitTypeOK /\ call \in Calls(Len(commits)) /\ Len(commits) \in Nat
      /\ UNCHANGED <<commits, remote>>
  BY DEF Read, Open, GitInv, GitTypeOK
<1>1. PICK files : \/ call' = Done("not found")
                   \/ call' = [Done("ok") EXCEPT !.files = files]
  BY DEF Read
<1>2. Same /\ call'.step = "done"
  BY <1>0, <1>1, DoneSame
<1> QED BY <1>0, <1>2, AnswerStep DEF Kept

(* An exchange that moves main, or a branch or tag of the clone only, and    *)
(* after which the call is over.                                             *)
LEMMA WorkspaceStores ==
  ASSUME GitInv, ContentInv, ~ InDirectory, CommitWorkspace
  PROVE  ContentInv' /\ [Store!Next]_(Store!vars)
<1> DEFINE Moved(refs, new) == IF call.rev # 0 THEN SetMain(refs, new)
                                               ELSE SetBranch(refs, call.pr, new)
<1>0. /\ Open /\ GitTypeOK /\ call \in Calls(Len(commits)) /\ Len(commits) \in Nat
      /\ call.step # "idle" /\ call.op = "upsert" /\ ~ call.published
      /\ remote \in Refs(Len(commits))
  BY DEF CommitWorkspace, Open, GitInv, GitTypeOK, ContentInv, WritesDrafts
<1>1. PICK new, pkg, pr : new = Len(commits) + 1 /\ pkg = PkgOf[call.pr] /\ pr = call.pr
  OBVIOUS
<1>2. PICK parent \in 0 .. Len(commits) :
        \/ /\ call' = Done("not found")
           /\ UNCHANGED <<commits, remote>>
        \/ /\ parent # NoRef
           /\ commits' = Append(commits, NewCommit(parent, PkgOf[call.pr],
                                                   call.files, call.strict))
           /\ \/ PushDone(Moved(remote, new), Moved(local, new), Done("ok"))
              \/ PushFails(Moved(remote, new))
  BY <1>1 DEF CommitWorkspace
<1>3. CASE call' = Done("not found") /\ UNCHANGED <<commits, remote>>
  BY <1>0, <1>3, DoneSame, AnswerStep DEF Kept
<1>4. CASE /\ parent # NoRef
           /\ commits' = Append(commits, NewCommit(parent, PkgOf[call.pr],
                                                   call.files, call.strict))
           /\ \/ PushDone(Moved(remote, new), Moved(local, new), Done("ok"))
              \/ PushFails(Moved(remote, new))
  <2>1. /\ Grown /\ Kept
        /\ StoredFiles(new, pkg)' \in SUBSET Files
        /\ call.files \subseteq StoredFiles(new, pkg)'
        /\ call.strict => StoredFiles(new, pkg)' = call.files
    <3>1. parent \in Commits
      BY <1>4 DEF NoRef, Commits
    <3> QED BY <1>0, <1>1, <1>4, <3>1, Running, NewContent DEF Kept
  <2>2. /\ Same /\ call'.step = "done"
        /\ remote' = remote \/ remote' = Moved(remote, new)
    BY <1>0, <1>4, DoneSame DEF PushDone, PushFails, Fault
  <2>3. CASE remote' = remote
    BY <1>0, <2>1, <2>2, <2>3, AnswerStep
  <2>4. CASE call.rev # 0 /\ remote' = Moved(remote, new)
    <3>1. remote'.branch = remote.branch /\ remote'.tag = remote.tag
      BY <1>0, <2>4, SetRefsFields
    <3> QED BY <1>0, <2>1, <2>2, <3>1, AnswerStep
  <2>5. CASE call.rev = 0 /\ remote' = Moved(remote, new)
    <3>1. remote' = SetBranch(remote, pr, new) /\ pr \in PRs
      BY <1>0, <1>1, <2>5, Running
    <3>2. /\ remote'.branch = [remote.branch EXCEPT ![pr] = new]
          /\ remote'.tag = remote.tag
      BY <1>0, <3>1 DEF SetBranch, Refs
    <3>3. StoreContent(new, pkg)'
            = Store!Content(StoredFiles(new, pkg)')
      BY <1>0, <1>1 DEF StoreContent, NoRef, Store!Content
    <3>4. StoreDrafts' = [StoreDrafts EXCEPT ![pr]
                            = Store!Content(StoredFiles(new, pkg)')]
      BY <1>0, <1>1, <2>1, <3>1, <3>2, <3>3, DraftMoved
    <3>5. StoreReleases' = StoreReleases
      BY <1>0, <2>1, <3>2, ReleasesKept
    <3>6. /\ StoreRequest.op = "upsert" /\ StoreRequest.rev = 0 /\ ~ StoreRequest.published
          /\ StoreRequest.pr = pr /\ StoreRequest.files = call.files
          /\ StoreRequest.strict = call.strict
      BY <1>0, <1>1, <2>5 DEF StoreRequest
    <3>7. StoreRequest.open /\ StoreRequest' = Store!Answered
      BY <1>0, <2>2, RequestAnswered
    <3>8. Store!Write
      BY <2>1, <3>4, <3>5, <3>6, <3>7 DEF Store!Write, Store!Serve
    <3>9. ContentInv'
      BY <2>2, QuietContent
    <3> QED BY <3>8, <3>9 DEF Store!Next
  <2> QED BY <2>2, <2>3, <2>4, <2>5
<1> QED BY <1>2, <1>3, <1>4

LEMMA CheckBranchStores ==
  ASSUME GitInv, CheckBranch
  PROVE  ContentInv' /\ [Store!Next]_(Store!vars)
<1>0. /\ Open /\ GitTypeOK /\ call \in Calls(Len(commits)) /\ Len(commits) \in Nat
      /\ call.op = "ensure" /\ UNCHANGED <<commits, remote>>
  BY DEF CheckBranch, Open, GitInv, GitTypeOK
<1>1. CASE call' = Done("not found")
  BY <1>0, <1>1, DoneSame, AnswerStep DEF Kept
<1>2. CASE call' = [Goto("refetch") EXCEPT !.head = local.branch[call.pr]]
  <2>1. Same /\ call'.step = "refetch"
    BY <1>0, <1>2 DEF Goto, Same, Calls
  <2> QED BY <1>0, <2>1, QuietContent, StutterStep DEF Kept, Open
<1> QED BY <1>1, <1>2 DEF CheckBranch

LEMMA ReadBranchStores ==
  ASSUME GitInv, ~ InDirectory, ReadBranch
  PROVE  ContentInv' /\ [Store!Next]_(Store!vars)
<1>0. /\ Open /\ GitTypeOK /\ call \in Calls(Len(commits)) /\ Len(commits) \in Nat
      /\ call.op = "ensure" /\ call.step = "refetch" /\ call.head # NoRef /\ call.pr \in PRs
  BY DEF ReadBranch, Open, GitInv, GitTypeOK, CallShape
<1>1. CASE FetchFails
  BY <1>0, <1>1, FetchFailsAnswers
<1>2. CASE /\ call' = [Goto("publish") EXCEPT
                         !.files = Resources(Fetched.branch[call.pr], PkgOf[call.pr])]
           /\ UNCHANGED <<commits, remote>>
  <2>1. /\ Same /\ call'.step = "publish" /\ call'.head = call.head
        /\ call'.files = Resources(Fetched.branch[call.pr], PkgOf[call.pr])
    BY <1>0, <1>2 DEF Goto, Same, Calls
  <2>2. remote.branch[call.pr] # NoRef => Fetched.branch[call.pr] = remote.branch[call.pr]
    BY <1>0 DEF Fetched, Overlay
  <2>3. BranchWasRead'
    <3>1. /\ remote' = remote /\ commits' = commits /\ call'.pr = call.pr
          /\ call'.head = call.head /\ call'.files = Resources(Fetched.branch[call.pr], PkgOf[call.pr])
      BY <1>2, <2>1 DEF Same
    <3>2. \A c, p : Resources(c, p) = StoredFiles(c, p) /\ StoredFiles(c, p)' = StoredFiles(c, p)
      BY <3>1 DEF Resources, PackageTree, StoredFiles
    <3> QED BY <1>0, <2>2, <3>1, <3>2 DEF BranchWasRead
  <2>4. ContentInv'
    BY <1>0, <2>1, <2>3 DEF ContentInv, RestsBlank, WritesDrafts, BranchWasThere,
                            CommitHoldsFiles, TaggedBeforeDelete
  <2> QED BY <1>0, <1>2, <2>1, <2>4, StutterStep DEF Kept, Open
<1> QED BY <1>1, <1>2 DEF ReadBranch

LEMMA CommitToMainStores ==
  ASSUME GitInv, ContentInv, ~ InDirectory, CommitToMain
  PROVE  ContentInv' /\ [Store!Next]_(Store!vars)
<1>0. /\ Open /\ GitTypeOK /\ call \in Calls(Len(commits)) /\ Len(commits) \in Nat
      /\ call.op = "ensure" /\ call.step = "publish" /\ call.pr \in PRs
      /\ remote \in Refs(Len(commits)) /\ call.head # NoRef
  BY DEF CommitToMain, Open, GitInv, GitTypeOK, CallShape
<1>1. PICK new, pkg : new = Len(commits) + 1 /\ pkg = PkgOf[call.pr]
  OBVIOUS
<1>2. /\ Grown /\ Kept
      /\ call.files \subseteq StoredFiles(new, pkg)'
      /\ call.strict => StoredFiles(new, pkg)' = call.files
  BY <1>0, <1>1, Running, NewContent DEF Kept, CommitToMain
<1>3. /\ remote' = remote \/ remote' = SetMain(remote, new)
      /\ \/ call' = [Goto("createTag") EXCEPT !.commit = new]
         \/ Fault
  BY <1>1 DEF CommitToMain, PushDone, PushFails
<1>4. remote'.branch = remote.branch /\ remote'.tag = remote.tag
  BY <1>0, <1>3, SetRefsFields
<1>5. CASE Fault
  BY <1>0, <1>2, <1>4, <1>5, FaultAnswers
<1>6. CASE call' = [Goto("createTag") EXCEPT !.commit = new]
  <2>1. /\ Same /\ call'.step = "createTag" /\ call'.head = call.head
        /\ call'.files = call.files /\ call'.commit = new
    BY <1>0, <1>6 DEF Goto, Same, Calls
  <2>2. CommitHoldsFiles'
    BY <1>1, <1>2, <2>1 DEF CommitHoldsFiles, StoredFiles, Same
  <2>3. BranchWasRead'
    <3>1. remote.branch[call.pr] = call.head => call.head \in Commits
      BY <1>0, CommitParts DEF NoRef
    <3>2. /\ call'.pr = call.pr
          /\ remote.branch[call.pr] = call.head => call.files = StoredFiles(call.head, PkgOf[call.pr])
      BY <1>0, <2>1 DEF ContentInv, BranchWasRead, Same
    <3>3. remote.branch[call.pr] = call.head
            => commits'[call.head] = commits[call.head]
      BY <1>2, <3>1 DEF Grown
    <3> QED BY <1>4, <2>1, <3>2, <3>3 DEF BranchWasRead, StoredFiles
  <2>4. ContentInv'
    BY <1>0, <2>1, <2>2, <2>3 DEF ContentInv, RestsBlank, WritesDrafts, BranchWasThere,
                                  TaggedBeforeDelete
  <2> QED BY <1>0, <1>2, <1>4, <2>1, <2>4, StutterStep DEF Open
<1> QED BY <1>3, <1>5, <1>6

LEMMA CreateTagStores ==
  ASSUME GitInv, ContentInv, CreateTag
  PROVE  ContentInv' /\ [Store!Next]_(Store!vars)
<1>0. /\ Open /\ GitTypeOK /\ call \in Calls(Len(commits)) /\ Len(commits) \in Nat
      /\ call.op = "ensure" /\ call.step = "createTag" /\ UNCHANGED <<commits, remote>>
  BY DEF CreateTag, Open, GitInv, GitTypeOK
<1>1. CASE call' = Done("ok")
  BY <1>0, <1>1, DoneSame, AnswerStep DEF Kept
<1>2. CASE call' = Goto("pushTag")
  <2>1. /\ Same /\ call'.step = "pushTag" /\ call'.files = call.files
        /\ call'.head = call.head /\ call'.commit = call.commit
    BY <1>0, <1>2, GotoSame
  <2>2. ContentInv'
    BY <1>0, <2>1 DEF ContentInv, RestsBlank, WritesDrafts, BranchWasThere, BranchWasRead,
                      CommitHoldsFiles, TaggedBeforeDelete, StoredFiles, Same
  <2> QED BY <1>0, <2>1, <2>2, StutterStep DEF Kept, Open
<1> QED BY <1>1, <1>2 DEF CreateTag

(* The tag that is pushed is new: a release is made, not changed.            *)
LEMMA PushTagStores ==
  ASSUME GitInv, ContentInv, PushTag
  PROVE  ContentInv' /\ [Store!Next]_(Store!vars)
<1>0. /\ Open /\ GitTypeOK /\ call \in Calls(Len(commits)) /\ Len(commits) \in Nat
      /\ call.op = "ensure" /\ call.step = "pushTag" /\ call.pr \in PRs /\ call.rev \in Revs
      /\ remote \in Refs(Len(commits)) /\ commits' = commits /\ Kept
  BY DEF PushTag, Open, GitInv, GitTypeOK, CallShape, Kept
<1>1. PICK t, c : /\ t = Tag(call.pr, call.rev) /\ t \in TagNames
                  /\ c = call.commit /\ c \in Commits
  <2>1. Tag(call.pr, call.rev) \in TagNames
    BY <1>0, TagType
  <2>2. call.commit \in Commits
    BY <1>0 DEF GitInv, CallShape, Calls, Commits, NoRef
  <2> QED BY <2>1, <2>2
<1>2. \/ PushDone(SetTag(remote, t, c), SetTag(local, t, c), Goto("deleteBranch"))
      \/ PushFails(SetTag(remote, t, c))
  BY <1>1 DEF PushTag
<1>3. remote.tag[t] = NoRef
  BY <1>0, <1>1 DEF GitInv, NewTagIsNew
<1>4. CASE remote' = remote /\ Fault
  BY <1>0, <1>4, FaultAnswers
<1>5. CASE remote' = SetTag(remote, t, c)
  <2>1. /\ remote'.tag = [remote.tag EXCEPT ![t] = c]
        /\ remote'.branch = remote.branch
    BY <1>0, <1>1, <1>5 DEF SetTag, Refs
  <2>2. StoreContent(c, t[1])' = Store!Content(StoredFiles(c, t[1]))
    BY <1>0, <1>1, CommitParts DEF StoreContent, StoredFiles, Store!Content, NoRef
  <2>3. StoreReleases' = [StoreReleases EXCEPT ![t] = Store!Content(StoredFiles(c, t[1]))]
    BY <1>0, <1>1, <2>1, <2>2, ReleaseMoved
  <2>4. StoreDrafts' = StoreDrafts
    BY <1>0, <2>1, DraftsKept
  <2>5. /\ StoreRequest.op = "ensure" /\ Store!Release = t
        /\ ~ StoreReleases[t].there
    BY <1>0, <1>1, <1>3 DEF StoreRequest, Store!Release, Tag, StoreReleases, StoreContent
  <2>6. StoredFiles(c, t[1]) \in SUBSET Files
    BY <1>0, <1>1, CommitParts DEF TagNames
  <2>7. ASSUME StoreRequest.open, StoreRequest' \in {StoreRequest, Store!Answered}
        PROVE  Store!Next
    <3>1. Store!Publish
      BY <2>3, <2>4, <2>5, <2>6, <2>7 DEF Store!Publish, Store!Serve
    <3> QED BY <3>1 DEF Store!Next
  <2>8. CASE call' = Goto("deleteBranch")
    <3>1. /\ Same /\ call'.step = "deleteBranch" /\ call'.files = call.files
          /\ call'.head = call.head /\ call'.commit = call.commit
      BY <1>0, <2>8, GotoSame
    <3>2. StoreRequest.open /\ StoreRequest' = StoreRequest
      BY <1>0, <3>1, RequestGoesOn DEF Open
    <3>3. remote'.tag[t] = c
      BY <1>0, <1>1, <2>1 DEF Refs
    <3>4. ContentInv'
      BY <1>0, <1>1, <2>1, <3>1, <3>3
         DEF ContentInv, RestsBlank, WritesDrafts, BranchWasThere, BranchWasRead,
             CommitHoldsFiles, TaggedBeforeDelete, StoredFiles, Same
    <3> QED BY <2>7, <3>2, <3>4
  <2>9. CASE Fault
    <3>1. Same /\ call'.step = "done"
      BY <1>0, <2>9, DoneSame DEF Fault
    <3>2. StoreRequest.open /\ StoreRequest' = Store!Answered
      BY <1>0, <3>1, RequestAnswered
    <3> QED BY <2>7, <3>1, <3>2, QuietContent
  <2> QED BY <1>2, <2>8, <2>9 DEF PushDone, PushFails
<1> QED BY <1>2, <1>4, <1>5 DEF PushDone, PushFails

(* The end of DeleteRef: the reference is gone, or the call ends without.    *)
LEMMA DeleteRefEnds ==
  ASSUME GitInv, Open, NEW same \in BOOLEAN, NEW newRemote, NEW newLocal,
         DeleteRef(same, newRemote, newLocal)
  PROVE  /\ Kept /\ Same /\ call'.step = "done" /\ ContentInv'
         /\ remote' = remote \/ (same /\ remote' = newRemote)
<1>1. call \in Calls(Len(commits)) /\ Len(commits) \in Nat
  BY DEF GitInv, GitTypeOK
<1>2. PICK result : call' = Done(result)
  BY DEF DeleteRef, PushDone, PushFails, Fault
<1>3. Same /\ call'.step = "done"
  BY <1>1, <1>2, DoneSame
<1> QED BY <1>3, QuietContent DEF DeleteRef, PushDone, PushFails, Kept

LEMMA ClearedBranch ==
  ASSUME GitInv, Kept, NEW pr \in PRs, remote' = SetBranch(remote, pr, NoRef)
  PROVE  /\ StoreDrafts' = [StoreDrafts EXCEPT ![pr] = Store!Missing]
         /\ StoreReleases' = StoreReleases
<1>1. /\ remote'.branch = [remote.branch EXCEPT ![pr] = NoRef]
      /\ remote'.tag = remote.tag
  BY DEF GitInv, GitTypeOK, Refs, SetBranch
<1>2. StoreContent(NoRef, PkgOf[pr])' = Store!Missing
  BY DEF StoreContent, Store!Missing
<1> QED BY <1>1, <1>2, DraftMoved, ReleasesKept DEF GitInv, NoRef

(* A branch goes when the tag holds what it holds.                           *)
LEMMA DeleteBranchStores ==
  ASSUME GitInv, ContentInv, DeleteBranch
  PROVE  ContentInv' /\ [Store!Next]_(Store!vars)
<1>0. /\ Open /\ GitTypeOK /\ call \in Calls(Len(commits)) /\ Len(commits) \in Nat
      /\ call.op = "ensure" /\ call.step = "deleteBranch" /\ call.pr \in PRs
      /\ call.rev \in Revs /\ call.commit # NoRef /\ call.head # NoRef
  BY DEF DeleteBranch, Open, GitInv, GitTypeOK, CallShape, ContentInv, BranchWasThere
<1>1. PICK pr, pkg : pr = call.pr /\ pkg = PkgOf[pr] /\ pr \in PRs /\ pkg \in Packages
  BY <1>0
<1>2. /\ Kept /\ Same /\ call'.step = "done" /\ ContentInv'
      /\ \/ remote' = remote
         \/ call.head = remote.branch[pr] /\ remote' = SetBranch(remote, pr, NoRef)
  BY <1>0, <1>1, DeleteRefEnds DEF DeleteBranch
<1>3. CASE remote' = remote
  BY <1>0, <1>2, <1>3, AnswerStep
<1>4. CASE call.head = remote.branch[pr] /\ remote' = SetBranch(remote, pr, NoRef)
  <2>1. StoreDrafts' = [StoreDrafts EXCEPT ![pr] = Store!Missing] /\ StoreReleases' = StoreReleases
    BY <1>1, <1>2, <1>4, ClearedBranch
  <2>2. StoreRequest.open /\ StoreRequest' = Store!Answered
    BY <1>0, <1>2, RequestAnswered
  <2>3. /\ StoreRequest.op = "ensure" /\ StoreRequest.pr = pr
        /\ StoreRequest.strict = call.strict
        /\ Store!Release = Tag(call.pr, call.rev)
        /\ Tag(call.pr, call.rev) \in TagNames /\ Tag(call.pr, call.rev)[1] = pkg
    BY <1>0, <1>1, TagType DEF StoreRequest, Store!Release, Tag
  <2>4. /\ remote.tag[Tag(call.pr, call.rev)] = call.commit
        /\ call.files = StoredFiles(remote.branch[pr], pkg)
        /\ call.files \subseteq StoredFiles(call.commit, pkg)
        /\ call.strict => StoredFiles(call.commit, pkg) = call.files
    BY <1>0, <1>1, <1>4 DEF ContentInv, BranchWasRead, CommitHoldsFiles, TaggedBeforeDelete
  <2>5. /\ StoreReleases[Store!Release].there
        /\ StoreReleases[Store!Release].files = StoredFiles(call.commit, pkg)
        /\ StoreDrafts[pr].files = StoredFiles(remote.branch[pr], pkg)
    BY <1>0, <1>1, <1>4, <2>3, <2>4 DEF StoreReleases, StoreDrafts, StoreContent
  <2>6. Store!Retire
    BY <2>1, <2>2, <2>3, <2>4, <2>5 DEF Store!Retire, Store!Serve
  <2> QED BY <1>2, <2>6 DEF Store!Next
<1> QED BY <1>2, <1>3, <1>4

LEMMA DeleteDraftStores ==
  ASSUME GitInv, DeleteDraft
  PROVE  ContentInv' /\ [Store!Next]_(Store!vars)
<1>0. /\ Open /\ GitTypeOK /\ call \in Calls(Len(commits)) /\ Len(commits) \in Nat
      /\ call.op = "delete" /\ call.rev = 0 /\ call.pr \in PRs
  BY DEF DeleteDraft, Open, GitInv, GitTypeOK, CallShape
<1>1. CASE call' = Done("not found") /\ UNCHANGED <<commits, remote>>
  BY <1>0, <1>1, DoneSame, AnswerStep DEF Kept
<1>2. PICK pr : pr = call.pr
  OBVIOUS
<1>3. CASE DeleteRef(local.branch[pr] = remote.branch[pr],
                     SetBranch(remote, pr, NoRef), SetBranch(local, pr, NoRef))
  <2>1. /\ Kept /\ Same /\ call'.step = "done" /\ ContentInv'
        /\ remote' = remote \/ remote' = SetBranch(remote, pr, NoRef)
    BY <1>0, <1>3, DeleteRefEnds
  <2>2. CASE remote' = remote
    BY <1>0, <2>1, <2>2, AnswerStep
  <2>3. CASE remote' = SetBranch(remote, pr, NoRef)
    <3>1. /\ StoreDrafts' = [StoreDrafts EXCEPT ![pr] = Store!Missing]
          /\ StoreReleases' = StoreReleases
      BY <1>0, <1>2, <2>1, <2>3, ClearedBranch
    <3>2. StoreRequest.open /\ StoreRequest' = Store!Answered
      BY <1>0, <2>1, RequestAnswered
    <3>3. Store!DiscardDraft
      BY <1>0, <1>2, <3>1, <3>2 DEF Store!DiscardDraft, Store!Serve, StoreRequest
    <3> QED BY <2>1, <3>3 DEF Store!Next
  <2> QED BY <2>1, <2>2, <2>3
<1> QED BY <1>1, <1>2, <1>3 DEF DeleteDraft

LEMMA DeleteTagStores ==
  ASSUME GitInv, DeleteTag
  PROVE  ContentInv' /\ [Store!Next]_(Store!vars)
<1>0. /\ Open /\ GitTypeOK /\ call \in Calls(Len(commits)) /\ Len(commits) \in Nat
      /\ call.op = "delete" /\ call.rev # 0 /\ call.pr \in PRs
      /\ remote \in Refs(Len(commits))
  BY DEF DeleteTag, Open, GitInv, GitTypeOK, CallShape
<1>1. CASE call' = Done("ok") /\ UNCHANGED <<commits, remote>>
  BY <1>0, <1>1, DoneSame, AnswerStep DEF Kept
<1>2. PICK t : t = Tag(call.pr, call.rev) /\ t \in TagNames
  BY <1>0, TagType DEF Calls, Revs
<1>3. CASE DeleteRef(t \notin annotated /\ local.tag[t] = remote.tag[t],
                     SetTag(remote, t, NoRef), SetTag(local, t, NoRef))
  <2>1. /\ Kept /\ Same /\ call'.step = "done" /\ ContentInv'
        /\ remote' = remote \/ remote' = SetTag(remote, t, NoRef)
    BY <1>0, <1>3, DeleteRefEnds
  <2>2. CASE remote' = remote
    BY <1>0, <2>1, <2>2, AnswerStep
  <2>3. CASE remote' = SetTag(remote, t, NoRef)
    <3>1. /\ remote'.tag = [remote.tag EXCEPT ![t] = NoRef]
          /\ remote'.branch = remote.branch
      BY <1>0, <1>2, <2>3 DEF SetTag, Refs
    <3>2. StoreContent(NoRef, t[1])' = Store!Missing
      BY DEF StoreContent, Store!Missing
    <3>3. StoreReleases' = [StoreReleases EXCEPT ![t] = Store!Missing]
      BY <1>0, <1>2, <2>1, <3>1, <3>2, ReleaseMoved DEF NoRef
    <3>4. StoreDrafts' = StoreDrafts
      BY <1>0, <2>1, <3>1, DraftsKept
    <3>5. StoreRequest.open /\ StoreRequest' = Store!Answered
      BY <1>0, <2>1, RequestAnswered
    <3>6. Store!Release = t /\ StoreRequest.op = "delete" /\ StoreRequest.rev # 0
      BY <1>0, <1>2 DEF StoreRequest, Store!Release, Tag
    <3>7. Store!Withdraw
      BY <3>3, <3>4, <3>5, <3>6 DEF Store!Withdraw, Store!Serve
    <3> QED BY <2>1, <3>7 DEF Store!Next
  <2> QED BY <2>1, <2>2, <2>3
<1> QED BY <1>1, <1>2, <1>3 DEF DeleteTag

(* A foreign commit changes a draft or nothing; what was read from a branch  *)
(* is no longer its head then.                                               *)
LEMMA ExternalStores ==
  ASSUME GitInv, ContentInv, ~ InDirectory, ExternalCommit
  PROVE  ContentInv' /\ [Store!Next]_(Store!vars)
<1>0. /\ GitTypeOK /\ Len(commits) \in Nat /\ call \in Calls(Len(commits))
      /\ call' = call /\ remote \in Refs(Len(commits))
  BY DEF ExternalCommit, GitInv, GitTypeOK
<1>1. PICK new : new = Len(commits) + 1
  OBVIOUS
<1>2. StoreRequest' = StoreRequest
  BY <1>0 DEF StoreRequest, Open
<1>3. ASSUME Grown, remote'.tag = remote.tag,
             remote'.branch[call.pr] \in {remote.branch[call.pr], new}
      PROVE  ContentInv'
  <2>1. CASE call.step \in {"publish", "createTag", "pushTag", "deleteBranch"}
    <3>1. call.head \in Commits /\ call.head # new /\ call.commit \in 0 .. Len(commits)
      BY <1>0, <1>1, <2>1 DEF ContentInv, BranchWasThere, Calls, Commits, NoRef
    <3>2. BranchWasRead'
      BY <1>0, <1>3, <2>1, <3>1 DEF ContentInv, BranchWasRead, Grown, StoredFiles
    <3>3. CommitHoldsFiles'
      <4>1. call.step # "publish" => call.commit \in Commits
        BY <2>1, <3>1 DEF GitInv, CallShape, Commits, NoRef
      <4> QED BY <1>0, <1>3, <4>1 DEF ContentInv, CommitHoldsFiles, Grown, StoredFiles
    <3>4. TaggedBeforeDelete'
      BY <1>0, <1>3 DEF ContentInv, TaggedBeforeDelete
    <3> QED BY <1>0, <3>2, <3>3, <3>4 DEF ContentInv, RestsBlank, WritesDrafts, BranchWasThere
  <2>2. CASE call.step \notin {"publish", "createTag", "pushTag", "deleteBranch"}
    BY <1>0, <2>2 DEF ContentInv, RestsBlank, WritesDrafts, BranchWasThere, BranchWasRead,
                      CommitHoldsFiles, TaggedBeforeDelete
  <2> QED BY <2>1, <2>2
<1>4. CASE /\ commits' = Append(commits,
                 [commits[remote.main] EXCEPT !.history = @ \cup {new}])
           /\ remote' = SetMain(remote, new)
  <2>1. Grown
    <3>1. remote.main \in Commits
      BY <1>0 DEF Refs, Commits
    <3> DEFINE Old == [history : SUBSET Commits, tree : Trees]
    <3>2. commits \in Seq(Old) /\ Commits = 1 .. Len(commits)
      BY DEF GitInv, GitTypeOK, Commits
    <3> HIDE DEF Old
    <3>3. commits[remote.main] \in Old
      BY <3>1, <3>2, ElementOfSeq
    <3>4. [commits[remote.main] EXCEPT !.history = @ \cup {new}]
            \in [history : SUBSET (1 .. Len(commits) + 1), tree : Trees]
      BY <1>0, <1>1, <3>2, <3>3 DEF Old
    <3> QED BY <1>0, <1>4, <3>4, AppendGrows
  <2>2. remote'.branch = remote.branch /\ remote'.tag = remote.tag
    BY <1>0, <1>4, SetRefsFields
  <2>3. StoreDrafts' = StoreDrafts /\ StoreReleases' = StoreReleases
    BY <1>0, <2>1, <2>2, DraftsKept, ReleasesKept DEF Kept
  <2> QED BY <1>2, <1>3, <2>1, <2>2, <2>3 DEF Store!vars
<1>5. ASSUME NEW pr \in PRs, NEW files \in SUBSET Files, remote.branch[pr] # NoRef,
             commits' = Append(commits, NewCommit(remote.branch[pr], PkgOf[pr], files, TRUE)),
             remote' = SetBranch(remote, pr, new)
      PROVE  ContentInv' /\ [Store!Next]_(Store!vars)
  <2>1. remote.branch[pr] \in Commits /\ PkgOf[pr] \in Packages
    BY <1>0, <1>5 DEF Refs, Commits, NoRef
  <2>2. Grown /\ Kept /\ StoredFiles(new, PkgOf[pr])' \in SUBSET Files
    <3>1. GitTypeOK /\ ~ InDirectory /\ new = Len(commits) + 1 /\ TRUE \in BOOLEAN
      BY <1>0, <1>1
    <3>2. Grown /\ StoredFiles(new, PkgOf[pr])' \in SUBSET Files
      BY <1>5, <2>1, <3>1, NewContent
    <3> QED BY <1>0, <1>5, <3>2 DEF Kept
  <2>3. /\ remote'.branch = [remote.branch EXCEPT ![pr] = new]
        /\ remote'.tag = remote.tag
    BY <1>0, <1>5 DEF SetBranch, Refs
  <2>4. StoreContent(new, PkgOf[pr])' = Store!Content(StoredFiles(new, PkgOf[pr])')
    BY <1>0, <1>1 DEF StoreContent, NoRef, Store!Content
  <2>5. StoreDrafts' = [StoreDrafts EXCEPT ![pr] = Store!Content(StoredFiles(new, PkgOf[pr])')]
    BY <1>0, <2>2, <2>3, <2>4, DraftMoved
  <2>6. StoreReleases' = StoreReleases
    BY <1>0, <2>2, <2>3, ReleasesKept
  <2>7. StoreDrafts[pr].there
    BY <1>5 DEF StoreDrafts, StoreContent
  <2>8. Store!Edit
    BY <1>2, <2>2, <2>5, <2>6, <2>7 DEF Store!Edit
  <2>9. remote'.branch[call.pr] \in {remote.branch[call.pr], new} 
    BY <1>0, <2>3 DEF Refs
  <2> QED BY <1>3, <2>2, <2>3, <2>8, <2>9 DEF Store!Next
<1> QED BY <1>1, <1>4, <1>5 DEF ExternalCommit

----------------------------------------------------------------------------
(* The theorems. *)

LEMMA StoreInit == ASSUME GitInit PROVE ContentInv /\ Store!Init
<1>1. ContentInv
  BY DEF GitInit, Idle, ContentInv, RestsBlank, WritesDrafts, BranchWasThere,
         BranchWasRead, CommitHoldsFiles, TaggedBeforeDelete
<1>2. remote.branch = [p \in PRs |-> NoRef] /\ remote.tag = [t \in TagNames |-> NoRef]
  BY DEF GitInit
<1>3. StoreDrafts = [p \in PRs |-> Store!Missing]
  BY <1>2 DEF StoreDrafts, StoreContent, Store!Missing
<1>4. StoreReleases = [t \in Store!Releases |-> Store!Missing]
  BY <1>2 DEF StoreReleases, StoreContent, Store!Missing, Store!Releases, TagNames, Revs
<1>5. StoreRequest = Store!NoRequest
  BY DEF GitInit, Idle, StoreRequest, Open, Store!NoRequest
<1> QED BY <1>1, <1>3, <1>4, <1>5 DEF Store!Init

LEMMA StoreStep ==
  ASSUME ~ InDirectory, GitInv, ContentInv, [GitNext]_gitVars
  PROVE  ContentInv' /\ [Store!Next]_(Store!vars)
<1>1. CASE StartAny
  BY <1>1, StartStores
<1>2. CASE Return \/ Restart
  BY <1>2, IdleStores DEF Return, Restart
<1>3. CASE Fetch \/ List \/ Read
  BY <1>3, FetchStores, ListStores, ReadStores
<1>4. CASE CommitWorkspace
  BY <1>4, WorkspaceStores
<1>5. CASE CheckBranch \/ ReadBranch \/ CommitToMain
  BY <1>5, CheckBranchStores, ReadBranchStores, CommitToMainStores
<1>6. CASE CreateTag \/ PushTag \/ DeleteBranch
  BY <1>6, CreateTagStores, PushTagStores, DeleteBranchStores
<1>7. CASE DeleteDraft \/ DeleteTag
  BY <1>7, DeleteDraftStores, DeleteTagStores
<1>8. CASE ExternalCommit
  BY <1>8, ExternalStores
<1>9. CASE UNCHANGED gitVars
  <2>1. ContentInv'
    BY <1>9 DEF gitVars, ContentInv, RestsBlank, WritesDrafts, BranchWasThere,
                BranchWasRead, CommitHoldsFiles, TaggedBeforeDelete, StoredFiles
  <2>2. UNCHANGED Store!vars
    BY <1>9 DEF gitVars, Store!vars, StoreDrafts, StoreReleases, StoreRequest,
                StoreContent, StoredFiles, Open
  <2> QED BY <2>1, <2>2
<1> QED BY <1>1, <1>2, <1>3, <1>4, <1>5, <1>6, <1>7, <1>8, <1>9 DEF GitNext, CallStep

(* What is tagged is what was read from the branch that goes                 *)
(* (commitToMain), whatever others push meanwhile.                           *)
THEOREM GitContent == ~ InDirectory => (GitSpec => []ContentInv)
<1> SUFFICES ASSUME ~ InDirectory PROVE GitSpec => []ContentInv
  OBVIOUS
<1>1. GitInit => ContentInv
  BY StoreInit
<1>2. GitInv /\ ContentInv /\ [GitNext]_gitVars => ContentInv'
  BY StoreStep
<1> QED BY <1>1, <1>2, GitInvariant, PTL DEF GitSpec

(* The git repository implements the store: callers see drafts and releases, *)
(* and none of the exchanges, failures and retries that make them.           *)
THEOREM GitImplementsStore == ~ InDirectory => (GitSpec => ImplementsStore)
<1> SUFFICES ASSUME ~ InDirectory PROVE GitSpec => ImplementsStore
  OBVIOUS
<1>1. GitInit => Store!Init
  BY StoreInit
<1>2. GitInv /\ ContentInv /\ [GitNext]_gitVars => [Store!Next]_(Store!vars)
  BY StoreStep
<1>3. GitSpec => []ContentInv
  BY GitContent
<1> QED BY <1>1, <1>2, <1>3, GitInvariant, PTL DEF GitSpec, ImplementsStore, Store!Spec

(* A workspace branch that EnsurePackageRevision removes is under the tag.   *)
(* This is what the step of the store says: only Retire lets a draft go      *)
(* while an "ensure" is served.                                              *)
THEOREM GitPublishedBeforeBranchGone ==
  ~ InDirectory => (GitSpec => PublishedBeforeBranchGone)
<1> SUFFICES ASSUME ~ InDirectory PROVE GitSpec => PublishedBeforeBranchGone
  OBVIOUS
<1> DEFINE Gone(pr) == call.op = "ensure" /\ remote.branch[pr] # NoRef /\ remote'.branch[pr] = NoRef
           Published(pr) ==
             LET pkg == PkgOf[pr]
                 tag == remote.tag[Tag(call.pr, call.rev)]
                 files == StoredFiles(remote.branch[pr], pkg)
             IN  /\ pr = call.pr
                 /\ tag # NoRef
                 /\ files \subseteq StoredFiles(tag, pkg)
                 /\ call.strict => StoredFiles(tag, pkg) = files
           Safe == \A pr \in PRs : Gone(pr) => Published(pr)
<1>1. ASSUME GitInv, ContentInv, [GitNext]_gitVars PROVE Safe
  <2> SUFFICES ASSUME NEW pr \in PRs, Gone(pr) PROVE Published(pr)
    OBVIOUS
  <2>1. /\ StoreDrafts[pr].there /\ ~ StoreDrafts'[pr].there
        /\ StoreDrafts[pr].files = StoredFiles(remote.branch[pr], PkgOf[pr])
    BY DEF StoreDrafts, StoreContent
  <2>2. DOMAIN StoreDrafts = PRs /\ StoreRequest.op = "ensure"
    BY DEF StoreDrafts, StoreRequest
  <2>3. CASE StoreDrafts' = StoreDrafts
    BY <2>1, <2>3
  <2>4. CASE \E p \in PRs, files \in SUBSET Files :
               StoreDrafts' = [StoreDrafts EXCEPT ![p] = Store!Content(files)]
    BY <2>1, <2>2, <2>4 DEF Store!Content
  <2>5. CASE Store!Retire
    <3>1. StoreRequest.pr = pr /\ call.pr = pr /\ StoreRequest.strict = call.strict
      BY <2>1, <2>2, <2>5 DEF Store!Retire, StoreRequest
    <3>2. /\ Store!Release = Tag(call.pr, call.rev) /\ Tag(call.pr, call.rev)[1] = PkgOf[pr]
          /\ Tag(call.pr, call.rev) \in TagNames
      <4>1. call.rev \in Revs
        BY <1>1 DEF GitInv, CallShape
      <4> QED BY <3>1, <4>1, TagType DEF Store!Release, StoreRequest, Tag
    <3>3. /\ remote.tag[Tag(call.pr, call.rev)] # NoRef
          /\ StoreReleases[Store!Release].files
               = StoredFiles(remote.tag[Tag(call.pr, call.rev)], PkgOf[pr])
      BY <2>5, <3>2 DEF Store!Retire, StoreReleases, StoreContent
    <3> QED BY <2>1, <2>5, <3>1, <3>3 DEF Store!Retire
  <2>6. CASE Store!Write \/ Store!DiscardDraft
    BY <2>2, <2>6 DEF Store!Write, Store!DiscardDraft, Store!Serve
  <2>7. [Store!Next]_(Store!vars)
    BY <1>1, StoreStep
  <2> QED BY <2>3, <2>4, <2>5, <2>6, <2>7
       DEF Store!Next, Store!vars, Store!Accept, Store!Answer, Store!Forget, Store!Publish,
           Store!Withdraw, Store!Edit
<1>2. Safe => [Safe]_gitVars
  OBVIOUS
<1> HIDE DEF Safe
<1>3. GitSpec => [][Safe]_gitVars
  BY <1>1, GitInvariant, GitContent, PTL DEF GitSpec
<1> QED BY <1>3 DEF PublishedBeforeBranchGone, Safe
=============================================================================
