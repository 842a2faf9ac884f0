------------------------ MODULE PackageReleaseProofs ------------------------
(* Proof that what the controllers release is complete, for every set of     *)
(* package revisions, every order of readiness gates and every bound.        *)
EXTENDS PackageRevisionsProofs

USE PRsAssumption, PackagesAssumption, DirectoryAssumption, BoundsAssumption

----------------------------------------------------------------------------
(* The files on the way from a task to a release. *)

InBranch(pr, files) ==
  remote.branch[pr] # NoRef /\ files \subseteq StoredFiles(remote.branch[pr], PkgOf[pr])
UnderTag(pr, rev) == rev # 0 /\ remote.tag[Tag(pr, rev)] # NoRef

(* What is tagged has all files, and so has what is about to be tagged, if   *)
(* the tag is new; a draft is committed on top of what its branch holds; and *)
(* what was to be written is in the branch when the answer is there.         *)
TagsFull ==
  \A t \in TagNames : remote.tag[t] # NoRef => Full \subseteq StoredFiles(remote.tag[t], t[1])
PublishesFull ==
  call.step \in {"publish", "createTag", "pushTag"} =>
    UnderTag(call.pr, call.rev) \/ Full \subseteq call.files
BranchRead ==
  call.step = "commit" => remote.branch[call.pr] \in {NoRef, local.branch[call.pr]}
WritesKept(files) ==
  call.op = "upsert" =>
    /\ call.step \in {"fetch", "commit"} => call.files = files
    /\ ~ call.published /\ call.rev = 0 /\ call.step = "done" /\ call.result = "ok" =>
         InBranch(call.pr, files)

(* The calls that may take files out of the branch of pr.                    *)
TakesFiles(pr) ==
  /\ pr = call.pr
  /\ \/ call.op = "delete"
     \/ call.op = "ensure" /\ UnderTag(call.pr, call.rev)'
     \/ /\ call.op = "upsert" /\ call.step = "commit" /\ ~ call.published /\ call.rev = 0
        /\ call.strict \/ call.files \notin Overwrites
FilesStay ==
  \A pr \in PRs, files \in SUBSET Spared :
    InBranch(pr, files) => InBranch(pr, files)' \/ TakesFiles(pr)
CallFills ==
  /\ TagsFull' /\ PublishesFull' /\ BranchRead' /\ FilesStay
  /\ call'.strict = call.strict
  /\ \A files \in SUBSET Files : WritesKept(files) => WritesKept(files)'

LEMMA FullFiles ==
  /\ Spared \in SUBSET Files /\ Full \in SUBSET Spared
  /\ Upstream \cap Spared \in SUBSET Spared
  /\ Upstream \in SUBSET Files /\ Generated \in SUBSET Files
  BY ServerAssumption DEF Full, Spared

(* References that do not move, in object stores that only grow.             *)
LEMMA RefsStay ==
  ASSUME GitTypeOK, Kept
  PROVE  /\ \A pr \in PRs, files \in SUBSET Files :
              remote'.branch[pr] = remote.branch[pr] =>
                (InBranch(pr, files)' <=> InBranch(pr, files))
         /\ \A t \in TagNames :
              remote'.tag[t] = remote.tag[t] /\ remote.tag[t] # NoRef =>
                StoredFiles(remote.tag[t], t[1])' = StoredFiles(remote.tag[t], t[1])
<1>1. \A c \in 1 .. Len(commits) : \A pkg : commits'[c].tree[pkg] = commits[c].tree[pkg]
  BY DEF Kept, Grown, Commits
<1>2. /\ \A pr \in PRs : remote.branch[pr] \in 0 .. Len(commits)
      /\ \A t \in TagNames : remote.tag[t] \in 0 .. Len(commits)
      /\ Len(commits) \in Nat
  BY CommitParts
<1>3. ASSUME NEW pr \in PRs, NEW files \in SUBSET Files, remote'.branch[pr] = remote.branch[pr]
      PROVE  InBranch(pr, files)' <=> InBranch(pr, files)
  <2>1. CASE remote.branch[pr] = NoRef
    BY <1>3, <2>1 DEF InBranch
  <2>2. CASE remote.branch[pr] # NoRef
    <3>1. remote.branch[pr] \in 1 .. Len(commits)
      BY <1>2, <2>2 DEF NoRef
    <3> QED BY <1>1, <1>3, <3>1 DEF InBranch, StoredFiles
  <2> QED BY <2>1, <2>2
<1>4. ASSUME NEW t \in TagNames, remote'.tag[t] = remote.tag[t], remote.tag[t] # NoRef
      PROVE  StoredFiles(remote.tag[t], t[1])' = StoredFiles(remote.tag[t], t[1])
  <2>1. remote.tag[t] \in 1 .. Len(commits)
    BY <1>2, <1>4 DEF NoRef
  <2> QED BY <1>1, <1>4, <2>1 DEF StoredFiles
<1> QED BY <1>3, <1>4

LEMMA TagsStayFull ==
  ASSUME GitTypeOK, Kept, TagsFull,
         \A t \in TagNames : remote'.tag[t] \in {NoRef, remote.tag[t]}
  PROVE  TagsFull'
<1> SUFFICES ASSUME NEW t \in TagNames, remote'.tag[t] # NoRef
             PROVE  Full \subseteq StoredFiles(remote.tag[t], t[1])'
  BY DEF TagsFull, Full, Spared, Overwrites
<1>1. remote'.tag[t] = remote.tag[t] /\ remote.tag[t] # NoRef
  OBVIOUS
<1> QED BY <1>1, RefsStay DEF TagsFull

(* A step after which nothing is about to be committed or tagged.            *)
LEMMA QuietFills ==
  ASSUME GitTypeOK, Kept, TagsFull, Same,
         remote'.branch = remote.branch,
         \A t \in TagNames : remote'.tag[t] \in {NoRef, remote.tag[t]},
         call'.step \notin {"fetch", "commit", "publish", "createTag", "pushTag"},
         call.op = "upsert" /\ call'.step = "done" => call.published \/ call'.result # "ok"
  PROVE  CallFills
<1>1. TagsFull'
  BY TagsStayFull
<1>2. FilesStay
  BY FullFiles, RefsStay DEF FilesStay
<1>3. \A files \in SUBSET Files : WritesKept(files)'
  BY DEF WritesKept, Same
<1> QED BY <1>1, <1>2, <1>3 DEF CallFills, PublishesFull, BranchRead, Same

(* A commit on top of another holds what that one holds and is not replaced, *)
(* but under the strict update policy.                                       *)
LEMMA CommitAdds ==
  ASSUME GitTypeOK, ~ InDirectory, NEW parent \in Commits, NEW pkg \in Packages,
         NEW files \in SUBSET Files, NEW new, new = Len(commits) + 1,
         commits' = Append(commits, NewCommit(parent, pkg, files, FALSE))
  PROVE  StoredFiles(parent, pkg) \ Replaced(files) \subseteq StoredFiles(new, pkg)'
<1> DEFINE commit == NewCommit(parent, pkg, files, FALSE)
           stored == StoreFiles(PackageTree(parent, pkg), files, FALSE)
<1>1. commit \in [history : SUBSET (1 .. Len(commits) + 1), tree : Trees]
  BY NewCommitType
<1>2. commit.tree = [commits[parent].tree EXCEPT ![pkg] = stored]
  BY DEF NewCommit
<1>3. commits[parent].tree \in Trees
  BY CommitParts
<1>4. commit.tree[pkg] = stored
  BY <1>2, <1>3 DEF Trees
<1> HIDE DEF commit
<1>5. commits'[new] = commit
  BY <1>1, AppendGrows DEF commit
<1>6. StoredFiles(new, pkg)' = stored \ {Here}
  BY <1>4, <1>5 DEF StoredFiles
<1> QED BY <1>6 DEF StoreFiles, PackageTree, StoredFiles

(* Branches and tags stay where they are.                                    *)
LEMMA FixedFills ==
  ASSUME GitTypeOK, Kept, TagsFull, Same,
         remote'.branch = remote.branch, remote'.tag = remote.tag
  PROVE  TagsFull' /\ FilesStay /\ call'.strict = call.strict
<1>1. TagsFull'
  BY TagsStayFull
<1>2. FilesStay
  BY FullFiles, RefsStay DEF FilesStay
<1> QED BY <1>1, <1>2 DEF Same

LEMMA FaultFills ==
  ASSUME GitTypeOK, Kept, TagsFull, Fault, remote'.branch = remote.branch,
         \A t \in TagNames : remote'.tag[t] \in {NoRef, remote.tag[t]}
  PROVE  CallFills
<1>1. Same /\ call'.step = "done"
  BY DoneSame DEF GitTypeOK, Fault
<1>2. call'.result = "fault"
  BY DEF Fault, Done
<1> QED BY <1>1, <1>2, QuietFills

(* The answer of a call that was not to write.                               *)
LEMMA DoneFills ==
  ASSUME GitTypeOK, TagsFull, UNCHANGED <<commits, remote>>,
         NEW result,
         \/ call' = Done(result)
         \/ \E files : call' = [Done(result) EXCEPT !.files = files]
         \/ \E found : call' = [Done(result) EXCEPT !.found = found],
         call.op = "upsert" => call.published \/ result # "ok"
  PROVE  CallFills
<1>1. Same /\ call'.step = "done"
  BY DoneSame DEF GitTypeOK
<1>2. call'.result = result
  BY DEF Done
<1> QED BY <1>1, <1>2, QuietFills DEF Kept

LEMMA FetchFills ==
  ASSUME GitInv, TagsFull, Fetch PROVE CallFills
<1>0. /\ GitTypeOK /\ call \in Calls(Len(commits)) /\ Len(commits) \in Nat
      /\ call.step = "fetch" /\ call.pr \in PRs /\ UNCHANGED <<commits, remote>> /\ Kept
  BY DEF Fetch, FetchFails, GitInv, GitTypeOK, CallShape, Kept
<1>1. CASE Fault
  BY <1>0, <1>1, FaultFills
<1>2. CASE call' = Done("ok") /\ call.op = "upsert" /\ call.published
  BY <1>0, <1>2, DoneFills
<1>3. ASSUME NEW step \in {"branch", "delete", "refetch", "read"}, call' = Goto(step) PROVE CallFills
  <2>1. Same /\ call'.step = step
    BY <1>0, <1>3, GotoSame
  <2> QED BY <1>0, <2>1, QuietFills
<1>4. CASE call' = Goto("commit") /\ local' = Fetched
  <2>1. Same /\ call'.step = "commit" /\ call'.files = call.files
    BY <1>0, <1>4, GotoSame
  <2>2. TagsFull' /\ FilesStay /\ call'.strict = call.strict
    BY <1>0, <2>1, FixedFills
  <2>3. BranchRead'
    BY <1>0, <1>4, <2>1 DEF BranchRead, Same, Fetched, Overlay
  <2>4. PublishesFull'
    BY <2>1 DEF PublishesFull
  <2>5. \A files \in SUBSET Files : WritesKept(files) => WritesKept(files)'
    BY <1>0, <2>1 DEF WritesKept, Same
  <2> QED BY <2>2, <2>3, <2>4, <2>5 DEF CallFills
<1> QED BY <1>1, <1>2, <1>3, <1>4 DEF Fetch, FetchFails, AfterFetch

LEMMA AnswersFill ==
  ASSUME GitInv, TagsFull, List \/ Read PROVE CallFills
<1>0. GitTypeOK /\ call.op # "upsert" /\ UNCHANGED <<commits, remote>> /\ Kept
  BY DEF List, Read, FetchFails, GitInv, Kept
<1>1. CASE Fault
  BY <1>0, <1>1, FaultFills
<1>2. CASE ~ Fault
  <2>1. PICK result :
          \/ call' = Done(result)
          \/ \E files : call' = [Done(result) EXCEPT !.files = files]
          \/ \E found : call' = [Done(result) EXCEPT !.found = found]
    BY <1>2 DEF List, Read, FetchFails
  <2> QED BY <1>0, <2>1, DoneFills
<1> QED BY <1>1, <1>2

(* A draft is written: on top of its branch, unless the policy is strict.    *)
LEMMA CommitWorkspaceFills ==
  ASSUME GitInv, ContentInv, ~ InDirectory, TagsFull, BranchRead, CommitWorkspace
  PROVE  CallFills
<1> DEFINE Moved(refs, new) == IF call.rev # 0 THEN SetMain(refs, new)
                                               ELSE SetBranch(refs, call.pr, new)
<1>0. /\ GitTypeOK /\ call \in Calls(Len(commits)) /\ Len(commits) \in Nat
      /\ call.op = "upsert" /\ call.step = "commit" /\ ~ call.published
      /\ remote \in Refs(Len(commits)) /\ call.pr \in PRs /\ PkgOf[call.pr] \in Packages
      /\ call.files \in SUBSET Files /\ call.strict \in BOOLEAN
  <2>1. GitTypeOK /\ call.op = "upsert" /\ call.step = "commit" /\ ~ call.published
    BY DEF CommitWorkspace, GitInv, ContentInv, WritesDrafts
  <2> QED BY <2>1, Running DEF GitTypeOK
<1>1. PICK new, pkg, pr : new = Len(commits) + 1 /\ pkg = PkgOf[call.pr] /\ pr = call.pr
  OBVIOUS
<1>2. PICK parent \in 0 .. Len(commits) :
        /\ IF call.rev # 0 THEN parent = local.main ELSE IsParent(parent)
        /\ \/ /\ call' = Done("not found")
              /\ UNCHANGED <<commits, remote>>
           \/ /\ parent # NoRef
              /\ commits' = Append(commits, NewCommit(parent, PkgOf[call.pr],
                                                      call.files, call.strict))
              /\ \/ PushDone(Moved(remote, new), Moved(local, new), Done("ok"))
                 \/ PushFails(Moved(remote, new))
  BY <1>1 DEF CommitWorkspace
<1>3. CASE call' = Done("not found") /\ UNCHANGED <<commits, remote>>
  <2>1. Same /\ call'.step = "done" /\ call'.result = "not found"
    <3>1. GitTypeOK /\ call' = Done("not found")
      BY <1>0, <1>3
    <3>2. Same /\ call'.step = "done"
      BY <3>1, DoneSame DEF GitTypeOK
    <3> QED BY <3>1, <3>2 DEF Done
  <2>2. Kept /\ UNCHANGED remote
    BY <1>3 DEF Kept
  <2> QED BY <1>0, <2>1, <2>2, QuietFills
<1>4. CASE /\ parent # NoRef
           /\ commits' = Append(commits, NewCommit(parent, PkgOf[call.pr],
                                                   call.files, call.strict))
           /\ \/ PushDone(Moved(remote, new), Moved(local, new), Done("ok"))
              \/ PushFails(Moved(remote, new))
  <2>0. parent \in Commits
    BY <1>4 DEF NoRef, Commits
  <2>1. Kept /\ call.files \subseteq StoredFiles(new, pkg)'
    <3>1. /\ GitTypeOK /\ pkg \in Packages /\ call.files \in SUBSET Files
          /\ call.strict \in BOOLEAN /\ new = Len(commits) + 1
          /\ commits' = Append(commits, NewCommit(parent, pkg, call.files, call.strict))
      BY <1>0, <1>1, <1>4
    <3>2. Grown /\ call.files \subseteq StoredFiles(new, pkg)'
      BY <2>0, <3>1, NewContent
    <3> QED BY <3>2 DEF Kept
  <2>2. ~ call.strict =>
          StoredFiles(parent, pkg) \ Replaced(call.files) \subseteq StoredFiles(new, pkg)'
    <3>1. SUFFICES ASSUME ~ call.strict
                   PROVE  StoredFiles(parent, pkg) \ Replaced(call.files)
                            \subseteq StoredFiles(new, pkg)'
      OBVIOUS
    <3>2. call.strict = FALSE
      BY <1>0, <3>1
    <3> QED BY <1>0, <1>1, <1>4, <2>0, <3>2, CommitAdds
  <2>3. /\ Same /\ call'.step = "done"
        /\ remote' = remote \/ remote' = Moved(remote, new)
        /\ call'.result = "ok" => remote' = Moved(remote, new)
    <3>1. \/ call' = Done("fault") /\ remote' \in {remote, Moved(remote, new)}
          \/ call' = Done("ok") /\ remote' = Moved(remote, new)
      BY <1>4 DEF PushDone, PushFails, Fault
    <3>2. Same /\ call'.step = "done"
      BY <1>0, <3>1, DoneSame
    <3> QED BY <3>1, <3>2 DEF Done
  <2>4. PublishesFull' /\ BranchRead'
    BY <2>3 DEF PublishesFull, BranchRead
  <2>5. CASE call.rev # 0 \/ remote' = remote
    <3>1. remote'.branch = remote.branch /\ remote'.tag = remote.tag
      BY <1>0, <2>3, <2>5, SetRefsFields
    <3>2. TagsFull' /\ FilesStay /\ call'.strict = call.strict
      BY <1>0, <2>1, <2>3, <3>1, FixedFills
    <3>3. call.rev = 0 => call'.result # "ok" \/ remote' = Moved(remote, new)
      BY <2>3
    <3>4. \A files \in SUBSET Files : WritesKept(files) => WritesKept(files)'
      <4>1. CASE call.rev # 0
        BY <2>3, <4>1 DEF WritesKept, Same
      <4>2. CASE call.rev = 0 /\ call'.result # "ok"
        BY <2>3, <4>2 DEF WritesKept, Same
      <4>3. CASE call.rev = 0 /\ remote' = remote /\ remote' = Moved(remote, new)
        <5>1. remote'.branch[call.pr] = new
          BY <1>0, <4>3 DEF SetBranch, Refs
        <5>2. remote'.branch[call.pr] \in 0 .. Len(commits)
          BY <1>0, <4>3 DEF Refs
        <5> QED BY <1>0, <1>1, <5>1, <5>2
      <4> QED BY <2>3, <2>5, <4>1, <4>2, <4>3
    <3> QED BY <2>4, <3>2, <3>4 DEF CallFills
  <2>6. CASE call.rev = 0 /\ remote' = Moved(remote, new)
    <3>1. /\ remote'.branch = [remote.branch EXCEPT ![pr] = new] /\ remote'.tag = remote.tag
          /\ pr \in PRs /\ remote.branch \in [PRs -> 0 .. Len(commits)]
      BY <1>0, <1>1, <2>6 DEF SetBranch, Refs
    <3>2. TagsFull'
      BY <1>0, <2>1, <3>1, TagsStayFull
    <3>3. \A files \in SUBSET Files :
            files \subseteq StoredFiles(new, pkg)' => InBranch(pr, files)'
      BY <1>0, <1>1, <3>1 DEF InBranch, NoRef
    <3>4. FilesStay
      <4> SUFFICES ASSUME NEW q \in PRs, NEW files \in SUBSET Spared, InBranch(q, files)
                   PROVE  InBranch(q, files)' \/ TakesFiles(q)
        BY DEF FilesStay
      <4>0. files \in SUBSET Files
        BY FullFiles
      <4>1. CASE q # pr
        BY <1>0, <2>1, <3>1, <4>0, <4>1, RefsStay
      <4>2. CASE q = pr /\ (call.strict \/ call.files \notin Overwrites)
        BY <1>0, <1>1, <2>6, <4>2 DEF TakesFiles
      <4>3. CASE q = pr /\ ~ call.strict /\ call.files \in Overwrites
        <5>1. remote.branch[pr] # NoRef /\ files \subseteq StoredFiles(remote.branch[pr], pkg)
          BY <1>1, <4>3 DEF InBranch
        <5>2. local.branch[call.pr] = remote.branch[pr]
          BY <1>0, <1>1, <5>1 DEF BranchRead
        <5>3. parent = remote.branch[pr]
          BY <1>2, <2>6, <5>1, <5>2 DEF IsParent
        <5>4. files \cap Replaced(call.files) \subseteq call.files
          BY <4>3 DEF Spared
        <5>5. files \subseteq StoredFiles(new, pkg)'
          BY <2>1, <2>2, <4>3, <5>1, <5>3, <5>4
        <5> QED BY <3>3, <4>0, <4>3, <5>5
      <4> QED BY <4>1, <4>2, <4>3
    <3>5. \A files \in SUBSET Files : WritesKept(files) => WritesKept(files)'
      <4> SUFFICES ASSUME NEW files \in SUBSET Files, WritesKept(files) PROVE WritesKept(files)'
        OBVIOUS
      <4>1. call.files = files
        BY <1>0 DEF WritesKept
      <4>2. InBranch(pr, files)'
        BY <2>1, <3>3, <4>1
      <4>3. call'.pr = pr /\ call'.step = "done"
        BY <1>1, <2>3 DEF Same
      <4> QED BY <4>2, <4>3 DEF WritesKept, InBranch
    <3> QED BY <2>3, <2>4, <3>2, <3>4, <3>5 DEF CallFills, Same
  <2> QED BY <2>3, <2>5, <2>6
<1> QED BY <1>2, <1>3, <1>4

LEMMA CheckBranchFills ==
  ASSUME GitInv, TagsFull, CheckBranch PROVE CallFills
<1>0. /\ GitTypeOK /\ call \in Calls(Len(commits)) /\ Len(commits) \in Nat
      /\ call.op = "ensure" /\ UNCHANGED <<commits, remote>> /\ Kept
  BY DEF CheckBranch, GitInv, GitTypeOK, Kept
<1>1. CASE call' = Done("not found")
  <2>1. PICK result : call' = Done(result)
    BY <1>1
  <2> QED BY <1>0, <2>1, DoneFills
<1>2. CASE call' = [Goto("refetch") EXCEPT !.head = local.branch[call.pr]]
  <2>1. Same /\ call'.step = "refetch"
    BY <1>0, <1>2 DEF Goto, Same, Calls
  <2> QED BY <1>0, <2>1, QuietFills
<1> QED BY <1>1, <1>2 DEF CheckBranch

(* What is to be tagged is what the branch holds.                            *)
LEMMA ReadBranchFills ==
  ASSUME GitInv, ~ InDirectory, TagsFull, ReadBranch,
         InBranch(call.pr, Full) \/ UnderTag(call.pr, call.rev)
  PROVE  CallFills
<1>0. /\ GitTypeOK /\ call \in Calls(Len(commits)) /\ Len(commits) \in Nat
      /\ call.op = "ensure" /\ call.pr \in PRs /\ UNCHANGED <<commits, remote>> /\ Kept
  BY DEF ReadBranch, FetchFails, GitInv, GitTypeOK, CallShape, Kept
<1>1. CASE Fault
  BY <1>0, <1>1, FaultFills
<1>2. CASE call' = [Goto("publish") EXCEPT
                      !.files = Resources(Fetched.branch[call.pr], PkgOf[call.pr])]
  <2>1. /\ Same /\ call'.step = "publish"
        /\ call'.files = Resources(Fetched.branch[call.pr], PkgOf[call.pr])
    BY <1>0, <1>2 DEF Goto, Same, Calls
  <2>2. TagsFull' /\ FilesStay /\ call'.strict = call.strict
    BY <1>0, <2>1, FixedFills
  <2>3. InBranch(call.pr, Full) => Full \subseteq call'.files
    <3>1. remote.branch[call.pr] # NoRef => Fetched.branch[call.pr] = remote.branch[call.pr]
      BY <1>0 DEF Fetched, Overlay
    <3> QED BY <2>1, <3>1 DEF InBranch, StoredFiles, Resources, PackageTree
  <2>4. PublishesFull'
    BY <1>0, <2>1, <2>3 DEF PublishesFull, UnderTag, Same, Full, Spared, Overwrites
  <2>5. BranchRead' /\ \A files \in SUBSET Files : WritesKept(files)'
    BY <1>0, <2>1 DEF BranchRead, WritesKept, Same
  <2> QED BY <2>2, <2>4, <2>5 DEF CallFills
<1> QED BY <1>1, <1>2 DEF ReadBranch, FetchFails

LEMMA CommitToMainFills ==
  ASSUME GitInv, ~ InDirectory, TagsFull, PublishesFull, CommitToMain
  PROVE  CallFills
<1>0. /\ GitTypeOK /\ call \in Calls(Len(commits)) /\ Len(commits) \in Nat
      /\ call.op = "ensure" /\ call.step = "publish" /\ call.pr \in PRs
      /\ remote \in Refs(Len(commits))
  BY DEF CommitToMain, Open, GitInv, GitTypeOK, CallShape
<1>1. PICK new : new = Len(commits) + 1
  OBVIOUS
<1>2. Kept
  BY <1>0, <1>1, Running, NewContent DEF Kept, CommitToMain
<1>3. /\ remote' = remote \/ remote' = SetMain(remote, new)
      /\ \/ call' = [Goto("createTag") EXCEPT !.commit = new]
         \/ Fault
  BY <1>1 DEF CommitToMain, PushDone, PushFails
<1>4. remote'.branch = remote.branch /\ remote'.tag = remote.tag
  BY <1>0, <1>3, SetRefsFields
<1>5. CASE Fault
  BY <1>0, <1>2, <1>4, <1>5, FaultFills
<1>6. CASE call' = [Goto("createTag") EXCEPT !.commit = new]
  <2>1. Same /\ call'.step = "createTag" /\ call'.files = call.files
    BY <1>0, <1>6 DEF Goto, Same, Calls
  <2>2. TagsFull' /\ FilesStay /\ call'.strict = call.strict
    BY <1>0, <1>2, <1>4, <2>1, FixedFills
  <2>3. PublishesFull'
    BY <1>0, <1>4, <2>1 DEF PublishesFull, UnderTag, Same, Full, Spared, Overwrites
  <2>4. BranchRead' /\ \A files \in SUBSET Files : WritesKept(files)'
    BY <1>0, <2>1 DEF BranchRead, WritesKept, Same
  <2> QED BY <2>2, <2>3, <2>4 DEF CallFills
<1> QED BY <1>3, <1>5, <1>6

LEMMA CreateTagFills ==
  ASSUME GitInv, TagsFull, PublishesFull, CreateTag PROVE CallFills
<1>0. /\ GitTypeOK /\ call \in Calls(Len(commits)) /\ Len(commits) \in Nat
      /\ call.op = "ensure" /\ call.step = "createTag" /\ UNCHANGED <<commits, remote>> /\ Kept
  BY DEF CreateTag, GitInv, GitTypeOK, Kept
<1>1. CASE call' = Done("ok")
  <2>1. PICK result : call' = Done(result)
    BY <1>1
  <2> QED BY <1>0, <2>1, DoneFills
<1>2. CASE call' = Goto("pushTag")
  <2>1. Same /\ call'.step = "pushTag" /\ call'.files = call.files
    BY <1>0, <1>2, GotoSame
  <2>2. TagsFull' /\ FilesStay /\ call'.strict = call.strict
    BY <1>0, <2>1, FixedFills
  <2>3. PublishesFull'
    BY <1>0, <2>1 DEF PublishesFull, UnderTag, Same, Full, Spared, Overwrites
  <2>4. BranchRead' /\ \A files \in SUBSET Files : WritesKept(files)'
    BY <1>0, <2>1 DEF BranchRead, WritesKept, Same
  <2> QED BY <2>2, <2>3, <2>4 DEF CallFills
<1> QED BY <1>1, <1>2 DEF CreateTag

(* The tag that is pushed is new, so that its commit has all files.          *)
LEMMA PushTagFills ==
  ASSUME GitInv, ContentInv, TagsFull, PublishesFull, PushTag PROVE CallFills
<1>0. /\ GitTypeOK /\ call \in Calls(Len(commits)) /\ Len(commits) \in Nat
      /\ call.op = "ensure" /\ call.step = "pushTag" /\ call.pr \in PRs /\ call.rev \in Revs
      /\ remote \in Refs(Len(commits)) /\ commits' = commits /\ Kept
  BY DEF PushTag, Open, GitInv, GitTypeOK, CallShape, Kept
<1>1. PICK t, c : /\ t = Tag(call.pr, call.rev) /\ t \in TagNames /\ t[1] = PkgOf[call.pr]
                  /\ c = call.commit /\ c \in Commits
  <2>1. Tag(call.pr, call.rev) \in TagNames /\ Tag(call.pr, call.rev)[1] = PkgOf[call.pr]
    BY <1>0, TagType DEF Tag
  <2>2. call.commit \in Commits
    BY <1>0 DEF GitInv, CallShape, Calls, Commits, NoRef
  <2> QED BY <2>1, <2>2
<1>2. \/ PushDone(SetTag(remote, t, c), SetTag(local, t, c), Goto("deleteBranch"))
      \/ PushFails(SetTag(remote, t, c))
  BY <1>1 DEF PushTag
<1>3. remote.tag[t] = NoRef
  BY <1>0, <1>1 DEF GitInv, NewTagIsNew
<1>4. CASE remote' = remote /\ Fault
  BY <1>0, <1>4, FaultFills
<1>5. CASE remote' = SetTag(remote, t, c)
  <2>1. /\ remote'.tag = [remote.tag EXCEPT ![t] = c]
        /\ remote'.branch = remote.branch
    BY <1>0, <1>1, <1>5 DEF SetTag, Refs
  <2>2. Full \subseteq StoredFiles(c, t[1])
    BY <1>0, <1>1, <1>3 DEF PublishesFull, UnderTag, ContentInv, CommitHoldsFiles
  <2>3. TagsFull'
    <3> SUFFICES ASSUME NEW u \in TagNames, remote'.tag[u] # NoRef
                 PROVE  Full \subseteq StoredFiles(remote.tag[u], u[1])'
      BY DEF TagsFull, Full, Spared, Overwrites
    <3>1. CASE u = t
      BY <1>0, <1>1, <2>1, <2>2, <3>1 DEF StoredFiles, Refs
    <3>2. CASE u # t
      <4>1. remote'.tag[u] = remote.tag[u] /\ remote.tag[u] # NoRef
        BY <1>0, <2>1, <3>2 DEF Refs
      <4> QED BY <1>0, <4>1, RefsStay DEF TagsFull
    <3> QED BY <3>1, <3>2
  <2>4. Same /\ call'.step \in {"done", "deleteBranch"}
    <3>1. CASE call' = Goto("deleteBranch")
      BY <1>0, <3>1, GotoSame
    <3>2. CASE Fault
      BY <1>0, <3>2, DoneSame DEF Fault
    <3> QED BY <1>2, <3>1, <3>2 DEF PushDone, PushFails
  <2>5. FilesStay
    BY <1>0, <2>1, FullFiles, RefsStay DEF FilesStay
  <2>6. PublishesFull' /\ BranchRead' /\ \A files \in SUBSET Files : WritesKept(files)'
    BY <1>0, <2>4 DEF PublishesFull, BranchRead, WritesKept, Same
  <2> QED BY <2>3, <2>4, <2>5, <2>6 DEF CallFills, Same
<1> QED BY <1>2, <1>4, <1>5 DEF PushDone, PushFails

(* The branch of the call's package revision goes, and nothing else.         *)
LEMMA ClearedFills ==
  ASSUME GitTypeOK, Kept, TagsFull, Same, call'.step = "done", call.op # "upsert",
         NEW pr \in PRs, pr = call.pr, remote' = SetBranch(remote, pr, NoRef), TakesFiles(pr)
  PROVE  CallFills
<1>1. /\ remote'.branch = [remote.branch EXCEPT ![pr] = NoRef] /\ remote'.tag = remote.tag
      /\ remote.branch \in [PRs -> 0 .. Len(commits)]
  BY DEF GitTypeOK, SetBranch, Refs
<1>2. TagsFull'
  BY <1>1, TagsStayFull
<1>3. FilesStay
  <2> SUFFICES ASSUME NEW q \in PRs, NEW files \in SUBSET Spared, InBranch(q, files)
               PROVE  InBranch(q, files)' \/ TakesFiles(q)
    BY DEF FilesStay
  <2>1. CASE q # pr
    BY <1>1, <2>1, FullFiles, RefsStay
  <2> QED BY <2>1
<1>4. PublishesFull' /\ BranchRead' /\ \A files \in SUBSET Files : WritesKept(files)'
  BY DEF PublishesFull, BranchRead, WritesKept, Same
<1> QED BY <1>2, <1>3, <1>4 DEF CallFills, Same

LEMMA DeleteBranchFills ==
  ASSUME GitInv, ContentInv, TagsFull, DeleteBranch PROVE CallFills
<1>0. /\ Open /\ GitTypeOK /\ call \in Calls(Len(commits)) /\ Len(commits) \in Nat
      /\ call.op = "ensure" /\ call.step = "deleteBranch" /\ call.pr \in PRs
      /\ call.rev \in Revs /\ call.commit # NoRef
  BY DEF DeleteBranch, Open, GitInv, GitTypeOK, CallShape
<1>1. PICK pr : pr = call.pr /\ pr \in PRs
  BY <1>0
<1>2. /\ Kept /\ Same /\ call'.step = "done"
      /\ remote' = remote \/ remote' = SetBranch(remote, pr, NoRef)
  BY <1>0, <1>1, DeleteRefEnds DEF DeleteBranch
<1>3. CASE remote' = remote
  BY <1>0, <1>2, <1>3, QuietFills
<1>4. CASE remote' = SetBranch(remote, pr, NoRef)
  <2>1. remote'.tag = remote.tag
    BY <1>4 DEF SetBranch
  <2>2. call'.rev = call.rev /\ call'.pr = call.pr
    BY <1>2 DEF Same
  <2>3. remote.tag[Tag(call.pr, call.rev)] # NoRef /\ call.rev # 0
    BY <1>0 DEF ContentInv, TaggedBeforeDelete, Revs
  <2>4. TakesFiles(pr)
    BY <1>0, <1>1, <2>1, <2>2, <2>3 DEF TakesFiles, UnderTag
  <2> QED BY <1>0, <1>1, <1>2, <1>4, <2>4, ClearedFills
<1> QED BY <1>2, <1>3, <1>4

LEMMA DeleteDraftFills ==
  ASSUME GitInv, TagsFull, DeleteDraft PROVE CallFills
<1>0. /\ Open /\ GitTypeOK /\ call \in Calls(Len(commits)) /\ Len(commits) \in Nat
      /\ call.op = "delete" /\ call.rev = 0 /\ call.pr \in PRs
  BY DEF DeleteDraft, Open, GitInv, GitTypeOK, CallShape
<1>1. CASE call' = Done("not found") /\ UNCHANGED <<commits, remote>>
  <2>1. PICK result : call' = Done(result)
    BY <1>1
  <2> QED BY <1>0, <1>1, <2>1, DoneFills
<1>2. PICK pr : pr = call.pr /\ pr \in PRs
  BY <1>0
<1>3. CASE DeleteRef(local.branch[pr] = remote.branch[pr],
                     SetBranch(remote, pr, NoRef), SetBranch(local, pr, NoRef))
  <2>1. /\ Kept /\ Same /\ call'.step = "done"
        /\ remote' = remote \/ remote' = SetBranch(remote, pr, NoRef)
    BY <1>0, <1>3, DeleteRefEnds
  <2>2. CASE remote' = remote
    BY <1>0, <2>1, <2>2, QuietFills
  <2>3. CASE remote' = SetBranch(remote, pr, NoRef)
    <3>1. TakesFiles(pr)
      BY <1>0, <1>2 DEF TakesFiles
    <3> QED BY <1>0, <1>2, <2>1, <2>3, <3>1, ClearedFills
  <2> QED BY <2>1, <2>2, <2>3
<1> QED BY <1>1, <1>2, <1>3 DEF DeleteDraft

LEMMA DeleteTagFills ==
  ASSUME GitInv, TagsFull, DeleteTag PROVE CallFills
<1>0. /\ Open /\ GitTypeOK /\ call \in Calls(Len(commits)) /\ Len(commits) \in Nat
      /\ call.op = "delete" /\ call.rev # 0 /\ call.pr \in PRs
      /\ remote \in Refs(Len(commits))
  BY DEF DeleteTag, Open, GitInv, GitTypeOK, CallShape
<1>1. CASE call' = Done("ok") /\ UNCHANGED <<commits, remote>>
  <2>1. PICK result : call' = Done(result)
    BY <1>1
  <2> QED BY <1>0, <1>1, <2>1, DoneFills
<1>2. PICK t : t = Tag(call.pr, call.rev) /\ t \in TagNames
  BY <1>0, TagType DEF Calls, Revs
<1>3. CASE DeleteRef(t \notin annotated /\ local.tag[t] = remote.tag[t],
                     SetTag(remote, t, NoRef), SetTag(local, t, NoRef))
  <2>1. /\ Kept /\ Same /\ call'.step = "done"
        /\ remote' = remote \/ remote' = SetTag(remote, t, NoRef)
    BY <1>0, <1>3, DeleteRefEnds
  <2>2. /\ remote'.branch = remote.branch
        /\ \A u \in TagNames : remote'.tag[u] \in {NoRef, remote.tag[u]}
    BY <1>0, <2>1 DEF SetTag, Refs
  <2> QED BY <1>0, <2>1, <2>2, QuietFills
<1> QED BY <1>1, <1>2, <1>3 DEF DeleteTag

(* Every step of a call.                                                     *)
LEMMA CallStepFills ==
  ASSUME GitInv, ContentInv, ~ InDirectory, TagsFull, PublishesFull, BranchRead, CallStep,
         call.op = "ensure" => InBranch(call.pr, Full) \/ UnderTag(call.pr, call.rev)
  PROVE  CallFills
<1>1. CASE Fetch \/ List \/ Read
  BY <1>1, FetchFills, AnswersFill
<1>2. CASE CommitWorkspace
  BY <1>2, CommitWorkspaceFills
<1>3. CASE CheckBranch
  BY <1>3, CheckBranchFills
<1>4. CASE ReadBranch
  BY <1>4, ReadBranchFills DEF ReadBranch
<1>5. CASE CommitToMain \/ CreateTag \/ PushTag
  BY <1>5, CommitToMainFills, CreateTagFills, PushTagFills
<1>6. CASE DeleteBranch \/ DeleteDraft \/ DeleteTag
  BY <1>6, DeleteBranchFills, DeleteDraftFills, DeleteTagFills
<1> QED BY <1>1, <1>2, <1>3, <1>4, <1>5, <1>6 DEF CallStep

----------------------------------------------------------------------------
(* What the objects and the workers promise of git.                          *)

(* A draft that is ready has in its branch the files of its task that later  *)
(* writes spare; one that has been processed has all that are spared, and so *)
(* has what is published, unless they are under its tag.  Before it is ready *)
(* nothing but its task has been done.                                       *)
Prepared(pr, o) ==
  ~ o.deleting =>
    /\ o.lifecycle = "draft" =>
         o.tasks /\ IF Ready \in o.conds THEN InBranch(pr, Upstream \cap Spared)
                                         ELSE "process" \notin o.conds
    /\ o.lifecycle = "proposed" => "process" \in o.conds
    /\ o.lifecycle \in {"proposed", "published"} => ~ o.tasks
    /\ o.lifecycle \in {"draft", "proposed"} /\ "process" \in o.conds => InBranch(pr, Full)
    /\ o.lifecycle = "published" => InBranch(pr, Full) \/ UnderTag(pr, o.rev)

(* What is read from a cache that may lag behind: a copy that is published   *)
(* and has its revision is in git.                                           *)
Seen(pr, c) ==
  c.lifecycle = "published" /\ ~ c.deleting =>
    /\ ~ c.tasks /\ "revision" \in c.fins
    /\ c.rev # 0 => InBranch(pr, Full) \/ UnderTag(pr, c.rev)
SeenInv == \A pr \in PRs : Seen(pr, Current(pr))

(* An object whose branch a write of the task may still take files out of.   *)
Unready(o) ==
  \/ o.deleting \/ o.lifecycle = "deletionProposed"
  \/ o.lifecycle = "draft" /\ Ready \notin o.conds

RevisionFills(k, o) ==
  /\ k.request.op # "get"
  /\ k.request.op = "upsert" =>
       /\ k.cr.tasks /\ Ready \notin k.cr.conds
       /\ k.request.files = Upstream /\ k.request.rev = k.cr.rev /\ ~ k.request.published
       /\ k.request.strict => ~ CacheLag
       /\ ~ CacheLag => Unready(o)
  /\ k.request.op = "ensure" =>
       /\ k.cr.lifecycle = "published"
       /\ InBranch(k.pr, Full) \/ UnderTag(k.pr, k.request.rev)
ProcessorFills(k) ==
  ~ k.cr.deleting =>
    Ready \in k.cr.conds /\ (k.request.op = "upsert" => k.request.files = Generated)

WorkFills(w, k, o) ==
  k.step # "idle" =>
    /\ w = "revision" => RevisionFills(k, o)
    /\ w = "processor" => ProcessorFills(k)
    /\ w # "revision" =>
         ~ k.request.strict /\ (k.request.op = "upsert" => k.request.files \in Overwrites)
CallOfWork(k) == WritesKept(k.request.files) /\ call.strict = k.request.strict

FilledInv ==
  /\ TagsFull /\ PublishesFull /\ BranchRead
  /\ \A pr \in PRs : Prepared(pr, store[pr])
  /\ \A w \in Workers : /\ WorkFills(w, work[w], store[work[w].pr])
                        /\ holder = w => CallOfWork(work[w])

(* Nothing changes in git.                                                   *)
LEMMA StillGit ==
  ASSUME UNCHANGED <<commits, remote>>
  PROVE  /\ TagsFull' <=> TagsFull
         /\ \A pr, files : InBranch(pr, files)' <=> InBranch(pr, files)
         /\ \A pr, rev : UnderTag(pr, rev)' <=> UnderTag(pr, rev)
         /\ \A pr, o : Prepared(pr, o)' <=> Prepared(pr, o)
         /\ \A w, k, o : WorkFills(w, k, o)' <=> WorkFills(w, k, o)
<1>1. TagsFull' <=> TagsFull
  BY DEF TagsFull, StoredFiles, Full, Spared, Overwrites
<1>2. /\ \A pr, files : InBranch(pr, files)' <=> InBranch(pr, files)
      /\ \A pr, rev : UnderTag(pr, rev)' <=> UnderTag(pr, rev)
  BY DEF InBranch, UnderTag, StoredFiles, Tag
<1>3. \A pr, o : Prepared(pr, o)' <=> Prepared(pr, o)
  BY <1>2 DEF Prepared, Full, Spared, Overwrites
<1>4. \A w, k, o : WorkFills(w, k, o)' <=> WorkFills(w, k, o)
  BY <1>2 DEF WorkFills, RevisionFills, ProcessorFills, Full, Spared, Overwrites, Unready
<1> QED BY <1>1, <1>2, <1>3, <1>4

LEMMA StillCall ==
  ASSUME UNCHANGED <<commits, remote, local, call>>
  PROVE  /\ PublishesFull' <=> PublishesFull
         /\ BranchRead' <=> BranchRead
         /\ \A k : CallOfWork(k)' <=> CallOfWork(k)
<1>1. PublishesFull' <=> PublishesFull
  BY StillGit DEF PublishesFull, Full, Spared, Overwrites, UnderTag, Tag
<1>2. BranchRead' <=> BranchRead
  BY DEF BranchRead
<1>3. \A k : CallOfWork(k)' <=> CallOfWork(k)
  BY DEF CallOfWork, WritesKept, InBranch, StoredFiles
<1> QED BY <1>1, <1>2, <1>3

(* No call is running.                                                       *)
LEMMA CallAtRest ==
  ASSUME call' = Idle, holder' = "none"
  PROVE  PublishesFull' /\ BranchRead' /\ \A w \in Workers : holder' # w
  BY DEF PublishesFull, BranchRead, Idle, Workers

(* A write of o by worker w, which goes on as next.                          *)
FilledWrite(pr, o, w, next) ==
  /\ Prepared(pr, o)
  /\ w # "revision" /\ "revision" \in store[pr].fins /\ Unready(store[pr]) => Unready(o)
  /\ w \in Workers => WorkFills(w, next, o) /\ (next.step # "idle" => next.pr = pr)

LEMMA WriteFills ==
  ASSUME PackagesInv, RootedInv, FilledInv, NEW pr \in PRs, NEW o, NEW w, NEW next,
         Written(pr, o, w, next), Aside(w), commits' = commits, FilledWrite(pr, o, w, next)
  PROVE  FilledInv'
<1>1. /\ \A q \in PRs : store'[q] = IF q = pr THEN o ELSE store[q]
      /\ w \in Workers => work'[w] = next
      /\ \A v \in Workers : v # w =>
           /\ work'[v].step = work[v].step /\ work'[v].pr = work[v].pr
           /\ work'[v].cr = work[v].cr /\ work'[v].request = work[v].request
  BY WrittenAt
<1>2. UNCHANGED <<commits, remote>>
  BY DEF Aside, Answered, Return
<1>3. TagsFull' /\ \A q \in PRs : Prepared(q, store[q])'
  <2>1. TagsFull'
    BY <1>2, StillGit DEF FilledInv
  <2>2. ASSUME NEW q \in PRs PROVE Prepared(q, store'[q])
    BY <1>1 DEF FilledWrite, FilledInv
  <2>3. ASSUME NEW q \in PRs PROVE Prepared(q, store[q])'
    <3>1. PICK x : x = store'[q]
      OBVIOUS
    <3>2. Prepared(q, x)'
      BY <1>2, <2>2, <3>1, StillGit
    <3> QED BY <3>1, <3>2 DEF Prepared
  <2> QED BY <2>1, <2>3
<1>4. ASSUME NEW v \in Workers PROVE WorkFills(v, work[v], store[work[v].pr])'
  <2>1. PICK k, x : k = work'[v] /\ x = store'[k.pr]
    OBVIOUS
  <2>2. WorkFills(v, k, x)
    <3>1. CASE v = w
      <4>1. k = next /\ (k.step # "idle" => x = o)
        BY <1>1, <2>1, <3>1 DEF FilledWrite
      <4> QED BY <3>1, <4>1 DEF FilledWrite, WorkFills
    <3>2. CASE v # w
      <4>1. /\ k.step = work[v].step /\ k.pr = work[v].pr /\ k.cr = work[v].cr
            /\ k.request = work[v].request
        BY <1>1, <2>1, <3>2
      <4>2. WorkFills(v, work[v], store[work[v].pr])
        BY DEF FilledInv
      <4>3. CASE v = "revision" /\ k.step # "idle"
        <5>1. RevisionFills(work[v], store[work[v].pr])
          BY <4>1, <4>2, <4>3 DEF WorkFills
        <5>2. k.request.op = "upsert" => "revision" \in store[k.pr].fins
          BY <4>1, <4>3 DEF RootedInv, RevisionRooted
        <5>3. k.pr \in PRs
          BY <4>1, <4>3, BusyParts
        <5>4. k.request.op = "upsert" /\ ~ CacheLag => Unready(x)
          BY <1>1, <2>1, <3>2, <4>1, <4>3, <5>1, <5>2, <5>3 DEF FilledWrite, RevisionFills
        <5>5. RevisionFills(k, x)
          BY <4>1, <5>1, <5>4 DEF RevisionFills
        <5> QED BY <4>3, <5>5 DEF WorkFills
      <4>4. CASE v # "revision" \/ k.step = "idle"
        BY <4>1, <4>2, <4>4 DEF WorkFills, ProcessorFills
      <4> QED BY <4>3, <4>4
    <3> QED BY <3>1, <3>2
  <2>3. WorkFills(v, k, x)'
    BY <1>2, <2>2, StillGit
  <2> QED BY <2>1, <2>3 DEF WorkFills, RevisionFills, ProcessorFills
<1>5. CASE UNCHANGED <<remote, local, call, holder>> /\ (w \in Workers => holder # w)
  <2>1. PublishesFull' /\ BranchRead' /\ \A k : CallOfWork(k)' <=> CallOfWork(k)
    BY <1>2, <1>5, StillCall DEF FilledInv
  <2>2. ASSUME NEW v \in Workers, holder' = v PROVE CallOfWork(work[v])'
    <3>1. work'[v].request = work[v].request /\ CallOfWork(work[v])
      BY <1>1, <1>5, <2>2 DEF FilledInv
    <3>2. PICK k : k = work[v]
      OBVIOUS
    <3>3. CallOfWork(k)'
      BY <2>1, <3>1, <3>2
    <3> QED BY <3>1, <3>2, <3>3 DEF CallOfWork
  <2> QED BY <1>3, <1>4, <2>1, <2>2 DEF FilledInv
<1>6. CASE w \in Workers /\ Answered(w)
  <2>1. PublishesFull' /\ BranchRead' /\ \A v \in Workers : holder' # v
    BY <1>6, CallAtRest DEF Answered, Return
  <2> QED BY <1>3, <1>4, <2>1 DEF FilledInv
<1> QED BY <1>5, <1>6 DEF Aside

----------------------------------------------------------------------------
(* The steps that write no object. *)

(* The hypotheses under which a step keeps what is promised.  The policy is  *)
(* not strict where the cache may lag behind.                                *)
FilledBefore ==
  /\ PackagesInv /\ AskedInv /\ HeldInv /\ RootedInv /\ FilledInv /\ SeenInv
  /\ CacheLag => ~ Strict

LEMMA RestFills ==
  ASSUME FilledInv, UNCHANGED <<commits, remote, local, call, holder, store, work>>
  PROVE  FilledInv'
<1>1. TagsFull' /\ PublishesFull' /\ BranchRead'
  BY StillGit, StillCall DEF FilledInv
<1>2. ASSUME NEW pr \in PRs PROVE Prepared(pr, store[pr])'
  BY <1>2, StillGit DEF FilledInv, Prepared
<1>3. ASSUME NEW w \in Workers
      PROVE  WorkFills(w, work[w], store[work[w].pr])' /\ (holder' = w => CallOfWork(work[w])')
  <2>1. PICK k, o : k = work[w] /\ o = store[k.pr]
    OBVIOUS
  <2>2. WorkFills(w, k, o)' /\ (holder' = w => CallOfWork(k)')
    BY <2>1, StillGit, StillCall DEF FilledInv
  <2>3. work'[w] = k /\ store'[k.pr] = o
    BY <2>1
  <2> QED BY <2>2, <2>3 DEF CallOfWork, WorkFills, RevisionFills, ProcessorFills
<1> QED BY <1>1, <1>2, <1>3 DEF FilledInv

LEMMA StayFills ==
  ASSUME FilledBefore, NEW pr \in PRs, NEW w \in Workers, NEW next,
         work' = [work EXCEPT ![w] = next], UNCHANGED <<store, synced, commits>>, Aside(w),
         WorkFills(w, next, store[pr]), next.step # "idle" => next.pr = pr
  PROVE  FilledInv'
<1>1. PackagesInv
  BY DEF FilledBefore
<1>2. Written(pr, store[pr], w, next)
  <2>1. /\ store \in [PRs -> Stored] /\ synced \in [PRs -> BOOLEAN]
        /\ work \in [Workers -> Work]
    BY <1>1 DEF PackagesInv, TypeOK
  <2>2. work' = WorkAfter(pr, store[pr], w, next)
    BY <2>1 DEF WorkAfter
  <2> QED BY <2>1, <2>2 DEF Written, Changed
<1>3. FilledWrite(pr, store[pr], w, next)
  BY DEF FilledBefore, FilledInv, FilledWrite
<1> QED BY <1>2, <1>3, WriteFills DEF FilledBefore

LEMMA UserUpdateFills ==
  ASSUME FilledBefore, NEW pr \in PRs, UserUpdate(pr) PROVE FilledInv'
<1> DEFINE request == GetRequest(pr, store[pr].rev)
           next == Waiting(pr, store[pr], FALSE, request)
<1>1. /\ work' = [work EXCEPT !["user"] = next] /\ work["user"] = NoWork /\ "user" \in Workers
      /\ UNCHANGED <<gitVars, store, synced, holder>>
  BY DEF UserUpdate, Workers
<1>2. Aside("user")
  BY <1>1, NoWorkParts DEF Aside, gitVars, FilledBefore, PackagesInv, CallOfHolder
<1>3. ~ request.strict /\ request.op = "get"
  BY DEF GetRequest, Request
<1> HIDE DEF request
<1>4. next.pr = pr /\ next.request = request
  BY DEF Waiting
<1> HIDE DEF next
<1>5. WorkFills("user", next, store[pr])
  BY <1>3, <1>4 DEF WorkFills
<1> QED BY <1>1, <1>2, <1>4, <1>5, StayFills DEF gitVars

LEMMA UserDoneFills == ASSUME FilledBefore, UserDone PROVE FilledInv'
<1>1. /\ "user" \in Workers /\ Answered("user") /\ work' = [work EXCEPT !["user"] = NoWork]
      /\ UNCHANGED <<store, synced, commits>>
  BY DEF UserDone, Workers, Answered, Return
<1>2. PICK pr \in PRs : pr = work["user"].pr
  BY <1>1, HolderParts DEF FilledBefore
<1> QED BY <1>1, NoWorkParts, StayFills DEF Aside, WorkFills

(* What is written next has been asked for.                                  *)
LEMMA UpsertFills ==
  ASSUME FilledBefore, NEW w \in Workers, w # "revision", NEW files, Upsert(w, files),
         files \in Overwrites, w = "processor" => files = Generated
  PROVE  FilledInv'
<1> DEFINE k == work[w]
           q == UpsertRequest(k.request.pr, k.request.rev, FALSE, FALSE, files)
           next == [k EXCEPT !.step = "waiting", !.request = q]
<1>0. /\ Answered(w) /\ UNCHANGED <<store, synced, commits>>
      /\ work' = [work EXCEPT ![w].step = "waiting",
                              ![w].request = UpsertRequest(@.pr, @.rev, FALSE, FALSE, files)]
  BY DEF Upsert, Answered, Return
<1>1. k \in Work /\ k.step # "idle" /\ work \in [Workers -> Work] /\ k.pr \in PRs
  BY <1>0, HolderParts DEF FilledBefore, PackagesInv, TypeOK
<1>2. ~ q.strict /\ q.files = files
  BY DEF UpsertRequest, Request
<1>3. work' = [work EXCEPT ![w] = next]
  <2> DEFINE Upserted(request) == UpsertRequest(request.pr, request.rev, FALSE, FALSE, files)
  <2>1. work' = [work EXCEPT ![w].step = "waiting", ![w].request = Upserted(@)]
    BY <1>0
  <2>2. q = Upserted(k.request)
    OBVIOUS
  <2> HIDE DEF q, Upserted
  <2>3. [k EXCEPT !.step = "waiting"].request = k.request
    BY <1>1 DEF Work
  <2> QED BY <1>1, <2>1, <2>2, <2>3
<1> HIDE DEF q
<1>4. next.step = "waiting" /\ next.cr = k.cr /\ next.request = q /\ next.pr = k.pr
  BY <1>1 DEF Work
<1> HIDE DEF next
<1>5. w = "processor" => ProcessorFills(k)
  BY <1>1 DEF FilledBefore, FilledInv, WorkFills
<1>6. WorkFills(w, next, store[k.pr])
  BY <1>2, <1>4, <1>5 DEF WorkFills, ProcessorFills
<1>7. PICK pr \in PRs : pr = k.pr
  BY <1>1
<1> HIDE DEF k
<1> QED BY <1>0, <1>3, <1>4, <1>6, <1>7, StayFills DEF Aside

LEMMA RunsFill == ASSUME FilledBefore, ProcessorRun \/ UserRun PROVE FilledInv'
<1>1. /\ "processor" \in Workers /\ "user" \in Workers
      /\ Generated \in Overwrites /\ UserFiles \subseteq Overwrites
  BY DEF Workers, Overwrites
<1>2. CASE ProcessorRun
  BY <1>1, <1>2, UpsertFills DEF ProcessorRun
<1>3. CASE UserRun
  BY <1>1, <1>3, UpsertFills DEF UserRun
<1> QED BY <1>2, <1>3

LEMMA StartFills == ASSUME FilledBefore, NEW w \in Workers, StartCall(w) PROVE FilledInv'
<1>1. /\ work[w].step = "waiting" /\ call' = work[w].request /\ holder' = w
      /\ work' = [work EXCEPT ![w].step = "calling"]
      /\ UNCHANGED <<store, commits, remote, local>>
  BY DEF StartCall, Start
<1>2. work \in [Workers -> Work]
  BY DEF FilledBefore, PackagesInv, TypeOK
<1>3. \A v \in Workers :
        /\ work'[v].request = work[v].request /\ work'[v].cr = work[v].cr
        /\ work'[v].pr = work[v].pr
        /\ work'[v].step # "idle" => work[v].step # "idle"
  BY <1>1, <1>2 DEF Work
<1>4. call'.step = "fetch"
  <2>1. work[w].request \in Calls(0) /\ Requested(work[w].request)
    BY <1>1, BusyParts DEF FilledBefore
  <2> QED BY <1>1, <2>1, RequestedParts
<1>5. TagsFull' /\ PublishesFull' /\ BranchRead'
  BY <1>1, <1>4, StillGit DEF FilledBefore, FilledInv, PublishesFull, BranchRead
<1>6. ASSUME NEW pr \in PRs PROVE Prepared(pr, store[pr])'
  <2>1. PICK o : o = store[pr]
    OBVIOUS
  <2>2. Prepared(pr, o)'
    BY <1>1, <2>1, StillGit DEF FilledBefore, FilledInv
  <2> QED BY <1>1, <2>1, <2>2 DEF Prepared
<1>7. ASSUME NEW v \in Workers
      PROVE  WorkFills(v, work[v], store[work[v].pr])' /\ (holder' = v => CallOfWork(work[v])')
  <2>1. PICK k, o : k = work'[v] /\ o = store'[k.pr]
    OBVIOUS
  <2>2. WorkFills(v, k, o)
    BY <1>1, <1>3, <2>1
       DEF FilledBefore, FilledInv, WorkFills, RevisionFills, ProcessorFills
  <2>3. WorkFills(v, k, o)'
    BY <1>1, <2>2, StillGit
  <2>4. holder' = v => CallOfWork(work[v])'
    BY <1>1, <1>3, <1>4 DEF CallOfWork, WritesKept
  <2> QED BY <2>1, <2>3, <2>4 DEF WorkFills, RevisionFills, ProcessorFills
<1> QED BY <1>5, <1>6, <1>7 DEF FilledInv

LEMMA RestartFills == ASSUME FilledBefore, ServerRestart PROVE FilledInv'
<1>1. /\ call' = Idle /\ holder' = "none" /\ work' = [w \in Workers |-> NoWork]
      /\ UNCHANGED <<store, commits, remote>>
  BY DEF ServerRestart, Restart
<1>2. TagsFull' /\ PublishesFull' /\ BranchRead' /\ \A w \in Workers : holder' # w
  BY <1>1, StillGit, CallAtRest DEF FilledBefore, FilledInv
<1>3. ASSUME NEW pr \in PRs PROVE Prepared(pr, store[pr])'
  <2>1. PICK o : o = store[pr]
    OBVIOUS
  <2>2. Prepared(pr, o)'
    BY <1>1, <2>1, StillGit DEF FilledBefore, FilledInv
  <2> QED BY <1>1, <2>1, <2>2 DEF Prepared
<1>4. \A w \in Workers : work'[w].step = "idle"
  BY <1>1, NoWorkParts
<1>5. ASSUME NEW w \in Workers PROVE WorkFills(w, work[w], store[work[w].pr])'
  BY <1>4 DEF WorkFills
<1> QED BY <1>2, <1>3, <1>5 DEF FilledInv

LEMMA PipelineFills == ASSUME FilledBefore, PipelineFails PROVE FilledInv'
<1>1. /\ call.op = "get" /\ call' = Done("fault") /\ holder = "processor"
      /\ UNCHANGED <<store, work, holder, commits, remote, local>>
  BY DEF PipelineFails, Fault, objVars
<1>2. /\ call'.op = "get" /\ call'.step = "done" /\ call'.strict = call.strict
  BY <1>1 DEF Done
<1>3. TagsFull' /\ PublishesFull' /\ BranchRead'
  BY <1>1, <1>2, StillGit DEF FilledBefore, FilledInv, PublishesFull, BranchRead
<1>4. ASSUME NEW pr \in PRs PROVE Prepared(pr, store[pr])'
  <2>1. PICK o : o = store[pr]
    OBVIOUS
  <2>2. Prepared(pr, o)'
    BY <1>1, <2>1, StillGit DEF FilledBefore, FilledInv
  <2> QED BY <1>1, <2>1, <2>2 DEF Prepared
<1>5. ASSUME NEW w \in Workers
      PROVE  WorkFills(w, work[w], store[work[w].pr])' /\ (holder' = w => CallOfWork(work[w])')
  <2>1. PICK k, o : k = work[w] /\ o = store[k.pr]
    OBVIOUS
  <2>2. WorkFills(w, k, o)'
    BY <1>1, <2>1, StillGit DEF FilledBefore, FilledInv
  <2>3. holder' = w => CallOfWork(work[w])'
    BY <1>1, <1>2 DEF FilledBefore, FilledInv, CallOfWork, WritesKept
  <2> QED BY <1>1, <2>1, <2>2, <2>3 DEF WorkFills, RevisionFills, ProcessorFills
<1> QED BY <1>3, <1>4, <1>5 DEF FilledInv

----------------------------------------------------------------------------
(* The steps that write objects. *)

(* Files are made before an approval: the gate before "approve" is "process". *)
ProcessBeforeApprove ==
  \A pr \in PRs : \A i \in DOMAIN GatesOf[pr] :
    GatesOf[pr][i] = "approve" => i > 1 /\ GatesOf[pr][i - 1] = "process"
(* Users leave it to the controllers to propose and to publish.              *)
UsersOnlyProposeDeletion == \A move \in UserMoves : move[2] = "deletionProposed"

(* An object that promises no more of git than s does.                       *)
Alike(s, o) ==
  \/ o.deleting \/ o.lifecycle = "deletionProposed"
  \/ /\ o.lifecycle = s.lifecycle /\ o.rev = s.rev /\ o.tasks = s.tasks
     /\ o.deleting = s.deleting
     /\ Ready \in o.conds <=> Ready \in s.conds
     /\ "process" \in o.conds <=> "process" \in s.conds

LEMMA AlikeFills ==
  ASSUME NEW pr, NEW s, NEW o, Alike(s, o)
  PROVE  (Prepared(pr, s) => Prepared(pr, o)) /\ (Unready(s) => Unready(o))
<1>1. CASE o.deleting \/ o.lifecycle = "deletionProposed"
  BY <1>1 DEF Prepared, Unready
<1>2. CASE ~ (o.deleting \/ o.lifecycle = "deletionProposed")
  BY <1>2 DEF Alike, Prepared, Unready
<1> QED BY <1>1, <1>2

LEMMA AbsentFills ==
  ASSUME NEW pr PROVE Prepared(pr, Absent) /\ \A k, w : k.step = "idle" => WorkFills(w, k, Absent)
  BY AbsentParts DEF Prepared, WorkFills

(* An update that no worker makes.                                           *)
LEMMA UpdateFills ==
  ASSUME FilledBefore, NEW pr \in PRs, NEW o, Changed(pr, o),
         work' = WorkAfter(pr, o, "none", NoWork), UNCHANGED <<gitVars, holder>>,
         Prepared(pr, o),
         "revision" \in store[pr].fins /\ Unready(store[pr]) => Unready(o)
  PROVE  FilledInv'
<1>1. "none" \notin Workers
  BY DEF Workers
<1>2. Written(pr, o, "none", NoWork) /\ Aside("none") /\ commits' = commits
  BY <1>1 DEF Written, Aside, gitVars
<1>3. FilledWrite(pr, o, "none", NoWork)
  BY <1>1 DEF FilledWrite
<1> QED BY <1>2, <1>3, WriteFills DEF FilledBefore

LEMMA LikeFills ==
  ASSUME FilledBefore, NEW pr \in PRs, NEW o, Changed(pr, o),
         work' = WorkAfter(pr, o, "none", NoWork), UNCHANGED <<gitVars, holder>>,
         Alike(store[pr], o)
  PROVE  FilledInv'
<1>1. Prepared(pr, store[pr])
  BY DEF FilledBefore, FilledInv
<1> QED BY <1>1, AlikeFills, UpdateFills

(* Another controller lets go of an object.                                  *)
LEMMA RemovedFills ==
  ASSUME NEW pr, NEW s \in Objects(MaxRev), s.deleting, NEW c \in Controllers, c # "revision",
         NEW o, o = RemoveFinalizer(s, c)
  PROVE  Prepared(pr, o) /\ ("revision" \in s.fins => o.deleting)
<1> DEFINE r == [s EXCEPT !.fins = s.fins \ {c}]
<1>1. r.deleting
  BY DEF Objects
<1> HIDE DEF r
<1>2. CASE s.fins \subseteq {c}
  <2>1. o = Absent
    BY <1>2 DEF RemoveFinalizer
  <2> QED BY <1>2, <2>1, AbsentFills
<1>3. CASE ~ (s.fins \subseteq {c})
  <2>1. o = r
    BY <1>3 DEF RemoveFinalizer, r
  <2> QED BY <1>1, <2>1 DEF Prepared
<1> QED BY <1>2, <1>3

LEMMA InstallerFills ==
  ASSUME FilledBefore, NEW pr \in PRs, InstallerReconcile(pr) PROVE FilledInv'
<1> DEFINE cr == Current(pr)
           f == AddFinalizer(cr, "installer")
           g == SetTrue(f, "install")
<1>1. /\ UNCHANGED <<gitVars, holder>> /\ "installer" \in Controllers
      /\ "install" \in Gates \cup {Ready}
  BY DEF InstallerReconcile, WriteReconcile, Controllers, Gates
<1>2. PICK o : /\ IF o = cr THEN UNCHANGED <<store, synced, work>>
                  ELSE Changed(pr, o) /\ work' = WorkAfter(pr, o, "none", NoWork)
               /\ o # cr => IsSynced(pr)
               /\ \/ o = cr
                  \/ /\ Exists(cr) /\ Ready \in cr.conds
                     /\ IF cr.deleting THEN o = RemoveFinalizer(cr, "installer")
                                       ELSE o \in {g, f}
  BY DEF InstallerReconcile, WriteReconcile, InstallerIdle
<1>3. CASE o = cr
  BY <1>1, <1>2, <1>3, RestFills DEF FilledBefore, gitVars
<1>4. CASE o # cr
  <2>0. PackagesInv /\ cr = store[pr]
    <3>1. PackagesInv
      BY DEF FilledBefore
    <3> QED BY <1>1, <1>2, <1>4, <3>1, ReadObject
  <2>1. /\ cr \in Objects(MaxRev) /\ f \in Objects(MaxRev)
        /\ f = [cr EXCEPT !.fins = cr.fins \cup {"installer"}]
        /\ Ready \in cr.conds
        /\ Changed(pr, o) /\ work' = WorkAfter(pr, o, "none", NoWork)
    BY <1>1, <1>2, <1>4, <2>0, ReadObject
  <2>2. g = [f EXCEPT !.conds = f.conds \cup {"install"}]
    BY <1>1, <2>1, ObjectWrites
  <2>3. CASE cr.deleting
    <3>1. o = RemoveFinalizer(cr, "installer")
      BY <1>2, <1>4, <2>3
    <3> HIDE DEF cr, f, g
    <3>2. Prepared(pr, o) /\ ("revision" \in cr.fins => o.deleting)
      BY <1>1, <2>1, <2>3, <3>1, RemovedFills
    <3> QED BY <1>1, <2>0, <2>1, <3>2, UpdateFills DEF Unready
  <2>4. CASE ~ cr.deleting
    <3>1. o \in {f, g}
      BY <1>2, <1>4, <2>4
    <3> HIDE DEF cr, f, g
    <3>2. Alike(cr, f) /\ Alike(cr, g)
      BY <2>1, <2>2 DEF Objects, Alike, Ready
    <3> QED BY <1>1, <2>0, <2>1, <3>1, <3>2, LikeFills
  <2> QED BY <2>3, <2>4
<1> QED BY <1>3, <1>4

LEMMA ApproverFills ==
  ASSUME FilledBefore, ProcessBeforeApprove, NEW pr \in PRs, ApproverReconcile(pr)
  PROVE  FilledInv'
<1> DEFINE cr == Current(pr)
           f == AddFinalizer(cr, "approver")
<1>1. UNCHANGED <<gitVars, holder>> /\ "approver" \in Controllers
  BY DEF ApproverReconcile, WriteReconcile, Controllers
<1>2. PICK o : /\ IF o = cr THEN UNCHANGED <<store, synced, work>>
                  ELSE Changed(pr, o) /\ work' = WorkAfter(pr, o, "none", NoWork)
               /\ o # cr => IsSynced(pr)
               /\ \/ o = cr
                  \/ /\ Exists(cr) /\ PreviousTrue(GatesOf[pr], "approve", cr)
                     /\ IF cr.deleting THEN o = RemoveFinalizer(cr, "approver")
                                       ELSE o \in {Approved(f), f}
  BY DEF ApproverReconcile, WriteReconcile, ApproverIdle
<1>3. CASE o = cr
  BY <1>1, <1>2, <1>3, RestFills DEF FilledBefore, gitVars
<1>4. CASE o # cr
  <2>0. PackagesInv /\ cr = store[pr]
    <3>1. PackagesInv
      BY DEF FilledBefore
    <3> QED BY <1>1, <1>2, <1>4, <3>1, ReadObject
  <2>1. /\ cr \in Objects(MaxRev) /\ f \in Objects(MaxRev)
        /\ f = [cr EXCEPT !.fins = cr.fins \cup {"approver"}]
        /\ PreviousTrue(GatesOf[pr], "approve", cr)
        /\ Changed(pr, o) /\ work' = WorkAfter(pr, o, "none", NoWork)
    BY <1>1, <1>2, <1>4, <2>0, ReadObject
  <2>2. "process" \in cr.conds
    <3>1. PICK i \in DOMAIN GatesOf[pr] :
            GatesOf[pr][i] = "approve" /\ (i = 1 \/ GatesOf[pr][i - 1] \in cr.conds)
      BY <2>1 DEF PreviousTrue, FirstGate
    <3>2. i # 1 /\ GatesOf[pr][i - 1] = "process"
      <4>1. GatesOf[pr] \in Seq(Gates)
        BY GatesAssumption
      <4> QED BY <3>1, <4>1 DEF ProcessBeforeApprove
    <3> QED BY <3>1, <3>2
  <2>3. CASE cr.deleting
    <3>1. o = RemoveFinalizer(cr, "approver")
      BY <1>2, <1>4, <2>3
    <3> HIDE DEF cr, f
    <3>2. Prepared(pr, o) /\ ("revision" \in cr.fins => o.deleting)
      BY <1>1, <2>1, <2>3, <3>1, RemovedFills
    <3> QED BY <1>1, <2>0, <2>1, <3>2, UpdateFills DEF Unready
  <2>4. CASE ~ cr.deleting
    <3>1. o \in {Approved(f), f}
      BY <1>2, <1>4, <2>4
    <3>2. Prepared(pr, cr)
      BY <2>0 DEF FilledBefore, FilledInv
    <3> HIDE DEF cr, f
    <3>3. Alike(cr, f) /\ f.conds = cr.conds /\ f.lifecycle = cr.lifecycle /\ ~ f.deleting
      BY <2>1, <2>4 DEF Objects, Alike
    <3>4. Prepared(pr, f) /\ (Unready(cr) => Unready(f))
      BY <3>2, <3>3, AlikeFills
    <3>5. CASE o = f
      BY <1>1, <2>0, <2>1, <3>3, <3>5, LikeFills
    <3>6. CASE o = Approved(f) /\ f.lifecycle \in {"draft", "proposed"}
      <4> DEFINE p == [f EXCEPT !.tasks = FALSE,
                         !.lifecycle = IF f.lifecycle = "draft" THEN "proposed" ELSE "published"]
      <4>1. o = [p EXCEPT !.conds = p.conds \ {"approve"}]
        BY <3>6 DEF Approved, SetFalse
      <4>2. /\ ~ p.tasks /\ ~ p.deleting /\ p.conds = f.conds /\ p.rev = f.rev
            /\ p.lifecycle = IF f.lifecycle = "draft" THEN "proposed" ELSE "published"
            /\ p.conds \in SUBSET (Gates \cup {Ready}) /\ p = [p EXCEPT !.conds = p.conds]
        BY <2>1, <3>3 DEF Objects
      <4>3. /\ o.conds = p.conds \ {"approve"} /\ o.lifecycle = p.lifecycle
            /\ ~ o.tasks /\ ~ o.deleting
        BY <2>1, <3>3, <4>1 DEF Objects
      <4> HIDE DEF p
      <4>4. "process" \in o.conds /\ "process" \in f.conds
        BY <2>2, <3>3, <4>2, <4>3
      <4>5. InBranch(pr, Full)
        BY <3>3, <3>4, <3>6, <4>4 DEF Prepared
      <4>6. Prepared(pr, o)
        BY <3>6, <4>2, <4>3, <4>4, <4>5 DEF Prepared
      <4>7. ~ Unready(cr)
        BY <2>2, <2>4, <3>2, <3>3, <3>6 DEF Prepared, Unready
      <4> QED BY <1>1, <2>0, <2>1, <4>6, <4>7, UpdateFills
    <3>7. CASE o = Approved(f) /\ f.lifecycle = "published"
      <4>1. o = [f EXCEPT !.conds = f.conds \cup {"approve"}]
        BY <3>7 DEF Approved, SetTrue
      <4>2. Alike(cr, o)
        BY <2>1, <4>1 DEF Objects, Alike, Ready
      <4> QED BY <1>1, <2>0, <2>1, <4>2, LikeFills
    <3>8. CASE o = Approved(f) /\ f.lifecycle \notin {"draft", "proposed", "published"}
      <4>1. o = f
        BY <3>8 DEF Approved
      <4> QED BY <3>5, <4>1
    <3> QED BY <3>1, <3>5, <3>6, <3>7, <3>8
  <2> QED BY <2>3, <2>4
<1> QED BY <1>3, <1>4

LEMMA CreateFills ==
  ASSUME FilledBefore, Tasked \subseteq {TRUE}, NEW pr \in PRs, UserCreate(pr) PROVE FilledInv'
<1> DEFINE o == Draft(TRUE)
<1>1. Changed(pr, o) /\ work' = WorkAfter(pr, o, "none", NoWork)
  <2>1. PICK tasks \in Tasked :
          Changed(pr, Draft(tasks)) /\ work' = WorkAfter(pr, Draft(tasks), "none", NoWork)
    BY DEF UserCreate
  <2>2. tasks = TRUE
    BY <2>1
  <2> QED BY <2>1, <2>2
<1>2. store[pr] = Absent /\ UNCHANGED <<gitVars, holder>>
  BY StoredFacts DEF UserCreate, FilledBefore
<1>3. o.conds = {} /\ ~ o.deleting /\ o.lifecycle = "draft" /\ o.tasks
  BY DEF Draft, Absent
<1> HIDE DEF o
<1>4. Prepared(pr, o) /\ "revision" \notin store[pr].fins
  BY <1>2, <1>3, AbsentParts DEF Prepared
<1> QED BY <1>1, <1>2, <1>4, UpdateFills

LEMMA MoveFills ==
  ASSUME FilledBefore, UsersOnlyProposeDeletion, NEW pr \in PRs, UserMove(pr) PROVE FilledInv'
<1>1. PICK move \in UserMoves, tasks \in BOOLEAN :
        LET o == [store[pr] EXCEPT !.lifecycle = move[2], !.tasks = @ /\ tasks]
        IN  /\ store[pr].lifecycle = move[1]
            /\ Changed(pr, o)
            /\ work' = WorkAfter(pr, o, "none", NoWork)
            /\ UNCHANGED <<gitVars, cache, queue, holder, creates>>
  BY DEF UserMove
<1> DEFINE s == store[pr]
           o == [s EXCEPT !.lifecycle = move[2], !.tasks = @ /\ tasks]
<1>2. move[2] = "deletionProposed" /\ move[1] \in Lifecycles
  BY ServerAssumption DEF UsersOnlyProposeDeletion
<1>3. s \in Objects(MaxRev)
  BY <1>1, <1>2, StoredFacts DEF Exists, Lifecycles, FilledBefore
<1>4. o.lifecycle = "deletionProposed"
  BY <1>2, <1>3 DEF Objects
<1>5. Changed(pr, o) /\ work' = WorkAfter(pr, o, "none", NoWork) /\ UNCHANGED <<gitVars, holder>>
  BY <1>1
<1> HIDE DEF s, o
<1> QED BY <1>4, <1>5, LikeFills DEF Alike

LEMMA UserDeleteFills ==
  ASSUME FilledBefore, NEW pr \in PRs, UserDelete(pr) PROVE FilledInv'
<1> DEFINE s == store[pr]
           d == [s EXCEPT !.deleting = TRUE]
           o == IF s.fins = {} THEN Absent ELSE d
<1>1. /\ Exists(s) /\ Changed(pr, o) /\ work' = WorkAfter(pr, o, "none", NoWork)
      /\ UNCHANGED <<gitVars, holder>>
  BY DEF UserDelete
<1>2. d.deleting
  BY <1>1, StoredFacts DEF Objects, FilledBefore
<1>3. CASE s.fins = {}
  <2>1. o = Absent
    BY <1>3
  <2> HIDE DEF o
  <2> QED BY <1>1, <1>3, <2>1, AbsentFills, UpdateFills
<1>4. CASE s.fins # {}
  <2>1. o = d
    BY <1>4
  <2> HIDE DEF o, d, s
  <2> QED BY <1>1, <1>2, <2>1, LikeFills DEF Alike
<1> QED BY <1>3, <1>4

(* A worker's last write.                                                    *)
LEMMA EndFills ==
  ASSUME FilledBefore, NEW pr \in PRs, NEW w \in Workers, NEW o,
         Written(pr, o, w, NoWork), Aside(w), commits' = commits, Prepared(pr, o),
         w # "revision" /\ "revision" \in store[pr].fins /\ Unready(store[pr]) => Unready(o)
  PROVE  FilledInv'
<1>1. FilledWrite(pr, o, w, NoWork)
  BY NoWorkParts DEF FilledWrite, WorkFills
<1> QED BY <1>1, WriteFills DEF FilledBefore

LEMMA LikeEndFills ==
  ASSUME FilledBefore, NEW pr \in PRs, NEW w \in Workers, NEW o,
         Written(pr, o, w, NoWork), Aside(w), commits' = commits, Alike(store[pr], o)
  PROVE  FilledInv'
<1>1. Prepared(pr, store[pr])
  BY DEF FilledBefore, FilledInv
<1> QED BY <1>1, AlikeFills, EndFills

(* A copy that is stale: the answer is dropped.                              *)
LEMMA ConflictFills ==
  ASSUME FilledBefore, NEW pr \in PRs, NEW w \in Workers, Answered(w), Conflict(w)
  PROVE  FilledInv'
<1>1. /\ work' = [work EXCEPT ![w] = NoWork] /\ UNCHANGED <<store, synced, commits>> /\ Aside(w)
  BY DEF Conflict, Answered, Return, Aside
<1> QED BY <1>1, NoWorkParts, StayFills DEF WorkFills

LEMMA ProcessorReconcileFills ==
  ASSUME FilledBefore, NEW pr \in PRs, ProcessorReconcile(pr) PROVE FilledInv'
<1> DEFINE C == Current(pr)
           cr == IF C.deleting THEN C ELSE AddFinalizer(C, "processor")
           Todo == cr.deleting \/ "process" \notin cr.conds
           request == GetRequest(pr, C.rev)
           o == IF cr = C THEN store[pr] ELSE cr
           waiting == Waiting(pr, cr, IsSynced(pr), request)
           next == IF Todo THEN waiting ELSE NoWork
<1>0. /\ work["processor"] = NoWork /\ "processor" \in Workers /\ "processor" \in Controllers
      /\ ~ ProcessorIdle(pr, C) /\ (cr # C => IsSynced(pr))
      /\ IF cr = C THEN UNCHANGED <<store, synced>> ELSE Changed(pr, cr)
      /\ work' = WorkAfter(pr, o, "processor", next)
      /\ UNCHANGED <<gitVars, holder>> /\ PackagesInv
  BY DEF ProcessorReconcile, Workers, Controllers, FilledBefore
<1>1. Exists(C) /\ (~ C.deleting => Ready \in C.conds)
  BY <1>0 DEF ProcessorIdle
<1>2. /\ C \in Objects(MaxRev) /\ (cr # C => C = store[pr])
      /\ AddFinalizer(C, "processor") = [C EXCEPT !.fins = C.fins \cup {"processor"}]
  BY <1>0, <1>1, ReadObject
<1>3. /\ Alike(C, cr) /\ cr.deleting = C.deleting /\ cr.conds = C.conds
      /\ o = store[pr] \/ (C = store[pr] /\ o = cr)
  BY <1>1, <1>2 DEF Objects, Alike
<1>4. request.op = "get" /\ ~ request.strict
  BY DEF GetRequest, Request
<1>5. waiting.pr = pr /\ waiting.cr = cr /\ waiting.request = request
  BY DEF Waiting
<1>6. Written(pr, o, "processor", next)
  BY <1>0, StayWritten DEF Written
<1>7. Aside("processor") /\ commits' = commits
  BY <1>0, NoWorkParts DEF Aside, gitVars, PackagesInv, CallOfHolder
<1> HIDE DEF o, waiting, cr, request, C
<1>8. WorkFills("processor", next, o) /\ (next.step # "idle" => next.pr = pr)
  BY <1>1, <1>3, <1>4, <1>5, NoWorkParts DEF WorkFills, ProcessorFills
<1> HIDE DEF next
<1>9. Prepared(pr, o) /\ (Unready(store[pr]) => Unready(o))
  <2>1. Prepared(pr, store[pr])
    BY DEF FilledBefore, FilledInv
  <2> QED BY <1>3, <2>1, AlikeFills
<1>10. FilledWrite(pr, o, "processor", next)
  BY <1>0, <1>8, <1>9 DEF FilledWrite
<1> QED BY <1>6, <1>7, <1>10, WriteFills DEF FilledBefore

LEMMA ProcessorDoneFills == ASSUME FilledBefore, ProcessorDone PROVE FilledInv'
<1> DEFINE k == work["processor"]
           o == IF Failed THEN SetFalse(k.cr, "process")
                ELSE IF k.cr.deleting THEN RemoveFinalizer(k.cr, "processor")
                ELSE SetTrue(k.cr, "process")
<1>0. /\ "processor" \in Workers /\ "processor" \in Controllers /\ "process" \in Gates
      /\ Answered("processor") /\ PackagesInv
      /\ call.op = "upsert" \/ Failed \/ k.cr.deleting
      /\ IF k.fresh THEN Finish("processor", k.pr, o) ELSE Conflict("processor")
  BY DEF ProcessorDone, Workers, Controllers, Gates, FilledBefore
<1>1. /\ k.step = "calling" /\ k.pr \in PRs /\ k.cr \in Objects(MaxRev)
      /\ RequestMade("processor", k) /\ k.request.pr = k.pr
      /\ k.fresh => k.cr = store[k.pr]
  BY <1>0, HolderParts, BusyParts
<1>2. PICK pr \in PRs, s \in Objects(MaxRev) : pr = k.pr /\ s = k.cr
  BY <1>1
<1>3. Aside("processor") /\ commits' = commits
  BY <1>0 DEF Aside, Answered, Return
<1>4. ~ s.deleting => "process" \notin s.conds
  BY <1>0, <1>1, <1>2 DEF RequestMade
<1>5. CASE ~ k.fresh
  BY <1>0, <1>1, <1>5, ConflictFills
<1>6. CASE k.fresh
  <2>0. s = store[pr] /\ Written(pr, o, "processor", NoWork)
    BY <1>0, <1>1, <1>2, <1>6 DEF Finish, Written
  <2>1. CASE Failed
    <3>1. o = SetFalse(s, "process")
      BY <1>2, <2>1
    <3> HIDE DEF o, k
    <3>2. o = [s EXCEPT !.conds = s.conds \ {"process"}]
      BY <1>0, <3>1, ObjectWrites
    <3>3. Alike(s, o)
      BY <1>4, <3>2 DEF Objects, Alike, Ready
    <3> QED BY <1>0, <1>3, <2>0, <3>3, LikeEndFills
  <2>2. CASE ~ Failed /\ s.deleting
    <3>1. o = RemoveFinalizer(s, "processor")
      BY <1>2, <2>2
    <3> HIDE DEF o, k
    <3>2. Prepared(pr, o) /\ ("revision" \in s.fins => o.deleting)
      BY <1>0, <2>2, <3>1, RemovedFills
    <3> QED BY <1>0, <1>3, <2>0, <3>2, EndFills DEF Unready
  <2>3. CASE ~ Failed /\ ~ s.deleting
    <3>1. o = SetTrue(s, "process")
      BY <1>2, <2>3
    <3>2. call.op = "upsert" /\ call.result = "ok" /\ call.step = "done" /\ holder = "processor"
      BY <1>0, <1>2, <2>3 DEF Failed, Answered, Return
    <3>3. call.pr = pr /\ call.rev = k.request.rev /\ k.request.op = "upsert"
      BY <1>0, <1>1, <1>2, <3>2 DEF PackagesInv, CallOfHolder
    <3>4. Ready \in s.conds /\ k.request.files = Generated
      <4>1. ProcessorFills(k)
        BY <1>0, <1>1 DEF FilledBefore, FilledInv, WorkFills
      <4> QED BY <1>2, <2>3, <3>3, <4>1 DEF ProcessorFills
    <3>5. CallOfWork(k)
      BY <1>0, <3>2 DEF FilledBefore, FilledInv
    <3>6. s.lifecycle = "draft" => InBranch(pr, Full)
      <4>1. SUFFICES ASSUME s.lifecycle = "draft" PROVE InBranch(pr, Full)
        OBVIOUS
      <4>2. s.rev = 0
        BY <2>0, <4>1, StoredFacts DEF FilledBefore, ReleasedFirst, Released
      <4>3. call.rev = 0 /\ ~ call.published
        <5>1. Asked("processor", k) /\ CallAsked
          BY <1>0 DEF FilledBefore, AskedInv
        <5> QED BY <1>0, <1>1, <1>2, <3>2, <3>3, <4>2, <5>1 DEF Asked, CallAsked
      <4>4. InBranch(pr, Generated)
        BY <3>2, <3>3, <3>4, <3>5, <4>3 DEF CallOfWork, WritesKept
      <4>5. InBranch(pr, Upstream \cap Spared)
        BY <2>0, <2>3, <3>4, <4>1 DEF FilledBefore, FilledInv, Prepared
      <4> QED BY <4>4, <4>5 DEF InBranch, Full, Spared, Overwrites
    <3>7. Prepared(pr, s)
      BY <2>0 DEF FilledBefore, FilledInv
    <3> HIDE DEF o, k
    <3>8. o = [s EXCEPT !.conds = s.conds \cup {"process"}]
      BY <1>0, <3>1, ObjectWrites
    <3>9. /\ o.rev = s.rev /\ o.lifecycle = s.lifecycle /\ o.deleting = s.deleting
          /\ o.tasks = s.tasks /\ Ready \in o.conds /\ "process" \in o.conds
      BY <3>4, <3>8 DEF Objects
    <3>10. Prepared(pr, o)
      BY <1>4, <2>3, <3>4, <3>6, <3>7, <3>9 DEF Prepared
    <3>11. Unready(s) => Unready(o)
      BY <3>4, <3>9 DEF Unready
    <3> QED BY <1>0, <1>3, <2>0, <3>10, <3>11, EndFills
  <2> QED BY <2>1, <2>2, <2>3
<1> QED BY <1>5, <1>6

(* What the packagerevision controller asks for is prepared.                 *)
LEMMA RequestFills ==
  ASSUME FilledBefore, NEW pr \in PRs, NEW cr \in Objects(MaxRev), ~ cr.deleting,
         Seen(pr, cr), RevisionRequest(pr, cr) # Idle,
         NEW o, ~ CacheLag => o = cr /\ Prepared(pr, cr),
         NEW next, next.pr = pr, next.cr = cr, next.request = RevisionRequest(pr, cr)
  PROVE  RevisionFills(next, o)
<1>1. CASE ~ cr.tasks /\ cr.lifecycle = "published" /\ cr.rev = 0
  <2>1. RevisionRequest(pr, cr) = ListRequest(pr)
    BY <1>1 DEF RevisionRequest
  <2>2. PICK q : q = ListRequest(pr)
    OBVIOUS
  <2>3. q.op = "list"
    BY <2>2 DEF ListRequest, EnsureRequest, Request
  <2>4. next.request = q
    BY <2>1, <2>2
  <2> QED BY <2>3, <2>4 DEF RevisionFills
<1>2. CASE ~ cr.tasks /\ cr.lifecycle = "published" /\ cr.rev # 0 /\ Deployment
  <2>1. RevisionRequest(pr, cr) = EnsureRequest(pr, cr.rev, Strict)
    BY <1>2 DEF RevisionRequest
  <2>2. PICK q : q = EnsureRequest(pr, cr.rev, Strict)
    OBVIOUS
  <2>3. q.op = "ensure" /\ q.rev = cr.rev
    BY <2>2 DEF ListRequest, EnsureRequest, Request
  <2>4. next.request = q
    BY <2>1, <2>2
  <2>5. InBranch(pr, Full) \/ UnderTag(pr, cr.rev)
    BY <1>2 DEF Seen
  <2> QED BY <1>2, <2>3, <2>4, <2>5 DEF RevisionFills
<1>3. CASE cr.tasks /\ Ready \notin cr.conds
  <2>1. cr.lifecycle # "published"
    BY <1>3 DEF Seen
  <2>2. RevisionRequest(pr, cr) = UpsertRequest(pr, cr.rev, FALSE, Strict, Upstream)
    BY <1>3, <2>1 DEF RevisionRequest
  <2>3. PICK q : q = UpsertRequest(pr, cr.rev, FALSE, Strict, Upstream)
    OBVIOUS
  <2>4. /\ q.op = "upsert" /\ q.rev = cr.rev /\ ~ q.published /\ q.files = Upstream
        /\ q.strict = Strict
    BY <2>3 DEF UpsertRequest, Request
  <2>5. next.request = q
    BY <2>2, <2>3
  <2>6. (Strict => ~ CacheLag) /\ (~ CacheLag => Unready(o))
    <3>1. Strict => ~ CacheLag
      BY DEF FilledBefore
    <3> SUFFICES ASSUME ~ CacheLag PROVE Unready(o)
      BY <3>1
    <3>2. ~ CacheLag
      OBVIOUS
    <3>3. cr.lifecycle \in {"draft", "deletionProposed"}
      BY <1>3, <2>1, <3>2 DEF Prepared, Objects, Lifecycles
    <3> QED BY <1>3, <3>2, <3>3 DEF Unready
  <2> QED BY <1>3, <2>4, <2>5, <2>6 DEF RevisionFills
<1>4. CASE /\ ~ (~ cr.tasks /\ cr.lifecycle = "published" /\ cr.rev = 0)
           /\ ~ (~ cr.tasks /\ cr.lifecycle = "published" /\ cr.rev # 0 /\ Deployment)
           /\ ~ (cr.tasks /\ Ready \notin cr.conds)
  <2>1. RevisionRequest(pr, cr) = Idle
    BY <1>4 DEF RevisionRequest
  <2> QED BY <2>1
<1> QED BY <1>1, <1>2, <1>3, <1>4

LEMMA RevisionReconcileFills ==
  ASSUME FilledBefore, NEW pr \in PRs, RevisionReconcile(pr) PROVE FilledInv'
<1> DEFINE C == Current(pr)
           cr == AddFinalizer(C, "revision")
           request == RevisionRequest(pr, cr)
           o == IF cr = C THEN store[pr] ELSE cr
           next == Waiting(pr, cr, IsSynced(pr), request)
<1>0. /\ work["revision"] = NoWork /\ "revision" \in Workers /\ "revision" \in Controllers
      /\ Exists(cr) /\ ~ cr.deleting /\ UNCHANGED <<gitVars, holder>> /\ PackagesInv
      /\ Ready \in Gates \cup {Ready}
  BY DEF RevisionReconcile, Workers, Controllers, FilledBefore
<1>1. Exists(C) /\ (cr # C => IsSynced(pr))
  BY <1>0 DEF RevisionReconcile, AddFinalizer, Exists
<1>2. /\ C \in Objects(MaxRev) /\ cr \in Objects(MaxRev)
      /\ cr = [C EXCEPT !.fins = C.fins \cup {"revision"}]
      /\ IsSynced(pr) => C = store[pr]
  BY <1>0, <1>1, ReadObject
<1>3. Alike(C, cr) /\ Prepared(pr, store[pr]) /\ Seen(pr, C)
  BY <1>2 DEF Objects, Alike, FilledBefore, FilledInv, SeenInv
<1>4. /\ IsSynced(pr) => Prepared(pr, cr)
      /\ Prepared(pr, o) /\ Seen(pr, cr)
      /\ ~ CacheLag => o = cr /\ Prepared(pr, cr)
  <2>1. IsSynced(pr) => Prepared(pr, cr)
    BY <1>2, <1>3, AlikeFills
  <2>2. Seen(pr, cr)
    BY <1>2, <1>3 DEF Seen, Objects
  <2>3. o = store[pr] \/ (o = cr /\ IsSynced(pr))
    BY <1>1
  <2>4. ~ CacheLag => IsSynced(pr) /\ o = cr
    BY <1>2 DEF IsSynced
  <2> QED BY <1>3, <2>1, <2>2, <2>3, <2>4
<1>5. Aside("revision") /\ commits' = commits
  BY <1>0, NoWorkParts DEF Aside, gitVars, PackagesInv, CallOfHolder
<1>6. CASE /\ request # Idle
           /\ IF cr = C THEN UNCHANGED <<store, synced>> ELSE Changed(pr, cr)
           /\ work' = WorkAfter(pr, o, "revision", next)
  <2>1. Written(pr, o, "revision", next)
    BY <1>0, <1>6, StayWritten DEF Written
  <2>2. next.pr = pr /\ next.cr = cr /\ next.request = request
    BY DEF Waiting
  <2> HIDE DEF o, next, cr
  <2>3. RevisionFills(next, o)
    BY <1>0, <1>2, <1>4, <1>6, <2>2, RequestFills
  <2>4. FilledWrite(pr, o, "revision", next)
    BY <1>4, <2>2, <2>3 DEF FilledWrite, WorkFills
  <2> QED BY <1>0, <1>5, <2>1, <2>4, WriteFills DEF FilledBefore
<1>7. CASE request = Idle /\ IsSynced(pr) /\ Finish("revision", pr, SetTrue(cr, Ready))
  <2> DEFINE f == SetTrue(cr, Ready)
  <2>1. f = [cr EXCEPT !.conds = cr.conds \cup {Ready}]
    <3> HIDE DEF cr
    <3> QED BY <1>0, <1>2, ObjectWrites
  <2>2. cr.lifecycle = "draft" => Ready \in cr.conds
    <3>1. SUFFICES ASSUME cr.lifecycle = "draft", Ready \notin cr.conds PROVE FALSE
      OBVIOUS
    <3>2. cr.tasks
      BY <1>0, <1>4, <1>7, <3>1 DEF Prepared
    <3>3. RevisionRequest(pr, cr) = UpsertRequest(pr, cr.rev, FALSE, Strict, Upstream)
      BY <3>1, <3>2 DEF RevisionRequest
    <3>4. PICK q : q = UpsertRequest(pr, cr.rev, FALSE, Strict, Upstream)
      OBVIOUS
    <3>5. q.op = "upsert" /\ q = Idle
      BY <1>7, <3>3, <3>4 DEF UpsertRequest, Request
    <3> QED BY <3>5 DEF Idle
  <2>3. Written(pr, f, "revision", NoWork)
    BY <1>7 DEF Finish, Written
  <2> HIDE DEF f, cr
  <2>4. /\ f.lifecycle = cr.lifecycle /\ f.rev = cr.rev /\ f.tasks = cr.tasks
        /\ f.deleting = cr.deleting /\ Ready \in f.conds
        /\ "process" \in f.conds <=> "process" \in cr.conds
    BY <1>2, <2>1 DEF Objects, Ready
  <2>5. Prepared(pr, f)
    BY <1>4, <1>7, <2>2, <2>4 DEF Prepared
  <2> QED BY <1>0, <1>5, <2>3, <2>5, EndFills
<1>8. CASE cr # C /\ Finish("revision", pr, cr)
  <2>1. Written(pr, cr, "revision", NoWork) /\ Prepared(pr, cr)
    BY <1>1, <1>4, <1>8 DEF Finish, Written
  <2> HIDE DEF cr
  <2> QED BY <1>0, <1>5, <2>1, EndFills
<1> QED BY <1>6, <1>7, <1>8 DEF RevisionReconcile

LEMMA RevisionDeleteFills ==
  ASSUME FilledBefore, NEW pr \in PRs, RevisionDelete(pr) PROVE FilledInv'
<1> DEFINE cr == Current(pr)
           request == DeleteRequest(pr, cr.rev)
           next == Waiting(pr, cr, IsSynced(pr), request)
<1>0. /\ work["revision"] = NoWork /\ "revision" \in Workers /\ "revision" \in Controllers
      /\ Ready \in Gates \cup {Ready} /\ Exists(cr) /\ cr.deleting
      /\ UNCHANGED <<gitVars, holder>> /\ PackagesInv
  BY DEF RevisionDelete, Workers, Controllers, FilledBefore
<1>1. cr \in Objects(MaxRev)
  BY <1>0, ReadObject
<1>2. Aside("revision") /\ commits' = commits
  BY <1>0, NoWorkParts DEF Aside, gitVars, PackagesInv, CallOfHolder
<1>3. CASE Finish("revision", pr, SetFalse(cr, Ready))
  <2> DEFINE o == SetFalse(cr, Ready)
  <2>1. o = [cr EXCEPT !.conds = cr.conds \ {Ready}]
    BY <1>0, <1>1, ObjectWrites
  <2>2. Written(pr, o, "revision", NoWork)
    BY <1>3 DEF Finish, Written
  <2> HIDE DEF o, cr
  <2>3. o.deleting
    BY <1>0, <1>1, <2>1 DEF Objects
  <2> QED BY <1>0, <1>2, <2>2, <2>3, LikeEndFills DEF Alike
<1>4. CASE work' = [work EXCEPT !["revision"] = next] /\ UNCHANGED <<store, synced>>
  <2>1. request.op = "delete"
    BY DEF DeleteRequest, Request
  <2> HIDE DEF request
  <2>2. next.pr = pr /\ next.request = request
    BY DEF Waiting
  <2> HIDE DEF next
  <2>3. WorkFills("revision", next, store[pr])
    BY <2>1, <2>2 DEF WorkFills, RevisionFills
  <2> QED BY <1>0, <1>2, <1>4, <2>2, <2>3, StayFills
<1> QED BY <1>3, <1>4 DEF RevisionDelete

(* The Repository cannot be read: git stays as it is.                        *)
LEMMA UnservedFills ==
  ASSUME FilledBefore, NEW pr \in PRs, RevisionUnserved(pr) PROVE FilledInv'
<1> DEFINE C == Current(pr)
           cr == AddFinalizer(C, "revision")
           o == SetFalse(cr, Ready)
<1>0. /\ work["revision"] = NoWork /\ "revision" \in Workers /\ "revision" \in Controllers
      /\ Exists(cr) /\ ~ cr.deleting /\ IsSynced(pr) /\ RevisionRequest(pr, cr) # Idle
      /\ UNCHANGED <<commits, remote, local, call, holder>> /\ PackagesInv
      /\ Ready \in Gates \cup {Ready} /\ Finish("revision", pr, o)
  BY DEF RevisionUnserved, RepositoryUnread, Workers, Controllers, FilledBefore
<1>1. Exists(C)
  BY <1>0 DEF AddFinalizer, Exists
<1>2. /\ C \in Objects(MaxRev) /\ cr \in Objects(MaxRev) /\ C = store[pr]
      /\ cr = [C EXCEPT !.fins = C.fins \cup {"revision"}]
  BY <1>0, <1>1, ReadObject
<1>3. Prepared(pr, cr)
  <2>1. Alike(C, cr) /\ Prepared(pr, C)
    BY <1>2 DEF Objects, Alike, FilledBefore, FilledInv
  <2> QED BY <2>1, AlikeFills
<1>4. Aside("revision") /\ commits' = commits
  BY <1>0, NoWorkParts DEF Aside, PackagesInv, CallOfHolder
<1>5. Written(pr, o, "revision", NoWork)
  BY <1>0 DEF Finish, Written
<1>6. cr.lifecycle = "draft" => Ready \notin cr.conds
  <2> SUFFICES ASSUME cr.lifecycle = "draft", Ready \in cr.conds PROVE FALSE
    OBVIOUS
  <2>1. RevisionRequest(pr, cr) = Idle
    BY DEF RevisionRequest
  <2> QED BY <1>0, <2>1
<1> HIDE DEF cr
<1>7. o = [cr EXCEPT !.conds = cr.conds \ {Ready}]
  BY <1>0, <1>2, ObjectWrites
<1> HIDE DEF o
<1>8. /\ o.lifecycle = cr.lifecycle /\ o.rev = cr.rev /\ o.tasks = cr.tasks
      /\ o.deleting = cr.deleting /\ Ready \notin o.conds
      /\ "process" \in o.conds <=> "process" \in cr.conds
  BY <1>2, <1>7 DEF Objects, Ready
<1>9. Prepared(pr, o)
  BY <1>3, <1>6, <1>8 DEF Prepared
<1> QED BY <1>0, <1>4, <1>5, <1>9, EndFills

LEMMA GivesUpFills ==
  ASSUME FilledBefore, NEW pr \in PRs, RevisionGivesUp(pr) PROVE FilledInv'
<1> DEFINE cr == Current(pr)
           o == RemoveFinalizer(cr, "revision")
<1>0. /\ work["revision"] = NoWork /\ "revision" \in Workers /\ "revision" \in Controllers
      /\ Exists(cr) /\ cr.deleting
      /\ UNCHANGED <<commits, remote, local, call, holder>> /\ PackagesInv
      /\ Finish("revision", pr, o)
  BY DEF RevisionGivesUp, RepositoryUnread, Workers, Controllers, FilledBefore
<1>1. cr \in Objects(MaxRev)
  BY <1>0, ReadObject
<1>2. Aside("revision") /\ commits' = commits
  BY <1>0, NoWorkParts DEF Aside, PackagesInv, CallOfHolder
<1>3. Written(pr, o, "revision", NoWork)
  BY <1>0 DEF Finish, Written
<1>4. Prepared(pr, o)
  <2> HIDE DEF cr
  <2>1. CASE cr.fins \subseteq {"revision"}
    <3>1. o = Absent
      BY <1>0, <2>1 DEF RemoveFinalizer
    <3> QED BY <3>1, AbsentFills
  <2>2. CASE ~ (cr.fins \subseteq {"revision"})
    <3>1. o = [cr EXCEPT !.fins = cr.fins \ {"revision"}]
      BY <2>2 DEF RemoveFinalizer
    <3> HIDE DEF o
    <3>2. o.deleting
      BY <1>0, <1>1, <3>1 DEF Objects
    <3> QED BY <3>2 DEF Prepared
  <2> QED BY <2>1, <2>2
<1> HIDE DEF o
<1> QED BY <1>0, <1>2, <1>3, <1>4, EndFills

LEMMA RevisionDoneFills == ASSUME FilledBefore, RevisionDone PROVE FilledInv'
<1> DEFINE k == work["revision"]
           o == RevisionOutcome(k).o
<1>0. /\ "revision" \in Workers /\ Ready \in Gates \cup {Ready} /\ PackagesInv
      /\ Answered("revision")
      /\ IF k.fresh THEN Finish("revision", k.pr, o) ELSE Conflict("revision")
  BY DEF RevisionDone, Workers, FilledBefore
<1>1. /\ k.step = "calling" /\ k.pr \in PRs /\ k.cr \in Objects(MaxRev)
      /\ RequestMade("revision", k) /\ call.op = k.request.op
      /\ k.fresh => k.cr = store[k.pr]
      /\ k.request \in Calls(0) /\ Requested(k.request) /\ k.request.pr = k.pr
  BY <1>0, HolderParts, BusyParts
<1>2. PICK pr \in PRs, s \in Objects(MaxRev) : pr = k.pr /\ s = k.cr
  BY <1>1
<1>3. Aside("revision") /\ commits' = commits
  BY <1>0 DEF Aside, Answered, Return
<1>4. CASE ~ k.fresh
  BY <1>0, <1>1, <1>4, ConflictFills
<1>5. CASE k.fresh
  <2>0. s = store[pr] /\ Written(pr, o, "revision", NoWork)
    BY <1>0, <1>1, <1>2, <1>5 DEF Finish, Written
  <2>1. Prepared(pr, s)
    BY <2>0 DEF FilledBefore, FilledInv
  <2>2. RevisionFills(k, s) /\ CallOfWork(k)
    <3>1. holder = "revision"
      BY <1>0 DEF Answered
    <3> QED BY <1>0, <1>1, <1>2, <2>0, <3>1 DEF FilledBefore, FilledInv, WorkFills
  <2>3. call.op = "delete" => s.deleting /\ s.fins = {"revision"}
    BY <1>1, <1>2 DEF FilledBefore, HeldInv, RevisionHeld
  <2>4. call.op = "list" => s.lifecycle = "published" /\ s.rev = 0
    BY <1>1, <1>2 DEF RequestMade
  <2>5. call.op = "ensure" => s.lifecycle = "published"
    BY <1>1, <1>2, <2>2 DEF RevisionFills
  <2>6. call.op = "upsert" => Unready(s)
    <3>1. call.op = "upsert" => s.tasks /\ Ready \notin s.conds
      BY <1>1, <1>2, <2>2 DEF RevisionFills
    <3> QED BY <2>1, <3>1 DEF Prepared, Unready, Objects, Lifecycles
  <2>7. CASE Deleted
    <3>1. o = RemoveFinalizer(s, "revision") /\ call.op = "delete"
      BY <1>2, <2>7 DEF RevisionOutcome, Deleted
    <3> HIDE DEF o, k
    <3>2. o = Absent
      BY <2>3, <3>1 DEF RemoveFinalizer
    <3> QED BY <1>0, <1>3, <2>0, <3>2, AbsentFills, EndFills
  <2>8. CASE ~ Deleted /\ call.op = "list" /\ ~ Failed
    <3>1. PICK n : o = [s EXCEPT !.rev = n]
      BY <1>2, <2>8 DEF RevisionOutcome
    <3> HIDE DEF o, k
    <3>2. o.lifecycle = "published" /\ o.deleting = s.deleting /\ o.tasks = s.tasks
      BY <2>4, <2>8, <3>1 DEF Objects
    <3>3. Prepared(pr, o)
      BY <2>1, <2>4, <2>8, <3>2 DEF Prepared, UnderTag
    <3> QED BY <1>0, <1>3, <2>0, <3>3, EndFills
  <2>9. CASE ~ Deleted /\ ~ (call.op = "list" /\ ~ Failed)
    <3>1. \/ o = SetTrue(s, Ready) /\ call.op \in {"ensure", "upsert"} /\ ~ Failed
          \/ o = SetFalse(s, Ready)
      BY <1>2, <2>9 DEF RevisionOutcome
    <3>2. call.op \in {"upsert", "ensure", "delete", "list"}
      <4>1. k.request.op \in {"none", "upsert", "ensure", "delete", "list", "get"}
        BY <1>1 DEF Calls, Ops
      <4>2. k.request.op # "none"
        BY <1>1, RequestedParts
      <4> QED BY <1>1, <2>2, <4>1, <4>2 DEF RevisionFills
    <3>3. /\ SetTrue(s, Ready) = [s EXCEPT !.conds = s.conds \cup {Ready}]
          /\ SetFalse(s, Ready) = [s EXCEPT !.conds = s.conds \ {Ready}]
      BY <1>0, ObjectWrites
    <3>4. CASE o = SetFalse(s, Ready)
      <4> HIDE DEF o, k
      <4>1. /\ o.lifecycle = s.lifecycle /\ o.rev = s.rev /\ o.tasks = s.tasks
            /\ o.deleting = s.deleting /\ Ready \notin o.conds
            /\ "process" \in o.conds <=> "process" \in s.conds
        BY <3>3, <3>4 DEF Objects, Ready
      <4>2. Prepared(pr, o)
        BY <2>1, <2>3, <2>4, <2>5, <2>6, <3>2, <4>1 DEF Prepared, Unready
      <4> QED BY <1>0, <1>3, <2>0, <4>2, EndFills
    <3>5. CASE o = SetTrue(s, Ready) /\ call.op \in {"ensure", "upsert"} /\ ~ Failed
      <4>1. call.op = "upsert" /\ s.lifecycle = "draft" /\ ~ s.deleting =>
              InBranch(pr, Upstream \cap Spared) /\ Ready \notin s.conds
        <5>1. SUFFICES ASSUME call.op = "upsert", s.lifecycle = "draft", ~ s.deleting
                       PROVE  InBranch(pr, Upstream \cap Spared) /\ Ready \notin s.conds
          OBVIOUS
        <5>2. s.rev = 0 /\ Ready \notin s.conds
          BY <2>0, <2>6, <5>1, StoredFacts
             DEF FilledBefore, ReleasedFirst, Released, Unready
        <5>3. /\ k.request.files = Upstream /\ k.request.rev = s.rev /\ ~ k.request.published
          BY <1>1, <1>2, <2>2, <5>1 DEF RevisionFills
        <5>4. /\ holder = "revision" /\ call.step = "done" /\ call.result = "ok"
          BY <1>0, <3>5 DEF Answered, Return, Failed
        <5>5. /\ call.pr = pr /\ call.rev = 0
          BY <1>0, <1>1, <1>2, <5>2, <5>3, <5>4 DEF PackagesInv, CallOfHolder
        <5>6. ~ call.published
          BY <1>0, <5>3, <5>4 DEF FilledBefore, AskedInv, CallAsked
        <5>7. InBranch(pr, Upstream)
          BY <2>2, <5>1, <5>2, <5>3, <5>4, <5>5, <5>6 DEF CallOfWork, WritesKept
        <5> QED BY <5>2, <5>7 DEF InBranch
      <4> HIDE DEF o, k
      <4>2. /\ o.lifecycle = s.lifecycle /\ o.rev = s.rev /\ o.tasks = s.tasks
            /\ o.deleting = s.deleting /\ Ready \in o.conds
            /\ "process" \in o.conds <=> "process" \in s.conds
        BY <3>3, <3>5 DEF Objects, Ready
      <4>3. Prepared(pr, o)
        <5>1. CASE s.lifecycle = "draft" /\ ~ s.deleting
          <6>1. call.op = "upsert"
            BY <2>5, <3>5, <5>1
          <6>2. InBranch(pr, Upstream \cap Spared) /\ o.tasks /\ "process" \notin o.conds
            BY <2>1, <4>1, <4>2, <5>1, <6>1 DEF Prepared
          <6> QED BY <4>2, <5>1, <6>2 DEF Prepared
        <5>2. CASE ~ (s.lifecycle = "draft" /\ ~ s.deleting)
          BY <2>1, <4>2, <5>2 DEF Prepared
        <5> QED BY <5>1, <5>2
      <4> QED BY <1>0, <1>3, <2>0, <4>3, EndFills
    <3> QED BY <3>1, <3>4, <3>5
  <2> QED BY <2>7, <2>8, <2>9
<1> QED BY <1>4, <1>5

----------------------------------------------------------------------------
(* The steps of a call. *)

(* The call is about to write a draft and may take files out of its branch.  *)
MayEmpty ==
  /\ call.op = "upsert" /\ call.step = "commit"
  /\ call.strict \/ call.files \notin Overwrites

(* Whose call it is.                                                         *)
LEMMA CallerParts ==
  ASSUME FilledBefore, CallStep
  PROVE  \E w \in Workers :
           /\ holder = w /\ work[w].step = "calling" /\ call.op = work[w].request.op
           /\ call.pr = work[w].pr /\ call.rev = work[w].request.rev
           /\ call.strict = work[w].request.strict
           /\ call.op \in {"delete", "ensure"} => w = "revision"
           /\ MayEmpty => w = "revision" /\ ~ CacheLag /\ Unready(store[call.pr])
<1>1. call.step # "idle"
  BY DEF CallStep, Fetch, CommitWorkspace, CheckBranch, ReadBranch, CommitToMain, CreateTag,
         PushTag, DeleteDraft, DeleteTag, List, Read, DeleteBranch
<1>2. PICK w \in Workers : holder = w
  BY <1>1 DEF FilledBefore, PackagesInv, CallOfHolder, TypeOK
<1>3. /\ work[w].step = "calling" /\ call.op = work[w].request.op
      /\ call.pr = work[w].request.pr /\ call.rev = work[w].request.rev
  BY <1>2 DEF FilledBefore, PackagesInv, CallOfHolder
<1>4. work[w].request.pr = work[w].pr
  BY <1>3, BusyParts DEF FilledBefore
<1>5. call.op \in {"delete", "ensure"} => w = "revision"
  BY <1>2 DEF FilledBefore, AskedInv, CallAsked
<1>6. /\ WorkFills(w, work[w], store[work[w].pr]) /\ call.strict = work[w].request.strict
      /\ WritesKept(work[w].request.files)
  BY <1>2 DEF FilledBefore, FilledInv, CallOfWork
<1>7. MayEmpty => w = "revision" /\ ~ CacheLag /\ Unready(store[call.pr])
  <2>1. SUFFICES ASSUME MayEmpty PROVE w = "revision" /\ ~ CacheLag /\ Unready(store[call.pr])
    OBVIOUS
  <2>2. /\ work[w].request.op = "upsert" /\ work[w].step # "idle"
        /\ work[w].request.strict \/ work[w].request.files \notin Overwrites
    BY <1>3, <1>6, <2>1 DEF MayEmpty, WritesKept
  <2>3. w = "revision"
    BY <1>6, <2>2 DEF WorkFills
  <2>4. RevisionFills(work[w], store[work[w].pr])
    BY <1>6, <2>2, <2>3 DEF WorkFills
  <2>5. ~ CacheLag
    BY <2>2, <2>4 DEF RevisionFills, Overwrites
  <2> QED BY <1>3, <1>4, <2>2, <2>3, <2>4, <2>5 DEF RevisionFills
<1> QED BY <1>2, <1>3, <1>4, <1>5, <1>6, <1>7

LEMMA RunFills ==
  ASSUME FilledBefore, ContentInv, ~ InDirectory, RunCall PROVE FilledInv' /\ SeenInv'
<1> DEFINE k == work["revision"]
<1>1. /\ CallStep /\ UNCHANGED <<store, cache, work, holder>> /\ GitInv /\ CallTold
      /\ PackagesInv /\ "revision" \in Workers
  BY DEF RunCall, objVars, PackagesInv, FilledBefore, AskedInv, Workers
<1>2. ReleasesKeptBut /\ CallKept
  BY <1>1, CallStepTold
<1>3. PICK w \in Workers :
        /\ holder = w /\ work[w].step = "calling" /\ call.op = work[w].request.op
        /\ call.pr = work[w].pr /\ call.rev = work[w].request.rev
        /\ call.strict = work[w].request.strict
        /\ call.op \in {"delete", "ensure"} => w = "revision"
        /\ MayEmpty => w = "revision" /\ ~ CacheLag /\ Unready(store[call.pr])
  BY <1>1, CallerParts
<1>4. /\ work[w].pr \in PRs /\ work[w].request \in Calls(0) /\ Requested(work[w].request)
      /\ work[w].request.rev \in 0 .. MaxRev
  BY <1>1, <1>3, BusyParts
<1>5. call.op = "ensure" => call.rev # 0 /\ store[call.pr].rev = call.rev
  <2>1. call.op = "ensure" => call.rev # 0
    BY <1>1 DEF GitInv, CallShape, Revs
  <2> QED BY <1>3, <2>1 DEF FilledBefore, RootedInv, RevisionRooted
<1>6. CallFills
  <2>1. call.op = "ensure" => InBranch(call.pr, Full) \/ UnderTag(call.pr, call.rev)
    <3>1. SUFFICES ASSUME call.op = "ensure"
                   PROVE  InBranch(call.pr, Full) \/ UnderTag(call.pr, call.rev)
      OBVIOUS
    <3>2. RevisionFills(k, store[k.pr])
      BY <1>1, <1>3, <3>1 DEF FilledBefore, FilledInv, WorkFills
    <3> QED BY <1>3, <3>1, <3>2 DEF RevisionFills
  <2> QED BY <1>1, <2>1, CallStepFills DEF FilledBefore, FilledInv
<1>7. call.op = "delete" =>
        /\ store[call.pr].lifecycle # "published" /\ Apart(call.pr, call.rev)
        /\ store[call.pr].deleting \/ store[call.pr].conds = {}
  <2>1. SUFFICES ASSUME call.op = "delete"
                 PROVE  /\ store[call.pr].lifecycle # "published" /\ Apart(call.pr, call.rev)
                        /\ store[call.pr].deleting \/ store[call.pr].conds = {}
    OBVIOUS
  <2>2. store[k.pr].lifecycle # "published" /\ Apart(k.pr, k.request.rev)
    BY <1>3, <2>1 DEF FilledBefore, RootedInv, RevisionRooted
  <2>3. LetGo(store[k.pr], {"revision"}) /\ FirstHeld(store[k.pr])
    BY <1>3, <1>4, <2>1 DEF FilledBefore, HeldInv, RevisionHeld
  <2>4. store[k.pr].deleting \/ store[k.pr].conds = {}
    BY <2>3 DEF LetGo, FirstHeld
  <2> QED BY <1>3, <2>1, <2>2, <2>4
<1>8. ASSUME NEW q \in PRs, NEW rev \in 0 .. MaxRev, rev = store[q].rev, UnderTag(q, rev),
             store[q].lifecycle = "published"
      PROVE  UnderTag(q, rev)'
  <2>1. Tag(q, rev) \in TagNames /\ rev # 0 /\ remote.tag[Tag(q, rev)] # NoRef
    BY <1>8 DEF UnderTag, Tag, TagNames, Revs
  <2>2. ~ (call.op = "delete" /\ Tag(q, rev) = Tag(call.pr, call.rev))
    <3>1. SUFFICES ASSUME call.op = "delete", Tag(q, rev) = Tag(call.pr, call.rev) PROVE FALSE
      OBVIOUS
    <3>2. PkgOf[q] = PkgOf[call.pr] /\ rev = call.rev
      BY <3>1 DEF Tag
    <3> QED BY <1>7, <1>8, <2>1, <3>1, <3>2 DEF Apart
  <2>3. remote'.tag[Tag(q, rev)] # NoRef
    BY <1>2, <2>1, <2>2 DEF ReleasesKeptBut
  <2> QED BY <2>1, <2>3 DEF UnderTag, Tag
<1>9. ASSUME NEW q \in PRs, NEW rev \in 0 .. MaxRev, rev = store[q].rev,
             NEW files \in SUBSET Spared, InBranch(q, files),
             ~ store[q].deleting, store[q].lifecycle # "deletionProposed"
      PROVE  \/ InBranch(q, files)'
             \/ UnderTag(q, rev)'
             \/ store[q].lifecycle # "published" /\ store[q].conds = {}
             \/ store[q].lifecycle = "draft" /\ Ready \notin store[q].conds
  <2>1. InBranch(q, files)' \/ TakesFiles(q)
    BY <1>6, <1>9 DEF CallFills, FilesStay
  <2>2. CASE TakesFiles(q) /\ call.op = "delete"
    BY <1>7, <1>9, <2>2 DEF TakesFiles
  <2>3. CASE TakesFiles(q) /\ call.op = "ensure"
    <3>1. q = call.pr /\ call.rev = rev /\ call'.pr = q /\ call'.rev = rev
      BY <1>2, <1>5, <1>9, <2>3 DEF TakesFiles, CallKept
    <3> QED BY <2>3, <3>1 DEF TakesFiles, UnderTag, Tag
  <2>4. CASE TakesFiles(q) /\ call.op = "upsert"
    BY <1>3, <1>9, <2>4 DEF TakesFiles, Unready, MayEmpty
  <2> QED BY <2>1, <2>2, <2>3, <2>4 DEF TakesFiles
<1>10. ASSUME NEW q \in PRs PROVE Prepared(q, store[q])'
  <2>1. PICK s : s = store[q]
    OBVIOUS
  <2>2. PICK rev \in 0 .. MaxRev : rev = s.rev
    <3>1. s \in Stored
      BY <1>1, <2>1, StoredFacts
    <3> QED BY <3>1, StoredParts
  <2>3. Prepared(q, s) /\ ReleasedFirst(s)
    BY <1>1, <2>1, StoredFacts DEF FilledBefore, FilledInv
  <2>4. UnderTag(q, rev)' => s.lifecycle \notin {"draft", "proposed"}
    BY <2>2, <2>3 DEF UnderTag, ReleasedFirst, Released
  <2>5. Prepared(q, s)'
    <3>1. SUFFICES ASSUME ~ s.deleting, s.lifecycle \in {"draft", "proposed", "published"}
                   PROVE  Prepared(q, s)'
      BY DEF Prepared
    <3>2. s.lifecycle = "draft" /\ Ready \in s.conds => InBranch(q, Upstream \cap Spared)'
      <4>1. SUFFICES ASSUME s.lifecycle = "draft", Ready \in s.conds
                     PROVE  InBranch(q, Upstream \cap Spared)'
        OBVIOUS
      <4>2. InBranch(q, Upstream \cap Spared)
        BY <2>3, <3>1, <4>1 DEF Prepared
      <4> QED BY <1>9, <2>1, <2>2, <2>4, <3>1, <4>1, <4>2, FullFiles
    <3>3. s.lifecycle \in {"draft", "proposed"} /\ "process" \in s.conds => InBranch(q, Full)'
      <4>1. SUFFICES ASSUME s.lifecycle \in {"draft", "proposed"}, "process" \in s.conds
                     PROVE  InBranch(q, Full)'
        OBVIOUS
      <4>2. InBranch(q, Full) /\ (s.lifecycle = "draft" => Ready \in s.conds)
        BY <2>3, <3>1, <4>1 DEF Prepared
      <4> QED BY <1>9, <2>1, <2>2, <2>4, <3>1, <4>1, <4>2, FullFiles
    <3>4. s.lifecycle = "published" => InBranch(q, Full)' \/ UnderTag(q, rev)'
      <4>1. SUFFICES ASSUME s.lifecycle = "published"
                     PROVE  InBranch(q, Full)' \/ UnderTag(q, rev)'
        OBVIOUS
      <4>2. InBranch(q, Full) \/ UnderTag(q, rev)
        BY <2>2, <2>3, <3>1, <4>1 DEF Prepared
      <4> QED BY <1>8, <1>9, <2>1, <2>2, <3>1, <4>1, <4>2, FullFiles
    <3> QED BY <2>2, <2>3, <3>1, <3>2, <3>3, <3>4 DEF Prepared
  <2> QED BY <1>1, <2>1, <2>5 DEF Prepared
<1>11. ASSUME NEW v \in Workers PROVE WorkFills(v, work[v], store[work[v].pr])'
  <2>1. PICK j, o : j = work[v] /\ o = store[j.pr]
    OBVIOUS
  <2>2. WorkFills(v, j, o)
    BY <2>1 DEF FilledBefore, FilledInv
  <2>3. ASSUME v = "revision", j.step # "idle", j.request.op = "ensure"
        PROVE  InBranch(j.pr, Full)' \/ UnderTag(j.pr, j.request.rev)'
    <3>1. /\ j.pr \in PRs /\ j.request.rev \in 0 .. MaxRev /\ Requested(j.request)
          /\ j.request \in Calls(0)
      BY <1>1, <2>1, <2>3, BusyParts
    <3>2. PICK q \in PRs, rev \in 0 .. MaxRev : q = j.pr /\ rev = j.request.rev
      BY <3>1
    <3>3. rev # 0
      BY <2>3, <3>1, <3>2, RequestedParts DEF Revs
    <3>4. InBranch(q, Full) \/ UnderTag(q, rev)
      BY <2>2, <2>3, <3>2 DEF WorkFills, RevisionFills
    <3>5. store[q].rev = rev
      BY <2>1, <2>3, <3>2, <3>3 DEF FilledBefore, RootedInv, RevisionRooted
    <3>6. w = "revision" => call.op = "ensure"
      BY <1>3, <2>1, <2>3
    <3>7. CASE InBranch(q, Full)
      <4>1. InBranch(q, Full)' \/ TakesFiles(q)
        BY <1>6, <3>7, FullFiles DEF CallFills, FilesStay
      <4>2. CASE TakesFiles(q)
        <5>1. q = call.pr /\ call.op = "ensure" /\ UnderTag(call.pr, call.rev)'
          BY <1>3, <3>6, <4>2 DEF TakesFiles, MayEmpty
        <5>2. call'.pr = q /\ call'.rev = rev
          BY <1>2, <1>5, <3>5, <5>1 DEF CallKept
        <5> QED BY <3>2, <5>1, <5>2 DEF UnderTag, Tag
      <4> QED BY <3>2, <4>1, <4>2 DEF InBranch
    <3>8. CASE UnderTag(q, rev)
      <4>1. Tag(q, rev) \in TagNames /\ remote.tag[Tag(q, rev)] # NoRef
        BY <3>3, <3>8 DEF UnderTag, Tag, TagNames, Revs
      <4>2. remote'.tag[Tag(q, rev)] # NoRef
        BY <1>2, <1>3, <3>6, <4>1 DEF ReleasesKeptBut
      <4> QED BY <3>2, <3>3, <4>2 DEF UnderTag, Tag
    <3> QED BY <3>4, <3>7, <3>8
  <2>4. WorkFills(v, j, o)'
    BY <2>2, <2>3 DEF WorkFills, RevisionFills, ProcessorFills, Unready
  <2> QED BY <1>1, <2>1, <2>4 DEF WorkFills, RevisionFills, ProcessorFills
<1>12. ASSUME NEW v \in Workers, holder' = v PROVE CallOfWork(work[v])'
  <2>1. v = w
    BY <1>1, <1>3, <1>12
  <2>2. PICK files \in SUBSET Files : files = work[w].request.files
    BY <1>4 DEF Calls
  <2>3. WritesKept(files)
    BY <1>3, <2>2 DEF FilledBefore, FilledInv, CallOfWork
  <2>4. WritesKept(files)' /\ call'.strict = work[w].request.strict
    BY <1>3, <1>6, <2>3 DEF CallFills
  <2> QED BY <1>1, <2>1, <2>2, <2>4 DEF CallOfWork, WritesKept, InBranch
<1>13. ASSUME NEW q \in PRs PROVE Seen(q, Current(q))'
  <2>0. PICK c : c = Current(q)
    OBVIOUS
  <2>1. PICK rev \in 0 .. MaxRev : c = Current(q) /\ rev = c.rev
    <3>1. c \in Stored
      BY <1>1, <2>0, CurrentParts DEF PackagesInv
    <3>2. c.rev \in 0 .. MaxRev
      BY <3>1, StoredParts
    <3> QED BY <2>0, <3>2
  <2>2. Seen(q, c)
    BY <2>1 DEF FilledBefore, SeenInv
  <2>3. ASSUME c.lifecycle = "published", ~ c.deleting, rev # 0
        PROVE  InBranch(q, Full)' \/ UnderTag(q, rev)'
    <3>1. "revision" \in c.fins /\ (InBranch(q, Full) \/ UnderTag(q, rev))
      BY <2>1, <2>2, <2>3 DEF Seen
    <3>2. store[q].rev = rev
      BY <2>1, <2>3, <3>1 DEF FilledBefore, RootedInv, SeenRight
    <3>3. call.op = "delete" => q # call.pr
      <4>1. SUFFICES ASSUME call.op = "delete" PROVE q # call.pr
        OBVIOUS
      <4>2. Current(call.pr).deleting \/ Current(call.pr).fins = {}
        BY <1>3, <4>1 DEF FilledBefore, RootedInv, RevisionRooted
      <4> QED BY <2>1, <2>3, <3>1, <4>2
    <3>4. CASE InBranch(q, Full)
      <4>1. InBranch(q, Full)' \/ TakesFiles(q)
        BY <1>6, <3>4, FullFiles DEF CallFills, FilesStay
      <4>2. CASE TakesFiles(q) /\ call.op = "ensure"
        <5>1. q = call.pr /\ call.rev = rev /\ call'.pr = q /\ call'.rev = rev
          BY <1>2, <1>5, <3>2, <4>2 DEF TakesFiles, CallKept
        <5> QED BY <4>2, <5>1 DEF TakesFiles, UnderTag, Tag
      <4>3. CASE TakesFiles(q) /\ call.op = "upsert"
        <5>1. q = call.pr /\ ~ CacheLag /\ Unready(store[q])
          BY <1>3, <4>3 DEF TakesFiles, MayEmpty
        <5>2. c = store[q]
          BY <2>1, <5>1 DEF Current
        <5> QED BY <2>3, <5>1, <5>2 DEF Unready
      <4> QED BY <3>3, <4>1, <4>2, <4>3 DEF TakesFiles
    <3>5. CASE UnderTag(q, rev)
      <4>1. Tag(q, rev) \in TagNames /\ remote.tag[Tag(q, rev)] # NoRef
        BY <2>3, <3>5 DEF UnderTag, Tag, TagNames, Revs
      <4>2. ~ (call.op = "delete" /\ Tag(q, rev) = Tag(call.pr, call.rev))
        <5>1. SUFFICES ASSUME call.op = "delete", Tag(q, rev) = Tag(call.pr, call.rev)
                       PROVE  FALSE
          OBVIOUS
        <5>2. PkgOf[q] = PkgOf[call.pr] /\ rev = call.rev
          BY <5>1 DEF Tag
        <5> QED BY <1>7, <2>3, <3>2, <3>3, <5>1, <5>2 DEF Apart
      <4>3. remote'.tag[Tag(q, rev)] # NoRef
        BY <1>2, <4>1, <4>2 DEF ReleasesKeptBut
      <4> QED BY <2>3, <4>3 DEF UnderTag, Tag
    <3> QED BY <3>1, <3>4, <3>5
  <2>4. Current(q)' = c
    BY <1>1, <2>1 DEF Current
  <2>5. Seen(q, c)'
    BY <2>1, <2>2, <2>3 DEF Seen
  <2> QED BY <2>4, <2>5 DEF Seen
<1> QED BY <1>6, <1>10, <1>11, <1>12, <1>13 DEF FilledInv, SeenInv, CallFills

LEMMA StepFills ==
  ASSUME FilledBefore, ContentInv, ~ InDirectory, Tasked \subseteq {TRUE},
         ProcessBeforeApprove, UsersOnlyProposeDeletion, [Next]_vars
  PROVE  FilledInv'
<1>1. ASSUME NEW pr \in PRs, InformerSync(pr) \/ RevisionSkip(pr) \/ ProcessorSkip(pr)
      PROVE  FilledInv'
  <2>1. UNCHANGED <<gitVars, store, work, holder>>
    BY <1>1 DEF InformerSync, RevisionSkip, ProcessorSkip
  <2> QED BY <2>1, RestFills DEF gitVars, FilledBefore
<1>2. ASSUME NEW pr \in PRs, UserStep(pr) PROVE FilledInv'
  BY <1>2, CreateFills, MoveFills, UserDeleteFills, UserUpdateFills DEF UserStep
<1>3. ASSUME NEW pr \in PRs,
             \/ RevisionReconcile(pr) \/ RevisionUnserved(pr)
             \/ RevisionDelete(pr) \/ RevisionGivesUp(pr)
      PROVE  FilledInv'
  BY <1>3, RevisionReconcileFills, RevisionDeleteFills, UnservedFills, GivesUpFills
<1>4. ASSUME NEW pr \in PRs,
             ProcessorReconcile(pr) \/ ApproverReconcile(pr) \/ InstallerReconcile(pr)
      PROVE  FilledInv'
  BY <1>4, ProcessorReconcileFills, ApproverFills, InstallerFills
<1>5. CASE \E w \in Workers : StartCall(w)
  BY <1>5, StartFills
<1>6. CASE RunCall \/ RevisionDone
  BY <1>6, RunFills, RevisionDoneFills
<1>7. CASE ProcessorRun \/ PipelineFails \/ ProcessorDone
  BY <1>7, RunsFill, PipelineFills, ProcessorDoneFills
<1>8. CASE UserRun \/ UserDone \/ ServerRestart
  BY <1>8, RunsFill, UserDoneFills, RestartFills
<1>9. CASE UNCHANGED vars
  BY <1>9, RestFills DEF vars, objVars, gitVars, FilledBefore
<1> QED BY <1>1, <1>2, <1>3, <1>4, <1>5, <1>6, <1>7, <1>8, <1>9
        DEF Next, RevisionStep, ProcessorStep

(* What the informer delivers is what is stored; all else that it has stays  *)
(* as it is, and nothing but a call changes git.                             *)
LEMMA StepSees ==
  ASSUME FilledBefore, ContentInv, ~ InDirectory, FilledInv', RootedInv', [Next]_vars
  PROVE  SeenInv'
<1>1. CASE RunCall
  BY <1>1, RunFills
<1>2. ASSUME NEW pr \in PRs, Current(pr)' = store'[pr] PROVE Seen(pr, Current(pr))'
  <2>1. /\ Prepared(pr, store[pr])'
        /\ store'[pr].lifecycle = "published" => "revision" \in store'[pr].fins
    BY DEF FilledInv, RootedInv
  <2> QED BY <1>2, <2>1 DEF Prepared, Seen
<1>3. ASSUME NEW pr \in PRs, cache'[pr] = cache[pr], UNCHANGED <<commits, remote>>
      PROVE  Seen(pr, Current(pr))'
  <2>1. CASE ~ CacheLag
    <3>1. Current(pr)' = store'[pr]
      BY <2>1 DEF Current
    <3> QED BY <1>2, <3>1
  <2>2. CASE CacheLag
    <3>1. PICK c : c = Current(pr)
      OBVIOUS
    <3>2. Seen(pr, c)'
      BY <1>3, <3>1, StillGit DEF FilledBefore, SeenInv, Seen, Full, Spared, Overwrites
    <3>3. Current(pr)' = c
      BY <1>3, <2>2, <3>1 DEF Current
    <3> QED BY <3>2, <3>3 DEF Seen
  <2> QED BY <2>1, <2>2
<1>4. ASSUME UNCHANGED <<cache, commits, remote>> PROVE SeenInv'
  BY <1>3, <1>4 DEF SeenInv
<1>5. ASSUME NEW pr \in PRs, InformerSync(pr) PROVE SeenInv'
  <2>1. ASSUME NEW q \in PRs PROVE Seen(q, Current(q))'
    <3>1. cache \in [PRs -> Stored] /\ UNCHANGED <<store, commits, remote>>
      BY <1>5 DEF FilledBefore, PackagesInv, TypeOK, InformerSync, gitVars
    <3>2. CASE q = pr
      <4>1. Current(pr)' = store'[pr]
        BY <1>5, <3>1 DEF InformerSync, Current
      <4> QED BY <1>2, <3>2, <4>1
    <3>3. CASE q # pr
      <4>1. cache'[q] = cache[q]
        BY <1>5, <3>1, <3>3 DEF InformerSync
      <4> QED BY <1>3, <3>1, <4>1
    <3> QED BY <3>2, <3>3
  <2> QED BY <2>1 DEF SeenInv
<1>6. CASE ServerRestart
  <2>1. \A q \in PRs : Current(q)' = store'[q]
    BY <1>6 DEF ServerRestart, Current
  <2> QED BY <1>2, <2>1 DEF SeenInv
<1>7. ASSUME NEW pr \in PRs, UserStep(pr) PROVE SeenInv'
  BY <1>4, <1>7 DEF UserStep, UserCreate, UserMove, UserDelete, UserUpdate, gitVars
<1>8. ASSUME NEW pr \in PRs, RevisionStep(pr) \/ ProcessorStep(pr) PROVE SeenInv'
  BY <1>4, <1>8 DEF RevisionStep, RevisionReconcile, RevisionDelete, RevisionSkip,
                    RevisionUnserved, RevisionGivesUp, RepositoryUnread, ProcessorStep, ProcessorReconcile, ProcessorSkip, gitVars
<1>9. ASSUME NEW pr \in PRs, ApproverReconcile(pr) \/ InstallerReconcile(pr) PROVE SeenInv'
  BY <1>4, <1>9 DEF ApproverReconcile, InstallerReconcile, WriteReconcile, gitVars
<1>10. CASE \E w \in Workers : StartCall(w)
  BY <1>4, <1>10 DEF StartCall, Start
<1>11. CASE RevisionDone \/ ProcessorDone \/ UserDone
  BY <1>4, <1>11 DEF RevisionDone, ProcessorDone, UserDone, Answered, Return
<1>12. CASE ProcessorRun \/ UserRun
  BY <1>4, <1>12 DEF ProcessorRun, UserRun, Upsert, Answered, Return
<1>13. CASE PipelineFails
  BY <1>4, <1>13 DEF PipelineFails, objVars
<1>14. CASE UNCHANGED vars
  BY <1>4, <1>14 DEF vars, objVars, gitVars
<1> QED BY <1>1, <1>5, <1>6, <1>7, <1>8, <1>9, <1>10, <1>11, <1>12, <1>13, <1>14 DEF Next

LEMMA FilledFirst == ASSUME Init PROVE FilledInv /\ SeenInv
<1>1. /\ GitInit /\ store = [pr \in PRs |-> Absent] /\ work = [w \in Workers |-> NoWork]
      /\ holder = "none" /\ "none" \notin Workers
  BY DEF Init, Workers
<1>2. call = Idle /\ \A t \in TagNames : remote.tag[t] = NoRef
  BY <1>1 DEF GitInit
<1>3. TagsFull /\ PublishesFull /\ BranchRead
  BY <1>2 DEF TagsFull, PublishesFull, BranchRead, Idle
<1>4. ASSUME NEW pr \in PRs PROVE Prepared(pr, store[pr])
  <2>1. store[pr] = Absent
    BY <1>1
  <2> QED BY <2>1, AbsentFills
<1>5. ASSUME NEW w \in Workers PROVE WorkFills(w, work[w], store[work[w].pr])
  BY <1>1, NoWorkParts DEF WorkFills
<1>6. ASSUME NEW pr \in PRs PROVE Seen(pr, Current(pr))
  <2>1. Current(pr) = Absent
    BY DEF Init, Current
  <2> QED BY <2>1, AbsentParts DEF Seen
<1> QED BY <1>1, <1>3, <1>4, <1>5, <1>6 DEF FilledInv, SeenInv

LEMMA FilledIsComplete == ASSUME PackagesInv, TagsFull PROVE ReleasedIsComplete
<1>1. SUFFICES ASSUME NEW pr \in PRs, store[pr].rev # 0,
                      remote.tag[Tag(pr, store[pr].rev)] # NoRef
               PROVE  Full \subseteq StoredFiles(remote.tag[Tag(pr, store[pr].rev)], PkgOf[pr])
  BY DEF ReleasedIsComplete, Full, Spared, Overwrites
<1>2. store[pr].rev \in 0 .. MaxRev
  BY StoredFacts, StoredParts
<1>3. Tag(pr, store[pr].rev) \in TagNames /\ Tag(pr, store[pr].rev)[1] = PkgOf[pr]
  BY <1>1, <1>2 DEF Tag, TagNames, Revs
<1> QED BY <1>1, <1>3 DEF TagsFull

----------------------------------------------------------------------------
(* The theorem. *)

(* What is released holds what its task brought and its pipeline wrote, but  *)
(* for the files whose directory one of the later writes replaces (Spared),  *)
(* however what controllers and users do interleaves, calls fail, caches lag *)
(* behind, the Repository cannot be read and the server restarts: for drafts *)
(* with a task, whose approval waits for the processing, released by the     *)
(* controllers alone, and as long as no two package revisions of a package   *)
(* have the same revision.  Where a cache lags behind the policy must not be *)
(* strict: the task of an old copy would be written once more, over what the *)
(* pipeline has written.                                                     *)
THEOREM PackagesReleasedIsComplete ==
  /\ ~ InDirectory /\ Tasked \subseteq {TRUE} /\ (CacheLag => ~ Strict)
  /\ ProcessBeforeApprove /\ UsersOnlyProposeDeletion
  => (Spec /\ []RevisionsUnique => []ReleasedIsComplete)
<1> SUFFICES ASSUME ~ InDirectory, Tasked \subseteq {TRUE}, CacheLag => ~ Strict,
                    ProcessBeforeApprove, UsersOnlyProposeDeletion
             PROVE  Spec /\ []RevisionsUnique => []ReleasedIsComplete
  OBVIOUS
<1>1. ApproveNotFirst /\ UsersOnlyRetire
  <2>1. ApproveNotFirst
    BY DEF ApproveNotFirst, ProcessBeforeApprove
  <2>2. UsersOnlyRetire
    BY DEF UsersOnlyRetire, UsersOnlyProposeDeletion
  <2> QED BY <2>1, <2>2
<1>2. Init => AskedInv /\ HeldInv /\ RootedInv /\ FilledInv /\ SeenInv
  BY PackagesKeptFirst, FilledFirst
<1>3. PackagesInv /\ ContentInv /\ RevisionsUnique' /\ AskedInv /\ HeldInv /\ RootedInv
        /\ FilledInv /\ SeenInv /\ [Next]_vars
        => AskedInv' /\ HeldInv' /\ RootedInv' /\ FilledInv' /\ SeenInv'
  <2> SUFFICES ASSUME PackagesInv, ContentInv, RevisionsUnique', AskedInv, HeldInv, RootedInv,
                      FilledInv, SeenInv, [Next]_vars
               PROVE  AskedInv' /\ HeldInv' /\ RootedInv' /\ FilledInv' /\ SeenInv'
    OBVIOUS
  <2>1. AskedInv' /\ HeldInv' /\ RootedInv'
    BY <1>1, PackagesKeep DEF Keeps
  <2>2. FilledBefore
    BY DEF FilledBefore
  <2>3. FilledInv'
    BY <2>2, StepFills
  <2> QED BY <2>1, <2>2, <2>3, StepSees
<1>4. PackagesInv /\ FilledInv => ReleasedIsComplete
  BY FilledIsComplete DEF FilledInv
<1>5. Spec => []ContentInv
  BY PackagesContent
<1> QED BY <1>2, <1>3, <1>4, <1>5, PackagesHold, PTL DEF Spec

(* Without a lag the revisions are unique, and the policy may be strict.     *)
THEOREM PackagesReleasedWithoutLag ==
  /\ ~ CacheLag /\ ~ InDirectory /\ Tasked \subseteq {TRUE}
  /\ ProcessBeforeApprove /\ UsersOnlyProposeDeletion
  => (Spec => []ReleasedIsComplete)
  BY PackagesReleasedIsComplete, PackagesUniqueWithoutLag, PTL
=============================================================================
