--------------------------- MODULE GitRepository ---------------------------
(***************************************************************************)
(* One git repository as the package server uses it (pkg/git/pkg): a       *)
(* remote, the clone in the cache directory whose references track it, and *)
(* the one call (EnsurePackageRevision, UpsertPackageRevision,             *)
(* DeletePackageRevision, ListPackageRevisions, GetResources) that holds   *)
(* the mutex of the gitRepository.  Every exchange with the remote is a    *)
(* step of its own, so that a call can be cut off between any two of them. *)
(*                                                                         *)
(* A commit is the set of commits reachable from it and, per package, the  *)
(* names of the files in the package's directory.  A workspace branch is   *)
(* named by the package revision that owns it, a tag by package and        *)
(* revision number.  Blob contents and commit messages are left out.       *)
(***************************************************************************)
EXTENDS Naturals, Sequences, FiniteSets

CONSTANTS
  PRs,            \* package revisions, each with its workspace branch
  NoPR,           \* "no call is running"
  Packages,       \* packages (target, realm and name)
  PkgOf,          \* the package of a package revision
  Contains,       \* the packages whose tag names contain a package's path
  Files,          \* names of package files
  Dir,            \* the directory below the package's that a file is in
  MaxRev,         \* bound: the highest revision number used
  InDirectory,    \* does the Repository have a spec.git.directory?
  MaxCommits,     \* bound: commits made by the package server's calls
  MaxFaults,      \* bound: failed exchanges and restarts
  MaxExternal     \* bound: commits pushed by people or other programs

ASSUME PRsAssumption == NoPR \notin PRs
ASSUME PackagesAssumption ==
  /\ PkgOf \in [PRs -> Packages]
  /\ Contains \in [Packages -> SUBSET Packages]
  /\ \A p \in Packages : p \in Contains[p]
ASSUME DirectoryAssumption == InDirectory \in BOOLEAN
ASSUME FilesAssumption == "." \notin Files    \* the entry Here below
ASSUME DirAssumption == DOMAIN Dir = Files    \* Here: the package's directory
ASSUME BoundsAssumption ==
  /\ MaxRev \in Nat /\ MaxCommits \in Nat
  /\ MaxFaults \in Nat /\ MaxExternal \in Nat

VARIABLES
  commits,     \* the object stores: every commit made, a commit is its index
  remote,      \* the references of the remote repository
  local,       \* the references of the clone in the cache directory
  annotated,   \* the tags whose local reference is an annotated tag object
  call,        \* the call that holds the repository's mutex
  faults, externals

gitVars == <<commits, remote, local, annotated, call, faults, externals>>

Revs     == 1 .. MaxRev
TagNames == Packages \X Revs
Tag(pr, rev) == <<PkgOf[pr], rev>>

Here == "."    \* the entry that says that the package's directory exists
Trees   == [Packages -> SUBSET (Files \cup {Here})]
Commits == 1 .. Len(commits)
NoRef   == 0

Refs(max) == [main   : 1 .. max,
              branch : [PRs -> 0 .. max],
              tag    : [TagNames -> 0 .. max]]

Ops     == {"none", "upsert", "ensure", "delete", "list", "get"}
Steps   == {"idle", "fetch", "commit", "branch", "refetch", "publish",
            "createTag", "pushTag", "deleteBranch", "delete", "read", "done"}
Results == {"", "ok", "not found", "stale", "fault"}

Calls(max) ==
  [op : Ops, pr : PRs \cup {NoPR}, rev : 0 .. MaxRev, published : BOOLEAN,
   strict : BOOLEAN, files : SUBSET Files, step : Steps, head : 0 .. max,
   commit : 0 .. max, found : SUBSET Revs, result : Results]

Idle == [op |-> "none", pr |-> NoPR, rev |-> 0, published |-> FALSE,
         strict |-> FALSE, files |-> {}, step |-> "idle", head |-> NoRef,
         commit |-> NoRef, found |-> {}, result |-> ""]

(* Mutant of Goto: the tag is created and never pushed. *)
SkipTagPush(step) ==
  [call EXCEPT !.step = IF step = "pushTag" THEN "deleteBranch" ELSE step]

(* The call, between two of its steps. *)
Goto(step)  == [call EXCEPT !.step = step]
(* "not found" is an error that says "reference not found", "stale" one that  *)
(* says that a remote reference is not what it was required to be, "fault"    *)
(* any error of the transport.                                                *)
Done(result) == [op |-> call.op, pr |-> call.pr, rev |-> call.rev,
                 published |-> call.published, strict |-> call.strict, files |-> {},
                 step |-> "done", head |-> NoRef, commit |-> NoRef, found |-> {},
                 result |-> result]

GitTypeOK ==
  /\ Len(commits) \in Nat \ {0}
  /\ commits \in Seq([history : SUBSET Commits, tree : Trees])
  /\ remote \in Refs(Len(commits))
  /\ local \in Refs(Len(commits))
  /\ annotated \in SUBSET TagNames
  /\ call \in Calls(Len(commits))
  /\ faults \in 0 .. MaxFaults
  /\ externals \in 0 .. MaxExternal

----------------------------------------------------------------------------
(* Objects. *)

(* getPackageTree looks below the package's path, without the repository's  *)
(* directory, while the commit helper writes below the directory.           *)
PackageTree(c, pkg) == IF InDirectory THEN {} ELSE commits[c].tree[pkg]

(* The resources getResources returns: the files in the package's tree.     *)
Resources(c, pkg) == PackageTree(c, pkg) \ {Here}

(* The first file stored below a directory of the package's takes the place *)
(* of all that directory held before; the package's own directory is kept.  *)
Replaced(files) == {g \in Files : Dir[g] # Here /\ \E f \in files : Dir[f] = Dir[g]}

(* Mutants of StoreFiles: the tree is emptied after the files are stored;    *)
(* the tree is emptied whatever the policy.                                  *)
EmptiedLast(old, files, strict) ==
  (IF strict THEN old \cap {Here} ELSE (old \ Replaced(files)) \cup files)
    \cup (IF files = {} THEN {} ELSE {Here})
EmptiedAlways(old, files, strict) ==
  (old \cap {Here}) \cup files \cup (IF files = {} THEN {} ELSE {Here})

(* commitHelper: start from the package's tree in the parent commit, empty  *)
(* it under the strict update policy, then store every file.                *)
StoreFiles(old, files, strict) ==
  (IF strict THEN old \cap {Here} ELSE old \ Replaced(files))
    \cup files \cup (IF files = {} THEN {} ELSE {Here})

(* Mutant of NewCommit: a commit without a parent. *)
OrphanCommit(parent, pkg, files, strict) ==
  [history |-> {Len(commits) + 1},
   tree    |-> [commits[parent].tree EXCEPT
                  ![pkg] = StoreFiles(PackageTree(parent, pkg), files, strict)]]

NewCommit(parent, pkg, files, strict) ==
  [history |-> commits[parent].history \cup {Len(commits) + 1},
   tree    |-> [commits[parent].tree EXCEPT
                  ![pkg] = StoreFiles(PackageTree(parent, pkg), files, strict)]]

(* getLatestRevision: 0 is NoRevision.  Tags are matched by strings.Contains. *)
TaggedRevs(pkgs) == {r \in Revs : \E p \in pkgs : local.tag[<<p, r>>] # NoRef}
IsLatestRevision(pkg, rev) ==
  LET revs == TaggedRevs(Contains[pkg])
  IN  /\ rev \in revs \cup {0}
      /\ \A r \in revs : r <= rev

(* A tag is listed when its commit holds the package's directory, and never *)
(* when the repository has a directory the tag's name does not start with.  *)
ListedRevs(refs, pkg) ==
  {r \in Revs : /\ refs.tag[<<pkg, r>>] # NoRef
                /\ Here \in PackageTree(refs.tag[<<pkg, r>>], pkg)}

----------------------------------------------------------------------------
(* Exchanges with the remote. *)

(* A fetch forces the remote's references on the local ones and prunes none. *)
Overlay(refs) ==
  [main   |-> remote.main,
   branch |-> [p \in PRs |-> IF remote.branch[p] # NoRef
                             THEN remote.branch[p] ELSE refs.branch[p]],
   tag    |-> [t \in TagNames |-> IF remote.tag[t] # NoRef
                                  THEN remote.tag[t] ELSE refs.tag[t]]]

Fetched == Overlay(local)
StillAnnotated == {t \in annotated : remote.tag[t] = NoRef}

Fault ==
  /\ faults < MaxFaults
  /\ faults' = faults + 1
  /\ call' = Done("fault")

FetchFails ==
  /\ Fault
  /\ UNCHANGED <<commits, remote, local, annotated, externals>>

(* Mutants: SetMain moves the workspace branch, SetBranch moves main too. *)
WorkspaceForMain(refs, c)  == [refs EXCEPT !.branch[call.pr] = c]
MainAsWell(refs, pr, c)    == [refs EXCEPT !.main = c, !.branch[pr] = c]

SetMain(refs, c)       == [refs EXCEPT !.main = c]
SetBranch(refs, pr, c) == [refs EXCEPT !.branch[pr] = c]
SetTag(refs, t, c)     == [refs EXCEPT !.tag[t] = c]

(* A push that gets through updates the tracking references as well.        *)
PushDone(newRemote, newLocal, next) ==
  /\ remote' = newRemote
  /\ local' = newLocal
  /\ call' = next
  /\ UNCHANGED <<faults, externals>>

(* One that fails leaves the remote alone, or changed when only the answer  *)
(* was lost.                                                                *)
PushFails(newRemote) ==
  /\ Fault
  /\ remote' \in {remote, newRemote}
  /\ UNCHANGED <<local, annotated, externals>>

----------------------------------------------------------------------------
(* The calls.  A call starts when it gets the mutex; the bound on commits is *)
(* checked here (a call makes one commit at most), so no call stops midway.  *)

Start(request) ==
  /\ call.step = "idle"
  /\ request.op \in {"upsert", "ensure"} => Len(commits) - externals <= MaxCommits
  /\ call' = request
  /\ UNCHANGED <<commits, remote, local, annotated, faults, externals>>

Request(op, pr, rev, published, strict, files) ==
  [op |-> op, pr |-> pr, rev |-> rev, published |-> published, strict |-> strict,
   files |-> files, step |-> "fetch", head |-> NoRef, commit |-> NoRef,
   found |-> {}, result |-> ""]
UpsertRequest(pr, rev, published, strict, files) ==
  Request("upsert", pr, rev, published, strict, files)
EnsureRequest(pr, rev, strict) == Request("ensure", pr, rev, TRUE, strict, {})
DeleteRequest(pr, rev)         == Request("delete", pr, rev, FALSE, FALSE, {})
ListRequest(pr)                == Request("list", pr, 0, FALSE, FALSE, {})
GetRequest(pr, rev)            == Request("get", pr, rev, FALSE, FALSE, {})

(* The caller takes the result. *)
Return ==
  /\ call.step = "done"
  /\ call' = Idle
  /\ UNCHANGED <<commits, remote, local, annotated, faults, externals>>

(* Mutant of AfterFetch: what is published is written as well. *)
CommitsPublished ==
  CASE call.op = "upsert" -> Goto("commit")
    [] call.op = "ensure" -> Goto("branch")
    [] call.op = "delete" -> Goto("delete")
    [] call.op = "list"   -> Goto("refetch")
    [] OTHER              -> Goto("read")

AfterFetch ==
  CASE call.op = "upsert" -> IF call.published THEN Done("ok") ELSE Goto("commit")
    [] call.op = "ensure" -> Goto("branch")
    [] call.op = "delete" -> Goto("delete")
    [] call.op = "list"   -> Goto("refetch")
    [] OTHER              -> Goto("read")

(* Every call starts with FetchRemoteRepository. *)
Fetch ==
  /\ call.step = "fetch"
  /\ \/ /\ local' = Fetched
        /\ annotated' = StillAnnotated
        /\ call' = AfterFetch
        /\ UNCHANGED <<commits, remote, faults, externals>>
     \/ FetchFails

(* ListRefs fetches once more, then every tag is looked at. *)
List ==
  /\ call.op = "list" /\ call.step = "refetch"
  /\ \/ /\ local' = Fetched
        /\ annotated' = StillAnnotated
        /\ call' = [Done("ok") EXCEPT !.found = ListedRevs(Fetched, PkgOf[call.pr])]
        /\ UNCHANGED <<commits, remote, faults, externals>>
     \/ FetchFails

(* getCommit: the tag of a revision, the workspace branch of a draft. *)
Read ==
  LET c == IF call.rev # 0 THEN local.tag[Tag(call.pr, call.rev)]
                           ELSE local.branch[call.pr]
  IN  /\ call.op = "get" /\ call.step = "read"
      /\ call' = IF c = NoRef THEN Done("not found")
                 ELSE [Done("ok") EXCEPT !.files = Resources(c, PkgOf[call.pr])]
      /\ UNCHANGED <<commits, remote, local, annotated, faults, externals>>

(* getParentCommit: the workspace branch, else the tag of the latest         *)
(* revision, else main.  NoRef when the package does not have that tag.      *)
IsParent(c) ==
  \/ /\ local.branch[call.pr] # NoRef
     /\ c = local.branch[call.pr]
  \/ /\ local.branch[call.pr] = NoRef
     /\ \E rev \in 0 .. MaxRev :
          /\ IsLatestRevision(PkgOf[call.pr], rev)
          /\ c = IF rev = 0 THEN local.main ELSE local.tag[Tag(call.pr, rev)]

(* commit, for Upsert: a draft is committed to its workspace branch, a      *)
(* request with a revision to main.                                         *)
CommitWorkspace ==
  LET new == Len(commits) + 1
      Moved(refs) == IF call.rev # 0 THEN SetMain(refs, new)
                                     ELSE SetBranch(refs, call.pr, new)
  IN  /\ call.op = "upsert" /\ call.step = "commit"
      /\ \E parent \in 0 .. Len(commits) :
           /\ IF call.rev # 0 THEN parent = local.main ELSE IsParent(parent)
           /\ \/ /\ parent = NoRef
                 /\ call' = Done("not found")
                 /\ UNCHANGED <<commits, remote, local, annotated, faults, externals>>
              \/ /\ parent # NoRef
                 /\ commits' = Append(commits, NewCommit(parent, PkgOf[call.pr],
                                                         call.files, call.strict))
                 /\ \/ /\ PushDone(Moved(remote), Moved(local), Done("ok"))
                       /\ UNCHANGED annotated
                    \/ PushFails(Moved(remote))

(* Mutant of CheckBranch: a workspace branch is taken to exist. *)
UncheckedBranch ==
  /\ call.op = "ensure" /\ call.step = "branch"
  /\ call' = [Goto("refetch") EXCEPT !.head = local.branch[call.pr]]
  /\ UNCHANGED <<commits, remote, local, annotated, faults, externals>>

(* commitToMain, until the first exchange: the workspace branch must exist. *)
CheckBranch ==
  LET head == local.branch[call.pr]
  IN  /\ call.op = "ensure" /\ call.step = "branch"
      /\ call' = IF head = NoRef THEN Done("not found")
                 ELSE [Goto("refetch") EXCEPT !.head = head]
      /\ UNCHANGED <<commits, remote, local, annotated, faults, externals>>

(* getResources fetches again and reads the branch it then finds. *)
ReadBranch ==
  /\ call.op = "ensure" /\ call.step = "refetch"
  /\ \/ /\ local' = Fetched
        /\ annotated' = StillAnnotated
        /\ call' = [Goto("publish") EXCEPT
                      !.files = Resources(Fetched.branch[call.pr], PkgOf[call.pr])]
        /\ UNCHANGED <<commits, remote, faults, externals>>
     \/ FetchFails

(* commit, for Ensure: the resources on top of the head of main. *)
CommitToMain ==
  LET new == Len(commits) + 1
  IN  /\ call.op = "ensure" /\ call.step = "publish"
      /\ commits' = Append(commits, NewCommit(local.main, PkgOf[call.pr],
                                              call.files, call.strict))
      /\ \/ /\ PushDone(SetMain(remote, new), SetMain(local, new),
                        [Goto("createTag") EXCEPT !.commit = new])
            /\ UNCHANGED annotated
         \/ PushFails(SetMain(remote, new))

(* Mutant of CreateTag: a tag that exists is replaced. *)
ReplaceTag ==
  LET t == Tag(call.pr, call.rev)
  IN  /\ call.op = "ensure" /\ call.step = "createTag"
      /\ local' = SetTag(local, t, call.commit)
      /\ annotated' = annotated \cup {t}
      /\ call' = Goto("pushTag")
      /\ UNCHANGED <<commits, remote, faults, externals>>

(* The tag is created in the clone; one that exists ends the call, well. *)
CreateTag ==
  LET t == Tag(call.pr, call.rev)
  IN  /\ call.op = "ensure" /\ call.step = "createTag"
      /\ \/ /\ local.tag[t] # NoRef
            /\ call' = Done("ok")
            /\ UNCHANGED <<local, annotated>>
         \/ /\ local.tag[t] = NoRef
            /\ local' = SetTag(local, t, call.commit)
            /\ annotated' = annotated \cup {t}
            /\ call' = Goto("pushTag")
      /\ UNCHANGED <<commits, remote, faults, externals>>

(* The pushed tag is the commit itself: the annotated object stays behind. *)
PushTag ==
  LET t == Tag(call.pr, call.rev)
  IN  /\ call.op = "ensure" /\ call.step = "pushTag"
      /\ \/ /\ PushDone(SetTag(remote, t, call.commit),
                        SetTag(local, t, call.commit), Goto("deleteBranch"))
            /\ annotated' = annotated \ {t}
         \/ PushFails(SetTag(remote, t, call.commit))
      /\ UNCHANGED commits

(* Mutant of DeleteRef: the remote reference may be any. *)
DeleteAnyRef(same, newRemote, newLocal) ==
  /\ \/ /\ PushDone(newRemote, newLocal, Done("ok"))
        /\ UNCHANGED annotated
     \/ PushFails(newRemote)
  /\ UNCHANGED commits

(* deleteRef requires the remote reference to be the one that was read: for  *)
(* Ensure the branch as it was before the resources were fetched.            *)
DeleteRef(same, newRemote, newLocal) ==
  /\ \/ /\ ~ same
        /\ call' = Done("stale")
        /\ UNCHANGED <<remote, local, annotated, faults, externals>>
     \/ /\ same
        /\ PushDone(newRemote, newLocal, Done("ok"))
        /\ UNCHANGED annotated
     \/ PushFails(IF same THEN newRemote ELSE remote)
  /\ UNCHANGED commits

DeleteBranch ==
  LET Cleared(refs) == SetBranch(refs, call.pr, NoRef)
  IN  /\ call.op = "ensure" /\ call.step = "deleteBranch"
      /\ DeleteRef(call.head = remote.branch[call.pr], Cleared(remote), Cleared(local))

(* DeletePackageRevision without a revision: the branch must exist. *)
DeleteDraft ==
  LET head == local.branch[call.pr]
      Cleared(refs) == SetBranch(refs, call.pr, NoRef)
  IN  /\ call.op = "delete" /\ call.step = "delete" /\ call.rev = 0
      /\ \/ /\ head = NoRef
            /\ call' = Done("not found")
            /\ UNCHANGED <<commits, remote, local, annotated, faults, externals>>
         \/ /\ head # NoRef
            /\ DeleteRef(head = remote.branch[call.pr], Cleared(remote), Cleared(local))

(* With a revision: the tag goes, if there is one; the branch is left.  The  *)
(* hash of an annotated tag object is no commit.                             *)
DeleteTag ==
  LET t    == Tag(call.pr, call.rev)
      hash == local.tag[t]
      same == t \notin annotated /\ hash = remote.tag[t]
      Cleared(refs) == SetTag(refs, t, NoRef)
  IN  /\ call.op = "delete" /\ call.step = "delete" /\ call.rev # 0
      /\ \/ /\ hash = NoRef
            /\ call' = Done("ok")
            /\ UNCHANGED <<commits, remote, local, annotated, faults, externals>>
         \/ /\ hash # NoRef
            /\ DeleteRef(same, Cleared(remote), Cleared(local))

----------------------------------------------------------------------------
(* What surrounds the calls. *)

(* The process dies and opens the repository again (OpenRepository), with    *)
(* its cache directory or without; Close removes the directory as well.      *)
Restart ==
  /\ faults < MaxFaults
  /\ faults' = faults + 1
  /\ call' = Idle
  /\ \/ /\ local' = Fetched
        /\ annotated' = StillAnnotated
     \/ /\ local' = remote
        /\ annotated' = {}
  /\ UNCHANGED <<commits, remote, externals>>

(* Somebody else pushes a commit: to main, outside the packages, or to a     *)
(* workspace branch, to the package.                                         *)
ExternalCommit ==
  LET new == Len(commits) + 1
  IN  /\ externals < MaxExternal
      /\ externals' = externals + 1
      /\ \/ /\ commits' = Append(commits,
                 [commits[remote.main] EXCEPT !.history = @ \cup {new}])
            /\ remote' = SetMain(remote, new)
         \/ \E pr \in PRs, files \in SUBSET Files :
              /\ remote.branch[pr] # NoRef
              /\ commits' = Append(commits,
                   NewCommit(remote.branch[pr], PkgOf[pr], files, TRUE))
              /\ remote' = SetBranch(remote, pr, new)
      /\ UNCHANGED <<local, annotated, call, faults>>

(* The steps of the running call. *)
CallStep ==
  \/ Fetch \/ List \/ Read \/ CommitWorkspace
  \/ CheckBranch \/ ReadBranch \/ CommitToMain \/ CreateTag \/ PushTag \/ DeleteBranch
  \/ DeleteDraft \/ DeleteTag

(* Any caller: the controllers' requests are a subset of these. *)
StartAny ==
  \E pr \in PRs, rev \in 0 .. MaxRev, strict \in BOOLEAN :
    \/ \E published \in BOOLEAN, files \in SUBSET Files :
         Start(UpsertRequest(pr, rev, published, strict, files))
    \/ rev # 0 /\ Start(EnsureRequest(pr, rev, strict))
    \/ Start(DeleteRequest(pr, rev))
    \/ Start(ListRequest(pr))
    \/ Start(GetRequest(pr, rev))

(* The remote starts with one commit, without packages, on main. *)
GitInit ==
  /\ commits = <<[history |-> {1}, tree |-> [p \in Packages |-> {}]]>>
  /\ remote = [main |-> 1, branch |-> [p \in PRs |-> NoRef],
               tag |-> [t \in TagNames |-> NoRef]]
  /\ local = remote
  /\ annotated = {}
  /\ call = Idle
  /\ faults = 0
  /\ externals = 0

GitNext == StartAny \/ Return \/ CallStep \/ Restart \/ ExternalCommit

GitSpec == GitInit /\ [][GitNext]_gitVars

----------------------------------------------------------------------------
(* Properties. *)

Finished(op, result) == call.step = "done" /\ call.op = op /\ call.result = result
StoredFiles(c, pkg) == commits[c].tree[pkg] \ {Here}

(* What the clone has seen of main is never thrown away, although every push *)
(* is forced (PushAndCleanup) and the parent of a commit is read from the    *)
(* clone, some exchanges before the push.                                    *)
SeenMainKept == commits[local.main].history \subseteq commits[remote.main].history

(* A published tag is part of main: commitToMain pushes main before the tag, *)
(* and no later push of main, by any call, drops the tagged commit.          *)
TagsOnMain ==
  \A t \in TagNames :
    remote.tag[t] # NoRef => remote.tag[t] \in commits[remote.main].history

(* The tag of a published revision stays where it is until it is deleted,    *)
(* however often EnsurePackageRevision is repeated after an error, and also  *)
(* when two package revisions are published under one revision.              *)
TagsNeverMove ==
  [][\A t \in TagNames : remote.tag[t] # NoRef => remote'.tag[t] \in {remote.tag[t], NoRef}]_gitVars

(* EnsurePackageRevision removes a workspace branch only when the tag holds  *)
(* what the branch holds at that moment: all its files, and under the strict *)
(* update policy nothing else.  Somebody may push to the branch meanwhile.   *)
PublishedBeforeBranchGone ==
  [][\A pr \in PRs :
       call.op = "ensure" /\ remote.branch[pr] # NoRef /\ remote'.branch[pr] = NoRef
       => LET pkg == PkgOf[pr]
              tag == remote.tag[Tag(call.pr, call.rev)]
              files == StoredFiles(remote.branch[pr], pkg)
          IN  /\ pr = call.pr
              /\ tag # NoRef
              /\ files \subseteq StoredFiles(tag, pkg)
              /\ call.strict => StoredFiles(tag, pkg) = files]_gitVars

(* The inductive invariant behind the properties above. *)
CallShape ==
  /\ call.step # "idle" => call.pr \in PRs /\ call.op # "none"
  /\ call.op = "ensure" => call.rev \in Revs
  /\ call.op = "ensure" /\ call.step \in {"refetch", "publish"} =>
       call.head # NoRef /\ local.branch[call.pr] # NoRef
  /\ call.step \in {"createTag", "pushTag", "deleteBranch"} =>
       call.op = "ensure" /\ call.commit # NoRef
  /\ call.step = "pushTag" => local.tag[Tag(call.pr, call.rev)] = call.commit

TagsOnSeenMain ==
  \A t \in TagNames :
    remote.tag[t] # NoRef => remote.tag[t] \in commits[local.main].history
NewTagOnSeenMain ==
  call.step \in {"createTag", "pushTag"} => call.commit \in commits[local.main].history

TagsKnown == \A t \in TagNames : remote.tag[t] # NoRef => local.tag[t] # NoRef
NewTagIsNew == call.step = "pushTag" => remote.tag[Tag(call.pr, call.rev)] = NoRef

InOwnHistory == \A c \in Commits : c \in commits[c].history

GitInv ==
  /\ GitTypeOK
  /\ InOwnHistory /\ SeenMainKept /\ TagsOnSeenMain /\ TagsKnown
  /\ CallShape /\ NewTagOnSeenMain /\ NewTagIsNew

(* A repository at rest holds nothing of the last call; what is published is *)
(* not written; the branch that is published was there.                      *)
RestsBlank    == call.step = "idle" => call = Idle
WritesDrafts  == call.step = "commit" => call.op = "upsert" /\ ~ call.published
BranchWasThere ==
  call.step \in {"publish", "createTag", "pushTag", "deleteBranch"} => call.head # NoRef

(* What is tagged is what was read from the branch head that gets removed. *)
BranchWasRead ==
  call.step \in {"publish", "createTag", "pushTag", "deleteBranch"}
    /\ remote.branch[call.pr] = call.head
  => call.files = StoredFiles(call.head, PkgOf[call.pr])
CommitHoldsFiles ==
  call.step \in {"createTag", "pushTag", "deleteBranch"} =>
    LET stored == StoredFiles(call.commit, PkgOf[call.pr])
    IN  call.files \subseteq stored /\ (call.strict => stored = call.files)
TaggedBeforeDelete ==
  call.step = "deleteBranch" => remote.tag[Tag(call.pr, call.rev)] = call.commit

ContentInv ==
  /\ RestsBlank /\ WritesDrafts /\ BranchWasThere
  /\ BranchWasRead /\ CommitHoldsFiles /\ TaggedBeforeDelete

----------------------------------------------------------------------------
(* The abstract specification and the refinement mapping.  The draft of a    *)
(* package revision is what its branch on the remote holds, a release what   *)
(* its tag on the remote holds; the clone, the commits and the steps of a    *)
(* call are hidden.                                                          *)

StoreContent(c, pkg) ==
  IF c = NoRef THEN [there |-> FALSE, files |-> {}]
               ELSE [there |-> TRUE, files |-> StoredFiles(c, pkg)]
StoreDrafts   == [pr \in PRs |-> StoreContent(remote.branch[pr], PkgOf[pr])]
StoreReleases == [t \in TagNames |-> StoreContent(remote.tag[t], t[1])]

Open == call.step \notin {"idle", "done"}
StoreRequest ==
  [op |-> call.op, pr |-> call.pr, rev |-> call.rev, published |-> call.published,
   strict |-> call.strict, open |-> Open,
   files |-> IF call.op = "upsert" /\ Open THEN call.files ELSE {}]

Store == INSTANCE PackageStore
           WITH drafts <- StoreDrafts, releases <- StoreReleases, request <- StoreRequest

(* Whatever fails and however the steps of a call interleave with the pushes *)
(* of others, callers see a store of drafts and releases                     *)
(* (pkg/repository/repository.go:31): a call changes its own draft or        *)
(* release only, a release never changes while it is there, and a draft goes *)
(* only by a delete or into a release that holds its files.                  *)
ImplementsStore == Store!Spec
============================================================================
