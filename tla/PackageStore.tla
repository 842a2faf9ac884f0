---------------------------- MODULE PackageStore ----------------------------
(***************************************************************************)
(* What a repository promises to those who call it (pkg/repository, the    *)
(* Repository interface): it holds drafts, one per package revision, and   *)
(* releases, one per package and revision number, and serves one request   *)
(* at a time.  How it does that - a remote, a clone, references, commits,  *)
(* several exchanges per request any of which may fail - is the business   *)
(* of module GitRepository, which is shown to implement this module.       *)
(*                                                                         *)
(* A request may end at any time without having done its work, and may do  *)
(* its work without its caller being told.  The promise is about what it   *)
(* can not do: touch anything else, change a release that is there, or let *)
(* a draft go that is not released.                                        *)
(***************************************************************************)
EXTENDS Naturals

CONSTANTS PRs, NoPR, Packages, PkgOf, Files, MaxRev

VARIABLES
  drafts,    \* the content of the draft of every package revision
  releases,  \* the content of every release
  request    \* the request that is served, or was and whose caller still waits

vars == <<drafts, releases, request>>

Releases == Packages \X (1 .. MaxRev)
Missing  == [there |-> FALSE, files |-> {}]
Content(files) == [there |-> TRUE, files |-> files]

NoRequest == [op |-> "none", pr |-> NoPR, rev |-> 0, published |-> FALSE,
              strict |-> FALSE, files |-> {}, open |-> FALSE]
Requests ==
  [op : {"upsert", "ensure", "delete", "list", "get"}, pr : PRs, rev : 0 .. MaxRev,
   published : BOOLEAN, strict : BOOLEAN, files : SUBSET Files, open : {TRUE}]

Release  == <<PkgOf[request.pr], request.rev>>
Answered == [op |-> request.op, pr |-> request.pr, rev |-> request.rev,
             published |-> request.published, strict |-> request.strict,
             files |-> {}, open |-> FALSE]

(* A step of the request: it goes on afterwards, or is over.                 *)
Serve(op) ==
  /\ request.open /\ request.op = op
  /\ request' \in {request, Answered}

Accept ==
  /\ request = NoRequest
  /\ request' \in Requests
  /\ UNCHANGED <<drafts, releases>>

(* The request ends without doing (more of) its work. *)
Answer ==
  /\ request.open
  /\ request' = Answered
  /\ UNCHANGED <<drafts, releases>>

(* The caller takes the answer, or the process dies with the request. *)
Forget ==
  /\ request' = NoRequest
  /\ UNCHANGED <<drafts, releases>>

(* UpsertPackageRevision stores the files in the draft: those and no others  *)
(* under the strict update policy.                                           *)
Write ==
  /\ Serve("upsert") /\ request.rev = 0 /\ ~ request.published
  /\ \E files \in SUBSET Files :
       /\ request.files \subseteq files
       /\ request.strict => files = request.files
       /\ drafts' = [drafts EXCEPT ![request.pr] = Content(files)]
  /\ UNCHANGED releases

(* EnsurePackageRevision makes a release that is not there. *)
Publish ==
  /\ Serve("ensure") /\ ~ releases[Release].there
  /\ \E files \in SUBSET Files :
       releases' = [releases EXCEPT ![Release] = Content(files)]
  /\ UNCHANGED drafts

(* And lets the draft go when the release has its files: those and no others *)
(* under the strict update policy.                                           *)
Retire ==
  /\ Serve("ensure") /\ releases[Release].there
  /\ drafts[request.pr].files \subseteq releases[Release].files
  /\ request.strict => drafts[request.pr].files = releases[Release].files
  /\ drafts' = [drafts EXCEPT ![request.pr] = Missing]
  /\ UNCHANGED releases

(* DeletePackageRevision. *)
DiscardDraft ==
  /\ Serve("delete") /\ request.rev = 0
  /\ drafts' = [drafts EXCEPT ![request.pr] = Missing]
  /\ UNCHANGED releases
Withdraw ==
  /\ Serve("delete") /\ request.rev # 0
  /\ releases' = [releases EXCEPT ![Release] = Missing]
  /\ UNCHANGED drafts

(* Somebody else changes a draft that is there. *)
Edit ==
  /\ \E pr \in PRs, files \in SUBSET Files :
       /\ drafts[pr].there
       /\ drafts' = [drafts EXCEPT ![pr] = Content(files)]
  /\ UNCHANGED <<releases, request>>

Init ==
  /\ drafts = [pr \in PRs |-> Missing]
  /\ releases = [t \in Releases |-> Missing]
  /\ request = NoRequest

Next ==
  \/ Accept \/ Answer \/ Forget
  \/ Write \/ Publish \/ Retire \/ DiscardDraft \/ Withdraw \/ Edit

Spec == Init /\ [][Next]_vars
=============================================================================
