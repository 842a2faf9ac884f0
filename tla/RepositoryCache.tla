-------------------------- MODULE RepositoryCache --------------------------
(***************************************************************************)
(* The repositories the package server has open (pkg/cache), how one is    *)
(* opened and closed in the cache directory (pkg/git/pkg), and the         *)
(* controller that keeps a Repository object's repository open until the   *)
(* object is deleted (pkg/reconcilers/repository).                         *)
(*                                                                         *)
(* Open is called by the controller and by every other user of git: the    *)
(* packagerevision controller and the requests for package resources.  No  *)
(* lock covers it, so its steps interleave with those of the others and    *)
(* with Close.  A repository is stored under a key made of its URL and     *)
(* directory; its clone is in a directory named by the URL alone.          *)
(***************************************************************************)
EXTENDS FiniteSets, Naturals

CONSTANTS
  Repos,         \* Repository objects
  Specs,         \* what users write into one: spec.git and spec.deployment
  Keys, KeyOf,   \* the key of a spec: URL and directory in it; None: not valid
  Dirs, DirOf,   \* the cache directory of a key: by URL
  Deployments,   \* the specs with spec.deployment, which are not scanned
  Controller,    \* the reconcile of the Repository controller
  Requests,      \* the other callers of Open
  None,
  Published,     \* keys under which somebody has published a package revision in git
  MaxRequests,   \* bound: calls of Open by others than the controller
  MaxEdits,      \* bound: Repository objects that users create, and changes of a spec
  MaxFaults      \* bound: failed fetches and file operations, and restarts

Callers == {Controller} \cup Requests

ASSUME KeysAssumption ==
  KeyOf \in [Specs -> Keys \cup {None}] /\ DirOf \in [Keys -> Dirs] /\ None \notin Keys
ASSUME CallersAssumption == Controller \notin Requests /\ None \notin Callers \cup Repos
ASSUME RepositoryBoundsAssumption ==
  MaxRequests \in Nat /\ MaxEdits \in Nat /\ MaxFaults \in Nat
ASSUME DeploymentsAssumption == Deployments \subseteq Specs /\ Published \subseteq Keys

VARIABLES
  objects,    \* the Repository objects that are stored
  entry,      \* the store of open repositories: who opened it, for which object
  clones,     \* what every directory holds: nothing, a clone, or half of one
  closed,     \* the keys whose stored repository was closed
  moved,      \* the keys that a Repository had until its spec was changed
  scanners,   \* the scanner goroutines that run: by whom started, for which key
  calls,      \* where every caller is
  found,      \* keys whose published package revision is an object
  requests, edits, faults

vars == <<objects, entry, closed, moved, clones, scanners, calls, found, requests, edits,
          faults>>

Absent == [there |-> FALSE, finalizer |-> FALSE, deleting |-> FALSE, ready |-> FALSE,
           spec |-> None]
New(spec) == [Absent EXCEPT !.there = TRUE, !.spec = spec]
NoEntry == [by |-> None, for |-> None, spec |-> None]
Idle   == [step |-> "idle", repo |-> None, spec |-> None, cleanup |-> FALSE, fresh |-> FALSE,
           answer |-> NoEntry]

Objects == [there : BOOLEAN, finalizer : BOOLEAN, deleting : BOOLEAN, ready : BOOLEAN,
            spec : Specs \cup {None}]
Entries == [by : Callers \cup {None}, for : Repos \cup {None}, spec : Specs \cup {None}]
Steps   == {"idle", "get", "stat", "init", "make", "fetch", "store", "cleanup", "failed",
            "opened", "remove", "cancel", "release"}

TypeOK ==
  /\ objects \in [Repos -> Objects]
  /\ entry \in [Keys -> Entries]
  /\ closed \in SUBSET Keys /\ moved \in SUBSET Keys
  /\ clones \in [Dirs -> {"none", "half", "made"}]
  /\ scanners \in SUBSET (Callers \X Keys)
  /\ calls \in [Callers -> [step : Steps, repo : Repos \cup {None}, spec : Specs \cup {None},
                            cleanup : BOOLEAN, fresh : BOOLEAN, answer : Entries]]
  /\ found \in SUBSET Published
  /\ requests \in 0 .. MaxRequests /\ edits \in 0 .. MaxEdits
  /\ faults \in 0 .. MaxFaults

Key(c)  == KeyOf[calls[c].spec]
Dir(c)  == DirOf[Key(c)]
At(c, step) == calls[c].step = step
Goto(c, step) == calls' = [calls EXCEPT ![c].step = step]
Stored(k) == entry[k].by # None
Mine(c) == [by |-> c, for |-> calls[c].repo, spec |-> calls[c].spec]

Fault == faults < MaxFaults /\ faults' = faults + 1
(* What is left of a directory when its removal fails.                       *)
Remains(d) == {clones[d], IF clones[d] = "none" THEN "none" ELSE "half"}

----------------------------------------------------------------------------
(* Cache.Open and OpenRepository. *)

(* The spec is validated, then the stored repository is looked up.           *)
Get(c) ==
  /\ At(c, "get")
  /\ calls' = CASE Key(c) = None -> [calls EXCEPT ![c].step = "failed"]
                [] Key(c) # None /\ Stored(Key(c)) ->
                     [calls EXCEPT ![c].step = "opened", ![c].answer = entry[Key(c)]]
                [] OTHER -> [calls EXCEPT ![c].step = "stat"]
  /\ UNCHANGED <<objects, entry, closed, moved, clones, scanners, found, requests, edits,
                 faults>>

(* Is the directory there?  If so, it is opened and never cleaned up; half a *)
(* clone cannot be opened.  When nobody can tell, that is an error, and      *)
(* errors clean up the directory.                                            *)
Stat(c) ==
  /\ At(c, "stat")
  /\ \/ /\ calls' = CASE clones[Dir(c)] = "made" -> [calls EXCEPT ![c].step = "fetch"]
                      [] clones[Dir(c)] = "half" -> [calls EXCEPT ![c].step = "failed"]
                      [] OTHER -> [calls EXCEPT ![c].step = "init", ![c].cleanup = TRUE]
        /\ UNCHANGED faults
     \/ /\ Fault
        /\ calls' = [calls EXCEPT ![c].step = "cleanup", ![c].cleanup = TRUE]
  /\ UNCHANGED <<objects, entry, closed, moved, clones, scanners, found, requests, edits>>

(* An empty repository is made, unless somebody has made it meanwhile: that  *)
(* is an error.  It is no repository before all its files are written.       *)
InitClone(c) ==
  /\ At(c, "init")
  /\ \/ /\ clones[Dir(c)] # "made"
        /\ clones' = [clones EXCEPT ![Dir(c)] = "half"]
        /\ Goto(c, "make")
        /\ UNCHANGED faults
     \/ /\ (clones[Dir(c)] = "made" /\ UNCHANGED faults) \/ Fault
        /\ Goto(c, "cleanup")
        /\ UNCHANGED clones
  /\ UNCHANGED <<objects, entry, closed, moved, scanners, found, requests, edits>>

MakeClone(c) ==
  /\ At(c, "make")
  /\ \/ /\ clones' = [clones EXCEPT ![Dir(c)] = "made"]
        /\ Goto(c, "fetch")
        /\ UNCHANGED faults
     \/ /\ Fault
        /\ Goto(c, "cleanup")
        /\ UNCHANGED clones
  /\ UNCHANGED <<objects, entry, closed, moved, scanners, found, requests, edits>>

(* Mutant of FetchClone: a directory that was found is cleaned up as well.   *)
FetchOrCleanup(c) ==
  /\ At(c, "fetch")
  /\ \/ /\ clones[Dir(c)] = "made" /\ UNCHANGED faults
        /\ Goto(c, "store")
     \/ /\ (clones[Dir(c)] # "made" /\ UNCHANGED faults) \/ Fault
        /\ Goto(c, "cleanup")
  /\ UNCHANGED <<objects, entry, closed, moved, clones, scanners, found, requests, edits>>

(* The fetch fails when the remote does, and when the clone is gone.         *)
FetchClone(c) ==
  /\ At(c, "fetch")
  /\ \/ /\ clones[Dir(c)] = "made" /\ UNCHANGED faults
        /\ Goto(c, "store")
     \/ /\ (clones[Dir(c)] # "made" /\ UNCHANGED faults) \/ Fault
        /\ Goto(c, IF calls[c].cleanup THEN "cleanup" ELSE "failed")
  /\ UNCHANGED <<objects, entry, closed, moved, clones, scanners, found, requests, edits>>

(* The deferred clean-up; nobody learns that it failed.                      *)
Cleanup(c) ==
  /\ At(c, "cleanup")
  /\ \/ clones' = [clones EXCEPT ![Dir(c)] = "none"] /\ UNCHANGED faults
     \/ Fault /\ \E left \in Remains(Dir(c)) : clones' = [clones EXCEPT ![Dir(c)] = left]
  /\ Goto(c, "failed")
  /\ UNCHANGED <<objects, entry, closed, moved, scanners, found, requests, edits>>

(* Mutant of Store: what is stored is replaced.                              *)
StoreAlways(c) ==
  /\ At(c, "store")
  /\ scanners' = IF calls[c].spec \in Deployments THEN scanners
                 ELSE scanners \cup {<<c, Key(c)>>}
  /\ entry' = [entry EXCEPT ![Key(c)] = Mine(c)]
  /\ calls' = [calls EXCEPT ![c].step = "opened", ![c].answer = Mine(c)]
  /\ UNCHANGED <<objects, closed, moved, clones, found, requests, edits, faults>>

(* newCachedRepository starts the scanner, then the repository is stored: an *)
(* error if somebody else has stored one, and then the scanner goes on.      *)
Store(c) ==
  /\ At(c, "store")
  /\ scanners' = IF calls[c].spec \in Deployments THEN scanners
                 ELSE scanners \cup {<<c, Key(c)>>}
  /\ \/ /\ ~ Stored(Key(c))
        /\ entry' = [entry EXCEPT ![Key(c)] = Mine(c)]
        /\ calls' = [calls EXCEPT ![c].step = "opened", ![c].answer = Mine(c)]
     \/ /\ Stored(Key(c))
        /\ Goto(c, "failed")
        /\ UNCHANGED entry
  /\ UNCHANGED <<objects, closed, moved, clones, found, requests, edits, faults>>

OpenStep(c) == \/ Get(c) \/ Stat(c) \/ InitClone(c) \/ MakeClone(c)
               \/ FetchClone(c) \/ Cleanup(c) \/ Store(c)

(* A call works on the object as it was read.                                *)
Asking(c, r) == [Idle EXCEPT !.step = "get", !.repo = r, !.spec = objects[r].spec,
                             !.fresh = (c = Controller)]

----------------------------------------------------------------------------
(* The other callers: the packagerevision controller and the requests for    *)
(* resources.  They look the Repository up, deleted or not.  When a request  *)
(* ends so does its context, and with it the scanner it started; that of the *)
(* controller goes on.                                                       *)
Ask(c, r) ==
  /\ c \in Requests /\ At(c, "idle") /\ objects[r].there
  /\ requests < MaxRequests /\ requests' = requests + 1
  /\ calls' = [calls EXCEPT ![c] = Asking(c, r)]
  /\ UNCHANGED <<objects, entry, closed, moved, clones, scanners, found, edits, faults>>

EndRequest(c) ==
  /\ c \in Requests /\ calls[c].step \in {"opened", "failed"}
  /\ calls' = [calls EXCEPT ![c] = Idle]
  /\ scanners' \in {scanners, {s \in scanners : s[1] # c}}
  /\ UNCHANGED <<objects, entry, closed, moved, clones, found, requests, edits, faults>>

----------------------------------------------------------------------------
(* The Repository controller: one reconcile at a time.  It comes back to     *)
(* every Repository that is there, at the latest after a minute.             *)

(* Mutant of Reconcile: no finalizer.                                        *)
ReconcileUnheld(r) ==
  /\ At(Controller, "idle") /\ objects[r].there /\ ~ objects[r].deleting
  /\ calls' = [calls EXCEPT ![Controller] = Asking(Controller, r)]
  /\ UNCHANGED <<objects, entry, closed, moved, clones, scanners, found, requests, edits, faults>>

(* The finalizer first, then Open. *)
Reconcile(r) ==
  /\ At(Controller, "idle") /\ objects[r].there /\ ~ objects[r].deleting
  /\ objects' = [objects EXCEPT ![r].finalizer = TRUE]
  /\ calls' = [calls EXCEPT ![Controller] = Asking(Controller, r)]
  /\ UNCHANGED <<entry, closed, moved, clones, scanners, found, requests, edits, faults>>

(* The status is written unless the object has changed since it was read; a  *)
(* failure is written too, and everything is tried again.                    *)
Report ==
  LET r == calls[Controller].repo
  IN  /\ calls[Controller].step \in {"opened", "failed"}
      /\ objects' = IF calls[Controller].fresh
                    THEN [objects EXCEPT ![r].ready = At(Controller, "opened")]
                    ELSE objects
      /\ calls' = [calls EXCEPT ![Controller] = Idle]
      /\ UNCHANGED <<entry, closed, moved, clones, scanners, found, requests, edits, faults>>

ReconcileDeleted(r) ==
  /\ At(Controller, "idle") /\ objects[r].there /\ objects[r].deleting
  /\ calls' = [calls EXCEPT ![Controller] = [Asking(Controller, r) EXCEPT !.step = "remove"]]
  /\ UNCHANGED <<objects, entry, closed, moved, clones, scanners, found, requests, edits,
                 faults>>

(* Cache.Close: the directory goes, whoever else has its clone in it; the    *)
(* scanner of the stored repository is stopped; the entry stays.  What is    *)
(* not valid any more, or cannot be removed, is not closed.                  *)
Remove ==
  LET d == Dir(Controller)
  IN  /\ At(Controller, "remove")
      /\ \/ /\ Key(Controller) = None
            /\ Goto(Controller, "failed")
            /\ UNCHANGED <<clones, faults>>
         \/ /\ Key(Controller) # None
            /\ clones' = [clones EXCEPT ![d] = "none"]
            /\ Goto(Controller, "cancel")
            /\ UNCHANGED faults
         \/ /\ Key(Controller) # None /\ Fault
            /\ \E left \in Remains(d) : clones' = [clones EXCEPT ![d] = left]
            /\ Goto(Controller, "failed")
      /\ UNCHANGED <<objects, entry, closed, moved, scanners, found, requests, edits>>

(* Mutant of Cancel: what is not open cannot be closed, that is an error.    *)
CancelOrFail ==
  LET k == Key(Controller)
  IN  /\ At(Controller, "cancel")
      /\ scanners' = scanners \ {<<entry[k].by, k>>}
      /\ closed' = IF Stored(k) THEN closed \cup {k} ELSE closed
      /\ Goto(Controller, IF Stored(k) THEN "release" ELSE "failed")
      /\ UNCHANGED <<objects, entry, moved, clones, found, requests, edits, faults>>

(* Mutant of Cancel: the scanner is left running.                            *)
CancelNothing ==
  /\ At(Controller, "cancel")
  /\ Goto(Controller, "release")
  /\ UNCHANGED <<objects, entry, closed, moved, clones, scanners, found, requests, edits,
                 faults>>

Cancel ==
  LET k == Key(Controller)
  IN  /\ At(Controller, "cancel")
      /\ scanners' = scanners \ {<<entry[k].by, k>>}
      /\ closed' = IF Stored(k) THEN closed \cup {k} ELSE closed
      /\ Goto(Controller, "release")
      /\ UNCHANGED <<objects, entry, moved, clones, found, requests, edits, faults>>

(* The finalizer, unless the object has changed since it was read.           *)
Release ==
  /\ At(Controller, "release")
  /\ objects' = IF calls[Controller].fresh
                THEN [objects EXCEPT ![calls[Controller].repo] = Absent] ELSE objects
  /\ calls' = [calls EXCEPT ![Controller] = Idle]
  /\ UNCHANGED <<entry, closed, moved, clones, scanners, found, requests, edits, faults>>

----------------------------------------------------------------------------
(* Mutant of Scan: a pass that fails is the last one.                        *)
ScanOrStop(s) ==
  /\ s \in scanners
  /\ \/ /\ clones[DirOf[s[2]]] = "made"
        /\ s[2] \in Published \ found
        /\ found' = found \cup {s[2]}
        /\ UNCHANGED scanners
     \/ /\ clones[DirOf[s[2]]] # "made"
        /\ scanners' = scanners \ {s}
        /\ UNCHANGED found
  /\ UNCHANGED <<objects, entry, closed, moved, clones, calls, requests, edits, faults>>

(* A pass of a scanner: what git holds and has no object gets one.  Without  *)
(* a clone the pass fails and the next one is tried later.                   *)
Scan(s) ==
  /\ s \in scanners /\ clones[DirOf[s[2]]] = "made"
  /\ s[2] \in Published \ found
  /\ found' = found \cup {s[2]}
  /\ UNCHANGED <<objects, entry, closed, moved, clones, scanners, calls, requests, edits,
                 faults>>

UserCreate(r) ==
  /\ ~ objects[r].there /\ edits < MaxEdits
  /\ edits' = edits + 1
  /\ \E spec \in Specs : objects' = [objects EXCEPT ![r] = New(spec)]
  /\ UNCHANGED <<entry, closed, moved, clones, scanners, calls, found, requests, faults>>

(* What was read of r is not what is stored any more.                        *)
Stale(r) ==
  calls' = [c \in Callers |-> IF calls[c].repo = r THEN [calls[c] EXCEPT !.fresh = FALSE]
                                                   ELSE calls[c]]

(* Nothing keeps users from changing the spec, even that of a Repository     *)
(* that is being deleted.                                                    *)
UserChange(r) ==
  /\ objects[r].there /\ edits < MaxEdits
  /\ edits' = edits + 1
  /\ \E spec \in Specs \ {objects[r].spec} :
       /\ objects' = [objects EXCEPT ![r].spec = spec]
       /\ moved' = moved \cup ({KeyOf[objects[r].spec]} \ {KeyOf[spec], None})
  /\ Stale(r)
  /\ UNCHANGED <<entry, closed, clones, scanners, found, requests, faults>>

(* An object without a finalizer goes at once. *)
UserDelete(r) ==
  /\ objects[r].there /\ ~ objects[r].deleting
  /\ objects' = [objects EXCEPT ![r] =
                   IF @.finalizer THEN [@ EXCEPT !.deleting = TRUE] ELSE Absent]
  /\ Stale(r)
  /\ UNCHANGED <<entry, closed, moved, clones, scanners, found, requests, edits, faults>>

(* The process starts again, with its cache directory or without. *)
Restart ==
  /\ Fault
  /\ entry' = [k \in Keys |-> NoEntry]
  /\ clones' \in {clones, [d \in Dirs |-> "none"]}
  /\ closed' = {} /\ moved' = {} /\ scanners' = {}
  /\ calls' = [c \in Callers |-> Idle]
  /\ UNCHANGED <<objects, found, requests, edits>>

Init ==
  /\ objects = [r \in Repos |-> Absent]
  /\ entry = [k \in Keys |-> NoEntry]
  /\ clones = [d \in Dirs |-> "none"]
  /\ closed = {} /\ moved = {} /\ scanners = {}
  /\ calls = [c \in Callers |-> Idle]
  /\ found = {}
  /\ requests = 0 /\ edits = 0 /\ faults = 0

ControllerNext ==
  \/ \E r \in Repos : Reconcile(r) \/ ReconcileDeleted(r)
  \/ Report \/ Remove \/ Cancel \/ Release

Next ==
  \/ ControllerNext
  \/ \E c \in Callers : OpenStep(c) \/ EndRequest(c) \/ \E r \in Repos : Ask(c, r)
  \/ \E s \in Callers \X Keys : Scan(s)
  \/ \E r \in Repos : UserCreate(r) \/ UserChange(r) \/ UserDelete(r)
  \/ Restart

Spec == Init /\ [][Next]_vars

(* The work queue of the controller is worked off and gets every Repository  *)
(* again; a call goes on by itself; a scanner sleeps and passes again.       *)
Fairness ==
  /\ \A r \in Repos : SF_vars(Reconcile(r)) /\ SF_vars(ReconcileDeleted(r))
  /\ WF_vars(Report \/ Remove \/ Cancel \/ Release)
  /\ \A c \in Callers : WF_vars(OpenStep(c)) /\ WF_vars(EndRequest(c))
  /\ \A s \in Callers \X Keys : WF_vars(Scan(s))
FairSpec == Spec /\ Fairness

----------------------------------------------------------------------------
(* Properties. *)

(* All who have a repository of one key have one and the same, the one that  *)
(* is stored, and so share its mutex: Get and Create are two steps of Open,  *)
(* with a clone in between, and Close does not take the entry out.           *)
OneRepository ==
  \A c \in Callers : calls[c].answer # NoEntry => calls[c].answer = entry[Key(c)]

(* A clone in use by a stored repository goes with a Close, with a restart,  *)
(* or with an Open that looked for the directory before it was there, or in  *)
(* vain: a failing Open of somebody who came later, a retry above all, keeps *)
(* it.                                                                       *)
ClonesAreKept ==
  [][\A k \in Keys :
       Stored(k) /\ clones[DirOf[k]] = "made" /\ clones'[DirOf[k]] # "made"
       => \/ At(Controller, "remove") /\ Key(Controller) # None /\ Dir(Controller) = DirOf[k]
          \/ entry' = [i \in Keys |-> NoEntry]
          \/ \E c \in Callers : At(c, "cleanup") /\ calls[c].cleanup /\ Dir(c) = DirOf[k]]_vars

(* The scanner of a repository that the controller opened and stored for a   *)
(* Repository stops before the Repository goes, if its spec still has that   *)
(* key: the finalizer is set before Open and removed after Close             *)
(* (Reconcile), wherever the user's delete comes in between.                 *)
ScannerStops ==
  \A k \in Keys \ moved :
    entry[k].by = Controller /\ ~ objects[entry[k].for].there
    => <<Controller, k>> \notin scanners

(* The inductive invariant: who holds an answer or an entry asked for that   *)
(* key; a Repository the controller works on or has opened has the           *)
(* finalizer, and the key, as long as its scanner runs.                      *)
Opening == {"stat", "init", "make", "fetch", "store"}
Closing == {"remove", "cancel", "release"}
CallsAsk ==
  \A c \in Callers :
    /\ calls[c].step # "idle" => calls[c].repo \in Repos /\ calls[c].spec \in Specs
    /\ calls[c].step \in Opening \cup {"cleanup", "opened", "cancel", "release"}
       => Key(c) # None
    /\ calls[c].answer # NoEntry => calls[c].step = "opened" /\ Stored(Key(c))
    /\ calls[c].step \in {"init", "make", "cleanup"} => calls[c].cleanup
    /\ c \in Requests => calls[c].step \notin Closing
EntriesAsked ==
  \A k \in Keys : Stored(k) =>
    entry[k].for \in Repos /\ entry[k].spec \in Specs /\ KeyOf[entry[k].spec] = k
ControllerHolds ==
  LET call == calls[Controller]
  IN  /\ call.step # "idle" =>
           /\ objects[call.repo].there /\ objects[call.repo].finalizer
           /\ Key(Controller) \in moved \cup {None, KeyOf[objects[call.repo].spec]}
           /\ call.fresh => call.spec = objects[call.repo].spec
      /\ call.step \in Closing => objects[call.repo].deleting
      /\ call.step \in Opening => entry[Key(Controller)].by # Controller
ObjectsHeld ==
  \A r \in Repos :
    /\ objects[r].there => objects[r].spec \in Specs
    /\ objects[r].deleting => objects[r].there /\ objects[r].finalizer
ScannedIsHeld ==
  \A k \in Keys \ moved :
    entry[k].by = Controller /\ <<Controller, k>> \in scanners
    => LET o == objects[entry[k].for]
       IN  o.there /\ o.finalizer /\ KeyOf[o.spec] = k
CancelledFirst ==
  LET call == calls[Controller]
  IN  call.step = "release" /\ call.fresh => \A k \in Keys \ moved :
        entry[k].by = Controller /\ entry[k].for = call.repo
        => <<Controller, k>> \notin scanners
CacheInv ==
  /\ TypeOK /\ OneRepository
  /\ CallsAsk /\ EntriesAsked /\ ControllerHolds /\ ObjectsHeld
  /\ ScannedIsHeld /\ CancelledFirst

(* Half a clone that nobody is about to complete: a crash came in between,   *)
(* or a removal failed.                                                      *)
LeftHalf(d) ==
  clones[d] = "half" /\ ~ \E c \in Callers : At(c, "make") /\ Dir(c) = d

(* Whatever others opened, failed to open or removed before, and after a     *)
(* restart: a Repository that stays gets ready, unless half a clone is left  *)
(* in its directory (pkg/git/pkg/git.go:110-113), and one that is deleted    *)
(* goes, unless its spec is not valid any more (pkg/cache/cache.go:125-127). *)
Settles ==
  \A r \in Repos :
    (objects[r].there /\ (objects[r].deleting \/ ~ objects[r].ready))
    ~> \/ ~ objects[r].there \/ KeyOf[objects[r].spec] = None
       \/ ~ objects[r].deleting
            /\ (objects[r].ready \/ LeftHalf(DirOf[KeyOf[objects[r].spec]]))

(* What is published in the git of a Repository that is ready is found, also *)
(* after a restart and after the clone was away for a while, unless somebody *)
(* else opened the repository first, or for a deployment, or it was closed   *)
(* once, or its clone is gone or half made: nobody opens what is stored      *)
(* again.                                                                    *)
Discovered ==
  \A r \in Repos, k \in Published :
    LET Serves == /\ objects[r].there /\ ~ objects[r].deleting
                  /\ objects[r].spec \in Specs \ Deployments /\ KeyOf[objects[r].spec] = k
    IN  (Serves /\ objects[r].ready)
        ~> \/ k \in found \/ ~ Serves \/ k \in closed
           \/ entry[k].spec \in Deployments
           \/ entry[k].by \in Requests /\ <<entry[k].by, k>> \notin scanners
           \/ Stored(k) /\ clones[DirOf[k]] # "made"
           \/ LeftHalf(DirOf[k])
=============================================================================
