------------------------------- MODULE Lease -------------------------------
(***************************************************************************)
(* The lease by which the controllers keep off each other's package        *)
(* revision (pkg/reconcilers/lease): a Lease object in the API server that *)
(* a controller reads through the informer cache, takes when it is its own *)
(* or has run out, and writes with the version it has read.  A lease is    *)
(* not given back and not renewed while a reconcile runs.                  *)
(*                                                                         *)
(* Time is a counter; the clock is that of the one process all controllers *)
(* run in.  It may advance between any two steps of AcquireLease.          *)
(***************************************************************************)
EXTENDS Naturals

CONSTANTS
  Holders,      \* the controllers, each reconciles the object once at a time
  NoHolder,     \* the holder of a lease that does not exist
  Duration,     \* defaultLeaseInterval
  MaxClock,     \* bound: when the clock stops
  MaxVersion    \* bound: how often the lease is written

ASSUME HoldersAssumption == NoHolder \notin Holders
ASSUME TimeAssumption ==
  Duration \in Nat /\ MaxClock \in Nat /\ MaxVersion \in Nat

VARIABLES
  lease,    \* the object in the API server
  cache,    \* the copy in the informer cache
  clock,
  proc      \* the reconcile of each controller

vars == <<lease, cache, clock, proc>>

Leases  == [holder : Holders \cup {NoHolder}, renewed : Nat, version : Nat]
NoLease == [holder |-> NoHolder, renewed |-> 0, version |-> 0]
Found(l) == l.version # 0

(* What a controller has read, and the time it has looked at the clock.     *)
Procs == [step : {"idle", "create", "check", "update", "working"},
          seen : Leases, now : Nat]
Resting == [step |-> "idle", seen |-> NoLease, now |-> 0]

TypeOK ==
  /\ lease \in Leases /\ cache \in Leases
  /\ clock \in Nat
  /\ proc \in [Holders -> Procs]

----------------------------------------------------------------------------
Goto(c, p) ==
  /\ proc' = [proc EXCEPT ![c] = p]
  /\ UNCHANGED clock

(* Mutant of Write: the version stays as it is. *)
WriteUnversioned(c, now) ==
  lease' = [holder |-> c, renewed |-> now,
            version |-> IF Found(lease) THEN lease.version ELSE 1]

Write(c, now) ==
  lease' = [holder |-> c, renewed |-> now, version |-> lease.version + 1]

(* The first Get decides whether the lease has to be created.               *)
Get(c) ==
  /\ proc[c].step = "idle"
  /\ Goto(c, [step |-> IF Found(cache) THEN "check" ELSE "create",
              seen |-> NoLease, now |-> clock])
  /\ UNCHANGED <<lease, cache>>

(* Create fails when somebody else was first: the reconcile ends.           *)
Create(c) ==
  /\ proc[c].step = "create"
  /\ \/ /\ ~ Found(lease) /\ lease.version < MaxVersion
        /\ Write(c, proc[c].now)
        /\ Goto(c, [proc[c] EXCEPT !.step = "check"])
     \/ /\ Found(lease)
        /\ UNCHANGED lease
        /\ Goto(c, Resting)
  /\ UNCHANGED cache

RunOut(l, now) == l.renewed + Duration < now

(* Mutant of Check: the lease is taken, whoever holds it. *)
CheckNothing(c) ==
  /\ proc[c].step = "check"
  /\ Goto(c, IF Found(cache)
             THEN [step |-> "update", seen |-> cache, now |-> clock]
             ELSE Resting)
  /\ UNCHANGED <<lease, cache>>

(* The second Get: somebody else's lease is taken over once it has run out. *)
Check(c) ==
  /\ proc[c].step = "check"
  /\ Goto(c, IF Found(cache) /\ (cache.holder = c \/ RunOut(cache, clock))
             THEN [step |-> "update", seen |-> cache, now |-> clock]
             ELSE Resting)
  /\ UNCHANGED <<lease, cache>>

(* Mutant of Update: the version that was read is not sent along. *)
UpdateBlindly(c) ==
  /\ proc[c].step = "update" /\ lease.version < MaxVersion
  /\ Write(c, proc[c].now)
  /\ Goto(c, [proc[c] EXCEPT !.step = "working"])
  /\ UNCHANGED cache

(* The update fails when the copy is not the latest.                        *)
Update(c) ==
  /\ proc[c].step = "update"
  /\ \/ /\ proc[c].seen.version = lease.version /\ lease.version < MaxVersion
        /\ Write(c, proc[c].now)
        /\ Goto(c, [proc[c] EXCEPT !.step = "working"])
     \/ /\ proc[c].seen.version # lease.version
        /\ UNCHANGED lease
        /\ Goto(c, Resting)
  /\ UNCHANGED cache

(* The reconcile ends, whenever that is; the lease stays.                   *)
Finish(c) ==
  /\ proc[c].step = "working"
  /\ Goto(c, Resting)
  /\ UNCHANGED <<lease, cache>>

Sync ==
  /\ cache # lease
  /\ cache' = lease
  /\ UNCHANGED <<lease, clock, proc>>

Tick ==
  /\ clock < MaxClock
  /\ clock' = clock + 1
  /\ UNCHANGED <<lease, cache, proc>>

(* The process starts again, with an up-to-date cache.                      *)
Restart ==
  /\ proc' = [c \in Holders |-> Resting]
  /\ cache' = lease
  /\ UNCHANGED <<lease, clock>>

Init ==
  /\ lease = NoLease /\ cache = NoLease
  /\ clock = 0
  /\ proc = [c \in Holders |-> Resting]

Next ==
  \/ \E c \in Holders : Get(c) \/ Create(c) \/ Check(c) \/ Update(c) \/ Finish(c)
  \/ Sync \/ Tick \/ Restart

Spec == Init /\ [][Next]_vars

----------------------------------------------------------------------------
(* Properties. *)

(* A reconcile is covered until its lease runs out. *)
Covered(c) == proc[c].step = "working" /\ clock <= proc[c].now + Duration

(* Two controllers never work on the object at once, as long as each is done *)
(* before its lease runs out: although the lease is read from a cache that   *)
(* lags behind, although two of them may find it absent or run out at the    *)
(* same time, and although the time written is older than the write.         *)
Exclusion == \A c, d \in Holders : Covered(c) /\ Covered(d) => c = d

(* A controller takes a lease from another one only after it has run out, by *)
(* the clock at that moment.                                                 *)
TakenWhenRunOut ==
  [][Found(lease) /\ lease'.holder # lease.holder
       => lease.renewed + Duration < clock]_vars

(* The inductive invariant: equal versions are equal copies, what is being   *)
(* written was checked against the copy, a covered reconcile owns the lease. *)
Copies == {NoLease, cache} \cup {proc[c].seen : c \in Holders}
CopiesAgree ==
  \A l \in Copies : /\ l.version <= lease.version
                    /\ l.version = lease.version => l = lease
CheckedBeforeUpdate ==
  \A c \in Holders : proc[c].step = "update" =>
    /\ Found(proc[c].seen)
    /\ proc[c].seen.holder = c \/ RunOut(proc[c].seen, proc[c].now)
NowIsPast == \A c \in Holders : proc[c].now <= clock
CoveredOwns ==
  \A c \in Holders : Covered(c) =>
    Found(lease) /\ lease.holder = c /\ lease.renewed = proc[c].now

LeaseInv == TypeOK /\ CopiesAgree /\ CheckedBeforeUpdate /\ NowIsPast /\ CoveredOwns
============================================================================
