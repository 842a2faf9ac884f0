---------------------------- MODULE LeaseProofs ----------------------------
(* Proofs about Lease: the invariant is inductive, and covered reconciles    *)
(* exclude each other for any number of controllers and any lease duration.  *)
EXTENDS Lease, TLAPS

(* The initial state: no lease, every controller resting.                    *)
LEMMA LeaseInitInv == Init => LeaseInv
  BY HoldersAssumption, TimeAssumption
  DEF Init, LeaseInv, TypeOK, Leases, NoLease, Procs, Resting, CopiesAgree, Copies,
      CheckedBeforeUpdate, NowIsPast, CoveredOwns, Covered

(* The lease a controller writes is its own, newer than every copy.          *)
LEMMA WriteIsNewest ==
  ASSUME LeaseInv, NEW c \in Holders, NEW now \in Nat, Write(c, now)
  PROVE  /\ lease' \in Leases
         /\ lease'.holder = c /\ lease'.renewed = now
         /\ \A l \in Copies : l.version < lease'.version
<1>1. lease \in Leases /\ \A l \in Copies : l.version <= lease.version
  BY DEF LeaseInv, TypeOK, CopiesAgree
<1>2. \A l \in Copies : l.version \in Nat
  BY DEF Copies, LeaseInv, TypeOK, Procs, Leases, NoLease
<1>3. /\ lease' \in Leases
      /\ lease'.holder = c /\ lease'.renewed = now
      /\ lease'.version = lease.version + 1
  BY <1>1 DEF Write, Leases
<1> QED BY <1>1, <1>2, <1>3 DEF Leases

(* What a controller may become while the lease and the copy in the cache    *)
(* stay as they are.                                                         *)
LEMMA StepAlone ==
  ASSUME LeaseInv, NEW c \in Holders, NEW p \in Procs,
         Goto(c, p), UNCHANGED <<lease, cache>>,
         p.step # "working", p.now <= clock, p.seen \in Copies,
         p.step = "update" => /\ Found(p.seen)
                              /\ p.seen.holder = c \/ RunOut(p.seen, p.now)
  PROVE  LeaseInv'
<1>1. TypeOK'
  BY DEF LeaseInv, TypeOK, Goto
<1>2. proc'[c] = p /\ \A d \in Holders : d # c => proc'[d] = proc[d]
  BY DEF LeaseInv, TypeOK, Goto
<1>3. CopiesAgree'
  BY <1>2 DEF LeaseInv, CopiesAgree, Copies, NoLease
<1>4. CheckedBeforeUpdate'
  BY <1>2 DEF LeaseInv, CheckedBeforeUpdate, Found, RunOut
<1>5. NowIsPast'
  BY <1>2 DEF LeaseInv, NowIsPast, Goto
<1>6. CoveredOwns'
  BY <1>2 DEF LeaseInv, CoveredOwns, Covered, Goto, Found
<1> QED BY <1>1, <1>3, <1>4, <1>5, <1>6 DEF LeaseInv

(* Every action preserves the invariant.                                     *)
LEMMA LeaseNextInv == LeaseInv /\ [Next]_vars => LeaseInv'
<1> SUFFICES ASSUME LeaseInv, [Next]_vars PROVE LeaseInv'
  OBVIOUS
<1> USE HoldersAssumption, TimeAssumption
<1>0. Resting \in Procs /\ Resting.seen \in Copies /\ Resting.now <= clock
  BY DEF Resting, Procs, NoLease, Leases, Copies, LeaseInv, TypeOK
<1>1. ASSUME NEW c \in Holders, Get(c) PROVE LeaseInv'
  <2> DEFINE p == [step |-> IF Found(cache) THEN "check" ELSE "create",
                   seen |-> NoLease, now |-> clock]
  <2>1. p \in Procs /\ p.step \notin {"working", "update"} /\ p.now <= clock
    BY DEF LeaseInv, TypeOK, Procs, NoLease, Leases
  <2>2. p.seen \in Copies
    BY DEF Copies
  <2> QED BY <1>1, <2>1, <2>2, StepAlone DEF Get
<1>2. ASSUME NEW c \in Holders, Create(c) PROVE LeaseInv'
  <2>1. CASE ~ Found(lease) /\ Write(c, proc[c].now)
                /\ Goto(c, [proc[c] EXCEPT !.step = "check"]) /\ UNCHANGED cache
    <3>0. proc[c] \in Procs /\ proc[c].now \in Nat
      BY DEF LeaseInv, TypeOK, Procs
    <3>1. /\ lease' \in Leases
          /\ \A l \in Copies : l.version < lease'.version
      BY <2>1, <3>0, WriteIsNewest
    <3>2. TypeOK'
      BY <2>1, <3>0, <3>1 DEF Goto, LeaseInv, TypeOK, Procs
    <3>3. Copies' = Copies
      BY <2>1, <3>0 DEF Goto, Copies, LeaseInv, TypeOK, Procs
    <3>4. CopiesAgree'
      <4>1. \A l \in Copies : l.version \in Nat
        BY DEF Copies, LeaseInv, TypeOK, Procs, Leases, NoLease
      <4> QED BY <3>1, <3>3, <4>1 DEF CopiesAgree, Leases
    <3>5. CheckedBeforeUpdate' /\ NowIsPast'
      BY <2>1, <3>0 DEF Goto, LeaseInv, TypeOK, Procs, CheckedBeforeUpdate, NowIsPast
    <3>6. CoveredOwns'
      BY <2>1, <3>0 DEF Goto, LeaseInv, TypeOK, Procs, CoveredOwns, Covered
    <3> QED BY <3>2, <3>4, <3>5, <3>6 DEF LeaseInv
  <2>2. CASE Goto(c, Resting) /\ UNCHANGED <<lease, cache>>
    BY <1>0, <2>2, StepAlone DEF Resting
  <2> QED BY <1>2, <2>1, <2>2 DEF Create
<1>3. ASSUME NEW c \in Holders, Check(c) PROVE LeaseInv'
  <2>1. CASE /\ Goto(c, [step |-> "update", seen |-> cache, now |-> clock])
             /\ Found(cache) /\ (cache.holder = c \/ RunOut(cache, clock))
             /\ UNCHANGED <<lease, cache>>
    <3> DEFINE p == [step |-> "update", seen |-> cache, now |-> clock]
    <3>1. p \in Procs /\ p.seen \in Copies /\ p.now <= clock
      BY DEF LeaseInv, TypeOK, Procs, Copies
    <3> QED BY <2>1, <3>1, StepAlone
  <2>2. CASE Goto(c, Resting) /\ UNCHANGED <<lease, cache>>
    BY <1>0, <2>2, StepAlone DEF Resting
  <2> QED BY <1>3, <2>1, <2>2 DEF Check
<1>4. ASSUME NEW c \in Holders, Update(c) PROVE LeaseInv'
  <2>1. CASE /\ proc[c].step = "update" /\ proc[c].seen.version = lease.version
             /\ Write(c, proc[c].now)
             /\ Goto(c, [proc[c] EXCEPT !.step = "working"]) /\ UNCHANGED cache
    <3>0. proc[c] \in Procs /\ proc[c].now \in Nat /\ clock \in Nat
      BY DEF LeaseInv, TypeOK, Procs
    <3>1. /\ lease' \in Leases /\ lease'.holder = c /\ lease'.renewed = proc[c].now
          /\ \A l \in Copies : l.version < lease'.version
      BY <2>1, <3>0, WriteIsNewest
    <3>2. TypeOK'
      BY <2>1, <3>0, <3>1 DEF Goto, LeaseInv, TypeOK, Procs
    <3>3. Copies' = Copies
      BY <2>1, <3>0 DEF Goto, Copies, LeaseInv, TypeOK, Procs
    <3>4. CopiesAgree'
      <4>1. \A l \in Copies : l.version \in Nat
        BY DEF Copies, LeaseInv, TypeOK, Procs, Leases, NoLease
      <4> QED BY <3>1, <3>3, <4>1 DEF CopiesAgree, Leases
    <3>5. CheckedBeforeUpdate' /\ NowIsPast'
      BY <2>1, <3>0 DEF Goto, LeaseInv, TypeOK, Procs, CheckedBeforeUpdate, NowIsPast
    <3>6. ASSUME NEW d \in Holders, d # c, Covered(d) PROVE FALSE
      <4>1. lease.holder = d /\ lease.renewed = proc[d].now
        BY <3>6 DEF LeaseInv, CoveredOwns
      <4>2. proc[c].seen = lease
        BY <2>1 DEF LeaseInv, CopiesAgree, Copies
      <4>3. lease.renewed + Duration < proc[c].now
        BY <2>1, <3>6, <4>1, <4>2 DEF LeaseInv, CheckedBeforeUpdate, RunOut
      <4>4. proc[c].now <= clock /\ clock <= lease.renewed + Duration
        BY <3>6, <4>1 DEF LeaseInv, NowIsPast, Covered
      <4>5. lease.renewed \in Nat
        BY DEF LeaseInv, TypeOK, Leases
      <4> QED BY <3>0, <4>3, <4>4, <4>5
    <3>7. \A d \in Holders : Covered(d)' => d = c
      BY <2>1, <3>6 DEF Goto, Covered, LeaseInv, TypeOK
    <3>8. proc'[c].now = proc[c].now
      BY <2>1, <3>0 DEF Goto, LeaseInv, TypeOK, Procs
    <3>9. Found(lease)'
      BY <2>1 DEF Write, Found, LeaseInv, TypeOK, Leases
    <3>10. CoveredOwns'
      BY <3>1, <3>7, <3>8, <3>9 DEF CoveredOwns
    <3> QED BY <3>2, <3>4, <3>5, <3>10 DEF LeaseInv
  <2>2. CASE Goto(c, Resting) /\ UNCHANGED <<lease, cache>>
    BY <1>0, <2>2, StepAlone DEF Resting
  <2> QED BY <1>4, <2>1, <2>2 DEF Update
<1>5. ASSUME NEW c \in Holders, Finish(c) PROVE LeaseInv'
  BY <1>0, <1>5, StepAlone DEF Finish, Resting
<1>6. CASE Sync
  <2>1. Copies' \subseteq Copies \cup {lease} /\ TypeOK'
    BY <1>6 DEF Sync, Copies, NoLease, LeaseInv, TypeOK
  <2>2. CopiesAgree'
    BY <1>6, <2>1 DEF Sync, CopiesAgree, LeaseInv, TypeOK, Leases
  <2> QED BY <1>6, <2>1, <2>2
          DEF Sync, LeaseInv, CheckedBeforeUpdate, NowIsPast, CoveredOwns, Covered
<1>7. CASE Tick
  BY <1>7 DEF Tick, LeaseInv, TypeOK, Procs, CopiesAgree, Copies, CheckedBeforeUpdate,
              NowIsPast, CoveredOwns, Covered
<1>8. CASE Restart
  <2>1. \A c \in Holders : proc'[c] = Resting
    BY <1>8 DEF Restart
  <2>2. Copies' \subseteq Copies \cup {lease}
    BY <1>8, <2>1 DEF Restart, Copies, Resting, NoLease
  <2>3. TypeOK'
    BY <1>0, <1>8 DEF Restart, LeaseInv, TypeOK
  <2>4. CopiesAgree'
    BY <1>8, <2>2 DEF Restart, CopiesAgree, LeaseInv, TypeOK, Leases
  <2>5. CheckedBeforeUpdate' /\ CoveredOwns'
    BY <2>1 DEF Resting, CheckedBeforeUpdate, CoveredOwns, Covered
  <2>6. NowIsPast'
    BY <1>8, <2>1 DEF Resting, NowIsPast, Restart, LeaseInv, TypeOK
  <2> QED BY <2>3, <2>4, <2>5, <2>6 DEF LeaseInv
<1>9. CASE UNCHANGED vars
  BY <1>9 DEF vars, LeaseInv, TypeOK, CopiesAgree, Copies, CheckedBeforeUpdate, NowIsPast,
              CoveredOwns, Covered
<1> QED BY <1>1, <1>2, <1>3, <1>4, <1>5, <1>6, <1>7, <1>8, <1>9 DEF Next

(* The invariant holds always.                                               *)
THEOREM LeaseInvariant == Spec => []LeaseInv
  BY LeaseInitInv, LeaseNextInv, PTL DEF Spec

(* Type correctness, for every set of controllers.                           *)
THEOREM LeaseTyped == Spec => []TypeOK
<1>1. LeaseInv => TypeOK
  BY DEF LeaseInv
<1> QED BY <1>1, LeaseInvariant, PTL

(* Two reconciles that are both covered by their lease are the same one: a   *)
(* covered one owns the lease, and a lease has one holder.                   *)
THEOREM LeaseExclusion == Spec => []Exclusion
<1>1. LeaseInv => Exclusion
  BY DEF LeaseInv, CoveredOwns, Exclusion
<1> QED BY <1>1, LeaseInvariant, PTL

(* A lease changes hands only after it has run out: the version shows that   *)
(* the lease is still the one that was checked.                              *)
THEOREM LeaseTakenWhenRunOut == Spec => TakenWhenRunOut
<1>1. ASSUME LeaseInv, [Next]_vars
      PROVE  [Found(lease) /\ lease'.holder # lease.holder
                => lease.renewed + Duration < clock]_vars
  <2> SUFFICES ASSUME Next, Found(lease), lease'.holder # lease.holder
               PROVE  lease.renewed + Duration < clock
    BY <1>1
  <2>1. PICK c \in Holders : Update(c) /\ proc[c].seen.version = lease.version
                               /\ Write(c, proc[c].now)
    BY DEF Next, Get, Create, Check, Update, Finish, Sync, Tick, Restart
  <2>2. proc[c].seen = lease
    BY <1>1, <2>1 DEF LeaseInv, CopiesAgree, Copies
  <2>3. RunOut(lease, proc[c].now)
    BY <1>1, <2>1, <2>2 DEF LeaseInv, CheckedBeforeUpdate, Update, Write
  <2>4. /\ proc[c].now \in Nat /\ clock \in Nat /\ lease.renewed \in Nat
        /\ proc[c].now <= clock
    BY <1>1, <2>1 DEF LeaseInv, TypeOK, Procs, Leases, NowIsPast
  <2> QED BY <2>3, <2>4, TimeAssumption DEF RunOut
<1> QED BY <1>1, LeaseInvariant, PTL DEF Spec, TakenWhenRunOut
============================================================================
