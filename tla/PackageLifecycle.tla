-------------------------- MODULE PackageLifecycle --------------------------
(***************************************************************************)
(* The PackageRevision API object (apis/pkg/v1alpha1) and the functions    *)
(* of it that its controllers decide by: lifecycle transitions, readiness  *)
(* gates, conditions and revision numbers.  Of the conditions only those   *)
(* whose status is True are kept: one that is missing reads as False, like *)
(* one that is False.  Reasons and messages are left out.                  *)
(***************************************************************************)
EXTENDS Naturals, Sequences, FiniteSets

Lifecycles == {"draft", "proposed", "published", "deletionProposed"}
Gates      == {"process", "approve", "install"}
Ready      == "ready"

(* Each controller owns a finalizer; "revision" is the packagerevision one.  *)
Controllers == {"revision", "processor", "approver", "installer"}

(* The objects; a revision is a number, 0 for the empty string.              *)
Objects(maxRev) ==
  [lifecycle : Lifecycles, rev : 0 .. maxRev, tasks : BOOLEAN,
   fins : SUBSET Controllers, deleting : BOOLEAN, conds : SUBSET (Gates \cup {Ready})]
Absent == [lifecycle |-> "absent", rev |-> 0, tasks |-> FALSE,
           fins |-> {}, deleting |-> FALSE, conds |-> {}]
Exists(o) == o.lifecycle # "absent"

(* Create validation: drafts only, without revision and conditions.          *)
Draft(tasks) == [Absent EXCEPT !.lifecycle = "draft", !.tasks = tasks]

(* ValidateUpdateLifeCycle: what may follow what.                            *)
NextLifecycles(lifecycle) ==
  CASE lifecycle = "draft"    -> Lifecycles \ {"published"}
    [] lifecycle = "proposed" -> Lifecycles
    [] OTHER                  -> {"published", "deletionProposed"}

(* ValidateUpdate: the revision changes in a published object only.          *)
ValidUpdate(old, new) ==
  /\ new.lifecycle \in NextLifecycles(old.lifecycle)
  /\ new.lifecycle # "published" => new.rev = old.rev

(* Readiness gates, in their order.                                          *)
HasReadinessGate(gates, gate) == \E i \in DOMAIN gates : gates[i] = gate
FirstGate(gates, gate) ==
  {i \in DOMAIN gates : gates[i] = gate /\ \A j \in 1 .. i - 1 : gates[j] # gate}
(* Mutants of PreviousTrue: a gate that is there is enough; the first gate   *)
(* waits for one before it.                                                  *)
GateFound(gates, gate, o) == FirstGate(gates, gate) # {}
BeforeFirst(gates, gate, o) ==
  \E i \in FirstGate(gates, gate) : i > 1 /\ gates[i - 1] \in o.conds

(* GetPreviousCondition: True for the first gate.  (Without the gate it is   *)
(* ConditionFalse, whose status is True as well: the controllers ask only    *)
(* for gates that are there.)                                                *)
PreviousTrue(gates, gate, o) ==
  \E i \in FirstGate(gates, gate) : i = 1 \/ gates[i - 1] \in o.conds

SetTrue(o, cond)  == [o EXCEPT !.conds = @ \cup {cond}]
SetFalse(o, cond) == [o EXCEPT !.conds = @ \ {cond}]
AddFinalizer(o, c) == [o EXCEPT !.fins = @ \cup {c}]
(* The API server drops a deleted object with its last finalizer.            *)
RemoveFinalizer(o, c) ==
  IF o.deleting /\ o.fins \subseteq {c} THEN Absent ELSE [o EXCEPT !.fins = @ \ {c}]

(* Mutant of NextRevision: the revisions are counted.                        *)
CountedRevision(revs) == Cardinality(revs) + 1

(* NextRevisionNumber: the highest plus one.                                 *)
NextRevision(revs) ==
  CHOOSE n \in {r + 1 : r \in revs \cup {0}} : \A r \in revs : r < n
=============================================================================
