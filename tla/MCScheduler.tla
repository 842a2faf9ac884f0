---------------------------- MODULE MCScheduler ----------------------------
(* A chain: c1 uses an API of package b, and b1 uses an API of package a; c1 *)
(* also uses an API that comes with an APIService of package a, and roles    *)
(* name these APIs too.                                                      *)
EXTENDS Scheduler

CONSTANTS a, b, c, a1, b1, c1, A, B, T, V, S

Packages  == [r \in Revs |-> CASE r = a1 -> a [] r = b1 -> b [] r = c1 -> c]
Numbers   == [r \in Revs |-> 1]
Groups    == [api \in APIs |-> IF api = T THEN S ELSE None]
Bring     == [r \in Revs |-> CASE r = a1 -> {A, S} [] r = b1 -> {B} [] r = c1 -> {}]
Resources == [r \in Revs |-> CASE r = a1 -> {} [] r = b1 -> {A} [] r = c1 -> {B, T}]
Policies  == [r \in Revs |-> CASE r = a1 -> {} [] r = b1 -> {A, T} [] r = c1 -> {V}]
Nothing   == [r \in Revs |-> {}]
=============================================================================
