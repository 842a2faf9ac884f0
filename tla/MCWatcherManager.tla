-------------------------- MODULE MCWatcherManager --------------------------
(* Instances of WatcherManager for TLC. *)
EXTENDS WatcherManager

(* The selectors of every watch select one of the changed packages. *)
OneSelected == [w \in Watches |-> {CHOOSE c \in Changes : TRUE}]
=============================================================================
