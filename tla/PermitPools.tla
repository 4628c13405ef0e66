----------------------------- MODULE PermitPools ----------------------------
(***************************************************************************)
(* What the download semaphores promise, without the mailbox, the handlers *)
(* and the bookkeeping that keep the promise: resizable pools of permits,  *)
(* one for each incarnation of the supervisor, of which no more are ever   *)
(* held than the pool has.  Growing is immediate and shrinking never takes *)
(* a permit away from its holder (resize_semaphore of                      *)
(* crates/hof-core/src/actors/download_supervisor.rs).                     *)
(***************************************************************************)
EXTENDS Integers, FiniteSets

CONSTANTS
  Pools,   \* the semaphores
  Users    \* those that may hold a permit

VARIABLES
  size,   \* permits in each pool, held ones included
  held    \* who holds a permit of each pool

vars == <<size, held>>

Init ==
  /\ size \in [Pools -> Nat]
  /\ held = [p \in Pools |-> {}]

Acquire(p, u) ==
  /\ \A q \in Pools : u \notin held[q]
  /\ Cardinality(held[p]) < size[p]
  /\ held' = [held EXCEPT ![p] = @ \cup {u}]
  /\ UNCHANGED size

Release(p, u) ==
  /\ u \in held[p]
  /\ held' = [held EXCEPT ![p] = @ \ {u}]
  /\ UNCHANGED size

Resize(p) ==
  /\ size' \in [Pools -> Nat]
  /\ \A q \in Pools \ {p} : size'[q] = size[q]
  /\ size'[p] < size[p] => size'[p] >= Cardinality(held[p])
  /\ UNCHANGED held

\* The process dies and boots: nobody holds anything any more.
Reset ==
  /\ held' = [p \in Pools |-> {}]
  /\ size' \in [Pools -> Nat]

Next ==
  \/ \E p \in Pools : Resize(p) \/ \E u \in Users : Acquire(p, u) \/ Release(p, u)
  \/ Reset

Spec == Init /\ [][Next]_vars
=============================================================================
