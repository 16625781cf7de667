------------------------------ MODULE Barrier ------------------------------
(***************************************************************************)
(* The generic barrier (gc/gen-barriers.c) between threads that come back  *)
(* to it again and again.  Its mutex and its semaphore belong to the       *)
(* platform: a lock has one holder, a semaphore is a number.               *)
(***************************************************************************)
EXTENDS Integers, FiniteSets

CONSTANTS
  Thread,     \* the threads
  Nobody,     \* what holds a lock that is free
  ct,         \* the number of threads the barrier is made for
  MaxWaiters  \* value of the semaphore beyond which no round begins (bound)

ASSUME BarrierAssumption ==
  /\ IsFiniteSet(Thread) /\ Nobody \notin Thread
  /\ ct \in Nat \ {0} /\ MaxWaiters \in Nat

VARIABLES
  lock, cur,  \* members of the barrier: who holds the lock, threads that came
  waiters,    \* and its semaphore
  posted,     \* the loop counter of the thread that came last
  at          \* where each thread is in ggggc_barrier_wait_raw

barrierVars == <<lock, cur, waiters, posted, at>>

(* Mutant of BarrierInit: the semaphore starts at 0.                         *)
BarrierInitZero ==
  /\ lock = Nobody /\ cur = 0 /\ waiters = 0
  /\ posted = 0
  /\ at = [t \in Thread |-> "outside"]

(* ggc_barrier_init. *)
BarrierInit ==
  /\ lock = Nobody /\ cur = 0 /\ waiters = ct - 1
  /\ posted = 0
  /\ at = [t \in Thread |-> "outside"]

Lock(t) ==
  /\ at[t] = "outside" /\ lock = Nobody /\ waiters <= MaxWaiters
  /\ lock' = t
  /\ at' = [at EXCEPT ![t] = "locked"]
  /\ UNCHANGED <<cur, waiters, posted>>

(* The last thread signals, once per thread of the barrier.                  *)
Post(t) ==
  /\ at[t] = "locked" /\ cur = ct - 1 /\ posted < ct
  /\ waiters' = waiters + 1
  /\ posted' = posted + 1
  /\ UNCHANGED <<lock, cur, at>>

(* Then it resets the barrier and leaves.                                    *)
Reset(t) ==
  /\ at[t] = "locked" /\ cur = ct - 1 /\ posted = ct
  /\ cur' = 0
  /\ posted' = 0
  /\ lock' = Nobody
  /\ at' = [at EXCEPT ![t] = "outside"]
  /\ UNCHANGED waiters

(* Any other thread counts itself and lets go of the lock.                   *)
Arrive(t) ==
  /\ at[t] = "locked" /\ cur # ct - 1
  /\ cur' = cur + 1
  /\ lock' = Nobody
  /\ at' = [at EXCEPT ![t] = "waiting"]
  /\ UNCHANGED <<waiters, posted>>

(* It is let through by the semaphore.                                       *)
Pass(t) ==
  /\ at[t] = "waiting" /\ waiters > 0
  /\ waiters' = waiters - 1
  /\ at' = [at EXCEPT ![t] = "outside"]
  /\ UNCHANGED <<lock, cur, posted>>

BarrierNext ==
  \E t \in Thread : Lock(t) \/ Post(t) \/ Reset(t) \/ Arrive(t) \/ Pass(t)

BarrierSpec == BarrierInit /\ [][BarrierNext]_barrierVars

(***************************************************************************)
(* Properties                                                              *)
(***************************************************************************)

Waiting == {t \in Thread : at[t] = "waiting"}

(* The semaphore has enough for everyone who waits on it, so that no thread  *)
(* ever does wait for the others: the barrier lets everybody through.        *)
NobodyWaits == Cardinality(Waiting) <= waiters

(* Why: what the semaphore has and the threads that came add up to at least  *)
(* what it started with, what the waiting ones will take and what the last   *)
(* one has signalled in this round.                                          *)
SignalsSuffice ==
  /\ cur \in 0 .. ct - 1 /\ posted \in 0 .. ct
  /\ posted > 0 => lock # Nobody /\ cur = ct - 1
  /\ \A t \in Thread : at[t] = "locked" <=> lock = t
  /\ waiters + cur >= ct - 1 + Cardinality(Waiting) + posted
=============================================================================
