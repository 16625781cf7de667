--------------------------- MODULE BarrierProofs ---------------------------
(***************************************************************************)
(* Whatever the number of threads and of rounds, no thread that uses the   *)
(* generic barrier waits for another one.                                  *)
(***************************************************************************)
EXTENDS Barrier, FiniteSetTheorems, TLAPS

Places == {"outside", "locked", "waiting"}

(* The types of the barrier's variables. *)
BarrierTypeOK ==
  /\ cur \in Int /\ waiters \in Nat /\ posted \in Int
  /\ at \in [Thread -> Places]

IInv == BarrierTypeOK /\ SignalsSuffice

(* The threads that wait are finitely many.                                  *)
LEMMA WaitingFinite ==
  IsFiniteSet(Waiting) /\ Cardinality(Waiting) \in Nat
<1>1. Waiting \subseteq Thread
  BY DEF Waiting
<1>2. IsFiniteSet(Waiting)
  BY <1>1, FS_Subset, BarrierAssumption
<1> QED
  BY <1>2, FS_CardinalityType

(* A thread that begins to wait makes them one more.                         *)
LEMMA OneMore ==
  ASSUME BarrierTypeOK, NEW t \in Thread, at[t] # "waiting",
         at' = [at EXCEPT ![t] = "waiting"]
  PROVE  Cardinality(Waiting') = Cardinality(Waiting) + 1
<1>1. Waiting' = Waiting \cup {t} /\ t \notin Waiting
  BY DEF Waiting, BarrierTypeOK
<1> QED
  BY <1>1, WaitingFinite, FS_AddElement

(* One that stops waiting makes them one fewer.                              *)
LEMMA OneFewer ==
  ASSUME BarrierTypeOK, NEW t \in Thread, at[t] = "waiting",
         at' = [at EXCEPT ![t] = "outside"]
  PROVE  Cardinality(Waiting') = Cardinality(Waiting) - 1
<1>1. Waiting' = Waiting \ {t} /\ t \in Waiting
  BY DEF Waiting, BarrierTypeOK
<1> QED
  BY <1>1, WaitingFinite, FS_RemoveElement

LEMMA AsMany ==
  ASSUME BarrierTypeOK, NEW t \in Thread, NEW p \in {"outside", "locked"},
         at[t] # "waiting", at' = [at EXCEPT ![t] = p]
  PROVE  Waiting' = Waiting
BY DEF Waiting, BarrierTypeOK

LEMMA Initially == BarrierInit => IInv
<1> SUFFICES ASSUME BarrierInit PROVE IInv
  OBVIOUS
<1>1. Waiting = {}
  BY DEF BarrierInit, Waiting
<1>2. Cardinality(Waiting) = 0
  BY <1>1, FS_EmptySet
<1> QED
  BY <1>2, BarrierAssumption DEF IInv, BarrierTypeOK, SignalsSuffice, BarrierInit, Places

LEMMA Inductive == IInv /\ [BarrierNext]_barrierVars => IInv'
<1> SUFFICES ASSUME IInv, [BarrierNext]_barrierVars PROVE IInv'
  OBVIOUS
<1> USE BarrierAssumption DEF IInv, BarrierTypeOK, SignalsSuffice, Places
<1> DEFINE W == Cardinality(Waiting)
<1>0. W \in Nat
  BY WaitingFinite
<1>1. ASSUME NEW t \in Thread, Lock(t) PROVE IInv'
  <2>1. Waiting' = Waiting
    BY <1>1, AsMany DEF Lock
  <2>2. Cardinality(Waiting') = W
    BY <2>1
  <2>3. BarrierTypeOK'
    BY <1>1 DEF Lock
  <2> QED
    BY <1>1, <1>0, <2>2, <2>3 DEF Lock
<1>2. ASSUME NEW t \in Thread, Post(t) PROVE IInv'
  <2>1. Cardinality(Waiting') = W
    BY <1>2 DEF Post, Waiting
  <2> QED
    BY <1>2, <1>0, <2>1 DEF Post
<1>3. ASSUME NEW t \in Thread, Reset(t) PROVE IInv'
  <2>1. Waiting' = Waiting
    BY <1>3, AsMany DEF Reset
  <2>2. Cardinality(Waiting') = W
    BY <2>1
  <2>3. BarrierTypeOK'
    BY <1>3 DEF Reset
  <2> QED
    BY <1>3, <1>0, <2>2, <2>3 DEF Reset
<1>4. ASSUME NEW t \in Thread, Arrive(t) PROVE IInv'
  <2>1. Cardinality(Waiting') = W + 1
    BY <1>4, OneMore DEF Arrive
  <2>2. posted = 0
    BY <1>4 DEF Arrive
  <2>3. BarrierTypeOK'
    BY <1>4 DEF Arrive
  <2> QED
    BY <1>4, <1>0, <2>1, <2>2, <2>3 DEF Arrive
<1>5. ASSUME NEW t \in Thread, Pass(t) PROVE IInv'
  <2>1. Cardinality(Waiting') = W - 1
    BY <1>5, OneFewer DEF Pass
  <2>2. BarrierTypeOK'
    BY <1>5 DEF Pass
  <2> QED
    BY <1>5, <1>0, <2>1, <2>2 DEF Pass
<1>6. CASE UNCHANGED barrierVars
  <2>1. Cardinality(Waiting') = W
    BY <1>6 DEF barrierVars, Waiting
  <2> QED
    BY <1>6, <2>1 DEF barrierVars
<1> QED
  BY <1>1, <1>2, <1>3, <1>4, <1>5, <1>6 DEF BarrierNext

(* The semaphore always has enough for all that wait on it: the code at      *)
(* gen-barriers.c:50 never makes a thread wait for the others.               *)
THEOREM NobodyEverWaits == BarrierSpec => []NobodyWaits
<1>1. IInv => NobodyWaits
  BY WaitingFinite, BarrierAssumption DEF IInv, BarrierTypeOK, SignalsSuffice, NobodyWaits
<1> QED
  BY <1>1, Initially, Inductive, PTL DEF BarrierSpec
=============================================================================
