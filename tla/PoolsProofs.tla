---------------------------- MODULE PoolsProofs ----------------------------
(***************************************************************************)
(* Proofs about module Pools, for every pool size, every set of object     *)
(* sizes below it and every number of pools.                               *)
(***************************************************************************)
EXTENDS Pools, SequenceTheorems, TLAPS

(* The phases of the library: a ggggc_malloc runs exactly in "yield" and     *)
(* "alloc" and, when it is the one that yields, in "collect"; it allocates   *)
(* only with no collection pending; there is a current pool once there are   *)
(* lists.                                                                    *)
Phases ==
  /\ pc \in {"yield", "alloc"} => req \in Sizes
  /\ pc = "run" => req = 0
  /\ pc = "alloc" => ~forceCollect
  /\ pc = "collect" => forceCollect
  /\ forceCollect => curPool # 0
  /\ curPool = 0 => fromList = << >> /\ live = {}
  /\ fromList = << >> => curPool = 0

(* Only pools obtained from the operating system are in the lists, and their *)
(* free pointers stay inside them.                                           *)
PoolsInUse ==
  /\ \A i \in 1 .. Len(fromList) : fromList[i] \in 1 .. nPools
  /\ \A i \in 1 .. Len(toList) : toList[i] \in 1 .. nPools
  /\ \A p \in Pool : free[p] < PoolWords

IInv ==
  /\ TypeOK
  /\ Phases
  /\ SemispacesMatch
  /\ PoolsInUse
  /\ NoOverlap
  /\ NextPoolsEmpty
  /\ SpacesSeparate
  /\ CollectOnlyWhenFull

(* What is assumed of the constants, element by element.                     *)
LEMMA ConstantFacts ==
  /\ PoolWords \in Nat /\ MaxPools \in Nat
  /\ \A s \in Sizes : s \in Nat /\ s > 0 /\ s < PoolWords
<1>1. PoolWords \in Nat /\ PoolWords > 0 /\ MaxPools \in Nat
  BY PoolsAssumption
<1>2. \A s \in Sizes : s \in 1 .. (PoolWords - 1)
  BY PoolsAssumption
<1>3. QED
  BY <1>1, <1>2

(* The library starts with empty lists and no object. *)
LEMMA InitIInv == Init => IInv
<1> SUFFICES ASSUME Init PROVE IInv
  OBVIOUS
<1>1. fromList = << >> /\ toList = << >> /\ curPool = 0 /\ Len(fromList) = 0 /\ Len(toList) = 0
  BY DEF Init
<1>2. TypeOK
  <2>1. fromList \in Seq(Pool) /\ toList \in Seq(Pool)
    BY <1>1
  <2>2. free \in [Pool -> Nat]
    BY DEF Init
  <2>3. curPool \in 0 .. Len(fromList) /\ nPools \in 0 .. MaxPools
    BY <1>1, ConstantFacts DEF Init
  <2>4. /\ forceCollect \in BOOLEAN
        /\ live \subseteq Object /\ old \subseteq Object
        /\ req \in Sizes \cup {0}
        /\ pc \in {"run", "yield", "alloc", "collect", "crash", "abort"}
    BY DEF Init
  <2>5. QED
    BY <2>1, <2>2, <2>3, <2>4 DEF TypeOK
<1>3. Phases /\ SemispacesMatch
  BY <1>1 DEF Init, Phases, SemispacesMatch
<1>4. PoolsInUse
  BY <1>1, PoolsAssumption DEF Init, PoolsInUse
<1>5. NoOverlap /\ NextPoolsEmpty /\ SpacesSeparate /\ CollectOnlyWhenFull
  BY <1>1 DEF Init, NoOverlap, NextPoolsEmpty, SpacesSeparate, CollectOnlyWhenFull
<1>6. QED
  BY <1>2, <1>3, <1>4, <1>5 DEF IInv

(* A ggggc_malloc begins: only its size is recorded.                         *)
LEMMA MallocStep == ASSUME IInv, NEW s \in Sizes, Malloc(s) PROVE IInv'
<1>1. TypeOK'
  BY DEF IInv, TypeOK, Malloc
<1>2. Phases' /\ CollectOnlyWhenFull' /\ SpacesSeparate'
  BY DEF IInv, Phases, CollectOnlyWhenFull, SpacesSeparate, Malloc
<1>3. SemispacesMatch' /\ PoolsInUse' /\ NoOverlap' /\ NextPoolsEmpty'
  BY DEF IInv, SemispacesMatch, PoolsInUse, NoOverlap, NextPoolsEmpty, Malloc
<1>4. QED
  BY <1>1, <1>2, <1>3 DEF IInv

(* No memory is left: the lists stay as they are.                            *)
LEMMA AbortStep == ASSUME IInv, Abort PROVE IInv'
<1>1. TypeOK'
  BY DEF IInv, TypeOK, Abort
<1>2. Phases' /\ CollectOnlyWhenFull' /\ SpacesSeparate'
  BY DEF IInv, Phases, CollectOnlyWhenFull, SpacesSeparate, Abort
<1>3. SemispacesMatch' /\ PoolsInUse' /\ NoOverlap' /\ NextPoolsEmpty'
  BY DEF IInv, SemispacesMatch, PoolsInUse, NoOverlap, NextPoolsEmpty, Abort
<1>4. QED
  BY <1>1, <1>2, <1>3 DEF IInv

(* A yield with nothing pending leaves every object where it is.             *)
LEMMA NoCollectStep == ASSUME IInv, NoCollect PROVE IInv'
<1>1. TypeOK'
  BY DEF IInv, TypeOK, NoCollect
<1>2. Phases' /\ CollectOnlyWhenFull' /\ SpacesSeparate'
  BY DEF IInv, Phases, CollectOnlyWhenFull, SpacesSeparate, NoCollect
<1>3. SemispacesMatch' /\ PoolsInUse' /\ NoOverlap' /\ NextPoolsEmpty'
  BY DEF IInv, SemispacesMatch, PoolsInUse, NoOverlap, NextPoolsEmpty, NoCollect
<1>4. QED
  BY <1>1, <1>2, <1>3 DEF IInv

(* The read through a NULL pool moves nothing and ends the run.              *)
LEMMA ForwardNoPoolStep == ASSUME IInv, NEW o \in old, ForwardNoPool(o) PROVE IInv'
<1>1. TypeOK'
  BY DEF IInv, TypeOK, ForwardNoPool
<1>2. Phases' /\ CollectOnlyWhenFull' /\ SpacesSeparate'
  BY DEF IInv, Phases, CollectOnlyWhenFull, SpacesSeparate, ForwardNoPool
<1>3. SemispacesMatch' /\ PoolsInUse' /\ NoOverlap' /\ NextPoolsEmpty'
  BY DEF IInv, SemispacesMatch, PoolsInUse, NoOverlap, NextPoolsEmpty, ForwardNoPool
<1>4. QED
  BY <1>1, <1>2, <1>3 DEF IInv

(* A collection ends: what was not forwarded is forgotten.                   *)
LEMMA EndCollectStep == ASSUME IInv, EndCollect PROVE IInv'
<1>1. TypeOK'
  BY DEF IInv, TypeOK, EndCollect
<1>2. Phases' /\ CollectOnlyWhenFull' /\ SpacesSeparate'
  BY DEF IInv, TypeOK, Phases, CollectOnlyWhenFull, SpacesSeparate, EndCollect
<1>3. SemispacesMatch' /\ PoolsInUse' /\ NoOverlap' /\ NextPoolsEmpty'
  BY DEF IInv, SemispacesMatch, PoolsInUse, NoOverlap, NextPoolsEmpty, EndCollect
<1>4. QED
  BY <1>1, <1>2, <1>3 DEF IInv

(* ggggc_malloc goes on to the next pool: nothing is placed yet.             *)
LEMMA NextPoolStep == ASSUME IInv, NextPool PROVE IInv'
<1>1. TypeOK'
  BY DEF IInv, TypeOK, NextPool
<1>2. Phases' /\ CollectOnlyWhenFull'
  BY DEF IInv, TypeOK, Phases, CollectOnlyWhenFull, NextPool
<1>3. SemispacesMatch' /\ PoolsInUse' /\ NoOverlap'
  BY DEF IInv, SemispacesMatch, PoolsInUse, NoOverlap, NextPool
<1>5. NextPoolsEmpty'
  BY DEF IInv, TypeOK, NextPoolsEmpty, NextPool
<1>4. SpacesSeparate'
  <2>1. 1 .. curPool \subseteq 1 .. curPool'
    BY DEF IInv, TypeOK, NextPool
  <2>2. \A o \in live' : \E i \in 1 .. curPool' : o.pool = fromList'[i]
    BY <2>1 DEF IInv, SpacesSeparate, NextPool
  <2>3. QED
    BY <2>2 DEF IInv, SpacesSeparate, NextPool
<1>6. QED
  BY <1>1, <1>2, <1>3, <1>4, <1>5 DEF IInv

(* The first pools: both lists get one, nothing is placed yet.               *)
LEMMA FirstPoolsStep == ASSUME IInv, FirstPools PROVE IInv'
<1> DEFINE a == nPools + 1
           b == nPools + 2
<1>1. /\ a \in Pool /\ b \in Pool /\ a # b
      /\ fromList = << >> /\ toList = << >> /\ nPools = 0 /\ live = {} /\ old = {}
  <2>1. fromList = << >> /\ live = {} /\ old = {}
    BY DEF IInv, Phases, FirstPools, SpacesSeparate
  <2>2. Len(fromList) = 0 /\ Len(toList) = 0 /\ nPools = 0
    BY <2>1 DEF IInv, SemispacesMatch
  <2>3. toList = << >>
    BY <2>2 DEF IInv, TypeOK
  <2>4. QED
    BY <2>1, <2>2, <2>3, ConstantFacts DEF FirstPools, Pool
<1>2. /\ fromList' \in Seq(Pool) /\ toList' \in Seq(Pool)
      /\ Len(fromList') = 1 /\ Len(toList') = 1
      /\ fromList'[1] = a /\ toList'[1] = b
  <2>1. \A x \in Pool : <<x>> \in Seq(Pool) /\ Len(<<x>>) = 1 /\ <<x>>[1] = x
    OBVIOUS
  <2>2. fromList' = <<a>> /\ toList' = <<b>>
    BY DEF FirstPools
  <2>3. QED
    BY <1>1, <2>1, <2>2
<1>3. free' \in [Pool -> Nat] /\ \A p \in Pool : free'[p] = 0 \/ free'[p] = free[p]
  BY <1>1 DEF IInv, TypeOK, FirstPools
<1>4. TypeOK'
  <2>1. nPools' \in 0 .. MaxPools /\ curPool' \in 0 .. Len(fromList')
    BY <1>1, <1>2, ConstantFacts DEF FirstPools
  <2>2. QED
    BY <1>2, <1>3, <2>1 DEF IInv, TypeOK, FirstPools
<1>5. Phases' /\ CollectOnlyWhenFull'
  BY <1>2 DEF IInv, Phases, CollectOnlyWhenFull, FirstPools
<1>6. SemispacesMatch' /\ PoolsInUse'
  <2>1. nPools' = 2 /\ a = 1 /\ b = 2
    BY <1>1 DEF FirstPools
  <2>2. SemispacesMatch'
    BY <1>1, <1>2, <2>1 DEF SemispacesMatch
  <2>3. \A p \in Pool : free'[p] < PoolWords
    BY <1>3, PoolsAssumption DEF IInv, PoolsInUse
  <2>4. PoolsInUse'
    BY <1>2, <2>1, <2>3 DEF PoolsInUse
  <2>5. QED
    BY <2>2, <2>4
<1>7. NoOverlap' /\ NextPoolsEmpty' /\ SpacesSeparate'
  BY <1>1, <1>2 DEF NoOverlap, NextPoolsEmpty, SpacesSeparate, FirstPools
<1>8. QED
  BY <1>4, <1>5, <1>6, <1>7 DEF IInv

(* The exchange: what was live becomes what is to be evacuated, and the new  *)
(* from list starts out empty.                                               *)
LEMMA BeginCollectStep == ASSUME IInv, BeginCollect PROVE IInv'
<1> USE DEF BeginCollect, Flip
<1>1. free' \in [Pool -> Nat]
  BY DEF IInv, TypeOK
<1>2. Len(toList) = Len(fromList) /\ Len(fromList) >= 1 /\ curPool \in 1 .. Len(fromList)
  BY DEF IInv, TypeOK, Phases, SemispacesMatch
<1>3. TypeOK'
  BY <1>1, <1>2 DEF IInv, TypeOK
<1>4. Phases' /\ CollectOnlyWhenFull'
  BY <1>2 DEF IInv, TypeOK, Phases, CollectOnlyWhenFull
<1>5. SemispacesMatch'
  BY <1>2 DEF IInv, TypeOK, SemispacesMatch
<1>6. /\ \A i \in 1 .. Len(fromList') : fromList'[i] \in Pool /\ free'[fromList'[i]] = 0
      /\ \A i \in 1 .. Len(toList') : toList'[i] \in Pool /\ free'[toList'[i]] = free[toList'[i]]
  BY <1>2 DEF IInv, TypeOK, SemispacesMatch
<1>7. PoolsInUse' /\ NextPoolsEmpty'
  BY <1>1, <1>2, <1>6, ConstantFacts DEF IInv, TypeOK, PoolsInUse, NextPoolsEmpty
<1>8. SpacesSeparate'
  BY <1>2, <1>3 DEF IInv, TypeOK, SpacesSeparate
<1>9. NoOverlap'
  <2>1. \A o \in old' : free'[o.pool] = free[o.pool]
    BY <1>6, <1>8 DEF SpacesSeparate
  <2>2. old' = live /\ live' = {}
    OBVIOUS
  <2>3. QED
    BY <2>1, <2>2 DEF IInv, NoOverlap
<1>10. QED
  BY <1>3, <1>4, <1>5, <1>7, <1>8, <1>9 DEF IInv

(* An object put at or above everything its pool holds overlaps nothing and  *)
(* leaves the other objects below their free pointers: what Place and the    *)
(* grow branch of ggggc_malloc both do.                                      *)
LEMMA AddObject ==
  ASSUME TypeOK, NoOverlap,
         NEW p \in Pool, NEW a \in Nat, NEW s \in Sizes, a + s < PoolWords,
         \A o \in live \cup old : o.pool = p => o.start + o.size <= a,
         live' = live \cup {[pool |-> p, start |-> a, size |-> s]},
         old' \subseteq old,
         free'[p] = a + s,
         \A o \in live \cup old : o.pool # p => free'[o.pool] = free[o.pool]
  PROVE  NoOverlap' /\ live' \subseteq Object /\ old' \subseteq Object
<1> DEFINE new == [pool |-> p, start |-> a, size |-> s]
<1>1. new.pool = p /\ new.start = a /\ new.size = s /\ new \in Object
  BY DEF Object
<1> HIDE DEF new
<1>2. live' = live \cup {new}
  BY DEF new
<1>3. s \in Nat
  BY ConstantFacts
<1>4. \A o \in live \cup old :
        o \in Object /\ o.start \in Nat /\ o.size \in Nat /\ o.pool \in Pool
  <2>1. \A o \in live \cup old : o \in Object
    BY DEF TypeOK
  <2>2. \A o \in Object : o.start \in Nat /\ o.size \in Nat /\ o.pool \in Pool
    BY ConstantFacts DEF Object
  <2>3. QED
    BY <2>1, <2>2
<1>5. \A o \in (live \cup old)' : o = new \/ o \in live \cup old
  BY <1>2
<1>6. \A o \in (live \cup old)' :
        o.start + o.size <= free'[o.pool] /\ free'[o.pool] < PoolWords
  <2> TAKE o \in (live \cup old)'
  <2>1. CASE o = new
    BY <1>1, <1>3, <2>1, ConstantFacts
  <2>2. CASE o # new /\ o.pool = p
    BY <1>3, <1>4, <1>5, <2>2, ConstantFacts
  <2>3. CASE o # new /\ o.pool # p
    BY <1>5, <2>3 DEF NoOverlap
  <2>4. QED
    BY <2>1, <2>2, <2>3
<1>7. \A o, q \in (live \cup old)' :
        o # q /\ o.pool = q.pool =>
          o.start + o.size <= q.start \/ q.start + q.size <= o.start
  <2> SUFFICES ASSUME NEW o \in (live \cup old)', NEW q \in (live \cup old)',
                      o # q, o.pool = q.pool
               PROVE  o.start + o.size <= q.start \/ q.start + q.size <= o.start
    OBVIOUS
  <2>1. CASE o = new
    BY <1>1, <1>5, <2>1
  <2>2. CASE q = new
    BY <1>1, <1>5, <2>2
  <2>3. CASE o # new /\ q # new
    BY <1>5, <2>3 DEF NoOverlap
  <2>4. QED
    BY <2>1, <2>2, <2>3
<1>8. NoOverlap'
  BY <1>6, <1>7 DEF NoOverlap
<1>9. live' \subseteq Object /\ old' \subseteq Object
  BY <1>1, <1>2 DEF TypeOK
<1>10. QED
  BY <1>8, <1>9

(* Placing an object into the current pool or into the empty one after it.   *)
(* The step of ggggc_malloc's bump and of both branches of forward: whatever *)
(* else it changes, the lists stay.                                          *)
LEMMA PlaceStep ==
  ASSUME IInv, NEW k \in {curPool, curPool + 1}, k \in 1 .. Len(fromList),
         NEW s \in Sizes, free[fromList[k]] + s < PoolWords,
         Place(fromList[k], s), curPool' = k, old' \subseteq old,
         UNCHANGED <<fromList, toList, nPools>>
  PROVE  /\ NoOverlap' /\ PoolsInUse' /\ NextPoolsEmpty' /\ SemispacesMatch'
         /\ live' \subseteq Object /\ old' \subseteq Object
         /\ free' \in [Pool -> Nat]
         /\ \A o \in live' : \E i \in 1 .. curPool' : o.pool = fromList'[i]
<1> DEFINE p == fromList[k]
           a == free[p]
<1>1. p \in Pool /\ a \in Nat /\ s \in Nat /\ curPool \in Nat /\ Len(fromList) \in Nat
  BY ConstantFacts DEF IInv, TypeOK
<1>2. /\ live' = live \cup {[pool |-> p, start |-> a, size |-> s]}
      /\ free' = [free EXCEPT ![p] = a + s]
  BY DEF Place
<1>3. free' \in [Pool -> Nat] /\ free'[p] = a + s
      /\ \A q \in Pool : q # p => free'[q] = free[q]
  BY <1>1, <1>2 DEF IInv, TypeOK
<1>4. \A o \in live \cup old : o.pool \in Pool /\ (o.pool = p => o.start + o.size <= a)
  BY DEF IInv, TypeOK, Object, NoOverlap
<1>5. NoOverlap' /\ live' \subseteq Object /\ old' \subseteq Object
  <2> HIDE DEF p, a
  <2>1. TypeOK /\ NoOverlap
    BY DEF IInv
  <2>2. a + s < PoolWords
    BY DEF p, a
  <2>3. QED
    BY <1>1, <1>2, <1>3, <1>4, <2>1, <2>2, AddObject
<1>6. SemispacesMatch'
  BY DEF IInv, SemispacesMatch
<1>7. PoolsInUse'
  BY <1>1, <1>3 DEF IInv, PoolsInUse
<1>8. NextPoolsEmpty'
  <2> SUFFICES ASSUME NEW i \in 1 .. Len(fromList), i > k
               PROVE  free'[fromList[i]] = 0
    BY DEF NextPoolsEmpty
  <2>1. fromList[i] # p /\ fromList[i] \in Pool
    BY <1>1 DEF IInv, TypeOK, SemispacesMatch
  <2>2. free[fromList[i]] = 0
    BY <1>1 DEF IInv, NextPoolsEmpty
  <2>3. QED
    BY <1>3, <2>1, <2>2
<1>9. \A o \in live' : \E i \in 1 .. curPool' : o.pool = fromList'[i]
  <2> SUFFICES ASSUME NEW o \in live' PROVE \E i \in 1 .. k : o.pool = fromList[i]
    OBVIOUS
  <2>1. CASE o \in live
    <3>1. PICK i \in 1 .. curPool : o.pool = fromList[i]
      BY <2>1 DEF IInv, SpacesSeparate
    <3>2. i \in 1 .. k
      BY <1>1
    <3>3. QED
      BY <3>1, <3>2
  <2>2. CASE o \notin live
    <3>1. o.pool = fromList[k] /\ k \in 1 .. k
      BY <1>1, <1>2, <2>2
    <3>2. QED
      BY <3>1
  <2>3. QED
    BY <2>1, <2>2
<1>10. QED
  BY <1>3, <1>5, <1>6, <1>7, <1>8, <1>9

(* ggggc_malloc's object goes into the current pool.                         *)
LEMMA BumpStep == ASSUME IInv, Bump PROVE IInv'
<1>1. /\ curPool \in 1 .. Len(fromList) /\ req \in Sizes
      /\ free[fromList[curPool]] + req < PoolWords
      /\ Place(fromList[curPool], req) /\ curPool' = curPool /\ old' \subseteq old
      /\ UNCHANGED <<fromList, toList, nPools>>
  BY DEF IInv, TypeOK, Phases, Bump, Fits
<1>2. /\ NoOverlap' /\ PoolsInUse' /\ NextPoolsEmpty' /\ SemispacesMatch'
      /\ live' \subseteq Object /\ old' \subseteq Object
      /\ free' \in [Pool -> Nat]
      /\ \A o \in live' : \E i \in 1 .. curPool' : o.pool = fromList'[i]
  BY <1>1, PlaceStep
<1>3. TypeOK'
  BY <1>2 DEF IInv, TypeOK, Bump
<1>4. Phases' /\ CollectOnlyWhenFull' /\ SpacesSeparate'
  BY <1>1, <1>2 DEF IInv, Phases, CollectOnlyWhenFull, SpacesSeparate, Bump
<1>5. QED
  BY <1>2, <1>3, <1>4 DEF IInv

(* forward's copy goes into the current pool.                                *)
LEMMA ForwardStep == ASSUME IInv, NEW o \in old, Forward(o) PROVE IInv'
<1>1. /\ curPool \in 1 .. Len(fromList) /\ o.size \in Sizes
      /\ free[fromList[curPool]] + o.size < PoolWords
      /\ Place(fromList[curPool], o.size) /\ curPool' = curPool /\ old' \subseteq old
      /\ UNCHANGED <<fromList, toList, nPools>>
  BY DEF IInv, TypeOK, Object, Phases, Forward, Fits
<1>2. /\ NoOverlap' /\ PoolsInUse' /\ NextPoolsEmpty' /\ SemispacesMatch'
      /\ live' \subseteq Object /\ old' \subseteq Object
      /\ free' \in [Pool -> Nat]
      /\ \A x \in live' : \E i \in 1 .. curPool' : x.pool = fromList'[i]
  BY <1>1, PlaceStep
<1>3. TypeOK'
  BY <1>2 DEF IInv, TypeOK, Forward
<1>4. Phases' /\ CollectOnlyWhenFull' /\ SpacesSeparate'
  BY <1>1, <1>2 DEF IInv, Phases, CollectOnlyWhenFull, SpacesSeparate, Forward
<1>5. QED
  BY <1>2, <1>3, <1>4 DEF IInv

(* forward's copy goes into the next pool, which is empty, so that it fits.  *)
LEMMA ForwardNextPoolStep == ASSUME IInv, NEW o \in old, ForwardNextPool(o) PROVE IInv'
<1>1. /\ curPool \in 1 .. Len(fromList) /\ o.size \in Sizes
      /\ curPool + 1 \in 1 .. Len(fromList)
      /\ Place(fromList[curPool + 1], o.size) /\ curPool' = curPool + 1
      /\ old' \subseteq old
      /\ UNCHANGED <<fromList, toList, nPools>>
  BY DEF IInv, TypeOK, Object, Phases, ForwardNextPool
<1>2. free[fromList[curPool + 1]] + o.size < PoolWords
  <2>1. free[fromList[curPool + 1]] = 0
    BY <1>1 DEF IInv, NextPoolsEmpty
  <2>2. QED
    BY <1>1, <2>1, ConstantFacts
<1>3. /\ NoOverlap' /\ PoolsInUse' /\ NextPoolsEmpty' /\ SemispacesMatch'
      /\ live' \subseteq Object /\ old' \subseteq Object
      /\ free' \in [Pool -> Nat]
      /\ \A x \in live' : \E i \in 1 .. curPool' : x.pool = fromList'[i]
  BY <1>1, <1>2, PlaceStep
<1>4. TypeOK'
  BY <1>1, <1>3 DEF IInv, TypeOK, ForwardNextPool
<1>5. Phases' /\ CollectOnlyWhenFull'
  BY <1>1 DEF IInv, TypeOK, Phases, CollectOnlyWhenFull, ForwardNextPool
<1>6. SpacesSeparate'
  BY <1>1, <1>3 DEF IInv, SpacesSeparate, ForwardNextPool
<1>7. QED
  BY <1>3, <1>4, <1>5, <1>6 DEF IInv

(* ggggc_malloc extends both lists, and its object, whatever its size, goes  *)
(* to the start of the new pool of the from list.                            *)
LEMMA GrowAndPlaceStep == ASSUME IInv, GrowAndPlace PROVE IInv'
<1> DEFINE a == nPools + 1
           b == nPools + 2
           n == Len(fromList)
<1>1. /\ a \in Pool /\ b \in Pool /\ a # b /\ nPools \in Nat
      /\ req \in Sizes /\ req \in Nat /\ req < PoolWords
      /\ n \in Nat /\ n > 0 /\ curPool = n /\ Len(toList) = n
      /\ fromList \in Seq(Pool) /\ toList \in Seq(Pool)
  <2>1. /\ req \in Sizes /\ curPool = n /\ curPool # 0 /\ nPools \in 0 .. MaxPools
        /\ nPools + 2 <= MaxPools
        /\ fromList \in Seq(Pool) /\ toList \in Seq(Pool) /\ Len(toList) = n
    BY DEF IInv, TypeOK, Phases, SemispacesMatch, GrowAndPlace
  <2>2. n \in Nat
    BY <2>1
  <2>3. a \in Pool /\ b \in Pool /\ a # b /\ nPools \in Nat
    BY <2>1, ConstantFacts DEF Pool
  <2>4. QED
    BY <2>1, <2>2, <2>3, ConstantFacts
<1>2. /\ fromList' \in Seq(Pool) /\ Len(fromList') = n + 1
      /\ \A i \in 1 .. n : fromList'[i] = fromList[i]
      /\ fromList'[n + 1] = a
  BY <1>1 DEF GrowAndPlace
<1>3. /\ toList' \in Seq(Pool) /\ Len(toList') = n + 1
      /\ \A i \in 1 .. n : toList'[i] = toList[i]
      /\ toList'[n + 1] = b
  BY <1>1 DEF GrowAndPlace
<1>4. /\ free' \in [Pool -> Nat]
      /\ free'[a] = req /\ free'[b] = 0
      /\ \A p \in Pool : p # a /\ p # b => free'[p] = free[p]
  <2>1. free \in [Pool -> Nat] /\ free' = [free EXCEPT ![a] = req, ![b] = 0]
    BY DEF IInv, TypeOK, GrowAndPlace
  <2>2. QED
    BY <1>1, <2>1
<1>5. \A i \in 1 .. n : /\ fromList[i] \in 1 .. nPools /\ toList[i] \in 1 .. nPools
                        /\ fromList[i] \in Pool /\ toList[i] \in Pool
  BY <1>1 DEF IInv, PoolsInUse
<1>6. \A o \in live \cup old : o.pool \in Pool /\ o.pool # a /\ o.pool # b
  <2>1. \A o \in live \cup old : o.pool \in 1 .. nPools
    BY <1>1, <1>5 DEF IInv, SpacesSeparate
  <2>2. QED
    BY <1>1, <1>5, <2>1 DEF IInv, TypeOK, Object
<1>7. NoOverlap' /\ live' \subseteq Object /\ old' \subseteq Object
  <2>1. /\ live' = live \cup {[pool |-> a, start |-> 0, size |-> req]}
        /\ old' \subseteq old
    BY DEF GrowAndPlace
  <2>2. /\ TypeOK /\ NoOverlap
        /\ 0 \in Nat /\ 0 + req = req /\ 0 + req < PoolWords
        /\ free'[a] = 0 + req
        /\ \A o \in live \cup old : o.pool = a => o.start + o.size <= 0
        /\ \A o \in live \cup old : o.pool # a => free'[o.pool] = free[o.pool]
    BY <1>1, <1>4, <1>6 DEF IInv
  <2> HIDE DEF a, b, n
  <2>3. QED
    BY <1>1, <2>1, <2>2, AddObject
<1>8. TypeOK'
  <2>1. nPools' \in 0 .. MaxPools /\ curPool' \in 0 .. Len(fromList')
    BY <1>1, <1>2, ConstantFacts DEF GrowAndPlace
  <2>2. QED
    BY <1>2, <1>3, <1>4, <1>7, <2>1 DEF IInv, TypeOK, GrowAndPlace
<1>9. Phases' /\ CollectOnlyWhenFull'
  BY <1>1, <1>2 DEF IInv, Phases, CollectOnlyWhenFull, GrowAndPlace
<1>10. SemispacesMatch'
  <2>1. Len(fromList') = Len(toList') /\ Len(fromList') + Len(toList') = nPools'
    <3>1. n + Len(toList) = nPools
      BY DEF IInv, SemispacesMatch
    <3>2. nPools' = nPools + 2
      BY DEF GrowAndPlace
    <3>3. QED
      BY <1>1, <1>2, <1>3, <3>1, <3>2
  <2>2. ASSUME NEW i \in 1 .. Len(fromList'), NEW j \in 1 .. Len(fromList')
        PROVE  /\ fromList'[i] # toList'[j]
               /\ i # j => fromList'[i] # fromList'[j] /\ toList'[i] # toList'[j]
    <3>1. (i \in 1 .. n \/ i = n + 1) /\ (j \in 1 .. n \/ j = n + 1)
      BY <1>1, <1>2
    <3>2. CASE i \in 1 .. n /\ j \in 1 .. n
      BY <1>1, <1>2, <1>3, <3>2 DEF IInv, SemispacesMatch
    <3>3. CASE i \in 1 .. n /\ j = n + 1
      BY <1>1, <1>2, <1>3, <1>5, <3>3
    <3>4. CASE i = n + 1 /\ j \in 1 .. n
      BY <1>1, <1>2, <1>3, <1>5, <3>4
    <3>5. CASE i = n + 1 /\ j = n + 1
      BY <1>1, <1>2, <1>3, <3>5
    <3>6. QED
      BY <3>1, <3>2, <3>3, <3>4, <3>5
  <2>3. QED
    BY <2>1, <2>2 DEF SemispacesMatch
<1>11. PoolsInUse'
  <2>1. nPools' = nPools + 2
    BY DEF GrowAndPlace
  <2>2. \A i \in 1 .. Len(fromList') : fromList'[i] \in 1 .. nPools' /\ toList'[i] \in 1 .. nPools'
    <3> TAKE i \in 1 .. Len(fromList')
    <3>1. CASE i \in 1 .. n
      BY <1>1, <1>2, <1>3, <1>5, <2>1, <3>1
    <3>2. CASE i = n + 1
      BY <1>1, <1>2, <1>3, <2>1, <3>2
    <3>3. QED
      BY <1>1, <1>2, <3>1, <3>2
  <2>3. \A p \in Pool : free'[p] < PoolWords
    <3>1. \A p \in Pool : free[p] < PoolWords
      BY DEF IInv, PoolsInUse
    <3>2. free'[a] < PoolWords /\ free'[b] < PoolWords
      BY <1>1, <1>4, ConstantFacts
    <3>3. QED
      BY <1>4, <3>1, <3>2
  <2>4. QED
    BY <1>2, <1>3, <2>2, <2>3 DEF PoolsInUse
<1>12. NextPoolsEmpty'
  BY <1>1, <1>2 DEF NextPoolsEmpty, GrowAndPlace
<1>13. SpacesSeparate'
  <2>1. curPool' = n + 1 /\ n + 1 \in 1 .. n + 1 /\ 1 .. n \subseteq 1 .. n + 1
    BY <1>1 DEF GrowAndPlace
  <2>2. ASSUME NEW o \in live' PROVE \E i \in 1 .. curPool' : o.pool = fromList'[i]
    <3>1. CASE o \in live
      BY <1>1, <1>2, <2>1, <3>1 DEF IInv, SpacesSeparate
    <3>2. CASE o \notin live
      <4>1. o.pool = a
        BY <3>2 DEF GrowAndPlace
      <4>2. QED
        BY <1>2, <2>1, <4>1
    <3>3. QED
      BY <3>1, <3>2
  <2>3. old' = {}
    BY DEF IInv, SpacesSeparate, GrowAndPlace
  <2>4. QED
    BY <2>2, <2>3 DEF SpacesSeparate
<1>14. QED
  BY <1>7, <1>8, <1>9, <1>10, <1>11, <1>12, <1>13 DEF IInv

(* Every step of the library and of its caller keeps the invariant. *)
LEMMA NextIInv == IInv /\ [Next]_vars => IInv'
<1> SUFFICES ASSUME IInv, [Next]_vars PROVE IInv'
  OBVIOUS
<1>1. CASE \E s \in Sizes : Malloc(s)
  BY <1>1, MallocStep
<1>2. CASE BeginCollect
  BY <1>2, BeginCollectStep
<1>3. CASE FirstPools \/ Bump \/ NextPool \/ GrowAndPlace \/ Abort
  BY <1>3, FirstPoolsStep, BumpStep, NextPoolStep, GrowAndPlaceStep, AbortStep
<1>4. CASE NoCollect \/ EndCollect
  BY <1>4, NoCollectStep, EndCollectStep
<1>5. CASE \E o \in old : Forward(o) \/ ForwardNextPool(o) \/ ForwardNoPool(o)
  BY <1>5, ForwardStep, ForwardNextPoolStep, ForwardNoPoolStep
<1>6. CASE UNCHANGED vars
  <2>1. TypeOK' /\ Phases' /\ SpacesSeparate' /\ CollectOnlyWhenFull'
    BY <1>6 DEF vars, IInv, TypeOK, Phases, SpacesSeparate, CollectOnlyWhenFull
  <2>2. SemispacesMatch' /\ PoolsInUse' /\ NoOverlap' /\ NextPoolsEmpty'
    BY <1>6 DEF vars, IInv, SemispacesMatch, PoolsInUse, NoOverlap, NextPoolsEmpty
  <2>3. QED
    BY <2>1, <2>2 DEF IInv
<1>7. QED
  BY <1>1, <1>2, <1>3, <1>4, <1>5, <1>6 DEF Next, Library

(* The invariant holds in every reachable state, for every pool size, every  *)
(* set of smaller object sizes and every number of pools: in particular no   *)
(* two objects of either semispace ever share a word (NoOverlap), what       *)
(* ggggc_malloc and forward's bump allocation are trusted with.              *)
THEOREM NoOverlapHolds == Spec => []NoOverlap
<1>1. IInv => NoOverlap
  BY DEF IInv
<1>2. QED
  BY <1>1, InitIInv, NextIInv, PTL DEF Spec

(* Every variable keeps its type: in particular curPool never runs off the   *)
(* from list, except where forward finds no next pool, which is a step of    *)
(* its own.                                                                  *)
THEOREM TypeCorrect == Spec => []TypeOK
<1>1. IInv => TypeOK
  BY DEF IInv
<1>2. QED
  BY <1>1, InitIInv, NextIInv, PTL DEF Spec

(* The semispaces have the same number of pools and share none: ggggc_malloc *)
(* extends both and ggggc_collect only exchanges them.                       *)
THEOREM SemispacesMatchHolds == Spec => []SemispacesMatch
<1>1. IInv => SemispacesMatch
  BY DEF IInv
<1>2. QED
  BY <1>1, InitIInv, NextIInv, PTL DEF Spec

(* What forward relies on when it takes curPool->next without looking: the   *)
(* pools after the current one are empty.                                    *)
THEOREM NextPoolsEmptyHolds == Spec => []NextPoolsEmpty
<1>1. IInv => NextPoolsEmpty
  BY DEF IInv
<1>2. QED
  BY <1>1, InitIInv, NextIInv, PTL DEF Spec

(* A collection never copies into the space it leaves, and new objects never *)
(* go there.                                                                 *)
THEOREM SpacesSeparateHolds == Spec => []SpacesSeparate
<1>1. IInv => SpacesSeparate
  BY DEF IInv
<1>2. QED
  BY <1>1, InitIInv, NextIInv, PTL DEF Spec

(* A collection is pending only when every pool of the from list is in use.  *)
THEOREM CollectOnlyWhenFullHolds == Spec => []CollectOnlyWhenFull
<1>1. IInv => CollectOnlyWhenFull
  BY DEF IInv
<1>2. QED
  BY <1>1, InitIInv, NextIInv, PTL DEF Spec

(* Between two growths of the heap there is always a collection.             *)
THEOREM GrowthThenCollect == Spec => GrowthIsFollowedByCollect
<1>1. IInv /\ [Next]_vars => [nPools' # nPools => nPools' = nPools + 2 /\ ~forceCollect]_vars
  <2> SUFFICES ASSUME IInv, Next, nPools' # nPools
               PROVE  nPools' = nPools + 2 /\ ~forceCollect
    BY DEF vars
  <2>1. FirstPools \/ GrowAndPlace
    BY DEF Next, Library, Malloc, Bump, NextPool, Abort, BeginCollect, NoCollect,
           Forward, ForwardNextPool, ForwardNoPool, EndCollect
  <2>2. QED
    BY <2>1 DEF IInv, Phases, FirstPools, GrowAndPlace
<1>2. QED
  BY <1>1, InitIInv, NextIInv, PTL DEF Spec, GrowthIsFollowedByCollect
=============================================================================
