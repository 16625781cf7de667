------------------------------- MODULE Pools -------------------------------
(***************************************************************************)
(* The pool allocator of the collector's library: the two semispaces as    *)
(* lists of pools, bump allocation in ggggc_malloc (gc/allocate.c), the    *)
(* exchange of the semispaces at the start of ggggc_collect and the bump   *)
(* allocation of forward (gc/collect.c).                                   *)
(*                                                                         *)
(* A pool is a number, its content the set of objects placed in it: an     *)
(* object is a pool, the word it starts at and its size in words.  What an *)
(* object holds and which objects are reachable is the business of module  *)
(* Collector; here any object of the space being left may be forwarded, in *)
(* any order, which is every order a heap graph can produce.               *)
(***************************************************************************)
EXTENDS Integers, Sequences

CONSTANTS
  PoolWords,   \* words between a pool's start and its end
  Sizes,       \* object sizes, in words, that are asked for
  MaxPools     \* pools the operating system can provide before allocPool fails

(* collect.c:172 assumes no object is larger than a pool. *)
ASSUME PoolsAssumption ==
  /\ PoolWords \in Nat \ {0}
  /\ MaxPools \in Nat
  /\ Sizes \subseteq 1 .. (PoolWords - 1)

VARIABLES
  fromList,      \* ggggc_fromList: the pools objects live in, in list order
  toList,        \* ggggc_toList: the pools the next collection copies into
  curPool,       \* position of ggggc_curPool in fromList, 0 for NULL
  free,          \* the free pointer of each pool, as an offset from its start
  nPools,        \* pools obtained from allocPool so far
  forceCollect,  \* ggggc_forceCollect
  live,          \* objects placed since the semispaces were last exchanged
  old,           \* objects of the space being left that are not forwarded yet
  req,           \* size the running ggggc_malloc was asked for, 0 if none runs
  pc             \* where the library is

vars == <<fromList, toList, curPool, free, nPools, forceCollect, live, old, req, pc>>

Pool == 1 .. MaxPools

Object == [pool : Pool, start : Nat, size : Sizes]

(* Whether an object of s words goes into pool p: both ggggc_malloc and      *)
(* forward leave at least one word of every pool unused.                     *)
Fits(p, s) == free[p] + s < PoolWords

(* Bump allocation: the object at the free pointer of p, which then moves.   *)
Place(p, s) ==
  /\ live' = live \cup {[pool |-> p, start |-> free[p], size |-> s]}
  /\ free' = [free EXCEPT ![p] = @ + s]

Init ==
  /\ fromList = << >> /\ toList = << >>
  /\ curPool = 0
  /\ free = [p \in Pool |-> 0]
  /\ nPools = 0
  /\ forceCollect = FALSE
  /\ live = {} /\ old = {}
  /\ req = 0
  /\ pc = "run"

(***************************************************************************)
(* ggggc_malloc                                                            *)
(***************************************************************************)

(* The program calls ggggc_malloc, whose first statement is GGC_YIELD(). *)
Malloc(s) ==
  /\ pc = "run"
  /\ req' = s
  /\ pc' = "yield"
  /\ UNCHANGED <<fromList, toList, curPool, free, nPools, forceCollect, live, old>>

(* The lists do not exist yet: one pool for each. *)
FirstPools ==
  /\ pc = "alloc" /\ curPool = 0
  /\ nPools + 2 <= MaxPools
  /\ fromList' = <<nPools + 1>>
  /\ toList' = <<nPools + 2>>
  /\ nPools' = nPools + 2
  /\ free' = [free EXCEPT ![nPools + 1] = 0, ![nPools + 2] = 0]
  /\ curPool' = 1
  /\ forceCollect' = FALSE
  /\ UNCHANGED <<live, old, req, pc>>

(* The object fits into the current pool. *)
Bump ==
  /\ pc = "alloc" /\ curPool # 0
  /\ Fits(fromList[curPool], req)
  /\ Place(fromList[curPool], req)
  /\ req' = 0
  /\ pc' = "run"
  /\ UNCHANGED <<fromList, toList, curPool, nPools, forceCollect, old>>

(* Mutants of NextPool: it runs off the end of the list; it never advances.  *)
NextPoolUnguarded ==
  /\ pc = "alloc" /\ curPool # 0
  /\ ~Fits(fromList[curPool], req)
  /\ curPool' = curPool + 1
  /\ pc' = "yield"
  /\ UNCHANGED <<fromList, toList, free, nPools, forceCollect, live, old, req>>

NextPoolStays ==
  /\ pc = "alloc" /\ curPool # 0
  /\ ~Fits(fromList[curPool], req)
  /\ curPool < Len(fromList)
  /\ pc' = "yield"
  /\ UNCHANGED <<fromList, toList, curPool, free, nPools, forceCollect, live, old, req>>

(* It does not, but the list has a further pool: go there and start over.    *)
NextPool ==
  /\ pc = "alloc" /\ curPool # 0
  /\ ~Fits(fromList[curPool], req)
  /\ curPool < Len(fromList)
  /\ curPool' = curPool + 1
  /\ pc' = "yield"
  /\ UNCHANGED <<fromList, toList, free, nPools, forceCollect, live, old, req>>

(* Mutant of GrowAndPlace: the to list is not extended.                      *)
GrowFromOnly ==
  /\ pc = "alloc" /\ curPool # 0
  /\ ~Fits(fromList[curPool], req)
  /\ curPool = Len(fromList)
  /\ nPools + 2 <= MaxPools
  /\ fromList' = Append(fromList, nPools + 1)
  /\ nPools' = nPools + 2
  /\ curPool' = curPool + 1
  /\ forceCollect' = TRUE
  /\ live' = live \cup {[pool |-> nPools + 1, start |-> 0, size |-> req]}
  /\ free' = [free EXCEPT ![nPools + 1] = req]
  /\ req' = 0
  /\ pc' = "run"
  /\ UNCHANGED <<toList, old>>

(* It does not and this is the last pool: both lists get a new one, the      *)
(* object goes into the new pool of the from list, whatever its size, and    *)
(* the next yield has to collect.                                            *)
GrowAndPlace ==
  /\ pc = "alloc" /\ curPool # 0
  /\ ~Fits(fromList[curPool], req)
  /\ curPool = Len(fromList)
  /\ nPools + 2 <= MaxPools
  /\ fromList' = Append(fromList, nPools + 1)
  /\ toList' = Append(toList, nPools + 2)
  /\ nPools' = nPools + 2
  /\ curPool' = curPool + 1
  /\ forceCollect' = TRUE
  /\ live' = live \cup {[pool |-> nPools + 1, start |-> 0, size |-> req]}
  /\ free' = [free EXCEPT ![nPools + 1] = req, ![nPools + 2] = 0]
  /\ req' = 0
  /\ pc' = "run"
  /\ UNCHANGED old

(* One of the two newPool(1) calls finds no memory: allocPool aborts. *)
Abort ==
  /\ pc = "alloc"
  /\ nPools + 2 > MaxPools
  /\ curPool # 0 => curPool = Len(fromList) /\ ~Fits(fromList[curPool], req)
  /\ pc' = "abort"
  /\ UNCHANGED <<fromList, toList, curPool, free, nPools, forceCollect, live, old, req>>

(***************************************************************************)
(* ggggc_yield and ggggc_collect                                           *)
(***************************************************************************)

(* Mutants of Flip: the lists keep their roles; only the first pool of the   *)
(* new from list is emptied; every pool of both lists is emptied.            *)
FlipNoExchange ==
  /\ free' = [p \in Pool |-> IF \E i \in 1 .. Len(toList) : toList[i] = p
                             THEN 0 ELSE free[p]]
  /\ curPool' = 1
  /\ old' = live
  /\ live' = {}
  /\ UNCHANGED <<fromList, toList>>

FlipFirstOnly ==
  /\ fromList' = toList
  /\ toList' = fromList
  /\ free' = [free EXCEPT ![toList[1]] = 0]
  /\ curPool' = 1
  /\ old' = live
  /\ live' = {}

FlipEmptyAll ==
  /\ fromList' = toList
  /\ toList' = fromList
  /\ free' = [p \in Pool |-> 0]
  /\ curPool' = 1
  /\ old' = live
  /\ live' = {}

(* The start of ggggc_collect: exchange the lists, empty every pool of the   *)
(* new from list and make its first pool the current one.                    *)
Flip ==
  /\ fromList' = toList
  /\ toList' = fromList
  /\ free' = [p \in Pool |-> IF \E i \in 1 .. Len(toList) : toList[i] = p
                             THEN 0 ELSE free[p]]
  /\ curPool' = 1
  /\ old' = live
  /\ live' = {}

(* GGC_YIELD() with a collection pending: of ggggc_malloc, or, when no       *)
(* ggggc_malloc runs, of the program (GGC_PUSH_n, an explicit GGC_YIELD).    *)
BeginCollect ==
  /\ pc \in {"run", "yield"}
  /\ forceCollect
  /\ Flip
  /\ pc' = "collect"
  /\ UNCHANGED <<nPools, forceCollect, req>>

(* Mutant of NoCollect: the yield never looks at forceCollect.               *)
YieldIgnoresForce ==
  /\ pc = "yield"
  /\ pc' = "alloc"
  /\ UNCHANGED <<fromList, toList, curPool, free, nPools, forceCollect, live, old, req>>

(* GGC_YIELD() of ggggc_malloc with nothing pending. *)
NoCollect ==
  /\ pc = "yield"
  /\ ~forceCollect
  /\ pc' = "alloc"
  /\ UNCHANGED <<fromList, toList, curPool, free, nPools, forceCollect, live, old, req>>

(* forward copies an object that has not moved yet into the current pool. *)
Forward(o) ==
  /\ pc = "collect" /\ o \in old
  /\ Fits(fromList[curPool], o.size)
  /\ Place(fromList[curPool], o.size)
  /\ old' = old \ {o}
  /\ UNCHANGED <<fromList, toList, curPool, nPools, forceCollect, req, pc>>

(* The current pool is full: forward takes the next one without a check that *)
(* the object fits there.                                                    *)
ForwardNextPool(o) ==
  /\ pc = "collect" /\ o \in old
  /\ ~Fits(fromList[curPool], o.size)
  /\ curPool < Len(fromList)
  /\ curPool' = curPool + 1
  /\ Place(fromList[curPool + 1], o.size)
  /\ old' = old \ {o}
  /\ UNCHANGED <<fromList, toList, nPools, forceCollect, req, pc>>

(* The current pool is full and is the last: forward reads the free pointer  *)
(* of a NULL pool.                                                           *)
ForwardNoPool(o) ==
  /\ pc = "collect" /\ o \in old
  /\ ~Fits(fromList[curPool], o.size)
  /\ curPool = Len(fromList)
  /\ pc' = "crash"
  /\ UNCHANGED <<fromList, toList, curPool, free, nPools, forceCollect, live, old, req>>

(* Mutant of EndCollect: the request is not taken back.                      *)
EndCollectKeepsForce ==
  /\ pc = "collect"
  /\ old' = {}
  /\ pc' = IF req = 0 THEN "run" ELSE "alloc"
  /\ UNCHANGED <<fromList, toList, curPool, free, nPools, forceCollect, live, req>>

(* Every reachable object has been forwarded; what is left is garbage.       *)
EndCollect ==
  /\ pc = "collect"
  /\ forceCollect' = FALSE
  /\ old' = {}
  /\ pc' = IF req = 0 THEN "run" ELSE "alloc"
  /\ UNCHANGED <<fromList, toList, curPool, free, nPools, live, req>>

Library ==
  \/ FirstPools \/ Bump \/ NextPool \/ GrowAndPlace \/ Abort
  \/ (pc = "yield" /\ BeginCollect) \/ NoCollect
  \/ \E o \in old : Forward(o) \/ ForwardNextPool(o) \/ ForwardNoPool(o)
  \/ EndCollect

Next ==
  \/ \E s \in Sizes : Malloc(s)
  \/ (pc = "run" /\ BeginCollect)
  \/ Library

Spec == Init /\ [][Next]_vars

(* One thread runs the program, so a ggggc_malloc that was called runs on.   *)
FairSpec == Spec /\ WF_vars(Library)

(***************************************************************************)
(* Properties                                                              *)
(***************************************************************************)

TypeOK ==
  /\ fromList \in Seq(Pool) /\ toList \in Seq(Pool)
  /\ curPool \in 0 .. Len(fromList)
  /\ free \in [Pool -> Nat]
  /\ nPools \in 0 .. MaxPools
  /\ forceCollect \in BOOLEAN
  /\ live \subseteq Object /\ old \subseteq Object
  /\ req \in Sizes \cup {0}
  /\ pc \in {"run", "yield", "alloc", "collect", "crash", "abort"}

(* The semispaces always have the same number of pools, no pool occurs twice *)
(* in them, and none obtained is lost: ggggc_malloc extends both lists.      *)
SemispacesMatch ==
  /\ Len(fromList) = Len(toList)
  /\ Len(fromList) + Len(toList) = nPools
  /\ \A i, j \in 1 .. Len(fromList) :
       /\ fromList[i] # toList[j]
       /\ i # j => fromList[i] # fromList[j] /\ toList[i] # toList[j]

(* No two objects share a word and every object ends inside its pool and     *)
(* below its free pointer: the space being left as well as the one being     *)
(* filled, at every moment of a collection.                                  *)
NoOverlap ==
  /\ \A o \in live \cup old :
       o.start + o.size <= free[o.pool] /\ free[o.pool] < PoolWords
  /\ \A o, p \in live \cup old :
       o # p /\ o.pool = p.pool =>
         o.start + o.size <= p.start \/ p.start + p.size <= o.start

(* The pools after the current one are empty ("next pool should always be    *)
(* empty", collect.c:171): what forward relies on when it does not check.    *)
NextPoolsEmpty ==
  \A i \in 1 .. Len(fromList) : i > curPool => free[fromList[i]] = 0

(* New and evacuated objects are in the from list, the ones not evacuated    *)
(* yet in the to list: a collection never copies into the space it leaves.   *)
SpacesSeparate ==
  /\ \A o \in live : \E i \in 1 .. curPool : o.pool = fromList[i]
  /\ \A o \in old : \E i \in 1 .. Len(toList) : o.pool = toList[i]
  /\ pc \notin {"collect", "crash"} => old = {}

(* A collection is pending only while the from list has no unused pool: one  *)
(* is never run before the whole semispace has been filled.                  *)
CollectOnlyWhenFull ==
  forceCollect /\ pc \notin {"collect", "crash"} => curPool = Len(fromList)

(* Memory grows only by the pair of pools of a GrowAndPlace, and not again   *)
(* before the collection that this one has requested is over.                *)
GrowthIsFollowedByCollect ==
  [][nPools' # nPools => nPools' = nPools + 2 /\ ~forceCollect]_vars

(* A ggggc_malloc that was called returns, unless memory runs out or the     *)
(* collection it runs crashes.                                               *)
MallocReturns ==
  (req # 0) ~> (pc \in {"run", "abort", "crash"})

(* The live objects always fit into the pools of the to list: "assuming      *)
(* we're not allocating any objects larger than pool we can just do it".     *)
ToSpaceSuffices == pc # "crash"
=============================================================================
