-------------------------- MODULE CollectorProofs --------------------------
(***************************************************************************)
(* The collector is right for a program whose variables are all on the     *)
(* pointer stack, each registered once, which yields before it reads a     *)
(* descriptor, and whose descriptors have the masks of types: whatever the *)
(* graph, the number of objects and roots, and whenever it collects.       *)
(***************************************************************************)
EXTENDS Collector, SequenceTheorems, WellFoundedInduction, TLAPS

StackProgram == Twice = {} /\ ScopeVars = {} /\ YieldFirst /\ ~ClassMasks

(* The semispace objects are allocated in or copied to, and the other one.   *)
New == InUse(space)
Old == InUse(1 - space)

(* A sequence has x; it has nothing twice.                                   *)
On(x, s) == \E i \in 1 .. Len(s) : s[i] = x
Once(s) == \A i, j \in 1 .. Len(s) : s[i] = s[j] => i = j

OnStack(a) == On(a, markStack)

(* Between collections nothing of one is left; in a call no collection is    *)
(* pending.                                                                  *)
Quiet == ~Collecting => todo = {} /\ markStack = << >> /\ cur = 0 /\ rest = {}

Calls ==
  IF pc \in {"yield", "alloc"}
  THEN /\ ~force /\ made < MaxObjects
       /\ call.arg \in New /\ call.to \in Roots
       /\ call.shape = {} \/ 0 \in call.shape
  ELSE call.arg = 0

(* A root that has been processed is in the new semispace.                   *)
RootsAt ==
  /\ env[DD] # 0
  /\ \A r \in Roots : env[r] \in (IF r \in todo THEN Old ELSE New) \cup {0}

Stack ==
  /\ markStack \in Seq(New)
  /\ Once(markStack)
  /\ cur \in New \cup {0} /\ ~OnStack(cur)
  /\ rest # {} => cur \in New /\ todo = {}

(* A descriptor's mask is its shape, which has the header in it unless it is *)
(* that of objects without references.                                       *)
Masked(a) ==
  /\ mem[a].mask = mem[a].shape
  /\ mem[a].shape = {} \/ 0 \in mem[a].shape

(* An object has references only where its descriptor says so, which is      *)
(* where the program, which does not ask the descriptor, may put them.       *)
Typed(a) ==
  /\ mem[a].members = mem[mem[a].words[0]].mask
  /\ \A k \in Word \ {0} :
       mem[a].words[k] # 0 => {0, k} \subseteq mem[a].members

(* The words of a copy that scan is done with lead to copies, the others     *)
(* still to where the object was copied from.                                *)
NewObject(a) ==
  /\ mem[a].id \in 1 .. made /\ ~mem[a].moved /\ mem[a].words[0] # 0
  /\ \A k \in Word : mem[a].words[k] \in (IF k \in Done(a) THEN New ELSE Old) \cup {0}
  /\ Masked(a) /\ Typed(a)

(* An object that has moved leads to its copy, which passes for it as a      *)
(* descriptor.                                                               *)
OldObject(a) ==
  /\ mem[a].id \in 1 .. made
  /\ \A k \in Word \ {0} : mem[a].words[k] \in Old \cup {0}
  /\ Masked(a)
  /\ ~mem[a].moved => mem[a].words[0] \in Old /\ Typed(a)
  /\ mem[a].moved =>
       LET b == mem[a].words[0]
       IN  b \in New /\ mem[b].id = mem[a].id /\ mem[b].mask = mem[a].mask

Unique(S) == \A a, b \in S : mem[a].id = mem[b].id => a = b

(* Every copy is the one some object left its address for.                   *)
Origins == \A a \in New : \E b \in Old : mem[b].moved /\ mem[b].words[0] = a

Objects ==
  /\ \A a \in New : NewObject(a)
  /\ Collecting => (\A a \in Old : OldObject(a)) /\ Unique(Old) /\ Origins
  /\ ~Collecting => Unique(New)

IInv == TypeOK /\ Quiet /\ Calls /\ RootsAt /\ Stack /\ Objects

(***************************************************************************)
(* Addresses                                                               *)
(***************************************************************************)

(* The first f slots of semispace s and the first g of the other.            *)
LEMMA Spaces ==
  ASSUME NEW s \in {0, 1}, NEW f \in 0 .. Slots, NEW g \in 0 .. Slots
  PROVE  /\ 0 \notin Addr
         /\ \A i \in 1 .. f : Slot(s, i) \in Addr
         /\ \A i \in 1 .. f, j \in 1 .. g : Slot(s, i) # Slot(1 - s, j)
         /\ f < Slots => /\ Slot(s, f + 1) \in Addr
                         /\ \A i \in 1 .. f : Slot(s, i) # Slot(s, f + 1)
                         /\ \A j \in 1 .. g : Slot(1 - s, j) # Slot(s, f + 1)
<1> USE CollectorAssumption
<1>1. CASE s = 0
  BY <1>1 DEF Slot, Addr
<1>2. CASE s = 1
  BY <1>2 DEF Slot, Addr
<1> QED
  BY <1>1, <1>2

LEMMA Apart ==
  ASSUME TypeOK
  PROVE  /\ New \cap Old = {} /\ New \subseteq Addr /\ Old \subseteq Addr /\ 0 \notin Addr
         /\ 0 \notin New /\ 0 \notin Old
<1>1. /\ space \in {0, 1} /\ 1 - space \in {0, 1} /\ 1 - (1 - space) = space
      /\ free[space] \in 0 .. Slots /\ free[1 - space] \in 0 .. Slots
  BY DEF TypeOK
<1>2. /\ 0 \notin Addr
      /\ \A i \in 1 .. free[space] : Slot(space, i) \in Addr
      /\ \A i \in 1 .. free[space], j \in 1 .. free[1 - space] :
           Slot(space, i) # Slot(1 - space, j)
  BY <1>1, Spaces, Zenon
<1>3. \A j \in 1 .. free[1 - space] : Slot(1 - space, j) \in Addr
  BY <1>1, Spaces, Zenon
<1> QED
  BY <1>2, <1>3, Zenon DEF New, Old, InUse

(* The next free slot is in use by nothing yet; taking it makes it new.      *)
LEMMA Fresh ==
  ASSUME TypeOK, free[space] < Slots
  PROVE  /\ NextSlot \in Addr /\ NextSlot \notin New /\ NextSlot \notin Old
         /\ space' = space /\ free' = [free EXCEPT ![space] = @ + 1]
            => New' = New \cup {NextSlot} /\ Old' = Old
<1>1. /\ space \in {0, 1} /\ 1 - space \in {0, 1} /\ 1 - space # space
      /\ free[space] \in 0 .. Slots /\ free[1 - space] \in 0 .. Slots
      /\ free \in [{0, 1} -> 0 .. Slots]
  BY DEF TypeOK
<1>2. NextSlot \in Addr /\ NextSlot \notin New /\ NextSlot \notin Old
  <2>1. /\ Slot(space, free[space] + 1) \in Addr
        /\ \A i \in 1 .. free[space] : Slot(space, i) # Slot(space, free[space] + 1)
        /\ \A j \in 1 .. free[1 - space] : Slot(1 - space, j) # Slot(space, free[space] + 1)
    BY <1>1, Spaces, Zenon
  <2> QED
    BY <2>1, Zenon DEF NextSlot, New, Old, InUse
<1>3. ASSUME space' = space, free' = [free EXCEPT ![space] = @ + 1]
      PROVE  New' = New \cup {NextSlot} /\ Old' = Old
  <2>1. free'[space] = free[space] + 1 /\ free'[1 - space] = free[1 - space]
    BY <1>1, <1>3
  <2>2. 1 .. free[space] + 1 = (1 .. free[space]) \cup {free[space] + 1}
    BY <1>1
  <2>3. New' = {Slot(space, i) : i \in 1 .. free[space] + 1}
    BY <1>3, <2>1, Zenon DEF New, InUse
  <2>4. Old' = Old
    BY <1>3, <2>1, Zenon DEF Old, InUse
  <2> QED
    BY <2>2, <2>3, <2>4, Zenon DEF New, InUse, NextSlot
<1> QED
  BY <1>2, <1>3

LEMMA SameSpaces ==
  ASSUME UNCHANGED <<space, free>>
  PROVE  New' = New /\ Old' = Old
BY DEF New, Old, InUse

(***************************************************************************)
(* The mark stack                                                          *)
(***************************************************************************)

LEMMA Larger ==
  ASSUME NEW S, NEW T, S \subseteq T, NEW s \in Seq(S)
  PROVE  s \in Seq(T)
OBVIOUS

LEMMA Pushed ==
  ASSUME NEW S, NEW s \in Seq(S), NEW n
  PROVE  /\ <<n>> \o s \in Seq(S \cup {n})
         /\ \A x : On(x, <<n>> \o s) <=> x = n \/ On(x, s)
         /\ Once(s) /\ ~On(n, s) => Once(<<n>> \o s)
<1> DEFINE t == <<n>> \o s
<1>1. <<n>> \in Seq(S \cup {n}) /\ s \in Seq(S \cup {n})
  OBVIOUS
<1>2. t \in Seq(S \cup {n})
  BY <1>1, ConcatProperties, Zenon
<1>3. Len(t) = Len(s) + 1 /\ Len(s) \in Nat
  BY <1>1
<1>4. t[1] = n /\ \A i \in 1 .. Len(s) : t[i + 1] = s[i]
  BY <1>1
<1>5. \A i \in 1 .. Len(t) : i = 1 \/ (i - 1 \in 1 .. Len(s) /\ t[i] = s[i - 1])
  BY <1>3, <1>4
<1> HIDE DEF t
<1>6. \A x : On(x, t) <=> x = n \/ On(x, s)
  <2>1. ASSUME NEW x, On(x, t) PROVE x = n \/ On(x, s)
    BY <1>4, <1>5, <2>1 DEF On
  <2>2. On(n, t)
    BY <1>3, <1>4 DEF On
  <2>3. ASSUME NEW x, On(x, s) PROVE On(x, t)
    <3>1. PICK i \in 1 .. Len(s) : s[i] = x
      BY <2>3 DEF On
    <3>2. i + 1 \in 1 .. Len(t) /\ t[i + 1] = x
      BY <1>3, <1>4, <3>1
    <3> QED
      BY <3>2 DEF On
  <2> QED
    BY <2>1, <2>2, <2>3
<1>7. ASSUME Once(s), ~On(n, s) PROVE Once(t)
  <2> SUFFICES ASSUME NEW i \in 1 .. Len(t), NEW j \in 1 .. Len(t), t[i] = t[j]
               PROVE  i = j
    BY DEF Once
  <2>1. CASE i = 1 \/ j = 1
    BY <1>3, <1>4, <1>5, <1>7, <2>1 DEF On
  <2>2. CASE i # 1 /\ j # 1
    <3>1. /\ i - 1 \in 1 .. Len(s) /\ j - 1 \in 1 .. Len(s)
          /\ s[i - 1] = s[j - 1]
      BY <1>5, <2>2
    <3>2. i - 1 = j - 1
      BY <1>7, <3>1, Zenon DEF Once
    <3> QED
      BY <1>3, <3>2
  <2> QED
    BY <2>1, <2>2
<1> QED
  BY <1>2, <1>6, <1>7 DEF t

LEMMA Popped ==
  ASSUME NEW S, NEW s \in Seq(S), s # << >>, Once(s)
  PROVE  /\ Head(s) \in S /\ On(Head(s), s)
         /\ Tail(s) \in Seq(S)
         /\ \A x : On(x, Tail(s)) <=> x # Head(s) /\ On(x, s)
         /\ Once(Tail(s))
<1> DEFINE t == Tail(s)
<1>1. /\ Len(s) \in Nat /\ Len(s) > 0 /\ Head(s) = s[1]
      /\ t \in Seq(S) /\ Len(t) = Len(s) - 1
      /\ \A i \in 1 .. Len(t) : t[i] = s[i + 1]
      /\ \A i \in 1 .. Len(s) : s[i] \in S
  OBVIOUS
<1> HIDE DEF t
<1>2. Head(s) \in S /\ On(Head(s), s)
  BY <1>1 DEF On
<1>3. ASSUME NEW x, On(x, t) PROVE x # Head(s) /\ On(x, s)
  <2>1. PICK i \in 1 .. Len(t) : t[i] = x
    BY <1>3 DEF On
  <2>2. i + 1 \in 1 .. Len(s) /\ s[i + 1] = x /\ i + 1 # 1 /\ 1 \in 1 .. Len(s)
    BY <1>1, <2>1
  <2>3. s[i + 1] # s[1]
    BY <2>2 DEF Once
  <2> QED
    BY <1>1, <2>2, <2>3 DEF On
<1>4. ASSUME NEW x, x # Head(s), On(x, s) PROVE On(x, t)
  <2>1. PICK i \in 1 .. Len(s) : s[i] = x
    BY <1>4 DEF On
  <2>2. i - 1 \in 1 .. Len(t) /\ t[i - 1] = x
    BY <1>1, <1>4, <2>1
  <2> QED
    BY <2>2 DEF On
<1>5. Once(t)
  <2> SUFFICES ASSUME NEW i \in 1 .. Len(t), NEW j \in 1 .. Len(t), t[i] = t[j]
               PROVE  i = j
    BY DEF Once
  <2>1. i + 1 \in 1 .. Len(s) /\ j + 1 \in 1 .. Len(s) /\ s[i + 1] = s[j + 1]
    BY <1>1
  <2>2. i + 1 = j + 1
    BY <2>1, Zenon DEF Once
  <2> QED
    BY <1>1, <2>2
<1> QED
  BY <1>1, <1>2, <1>3, <1>4, <1>5 DEF t

(***************************************************************************)
(* ggggc_process                                                           *)
(***************************************************************************)

(* What has moved, and NULL, stays where it is.                              *)
LEMMA Stays ==
  ASSUME IInv, Collecting, NEW a \in Old \cup {0}, NEW m,
         a = 0 \/ mem[a].moved, MoveIn(a, m)
  PROVE  /\ mem' = m /\ UNCHANGED <<free, markStack>>
         /\ Forwarded(a) \in New \cup {0}
         /\ a # 0 => /\ Forwarded(a) # 0
                     /\ mem[Forwarded(a)].mask = mem[a].mask
<1>1. mem' = m /\ UNCHANGED <<free, markStack>>
  BY DEF MoveIn
<1>2. CASE a = 0
  BY <1>1, <1>2 DEF Forwarded
<1>3. CASE a # 0
  <2>1. OldObject(a) /\ mem[a].moved /\ Forwarded(a) = mem[a].words[0]
    BY <1>3 DEF IInv, Objects, Forwarded
  <2>2. mem[a].words[0] \in New /\ mem[mem[a].words[0]].mask = mem[a].mask
    BY <2>1 DEF OldObject
  <2>3. 0 \notin New
    BY Apart DEF IInv
  <2> QED
    BY <1>1, <1>3, <2>1, <2>2, <2>3
<1> QED
  BY <1>2, <1>3

(* An object with a forwarding address in its header.                        *)
LEMMA Marked ==
  ASSUME NEW o \in Object, NEW n \in Ref,
         NEW w \in [Word -> Ref], w = [o.words EXCEPT ![0] = n],
         NEW p, p = [id |-> o.id, moved |-> TRUE, words |-> w,
                     members |-> o.members, shape |-> o.shape,
                     mask |-> o.mask]
  PROVE  /\ p \in Object
         /\ p.moved /\ p.words[0] = n
         /\ p.id = o.id /\ p.shape = o.shape /\ p.members = o.members /\ p.mask = o.mask
         /\ \A k \in Word \ {0} : p.words[k] = o.words[k]
<1>1. 0 \in Word
  BY CollectorAssumption DEF Word
<1>2. o.words \in [Word -> Ref]
  BY DEF Object
<1>3. w[0] = n /\ \A k \in Word \ {0} : w[k] = o.words[k]
  BY <1>1, <1>2
<1>4. p.words = w /\ p.moved = TRUE /\ p.id = o.id /\ p.shape = o.shape
                  /\ p.members = o.members /\ p.mask = o.mask
  BY DEF Object
<1>5. p \in Object
  BY DEF Object
<1> QED
  BY <1>3, <1>4, <1>5

(* Anything else is copied to the next slot and leaves its address behind.   *)
LEMMA Copies ==
  ASSUME IInv, Collecting, NEW a \in Old, ~mem[a].moved,
         NEW m \in [Addr -> Object], m[a] = mem[a], MoveIn(a, m), space' = space
  PROVE  LET n == NextSlot
         IN  /\ n \in Addr /\ n \notin New /\ n \notin Old /\ n # 0
             /\ New' = New \cup {n} /\ Old' = Old
             /\ free' \in [{0, 1} -> 0 .. Slots]
             /\ Forwarded(a) = n
             /\ markStack' = <<n>> \o markStack
             /\ mem' \in [Addr -> Object]
             /\ mem'[n] = mem[a]
             /\ mem'[a].moved /\ mem'[a].words[0] = n
             /\ mem'[a].id = mem[a].id /\ mem'[a].shape = mem[a].shape
             /\ mem'[a].members = mem[a].members
             /\ mem'[a].mask = mem[a].mask
             /\ \A k \in Word \ {0} : mem'[a].words[k] = mem[a].words[k]
             /\ \A x \in Addr : x # a /\ x # n => mem'[x] = m[x]
<1> DEFINE n == NextSlot
<1>1. TypeOK /\ a \in Addr /\ a # 0
  BY Apart DEF IInv
<1>2. /\ free[space] < Slots
      /\ mem' = [m EXCEPT ![n] = mem[a], ![a].moved = TRUE, ![a].words[0] = n]
      /\ free' = [free EXCEPT ![space] = @ + 1]
      /\ markStack' = <<n>> \o markStack
  BY <1>1 DEF MoveIn
<1>3. n \in Addr /\ n \notin New /\ n \notin Old /\ New' = New \cup {n} /\ Old' = Old
  BY <1>1, <1>2, Fresh
<1>4. n # 0 /\ n # a
  BY <1>1, <1>3, Apart
<1>5. free' \in [{0, 1} -> 0 .. Slots]
  <2>1. free \in [{0, 1} -> 0 .. Slots] /\ space \in {0, 1} /\ Slots \in Nat
    BY <1>1, CollectorAssumption DEF TypeOK
  <2> QED
    BY <1>2, <2>1
<1>6. Forwarded(a) = n
  BY <1>1 DEF Forwarded
<1>7. 0 \in Word /\ n \in Ref
  BY <1>3, CollectorAssumption DEF Word, Ref
<1> HIDE DEF n
<1>8. mem[a] \in Object
  BY <1>1 DEF TypeOK
<1> DEFINE w == [mem[a].words EXCEPT ![0] = n]
<1>9. /\ mem'[n] = mem[a]
      /\ mem'[a] = [id |-> mem[a].id, moved |-> TRUE, words |-> w,
                    members |-> mem[a].members, shape |-> mem[a].shape, mask |-> mem[a].mask]
      /\ \A x \in Addr : x # a /\ x # n => mem'[x] = m[x]
      /\ DOMAIN mem' = Addr
  BY <1>1, <1>2, <1>3, <1>4, <1>8 DEF Object
<1> w \in [Word -> Ref] /\ w = [mem[a].words EXCEPT ![0] = n]
  BY <1>7, <1>8 DEF Object
<1> HIDE DEF w
<1>10. /\ mem'[a] \in Object
       /\ mem'[a].moved /\ mem'[a].words[0] = n
       /\ mem'[a].id = mem[a].id /\ mem'[a].shape = mem[a].shape
       /\ mem'[a].members = mem[a].members
       /\ mem'[a].mask = mem[a].mask
       /\ \A k \in Word \ {0} : mem'[a].words[k] = mem[a].words[k]
  BY <1>7, <1>8, <1>9, Marked
<1>11. mem' \in [Addr -> Object]
  <2>1. \A x \in Addr : mem'[x] \in Object
    BY <1>8, <1>9, <1>10
  <2>2. mem' = [x \in Addr |-> mem'[x]]
    BY <1>2, <1>9
  <2> QED
    BY <2>1, <2>2
<1> QED
  BY <1>2, <1>3, <1>4, <1>5, <1>6, <1>9, <1>10, <1>11 DEF n

(* Memory m differs from mem in words of copies only.                        *)
Patch(m) ==
  /\ m \in [Addr -> Object]
  /\ \A x \in Old : m[x] = mem[x]
  /\ \A x \in New : /\ m[x].id = mem[x].id /\ m[x].moved = mem[x].moved
                    /\ m[x].shape = mem[x].shape
                    /\ m[x].members = mem[x].members /\ m[x].mask = mem[x].mask

(* What ggggc_process does, whichever it is: there may be one more copy, on  *)
(* the mark stack; the invariant of the old semispace is kept, and the new   *)
(* copy has its own.                                                         *)
Evacuates(a, m) ==
  /\ Old' = Old /\ New \subseteq New' /\ New' \subseteq Addr
  /\ mem' \in [Addr -> Object] /\ free' \in [{0, 1} -> 0 .. Slots]
  /\ Forwarded(a) \in New' \cup {0}
  /\ a # 0 => Forwarded(a) # 0 /\ mem'[Forwarded(a)].mask = mem[a].mask
  /\ \A x \in New : mem'[x] = m[x] /\ (OnStack(x)' <=> OnStack(x))
  /\ \A x \in New \cup Old : mem'[x].mask = mem[x].mask
  /\ \A x \in New' : x \notin New => NewObject(x)'
  /\ \A x \in Old : OldObject(x)'
  /\ Unique(Old)' /\ Origins'
  /\ markStack' \in Seq(New') /\ Once(markStack') /\ ~OnStack(cur)'

LEMMA DoneWith ==
  ASSUME NEW a, NEW k \in Word
  PROVE  k \in Done(a) <=> ~OnStack(a) /\ ~(a = cur /\ k \in rest)
BY DEF Done, OnStack, On

LEMMA EvacuateStays ==
  ASSUME IInv, Collecting, NEW a \in Old \cup {0}, NEW m, Patch(m),
         a = 0 \/ mem[a].moved, MoveIn(a, m), UNCHANGED <<space, cur, made>>
  PROVE  Evacuates(a, m)
<1>1. /\ mem' = m /\ UNCHANGED <<free, markStack>>
      /\ Forwarded(a) \in New \cup {0}
      /\ a # 0 => Forwarded(a) # 0 /\ mem[Forwarded(a)].mask = mem[a].mask
  BY Stays
<1>2. New' = New /\ Old' = Old /\ New \subseteq Addr
  BY <1>1, SameSpaces, Apart DEF IInv
<1>3. \A x \in New \cup Old : /\ mem'[x].mask = mem[x].mask /\ mem'[x].shape = mem[x].shape
                              /\ mem'[x].members = mem[x].members
                              /\ mem'[x].id = mem[x].id
  BY <1>1 DEF Patch
<1>4. \A x \in Old : mem'[x] = mem[x]
  BY <1>1 DEF Patch
<1>5. \A x : OnStack(x)' <=> OnStack(x)
  BY <1>1 DEF OnStack
<1>6. ASSUME NEW x \in Old PROVE OldObject(x)'
  <2>1. OldObject(x) /\ 0 \in Word
    BY CollectorAssumption DEF IInv, Objects, Word
  <2>2. mem'[x] = mem[x]
    BY <1>4
  <2>3. Typed(x) => Typed(x)' \/ mem[x].words[0] \notin Old
    BY <1>3, <2>2 DEF Typed
  <2> QED
    BY <1>2, <1>3, <2>1, <2>2, <2>3, Zenon DEF OldObject, Masked
<1>7. Unique(Old)'
  BY <1>2, <1>4 DEF Unique, IInv, Objects
<1>8. Origins'
  BY <1>2, <1>4, Zenon DEF Origins, IInv, Objects
<1>9. markStack' \in Seq(New') /\ Once(markStack') /\ ~OnStack(cur)'
  BY <1>1, <1>2, <1>5 DEF IInv, Stack, OnStack
<1>10. free' \in [{0, 1} -> 0 .. Slots] /\ mem' \in [Addr -> Object]
  BY <1>1 DEF IInv, TypeOK, Patch
<1> QED
  BY <1>1, <1>2, <1>3, <1>5, <1>6, <1>7, <1>8, <1>9, <1>10 DEF Evacuates

LEMMA EvacuateCopies ==
  ASSUME IInv, Collecting, NEW a \in Old, NEW m, Patch(m),
         ~mem[a].moved, MoveIn(a, m), UNCHANGED <<space, cur, made>>
  PROVE  Evacuates(a, m)
<1>1. PICK n : n = NextSlot
  OBVIOUS
<1>2. /\ n \in Addr /\ n \notin New /\ n \notin Old /\ n # 0
      /\ New' = New \cup {n} /\ Old' = Old
      /\ free' \in [{0, 1} -> 0 .. Slots]
      /\ Forwarded(a) = n
      /\ markStack' = <<n>> \o markStack
      /\ mem' \in [Addr -> Object]
      /\ mem'[n] = mem[a]
      /\ mem'[a].moved /\ mem'[a].words[0] = n
      /\ mem'[a].id = mem[a].id /\ mem'[a].shape = mem[a].shape
      /\ mem'[a].members = mem[a].members
      /\ mem'[a].mask = mem[a].mask
      /\ \A k \in Word \ {0} : mem'[a].words[k] = mem[a].words[k]
      /\ \A x \in Addr : x # a /\ x # n => mem'[x] = m[x]
  BY <1>1, Copies DEF Patch
<1>3. /\ New \cap Old = {} /\ New \subseteq Addr /\ Old \subseteq Addr
      /\ a \notin New
  BY Apart DEF IInv
<1>4. /\ \A x \in New : mem'[x] = m[x]
      /\ \A x \in Old : x # a => mem'[x] = mem[x]
  BY <1>2, <1>3 DEF Patch
<1>5. \A x \in New \cup Old : /\ mem'[x].mask = mem[x].mask
                              /\ mem'[x].shape = mem[x].shape
                              /\ mem'[x].members = mem[x].members
                              /\ mem'[x].id = mem[x].id
  BY <1>2, <1>4, Zenon DEF Patch
<1>6. /\ markStack \in Seq(New) /\ Once(markStack) /\ ~OnStack(n)
      /\ cur # n /\ ~OnStack(cur)
  <2>1. markStack \in Seq(New) /\ Once(markStack) /\ cur \in New \cup {0} /\ ~OnStack(cur)
    BY DEF IInv, Stack
  <2>2. ~OnStack(n)
    BY <1>2, <2>1 DEF OnStack, On
  <2> QED
    BY <1>2, <2>1, <2>2
<1>7. /\ markStack' \in Seq(New') /\ Once(markStack')
      /\ \A x : OnStack(x)' <=> x = n \/ OnStack(x)
  BY <1>2, <1>6, Pushed, Zenon DEF OnStack
<1>8. OldObject(a) /\ 0 \in Word
  BY CollectorAssumption DEF IInv, Objects, Word
<1>9. NewObject(n)'
  <2>1. mem[a].words[0] \in Old /\ Typed(a) /\ Masked(a) /\ mem[a].id \in 1 .. made
    BY <1>8 DEF OldObject
  <2>2. Typed(n)'
    BY <1>2, <1>5, <2>1, Zenon DEF Typed
  <2>3. \A k \in Word : mem'[n].words[k] \in Old' \cup {0} /\ ~(k \in Done(n)')
    <3>1. \A k \in Word : mem[a].words[k] \in Old \cup {0}
      BY <1>8, <2>1 DEF OldObject
    <3>2. Done(n)' = {}
      BY <1>7 DEF Done, OnStack, On
    <3> QED
      BY <1>2, <3>1, <3>2
  <2>4. mem'[n].words[0] # 0
    BY <1>2, <2>1, Apart DEF IInv
  <2> QED
    BY <1>2, <2>1, <2>2, <2>3, <2>4, Zenon DEF NewObject, Masked
<1>10. ASSUME NEW x \in Old PROVE OldObject(x)'
  <2>1. OldObject(x)
    BY DEF IInv, Objects
  <2>2. CASE x = a
    BY <1>2, <1>5, <2>1, <2>2, Zenon DEF OldObject, Masked
  <2>3. CASE x # a
    <3>1. mem'[x] = mem[x]
      BY <1>4, <2>3
    <3>2. Typed(x) => Typed(x)' \/ mem[x].words[0] \notin Old
      BY <1>5, <3>1, Zenon DEF Typed
    <3>3. /\ mem'[x].id \in 1 .. made'
          /\ \A k \in Word \ {0} : mem'[x].words[k] \in Old' \cup {0}
          /\ Masked(x)'
          /\ ~mem'[x].moved => mem'[x].words[0] \in Old' /\ Typed(x)'
      BY <1>2, <2>1, <3>1, <3>2, Zenon DEF OldObject, Masked
    <3>4. ASSUME mem'[x].moved
          PROVE  /\ mem'[x].words[0] \in New'
                 /\ mem'[mem'[x].words[0]].id = mem'[x].id
                 /\ mem'[mem'[x].words[0]].mask = mem'[x].mask
      <4>1. /\ mem[x].words[0] \in New
            /\ mem[mem[x].words[0]].id = mem[x].id
            /\ mem[mem[x].words[0]].mask = mem[x].mask
        BY <2>1, <3>1, <3>4 DEF OldObject
      <4> QED
        BY <1>2, <1>5, <3>1, <4>1
    <3> QED
      BY <3>3, <3>4 DEF OldObject
  <2> QED
    BY <2>2, <2>3
<1>11. Unique(Old)'
  <2>1. \A x, y \in Old : mem[x].id = mem[y].id => x = y
    BY DEF Unique, IInv, Objects
  <2> QED
    BY <1>2, <1>5, <2>1 DEF Unique
<1>12. Origins'
  <2> SUFFICES ASSUME NEW c \in New'
               PROVE  \E b \in Old : mem'[b].moved /\ mem'[b].words[0] = c
    BY <1>2 DEF Origins
  <2>1. CASE c = n
    BY <1>2, <2>1
  <2>2. CASE c # n
    <3>1. PICK b \in Old : mem[b].moved /\ mem[b].words[0] = c
      BY <1>2, <2>2, Zenon DEF IInv, Objects, Origins
    <3>2. b # a
      BY <3>1
    <3> QED
      BY <1>4, <3>1, <3>2
  <2> QED
    BY <2>1, <2>2
<1>13. \A x \in New' : x \notin New => NewObject(x)'
  BY <1>2, <1>9
<1>14. Forwarded(a) \in New' \cup {0} /\ mem'[Forwarded(a)].mask = mem[a].mask
  BY <1>2
<1>15. /\ \A x \in New : OnStack(x)' <=> OnStack(x)
       /\ ~OnStack(cur)'
  BY <1>2, <1>6, <1>7
<1>16. Old' = Old /\ New \subseteq New' /\ New' \subseteq Addr /\ Forwarded(a) # 0
  BY <1>2, <1>3
<1> QED
  BY <1>2, <1>4, <1>5, <1>7, <1>10, <1>11, <1>12, <1>13, <1>14, <1>15, <1>16, Zenon
  DEF Evacuates

LEMMA Evacuate ==
  ASSUME IInv, Collecting, NEW a \in Old \cup {0}, NEW m, Patch(m),
         MoveIn(a, m), UNCHANGED <<space, cur, made>>
  PROVE  Evacuates(a, m)
<1>1. CASE a = 0 \/ mem[a].moved
  BY <1>1, EvacuateStays
<1>2. CASE ~(a = 0 \/ mem[a].moved)
  BY <1>2, EvacuateCopies
<1> QED
  BY <1>1, <1>2

(* A copy none of whose words is processed keeps its invariant.              *)
LEMMA KeepsCopy ==
  ASSUME IInv, NEW a, NEW m, Evacuates(a, m), NEW x \in New, m[x] = mem[x],
         UNCHANGED <<cur, made>>, x = cur => rest' = rest
  PROVE  NewObject(x)'
<1>1. NewObject(x) /\ 0 \in Word
  BY CollectorAssumption DEF IInv, Objects, Word
<1>2. mem'[x] = mem[x] /\ (OnStack(x)' <=> OnStack(x))
      /\ Old' = Old /\ New \subseteq New'
  BY DEF Evacuates
<1>3. \A k \in Word : k \in Done(x)' <=> k \in Done(x)
  <2>1. \A k \in Word : k \in Done(x) <=> ~OnStack(x) /\ ~(x = cur /\ k \in rest)
    BY DoneWith
  <2>2. \A k \in Word : k \in Done(x)' <=> ~OnStack(x)' /\ ~(x = cur' /\ k \in rest')
    BY DEF Done, OnStack, On
  <2> QED
    BY <1>2, <2>1, <2>2
<1>4. \A k \in Word : mem'[x].words[k] \in (IF k \in Done(x)' THEN New' ELSE Old') \cup {0}
  BY <1>1, <1>2, <1>3 DEF NewObject
<1>5. mem'[mem[x].words[0]].mask = mem[mem[x].words[0]].mask
  <2>1. mem[x].words[0] \in New \cup Old
    BY <1>1 DEF NewObject
  <2> QED
    BY <2>1 DEF Evacuates
<1>6. Masked(x)' /\ Typed(x)'
  BY <1>1, <1>2, <1>5, Zenon DEF NewObject, Masked, Typed
<1> QED
  BY <1>1, <1>2, <1>4, <1>6 DEF NewObject

(* What is left to show of a step that processes a root or a word.           *)
LEMMA Processes ==
  ASSUME IInv, Collecting, NEW a, NEW m, Evacuates(a, m),
         UNCHANGED <<space, depth, force, call, pc, cur, made, collections>>,
         env' \in [Locations -> Ref], RootsAt',
         todo' \subseteq todo, rest' \subseteq rest, todo = {} => todo' = {},
         \A x \in New : NewObject(x)'
  PROVE  IInv'
<1>1. TypeOK'
  <2>1. markStack' \in Seq(Addr)
    BY Larger DEF Evacuates
  <2> QED
    BY <2>1 DEF IInv, TypeOK, Evacuates
<1>2. Quiet' /\ Calls'
  BY DEF IInv, Quiet, Calls, Collecting
<1>3. Stack'
  BY DEF IInv, Stack, Evacuates
<1>4. Objects'
  <2>1. \A x \in New' : NewObject(x)'
    BY DEF Evacuates
  <2> QED
    BY <2>1 DEF Objects, Evacuates, Collecting
<1> QED
  BY <1>1, <1>2, <1>3, <1>4 DEF IInv

(* On a program of this kind the collector's roots are the variables.        *)
LEMMA StackRoots ==
  ASSUME StackProgram
  PROVE  /\ Entries = {} /\ Locations = Roots /\ Registered = Roots
         /\ \A r \in Roots : Variable(r) = r
         /\ DataVars \subseteq Roots /\ DescVars \subseteq Roots /\ DD \in Roots
         /\ DD \notin DataVars /\ DD \notin DescVars
<1>1. Entries = {} /\ Locations = Roots /\ Registered = Roots
  BY DEF StackProgram, Entries, Locations, Registered
<1>2. \A r \in Roots : Variable(r) = r
  BY DEF Roots, DataVars, DescVars, DD, Variable
<1>3. DataVars \subseteq Roots /\ DescVars \subseteq Roots /\ DD \in Roots
  BY DEF Roots
<1>4. DD \notin DataVars /\ DD \notin DescVars
  BY CollectorAssumption DEF DataVars, DescVars, DD
<1> QED
  BY <1>1, <1>2, <1>3, <1>4

LEMMA RootStep ==
  ASSUME StackProgram, IInv, NEW r \in Registered, ProcessRoot(r)
  PROVE  IInv'
<1>1. r \in Roots /\ Variable(r) = r /\ Locations = Roots /\ r \in todo
  BY StackRoots DEF ProcessRoot
<1>2. PICK a : a = env[r]
  OBVIOUS
<1>3. a \in Old \cup {0} /\ rest = {}
  BY <1>1, <1>2 DEF IInv, RootsAt, Stack
<1>4. /\ Collecting /\ MoveIn(a, mem)
      /\ env' = [env EXCEPT ![r] = Forwarded(a)]
      /\ todo' = todo \ {r}
      /\ UNCHANGED <<space, depth, force, call, pc, cur, rest, made, collections>>
  BY <1>1, <1>2 DEF ProcessRoot
<1>5. Patch(mem)
  BY DEF Patch, IInv, TypeOK
<1>6. Evacuates(a, mem)
  BY <1>3, <1>4, <1>5, Evacuate
<1>7. env \in [Roots -> Ref]
  BY <1>1 DEF IInv, TypeOK
<1>8. Forwarded(a) \in Ref
  BY <1>6 DEF Evacuates, Ref
<1>9. env' \in [Locations -> Ref]
  BY <1>1, <1>4, <1>7, <1>8
<1>10. RootsAt'
  <2>1. /\ env[DD] # 0 /\ DD \in Roots
        /\ \A q \in Roots : env[q] \in (IF q \in todo THEN Old ELSE New) \cup {0}
    BY StackRoots DEF IInv, RootsAt
  <2>2. /\ Old' = Old /\ New \subseteq New' /\ Forwarded(a) \in New' \cup {0}
        /\ a # 0 => Forwarded(a) # 0
    BY <1>6 DEF Evacuates
  <2>3. env'[r] = Forwarded(a) /\ \A q \in Roots : q # r => env'[q] = env[q]
    BY <1>1, <1>4, <1>7
  <2>4. \A q \in Roots : env'[q] \in (IF q \in todo' THEN Old' ELSE New') \cup {0}
    BY <1>4, <2>1, <2>2, <2>3
  <2>5. env'[DD] # 0
    BY <1>2, <2>1, <2>2, <2>3
  <2> QED
    BY <2>4, <2>5 DEF RootsAt
<1>11. \A x \in New : NewObject(x)'
  BY <1>4, <1>6, KeepsCopy
<1> QED
  BY <1>3, <1>4, <1>6, <1>9, <1>10, <1>11, Processes

(* A word of the object at x gets the value v.                               *)
Written(m, x, k, v) == m = [mem EXCEPT ![x].words[k] = v]

LEMMA WrittenIs ==
  ASSUME mem \in [Addr -> Object], NEW x \in Addr, NEW k \in Word, NEW v \in Ref, NEW m,
         Written(m, x, k, v)
  PROVE  /\ m \in [Addr -> Object] /\ m[x].words[k] = v
         /\ \A y \in Addr : /\ m[y].id = mem[y].id /\ m[y].moved = mem[y].moved
                            /\ m[y].shape = mem[y].shape
                            /\ m[y].members = mem[y].members /\ m[y].mask = mem[y].mask
         /\ \A y \in Addr : y # x => m[y] = mem[y]
         /\ \A y \in Addr, j \in Word : y # x \/ j # k => m[y].words[j] = mem[y].words[j]
<1>1. mem[x].words \in [Word -> Ref] /\ \A y \in Addr : mem[y] \in Object
  BY DEF Object
<1>2. PICK w \in [Word -> Ref] : w = [mem[x].words EXCEPT ![k] = v]
  BY <1>1
<1>3. w[k] = v /\ \A j \in Word : j # k => w[j] = mem[x].words[j]
  BY <1>1, <1>2
<1>4. /\ m[x] = [id |-> mem[x].id, moved |-> mem[x].moved, words |-> w,
                 members |-> mem[x].members, shape |-> mem[x].shape, mask |-> mem[x].mask]
      /\ \A y \in Addr : y # x => m[y] = mem[y]
      /\ m = [y \in Addr |-> m[y]]
  BY <1>1, <1>2 DEF Object, Written
<1>5. /\ m[x].id = mem[x].id /\ m[x].moved = mem[x].moved /\ m[x].words = w
      /\ m[x].shape = mem[x].shape
      /\ m[x].members = mem[x].members /\ m[x].mask = mem[x].mask
      /\ m[x] \in Object
  BY <1>1, <1>4 DEF Object
<1>6. m \in [Addr -> Object]
  BY <1>1, <1>4, <1>5
<1>7. \A y \in Addr : /\ m[y].id = mem[y].id /\ m[y].moved = mem[y].moved
                      /\ m[y].shape = mem[y].shape
                      /\ m[y].members = mem[y].members /\ m[y].mask = mem[y].mask
  BY <1>4, <1>5
<1>8. \A y \in Addr, j \in Word : y # x \/ j # k => m[y].words[j] = mem[y].words[j]
  BY <1>3, <1>4, <1>5
<1>9. m[x].words[k] = v
  BY <1>3, <1>5
<1> QED
  BY <1>4, <1>6, <1>7, <1>8, <1>9

(* What ggggc_process of a word writes, to its copy or beside it.            *)
LEMMA WordPatched ==
  ASSUME IInv, Collecting, cur \in New, NEW k \in Word, NEW a \in Old \cup {0}, NEW m,
         Written(m, cur, k, Forwarded(a)), MoveIn(a, m)
  PROVE  /\ Patch(m) /\ m[cur].words[k] = Forwarded(a)
         /\ \A x \in New : x # cur => m[x] = mem[x]
         /\ \A x \in New, j \in Word : x # cur \/ j # k => m[x].words[j] = mem[x].words[j]
<1>1. cur \in Addr /\ New \subseteq Addr /\ Old \subseteq Addr /\ cur \notin Old
  BY Apart DEF IInv
<1>2. Forwarded(a) \in Ref
  <2>1. CASE a # 0 /\ mem[a].moved
    <3>1. OldObject(a) /\ Forwarded(a) = mem[a].words[0]
      BY <2>1 DEF IInv, Objects, Forwarded
    <3> QED
      BY <2>1, <3>1, Apart DEF OldObject, IInv, Ref
  <2>2. CASE ~(a # 0 /\ mem[a].moved)
    BY <2>2, Fresh DEF Forwarded, IInv, Ref, MoveIn
  <2> QED
    BY <2>1, <2>2
<1>3. mem \in [Addr -> Object]
  BY DEF IInv, TypeOK
<1>4. /\ m \in [Addr -> Object] /\ m[cur].words[k] = Forwarded(a)
      /\ \A y \in Addr : /\ m[y].id = mem[y].id /\ m[y].moved = mem[y].moved
                         /\ m[y].shape = mem[y].shape
                         /\ m[y].members = mem[y].members /\ m[y].mask = mem[y].mask
      /\ \A y \in Addr : y # cur => m[y] = mem[y]
      /\ \A y \in Addr, j \in Word : y # cur \/ j # k => m[y].words[j] = mem[y].words[j]
  BY <1>1, <1>2, <1>3, WrittenIs
<1>5. Patch(m)
  BY <1>1, <1>4 DEF Patch
<1>6. \A x \in New : x # cur => m[x] = mem[x]
  BY <1>1, <1>4
<1>7. \A x \in New, j \in Word : x # cur \/ j # k => m[x].words[j] = mem[x].words[j]
  BY <1>1, <1>4
<1> QED
  BY <1>4, <1>5, <1>6, <1>7

LEMMA WordStep ==
  ASSUME StackProgram, IInv, NEW k \in Word, ProcessWord(k)
  PROVE  IInv'
<1>1. /\ cur \in New /\ todo = {} /\ ~OnStack(cur) /\ k \in rest /\ 0 \in Word
      /\ cur \in Addr
  BY CollectorAssumption, Apart DEF ProcessWord, IInv, Stack, Word
<1>2. NewObject(cur) /\ k \notin Done(cur)
  BY <1>1, DoneWith DEF IInv, Objects
<1>3. PICK a : a = mem[cur].words[k]
  OBVIOUS
<1>4. a \in Old \cup {0} /\ (k = 0 => a # 0)
  BY <1>2, <1>3 DEF NewObject
<1>5. PICK m : Written(m, cur, k, Forwarded(a))
  BY DEF Written
<1>6. /\ Collecting /\ MoveIn(a, m)
      /\ rest' = rest \ {k}
      /\ UNCHANGED <<env, space, depth, force, call, pc, todo, cur, made, collections>>
  BY <1>3, <1>5 DEF ProcessWord, Written
<1>7. /\ Patch(m) /\ m[cur].words[k] = Forwarded(a)
      /\ \A x \in New : x # cur => m[x] = mem[x]
      /\ \A x \in New, j \in Word : x # cur \/ j # k => m[x].words[j] = mem[x].words[j]
  BY <1>1, <1>4, <1>5, <1>6, WordPatched
<1>8. PICK w : w = m[cur].words
  OBVIOUS
<1>9. /\ w[k] = Forwarded(a)
       /\ \A j \in Word : j # k => w[j] = mem[cur].words[j]
  BY <1>1, <1>7, <1>8
<1>10. /\ m[cur].id = mem[cur].id /\ m[cur].moved = mem[cur].moved /\ m[cur].words = w
       /\ m[cur].shape = mem[cur].shape
       /\ m[cur].members = mem[cur].members /\ m[cur].mask = mem[cur].mask
  BY <1>1, <1>7, <1>8 DEF Patch
<1>11. Evacuates(a, m)
  BY <1>4, <1>6, <1>7, Evacuate
<1>12. ASSUME NEW x \in New PROVE NewObject(x)'
  <2>1. CASE x # cur
    <3>1. m[x] = mem[x]
      BY <1>7, <2>1
    <3> QED
      BY <1>6, <1>11, <2>1, <3>1, KeepsCopy
  <2>2. CASE x = cur
    <3>1. /\ mem'[x] = m[x] /\ (OnStack(x)' <=> OnStack(x))
          /\ Old' = Old /\ New \subseteq New'
          /\ Forwarded(a) \in New' \cup {0}
          /\ a # 0 => Forwarded(a) # 0 /\ mem'[Forwarded(a)].mask = mem[a].mask
          /\ \A y \in New \cup Old : mem'[y].mask = mem[y].mask
      BY <1>11 DEF Evacuates
    <3>2. \A j \in Word : j \in Done(x)' <=> j = k \/ j \in Done(x)
      <4>1. \A j \in Word : j \in Done(x) <=> j \notin rest
        BY <1>1, <2>2, DoneWith
      <4>2. \A j \in Word : j \in Done(x)' <=> ~OnStack(x)' /\ ~(x = cur' /\ j \in rest')
        BY DEF Done, OnStack, On
      <4> QED
        BY <1>1, <1>6, <2>2, <3>1, <4>1, <4>2
    <3>3. ASSUME NEW j \in Word
          PROVE  w[j] \in (IF j \in Done(x)' THEN New' ELSE Old') \cup {0}
      <4>1. mem[cur].words[j] \in (IF j \in Done(cur) THEN New ELSE Old) \cup {0}
        BY <1>2 DEF NewObject
      <4> QED
        BY <1>9, <2>2, <3>1, <3>2, <4>1
    <3>4. w[0] # 0 /\ mem'[w[0]].mask = mem[mem[cur].words[0]].mask
      <4>1. mem[cur].words[0] # 0 /\ mem[cur].words[0] \in New \cup Old
        BY <1>1, <1>2 DEF NewObject
      <4>2. CASE k = 0
        BY <1>3, <1>4, <1>9, <3>1, <4>1, <4>2
      <4>3. CASE k # 0
        BY <1>1, <1>9, <3>1, <4>1, <4>3
      <4> QED
        BY <4>2, <4>3
    <3>5. Typed(x)'
      <4>1. /\ mem[cur].members = mem[mem[cur].words[0]].mask
            /\ \A j \in Word \ {0} : mem[cur].words[j] # 0 => {0, j} \subseteq mem[cur].members
        BY <1>2 DEF NewObject, Typed
      <4>2. \A j \in Word : w[j] # 0 => mem[cur].words[j] # 0
        BY <1>3, <1>9 DEF Forwarded
      <4>3. mem'[x].words = w /\ mem'[x].members = mem[cur].members
        BY <1>10, <2>2, <3>1
      <4>4. \A j \in Word \ {0} : mem'[x].words[j] # 0 => {0, j} \subseteq mem'[x].members
        BY <4>1, <4>2, <4>3
      <4>5. mem'[x].members = mem'[mem'[x].words[0]].mask
        BY <3>4, <4>1, <4>3
      <4> QED
        BY <4>4, <4>5 DEF Typed
    <3>6. Masked(x)'
      BY <1>2, <1>10, <2>2, <3>1 DEF NewObject, Masked
    <3>7. mem'[x].id \in 1 .. made' /\ ~mem'[x].moved
      BY <1>2, <1>6, <1>10, <2>2, <3>1 DEF NewObject
    <3>8. mem'[x].words = w
      BY <1>10, <2>2, <3>1
    <3> QED
      BY <3>3, <3>4, <3>5, <3>6, <3>7, <3>8 DEF NewObject
  <2> QED
    BY <2>1, <2>2
<1>13. RootsAt'
  BY <1>1, <1>6, <1>11 DEF IInv, RootsAt, Evacuates
<1>14. env' \in [Locations -> Ref]
  BY <1>6 DEF IInv, TypeOK
<1> QED
  BY <1>6, <1>11, <1>12, <1>13, <1>14, Processes

LEMMA PopStep ==
  ASSUME StackProgram, IInv, Pop
  PROVE  IInv'
<1>1. /\ RootsDone /\ markStack # << >>
      /\ cur' = Scannable(Head(markStack))
      /\ markStack' = Tail(markStack)
      /\ rest' = Traced(mem[cur'].words[0])
      /\ UNCHANGED <<mem, space, free, env, depth, force, call, pc, todo, made,
                     collections>>
  BY DEF Pop
<1>2. markStack \in Seq(New) /\ Once(markStack) /\ rest = {} /\ todo = {} /\ Collecting
  BY <1>1 DEF IInv, Stack, RootsDone, Collecting
<1>3. PICK c : c = Head(markStack)
  OBVIOUS
<1>4. /\ c \in New /\ On(c, markStack)
      /\ markStack' \in Seq(New) /\ Once(markStack')
      /\ \A x : OnStack(x)' <=> x # c /\ OnStack(x)
  BY <1>1, <1>2, <1>3, Popped, Zenon DEF OnStack
<1>5. NewObject(c) /\ cur' = c
  <2>1. NewObject(c)
    BY <1>4 DEF IInv, Objects
  <2> QED
    BY <1>1, <1>3, <2>1 DEF NewObject, Scannable
<1>6. New' = New /\ Old' = Old /\ New \subseteq Addr
  BY <1>1, SameSpaces, Apart DEF IInv
<1>7. rest' \subseteq Word /\ 0 \in rest'
  <2>1. \A x \in New \cup Old : mem[x].mask \subseteq Word
    BY Apart DEF IInv, TypeOK, Object
  <2>2. mem[c].words[0] \in New \cup Old /\ 0 \in Word
    BY <1>5, CollectorAssumption DEF NewObject, Word
  <2> QED
    BY <1>1, <1>5, <2>1, <2>2 DEF Traced
<1>8. TypeOK'
  <2>1. markStack' \in Seq(Addr)
    BY <1>4, <1>6, Larger
  <2>2. cur' \in Ref
    BY <1>4, <1>5, <1>6 DEF Ref
  <2> QED
    BY <1>1, <1>7, <2>1, <2>2 DEF IInv, TypeOK
<1>9. Quiet' /\ Calls' /\ RootsAt'
  BY <1>1, <1>2, <1>6 DEF IInv, Quiet, Calls, RootsAt, Collecting
<1>10. Stack'
  BY <1>1, <1>2, <1>4, <1>5, <1>6 DEF Stack
<1>11. ASSUME NEW x \in New PROVE NewObject(x)'
  <2>1. NewObject(x) /\ 0 \in Word
    BY CollectorAssumption DEF IInv, Objects, Word
  <2>2. \A j \in Word : j \in Done(x)' <=> ~OnStack(x)' /\ ~(x = cur' /\ j \in rest')
    BY DEF Done, OnStack, On
  <2>3. \A j \in Word : j \in Done(x) <=> ~OnStack(x)
    BY <1>2, DoneWith
  <2>4. CASE x # c
    <3>1. \A j \in Word : j \in Done(x)' <=> j \in Done(x)
      BY <1>4, <1>5, <2>2, <2>3, <2>4
    <3>2. \A j \in Word :
            mem'[x].words[j] \in (IF j \in Done(x)' THEN New' ELSE Old') \cup {0}
      BY <1>1, <1>6, <2>1, <3>1 DEF NewObject
    <3> QED
      BY <1>1, <2>1, <3>2 DEF NewObject, Masked, Typed
  <2>5. CASE x = c
    <3>1. \A j \in Word : j \in Done(x)' <=> j \notin rest'
      BY <1>4, <1>5, <2>2, <2>5
    <3>2. \A j \in Word : mem[x].words[j] \in Old \cup {0}
      BY <1>4, <2>1, <2>3, <2>5 DEF NewObject, OnStack
    <3>3. ASSUME NEW j \in Word, j \notin rest'
          PROVE  mem[x].words[j] = 0
      <4>1. j # 0 /\ ~({0, j} \subseteq mem[mem[x].words[0]].mask)
        BY <1>1, <1>5, <1>7, <2>5, <3>3 DEF Traced
      <4> QED
        BY <2>1, <4>1 DEF NewObject, Typed
    <3>4. \A j \in Word :
            mem'[x].words[j] \in (IF j \in Done(x)' THEN New' ELSE Old') \cup {0}
      BY <1>1, <1>6, <3>1, <3>2, <3>3
    <3> QED
      BY <1>1, <2>1, <3>4 DEF NewObject, Masked, Typed
  <2> QED
    BY <2>4, <2>5
<1>12. Objects'
  <2>1. \A x \in Old : OldObject(x)'
    BY <1>1, <1>2, <1>6 DEF IInv, Objects, OldObject, Masked, Typed
  <2>2. Unique(Old)' /\ Origins' /\ Collecting'
    BY <1>1, <1>2, <1>6 DEF IInv, Objects, Unique, Origins, Collecting
  <2> QED
    BY <1>6, <1>11, <2>1, <2>2 DEF Objects
<1> QED
  BY <1>8, <1>9, <1>10, <1>12 DEF IInv

LEMMA SpacesSwapped ==
  ASSUME IInv, BeginCollect
  PROVE  New' = {} /\ Old' = New
<1>1. space' = 1 - space /\ free' = [free EXCEPT ![1 - space] = 0]
  BY DEF BeginCollect
<1>2. space \in {0, 1} /\ free \in [{0, 1} -> 0 .. Slots]
  BY DEF IInv, TypeOK
<1>3. free'[1 - space] = 0 /\ free'[space] = free[space] /\ 1 - (1 - space) = space
  BY <1>1, <1>2
<1>4. New' = {Slot(1 - space, i) : i \in 1 .. 0}
  BY <1>1, <1>3, Zenon DEF New, InUse
<1>5. Old' = New
  BY <1>1, <1>3, Zenon DEF New, Old, InUse
<1>6. 1 .. 0 = {}
  OBVIOUS
<1> QED
  BY <1>4, <1>5, <1>6

LEMMA BeginStep ==
  ASSUME StackProgram, IInv, BeginCollect
  PROVE  IInv'
<1>1. /\ pc \in {"run", "yield"} /\ force /\ collections < MaxCollections
      /\ space' = 1 - space /\ free' = [free EXCEPT ![1 - space] = 0]
      /\ collections' = collections + 1
      /\ todo' = Roots /\ pc' = "collect"
      /\ UNCHANGED <<mem, env, depth, force, call, markStack, cur, rest, made>>
  BY StackRoots DEF BeginCollect
<1>2. /\ ~Collecting /\ call.arg = 0
      /\ todo = {} /\ markStack = << >> /\ cur = 0 /\ rest = {}
  BY <1>1 DEF IInv, Quiet, Calls, Collecting
<1>3. /\ space \in {0, 1} /\ free \in [{0, 1} -> 0 .. Slots] /\ Slots \in Nat
      /\ collections' \in 0 .. MaxCollections
  BY <1>1, CollectorAssumption DEF IInv, TypeOK
<1>4. New' = {} /\ Old' = New
  BY SpacesSwapped
<1>5. TypeOK'
  BY <1>1, <1>3, StackRoots DEF IInv, TypeOK
<1>6. Quiet' /\ Calls'
  BY <1>1, <1>2 DEF Quiet, Calls, Collecting
<1>7. RootsAt'
  BY <1>1, <1>2, <1>4 DEF IInv, RootsAt
<1>8. Stack'
  BY <1>1, <1>2, <1>4 DEF Stack, Once, OnStack, On
<1>9. Objects'
  <2>1. ASSUME NEW x \in New PROVE OldObject(x)'
    <3>1. NewObject(x) /\ 0 \in Word
      BY CollectorAssumption DEF IInv, Objects, Word
    <3>2. \A k \in Word : mem[x].words[k] \in New \cup {0}
      BY <1>2, <3>1, DoneWith DEF NewObject, OnStack, On
    <3> QED
      BY <1>1, <1>4, <3>1, <3>2 DEF NewObject, OldObject, Masked, Typed
  <2>2. Unique(Old)' /\ Origins'
    BY <1>1, <1>2, <1>4 DEF IInv, Objects, Unique, Origins
  <2> QED
    BY <1>1, <1>4, <2>1, <2>2 DEF Objects, Collecting
<1> QED
  BY <1>5, <1>6, <1>7, <1>8, <1>9 DEF IInv

(* No two copies are of one object: each has an origin of its own.           *)
LEMMA CopiesUnique ==
  ASSUME IInv
  PROVE  Unique(New)
<1>1. CASE ~Collecting
  BY <1>1 DEF IInv, Objects
<1>2. CASE Collecting
  <2> SUFFICES ASSUME NEW x \in New, NEW y \in New, mem[x].id = mem[y].id
               PROVE  x = y
    BY DEF Unique
  <2>1. PICK a \in Old : mem[a].moved /\ mem[a].words[0] = x
    BY <1>2 DEF IInv, Objects, Origins
  <2>2. PICK b \in Old : mem[b].moved /\ mem[b].words[0] = y
    BY <1>2 DEF IInv, Objects, Origins
  <2>3. mem[a].id = mem[x].id /\ mem[b].id = mem[y].id
    BY <1>2, <2>1, <2>2 DEF IInv, Objects, OldObject
  <2>4. a = b
    BY <1>2, <2>3 DEF IInv, Objects, Unique
  <2> QED
    BY <2>1, <2>2, <2>4
<1> QED
  BY <1>1, <1>2

LEMMA EndStep ==
  ASSUME StackProgram, IInv, EndCollect
  PROVE  IInv'
<1>1. /\ Collecting /\ todo = {} /\ rest = {} /\ markStack = << >> /\ call.arg = 0
      /\ force' = FALSE /\ cur' = 0 /\ pc' = "run"
      /\ UNCHANGED <<mem, space, free, env, depth, call, todo, markStack, rest, made,
                     collections>>
  BY DEF EndCollect, IInv, Calls, Collecting, RootsDone
<1>2. New' = New /\ Old' = Old
  BY <1>1, SameSpaces
<1>3. TypeOK'
  BY <1>1 DEF IInv, TypeOK, Ref
<1>4. Quiet' /\ Calls' /\ RootsAt' /\ Stack'
  BY <1>1, <1>2 DEF IInv, Quiet, Calls, RootsAt, Stack, OnStack, On
<1>5. ASSUME NEW x \in New PROVE NewObject(x)'
  <2>1. NewObject(x)
    BY DEF IInv, Objects
  <2>2. Done(x) = Word /\ Done(x)' = Word
    BY <1>1 DEF Done
  <2> QED
    BY <1>1, <1>2, <2>1, <2>2 DEF NewObject, Masked, Typed
<1>6. Unique(New)'
  BY <1>1, <1>2, CopiesUnique DEF Unique
<1>7. Objects'
  BY <1>1, <1>2, <1>5, <1>6 DEF Objects, Collecting
<1> QED
  BY <1>3, <1>4, <1>7 DEF IInv

(***************************************************************************)
(* The program                                                             *)
(***************************************************************************)

(* Between collections everything is in the current semispace.               *)
LEMMA Between ==
  ASSUME StackProgram, IInv, ~Collecting
  PROVE  /\ todo = {} /\ markStack = << >> /\ cur = 0 /\ rest = {}
         /\ \A x \in New : NewObject(x) /\ Done(x) = Word
                           /\ \A k \in Word : mem[x].words[k] \in New \cup {0}
         /\ Unique(New)
         /\ \A r \in Roots : env[r] \in New \cup {0}
         /\ env[DD] # 0
<1>1. todo = {} /\ markStack = << >> /\ cur = 0 /\ rest = {}
  BY DEF IInv, Quiet
<1>2. ASSUME NEW x \in New
      PROVE  NewObject(x) /\ Done(x) = Word
             /\ \A k \in Word : mem[x].words[k] \in New \cup {0}
  <2>1. Done(x) = Word
    BY <1>1 DEF Done
  <2> QED
    BY <2>1 DEF IInv, Objects, NewObject
<1> QED
  BY <1>1, <1>2 DEF IInv, Objects, RootsAt

(* A step that changes nothing but variables that hold such addresses.       *)
LEMMA Assigns ==
  ASSUME StackProgram, IInv, ~Collecting, ~Collecting',
         UNCHANGED <<mem, space, free, todo, markStack, cur, rest, made, collections>>,
         depth' \in [Chains -> 1 .. MaxDepth],
         env' \in [Locations -> New \cup {0}], env'[DD] # 0,
         force' \in BOOLEAN, pc' \in {"run", "yield", "alloc"},
         call'.to \in Locations, call'.arg \in Ref, call'.shape \subseteq Word, Calls'
  PROVE  IInv'
<1>1. New' = New /\ Old' = Old
  BY SameSpaces
<1>2. TypeOK'
  <2>1. env' \in [Locations -> Ref]
    BY Apart DEF IInv, Ref
  <2> QED
    BY <2>1 DEF IInv, TypeOK
<1>3. Quiet' /\ Stack'
  BY <1>1, Between DEF IInv, Quiet, Stack, OnStack
<1>4. RootsAt'
  BY <1>1, StackRoots, Between DEF RootsAt
<1>5. ASSUME NEW x \in New PROVE NewObject(x)'
  <2>1. NewObject(x)
    BY Between
  <2>2. Done(x)' = Done(x)
    BY DEF Done
  <2> QED
    BY <1>1, <2>1, <2>2 DEF NewObject, Masked, Typed
<1>6. Objects'
  BY <1>1, <1>5, Between DEF Objects, Unique
<1> QED
  BY <1>2, <1>3, <1>4, <1>6 DEF IInv

LEMMA OnlyRoots ==
  ASSUME StackProgram
  PROVE  /\ Data \subseteq Roots /\ DD \notin Data
         /\ Assignable \subseteq Data /\ Undeclared = {}
<1>1. Entries = {}
  BY StackRoots
<1> QED
  BY <1>1 DEF Visible, Data, Assignable, Undeclared

LEMMA MallocStep ==
  ASSUME StackProgram, IInv, NEW l, NEW d \in {DD} \cup DescVars, NEW shape, Malloc(l, d, shape)
  PROVE  IInv'
<1>1. /\ pc = "run" /\ ~force /\ made < MaxObjects /\ env[d] # 0 /\ l \in Roots
      /\ shape \in Shapes \/ shape = {}
      /\ call' = [to |-> l, arg |-> env[d], shape |-> shape] /\ pc' = "yield"
      /\ UNCHANGED <<mem, space, free, env, depth, force, todo, markStack, cur, rest, made,
                     collections>>
  BY StackRoots, OnlyRoots DEF Malloc, StackProgram
<1>2. ~Collecting /\ ~Collecting'
  BY <1>1 DEF Collecting
<1>3. shape \subseteq Word /\ (shape = {} \/ 0 \in shape)
  BY <1>1, CollectorAssumption DEF Word
<1>4. env[d] \in New /\ env[d] \in Ref
  BY <1>1, <1>2, Between, StackRoots, Apart DEF IInv, Ref
<1>5. call'.to = l /\ call'.arg = env[d] /\ call'.shape = shape
  BY <1>1
<1>6. New' = New
  BY <1>1, SameSpaces
<1>7. Calls'
  BY <1>1, <1>3, <1>4, <1>5, <1>6 DEF Calls
<1>8. env' \in [Locations -> New \cup {0}] /\ env'[DD] # 0
  BY <1>1, <1>2, Between, StackRoots DEF IInv, TypeOK
<1> QED
  BY <1>1, <1>2, <1>3, <1>4, <1>5, <1>7, <1>8, Assigns, StackRoots DEF IInv, TypeOK

LEMMA NoCollectStep ==
  ASSUME StackProgram, IInv, NoCollect
  PROVE  IInv'
<1>1. /\ pc = "yield" /\ ~force /\ pc' = "alloc"
      /\ UNCHANGED <<mem, space, free, env, depth, force, call, todo, markStack, cur, rest,
                     made, collections>>
  BY DEF NoCollect
<1>2. ~Collecting /\ ~Collecting'
  BY <1>1 DEF Collecting
<1>3. New' = New
  BY <1>1, SameSpaces
<1>4. Calls'
  BY <1>1, <1>3 DEF IInv, Calls
<1>5. env' \in [Locations -> New \cup {0}] /\ env'[DD] # 0
  BY <1>1, <1>2, Between, StackRoots DEF IInv, TypeOK
<1> QED
  BY <1>1, <1>2, <1>4, <1>5, Assigns DEF IInv, TypeOK

(* What the program does with its variables alone.                           *)
LEMMA RunStep ==
  ASSUME StackProgram, IInv, pc = "run",
         env' \in [Locations -> New \cup {0}], env'[DD] = env[DD],
         depth' \in [Chains -> 1 .. MaxDepth],
         UNCHANGED <<mem, space, free, force, call, pc, todo, markStack, cur, rest, made,
                     collections>>
  PROVE  IInv'
<1>1. ~Collecting /\ ~Collecting' /\ Calls'
  BY DEF Collecting, IInv, Calls
<1> QED
  BY <1>1, Assigns, Between DEF IInv, TypeOK

LEMMA ReadStep ==
  ASSUME StackProgram, IInv, NEW l \in Assignable, NEW m \in Data, NEW k \in Word,
         Read(l, m, k)
  PROVE  IInv'
<1>1. /\ pc = "run" /\ env[m] # 0
      /\ env' = [env EXCEPT ![l] = mem[env[m]].words[k]]
      /\ UNCHANGED mem /\ Unmoved
  BY DEF Read
<1>2. ~Collecting
  BY <1>1 DEF Collecting
<1>3. l \in Roots /\ l # DD /\ m \in Roots /\ Locations = Roots
  BY OnlyRoots, StackRoots
<1>4. env \in [Roots -> New \cup {0}] /\ env[m] \in New
  BY <1>1, <1>2, <1>3, Between DEF IInv, TypeOK
<1>5. mem[env[m]].words[k] \in New \cup {0}
  BY <1>2, <1>4, Between
<1>6. env' \in [Locations -> New \cup {0}] /\ env'[DD] = env[DD]
  BY <1>1, <1>3, <1>4, <1>5
<1> QED
  BY <1>1, <1>6, RunStep DEF Unmoved, IInv, TypeOK

LEMMA CopyStep ==
  ASSUME StackProgram, IInv, NEW l \in Assignable, NEW m \in Data, Copy(l, m)
  PROVE  IInv'
<1>1. pc = "run" /\ env' = [env EXCEPT ![l] = env[m]] /\ UNCHANGED mem /\ Unmoved
  BY DEF Copy
<1>2. ~Collecting
  BY <1>1 DEF Collecting
<1>3. l \in Roots /\ l # DD /\ m \in Roots /\ Locations = Roots
  BY OnlyRoots, StackRoots
<1>4. env \in [Roots -> New \cup {0}]
  BY <1>2, <1>3, Between DEF IInv, TypeOK
<1>5. env' \in [Locations -> New \cup {0}] /\ env'[DD] = env[DD]
  BY <1>1, <1>3, <1>4
<1> QED
  BY <1>1, <1>5, RunStep DEF Unmoved, IInv, TypeOK

LEMMA DropStep ==
  ASSUME StackProgram, IInv, NEW l \in DataVars, Drop(l)
  PROVE  IInv'
<1>1. pc = "run" /\ env' = [env EXCEPT ![l] = 0] /\ UNCHANGED mem /\ Unmoved
  BY DEF Drop
<1>2. ~Collecting
  BY <1>1 DEF Collecting
<1>3. l \in Roots /\ l # DD /\ Locations = Roots
  BY StackRoots
<1>4. env \in [Roots -> New \cup {0}]
  BY <1>2, <1>3, Between DEF IInv, TypeOK
<1>5. env' \in [Locations -> New \cup {0}] /\ env'[DD] = env[DD]
  BY <1>1, <1>3, <1>4
<1> QED
  BY <1>1, <1>5, RunStep DEF Unmoved, IInv, TypeOK

LEMMA ScopeStep ==
  ASSUME StackProgram, IInv, NEW c \in Chains, PushScope(c) \/ PopScope(c)
  PROVE  IInv'
<1>1. /\ pc = "run"
      /\ UNCHANGED <<mem, space, free, force, call, pc, todo, markStack, cur, rest, made,
                     collections>>
  BY DEF PushScope, PopScope
<1>2. depth' \in [Chains -> 1 .. MaxDepth]
  BY CollectorAssumption DEF PushScope, PopScope, IInv, TypeOK
<1>3. ~Collecting /\ DD \in Roots /\ Locations = Roots
  BY <1>1, StackRoots DEF Collecting
<1>4. env \in [Roots -> New \cup {0}]
  BY <1>3, Between DEF IInv, TypeOK
<1>5. env' = env
  <2>1. {c} \X {depth[c]} \X ScopeVars = {}
    BY DEF StackProgram
  <2>2. CASE PushScope(c)
    BY <2>2 DEF PushScope
  <2>3. CASE PopScope(c)
    BY <1>3, <1>4, <2>1, <2>3 DEF PopScope
  <2> QED
    BY <2>2, <2>3
<1> QED
  BY <1>1, <1>2, <1>3, <1>4, <1>5, RunStep

LEMMA WriteStep ==
  ASSUME StackProgram, IInv, NEW m \in Data, NEW n \in Data, NEW k \in Word, Write(m, k, n)
  PROVE  IInv'
<1>1. /\ pc = "run" /\ env[m] # 0 /\ k \in mem[env[m]].members \ {0}
      /\ mem' = [mem EXCEPT ![env[m]].words[k] = env[n]]
      /\ UNCHANGED env /\ Unmoved
  BY DEF Write
<1>2. ~Collecting /\ ~Collecting'
  BY <1>1 DEF Collecting, Unmoved
<1>3. m \in Roots /\ n \in Roots
  BY OnlyRoots
<1>4. PICK a : a = env[m]
  OBVIOUS
<1>5. PICK v : v = env[n]
  OBVIOUS
<1>6. a \in New /\ a \in Addr /\ v \in New \cup {0} /\ v \in Ref
  BY <1>1, <1>2, <1>3, <1>4, <1>5, Between, Apart DEF IInv, Ref
<1>7. New' = New /\ Old' = Old
  BY <1>1, SameSpaces DEF Unmoved
<1>8. PICK mm : mm = mem'
  OBVIOUS
<1>9. mem \in [Addr -> Object] /\ Written(mm, a, k, v)
  BY <1>1, <1>4, <1>5, <1>8 DEF IInv, TypeOK, Written
<1>10. /\ mm \in [Addr -> Object] /\ mm[a].words[k] = v
       /\ \A x \in Addr : /\ mm[x].id = mem[x].id /\ mm[x].moved = mem[x].moved
                          /\ mm[x].shape = mem[x].shape
                          /\ mm[x].members = mem[x].members /\ mm[x].mask = mem[x].mask
       /\ \A x \in Addr, j \in Word : x # a \/ j # k => mm[x].words[j] = mem[x].words[j]
  BY <1>1, <1>6, <1>9, WrittenIs
<1>11. \A x \in Addr : /\ mem'[x].id = mem[x].id /\ mem'[x].moved = mem[x].moved
                       /\ mem'[x].shape = mem[x].shape
                       /\ mem'[x].members = mem[x].members /\ mem'[x].mask = mem[x].mask
                       /\ mem'[x].words[0] = mem[x].words[0]
  BY <1>1, <1>8, <1>10, CollectorAssumption DEF Word
<1>12. TypeOK'
  <2>1. mem' \in [Addr -> Object]
    BY <1>8, <1>10
  <2> QED
    BY <1>1, <2>1 DEF IInv, TypeOK, Unmoved
<1>13. Quiet' /\ Calls' /\ RootsAt' /\ Stack'
  BY <1>1, <1>7 DEF IInv, Quiet, Calls, RootsAt, Stack, OnStack, Unmoved, Collecting
<1>14. ASSUME NEW x \in New PROVE NewObject(x)'
  <2>1. NewObject(x) /\ Done(x) = Word /\ \A j \in Word : mem[x].words[j] \in New \cup {0}
    BY <1>2, Between
  <2>2. Done(x)' = Word
    BY <1>1, <2>1 DEF Done, Unmoved
  <2>3. x \in Addr /\ New \subseteq Addr /\ 0 \in Word
    BY Apart, CollectorAssumption DEF IInv, Word
  <2>4. ASSUME NEW j \in Word PROVE mem'[x].words[j] \in New' \cup {0}
    BY <1>6, <1>7, <1>8, <1>10, <2>1, <2>3
  <2>5. Masked(x)'
    BY <1>11, <2>1, <2>3 DEF NewObject, Masked
  <2>6. Typed(x)'
    <3>1. PICK h : h = mem[x].words[0]
      OBVIOUS
    <3>2. h \in New /\ h \in Addr
      BY <2>1, <2>3, <3>1 DEF NewObject
    <3>3. mem'[mem'[x].words[0]].mask = mem[h].mask /\ mem'[x].members = mem[x].members
      BY <1>11, <2>3, <3>1, <3>2
    <3>4. /\ mem[x].members = mem[h].mask
          /\ \A j \in Word \ {0} : mem[x].words[j] # 0 => {0, j} \subseteq mem[x].members
      BY <2>1, <3>1 DEF NewObject, Typed
    <3>5. x = a => {0, k} \subseteq mem[x].members
      <4>1. NewObject(h)
        BY <1>2, <3>2, Between
      <4> QED
        BY <1>1, <1>4, <3>4, <4>1 DEF NewObject, Masked
    <3>6. \A j \in Word \ {0} : mem'[x].words[j] # 0 =>
                                  mem[x].words[j] # 0 \/ (x = a /\ j = k)
      BY <1>8, <1>10, <2>3
    <3>7. \A j \in Word \ {0} : mem'[x].words[j] # 0 => {0, j} \subseteq mem[x].members
      BY <3>4, <3>5, <3>6
    <3> QED
      BY <3>3, <3>4, <3>7 DEF Typed
  <2>7. mem'[x].id \in 1 .. made' /\ ~mem'[x].moved /\ mem'[x].words[0] # 0
    BY <1>1, <1>11, <2>1, <2>3 DEF NewObject, Unmoved
  <2> QED
    BY <2>2, <2>4, <2>5, <2>6, <2>7 DEF NewObject
<1>15. Unique(New)'
  <2>1. New \subseteq Addr
    BY Apart DEF IInv
  <2> QED
    BY <1>2, <1>7, <1>11, <2>1, Between DEF Unique
<1>16. Objects'
  BY <1>2, <1>7, <1>14, <1>15 DEF Objects
<1> QED
  BY <1>12, <1>13, <1>16 DEF IInv

LEMMA PlaceStep ==
  ASSUME StackProgram, IInv, Place
  PROVE  IInv'
<1>1. /\ pc = "alloc" /\ free[space] < Slots
      /\ mem' = [mem EXCEPT ![NextSlot] =
                   [id |-> made + 1, moved |-> FALSE,
                    words |-> [Blank EXCEPT ![0] = call.arg],
                    members |-> mem[call.arg].shape,
                    shape |-> call.shape, mask |-> Mask(call.shape)]]
      /\ free' = [free EXCEPT ![space] = @ + 1]
      /\ env' = [env EXCEPT ![call.to] = NextSlot]
      /\ made' = made + 1 /\ force' \in BOOLEAN /\ call' = NoCall /\ pc' = "run"
      /\ UNCHANGED <<space, depth, todo, markStack, cur, rest, collections>>
  BY DEF Place
<1>2. ~Collecting /\ ~Collecting'
  BY <1>1 DEF Collecting
<1>3. /\ made < MaxObjects /\ call.arg \in New /\ call.to \in Roots
      /\ call.shape = {} \/ 0 \in call.shape
      /\ call.shape \subseteq Word /\ made \in 1 .. MaxObjects /\ MaxObjects \in Nat
  BY <1>1, CollectorAssumption DEF IInv, Calls, TypeOK
<1>4. PICK n : n = NextSlot
  OBVIOUS
<1>5. /\ n \in Addr /\ n \notin New /\ n \notin Old /\ n # 0 /\ n \in Ref
      /\ New' = New \cup {n} /\ Old' = Old
  BY <1>1, <1>4, Fresh, Apart DEF IInv, Ref
<1>6. 0 \in Word /\ New \subseteq Addr /\ call.arg # 0 /\ call.arg \in Ref
  BY <1>3, Apart, CollectorAssumption DEF IInv, Word, Ref
<1>7. PICK w : w = [Blank EXCEPT ![0] = call.arg]
  OBVIOUS
<1>8. w \in [Word -> Ref] /\ w[0] = call.arg /\ \A k \in Word \ {0} : w[k] = 0
  BY <1>6, <1>7 DEF Blank, Ref
<1>9. Mask(call.shape) = call.shape
  BY DEF Mask, StackProgram
<1>10. PICK o : o = [id |-> made + 1, moved |-> FALSE, words |-> w,
                     members |-> mem[call.arg].shape,
                     shape |-> call.shape, mask |-> call.shape]
  OBVIOUS
<1>11. /\ o.id = made + 1 /\ ~o.moved /\ o.words = w /\ o.shape = call.shape
       /\ o.members = mem[call.arg].shape /\ o.mask = call.shape
  BY <1>10
<1>12. o \in Object
  <2>1. made + 1 \in 0 .. MaxObjects
    BY <1>3
  <2>2. mem[call.arg].shape \subseteq Word
    BY <1>3, <1>6 DEF IInv, TypeOK, Object
  <2> QED
    BY <1>3, <1>8, <1>10, <2>1, <2>2 DEF Object
<1>13. mem \in [Addr -> Object] /\ mem' = [mem EXCEPT ![n] = o]
  BY <1>1, <1>4, <1>7, <1>9, <1>10 DEF IInv, TypeOK
<1>14. /\ mem' \in [Addr -> Object] /\ mem'[n] = o
       /\ \A x \in Addr : x # n => mem'[x] = mem[x]
  BY <1>5, <1>12, <1>13
<1>15. env' = [env EXCEPT ![call.to] = n] /\ env \in [Roots -> Ref] /\ Locations = Roots
  BY <1>1, <1>4, StackRoots DEF IInv, TypeOK
<1>16. TypeOK'
  <2>1. env' \in [Locations -> Ref]
    BY <1>5, <1>15
  <2>2. free' \in [{0, 1} -> 0 .. Slots]
    <3>1. free \in [{0, 1} -> 0 .. Slots] /\ space \in {0, 1} /\ Slots \in Nat
      BY CollectorAssumption DEF IInv, TypeOK
    <3> QED
      BY <1>1, <3>1
  <2>3. made' \in 1 .. MaxObjects
    BY <1>1, <1>3
  <2>4. call'.to \in Locations /\ call'.arg \in Ref /\ call'.shape \subseteq Word
    BY <1>1, StackRoots DEF NoCall, Ref
  <2> QED
    BY <1>1, <1>14, <2>1, <2>2, <2>3, <2>4 DEF IInv, TypeOK
<1>17. Quiet' /\ Calls' /\ Stack'
  BY <1>1, <1>2, <1>5 DEF IInv, Quiet, Calls, Stack, OnStack, NoCall, Collecting, Once, On
<1>18. RootsAt'
  <2>1. todo' = {} /\ env[DD] # 0 /\ \A r \in Roots : env[r] \in New \cup {0}
    BY <1>1, <1>2, Between
  <2>2. \A r \in Roots : env'[r] = n \/ env'[r] = env[r]
    BY <1>3, <1>15
  <2> QED
    BY <1>5, <2>1, <2>2, StackRoots DEF RootsAt
<1>19. \A x \in New' : Done(x)' = Word
  BY <1>1, <1>2, Between DEF Done
<1>20. ASSUME NEW x \in New' PROVE NewObject(x)'
  <2>1. CASE x = n
    <3>1. Masked(x)'
      BY <1>3, <1>11, <1>14, <2>1 DEF Masked
    <3>2. mem'[call.arg] = mem[call.arg] /\ Masked(call.arg)
      BY <1>2, <1>3, <1>5, <1>6, <1>14, Between DEF NewObject
    <3>3. Typed(x)'
      BY <1>8, <1>11, <1>14, <2>1, <3>2 DEF Masked, Typed
    <3>4. \A k \in Word : mem'[x].words[k] \in New' \cup {0}
      BY <1>3, <1>5, <1>8, <1>11, <1>14, <2>1
    <3>5. mem'[x].id \in 1 .. made' /\ ~mem'[x].moved /\ mem'[x].words[0] # 0
      BY <1>1, <1>3, <1>6, <1>8, <1>11, <1>14, <2>1
    <3> QED
      BY <1>19, <3>1, <3>3, <3>4, <3>5 DEF NewObject
  <2>2. CASE x # n
    <3>1. x \in New /\ mem'[x] = mem[x]
      BY <1>5, <1>6, <1>14, <2>2
    <3>2. NewObject(x) /\ \A k \in Word : mem[x].words[k] \in New \cup {0}
      BY <1>2, <3>1, Between
    <3>3. mem'[mem[x].words[0]] = mem[mem[x].words[0]]
      BY <1>5, <1>6, <1>14, <3>2 DEF NewObject
    <3>4. Masked(x)' /\ Typed(x)'
      BY <3>1, <3>2, <3>3, Zenon DEF NewObject, Masked, Typed
    <3>5. \A k \in Word : mem'[x].words[k] \in New' \cup {0}
      BY <1>5, <3>1, <3>2
    <3>6. mem'[x].id \in 1 .. made' /\ ~mem'[x].moved /\ mem'[x].words[0] # 0
      BY <1>1, <1>3, <3>1, <3>2 DEF NewObject
    <3> QED
      BY <1>19, <3>4, <3>5, <3>6 DEF NewObject
  <2> QED
    BY <2>1, <2>2
<1>21. Unique(New)'
  <2>1. \A x \in New : mem'[x] = mem[x] /\ mem[x].id \in 1 .. made
    BY <1>2, <1>5, <1>6, <1>14, Between DEF NewObject
  <2>2. mem'[n].id = made + 1
    BY <1>11, <1>14
  <2>3. \A x, y \in New : mem[x].id = mem[y].id => x = y
    BY <1>2, Between DEF Unique
  <2>4. \A x \in New : mem'[x].id # mem'[n].id
    BY <1>3, <2>1, <2>2
  <2> QED
    BY <1>5, <2>1, <2>3, <2>4 DEF Unique
<1>22. Objects'
  BY <1>2, <1>20, <1>21 DEF Objects
<1> QED
  BY <1>16, <1>17, <1>18, <1>22 DEF IInv

(***************************************************************************)
(* The theorems                                                            *)
(***************************************************************************)

LEMMA InitHolds ==
  ASSUME StackProgram, Init
  PROVE  IInv
<1> USE CollectorAssumption
<1>1. /\ mem = [a \in Addr |->
                  IF a = 1
                  THEN [id |-> 1, moved |-> FALSE, words |-> [Blank EXCEPT ![0] = 1],
                        members |-> {0, 1}, shape |-> {0, 1}, mask |-> {0, 1}]
                  ELSE [id |-> 0, moved |-> FALSE, words |-> Blank, members |-> {},
                        shape |-> {}, mask |-> {}]]
      /\ space = 0 /\ free = [s \in {0, 1} |-> 1 - s]
      /\ env = [l \in Roots |-> IF l = DD THEN 1 ELSE 0]
      /\ depth = [c \in Chains |-> 1]
      /\ force = FALSE /\ call = NoCall /\ pc = "run"
      /\ todo = {} /\ markStack = << >> /\ cur = 0 /\ rest = {}
      /\ made = 1 /\ collections = 0
  BY StackRoots DEF Init
<1>2. {0, 1} \subseteq Word /\ 1 \in Addr /\ 0 \in Ref /\ 1 \in Ref
  BY DEF Word, Addr, Ref
<1>3. PICK w : w = [Blank EXCEPT ![0] = 1]
  OBVIOUS
<1>4. w \in [Word -> Ref] /\ w[0] = 1 /\ \A k \in Word \ {0} : w[k] = 0
  BY <1>2, <1>3 DEF Blank
<1>5. PICK o : o = [id |-> 1, moved |-> FALSE, words |-> w, members |-> {0, 1},
                    shape |-> {0, 1}, mask |-> {0, 1}]
  OBVIOUS
<1>6. /\ o.id = 1 /\ ~o.moved /\ o.words = w
      /\ o.members = {0, 1} /\ o.shape = {0, 1} /\ o.mask = {0, 1} /\ o \in Object
  BY <1>2, <1>4, <1>5 DEF Object
<1>7. PICK e : e = [id |-> 0, moved |-> FALSE, words |-> Blank, members |-> {},
                    shape |-> {}, mask |-> {}]
  OBVIOUS
<1>8. e \in Object
  BY <1>2, <1>7 DEF Object, Blank
<1>9. mem = [a \in Addr |-> IF a = 1 THEN o ELSE e]
  BY <1>1, <1>3, <1>5, <1>7, Zenon
<1>10. mem \in [Addr -> Object] /\ mem[1] = o
  BY <1>2, <1>6, <1>8, <1>9
<1>11. New = {1}
  <2>1. free[0] = 1 /\ 1 .. 1 = {1} /\ Slot(0, 1) = 1
    BY <1>1 DEF Slot
  <2> QED
    BY <1>1, <2>1 DEF New, InUse
<1>12. TypeOK
  <2>1. free \in [{0, 1} -> 0 .. Slots] /\ space \in {0, 1}
    BY <1>1
  <2>2. env \in [Locations -> Ref]
    BY <1>1, <1>2, StackRoots
  <2>3. depth \in [Chains -> 1 .. MaxDepth]
    BY <1>1
  <2>4. call.to \in Locations /\ call.arg \in Ref /\ call.shape \subseteq Word
    BY <1>1, <1>2, StackRoots DEF NoCall
  <2>5. markStack \in Seq(Addr) /\ cur \in Ref /\ rest \subseteq Word
        /\ todo \subseteq Registered \cup Entries
    BY <1>1, <1>2
  <2>6. made \in 1 .. MaxObjects /\ collections \in 0 .. MaxCollections
    BY <1>1
  <2>7. force \in BOOLEAN /\ pc \in {"run", "yield", "alloc", "collect"}
    BY <1>1, Zenon
  <2> QED
    BY <1>10, <2>1, <2>2, <2>3, <2>4, <2>5, <2>6, <2>7 DEF TypeOK
<1>13. Quiet /\ Calls /\ Stack
  BY <1>1 DEF Quiet, Calls, Stack, NoCall, OnStack, On, Once, Collecting
<1>14. RootsAt
  BY <1>1, <1>11, StackRoots DEF RootsAt
<1>15. NewObject(1)
  <2>1. Done(1) = Word
    BY <1>1 DEF Done
  <2>2. Masked(1) /\ Typed(1)
    BY <1>4, <1>6, <1>10 DEF Masked, Typed
  <2>3. \A k \in Word : mem[1].words[k] \in New \cup {0}
    BY <1>4, <1>6, <1>10, <1>11
  <2>4. mem[1].id \in 1 .. made /\ mem[1].words[0] # 0
    <3>1. mem[1].id = 1 /\ mem[1].words[0] = 1 /\ made = 1
      BY <1>1, <1>4, <1>6, <1>10, Zenon
    <3> QED
      BY <3>1
  <2>5. ~mem[1].moved
    BY <1>6, <1>10, Zenon
  <2> QED
    BY <2>1, <2>2, <2>3, <2>4, <2>5 DEF NewObject
<1>16. Objects
  BY <1>1, <1>11, <1>15 DEF Objects, Unique, Collecting
<1> QED
  BY <1>12, <1>13, <1>14, <1>16 DEF IInv

LEMMA StutterStep ==
  ASSUME IInv, UNCHANGED vars
  PROVE  IInv'
<1>1. /\ UNCHANGED <<mem, space, free, env, depth, force, call, pc>>
      /\ UNCHANGED <<todo, markStack, cur, rest, made, collections>>
  BY DEF vars
<1>2. New' = New /\ Old' = Old
  BY <1>1, SameSpaces
<1>3. TypeOK' /\ Quiet' /\ Calls' /\ RootsAt' /\ Stack'
  BY <1>1, <1>2 DEF IInv, TypeOK, Quiet, Calls, RootsAt, Stack, OnStack, Collecting
<1>4. Objects'
  BY <1>1, <1>2 DEF IInv, Objects, NewObject, OldObject, Masked, Typed, Unique, Origins,
                    Done, Collecting
<1> QED
  BY <1>3, <1>4 DEF IInv

LEMMA StepHolds ==
  ASSUME StackProgram, IInv, [Next]_vars
  PROVE  IInv'
<1>1. CASE BeginCollect
  BY <1>1, BeginStep
<1>2. CASE Collection
  <2>1. ASSUME NEW e \in Entries, ProcessEntry(e) PROVE IInv'
    BY StackRoots
  <2> QED
    BY <1>2, <2>1, RootStep, PopStep, WordStep, EndStep DEF Collection
<1>3. CASE Program
  BY <1>3, MallocStep, PlaceStep, NoCollectStep, WriteStep, ReadStep, CopyStep, DropStep,
     ScopeStep DEF Program
<1>4. CASE UNCHANGED vars
  BY <1>4, StutterStep
<1> QED
  BY <1>1, <1>2, <1>3, <1>4 DEF Next

(* The inductive invariant: at every step of every collection each root,     *)
(* each word and each address on the mark stack is on the side it should be. *)
THEOREM Inductive ==
  ASSUME StackProgram
  PROVE  Spec => []IInv
<1>1. Init => IInv
  BY InitHolds
<1>2. IInv /\ [Next]_vars => IInv'
  BY StepHolds
<1> QED
  BY <1>1, <1>2, PTL DEF Spec

(* ggggc_malloc and ggggc_collect keep every variable within its type.       *)
THEOREM WellTyped ==
  ASSUME StackProgram
  PROVE  Spec => []TypeOK
<1>1. IInv => TypeOK
  BY DEF IInv
<1> QED
  BY <1>1, Inductive, PTL

(* ggggc_collect never makes two copies of an object: forward leaves the     *)
(* address of the first.                                                     *)
THEOREM CopiedAtMostOnce ==
  ASSUME StackProgram
  PROVE  Spec => []CopiedOnce
<1>1. IInv => CopiedOnce
  BY CopiesUnique DEF CopiedOnce, Unique, New
<1> QED
  BY <1>1, Inductive, PTL

(* The forwarding address in the header of an object that has moved is that  *)
(* of its copy, whatever has been copied since.                              *)
THEOREM ForwardingHolds ==
  ASSUME StackProgram
  PROVE  Spec => []ForwardingLeadsToCopy
<1>1. IInv => ForwardingLeadsToCopy
  BY DEF IInv, Objects, OldObject, ForwardingLeadsToCopy, New, Old
<1> QED
  BY <1>1, Inductive, PTL

(* Copies that scan is done with refer to copies, and after a collection     *)
(* nothing of the current semispace refers to the retired one.               *)
THEOREM ScannedHolds ==
  ASSUME StackProgram
  PROVE  Spec => []ScannedPointsToCopies
<1>1. IInv => ScannedPointsToCopies
  <2>1. ASSUME IInv, NEW a \in New, NEW k \in Done(a)
        PROVE  mem[a].words[k] \in New \cup {0}
    <3>1. NewObject(a)
      BY <2>1 DEF IInv, Objects
    <3>2. k \in Word
      BY <2>1 DEF Done
    <3> QED
      BY <2>1, <3>1, <3>2 DEF NewObject
  <2> QED
    BY <2>1 DEF ScannedPointsToCopies, New
<1> QED
  BY <1>1, Inductive, PTL

(* Between collections no variable on the pointer stack holds the address of *)
(* a retired object.                                                         *)
THEOREM RootsHold ==
  ASSUME StackProgram
  PROVE  Spec => []RootsFollow
<1>1. IInv => RootsFollow
  BY DEF IInv, Quiet, RootsAt, RootsFollow, New
<1> QED
  BY <1>1, Inductive, PTL

(***************************************************************************)
(* What the roots lead to                                                  *)
(***************************************************************************)

LEMMA Least ==
  ASSUME NEW S \in SUBSET Nat, S # {}
  PROVE  \E m \in S : \A n \in S : m <= n
<1>1. PICK m \in S : \A n \in S : ~ (<<n, m>> \in OpToRel(<, Nat))
  BY NatLessThanWellFounded, WFMin
<1>2. \A n \in S : ~ (n < m)
  BY <1>1 DEF OpToRel
<1> QED
  BY <1>2

(* The layers of Reachable: the roots, then what these lead to, and so on.   *)
RootAddrs == {env[r] : r \in Roots} \ {0}
Layer(n, i) == IF i = 0 THEN RootAddrs ELSE Successors(n[i - 1])
Layers(n, S) == n = [i \in S |-> Layer(n, i)]

(* There are such layers, as many as one wants, and they are determined.     *)
LEMMA LayersAgree ==
  ASSUME NEW S \in SUBSET Nat, NEW T \in SUBSET Nat, NEW f, NEW g,
         Layers(f, S), Layers(g, T),
         NEW j \in Nat, 0 .. j \subseteq S, 0 .. j \subseteq T
  PROVE  f[j] = g[j]
<1> DEFINE Bad == {i \in 0 .. j : f[i] # g[i]}
<1>1. ASSUME Bad # {} PROVE FALSE
  <2>1. Bad \subseteq Nat
    OBVIOUS
  <2>2. PICK i \in Bad : \A x \in Bad : i <= x
    BY <1>1, <2>1, Least
  <2>3. i \in S /\ i \in T /\ f[i] # g[i] /\ i \in 0 .. j
    OBVIOUS
  <2>4. f[i] = Layer(f, i) /\ g[i] = Layer(g, i)
    BY <2>3 DEF Layers
  <2>5. CASE i = 0
    BY <2>3, <2>4, <2>5 DEF Layer
  <2>6. CASE i # 0
    <3>1. i - 1 \in 0 .. j /\ i - 1 < i
      BY <2>3, <2>6
    <3>2. f[i - 1] = g[i - 1]
      BY <2>2, <2>3, <3>1
    <3> QED
      BY <2>3, <2>4, <2>6, <3>2 DEF Layer
  <2> QED
    BY <2>5, <2>6
<1> QED
  BY <1>1

LEMMA LayersOnce ==
  ASSUME NEW j \in Nat
  PROVE  \E f : Layers(f, 0 .. j)
<1> DEFINE Bad == {i \in Nat : ~ \E f : Layers(f, 0 .. i)}
<1>1. ASSUME Bad # {} PROVE FALSE
  <2>1. Bad \subseteq Nat
    OBVIOUS
  <2>2. PICK i \in Bad : \A x \in Bad : i <= x
    BY <1>1, <2>1, Least
  <2>3. i \in Nat /\ ~ \E f : Layers(f, 0 .. i)
    OBVIOUS
  <2>4. CASE i = 0
    <3> DEFINE f == [x \in 0 .. i |-> RootAddrs]
    <3>1. f = [x \in 0 .. i |-> Layer(f, x)]
      BY <2>4 DEF Layer
    <3> QED
      BY <2>3, <3>1 DEF Layers
  <2>5. CASE i # 0
    <3>1. i - 1 \in Nat /\ i - 1 \notin Bad
      BY <2>2, <2>3, <2>5
    <3>2. PICK g : Layers(g, 0 .. i - 1)
      BY <3>1
    <3> DEFINE f == [x \in 0 .. i |-> Layer(g, x)]
    <3>3. \A x \in 0 .. i - 1 : g[x] = Layer(g, x)
      BY <3>2 DEF Layers
    <3>4. ASSUME NEW x \in 0 .. i PROVE Layer(f, x) = Layer(g, x)
      <4>1. CASE x = 0
        BY <4>1 DEF Layer
      <4>2. CASE x # 0
        <5>1. x - 1 \in 0 .. i /\ x - 1 \in 0 .. i - 1
          BY <2>3, <4>2
        <5>2. f[x - 1] = g[x - 1]
          BY <3>3, <5>1
        <5> QED
          BY <4>2, <5>2 DEF Layer
      <4> QED
        BY <4>1, <4>2
    <3>5. f = [x \in 0 .. i |-> Layer(f, x)]
      BY <3>4
    <3> QED
      BY <2>3, <3>5 DEF Layers
  <2> QED
    BY <2>4, <2>5
<1> QED
  BY <1>1

LEMMA ReachableIs ==
  \E n : Layers(n, Nat) /\ Reachable = n[Slots]
<1> DEFINE f(i) == CHOOSE f : Layers(f, 0 .. i)
           n == [i \in Nat |-> f(i)[i]]
<1>1. \A i \in Nat : Layers(f(i), 0 .. i)
  BY LayersOnce
<1> HIDE DEF f
<1>2. ASSUME NEW i \in Nat PROVE n[i] = Layer(n, i)
  <2>1. f(i)[i] = Layer(f(i), i)
    BY <1>1 DEF Layers
  <2>2. CASE i = 0
    BY <2>1, <2>2 DEF Layer
  <2>3. CASE i # 0
    <3>1. PICK h \in Nat : h = i - 1
      BY <2>3
    <3>2. 0 .. h \subseteq 0 .. i /\ 0 .. h \subseteq 0 .. h /\ (0 .. i) \in SUBSET Nat
          /\ (0 .. h) \in SUBSET Nat
      BY <3>1
    <3>3. Layers(f(i), 0 .. i) /\ Layers(f(h), 0 .. h)
      BY <1>1
    <3>4. f(i)[h] = f(h)[h]
      BY <3>2, <3>3, LayersAgree
    <3>5. n[h] = f(i)[h]
      BY <3>4
    <3> QED
      BY <2>1, <2>3, <3>1, <3>5 DEF Layer
  <2> QED
    BY <2>2, <2>3
<1> HIDE DEF n
<1>3. n = [i \in Nat |-> Layer(n, i)]
  <2>1. n = [i \in Nat |-> n[i]]
    BY DEF n
  <2> QED
    BY <1>2, <2>1
<1> DEFINE Is(g) == g = [i \in Nat |-> Layer(g, i)]
           c == CHOOSE g : Is(g)
<1>4. Is(c)
  BY <1>3
<1>5. Reachable = c[Slots]
  BY DEF Reachable, Layer, RootAddrs
<1> QED
  BY <1>4, <1>5 DEF Layers

LEMMA SuccessorsAre ==
  ASSUME NEW S
  PROVE  \A x : x \in Successors(S) <=>
                \/ x \in S
                \/ x # 0 /\ \E a \in S : \E k \in Word : mem[a].words[k] = x
BY DEF Successors

(* Nothing but what the roots lead to is reachable.                          *)
LEMMA ReachableWithin ==
  ASSUME NEW S, RootAddrs \subseteq S,
         \A a \in S, k \in Word : mem[a].words[k] \in S \cup {0}
  PROVE  Reachable \subseteq S
<1>1. PICK n : Layers(n, Nat) /\ Reachable = n[Slots]
  BY ReachableIs
<1>2. \A i \in Nat : n[i] = Layer(n, i)
  BY <1>1 DEF Layers
<1> DEFINE Bad == {i \in Nat : ~ (n[i] \subseteq S)}
<1>3. ASSUME Bad # {} PROVE FALSE
  <2>1. Bad \subseteq Nat
    OBVIOUS
  <2>2. PICK i \in Bad : \A x \in Bad : i <= x
    BY <1>3, <2>1, Least
  <2>3. i \in Nat /\ ~ (n[i] \subseteq S)
    OBVIOUS
  <2>4. i # 0
    BY <1>2, <2>3 DEF Layer
  <2>5. i - 1 \in Nat /\ i - 1 \notin Bad
    BY <2>2, <2>3, <2>4
  <2>6. n[i - 1] \subseteq S /\ n[i] = Successors(n[i - 1])
    BY <1>2, <2>3, <2>4, <2>5 DEF Layer
  <2>7. n[i] \subseteq S
    BY <2>6, SuccessorsAre
  <2> QED
    BY <2>3, <2>7
<1>4. Slots \in Nat /\ Slots \notin Bad
  BY <1>3, CollectorAssumption
<1> QED
  BY <1>1, <1>4

(* All of a sequence of addresses is, each of which a root or one before it  *)
(* leads to.                                                                 *)
LEMMA ReachableHas ==
  ASSUME NEW m \in 0 .. Slots, NEW s, \A i \in 1 .. m : s[i] # 0,
         \A i \in 1 .. m : \/ s[i] \in RootAddrs
                           \/ \E j \in 1 .. i - 1, k \in Word : mem[s[j]].words[k] = s[i]
  PROVE  \A i \in 1 .. m : s[i] \in Reachable
<1>1. PICK n : Layers(n, Nat) /\ Reachable = n[Slots]
  BY ReachableIs
<1>2. /\ n[0] = RootAddrs
      /\ \A i \in Nat : n[i + 1] = Successors(n[i])
  <2>1. \A i \in Nat : n[i] = Layer(n, i)
    BY <1>1 DEF Layers
  <2>2. n[0] = Layer(n, 0)
    BY <2>1
  <2>3. ASSUME NEW i \in Nat PROVE n[i + 1] = Successors(n[i])
    <3>1. PICK h \in Nat : h = i + 1
      OBVIOUS
    <3>2. n[h] = Layer(n, h) /\ h # 0 /\ h - 1 = i
      BY <2>1, <3>1
    <3> QED
      BY <3>1, <3>2 DEF Layer
  <2> QED
    BY <2>2, <2>3 DEF Layer
<1>3. \A i \in Nat : n[i] \subseteq n[i + 1]
  BY <1>2 DEF Successors
<1> DEFINE Ok(i) == i <= m => \A j \in 1 .. i : s[j] \in n[i]
           Bad == {i \in Nat : ~ Ok(i)}
<1>4. ASSUME Bad # {} PROVE FALSE
  <2>1. Bad \subseteq Nat
    OBVIOUS
  <2>2. PICK i \in Bad : \A x \in Bad : i <= x
    BY <1>4, <2>1, Least
  <2>3. i \in Nat /\ ~ Ok(i)
    OBVIOUS
  <2>4. i # 0 /\ i <= m
    BY <2>3
  <2>5. PICK h \in Nat : h = i - 1
    BY <2>3, <2>4
  <2>6. h + 1 = i /\ h \notin Bad /\ h <= m
    BY <2>2, <2>3, <2>4, <2>5
  <2>7. \A j \in 1 .. h : s[j] \in n[h]
    BY <2>6
  <2>8. n[h] \subseteq n[i] /\ n[i] = Successors(n[h])
    <3>1. n[h] \subseteq n[h + 1] /\ n[h + 1] = Successors(n[h])
      BY <1>2, <1>3
    <3> QED
      BY <2>6, <3>1
  <2>9. ASSUME NEW x \in Nat PROVE RootAddrs \subseteq n[x]
    <3> DEFINE Worse == {y \in Nat : ~ (RootAddrs \subseteq n[y])}
    <3>1. ASSUME Worse # {} PROVE FALSE
      <4>1. Worse \subseteq Nat
        OBVIOUS
      <4>2. PICK y \in Worse : \A z \in Worse : y <= z
        BY <3>1, <4>1, Least
      <4>3. y \in Nat /\ ~ (RootAddrs \subseteq n[y])
        OBVIOUS
      <4>4. y # 0
        BY <1>2, <4>3
      <4>5. PICK z \in Nat : z = y - 1
        BY <4>3, <4>4
      <4>6. z + 1 = y /\ z \notin Worse
        BY <4>2, <4>3, <4>5
      <4>7. n[z] \subseteq n[z + 1]
        BY <1>3
      <4> QED
        BY <4>3, <4>6, <4>7
    <3> QED
      BY <3>1
  <2>10. s[i] \in n[i]
    <3>1. CASE s[i] \in RootAddrs
      BY <2>3, <2>9, <3>1
    <3>2. CASE \E j \in 1 .. i - 1, k \in Word : mem[s[j]].words[k] = s[i]
      <4>1. PICK j \in 1 .. i - 1, k \in Word : mem[s[j]].words[k] = s[i]
        BY <3>2
      <4>2. s[j] \in n[h]
        BY <2>5, <2>7, <4>1
      <4>3. s[i] # 0
        BY <2>3, <2>4
      <4> QED
        BY <2>8, <4>1, <4>2, <4>3, SuccessorsAre
    <3> QED
      BY <2>3, <2>4, <3>1, <3>2
  <2>11. \A j \in 1 .. i : s[j] \in n[i]
    BY <2>3, <2>5, <2>6, <2>7, <2>8, <2>10
  <2> QED
    BY <2>3, <2>11
<1>5. ASSUME NEW i \in 1 .. m, NEW x \in Nat, x >= m PROVE s[i] \in n[x]
  <2> DEFINE Worse == {y \in Nat : y >= m /\ s[i] \notin n[y]}
  <2>1. ASSUME Worse # {} PROVE FALSE
    <3>1. Worse \subseteq Nat
      OBVIOUS
    <3>2. PICK y \in Worse : \A z \in Worse : y <= z
      BY <2>1, <3>1, Least
    <3>3. y \in Nat /\ y >= m /\ s[i] \notin n[y] /\ m \in Nat
      OBVIOUS
    <3>4. s[i] \in n[m]
      BY <1>4, <3>3
    <3>5. y # m
      BY <3>3, <3>4
    <3>6. PICK z \in Nat : z = y - 1
      BY <3>3, <3>5
    <3>7. z + 1 = y /\ z \notin Worse /\ z >= m
      BY <3>2, <3>3, <3>5, <3>6
    <3>8. n[z] \subseteq n[z + 1]
      BY <1>3
    <3> QED
      BY <3>3, <3>7, <3>8
  <2> QED
    BY <1>5, <2>1
<1> QED
  BY <1>1, <1>5, CollectorAssumption

(***************************************************************************)
(* What a collection keeps                                                 *)
(***************************************************************************)

(* When no root and no word is left to process, what is reachable is in the  *)
(* new semispace.                                                            *)
LEMMA ReachableIsNew ==
  ASSUME IInv, todo = {}, markStack = << >>, rest = {}
  PROVE  Reachable \subseteq New
<1>1. RootAddrs \subseteq New
  BY DEF RootAddrs, IInv, RootsAt
<1>2. ASSUME NEW a \in New, NEW k \in Word PROVE mem[a].words[k] \in New \cup {0}
  <2>1. NewObject(a)
    BY DEF IInv, Objects
  <2>2. k \in Done(a)
    BY DEF Done
  <2> QED
    BY <2>1, <2>2 DEF NewObject
<1> QED
  BY <1>1, <1>2, ReachableWithin

LEMMA HeadersSound ==
  ASSUME IInv
  PROVE  HeadersFollow
<1> SUFFICES ASSUME ~Collecting, NEW a \in Reachable
             PROVE  mem[a].words[0] \in New /\ ~mem[a].moved
  BY DEF HeadersFollow, New
<1>1. todo = {} /\ markStack = << >> /\ rest = {}
  BY DEF IInv, Quiet
<1>2. a \in New
  BY <1>1, ReachableIsNew
<1>3. NewObject(a) /\ 0 \in Word
  BY <1>2, CollectorAssumption DEF IInv, Objects, Word
<1>4. 0 \in Done(a)
  BY <1>1, <1>3 DEF Done
<1> QED
  BY <1>3, <1>4 DEF NewObject

(* A copy is made for a root or for a word of a copy made before, which      *)
(* leads to it from then on.                                                 *)
Led ==
  Collecting =>
    \A i \in 1 .. free[space] :
      \/ \E r \in Roots : env[r] = Slot(space, i)
      \/ \E j \in 1 .. i - 1, k \in Word : mem[Slot(space, j)].words[k] = Slot(space, i)

(* ggggc_process makes no copy or one, in the next slot, to which it leads.  *)
LEMMA MovesTo ==
  ASSUME IInv, Collecting, NEW a \in Old \cup {0}, NEW m, Patch(m), MoveIn(a, m),
         UNCHANGED space
  PROVE  \/ UNCHANGED free /\ mem' = m
         \/ /\ free'[space] = free[space] + 1
            /\ Forwarded(a) = Slot(space, free[space] + 1)
            /\ \A x \in New : mem'[x] = m[x]
<1>1. CASE a = 0 \/ mem[a].moved
  BY <1>1, Stays
<1>2. CASE ~(a = 0 \/ mem[a].moved)
  <2>1. a \in Old
    BY <1>2
  <2>2. free' = [free EXCEPT ![space] = @ + 1]
    BY <1>2 DEF MoveIn
  <2>3. free'[space] = free[space] + 1
    BY <2>2 DEF IInv, TypeOK
  <2>4. m \in [Addr -> Object] /\ m[a] = mem[a]
    BY <2>1 DEF Patch
  <2>5. PICK n : n = NextSlot
    OBVIOUS
  <2>6. /\ Forwarded(a) = n /\ n \notin New
        /\ \A x \in Addr : x # a /\ x # n => mem'[x] = m[x]
    BY <1>2, <2>1, <2>4, <2>5, Copies
  <2>7. \A x \in New : mem'[x] = m[x]
    BY <2>1, <2>6, Apart DEF IInv
  <2> QED
    BY <2>3, <2>5, <2>6, <2>7 DEF NextSlot
<1> QED
  BY <1>1, <1>2

(* So the copies there are stay led to if what led to them does.             *)
LEMMA LedOn ==
  ASSUME IInv, Led, Collecting, NEW a \in Old \cup {0}, NEW m, Patch(m), MoveIn(a, m),
         UNCHANGED space,
         \A r \in Roots : env[r] \in New => env'[r] = env[r],
         \A x \in New, k \in Word : mem[x].words[k] \in New => m[x].words[k] = mem[x].words[k],
         \/ \E r \in Roots : env'[r] = Forwarded(a)
         \/ \E x \in New, k \in Word : m[x].words[k] = Forwarded(a)
  PROVE  Led'
<1>1. space \in {0, 1} /\ free[space] \in Nat
  BY CollectorAssumption DEF IInv, TypeOK
<1>2. \A i \in 1 .. free[space] : Slot(space, i) \in New
  BY DEF New, InUse
<1>3. \A x \in New : mem'[x] = m[x]
  BY MovesTo
<1>4. ASSUME NEW i \in 1 .. free[space]
      PROVE  \/ \E r \in Roots : env'[r] = Slot(space, i)
             \/ \E j \in 1 .. i - 1, k \in Word :
                  mem'[Slot(space, j)].words[k] = Slot(space, i)
  <2>1. CASE \E r \in Roots : env[r] = Slot(space, i)
    BY <1>2, <2>1
  <2>2. CASE \E j \in 1 .. i - 1, k \in Word : mem[Slot(space, j)].words[k] = Slot(space, i)
    <3>1. PICK j \in 1 .. i - 1, k \in Word : mem[Slot(space, j)].words[k] = Slot(space, i)
      BY <2>2
    <3>2. j \in 1 .. free[space]
      BY <1>1
    <3>3. Slot(space, j) \in New /\ Slot(space, i) \in New
      BY <1>2, <3>2
    <3>4. mem'[Slot(space, j)].words[k] = Slot(space, i)
      BY <1>3, <3>1, <3>3
    <3> QED
      BY <3>4
  <2> QED
    BY <2>1, <2>2 DEF Led
<1>5. CASE free' = free
  BY <1>4, <1>5 DEF Led, Slot
<1>6. CASE free' # free
  <2> DEFINE n == free[space] + 1
  <2>1. free'[space] = n /\ Forwarded(a) = Slot(space, n)
    BY <1>6, MovesTo
  <2>2. \/ \E r \in Roots : env'[r] = Slot(space, n)
        \/ \E j \in 1 .. n - 1, k \in Word : mem'[Slot(space, j)].words[k] = Slot(space, n)
    <3>1. CASE \E r \in Roots : env'[r] = Forwarded(a)
      BY <2>1, <3>1
    <3>2. CASE \E x \in New, k \in Word : m[x].words[k] = Forwarded(a)
      <4>1. PICK x \in New, k \in Word : m[x].words[k] = Forwarded(a)
        BY <3>2
      <4>2. PICK j \in 1 .. free[space] : x = Slot(space, j)
        BY DEF New, InUse
      <4>3. j \in 1 .. n - 1 /\ mem'[Slot(space, j)].words[k] = Slot(space, n)
        BY <1>1, <1>3, <2>1, <4>1, <4>2
      <4> QED
        BY <4>3
    <3> QED
      BY <3>1, <3>2
  <2>3. \A i \in 1 .. n : i \in 1 .. free[space] \/ i = n
    BY <1>1
  <2> HIDE DEF n
  <2>4. \A i \in 1 .. n :
          \/ \E r \in Roots : env'[r] = Slot(space, i)
          \/ \E j \in 1 .. i - 1, k \in Word :
               mem'[Slot(space, j)].words[k] = Slot(space, i)
    BY <1>4, <2>2, <2>3
  <2> QED
    BY <2>1, <2>4 DEF Led, Slot
<1> QED
  BY <1>5, <1>6

LEMMA RootLeads ==
  ASSUME StackProgram, IInv, Led, NEW r \in Registered, ProcessRoot(r)
  PROVE  Led'
<1>1. r \in Roots /\ Variable(r) = r /\ Locations = Roots /\ r \in todo
  BY StackRoots DEF ProcessRoot
<1>2. PICK a : a = env[r]
  OBVIOUS
<1>3. a \in Old \cup {0}
  BY <1>1, <1>2 DEF IInv, RootsAt
<1>4. Collecting /\ MoveIn(a, mem) /\ env' = [env EXCEPT ![r] = Forwarded(a)] /\ UNCHANGED space
  BY <1>1, <1>2 DEF ProcessRoot
<1>5. Patch(mem)
  BY DEF Patch, IInv, TypeOK
<1>6. env'[r] = Forwarded(a) /\ \A q \in Roots : q # r => env'[q] = env[q]
  BY <1>1, <1>4 DEF IInv, TypeOK
<1>7. env[r] \notin New
  BY <1>2, <1>3, Apart DEF IInv
<1> QED
  BY <1>1, <1>3, <1>4, <1>5, <1>6, <1>7, LedOn

LEMMA WordLeads ==
  ASSUME StackProgram, IInv, Led, NEW k \in Word, ProcessWord(k)
  PROVE  Led'
<1>1. cur \in New /\ todo = {} /\ k \in rest /\ cur \in Addr
  BY Apart DEF ProcessWord, IInv, Stack
<1>2. NewObject(cur) /\ k \notin Done(cur)
  BY <1>1, DoneWith DEF IInv, Objects
<1>3. PICK a : a = mem[cur].words[k]
  OBVIOUS
<1>4. a \in Old \cup {0} /\ a \notin New
  BY <1>2, <1>3, Apart DEF IInv, NewObject
<1>5. PICK m : Written(m, cur, k, Forwarded(a))
  BY DEF Written
<1>6. Collecting /\ MoveIn(a, m) /\ UNCHANGED <<env, space>>
  BY <1>3, <1>5 DEF ProcessWord, Written
<1>7. Patch(m) /\ m[cur].words[k] = Forwarded(a)
      /\ \A x \in New, j \in Word : x # cur \/ j # k => m[x].words[j] = mem[x].words[j]
  BY <1>1, <1>4, <1>5, <1>6, WordPatched
<1>8. \A x \in New, j \in Word : mem[x].words[j] \in New => m[x].words[j] = mem[x].words[j]
  BY <1>3, <1>4, <1>7
<1> QED
  BY <1>1, <1>4, <1>6, <1>7, <1>8, LedOn

(* What a new object is called for is still so when it gets its place.       *)
Asked ==
  pc \in {"yield", "alloc"} =>
    call.shape \in Shapes \cup {{}} /\ (call.shape # {} => call.arg = env[DD])

CInv == IInv /\ Led /\ Asked

LEMMA NotCollecting ==
  ASSUME Program
  PROVE  ~Collecting /\ ~Collecting'
BY DEF Program, Malloc, Place, NoCollect, Write, Read, Copy, Drop, PushScope, PopScope,
       Unmoved, Collecting

LEMMA CInvKept ==
  ASSUME StackProgram, CInv, [Next]_vars
  PROVE  CInv'
<1>1. IInv'
  BY StepHolds DEF CInv
<1>2. Led'
  <2>1. CASE ~Collecting'
    BY <2>1 DEF Led
  <2>2. CASE BeginCollect
    <3>1. free'[space'] = 0
      BY <2>2 DEF BeginCollect, CInv, IInv, TypeOK
    <3> QED
      BY <3>1 DEF Led
  <2>3. CASE Collecting /\ UNCHANGED <<mem, space, free, env>>
    BY <2>3 DEF CInv, Led, Slot
  <2>4. CASE Collection
    <3>1. ASSUME NEW e \in Entries, ProcessEntry(e) PROVE FALSE
      BY <3>1, StackRoots
    <3>2. Pop => Collecting /\ UNCHANGED <<mem, space, free, env>>
      BY DEF Pop, RootsDone, Collecting
    <3>3. EndCollect => ~Collecting'
      BY DEF EndCollect, Collecting
    <3> QED
      BY <2>1, <2>3, <2>4, <3>1, <3>2, <3>3, RootLeads, WordLeads DEF Collection, CInv
  <2>5. CASE Program
    BY <2>1, <2>5, NotCollecting
  <2>6. CASE UNCHANGED vars
    BY <2>1, <2>3, <2>6 DEF vars, Collecting
  <2> QED
    BY <2>2, <2>4, <2>5, <2>6 DEF Next
<1>3. Asked'
  <2>1. CASE pc' \notin {"yield", "alloc"}
    BY <2>1 DEF Asked
  <2>2. CASE pc \in {"yield", "alloc"} /\ UNCHANGED <<call, env>>
    BY <2>2 DEF CInv, Asked
  <2>3. CASE BeginCollect
    BY <2>1, <2>3 DEF BeginCollect
  <2>4. CASE Collection
    <3>1. CASE Collecting /\ pc' = pc
      BY <2>1, <3>1 DEF Collecting
    <3>2. CASE EndCollect
      <4>1. call.arg = 0
        BY <3>2 DEF EndCollect, RootsDone, CInv, IInv, Calls
      <4> QED
        BY <2>1, <3>2, <4>1 DEF EndCollect
    <3> QED
      BY <2>4, <3>1, <3>2 DEF Collection, ProcessRoot, ProcessEntry, ProcessWord, Pop,
                              RootsDone, Collecting
  <2>5. CASE Program
    <3>1. ASSUME NEW l, NEW d \in {DD} \cup DescVars, NEW shape \in Shapes \cup {{}},
                 Malloc(l, d, shape)
          PROVE  Asked'
      <4>1. /\ call' = [to |-> l, arg |-> env[d], shape |-> shape] /\ env' = env
            /\ d # DD => shape = {}
        BY <3>1 DEF Malloc
      <4> QED
        BY <4>1 DEF Asked
    <3>2. CASE Place
      BY <2>1, <3>2 DEF Place
    <3>3. CASE NoCollect
      BY <2>2, <3>3 DEF NoCollect
    <3>4. CASE pc = "run" /\ pc' = pc
      BY <2>1, <3>4
    <3> QED
      BY <2>5, <3>1, <3>2, <3>3, <3>4
      DEF Program, Write, Read, Copy, Drop, PushScope, PopScope, Unmoved
  <2>6. CASE UNCHANGED vars
    BY <2>6 DEF vars, CInv, Asked
  <2> QED
    BY <2>3, <2>4, <2>5, <2>6 DEF Next
<1> QED
  BY <1>1, <1>2, <1>3 DEF CInv

LEMMA CInvInitially ==
  ASSUME StackProgram, Init
  PROVE  CInv
BY InitHolds DEF CInv, Led, Asked, Collecting, Init

(* A step that ends a collection finds in the new semispace what is          *)
(* reachable and nothing else.                                               *)
LEMMA KeepsReachable ==
  ASSUME StackProgram, CInv, Collecting, [Next]_vars, ~Collecting'
  PROVE  New = Reachable
<1>1. EndCollect
  <2>1. ASSUME NEW e \in Entries, ProcessEntry(e) PROVE FALSE
    BY <2>1, StackRoots
  <2> QED
    BY <2>1 DEF Next, Program, Malloc, Place, NoCollect, Write, Read, Copy, Drop, PushScope,
            PopScope, BeginCollect, Collection, ProcessRoot, ProcessWord, Pop, RootsDone,
            Collecting, vars
<1>2. todo = {} /\ rest = {} /\ markStack = << >>
  BY <1>1 DEF EndCollect, RootsDone
<1>3. Reachable \subseteq New
  BY <1>2, ReachableIsNew DEF CInv
<1>4. PICK m \in 0 .. Slots : m = free[space]
  BY DEF CInv, IInv, TypeOK
<1>5. PICK s : s = [i \in 1 .. m |-> Slot(space, i)]
  OBVIOUS
<1>6. \A i \in 1 .. m : s[i] \in New /\ s[i] # 0
  BY <1>4, <1>5, Apart DEF New, InUse, CInv, IInv
<1>7. ASSUME NEW i \in 1 .. m
      PROVE  \/ s[i] \in RootAddrs
             \/ \E j \in 1 .. i - 1, k \in Word : mem[s[j]].words[k] = s[i]
  <2>1. CASE \E r \in Roots : env[r] = Slot(space, i)
    BY <1>5, <1>6, <2>1 DEF RootAddrs
  <2>2. CASE \E j \in 1 .. i - 1, k \in Word : mem[Slot(space, j)].words[k] = Slot(space, i)
    <3>1. PICK j \in 1 .. i - 1, k \in Word : mem[Slot(space, j)].words[k] = Slot(space, i)
      BY <2>2
    <3>2. s[j] = Slot(space, j)
      BY <1>5
    <3> QED
      BY <1>5, <3>1, <3>2
  <2> QED
    BY <1>4, <2>1, <2>2 DEF CInv, Led
<1>8. \A i \in 1 .. m : s[i] \in Reachable
  BY <1>6, <1>7, ReachableHas
<1>9. New \subseteq Reachable
  BY <1>4, <1>5, <1>8 DEF New, InUse
<1> QED
  BY <1>3, <1>9

(* With what the copies were made for: the invariant of the properties that  *)
(* speak of reachability and of the graph.                                   *)
THEOREM CInductive ==
  ASSUME StackProgram
  PROVE  Spec => []CInv
<1>1. Init => CInv
  BY CInvInitially
<1>2. CInv /\ [Next]_vars => CInv'
  BY CInvKept
<1> QED
  BY <1>1, <1>2, PTL DEF Spec

(* Whatever the program can reach, between collections, has a header that is *)
(* the address of a descriptor and no forwarding address.                    *)
THEOREM HeadersHold ==
  ASSUME StackProgram
  PROVE  Spec => []HeadersFollow
<1>1. IInv => HeadersFollow
  BY HeadersSound
<1> QED
  BY <1>1, Inductive, PTL

(* ggggc_collect keeps what the pointer stack reaches and nothing else.      *)
THEOREM ReachableKept ==
  ASSUME StackProgram
  PROVE  Spec => CollectsGarbageOnly
<1>1. CInv /\ [Next]_vars =>
        [Collecting /\ ~Collecting' =>
           {mem[a].id : a \in InUse(space)} = {mem[a].id : a \in Reachable}]_vars
  BY KeepsReachable DEF New
<1> QED
  BY <1>1, CInductive, PTL DEF Spec, CollectsGarbageOnly

(***************************************************************************)
(* The graph the program sees                                              *)
(***************************************************************************)

(* Where the objects are: in the new semispace or, until they are copied, in *)
(* the old one.                                                              *)
Alive == New \cup (IF Collecting THEN {a \in Old : ~mem[a].moved} ELSE {})

(* An object as the program sees it, identities in place of addresses.       *)
Seen(a) == [words |-> [k \in Word |-> Id(mem[a].words[k])], shape |-> mem[a].shape]

LEMMA AliveKnown ==
  ASSUME IInv
  PROVE  /\ Alive \subseteq Known /\ Alive \subseteq Addr /\ 0 \notin Alive
         /\ \A a \in Alive : mem[a].id \in 1 .. made
         /\ \A a, b \in Alive : mem[a].id = mem[b].id => a = b
         /\ \A a \in Known : \E b \in Alive : mem[b].id = mem[a].id
<1>1. New \subseteq Addr /\ Old \subseteq Addr /\ 0 \notin Addr
  BY Apart DEF IInv
<1>2. Alive \subseteq Known /\ Alive \subseteq Addr
  BY <1>1 DEF Alive, Known, New, Old
<1>3. \A a \in Alive : mem[a].id \in 1 .. made
  BY DEF Alive, IInv, Objects, NewObject, OldObject
<1>4. ASSUME NEW a \in New, NEW b \in Old, Collecting, ~mem[b].moved
      PROVE  mem[a].id # mem[b].id
  <2>1. PICK c \in Old : mem[c].moved /\ mem[c].words[0] = a
    BY <1>4 DEF IInv, Objects, Origins
  <2>2. mem[a].id = mem[c].id
    BY <1>4, <2>1 DEF IInv, Objects, OldObject
  <2> QED
    BY <1>4, <2>1, <2>2 DEF IInv, Objects, Unique
<1>5. \A a, b \in Alive : mem[a].id = mem[b].id => a = b
  <2>1. \A a, b \in New : mem[a].id = mem[b].id => a = b
    BY CopiesUnique DEF Unique
  <2>2. Collecting => \A a, b \in Old : mem[a].id = mem[b].id => a = b
    BY DEF IInv, Objects, Unique
  <2> QED
    BY <1>4, <2>1, <2>2 DEF Alive
<1>6. ASSUME NEW a \in Known PROVE \E b \in Alive : mem[b].id = mem[a].id
  <2>1. CASE a \in Alive
    BY <2>1
  <2>2. CASE a \notin Alive
    <3>1. Collecting /\ a \in Old /\ mem[a].moved
      BY <2>2 DEF Alive, Known, New, Old
    <3>2. mem[a].words[0] \in New /\ mem[mem[a].words[0]].id = mem[a].id
      BY <3>1 DEF IInv, Objects, OldObject
    <3> QED
      BY <3>2 DEF Alive
  <2> QED
    BY <2>1, <2>2
<1> QED
  BY <1>1, <1>2, <1>3, <1>5, <1>6

(* The refinement mapping finds each object where it is.                     *)
LEMMA HomeIs ==
  ASSUME IInv
  PROVE  /\ DOMAIN Home = {mem[a].id : a \in Alive}
         /\ Home = [i \in DOMAIN Home |-> Home[i]]
         /\ \A a \in Alive : Home[mem[a].id] = a
<1>1. /\ Alive \subseteq Known
      /\ \A a, b \in Alive : mem[a].id = mem[b].id => a = b
      /\ \A a \in Known : \E b \in Alive : mem[b].id = mem[a].id
  BY AliveKnown
<1>2. DOMAIN Home = {mem[a].id : a \in Known}
  BY DEF Home
<1>3. {mem[a].id : a \in Known} = {mem[a].id : a \in Alive}
  BY <1>1
<1>4. ASSUME NEW a \in Alive PROVE Home[mem[a].id] = a
  <2>1. PICK i : i = mem[a].id
    OBVIOUS
  <2>2. Home[i] = IF \E b \in New : mem[b].id = i
                  THEN CHOOSE b \in New : mem[b].id = i
                  ELSE CHOOSE b \in Known : mem[b].id = i
    BY <1>1, <2>1 DEF Home, New
  <2>3. CASE \E b \in New : mem[b].id = i
    <3>1. Home[i] \in New /\ mem[Home[i]].id = i
      BY <2>2, <2>3
    <3>2. Home[i] \in Alive
      BY <3>1 DEF Alive
    <3> QED
      BY <1>1, <2>1, <3>1, <3>2
  <2>4. CASE ~ \E b \in New : mem[b].id = i
    <3>1. Home[i] \in Known /\ mem[Home[i]].id = i
      BY <1>1, <2>1, <2>2, <2>4
    <3>2. Home[i] \in Alive
      <4>1. Home[i] \notin New
        BY <2>4, <3>1
      <4>2. Collecting /\ Home[i] \in Old
        BY <3>1, <4>1 DEF Known, New, Old
      <4>3. ASSUME mem[Home[i]].moved PROVE FALSE
        <5>1. OldObject(Home[i])
          BY <4>2 DEF IInv, Objects
        <5>2. mem[Home[i]].words[0] \in New /\ mem[mem[Home[i]].words[0]].id = i
          BY <3>1, <4>3, <5>1 DEF OldObject
        <5> QED
          BY <2>4, <5>2
      <4> QED
        BY <4>2, <4>3 DEF Alive
    <3> QED
      BY <1>1, <2>1, <3>1, <3>2
  <2> QED
    BY <2>1, <2>3, <2>4
<1>5. Home = [i \in DOMAIN Home |-> Home[i]]
  BY DEF Home
<1> QED
  BY <1>2, <1>3, <1>4, <1>5

(* The graph: one node for each object there is.                             *)
Ids(S) == {mem[a].id : a \in S}
IsGraph(g, S) ==
  /\ g = [i \in DOMAIN g |-> g[i]] /\ DOMAIN g = Ids(S)
  /\ \A a \in S : g[mem[a].id] = Seen(a)

LEMMA GraphIs ==
  ASSUME IInv
  PROVE  IsGraph(GraphOf(Home), Alive)
<1>1. /\ DOMAIN Home = {mem[a].id : a \in Alive}
      /\ \A a \in Alive : Home[mem[a].id] = a
  BY HomeIs
<1>2. PICK h : h = Home
  OBVIOUS
<1>3. GraphOf(h) = [i \in DOMAIN h |->
                      [words |-> [k \in Word |-> Id(mem[h[i]].words[k])],
                       shape |-> mem[h[i]].shape]]
  BY DEF GraphOf
<1>4. DOMAIN GraphOf(h) = DOMAIN h /\ GraphOf(h) = [i \in DOMAIN GraphOf(h) |-> GraphOf(h)[i]]
  BY <1>3
<1>5. ASSUME NEW a \in Alive PROVE GraphOf(h)[mem[a].id] = Seen(a)
  <2>1. PICK i : i = mem[a].id
    OBVIOUS
  <2>2. i \in DOMAIN h /\ h[i] = a
    BY <1>1, <1>2, <2>1
  <2>3. GraphOf(h)[i] = [words |-> [k \in Word |-> Id(mem[h[i]].words[k])],
                         shape |-> mem[h[i]].shape]
    BY <1>3, <2>2
  <2> QED
    BY <2>1, <2>2, <2>3 DEF Seen
<1> QED
  BY <1>1, <1>2, <1>4, <1>5 DEF IsGraph, Ids

LEMMA GraphIsNext ==
  ASSUME IInv', NEW h, h = GraphOf(Home)'
  PROVE  /\ h = [i \in DOMAIN h |-> h[i]] /\ DOMAIN h = {mem'[b].id : b \in Alive'}
         /\ \A b \in Alive' : h[mem'[b].id] = Seen(b)'
<1>1. IsGraph(GraphOf(Home), Alive)'
  BY GraphIs, PTL
<1> QED
  BY <1>1 DEF IsGraph, Ids

(* Two graphs with the same nodes are the same.                              *)
LEMMA SameGraph ==
  ASSUME NEW g, NEW h, g = [i \in DOMAIN g |-> g[i]], h = [i \in DOMAIN h |-> h[i]],
         DOMAIN g = DOMAIN h, \A i \in DOMAIN g : g[i] = h[i]
  PROVE  g = h
OBVIOUS

(* A step at which every object stays or leaves its copy, looking the same,  *)
(* does not change the graph.                                                *)
LEMMA GraphKept ==
  ASSUME IInv, IInv',
         \A a \in Alive : \E b \in Alive' : mem'[b].id = mem[a].id /\ Seen(b)' = Seen(a),
         \A b \in Alive' : \E a \in Alive : mem'[b].id = mem[a].id
  PROVE  GraphOf(Home)' = GraphOf(Home)
<1>1. PICK g : g = GraphOf(Home)
  OBVIOUS
<1>2. PICK h : h = GraphOf(Home)'
  OBVIOUS
<1>3. /\ h = [i \in DOMAIN h |-> h[i]] /\ DOMAIN h = {mem'[b].id : b \in Alive'}
      /\ \A b \in Alive' : h[mem'[b].id] = Seen(b)'
  BY <1>2, GraphIsNext
<1>4. /\ g = [i \in DOMAIN g |-> g[i]] /\ DOMAIN g = {mem[a].id : a \in Alive}
      /\ \A a \in Alive : g[mem[a].id] = Seen(a)
  BY <1>1, GraphIs DEF IsGraph, Ids
<1>5. DOMAIN g = DOMAIN h
  BY <1>3, <1>4
<1>6. ASSUME NEW i \in DOMAIN g PROVE g[i] = h[i]
  <2>1. PICK a \in Alive : mem[a].id = i
    BY <1>4
  <2>2. PICK b \in Alive' : mem'[b].id = mem[a].id /\ Seen(b)' = Seen(a)
    OBVIOUS
  <2> QED
    BY <1>3, <1>4, <2>1, <2>2
<1>7. g = h
  BY <1>3, <1>4, <1>5, <1>6, SameGraph
<1> QED
  BY <1>1, <1>2, <1>7

(* What the program's variables hold.                                        *)
Names == [l \in Locations |-> Id(env[l])]
Stutters == GraphOf(Home)' = GraphOf(Home) /\ Names' = Names

LEMMA GraphUnchanged ==
  ASSUME UNCHANGED <<mem, space, free>>, Collecting' = Collecting
  PROVE  GraphOf(Home)' = GraphOf(Home)
<1>1. \A s : InUse(s)' = InUse(s)
  BY DEF InUse, Slot
<1>2. Known' = Known
  BY <1>1 DEF Known, InUse, Slot
<1>3. Home' = Home
  BY <1>2 DEF Home, InUse, Slot
<1>4. mem' = mem /\ Home' = Home
  BY <1>3
<1> QED
  BY <1>4, Zenon DEF GraphOf, Id

LEMMA SameMemory ==
  ASSUME UNCHANGED <<mem, space, free, env>>, Collecting' = Collecting
  PROVE  Stutters
<1>1. UNCHANGED <<mem, space, free>>
  OBVIOUS
<1>2. GraphOf(Home)' = GraphOf(Home)
  BY <1>1, GraphUnchanged
<1>3. Names' = Names
  BY DEF Names, Id
<1> QED
  BY <1>2, <1>3 DEF Stutters

(* References of objects lead to objects of either semispace.                *)
LEMMA AliveWords ==
  ASSUME IInv, NEW a \in Alive, NEW k \in Word
  PROVE  mem[a].words[k] \in New \cup Old \cup {0}
<1>1. CASE a \in New
  BY <1>1 DEF IInv, Objects, NewObject
<1>2. CASE a \notin New
  BY <1>2 DEF Alive, IInv, Objects, OldObject
<1> QED
  BY <1>1, <1>2

IdIn(m, a) == IF a = 0 THEN 0 ELSE m[a].id

(* ggggc_process leaves every object alive at its place or, the one at a, in *)
(* its copy at f.                                                            *)
Relocates(a, m, f) ==
  /\ \A x \in New \cup Old : mem'[x].id = mem[x].id
  /\ IdIn(mem', f) = IdIn(mem, a)
  /\ \/ Alive' = Alive /\ \A x \in Alive : mem'[x] = m[x]
     \/ /\ a \in Alive /\ a \in Old /\ f \notin Alive /\ Alive' = (Alive \ {a}) \cup {f}
        /\ mem'[f] = mem[a] /\ \A x \in Alive \ {a} : mem'[x] = m[x]

LEMMA Relocated ==
  ASSUME IInv, Collecting, NEW a \in Old \cup {0}, NEW m, Patch(m), MoveIn(a, m),
         UNCHANGED <<space, pc>>, NEW f, f = Forwarded(a)
  PROVE  Relocates(a, m, f)
<1>1. /\ New \cap Old = {} /\ New \subseteq Addr /\ Old \subseteq Addr /\ 0 \notin Addr
      /\ 0 \notin New /\ 0 \notin Old /\ Collecting'
  BY Apart DEF IInv, Collecting
<1>2. CASE a = 0 \/ mem[a].moved
  <2>1. mem' = m /\ UNCHANGED free
    BY <1>2, Stays
  <2>2. New' = New /\ Old' = Old
    BY <2>1, SameSpaces
  <2>3. \A x \in New \cup Old : mem'[x].id = mem[x].id /\ mem'[x].moved = mem[x].moved
    BY <2>1 DEF Patch
  <2>4. Alive' = Alive
    BY <1>1, <2>2, <2>3 DEF Alive
  <2>5. IdIn(mem', f) = IdIn(mem, a)
    <3>1. CASE a = 0
      BY <3>1 DEF Forwarded, IdIn
    <3>2. CASE a # 0
      <4>1. OldObject(a) /\ mem[a].moved /\ f = mem[a].words[0]
        BY <1>2, <3>2 DEF IInv, Objects, Forwarded
      <4>2. f \in New /\ mem[f].id = mem[a].id
        BY <4>1 DEF OldObject
      <4> QED
        BY <1>1, <2>3, <3>2, <4>2 DEF IdIn
    <3> QED
      BY <3>1, <3>2
  <2> QED
    BY <2>1, <2>3, <2>4, <2>5 DEF Relocates
<1>3. CASE ~(a = 0 \/ mem[a].moved)
  <2>1. a \in Old /\ m \in [Addr -> Object] /\ m[a] = mem[a]
    BY <1>3 DEF Patch
  <2>2. PICK n : n = NextSlot
    OBVIOUS
  <2>3. /\ n \in Addr /\ n \notin New /\ n \notin Old /\ n # 0
        /\ New' = New \cup {n} /\ Old' = Old /\ f = n
        /\ mem'[n] = mem[a] /\ mem'[a].moved /\ mem'[a].id = mem[a].id
        /\ \A x \in Addr : x # a /\ x # n => mem'[x] = m[x]
    BY <1>3, <2>1, <2>2, Copies
  <2>4. \A x \in New \cup Old : x # a => mem'[x] = m[x]
    BY <1>1, <2>3
  <2>5. \A x \in New \cup Old : mem'[x].id = mem[x].id
    BY <2>3, <2>4 DEF Patch
  <2>6. \A x \in Old : x # a => mem'[x].moved = mem[x].moved
    BY <2>4 DEF Patch
  <2>7. ~mem[a].moved /\ a \notin New
    BY <1>1, <1>3, <2>1
  <2>8. Alive' = (Alive \ {a}) \cup {n} /\ a \in Alive /\ n \notin Alive
    BY <1>1, <2>1, <2>3, <2>6, <2>7 DEF Alive
  <2>9. IdIn(mem', f) = IdIn(mem, a)
    BY <1>3, <2>3 DEF IdIn
  <2>10. \A x \in Alive \ {a} : mem'[x] = m[x]
    BY <2>4 DEF Alive
  <2> QED
    BY <2>1, <2>3, <2>5, <2>8, <2>9, <2>10 DEF Relocates
<1> QED
  BY <1>2, <1>3

(* So the graph stays the same if the words of m mean the same.              *)
LEMMA RelocatedGraph ==
  ASSUME IInv, IInv', NEW a, NEW m, NEW f, Relocates(a, m, f),
         \A x \in Alive : m[x].shape = mem[x].shape,
         \A x \in Alive, k \in Word :
           m[x].words[k] = mem[x].words[k]
           \/ (m[x].words[k] = f /\ mem[x].words[k] = a)
  PROVE  GraphOf(Home)' = GraphOf(Home)
<1>1. /\ \A x \in New \cup Old : mem'[x].id = mem[x].id
      /\ IdIn(mem', f) = IdIn(mem, a)
  BY DEF Relocates
<1>2. \A x \in Alive : x \in New \cup Old
  BY DEF Alive
<1>3. ASSUME NEW x \in New \cup Old \cup {0} PROVE IdIn(mem', x) = IdIn(mem, x)
  BY <1>1 DEF IdIn
<1>4. \A x : Seen(x)' = [words |-> [k \in Word |-> IdIn(mem', mem'[x].words[k])],
                         shape |-> mem'[x].shape]
  BY DEF Seen, Id, IdIn
<1>5. \A x : Seen(x) = [words |-> [k \in Word |-> IdIn(mem, mem[x].words[k])],
                        shape |-> mem[x].shape]
  BY DEF Seen, Id, IdIn
<1>6. ASSUME NEW x \in Alive, mem'[x] = m[x] PROVE Seen(x)' = Seen(x)
  <2>1. ASSUME NEW k \in Word
        PROVE  IdIn(mem', mem'[x].words[k]) = IdIn(mem, mem[x].words[k])
    <3>1. mem[x].words[k] \in New \cup Old \cup {0}
      BY AliveWords
    <3>2. CASE m[x].words[k] = mem[x].words[k]
      BY <1>3, <1>6, <3>1, <3>2
    <3>3. CASE m[x].words[k] = f /\ mem[x].words[k] = a
      BY <1>1, <1>6, <3>3
    <3> QED
      BY <3>2, <3>3
  <2>2. mem'[x].shape = mem[x].shape
    BY <1>6
  <2> QED
    BY <1>4, <1>5, <2>1, <2>2
<1>7. CASE Alive' = Alive /\ \A x \in Alive : mem'[x] = m[x]
  <2>1. \A x \in Alive : mem'[x].id = mem[x].id /\ Seen(x)' = Seen(x)
    BY <1>1, <1>2, <1>6, <1>7
  <2> QED
    BY <1>7, <2>1, GraphKept
<1>8. CASE /\ a \in Alive /\ a \in Old /\ f \notin Alive /\ Alive' = (Alive \ {a}) \cup {f}
           /\ mem'[f] = mem[a] /\ \A x \in Alive \ {a} : mem'[x] = m[x]
  <2>1. \A x \in Alive \ {a} : mem'[x].id = mem[x].id /\ Seen(x)' = Seen(x)
    BY <1>1, <1>2, <1>6, <1>8
  <2>2. \A k \in Word : IdIn(mem', mem'[f].words[k]) = IdIn(mem, mem[a].words[k])
    BY <1>3, <1>8, AliveWords
  <2>3. mem'[f].id = mem[a].id /\ Seen(f)' = Seen(a)
    BY <1>4, <1>5, <1>8, <2>2
  <2> QED
    BY <1>8, <2>1, <2>3, GraphKept
<1> QED
  BY <1>7, <1>8 DEF Relocates

LEMMA NamesKept ==
  ASSUME \A l \in Locations : IdIn(mem', env'[l]) = IdIn(mem, env[l])
  PROVE  Names' = Names
<1>1. Names' = [l \in Locations |-> IdIn(mem', env'[l])]
  BY DEF Names, Id, IdIn
<1>2. Names = [l \in Locations |-> IdIn(mem, env[l])]
  BY DEF Names, Id, IdIn
<1> QED
  BY <1>1, <1>2

LEMMA RootStutters ==
  ASSUME StackProgram, IInv, IInv', NEW r \in Registered, ProcessRoot(r)
  PROVE  Stutters
<1>1. r \in Roots /\ Variable(r) = r /\ Locations = Roots /\ r \in todo
  BY StackRoots DEF ProcessRoot
<1>2. PICK a : a = env[r]
  OBVIOUS
<1>3. PICK f : f = Forwarded(a)
  OBVIOUS
<1>4. a \in Old \cup {0}
  BY <1>1, <1>2 DEF IInv, RootsAt
<1>5. /\ Collecting /\ MoveIn(a, mem) /\ env' = [env EXCEPT ![r] = f]
      /\ UNCHANGED <<space, pc>>
  BY <1>1, <1>2, <1>3 DEF ProcessRoot
<1>6. Patch(mem)
  BY DEF Patch, IInv, TypeOK
<1>7. Relocates(a, mem, f)
  BY <1>3, <1>4, <1>5, <1>6, Relocated
<1>8. GraphOf(Home)' = GraphOf(Home)
  BY <1>7, RelocatedGraph
<1>9. env'[r] = f /\ \A q \in Roots : q # r => env'[q] = env[q]
  BY <1>1, <1>5 DEF IInv, TypeOK
<1>10. ASSUME NEW q \in Roots PROVE IdIn(mem', env'[q]) = IdIn(mem, env[q])
  <2>1. CASE q = r
    BY <1>2, <1>7, <1>9, <2>1 DEF Relocates
  <2>2. CASE q # r
    <3>1. env[q] \in New \cup Old \cup {0}
      BY DEF IInv, RootsAt
    <3> QED
      BY <1>7, <1>9, <2>2, <3>1 DEF Relocates, IdIn
  <2> QED
    BY <2>1, <2>2
<1>11. Names' = Names
  BY <1>1, <1>10, NamesKept
<1> QED
  BY <1>8, <1>11 DEF Stutters

LEMMA WordStutters ==
  ASSUME StackProgram, IInv, IInv', NEW k \in Word, ProcessWord(k)
  PROVE  Stutters
<1>1. cur \in New /\ todo = {} /\ k \in rest
  BY DEF ProcessWord, IInv, Stack
<1>2. NewObject(cur) /\ k \notin Done(cur)
  BY <1>1, DoneWith DEF IInv, Objects
<1>3. PICK a : a = mem[cur].words[k]
  OBVIOUS
<1>4. a \in Old \cup {0}
  BY <1>2, <1>3 DEF NewObject
<1>5. PICK f : f = Forwarded(a)
  OBVIOUS
<1>6. PICK m : Written(m, cur, k, f)
  BY DEF Written
<1>7. Collecting /\ MoveIn(a, m) /\ UNCHANGED <<env, space, pc>>
  BY <1>3, <1>5, <1>6 DEF ProcessWord, Written
<1>8. /\ Patch(m) /\ m[cur].words[k] = f
      /\ \A x \in New, j \in Word : x # cur \/ j # k => m[x].words[j] = mem[x].words[j]
  BY <1>1, <1>4, <1>5, <1>6, <1>7, WordPatched
<1>9. Relocates(a, m, f)
  BY <1>4, <1>5, <1>7, <1>8, Relocated
<1>10. \A x \in Alive : m[x].shape = mem[x].shape
  BY <1>8 DEF Patch, Alive
<1>11. \A x \in Alive, j \in Word :
         m[x].words[j] = mem[x].words[j] \/ (m[x].words[j] = f /\ mem[x].words[j] = a)
  BY <1>3, <1>8 DEF Patch, Alive
<1>12. GraphOf(Home)' = GraphOf(Home)
  BY <1>9, <1>10, <1>11, RelocatedGraph
<1>13. ASSUME NEW q \in Roots PROVE IdIn(mem', env'[q]) = IdIn(mem, env[q])
  <2>1. env[q] \in New \cup Old \cup {0}
    BY DEF IInv, RootsAt
  <2> QED
    BY <1>7, <1>9, <2>1 DEF Relocates, IdIn
<1>14. Names' = Names
  BY <1>13, NamesKept, StackRoots
<1> QED
  BY <1>12, <1>14 DEF Stutters

LEMMA BeginStutters ==
  ASSUME StackProgram, IInv, IInv', BeginCollect
  PROVE  Stutters
<1>1. UNCHANGED <<mem, env>> /\ Collecting' /\ ~Collecting
  BY DEF BeginCollect, Collecting
<1>2. New' = {} /\ Old' = New
  BY SpacesSwapped
<1>3. \A x \in New : ~mem[x].moved
  BY DEF IInv, Objects, NewObject
<1>4. Alive' = Alive
  BY <1>1, <1>2, <1>3 DEF Alive
<1>5. \A x : Seen(x)' = Seen(x)
  BY <1>1 DEF Seen, Id
<1>6. GraphOf(Home)' = GraphOf(Home)
  BY <1>1, <1>4, <1>5, GraphKept
<1> QED
  BY <1>1, <1>6 DEF Stutters, Names, Id

(***************************************************************************)
(* The steps the program sees                                              *)
(***************************************************************************)

LEMMA EndReclaims ==
  ASSUME StackProgram, IInv, IInv', EndCollect
  PROVE  Graph!Next
<1>1. /\ todo = {} /\ rest = {} /\ markStack = << >>
      /\ UNCHANGED <<mem, space, free, env>> /\ ~Collecting'
  BY DEF EndCollect, RootsDone, IInv, Calls, Collecting
<1>2. New' = New
  BY <1>1, SameSpaces
<1>3. Alive' = New
  BY <1>1, <1>2 DEF Alive
<1>4. \A x : Seen(x)' = Seen(x)
  BY <1>1 DEF Seen, Id
<1>5. PICK g : g = GraphOf(Home)
  OBVIOUS
<1>6. PICK h : h = GraphOf(Home)'
  OBVIOUS
<1>7. PICK keep : keep = {mem[a].id : a \in New}
  OBVIOUS
<1>8. /\ g = [i \in DOMAIN g |-> g[i]] /\ DOMAIN g = {mem[a].id : a \in Alive}
      /\ \A a \in Alive : g[mem[a].id] = Seen(a)
  BY <1>5, GraphIs DEF IsGraph, Ids
<1>9. /\ h = [i \in DOMAIN h |-> h[i]] /\ DOMAIN h = keep
      /\ \A a \in New : h[mem[a].id] = Seen(a)
  <2>1. /\ h = [i \in DOMAIN h |-> h[i]] /\ DOMAIN h = {mem'[b].id : b \in Alive'}
        /\ \A b \in Alive' : h[mem'[b].id] = Seen(b)'
    BY <1>6, GraphIsNext
  <2> QED
    BY <1>1, <1>3, <1>4, <1>7, <2>1
<1>10. keep \subseteq DOMAIN g
  BY <1>7, <1>8 DEF Alive
<1>11. \A i \in keep : h[i] = g[i]
  BY <1>7, <1>8, <1>9 DEF Alive
<1>12. h = [i \in keep |-> g[i]]
  BY <1>9, <1>11
<1>13. Names' = Names
  BY <1>1 DEF Names, Id
<1>14. \A x \in New \cup {0} : Id(x) \in keep \cup {0}
  BY <1>7 DEF Id
<1>15. \A l \in Locations : Names[l] \in keep \cup {0}
  <2>1. \A l \in Locations : env[l] \in New \cup {0}
    BY <1>1, StackRoots DEF IInv, RootsAt
  <2> QED
    BY <1>14, <2>1 DEF Names
<1>16. ASSUME NEW i \in keep, NEW k \in Word PROVE g[i].words[k] \in keep \cup {0}
  <2>1. PICK a \in New : i = mem[a].id
    BY <1>7
  <2>2. k \in Done(a)
    BY <1>1 DEF Done
  <2>3. mem[a].words[k] \in New \cup {0}
    BY <2>2 DEF IInv, Objects, NewObject
  <2>4. g[i] = Seen(a)
    BY <1>8, <2>1 DEF Alive
  <2> QED
    BY <1>14, <2>3, <2>4 DEF Seen
<1>17. Graph!Reclaim(keep)
  BY <1>5, <1>6, <1>12, <1>13, <1>15, <1>16 DEF Graph!Reclaim, Graph!Points, Graph!Word, Word, Names
<1> QED
  BY <1>5, <1>10, <1>17 DEF Graph!Next

(* Between collections the graph is that of the current semispace.           *)
LEMMA GraphBetween ==
  ASSUME StackProgram, IInv, ~Collecting, NEW g, g = GraphOf(Home)
  PROVE  /\ g = [i \in DOMAIN g |-> g[i]] /\ DOMAIN g = {mem[a].id : a \in New}
         /\ \A a \in New : g[mem[a].id] = Seen(a)
BY GraphIs DEF IsGraph, Ids, Alive

(* An assignment of a reference that is in a variable or an object.          *)
LEMMA Assigned ==
  ASSUME StackProgram, IInv, ~Collecting, ~Collecting', UNCHANGED <<mem, space, free>>,
         NEW l \in Roots, NEW v, env' = [env EXCEPT ![l] = v],
         \/ v = 0
         \/ \E m \in Roots : /\ env[m] # 0
                             /\ v = env[m] \/ \E k \in Word : v = mem[env[m]].words[k]
  PROVE  Graph!Next /\ Names' = [Names EXCEPT ![l] = Id(v)]
<1>1. PICK g : g = GraphOf(Home)
  OBVIOUS
<1>2. /\ DOMAIN g = {mem[a].id : a \in New}
      /\ \A a \in New : g[mem[a].id] = Seen(a)
  BY <1>1, GraphBetween
<1>3. /\ \A r \in Roots : env[r] \in New \cup {0}
      /\ \A x \in New : \A k \in Word : mem[x].words[k] \in New \cup {0}
      /\ \A x \in New : mem[x].id \in 1 .. made
  BY Between DEF NewObject
<1>4. Locations = Roots /\ env \in [Roots -> Ref]
  BY StackRoots DEF IInv, TypeOK
<1>5. GraphOf(Home)' = GraphOf(Home)
  <2>1. UNCHANGED <<mem, space, free>> /\ Collecting' = Collecting
    BY DEF Collecting
  <2> QED
    BY <2>1, GraphUnchanged
<1>6. Names' = [Names EXCEPT ![l] = Id(v)]
  BY <1>4 DEF Names, Id
<1>7. 0 \notin New /\ 0 \notin 1 .. made
  BY Apart DEF IInv
<1>8. v \in New \cup {0}
  BY <1>3
<1>9. Id(v) \in DOMAIN g \cup {0}
  BY <1>2, <1>8 DEF Id
<1>10. \/ Id(v) = 0
       \/ \E m \in Locations :
            /\ Names[m] # 0
            /\ Id(v) = Names[m] \/ \E k \in Word : Id(v) = g[Names[m]].words[k] /\ Id(v) # 0
  <2>1. CASE v = 0
    BY <2>1 DEF Id
  <2>2. CASE v # 0
    <3>1. PICK m \in Roots : /\ env[m] # 0
                             /\ v = env[m] \/ \E k \in Word : v = mem[env[m]].words[k]
      BY <2>2
    <3>2. env[m] \in New /\ Names[m] = mem[env[m]].id /\ Names[m] # 0
      BY <1>3, <1>4, <1>7, <3>1 DEF Names, Id
    <3>3. g[Names[m]] = Seen(env[m])
      BY <1>2, <3>2
    <3>4. v = env[m] => Id(v) = Names[m]
      BY <1>4 DEF Names
    <3>5. \A k \in Word : g[Names[m]].words[k] = Id(mem[env[m]].words[k])
      BY <3>3 DEF Seen
    <3>6. Id(v) # 0
      BY <1>3, <1>7, <1>8, <2>2 DEF Id
    <3> QED
      BY <1>4, <3>1, <3>2, <3>4, <3>5, <3>6
  <2> QED
    BY <2>1, <2>2
<1>11. PICK i : i = Id(v)
  OBVIOUS
<1>12. Graph!Assign(l, i)
  BY <1>1, <1>5, <1>6, <1>10, <1>11
  DEF Graph!Assign, Graph!Name, Graph!Points, Graph!Word, Word, Names
<1> QED
  BY <1>1, <1>4, <1>6, <1>9, <1>11, <1>12 DEF Graph!Next

(* GGC_RP gives the variable what the graph has in that word.                *)
LEMMA ReadSeen ==
  ASSUME StackProgram, IInv, NEW l \in Assignable, NEW m \in Data, NEW k \in Word,
         Read(l, m, k)
  PROVE  Graph!Next /\ Graph!Read(l, m, k)
<1>1. /\ pc = "run" /\ env[m] # 0 /\ k # 0
      /\ env' = [env EXCEPT ![l] = mem[env[m]].words[k]]
      /\ UNCHANGED <<mem, space, free, pc>>
  BY DEF Read, Unmoved
<1>2. ~Collecting /\ ~Collecting' /\ UNCHANGED <<mem, space, free>>
  BY <1>1 DEF Collecting
<1>3. l \in Roots /\ m \in Roots /\ Locations = Roots
  BY OnlyRoots, StackRoots
<1>4. PICK v : v = mem[env[m]].words[k]
  OBVIOUS
<1>5. \E q \in Roots : /\ env[q] # 0
                       /\ v = env[q] \/ \E j \in Word : v = mem[env[q]].words[j]
  BY <1>1, <1>3, <1>4
<1>6. env' = [env EXCEPT ![l] = v]
  BY <1>1, <1>4
<1>7. Graph!Next /\ Names' = [Names EXCEPT ![l] = Id(v)]
  BY <1>2, <1>3, <1>5, <1>6, Assigned
<1>8. Collecting' = Collecting
  BY <1>2 DEF Collecting
<1>9. GraphOf(Home)' = GraphOf(Home)
  BY <1>2, <1>8, GraphUnchanged
<1>10. PICK g : g = GraphOf(Home)
  OBVIOUS
<1>11. env[m] \in New /\ Names[m] = mem[env[m]].id /\ Names[m] # 0
  <2>1. env[m] \in New /\ mem[env[m]].id \in 1 .. made
    BY <1>1, <1>2, <1>3, Between DEF NewObject
  <2> QED
    BY <1>1, <1>3, <2>1 DEF Names, Id
<1>12. g[Names[m]] = Seen(env[m])
  BY <1>2, <1>10, <1>11, GraphBetween
<1>13. Id(v) = GraphOf(Home)[Names[m]].words[k]
  BY <1>4, <1>10, <1>12 DEF Seen
<1>14. Names' = [Names EXCEPT ![l] = GraphOf(Home)[Names[m]].words[k]]
  BY <1>7, <1>13
<1>15. Graph!Read(l, m, k)
  BY <1>1, <1>9, <1>11, <1>14, Zenon DEF Graph!Read, Graph!Name, Names
<1> QED
  BY <1>7, <1>15

(* GGC_WP writes an identity into a word that the object's descriptor names. *)
LEMMA WriteSeen ==
  ASSUME StackProgram, IInv, IInv', NEW m \in Data, NEW n \in Data, NEW k \in Word,
         Write(m, k, n)
  PROVE  Graph!Next /\ Graph!Write(m, k, n)
<1>1. /\ pc = "run" /\ env[m] # 0 /\ k \in mem[env[m]].members \ {0}
      /\ mem' = [mem EXCEPT ![env[m]].words[k] = env[n]]
      /\ UNCHANGED <<env, space, free, pc>>
  BY DEF Write, Unmoved
<1>2. ~Collecting /\ ~Collecting'
  BY <1>1 DEF Collecting
<1>3. m \in Roots /\ n \in Roots /\ Locations = Roots
  BY OnlyRoots, StackRoots
<1>4. PICK a : a = env[m]
  OBVIOUS
<1>5. PICK v : v = env[n]
  OBVIOUS
<1>6. a \in New /\ a \in Addr /\ v \in New \cup {0} /\ v \in Ref
  BY <1>1, <1>2, <1>3, <1>4, <1>5, Between, Apart DEF IInv, Ref
<1>7. New' = New /\ New \subseteq Addr
  BY <1>1, SameSpaces, Apart DEF IInv
<1>8. mem \in [Addr -> Object]
  BY DEF IInv, TypeOK
<1>9. PICK mm : mm = mem'
  OBVIOUS
<1>10. Written(mm, a, k, v)
  BY <1>1, <1>4, <1>5, <1>9 DEF Written
<1>11. /\ mm[a].words[k] = v
       /\ \A y \in Addr : mm[y].id = mem[y].id /\ mm[y].shape = mem[y].shape
       /\ \A y \in Addr, j \in Word : y # a \/ j # k => mm[y].words[j] = mem[y].words[j]
  BY <1>6, <1>8, <1>10, WrittenIs
<1>12. PICK h : h = mem[a].words[0]
  OBVIOUS
<1>13. h \in New /\ NewObject(a) /\ \A x \in New, j \in Word : mem[x].words[j] \in New \cup {0}
  BY <1>2, <1>6, <1>12, Between, CollectorAssumption DEF NewObject, Word
<1>14. PICK g : g = GraphOf(Home)
  OBVIOUS
<1>15. PICK g2 : g2 = GraphOf(Home)'
  OBVIOUS
<1>16. /\ g = [i \in DOMAIN g |-> g[i]] /\ DOMAIN g = {mem[x].id : x \in New}
       /\ \A x \in New : g[mem[x].id] = Seen(x)
  BY <1>2, <1>14, GraphBetween
<1>17. /\ g2 = [i \in DOMAIN g2 |-> g2[i]] /\ DOMAIN g2 = {mem'[x].id : x \in Alive'}
       /\ \A x \in Alive' : g2[mem'[x].id] = Seen(x)'
  BY <1>15, GraphIsNext
<1>18. Alive' = New
  BY <1>2, <1>7 DEF Alive
<1>19. DOMAIN g2 = DOMAIN g /\ \A x \in New : g2[mem[x].id] = Seen(x)'
  BY <1>7, <1>9, <1>11, <1>16, <1>17, <1>18
<1>20. \A x \in New \cup {0} : Id(x)' = Id(x)
  BY <1>7, <1>9, <1>11 DEF Id
<1>21. PICK i : i = mem[a].id
  OBVIOUS
<1>22. ASSUME NEW x \in New, x # a PROVE Seen(x)' = Seen(x)
  <2>1. \A j \in Word : mem'[x].words[j] = mem[x].words[j] /\ mem[x].words[j] \in New \cup {0}
    BY <1>7, <1>9, <1>11, <1>13, <1>22
  <2>2. mem'[x].shape = mem[x].shape
    BY <1>7, <1>9, <1>11
  <2> QED
    BY <1>20, <2>1, <2>2 DEF Seen
<1>23. Seen(a)' = [Seen(a) EXCEPT !.words[k] = Id(v)]
  <2>1. \A x \in New \cup {0} : IdIn(mem', x) = Id(x)
    BY <1>7, <1>9, <1>11 DEF Id, IdIn
  <2>2. \A j \in Word : /\ mem'[a].words[j] = (IF j = k THEN v ELSE mem[a].words[j])
                        /\ mem[a].words[j] \in New \cup {0}
    BY <1>6, <1>9, <1>11, <1>13
  <2>3. \A j \in Word : IdIn(mem', mem'[a].words[j])
                          = IF j = k THEN Id(v) ELSE Id(mem[a].words[j])
    BY <1>6, <2>1, <2>2
  <2>4. Seen(a)' = [words |-> [j \in Word |-> IdIn(mem', mem'[a].words[j])],
                    shape |-> mem'[a].shape]
    BY DEF Seen, Id, IdIn
  <2>5. mem'[a].shape = mem[a].shape
    BY <1>6, <1>9, <1>11
  <2>6. PICK w : w = [j \in Word |-> Id(mem[a].words[j])]
    OBVIOUS
  <2>7. [w EXCEPT ![k] = Id(v)] = [j \in Word |-> IdIn(mem', mem'[a].words[j])]
    BY <2>3, <2>6
  <2>8. Seen(a) = [words |-> w, shape |-> mem[a].shape]
    BY <2>6 DEF Seen
  <2>9. Seen(a)' = [words |-> [w EXCEPT ![k] = Id(v)], shape |-> mem[a].shape]
    BY <2>4, <2>5, <2>7
  <2> QED
    BY <2>8, <2>9
<1>24. g2 = [g EXCEPT ![i].words[k] = Id(v)]
  <2>1. i \in DOMAIN g /\ g[i] = Seen(a) /\ g2[i] = Seen(a)'
    BY <1>6, <1>16, <1>19, <1>21
  <2>2. \A j \in DOMAIN g : j # i => g2[j] = g[j]
    BY <1>16, <1>19, <1>21, <1>22
  <2>3. g2[i] = [g[i] EXCEPT !.words[k] = Id(v)]
    BY <1>23, <2>1
  <2> QED
    BY <1>16, <1>17, <1>19, <2>1, <2>2, <2>3
<1>25. Names[m] = i /\ Names[n] = Id(v) /\ Names' = Names /\ i # 0
  <2>1. i \in 1 .. made
    BY <1>13, <1>21 DEF NewObject
  <2>2. \A l \in Locations : Id(env[l])' = Id(env[l])
    BY <1>1, <1>2, <1>3, <1>20, Between
  <2>3. Names' = Names
    BY <2>2 DEF Names
  <2>4. a # 0
    BY <1>1, <1>4
  <2> QED
    BY <1>3, <1>4, <1>5, <1>21, <2>1, <2>3, <2>4 DEF Names, Id
<1>26. k \in g[g[i].words[0]].shape \ {0}
  <2>1. g[i].words[0] = mem[h].id
    <3>1. g[i] = Seen(a) /\ 0 \in Word
      BY <1>6, <1>16, <1>21, CollectorAssumption DEF Word
    <3>2. Id(h) = mem[h].id
      BY <1>7, <1>13, Apart DEF Id, IInv
    <3> QED
      BY <1>12, <3>1, <3>2 DEF Seen
  <2>2. g[mem[h].id] = Seen(h) /\ Seen(h).shape = mem[h].shape
    BY <1>13, <1>16 DEF Seen
  <2>3. mem[a].members = mem[h].shape
    <3>1. NewObject(h)
      BY <1>2, <1>13, Between
    <3> QED
      BY <1>12, <1>13, <3>1 DEF NewObject, Masked, Typed
  <2> QED
    BY <1>1, <1>4, <2>1, <2>2, <2>3
<1>27. Graph!Write(m, k, n)
  BY <1>14, <1>15, <1>24, <1>25, <1>26 DEF Graph!Write, Names
<1> QED
  BY <1>3, <1>27 DEF Graph!Next, Graph!Word, Word

(* The rest of ggggc_malloc adds one object and names it.                    *)
LEMMA PlaceSeen ==
  ASSUME StackProgram, IInv, IInv', Asked, Place
  PROVE  Graph!Next /\ Graph!New(call.to, made + 1, Id(call.arg), call.shape)
<1>1. /\ pc = "alloc" /\ free[space] < Slots
      /\ mem' = [mem EXCEPT ![NextSlot] =
                   [id |-> made + 1, moved |-> FALSE,
                    words |-> [Blank EXCEPT ![0] = call.arg],
                    members |-> mem[call.arg].shape,
                    shape |-> call.shape, mask |-> Mask(call.shape)]]
      /\ free' = [free EXCEPT ![space] = @ + 1]
      /\ env' = [env EXCEPT ![call.to] = NextSlot]
      /\ made' = made + 1 /\ pc' = "run" /\ space' = space
  BY DEF Place
<1>2. ~Collecting /\ ~Collecting'
  BY <1>1 DEF Collecting
<1>3. /\ made < MaxObjects /\ call.arg \in New /\ call.to \in Roots
      /\ made \in 1 .. MaxObjects /\ MaxObjects \in Nat
      /\ call.shape \in Shapes \cup {{}} /\ (call.shape # {} => call.arg = env[DD])
  BY <1>1, CollectorAssumption DEF IInv, Calls, TypeOK, Asked
<1>4. PICK n : n = NextSlot
  OBVIOUS
<1>5. /\ n \in Addr /\ n \notin New /\ n # 0 /\ New' = New \cup {n} /\ New \subseteq Addr
      /\ 0 \notin New
  BY <1>1, <1>4, Fresh, Apart DEF IInv
<1>6. PICK w : w = [Blank EXCEPT ![0] = call.arg]
  OBVIOUS
<1>7. PICK o : o = [id |-> made + 1, moved |-> FALSE, words |-> w,
                    members |-> mem[call.arg].shape,
                    shape |-> call.shape, mask |-> Mask(call.shape)]
  OBVIOUS
<1>8. mem \in [Addr -> Object] /\ mem' = [mem EXCEPT ![n] = o]
  BY <1>1, <1>4, <1>6, <1>7 DEF IInv, TypeOK
<1>9. mem'[n] = o /\ \A x \in New : mem'[x] = mem[x]
  BY <1>5, <1>8
<1>10. Locations = Roots /\ env \in [Roots -> Ref] /\ env' = [env EXCEPT ![call.to] = n]
  BY <1>1, <1>4, StackRoots DEF IInv, TypeOK
<1>11. /\ \A x \in New, k \in Word : mem[x].words[k] \in New \cup {0}
       /\ \A x \in New : mem[x].id \in 1 .. made
       /\ \A r \in Roots : env[r] \in New \cup {0}
  BY <1>2, Between DEF NewObject
<1>12. PICK g : g = GraphOf(Home)
  OBVIOUS
<1>13. PICK g2 : g2 = GraphOf(Home)'
  OBVIOUS
<1>14. /\ g = [i \in DOMAIN g |-> g[i]] /\ DOMAIN g = {mem[x].id : x \in New}
       /\ \A x \in New : g[mem[x].id] = Seen(x)
  BY <1>2, <1>12, GraphBetween
<1>15. /\ g2 = [i \in DOMAIN g2 |-> g2[i]] /\ DOMAIN g2 = {mem'[x].id : x \in Alive'}
       /\ \A x \in Alive' : g2[mem'[x].id] = Seen(x)'
  BY <1>13, GraphIsNext
<1>16. Alive' = New \cup {n}
  BY <1>2, <1>5 DEF Alive
<1>17. PICK i : i = made + 1
  OBVIOUS
<1>18. mem'[n].id = i
  BY <1>7, <1>9, <1>17
<1>19. i \in 1 .. MaxObjects /\ i \notin DOMAIN g /\ \A x \in New : mem[x].id # i
  BY <1>3, <1>11, <1>14, <1>17
<1>20. DOMAIN g2 = DOMAIN g \cup {i}
  BY <1>9, <1>14, <1>15, <1>16, <1>18
<1>21. \A x \in New \cup {0} : IdIn(mem', x) = Id(x)
  BY <1>5, <1>9 DEF Id, IdIn
<1>22. \A x : Seen(x)' = [words |-> [j \in Word |-> IdIn(mem', mem'[x].words[j])],
                         shape |-> mem'[x].shape]
  BY DEF Seen, Id, IdIn
<1>23. ASSUME NEW x \in New PROVE Seen(x)' = Seen(x)
  <2>1. \A j \in Word : IdIn(mem', mem'[x].words[j]) = Id(mem[x].words[j])
    BY <1>9, <1>11, <1>21
  <2> QED
    BY <1>9, <1>22, <2>1 DEF Seen
<1>24. PICK d : d = mem[call.arg].id
  OBVIOUS
<1>25. IdIn(mem', call.arg) = d /\ d \in DOMAIN g
  BY <1>3, <1>5, <1>14, <1>21, <1>24 DEF Id
<1>26. Seen(n)' = [words |-> [Graph!Blank EXCEPT ![0] = d], shape |-> call.shape]
  <2>1. Seen(n)' = [words |-> [j \in Word |-> IdIn(mem', w[j])], shape |-> call.shape]
    BY <1>7, <1>9, <1>22
  <2>2. 0 \in Word /\ \A j \in Word : w[j] = IF j = 0 THEN call.arg ELSE 0
    BY <1>6, CollectorAssumption DEF Blank, Word
  <2>3. \A j \in Word : IdIn(mem', w[j]) = IF j = 0 THEN d ELSE 0
    BY <1>25, <2>2 DEF IdIn
  <2>4. [Graph!Blank EXCEPT ![0] = d] = [j \in Word |-> IF j = 0 THEN d ELSE 0]
    BY DEF Graph!Blank, Graph!Word, Word
  <2>5. [j \in Word |-> IdIn(mem', w[j])] = [j \in Word |-> IF j = 0 THEN d ELSE 0]
    BY <2>3
  <2> QED
    BY <2>1, <2>4, <2>5
<1>27. g2 = [j \in DOMAIN g \cup {i} |->
               IF j = i THEN [words |-> [Graph!Blank EXCEPT ![0] = d], shape |-> call.shape]
               ELSE g[j]]
  <2>1. g2[i] = [words |-> [Graph!Blank EXCEPT ![0] = d], shape |-> call.shape]
    BY <1>15, <1>16, <1>18, <1>26
  <2>2. \A j \in DOMAIN g : g2[j] = g[j]
    BY <1>9, <1>14, <1>15, <1>16, <1>23
  <2> QED
    BY <1>15, <1>19, <1>20, <2>1, <2>2
<1>28. Names' = [Names EXCEPT ![call.to] = i]
  <2>1. Names' = [l \in Locations |-> IdIn(mem', env'[l])]
    BY DEF Names, Id, IdIn
  <2>2. \A l \in Locations : env'[l] = IF l = call.to THEN n ELSE env[l]
    BY <1>3, <1>10
  <2>3. \A l \in Locations : IdIn(mem', env'[l]) = IF l = call.to THEN i ELSE Id(env[l])
    BY <1>5, <1>10, <1>11, <1>18, <1>21, <2>2 DEF IdIn
  <2> QED
    BY <2>1, <2>3 DEF Names
<1>29. d # Names[DD] => call.shape = {}
  BY <1>3, <1>5, <1>10, <1>24, StackRoots DEF Names, Id
<1>30. PICK l \in Locations : l = call.to
  BY <1>3, <1>10
<1>31. PICK shape \in Shapes \cup {{}} : shape = call.shape
  BY <1>3
<1>32. Graph!Name(l, i) /\ Graph!Add(i, d, shape) /\ d \in DOMAIN GraphOf(Home)
  <2>1. Names' = [Names EXCEPT ![l] = i] /\ (d # Names[DD] => shape = {})
    BY <1>28, <1>29, <1>30, <1>31
  <2>2. g2 = [j \in DOMAIN g \cup {i} |->
               IF j = i THEN [words |-> [Graph!Blank EXCEPT ![0] = d], shape |-> shape]
               ELSE g[j]]
    BY <1>27, <1>31
  <2>3. d \in DOMAIN g
    BY <1>25
  <2>4. d \in DOMAIN GraphOf(Home) /\ (d # Names[DD] => shape = {})
    BY <1>12, <2>1, <2>3
  <2>5. GraphOf(Home)' = [j \in DOMAIN GraphOf(Home) \cup {i} |->
          IF j = i THEN [words |-> [Graph!Blank EXCEPT ![0] = d], shape |-> shape]
          ELSE GraphOf(Home)[j]]
    BY <1>12, <1>13, <2>2, Zenon
  <2>6. Names' = [Names EXCEPT ![l] = i]
    BY <2>1
  <2>7. Graph!Name(l, i)
    BY <2>6, Zenon DEF Graph!Name, Names
  <2>8. Graph!Add(i, d, shape)
    BY <2>4, <2>5, Zenon DEF Graph!Add, Names
  <2> QED
    BY <2>4, <2>7, <2>8
<1>33. Graph!New(l, i, d, shape)
  BY <1>32, Zenon DEF Graph!New
<1>34. Id(call.arg) = d
  BY <1>3, <1>5, <1>24 DEF Id
<1>35. i \in (1 .. MaxObjects) \ DOMAIN GraphOf(Home)
  BY <1>12, <1>19
<1> QED
  BY <1>17, <1>30, <1>31, <1>32, <1>33, <1>34, <1>35, Zenon DEF Graph!Next

LEMMA BeginsAsGraph ==
  ASSUME StackProgram, Init
  PROVE  Graph!Init
<1>1. IInv
  BY InitHolds
<1>2. /\ mem = [a \in Addr |->
                  IF a = 1
                  THEN [id |-> 1, moved |-> FALSE, words |-> [Blank EXCEPT ![0] = 1],
                        members |-> {0, 1}, shape |-> {0, 1}, mask |-> {0, 1}]
                  ELSE [id |-> 0, moved |-> FALSE, words |-> Blank, members |-> {},
                        shape |-> {}, mask |-> {}]]
      /\ space = 0 /\ free = [s \in {0, 1} |-> 1 - s]
      /\ env = [l \in Locations |-> IF l = DD THEN 1 ELSE 0]
      /\ pc = "run"
  BY DEF Init
<1>3. ~Collecting
  BY <1>2 DEF Collecting
<1>4. New = {1}
  <2>1. free[0] = 1 /\ 1 .. 1 = {1} /\ Slot(0, 1) = 1
    BY <1>2, CollectorAssumption DEF Slot
  <2> QED
    BY <1>2, <2>1 DEF New, InUse
<1>5. PICK w : w = [Blank EXCEPT ![0] = 1]
  OBVIOUS
<1>6. mem[1] = [id |-> 1, moved |-> FALSE, words |-> w, members |-> {0, 1},
                shape |-> {0, 1}, mask |-> {0, 1}]
  BY <1>2, <1>5, CollectorAssumption DEF Addr
<1>7. mem[1].id = 1 /\ mem[1].words = w /\ mem[1].shape = {0, 1}
  BY <1>6
<1>8. PICK g : g = GraphOf(Home)
  OBVIOUS
<1>9. /\ g = [i \in DOMAIN g |-> g[i]] /\ DOMAIN g = {mem[a].id : a \in New}
      /\ \A a \in New : g[mem[a].id] = Seen(a)
  BY <1>1, <1>3, <1>8, GraphBetween
<1>10. DOMAIN g = {1} /\ g[1] = Seen(1)
  BY <1>4, <1>7, <1>9
<1>11. Seen(1) = [words |-> [Graph!Blank EXCEPT ![0] = 1], shape |-> {0, 1}]
  <2>1. \A j \in Word : w[j] = IF j = 0 THEN 1 ELSE 0
    BY <1>5 DEF Blank, Word
  <2>2. \A j \in Word : Id(w[j]) = IF j = 0 THEN 1 ELSE 0
    BY <1>7, <2>1 DEF Id
  <2>3. [j \in Word |-> Id(w[j])] = [j \in Word |-> IF j = 0 THEN 1 ELSE 0]
    BY <2>2
  <2>4. [Graph!Blank EXCEPT ![0] = 1] = [j \in Word |-> IF j = 0 THEN 1 ELSE 0]
    BY DEF Graph!Blank, Graph!Word, Word
  <2> QED
    BY <1>7, <2>3, <2>4 DEF Seen
<1>12. g = [i \in {1} |-> [words |-> [Graph!Blank EXCEPT ![0] = 1], shape |-> {0, 1}]]
  BY <1>9, <1>10, <1>11
<1>13. Names = [l \in Locations |-> IF l = DD THEN 1 ELSE 0]
  BY <1>2, <1>7 DEF Names, Id
<1> QED
  BY <1>8, <1>12, <1>13 DEF Graph!Init, Names

(* The steps of the program between collections.                             *)
LEMMA ProgramSeen ==
  ASSUME StackProgram, IInv, IInv', Asked, Program
  PROVE  Stutters \/ Graph!Next
<1>1. ~Collecting /\ ~Collecting'
  BY NotCollecting
<1>2. CASE UNCHANGED <<mem, space, free, env>>
  <2>1. Collecting' = Collecting
    BY <1>1 DEF Collecting
  <2> QED
    BY <1>2, <2>1, SameMemory
<1>3. Data \subseteq Roots /\ Assignable \subseteq Roots /\ Locations = Roots
  BY OnlyRoots, StackRoots
<1>4. ASSUME NEW l, NEW d, NEW shape, Malloc(l, d, shape)
      PROVE  UNCHANGED <<mem, space, free, env>>
  BY <1>4 DEF Malloc
<1>5. CASE Place
  BY <1>5, PlaceSeen
<1>6. CASE NoCollect
  BY <1>2, <1>6 DEF NoCollect
<1>7. ASSUME NEW m \in Data, NEW n \in Data, NEW k \in Word, Write(m, k, n)
      PROVE  Graph!Next
  BY <1>7, WriteSeen
<1>8. ASSUME NEW l \in Assignable, NEW m \in Data, NEW k \in Word, Read(l, m, k)
      PROVE  Graph!Next
  BY <1>8, ReadSeen
<1>9. ASSUME NEW l \in Assignable, NEW m \in Data, Copy(l, m)
      PROVE  Graph!Next
  <2>1. /\ env' = [env EXCEPT ![l] = env[m]]
        /\ UNCHANGED <<mem, space, free>>
    BY <1>9 DEF Copy, Unmoved
  <2>2. PICK v : v = env[m]
    OBVIOUS
  <2>3. \/ v = 0
        \/ \E q \in Roots : /\ env[q] # 0
                            /\ v = env[q] \/ \E j \in Word : v = mem[env[q]].words[j]
    BY <1>3, <2>2
  <2> QED
    BY <1>1, <1>3, <2>1, <2>2, <2>3, Assigned
<1>10. ASSUME NEW l \in DataVars, Drop(l)
       PROVE  Graph!Next
  <2>1. env' = [env EXCEPT ![l] = 0] /\ UNCHANGED <<mem, space, free>> /\ l \in Roots
    BY <1>10 DEF Drop, Unmoved, Roots
  <2>2. PICK v : v = 0
    OBVIOUS
  <2> QED
    BY <1>1, <2>1, <2>2, Assigned
<1>11. ASSUME NEW c \in Chains, PushScope(c) \/ PopScope(c)
       PROVE  UNCHANGED <<mem, space, free, env>>
  <2>1. CASE PushScope(c)
    BY <2>1 DEF PushScope
  <2>2. CASE PopScope(c)
    <3>1. UNCHANGED <<mem, space, free>>
      BY <2>2 DEF PopScope
    <3>2. env' = [l \in Locations |-> env[l]]
      <4>1. {c} \X {depth[c]} \X ScopeVars = {}
        BY DEF StackProgram
      <4> QED
        BY <2>2, <4>1 DEF PopScope
    <3> QED
      BY <3>1, <3>2 DEF IInv, TypeOK
  <2> QED
    BY <1>11, <2>1, <2>2
<1> QED
  BY <1>2, <1>4, <1>5, <1>6, <1>7, <1>8, <1>9, <1>10, <1>11 DEF Program

(* What the program sees at any step: nothing, or what it did itself.        *)
LEMMA StepSeen ==
  ASSUME StackProgram, CInv, CInv', [Next]_vars
  PROVE  Stutters \/ Graph!Next
<1>1. IInv /\ IInv' /\ Asked
  BY DEF CInv
<1>2. CASE Program
  BY <1>1, <1>2, ProgramSeen
<1>3. CASE BeginCollect
  BY <1>1, <1>3, BeginStutters
<1>4. CASE Collection
  <2>1. ASSUME NEW e \in Entries, ProcessEntry(e) PROVE FALSE
    BY <2>1, StackRoots
  <2>2. ASSUME Pop PROVE Stutters
    <3>1. UNCHANGED <<mem, space, free, env>> /\ Collecting' = Collecting
      BY <2>2 DEF Pop, Collecting
    <3> QED
      BY <3>1, SameMemory
  <2> QED
    BY <1>1, <1>4, <2>1, <2>2, RootStutters, WordStutters, EndReclaims DEF Collection
<1>5. CASE UNCHANGED vars
  <2>1. UNCHANGED <<mem, space, free, env>> /\ Collecting' = Collecting
    BY <1>5 DEF vars, Collecting
  <2> QED
    BY <2>1, SameMemory
<1> QED
  BY <1>2, <1>3, <1>4, <1>5 DEF Next

(* ggggc_malloc, the pointer reads and writes and the collector implement a  *)
(* graph of objects that only the program changes: whatever it reads through *)
(* its variables is what it wrote, at every step of every collection.  Each  *)
(* of the three is the graph's step of that name.                            *)
THEOREM GraphImplemented ==
  ASSUME StackProgram
  PROVE  Spec => Transparent
<1>1. Init => Graph!Init
  BY BeginsAsGraph
<1>2. CInv /\ CInv' /\ [Next]_vars => [Graph!Next]_(Graph!vars)
  <2> SUFFICES ASSUME CInv, CInv', [Next]_vars
               PROVE  [Graph!Next]_(Graph!vars)
    OBVIOUS
  <2>1. Stutters \/ Graph!Next
    BY StepSeen
  <2>2. Stutters => UNCHANGED Graph!vars
    BY DEF Stutters, Names, Graph!vars
  <2> QED
    BY <2>1, <2>2
<1>3. CInv /\ CInv' /\ [Next]_vars => GraphSteps
  BY PlaceSeen, WriteSeen, ReadSeen DEF CInv, GraphSteps
<1> QED
  BY <1>1, <1>2, <1>3, CInductive, PTL DEF Spec, Transparent, Graph!Spec
=============================================================================
