----------------------------- MODULE Collector -----------------------------
(***************************************************************************)
(* The copying collector (gc/collect.c) at work between the steps of the   *)
(* program that uses it: allocation with GGC_YIELD inside (gc/allocate.c), *)
(* pointer reads and writes (ggggc/gc.h), the pointer stack as roots, and  *)
(* the roots LSR adds to it, the chains of LSRScope.  A collection is      *)
(* taken one ggggc_process at a time.                                      *)
(*                                                                         *)
(* Data that no property tells apart is left out: objects have one size,   *)
(* so that a semispace is an array of slots and an address a number, 0     *)
(* being NULL (how objects of different sizes are laid out is module       *)
(* Pools); words that hold no pointer are 0; whether an allocation has to  *)
(* grow the heap is a free choice.  A retired semispace keeps its contents *)
(* until the next collection overwrites them, as in the code, so that a    *)
(* stale address reads what the program would read.                        *)
(***************************************************************************)
EXTENDS Integers, Sequences, FiniteSets

CONSTANTS
  Slots,           \* objects a semispace holds
  Width,           \* words of an object after its header
  Shapes,          \* which words of an object its descriptor may call pointers
  DataRoots,       \* variables on the pointer stack that hold data objects
  DescRoots,       \* variables on the pointer stack that hold descriptors
  Twice,           \* numbers of variables on the pointer stack that are registered
                   \* twice, by a frame and by ggggc_globalize's copy of it
  ScopeVars,       \* names of LSR variables of class type
  MaxDepth,        \* LSRScopes in a chain (bound)
  MaxObjects,      \* objects ever allocated (bound)
  MaxCollections,  \* collections ever begun (bound)
  YieldFirst,      \* TRUE: the program yields (GGC_PUSH_n) before it reads the
                   \* descriptor it passes to ggggc_malloc; FALSE: after
  ClassMasks       \* TRUE: descriptors are those of LSR's classes; FALSE: of types

ASSUME CollectorAssumption ==
  /\ Slots \in Nat \ {0} /\ Width \in Nat \ {0}
  /\ Shapes \subseteq SUBSET (0 .. Width) /\ \A shape \in Shapes : shape = {} \/ 0 \in shape
  /\ DataRoots \in Nat /\ DescRoots \in Nat
  /\ Twice \subseteq 1 .. DataRoots + DescRoots + 1
  /\ MaxDepth \in Nat \ {0} /\ MaxObjects \in Nat \ {0} /\ MaxCollections \in Nat
  /\ YieldFirst \in BOOLEAN /\ ClassMasks \in BOOLEAN

VARIABLES
  mem,          \* the object at each address, in both semispaces
  space,        \* which semispace ggggc_fromList is
  free,         \* slots in use of each semispace (the free pointers of its pools)
  env,          \* the address in each variable
  depth,        \* LSRScopes in each chain
  force,        \* ggggc_forceCollect
  call,         \* the running ggggc_malloc: its argument, and what its result is for
  pc,           \* where the library is
  todo,         \* the roots that ggggc_collect has not processed yet
  markStack,    \* addresses of copies not scanned yet, the last pushed first
  cur,          \* the copy being scanned
  rest,         \* its words that scan has not processed yet
  made,         \* objects allocated so far
  collections   \* collections begun so far

vars == <<mem, space, free, env, depth, force, call, pc, todo, markStack, cur, rest,
          made, collections>>

Addr == 1 .. (2 * Slots)
Ref == Addr \cup {0}
Word == 0 .. Width
Chains == {"lsrScope", "fnScope"}

(* The variables on the pointer stack, innermost frame first: those of the   *)
(* program, then the globalized ones, of which the last is DD,               *)
(* ggggc_descriptorDescriptors[..], the descriptor of descriptors.           *)
DataVars == {"stack"} \X {0} \X (1 .. DataRoots)
DescVars == {"stack"} \X {0} \X (DataRoots + 1 .. DataRoots + DescRoots)
DD == <<"stack", 0, DataRoots + DescRoots + 1>>
Roots == DataVars \cup DescVars \cup {DD}

(* What the pointer stack has for a collection: a copied frame names the     *)
(* same variables as the frame it is a copy of, and comes after all frames.  *)
Registered == Roots \cup {"stack"} \X {1} \X Twice
Variable(r) == <<"stack", 0, r[3]>>

(* The entries of the LSRScopes: of each chain, level 1 is the outermost.    *)
Entries == Chains \X (1 .. MaxDepth) \X ScopeVars
Locations == Roots \cup Entries

(* An object: its identity (which only the properties look at), whether the  *)
(* low bit of its header says it has moved, its words with the header in     *)
(* word 0, the words its class (in C its type) has references in, which the  *)
(* program knows without the header and, of a descriptor, the words of the   *)
(* objects it describes that the program keeps references in and those whose *)
(* bit in the mask is 1.                                                     *)
Object == [id : 0 .. MaxObjects, moved : BOOLEAN, words : [Word -> Ref],
           members : SUBSET Word, shape : SUBSET Word, mask : SUBSET Word]

(* setDescriptorPointer sets the bit of the next word (module Descriptors).  *)
Mask(shape) ==
  IF ClassMasks /\ shape # {}
  THEN {0} \cup {k \in Word : k - 1 \in shape \ {0}} ELSE shape

Blank == [k \in Word |-> 0]

NoCall == [to |-> DD, arg |-> 0, shape |-> {}]

Slot(s, i) == s * Slots + i
InUse(s) == {Slot(s, i) : i \in 1 .. free[s]}
NextSlot == Slot(space, free[space] + 1)

(* Mutants of Traced: scan stops one word early; it starts after the header.  *)
TracedTooFew(d) ==
  IF 0 \in mem[d].mask THEN mem[d].mask \ {Width} ELSE {0}

TracedNoHeader(d) == mem[d].mask \ {0}

(* The words scan passes to ggggc_process when d is the descriptor it reads. *)
Traced(d) == IF 0 \in mem[d].mask THEN mem[d].mask ELSE {0}

(* Whether a collection runs, and whether it has come to the mark stack.     *)
Collecting == pc = "collect"
RootsDone == pc = "collect" /\ todo = {} /\ rest = {}

(***************************************************************************)
(* The program                                                             *)
(***************************************************************************)

(* The first ggggc_allocateDescriptorDescriptor is over: the descriptor of   *)
(* descriptors describes itself and is in a global root.                     *)
Init ==
  /\ mem = [a \in Addr |->
              IF a = 1
              THEN [id |-> 1, moved |-> FALSE, words |-> [Blank EXCEPT ![0] = 1],
                    members |-> {0, 1}, shape |-> {0, 1}, mask |-> {0, 1}]
              ELSE [id |-> 0, moved |-> FALSE, words |-> Blank, members |-> {},
                    shape |-> {}, mask |-> {}]]
  /\ space = 0 /\ free = [s \in {0, 1} |-> 1 - s]
  /\ env = [l \in Locations |-> IF l = DD THEN 1 ELSE 0]
  /\ depth = [c \in Chains |-> 1]
  /\ force = FALSE
  /\ call = NoCall
  /\ pc = "run"
  /\ todo = {} /\ markStack = << >> /\ cur = 0 /\ rest = {}
  /\ made = 1 /\ collections = 0

Unmoved == UNCHANGED <<space, free, depth, force, call, pc, todo, markStack, cur, rest,
                       made, collections>>

(* Variables the program may read: roots, and what is in a scope.            *)
Visible == Roots \cup {l \in Entries : l[2] <= depth[l[1]]}
Data == Visible \ (DescVars \cup {DD})

(* An entry can be assigned to once it has been declared; here one that holds *)
(* NULL counts as not declared.                                              *)
Assignable == {l \in Data : l \in DataVars \/ env[l] # 0}

Undeclared == {l \in Data \ Roots : l[2] = depth[l[1]] /\ env[l] = 0}

(* ggggc_malloc is called with the descriptor in d; its result goes to the   *)
(* rooted variable or the entry of an innermost LSRScope l.                  *)
Malloc(l, d, shape) ==
  /\ pc = "run"
  /\ made < MaxObjects /\ free[space] < Slots
  /\ YieldFirst => ~force
  /\ env[d] # 0
  /\ l \in Roots \cup Undeclared
  /\ IF d = DD THEN l \in DescVars /\ shape \in Shapes ELSE l \in Data /\ shape = {}
  /\ call' = [to |-> l, arg |-> env[d], shape |-> shape]
  /\ pc' = "yield"
  /\ UNCHANGED <<mem, space, free, env, depth, force, todo, markStack, cur, rest, made,
                 collections>>

(* The rest of ggggc_malloc and what its caller does before the next yield:  *)
(* the object gets the header that was the argument, a descriptor its shape, *)
(* and the address goes where it is rooted.  The heap may have had to grow.  *)
(* What the argument describes is not read, and so is the same when it is    *)
(* the address that the descriptor had before the collection of this call.   *)
Place ==
  /\ pc = "alloc"
  /\ free[space] < Slots
  /\ mem' = [mem EXCEPT ![NextSlot] =
               [id |-> made + 1, moved |-> FALSE,
                words |-> [Blank EXCEPT ![0] = call.arg],
                members |-> mem[call.arg].shape,
                shape |-> call.shape, mask |-> Mask(call.shape)]]
  /\ free' = [free EXCEPT ![space] = @ + 1]
  /\ env' = [env EXCEPT ![call.to] = NextSlot]
  /\ made' = made + 1
  /\ force' \in BOOLEAN
  /\ call' = NoCall
  /\ pc' = "run"
  /\ UNCHANGED <<space, depth, todo, markStack, cur, rest, collections>>

(* Mutant of Write: a write to an object that has moved goes to its copy,    *)
(* which the program does not read.                                          *)
WriteToCopy(m, k, n) ==
  /\ pc = "run"
  /\ env[m] # 0
  /\ k \in mem[env[m]].members \ {0}
  /\ LET a == IF mem[env[m]].moved THEN mem[env[m]].words[0] ELSE env[m]
     IN  mem' = [mem EXCEPT ![a].words[k] = env[n]]
  /\ UNCHANGED env /\ Unmoved

(* GGC_WP and memberAssign: a pointer word of m's object gets n's value.  The *)
(* word is that of the member in the C type or in the class table; nobody    *)
(* looks at the header, so that objects that have moved are written as well. *)
Write(m, k, n) ==
  /\ pc = "run"
  /\ env[m] # 0
  /\ k \in mem[env[m]].members \ {0}
  /\ UNCHANGED env /\ Unmoved
  /\ mem' = [mem EXCEPT ![env[m]].words[k] = env[n]]

(* GGC_RP and resolveMembers: l gets a pointer word of m's object.           *)
Read(l, m, k) ==
  /\ pc = "run"
  /\ env[m] # 0
  /\ k \in mem[env[m]].members \ {0}
  /\ UNCHANGED mem /\ Unmoved
  /\ env' = [env EXCEPT ![l] = mem[env[m]].words[k]]

(* An assignment between variables.                                          *)
Copy(l, m) ==
  /\ pc = "run"
  /\ env' = [env EXCEPT ![l] = env[m]]
  /\ UNCHANGED mem /\ Unmoved

(* A rooted variable is set to NULL or goes out of scope (GGGGC_POP).        *)
Drop(l) ==
  /\ pc = "run"
  /\ env' = [env EXCEPT ![l] = 0]
  /\ UNCHANGED mem /\ Unmoved

(* A block or an iteration of a while begins: a new LSRScope in front.       *)
PushScope(c) ==
  /\ pc = "run"
  /\ depth[c] < MaxDepth
  /\ depth' = [depth EXCEPT ![c] = @ + 1]
  /\ UNCHANGED <<mem, space, free, env, force, call, pc, todo, markStack, cur, rest, made,
                 collections>>

(* Mutant of PopScope: the outermost LSRScope is deleted as well.            *)
PopScopeUnguarded(c) ==
  /\ pc = "run"
  /\ depth' = [depth EXCEPT ![c] = @ - 1]
  /\ env' = [l \in Locations |->
               IF l \in {c} \X {depth[c]} \X ScopeVars THEN 0 ELSE env[l]]
  /\ UNCHANGED <<mem, space, free, force, call, pc, todo, markStack, cur, rest, made,
                 collections>>

(* It ends: the LSRScope is deleted with its entries.                        *)
PopScope(c) ==
  /\ pc = "run"
  /\ depth[c] > 1
  /\ depth' = [depth EXCEPT ![c] = @ - 1]
  /\ env' = [l \in Locations |->
               IF l \in {c} \X {depth[c]} \X ScopeVars THEN 0 ELSE env[l]]
  /\ UNCHANGED <<mem, space, free, force, call, pc, todo, markStack, cur, rest, made,
                 collections>>

(***************************************************************************)
(* ggggc_yield and ggggc_collect                                           *)
(***************************************************************************)

(* GGC_YIELD() of ggggc_malloc with nothing pending. *)
NoCollect ==
  /\ pc = "yield"
  /\ ~force
  /\ pc' = "alloc"
  /\ UNCHANGED <<mem, space, free, env, depth, force, call, todo, markStack, cur, rest,
                 made, collections>>

(* Mutant of BeginCollect: the new semispace is not emptied.                 *)
BeginCollectKeepsFree ==
  /\ pc \in {"run", "yield"}
  /\ force
  /\ collections < MaxCollections
  /\ space' = 1 - space
  /\ collections' = collections + 1
  /\ todo' = Registered \cup {l \in Entries : l[2] <= depth[l[1]]}
  /\ pc' = "collect"
  /\ UNCHANGED <<mem, free, env, depth, force, call, markStack, cur, rest, made>>

(* GGC_YIELD() with a collection pending, in ggggc_malloc or elsewhere: the  *)
(* semispaces change roles, the new one is empty.                            *)
BeginCollect ==
  /\ pc \in {"run", "yield"}
  /\ force
  /\ collections < MaxCollections
  /\ space' = 1 - space
  /\ free' = [free EXCEPT ![1 - space] = 0]
  /\ collections' = collections + 1
  /\ todo' = Registered \cup {l \in Entries : l[2] <= depth[l[1]]}
  /\ pc' = "collect"
  /\ UNCHANGED <<mem, env, depth, force, call, markStack, cur, rest, made>>

(* What forward returns for the object at a.                                 *)
Forwarded(a) ==
  IF a = 0 THEN 0
  ELSE IF mem[a].moved THEN mem[a].words[0]
  ELSE NextSlot

(* Mutants of MoveIn: an object that has moved is copied again; the address  *)
(* left behind is the free pointer's before the copy before it.              *)
MoveInAgain(a, m) ==
  IF a = 0
  THEN /\ mem' = m
       /\ UNCHANGED <<free, markStack>>
  ELSE /\ free[space] < Slots
       /\ mem' = [m EXCEPT ![NextSlot] = mem[a],
                           ![a].moved = TRUE,
                           ![a].words[0] = NextSlot]
       /\ free' = [free EXCEPT ![space] = @ + 1]
       /\ markStack' = <<NextSlot>> \o markStack

MoveInWrongAddress(a, m) ==
  IF a = 0 \/ mem[a].moved
  THEN /\ mem' = m
       /\ UNCHANGED <<free, markStack>>
  ELSE /\ free[space] < Slots
       /\ mem' = [m EXCEPT ![NextSlot] = mem[a],
                           ![a].moved = TRUE,
                           ![a].words[0] = Slot(space, free[space])]
       /\ free' = [free EXCEPT ![space] = @ + 1]
       /\ markStack' = <<NextSlot>> \o markStack

(* What it does to memory m, the free pointer and the mark stack.            *)
MoveIn(a, m) ==
  IF a = 0 \/ mem[a].moved
  THEN /\ mem' = m
       /\ UNCHANGED <<free, markStack>>
  ELSE /\ free[space] < Slots
       /\ mem' = [m EXCEPT ![NextSlot] = mem[a],
                           ![a].moved = TRUE,
                           ![a].words[0] = NextSlot]
       /\ free' = [free EXCEPT ![space] = @ + 1]
       /\ markStack' = <<NextSlot>> \o markStack

(* The roots in their order: the pointer stack, then one chain of LSRScopes, *)
(* then the other.  The order of the entries within a chain is left open.    *)
Turn(l) ==
  /\ l[1] = "stack" => \A m \in todo \cap Registered :
                         l[2] < m[2] \/ (l[2] = m[2] /\ l[3] <= m[3])
  /\ l[1] # "stack" => todo \cap Registered = {}
  /\ l[1] = "fnScope" => \A m \in todo : m[1] = "fnScope"

(* Mutant of ProcessRoot: the variable keeps the old address.                *)
ProcessRootNoUpdate(r) ==
  /\ Collecting /\ r \in todo /\ Turn(r)
  /\ MoveIn(env[Variable(r)], mem)
  /\ todo' = todo \ {r}
  /\ UNCHANGED <<space, env, depth, force, call, pc, cur, rest, made, collections>>

(* ggggc_process of a variable on the pointer stack, which gets the new      *)
(* address.                                                                  *)
ProcessRoot(r) ==
  /\ Collecting /\ r \in todo /\ Turn(r)
  /\ MoveIn(env[Variable(r)], mem)
  /\ env' = [env EXCEPT ![Variable(r)] = Forwarded(@)]
  /\ todo' = todo \ {r}
  /\ UNCHANGED <<space, depth, force, call, pc, cur, rest, made, collections>>

(* Mutant of ProcessEntry: the new address goes into the innermost LSRScope  *)
(* itself instead of a copy, those further out still being passed over.      *)
ProcessEntryInnermost(e) ==
  /\ Collecting /\ e \in todo /\ Turn(e)
  /\ LET l == <<e[1], depth[e[1]], e[3]>>
     IN  /\ MoveIn(env[l], mem)
         /\ env' = IF e[2] = depth[e[1]] THEN [env EXCEPT ![l] = Forwarded(@)] ELSE env
  /\ todo' = todo \ {e}
  /\ UNCHANGED <<space, depth, force, call, pc, cur, rest, made, collections>>

(* The loop over a chain of LSRScopes: as many rounds as the chain has, each *)
(* of them over a copy of the map of the innermost LSRScope.  ggggc_process  *)
(* puts the new address into the copy, which is thrown away.                 *)
ProcessEntry(e) ==
  /\ Collecting /\ e \in todo /\ Turn(e)
  /\ MoveIn(env[<<e[1], depth[e[1]], e[3]>>], mem)
  /\ todo' = todo \ {e}
  /\ UNCHANGED <<env, space, depth, force, call, pc, cur, rest, made, collections>>

(* What scan makes of an address from the mark stack: an object that has     *)
(* moved, since it was pushed, leads it to the copy.                         *)
Scannable(a) == IF mem[a].moved THEN mem[a].words[0] ELSE a

(* Mutant of Pop: the address stays on the mark stack.                       *)
PopStays ==
  /\ RootsDone /\ markStack # << >>
  /\ cur' = Scannable(Head(markStack))
  /\ rest' = Traced(mem[cur'].words[0])
  /\ UNCHANGED <<mem, space, free, env, depth, force, call, pc, todo, markStack, made,
                 collections>>

(* StackLL_Pop, and scan begins: it reads the descriptor in the header once. *)
Pop ==
  /\ RootsDone /\ markStack # << >>
  /\ cur' = Scannable(Head(markStack))
  /\ markStack' = Tail(markStack)
  /\ rest' = Traced(mem[cur'].words[0])
  /\ UNCHANGED <<mem, space, free, env, depth, force, call, pc, todo, made, collections>>

(* ggggc_process of the next pointer word of the object being scanned.       *)
ProcessWord(k) ==
  /\ Collecting /\ k \in rest
  /\ \A j \in rest : k <= j
  /\ LET a == mem[cur].words[k]
     IN  MoveIn(a, [mem EXCEPT ![cur].words[k] = Forwarded(a)])
  /\ rest' = rest \ {k}
  /\ UNCHANGED <<env, space, depth, force, call, pc, todo, cur, made, collections>>

(* The mark stack is empty: the collection is over, and ggggc_malloc, if it  *)
(* was the one to yield, goes on with the argument it was called with.       *)
EndCollect ==
  /\ RootsDone /\ markStack = << >>
  /\ force' = FALSE
  /\ cur' = 0
  /\ pc' = IF call.arg = 0 THEN "run" ELSE "alloc"
  /\ UNCHANGED <<mem, space, free, env, depth, call, todo, markStack, rest, made,
                 collections>>

Collection ==
  \/ \E r \in Registered : ProcessRoot(r)
  \/ \E e \in Entries : ProcessEntry(e)
  \/ Pop
  \/ \E k \in Word : ProcessWord(k)
  \/ EndCollect

Program ==
  \/ \E l \in Visible, d \in {DD} \cup DescVars, shape \in Shapes \cup {{}} :
       Malloc(l, d, shape)
  \/ Place \/ NoCollect
  \/ \E m, n \in Data, k \in Word : Write(m, k, n)
  \/ \E l \in Assignable, m \in Data, k \in Word : Read(l, m, k)
  \/ \E l \in Assignable, m \in Data : Copy(l, m)
  \/ \E l \in DataVars : Drop(l)
  \/ \E c \in Chains : PushScope(c) \/ PopScope(c)

Next == Program \/ BeginCollect \/ Collection

Spec == Init /\ [][Next]_vars

(* One thread: a collection that began runs on. *)
FairSpec == Spec /\ WF_vars(Collection)

(***************************************************************************)
(* Properties                                                              *)
(***************************************************************************)

TypeOK ==
  /\ mem \in [Addr -> Object]
  /\ space \in {0, 1} /\ free \in [{0, 1} -> 0 .. Slots]
  /\ env \in [Locations -> Ref]
  /\ depth \in [Chains -> 1 .. MaxDepth]
  /\ force \in BOOLEAN
  /\ call.to \in Locations /\ call.arg \in Ref /\ call.shape \subseteq Word
  /\ pc \in {"run", "yield", "alloc", "collect"}
  /\ todo \subseteq Registered \cup Entries
  /\ markStack \in Seq(Addr) /\ cur \in Ref /\ rest \subseteq Word
  /\ made \in 1 .. MaxObjects /\ collections \in 0 .. MaxCollections

(* An object is copied at most once by a collection: no two of the current   *)
(* semispace are the same one.                                               *)
CopiedOnce ==
  \A a, b \in InUse(space) : mem[a].id = mem[b].id => a = b

(* An object that has moved leaves its own new address behind.               *)
ForwardingLeadsToCopy ==
  Collecting =>
    \A a \in InUse(1 - space) : mem[a].moved =>
      /\ mem[a].words[0] \in InUse(space)
      /\ mem[mem[a].words[0]].id = mem[a].id

(* The addresses in the words of a copy that ggggc_process is done with.     *)
Done(a) ==
  IF \E i \in 1 .. Len(markStack) : markStack[i] = a THEN {}
  ELSE {k \in Word : ~(a = cur /\ k \in rest)}

(* The collector's invariant: what has been scanned refers only to copies.   *)
(* Outside of a collection everything has been scanned, so that no object of *)
(* the current semispace refers to a retired one.                            *)
ScannedPointsToCopies ==
  \A a \in InUse(space) : \A k \in Done(a) :
    mem[a].words[k] \in InUse(space) \cup {0}

(* No variable on the pointer stack is left with a retired address.          *)
RootsFollow ==
  ~Collecting => \A r \in Roots : env[r] \in InUse(space) \cup {0}

(* The same of LSR's variables: the collector is to reach the pointers that  *)
(* LSRScopes hold, and to update them.                                       *)
ScopesFollow ==
  ~Collecting => \A l \in Locations : env[l] \in InUse(space) \cup {0}

(* What can be reached from the pointer stack.                               *)
Successors(S) == S \cup ((UNION {{mem[a].words[k] : k \in Word} : a \in S}) \ {0})

Reachable ==
  LET n[i \in Nat] == IF i = 0 THEN {env[r] : r \in Roots} \ {0}
                      ELSE Successors(n[i - 1])
  IN  n[Slots]

(* The header of whatever the program can reach is the address of a          *)
(* descriptor in the current semispace: not of a retired one, and not where  *)
(* the object has moved to.                                                  *)
HeadersFollow ==
  ~Collecting =>
    \A a \in Reachable : mem[a].words[0] \in InUse(space) /\ ~mem[a].moved

(* A collection keeps exactly the objects the pointer stack reaches: none is *)
(* lost and none survives it.                                                *)
CollectsGarbageOnly ==
  [][Collecting /\ ~Collecting' =>
       {mem[a].id : a \in InUse(space)} = {mem[a].id : a \in Reachable}]_vars

(* A collection ends. *)
CollectionEnds == Collecting ~> ~Collecting

(***************************************************************************)
(* Refinement                                                              *)
(***************************************************************************)

Id(a) == IF a = 0 THEN 0 ELSE mem[a].id

(* The objects there are at a step, each where the program would find it:    *)
(* during a collection in its copy, once it has one.                         *)
Known == InUse(space) \cup (IF Collecting THEN InUse(1 - space) ELSE {})

Home == [i \in {mem[a].id : a \in Known} |->
           IF \E a \in InUse(space) : mem[a].id = i
           THEN CHOOSE a \in InUse(space) : mem[a].id = i
           ELSE CHOOSE a \in Known : mem[a].id = i]

GraphOf(home) ==
  [i \in DOMAIN home |-> [words |-> [k \in Word |-> Id(mem[home[i]].words[k])],
                          shape |-> mem[home[i]].shape]]

Graph == INSTANCE ObjectGraph WITH
  Ids <- 1 .. MaxObjects,
  graph <- GraphOf(Home),
  refs <- [l \in Locations |-> Id(env[l])]

(* An allocation, a write and a read are each the step of that name: not     *)
(* merely some step of the graph or none, so that no write is lost.          *)
GraphSteps ==
  /\ Place => Graph!New(call.to, made + 1, Id(call.arg), call.shape)
  /\ \A m, n \in Data, k \in Word : Write(m, k, n) => Graph!Write(m, k, n)
  /\ \A l \in Assignable, m \in Data, k \in Word : Read(l, m, k) => Graph!Read(l, m, k)

(* To the program the collector is invisible: what it reads through its      *)
(* variables is what it wrote, at every step of every collection.            *)
Transparent == Graph!Spec /\ [][GraphSteps]_vars

(* LSR's variables are in LSRScopes, which ggggc_collect does not update:    *)
(* they lead to the copy of an object that was there first, and the headers  *)
(* on the way may hold forwarding addresses.                                 *)
FirstCopy(i) ==
  CHOOSE a \in Addr : mem[a].id = i /\ \A b \in Addr : mem[b].id = i => a <= b

Header(a) == IF mem[a].moved THEN mem[mem[a].words[0]].words[0] ELSE mem[a].words[0]

LSRGraph == INSTANCE ObjectGraph WITH
  Ids <- 1 .. MaxObjects,
  graph <- [i \in 1 .. made |->
              LET a == FirstCopy(i)
              IN  [words |-> [k \in Word |-> Id(IF k = 0 THEN Header(a) ELSE mem[a].words[k])],
                   shape |-> mem[a].shape]],
  refs <- [l \in Locations |-> Id(env[l])]

LSRGraphSteps ==
  /\ Place => LSRGraph!New(call.to, made + 1, Id(call.arg), call.shape)
  /\ \A m, n \in Data, k \in Word : Write(m, k, n) => LSRGraph!Write(m, k, n)
  /\ \A l \in Assignable, m \in Data, k \in Word : Read(l, m, k) => LSRGraph!Read(l, m, k)

(* A program whose objects are all behind LSRScopes does not notice its      *)
(* first collection: it goes on in the retired semispace, which nothing      *)
(* overwrites before the second one, and reads there what it writes there.   *)
(* (Stated for MaxCollections = 1.)                                          *)
FirstCollectionHarmless == LSRGraph!Spec /\ [][LSRGraphSteps]_vars
=============================================================================
