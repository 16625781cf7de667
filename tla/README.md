# Verification of LSR and its collector

LSR is a small class-based language. Its interpreter runs on a fork of ggggc, a
precise garbage collector library, whose collector was rewritten here as a
semispace copying one. This directory has TLA+ modules translated from that
source, TLC configurations that check them on small instances, and proofs of
theorems about them for every value of the constants.

    tlc -config pools_mixed.cfg MCPools.tla        # one run
    tlapm CollectorProofs.tla                      # the proofs of one component

## 1. The system

Everything runs in one thread. The hard part is that `GGC_YIELD()` is hidden
inside `ggggc_malloc` and inside every `GGC_PUSH_n`: at those places a
collection may move every object, so that each address the program has read
before and uses after is suspect unless the collector knows the variable.

| Component | Source | State | Operations |
|---|---|---|---|
| Pools and allocator | `gc/allocate.c`, `gc/globals.c` | `ggggc_fromList`, `ggggc_toList`, `ggggc_curPool`, the pools' `free`, `ggggc_forceCollect` | `ggggc_malloc`, `newPool` |
| Descriptors | `gc/allocate.c` 244-376, `gc/ggggc/gc.h` 136-202 | heap objects; `ggggc_descriptorDescriptors[]`; descriptor slots | `ggggc_allocateDescriptor*`, `ggggc_mallocPointerArray`, `ggggc_mallocDataArray` |
| Collector | `gc/collect.c` | `markStack`; forwarding addresses in headers | `ggggc_yield`, `ggggc_collect`, `forward`, `scan`, `ggggc_process` |
| Pointer stack | `gc/roots.c`, `gc/ggggc/push.h`, `gc.h` 160-165, 337-380 | `ggggc_pointerStack`, `ggggc_pointerStackGlobals` | `GGC_PUSH_n`, `GGGGC_POP`, `GGC_GLOBALIZE` |
| LSRScope chains | `gc.h` 65-96 | two chains of maps from names to addresses | `addPtr`, `setPtr`, `resolve`; push and pop by blocks and loops |
| Scopes and symbol tables | `lsr_classes.cpp` 119-328 | chains of `Scope`, each with a `SymbolTable` of values | `decl`, `assign`, `memberAssign`, `resolve`, `resolveMembers` |
| Class table | `lsr_classes.cpp` 263-309, 396-453 | members of each class, its descriptor | `add`, `addVar`, `setDescriptorPointer`, `getOffset`, `getType` |
| Immediate evaluation | `lsr_classes.cpp` 13-117, 334-394, `lsr_bison.y` | none of its own | the statements of `main`, run while they are parsed |
| Deferred nodes | `lsr_classes.cpp` 482-665 | syntax trees | `execute` of the bodies of `while` and functions |
| Functions | `lsr_classes.cpp` 455-468, `lsr_bison.y` 169-196 | bodies and parameters, the chain of function scopes | definition, call |
| Lists | `gc/collections/list.c` | head, tail, length; nodes | `GGC_List*` |
| Maps | `gc/collections/map.c` | table of chains, its size and use | `GGC_MapGet`, `GGC_MapPut`, `GGC_MapClone` |
| Generic barrier | `gc/gen-barriers.c` | counter, mutex, semaphore | `ggc_barrier_*`; not built here |
| Pool free list | `allocate.c` 78-153 | `freePoolsHead`, `freePoolsTail` | `ggggc_expandGeneration`, `ggggc_freeGeneration`; no callers here |

How they interact: LSR's statements go through `Scope`; declaring a variable of
class type reads the class's descriptor and calls `ggggc_malloc`, which may run
`ggggc_collect`. The collector's roots are the pointer stack (on which LSR
keeps only descriptors, globalized) and, reached through `setLSRScope` and
`setFnScope`, the two chains of `LSRScope`, which LSR changes directly.
Collections rewrite roots and heap behind the back of whoever is in the middle
of an operation. What `scan` follows in an object is what its descriptor's mask
says, which the descriptor functions, or the class table, have set.

What makes each component correct, and what is hard about it:

* *Pools*: the semispaces stay paired through any number of growths and
  exchanges; bump allocation never overlaps; a collection always finds room
  (it does not: section 3); `ggggc_malloc` terminates although it restarts.
* *Collector*: the object graph the program sees does not change; each object
  is copied once; garbage goes; the work list runs empty; headers, which are
  references too, follow.
* *Pointer stack, LSRScope*: every variable that holds an address is a root
  exactly as long as it lives, and once; the frames of functions that returned
  are never looked at, though copies stand behind them in the same list.
* *Descriptors, class layout*: a descriptor calls a word a pointer exactly when
  a reference is kept there, and is itself described by one of its own size,
  by which `forward` copies it.
* *Scopes, nodes, functions*: the two parallel chains stay in step; a statement
  means the same at top level and deferred; addresses are not held across an
  allocation.
* *Lists and maps*: they are the sequence and the function they look like, at
  the ends, when empty and when they grow.
* *Barrier*: nobody waits for ever (and, as it turns out, nobody waits at all).

## 2. The modules

| Module | What it is |
|---|---|
| `Pools` | allocator and semispaces: layout of objects in pools |
| `MCPools`, `PoolsProofs` | its instance for TLC, its theorems |
| `ObjectGraph` | abstract: what the collector promises to its program |
| `Collector` | the collector at work between the steps of a program; implements `ObjectGraph` |
| `MCCollector`, `CollectorProofs` | its instance for TLC, its theorems |
| `Classes` | classes, objects, values and expressions of LSR, for the next two |
| `Language` | abstract: what the statements of an LSR program mean |
| `Interpreter` | the interpreter's two evaluators over the chains of `Scope` and `LSRScope`; implements `Language` |
| `MCInterpreter`, `InterpreterProofs`, `LanguageProofs` | its instances for TLC, its theorems, those about `Language` |
| `Contents`, `Lists` | abstract: a sequence per list; nodes, heads, tails and lengths, which implement it |
| `Mappings`, `Maps` | abstract: a function per map; buckets and chains, which implement it |
| `LibraryProofs` | the theorems about `Lists` and `Maps` |
| `RootList`, `Frames`, `FramesProofs` | abstract: a stack of groups of variables and a sequence of global ones; the linked list of frames, which implements it; its theorems |
| `Descriptors`, `DescriptorsProofs` | the table of descriptor-descriptors and all kinds of descriptors, with the words `scan` makes of their masks; its theorems |
| `Barrier`, `BarrierProofs` | the generic barrier for any number of threads; its theorem |
| `MCLibrary` | one instance for TLC of `Lists`, `Maps`, `Frames`, `Descriptors` and `Barrier` |

### Pools

A pool is a number and its content the set of objects placed in it, each a
start and a size in words. The variables are the library's globals
(`fromList`, `toList`, `curPool` as a position in `fromList`, `free`,
`forceCollect`), the history (`live`, `old`: objects in the space being filled
and in the one being left) and the call that runs (`req`, `pc`).
`FirstPools`, `Bump`, `NextPool`, `GrowAndPlace` are the four ways through
`ggggc_malloc`, `Abort` is `newPool(1)` without memory; `BeginCollect`,
`NoCollect` and `EndCollect` are `ggggc_yield`; `Flip` is the start of
`ggggc_collect`; `Forward`, `ForwardNextPool` and `ForwardNoPool` are `forward`
with room, with the next pool, and with none (a read through NULL, after
which nothing is modelled). Which objects are reachable is left open: any
object of the old space may be forwarded next, and `EndCollect` may come at any
point, which covers every heap graph and every order of tracing. The pool
free list is empty in this program (nothing calls `ggggc_freeGeneration`), so
`newPool` always asks the operating system.

### Collector and ObjectGraph

Objects have one size, so that an address is a slot number, and the interest
is in what moves when. `mem` is both semispaces, the retired one with its old
contents, because a stale address reads just that. Word 0 of an object is its
header and refers to its descriptor, an ordinary object with a `shape`, the
words a program keeps references in, and a `mask`, the words the collector
takes for references; they differ for the descriptors LSR makes of its classes
(`ClassMasks`, with `Mask` as in `Descriptors`). An object's `members` are the
words in which its class, in C its type, has references: the program takes them
from the class table and never looks at the header, so that it writes and reads
objects that have moved, whose word 0 leads to the copy, like any other. (That a
variable's class is that of the object it names is `Interpreter`'s
`ReferencesTyped`; where a later collection overwrites the object at a stale
address, as in `collector_scopes`, the model takes the members of what is there
now.) `env` has every variable: those
on the pointer stack (`DataVars`, `DescVars`, and `DD`, the descriptor of
descriptors) and the `Entries` of the LSRScopes. `Registered` is what the
pointer stack has for a collection: each variable once, and those numbered in
`Twice` again, in the copy `ggggc_globalize` made of their frame, which comes
after all frames (`Frames` shows that order). `Malloc` and `Place` are the two
halves of `ggggc_malloc`, with a possible collection in between. `Write`,
`Read`, `Copy`, `Drop`, `PushScope`, `PopScope` are the program. A collection is
`BeginCollect`, then one action per `ggggc_process`: `ProcessRoot` and
`ProcessEntry` for the roots in the order of `Turn`, `Pop` and `ProcessWord` for
`scan`, and `EndCollect`. Whether an allocation has to grow the heap, and so
asks for a collection, is a free choice in `Place`.

`YieldFirst` separates two kinds of programs: those that always yield before
they read the descriptor they pass to `ggggc_malloc`, for which its parameter
is not stale, and the rest, to which LSR belongs.

`ObjectGraph` has identities instead of addresses and no collections: objects
are created, written, read, and may be forgotten when nothing refers to them.
`Collector` implements it under two mappings: `Transparent` looks for an object
in its copy if it has one (`Home`), `FirstCollectionHarmless` in its first copy.
Both say besides that an allocation, a write and a read are the graph's `New`,
`Write` and `Read` of the same variables (`GraphSteps`, `LSRGraphSteps`): a write
that went to the wrong copy would otherwise pass for no step at all.

### Interpreter, Language and Classes

LSR has two evaluators. The statements of `main` are run by the parser's
actions as they are read, with `LSRExpr`s; the bodies of `while` and of
functions become nodes whose `execute` runs later, with `nodeValue`s. Both work
on the same pair of chains: a `Scope` knows a variable's type and, if that is
`int` or `str`, its value; the reference of a variable of class type is in an
`LSRScope`, where the collector finds it. The chains are pushed and popped by
different code, and each is searched from its own innermost end.

`scopes` and `ptrs` are these chains, one of each for `main` and for functions
(`Chain`); `Here` is the one the running statement uses, and `Deferred` tells
whether that statement is a node. The heap is the sequence of objects ever
made: collections are left to `Collector`, so addresses stand still. `declared`
is history, the types variables were declared with. The helpers under "Changing
the chains" are the methods of `Scope`, as functions of the pair of chains, so
that an action can apply them in the order the code does: `DeclareInit` is
`decl`, `assign`, then the parser's own `addPtr`. `Declare`, `Assign` and
`MemberAssign` choose the evaluator by `Deferred`; `Immediate` is `LSRExpr`,
`NodeValues` is `execute` followed by `toVal`. `EnterLoop` and `LeaveLoop` are
an iteration of `whileNode::execute`, `Call`, `CallWith` and `Return` the
`fncall` action, `Crash` a member access through NULL.

Any statement may follow any other, so that conditions, function bodies and
lists of statements need no state: every program's execution is one of the
behaviours. Statements are well typed and declare no name twice in a scope, as
the language specification leaves to the programmer. Two constants leave out
programs that run into a known divergence: `StringSums` and `DeferredReads`.

`Language` has one chain of frames with values in them, no nodes and no
pointers: the meaning of a statement is read off the program text.
`Implements` maps the two chains to frames; `Faithful` asks more, that each
statement's step is that statement's meaning, and not merely that of some.

### Lists and Contents

A `GGC_List` has a head, a tail and a length, a node a link and a value. Each
action of `Lists` is one function of `list.c`, with every case of it: `Graft`
is the one in which the target is empty, `Linked` a write through a pointer
that may be NULL, after which `failed` holds. All local variables of these
functions are on the pointer stack, so that a collection in their midst changes
nothing here (`Collector`'s `Transparent`), and a function is one step. Nodes
that nothing leads to are used again.

`Contents` is what the comments before the functions say: lists are sequences,
and a list that is moved is empty afterwards. Its state is what
`GGC_ListToArray` would return. `ListsImplement` asks for more than
`Contents!Spec`: each function's step has to be the step of that name.

Two calls break a list: moving an empty list into one that is not
(`EmptySources`), and inserting after the last node (`InsertAtTail`). Programs
that make them are left out by these constants, since after such a call nothing
can be said of the list.

### Maps and Mappings

`entries` is the table, a sequence of chains, each the sequence of entries from
its first on; an entry is named by the map it was made for and its key. `Table`
is the part of a put before the search: no table yet, one that has to grow, or
as it is. `Rehashed` and `Moved` are the two loops by which it grows, over the
buckets of the old table and over the entries of a chain, each of which goes in
front of its new chain (`InFront`), so that chains are reversed. `MapPut` is then one step with
the rest, `MapClone` copies every chain. `Hash` is the program's; that no two
keys are equal to its comparison makes a key what the comparison tells apart.
`Mappings` has a partial function per map, and put and clone on it.

### Frames and RootList

A frame's address is that of the function's depth, so that its memory is used
again by the next call; the copies of `ggggc_globalize` have addresses of their
own. `link` and `pointers` are the members of a frame. `Globalize` has both
cases of the code, the first call, which walks to the end of the list, and the
later ones. `InOrder` says what the loop of `ggggc_collect` meets, `RootList` is
the abstract stack and sequence, with the refinement mapping reading the frames
in that order.

### Descriptors

`descriptors` is the sequence of descriptors made so far, with their `kind`, the
`size` they describe, their own `length`, the position of their `header`, the
`mask` and the words the program keeps `references` in; `table` is
`ggggc_descriptorDescriptors[]`, `registered` the variables that were made
global. `Grown` is `ggggc_allocateDescriptorDescriptor` with its recursion: the
sizes whose descriptor-descriptors it has to make first. `Mask` is how
`ggggc_allocateDescriptorL` normalizes a mask, `ClassMask` what
`setDescriptorPointer` makes, `Scanned` which words `scan` passes on. Collections
leave all this as it is: everything here is rooted, except for the moments in
which a new descriptor-descriptor has its header on the C stack
(allocate.c:263-280), which are not modelled.

### Barrier

One action per step between two operations on mutex or semaphore, for each
thread: `Lock`, `Post` (one per round of the loop), `Reset`, `Arrive`, `Pass`.
Mutex and semaphore belong to the platform.

## 3. The runs

| Run | Expectation | Shows | Bounds |
|---|---|---|---|
| `pools_mixed` | pass | all safety of `Pools`, that growth and collection alternate, that `ggggc_malloc` returns | pools of 6 words, sizes 2 and 3, 6 pools |
| `pools_overflow` | violation | with two sizes it does not: `forward` reads through NULL | as `pools_mixed` |
| `collector_stack` | pass | copying is right, and invisible to a program with all its variables on the pointer stack | 4 slots, 3 words, 5 objects, 2 data variables, 1 descriptor variable, 2 collections |
| `collector_lsr` | pass | LSR programs survive their first collection: they read what they write, in objects that have moved too | 4 slots, 3 words, 4 objects, 1 name, chains of 2, 1 collection, LSR's masks |
| `collector_scopes` | violation | LSRScope entries keep old addresses | 2 names, 2 collections |
| `collector_descriptor` | violation | a header with a retired address | as `collector_stack`, program not yielding first |
| `collector_globals` | violation | a variable registered twice makes a second copy | 6 slots, 3 words, 1 of 2 data variables twice |
| `interpreter_scopes` | pass | the chains stay in step, references have their class, both evaluators do what the language says | 1 name, 2 classes, integers to 1, strings, 4 objects, 1 loop inside another frame |
| `interpreter_references` | pass | variables and parameters are references | 2 names, 1 class, 4 objects, no loops |
| `interpreter_deferred` | violation | a deferred read of a member of class type makes an integer | 1 name, `DeferredReads` |
| `library` | pass | lists are sequences, maps functions, the pointer stack a stack with globals behind it; descriptors are described and traced; nobody waits at the barrier | below |
| `descriptors_classes` | violation | a class's mask is one word off | 6 layouts of classes, 4 descriptors |

`library` checks five components that share no state. Each behaviour uses one of
them, chosen at the start, so that the run costs the sum of their states and
not the product. Lists and maps have the same two names, values and data the
same two, and values and groups of variables as well, so that one permutation
of names is a symmetry of each component; two of the four keys, with equal
hashes, are interchangeable too.

Why the bounds are enough. In `Pools`, 6 pools are three per semispace: a list
has a first, an inner and a last pool, a collection starts with more than one
full pool and can run over one, two or all of them; sizes 2 and 3 in pools of 6
words are the smallest that waste different amounts of a pool. In `Collector`, two collections are the
first at which a semispace is used again and the first in which forwarding
starts from copies; 4 slots and 5 objects let objects be lost and their slots
taken again; a descriptor, the descriptor of descriptors and two data objects
make shared, cyclic and unreachable graphs; the third word in `collector_stack`
separates the header, a data word and a pointer; in `collector_lsr` a class has
its member in either word, so that LSR's mask misses it, or marks the word
after. In `interpreter_scopes` one
name is declared in `main`, in its loop, as a parameter and in the function's
loop, with any of four types each, and calls may repeat, so that it shadows
itself and meets what an earlier call left; `T` has a reference before an
integer and `U` a reference at the same word, so that a mix-up of classes
or words shows. 4 objects are two declarations, and `T`'s own member is NULL in the
object made for it, so that programs crash. Aliases between variables of one
scope need the second name of `interpreter_references`. In `library`, 4 nodes
give a list an inner node before and after the place of an insertion and let
two lists of two nodes be joined; 4 keys make a map's table grow once after its
first (the fourth put finds three keys in four buckets), with two keys of one
hash that stay together, one that leaves for a new bucket (hash 4) and one that
was never with them; 3 frames and 3 copies have an inner one of each, and
frames pushed after copies were made; array lengths 62 and 63 are on both sides
of the boundary of a mask word, and 4 descriptors are enough for the recursion
of the table; 3 threads are the first with which one is overtaken by two rounds.

`CHECK_DEADLOCK FALSE` everywhere: a program may stop, and the bounds on pools,
objects and collections stop the model.

Fairness. `Pools!FairSpec` has weak fairness of the library's steps and
`Collector!FairSpec` of a collection's steps: one thread, so that a call that
was entered runs on. Nothing makes the program call, allocate or end.
`MallocReturns` says a `ggggc_malloc` ends (in an abort or a crash, if so);
`CollectionEnds` says a collection ends.

The divergences found:

1. `forward` takes `ggggc_curPool->next` without a look (collect.c:173). The
   comment before it says the next pool is empty, which is so (`NextPoolsEmpty`,
   proved), but not that there is one. Both semispaces have the same number of
   pools, but copying may pack worse than allocation did.
2. The loops over LSRScopes (collect.c:128-147) copy the map, so that new
   addresses never reach the scope, and use the innermost scope in every round,
   so that outer ones are not traced. `collector_lsr` says why the language's
   own GC tests do not notice: until a second collection overwrites it the
   retired semispace is intact, and the program simply goes on in it, reading
   and writing members at the words the class table gives. It holds
   for references alone: where LSR's masks (5) mark a word with an integer that
   is not 0, the collector takes it for an address, which is not modelled.
3. `ggggc_malloc` yields before it uses its argument (allocate.c:174-179), and
   neither it nor `createInMemory`, `ggggc_allocateDescriptorL`, `GGC_NEW`,
   `ggggc_mallocPointerArray` or `ggggc_mallocDataArray` protects the
   descriptor's address.
4. `memberNode::execute` (lsr_classes.cpp:577-580) gives a value of class type
   no name, `toVal` looks the name up, finds none and answers the integer 0.
   `x = y.lhs` in a loop makes `x` an `int`.
5. `setDescriptorPointer` (lsr_classes.cpp:263-279) counts a member before it
   shifts the bit, `getIndex` counts from the header: the bit is that of the
   word after the member. With the last member the word is outside the object.
   `TracedExactly` says that every class with references is affected.
6. `ggggc_globalize` (roots.c:31) copies the frame of a function that still
   runs. Until it returns the collector meets its variables twice, the second
   time with an address in the new semispace, which `forward` takes for an
   object that was not copied yet. A class that is defined twice
   (lsr_bison.y:131) has its variable in the list twice for good.

Seen besides, in code that no run of these checks is about. The first three are
excluded from every run by constants that are FALSE, and the properties named
hold of the other programs; with TRUE they fail as said.

* `LSRExpr::operator+` (lsr_classes.cpp:369) means the constructor for strings
  and calls the one for classes: a sum of strings is an object whose class is
  the text, with a pointer nobody set. (`StringSums` TRUE: `TypesKept` and
  `ChainsInStep` are violated.)
* `GGC_ListInsertAfter` and `GGC_ListInsertAfterList` (list.c:210, 238) leave
  the tail alone when they insert after the last node; the next push cuts off
  what was inserted. (`InsertAtTail` TRUE: `ListsWellFormed` is violated.)
* With an empty source (`EmptySources` TRUE: `ListsTypeOK` is violated) the tail
  of a list gets NULL, or NULL is written through: "they both exist" (list.c:73)
  is said where only the target was looked at.
* `ggggc_allocateDescriptorPA` (allocate.c:338) clears the bit of the first
  element instead of that of the length, which is then taken for a reference;
  and the mask of an array of more than 62 elements has more words than `scan`
  looks at. `TracedExactly` states it as what the code does.
* The barrier's semaphore starts with `ct - 1` and gets `ct` in every round, so
  that nobody waits for the others (gen-barriers.c:29, 40): `NobodyWaits`.
* `GGC_PUSH_N` (push.h:460-471) sets the next frame and the pointers of its
  frame but not its size, which `ggggc_collect` and `ggggc_globalize` read. No
  code here uses the macro, and `Frames` has those that set the size.

## 4. The proofs

tlapm checks these theorems from nothing in a few minutes.

**Pools** (`PoolsProofs`), for every pool size, every set of object sizes smaller
than a pool (`PoolsAssumption`, which collect.c:172 states) and every number of
pools: `TypeCorrect`, `SemispacesMatchHolds`, `NoOverlapHolds`,
`NextPoolsEmptyHolds`, `SpacesSeparateHolds`, `CollectOnlyWhenFullHolds` and
`GrowthThenCollect`.

All use one inductive invariant, `IInv`, the conjunction of the
invariants of `pools_mixed` and two more parts. No conjunct stands alone:
`NoOverlap` needs that the free pointer bounds all objects of a pool and that
a pool that is emptied holds none of the live ones (`SpacesSeparate`), which
needs that no pool is in both lists (`SemispacesMatch`), which needs
that new pools are new (`PoolsInUse`); forwarding into the next pool without a
check of the size stays in bounds because that pool is empty
(`NextPoolsEmpty`) and no object is as large as a pool. `Phases` ties `req`,
`forceCollect` and `pc` together. There is one lemma per action; `AddObject`
and `PlaceStep` carry the geometry all placing steps share.

**Collector** (`CollectorProofs`), for every number of slots, words, variables,
objects and collections and every set of shapes, of programs as `StackProgram`
says: all variables on the pointer stack, none registered twice, descriptors
read after the yield and with the masks of types. These are what the runs that
expect a violation show to be needed. `WellTyped`, `CopiedAtMostOnce`,
`ForwardingHolds`, `ScannedHolds` and `RootsHold` are five of the invariants of
`collector_stack`.

The inductive invariant is the classical colouring, spelled out for this code.
`New` and `Old` are the slots in use of the two semispaces. `RootsAt`: a root
still in `todo` leads to `Old`, one that has been processed to `New`.
`NewObject`: a word of a copy leads to `New` if scan is done with it, else to
`Old` (`Done` reads off the mark stack, `cur` and `rest` which it is).
`OldObject`: a forwarding address leads to a copy of the same object; words
that have not been overwritten lead to `Old`. `Origins` and `Unique`: each copy
has an object that leads to it, and these are different objects, so that no
object has two. What
ties it to the descriptors is `Typed` and `Masked`: the words that the program
knows for references are those the descriptor marks, all others are 0, and an object that has moved still has its mask, so
that `scan` may read the descriptor of a copy through its old header, whether
or not that descriptor has moved (`Pop`), and leaves no word behind that leads
to `Old`. `Stack`: the mark stack has copies, each once, and not the one being
scanned. `Calls`: between the yield and the placement of an object no collection
comes, for such a program, so that the argument is still good.

`Evacuates` states what `ggggc_process` does whichever way it goes;
`EvacuateStays` and `EvacuateCopies` are its two ways, `RootStep` and `WordStep`
the two callers. The other lemmas are one per action.

Three more theorems are about what the program can reach. `HeadersHold` is
`HeadersFollow`, the sixth invariant, which the runs `collector_descriptor` and
`collector_globals` find violated by programs of other kinds. `ReachableKept` is
`CollectsGarbageOnly`: a collection keeps all that the pointer stack reaches and
nothing else. That all reachable objects are in `New` once nothing is left to
process follows from `IInv`; that nothing else is there needs another invariant,
`Led`: each copy, in the order of their slots, is led to by a root or by a word
of a copy before it. (`LedOn` is its step: `ggggc_process` makes no copy, or one
to which what it processed leads from then on.) `Reachable` is a recursive function; `Layers`
says what such a function is without recursion, and `LayersAgree`, `ReachableWithin`
and `ReachableHas` do their inductions by the least number that goes wrong
(`Least`).

`GraphImplemented` is `Transparent`: the collector, with the allocation and the
reads and writes of pointers, implements `ObjectGraph`. `Alive` is where the
objects are, in `New` or not yet copied, and `HomeIs` says that the refinement
mapping finds each of them there; `Seen` is an object with identities for
addresses. `Relocates` says of `ggggc_process` that each object stays where it is
or goes to its copy and that the address written means what the one before
meant, so that the graph and what the variables name stay the same
(`RootStutters`, `WordStutters`, and `BeginStutters` for the exchange of the
semispaces). The end of a collection is a `Reclaim` (`EndReclaims`), and the
program's own steps are those of `ObjectGraph`, each the one of its name
(`PlaceSeen`, `WriteSeen`, `ReadSeen`; other assignments are `Assigned`). That the
graph lets the program write where it does is `Typed` again: the program goes by
`members`, the graph by the descriptor. The invariant, `CInv`, adds to `IInv` and `Led` that the argument of
a running `ggggc_malloc` is still the descriptor of descriptors if the new object
is to be a descriptor (`Asked`).

**Interpreter** (`InterpreterProofs`), for every set of classes, names, literals
and paths (`ClassesAssumption`) and every number of objects and loops, of
programs as `Plain` says: no sums of strings, and no members of class type as
values in loops and functions, the two things the interpreter gets wrong.
`Typed`, `InStep`, `Kept` and `ReferencesFit` are `TypeOK`, `ChainsInStep`,
`TypesKept` and `ReferencesTyped` of `interpreter_scopes`.

None of the four is inductive. The invariant, `IInv`, says that a `Scope`, the
`LSRScope` that belongs to it and the types declared in it match, frame by frame
(`Matched`); that the lengths of the chains fit (`Lengths`: a call has no
`LSRScope` of its own, so that the chain of functions is one shorter once a
function runs); that an `LSRScope` has no name its `Scope` has not, but for the
outermost one of functions, in which every call leaves its variables behind,
beside a `Scope` that stays empty (`Good`); and that each object's words fit its
class (`HeapTyped`). `SameFrame` concludes that the two searches, each innermost
first, end side by side, `PathLeads` that a path of members which meets no NULL
leads to an object that has the last member, by bounded induction (`Induction`,
from the pigeonhole theorem of the library, as a proof that needs no operator as
a parameter). `ValuesTyped` is both evaluators' expressions. There is one lemma
per action; `Update` carries what all changes of one frame share.

**Language** (`LanguageProofs`), for the same programs: `LanguageImplemented` and
`StatementsFaithful` are `Implements` and `Faithful` of `interpreter_scopes`. The
lemmas of `InterpreterProofs` say of each action, besides that it keeps `IInv`,
what it does to the `View`: the frames, each value of class type taken from the
`LSRScope` beside its `Scope` and not searched for. `FramesView` concludes from
`Good` that this is what the refinement mapping (`Frames`) finds by its search.
`MeantValue`, `MeantTypes` and `MeantMeaning` compare names, types and
expressions of the state (in both evaluators, `MeantMeaning` is where `Plain` is
needed), then there is one lemma per statement. The lemmas that begin with
`Same` say that the instance of `Language` means the same by the operators of
`Classes`.

**Frames** (`FramesProofs`), for any groups, depth and number of copies:
`RootsInOrder`, from an invariant that adds the types, where the list ends, and
that `InOrder` holds frame by frame; and `RootsImplemented`, that each step maps
to a step of `RootList` or a stutter.

**Descriptors** (`DescriptorsProofs`): `WordsTraced`, that `TracedExactly` holds
for any types, classes and array lengths that fit a pool. The invariant says of
each descriptor, by its kind, what mask and references it was made with; the
lemma `ClassesTracedWrong` carries the argument about classes, that the first
member of class type has its own word unmarked. `DescriptorsDescribed`: a
descriptor's header is the descriptor-descriptor of its own size, and each of
the table's variables is made global once (`Described`). Its invariant, `DInv`,
adds that the table has, with a size, the size of its descriptor-descriptor
itself, that each header is the table's entry for that length, and that the
variables of table and slots are global, once, if and only if they are in use (`Tabled`, `MadeGlobal`). `SizesClose` is the recursion of
`ggggc_allocateDescriptorDescriptor`: three descriptors up from any size is the
one of 5 words, which describes itself, since no object is larger than a pool.

**Lists** (`LibraryProofs`), for any lists, values and number of nodes, of
programs that make neither of the two calls known to break a list (`Careful`,
the constants of the run `library`): `ListsTyped`, `ListsKeptWellFormed` and
`ListsImplemented`. `ListsWellFormed` speaks of what the links lead to and is not
inductive as it stands; the invariant `LInv` says that there is a line of nodes
for each list (`Lines`, `Strung`), each node once in all of them, that head,
tail, length and links agree on. All functions but `GGC_ListShift` put a line
into a line after its k-th node (`Spliced`), relink at most two nodes for it
(`Relinked`) and change at most two lists (`Changed`): `SplicedStrung` and
`ChangedLines` say once that this keeps the lines, and each function is an
instance of it. `Walk` ties the recursive functions of the model, which follow
the links, to the line.

**Maps** (`LibraryProofs`), for any maps, keys, values and hash function:
`MapsKeptWellFormed` and `MapsImplemented`. The invariant, `MInv`, says that each
table is `Good` (an entry of the map once, in the bucket of its key), that `used`
is the number of its entries (`Content`), and that at most one more than half of
the buckets are used. The growth of a table is two nested loops, and what a
recursive function computes needs induction: `LoopExists` has it for both at
once, by the least round that goes wrong, so that `MovedGood` and `GrowsGood`
need only say what a round does. `FoundIs` says that the first hit in the bucket
of a key is the one entry the key has. That `hash` sees the same bucket in a put
and in a get needs only that it is a function.

**Barrier** (`BarrierProofs`): `NobodyEverWaits`, for any set of threads and any
`ct`. `SignalsSuffice` is the invariant: the semaphore and the threads counted
make up for all who wait.

Only model-checked: liveness (`MallocReturns`, `CollectionEnds`), since fairness
and ENABLED are out of the prover's reach; and `FirstCollectionHarmless` of
`Collector`, whose programs have all their objects behind `LSRScopes`: there
`ScopesFollow` fails, so that `CInv` does not carry over and an invariant of the
retired semispace would have to take its place, for the sake of a first
collection only. The library's induction theorems
take an operator as a parameter, which no prover here can instantiate; where a
proof needs induction it takes the least counterexample, or the pigeonhole
theorem. No module uses a RECURSIVE operator.

## 5. What is not modelled, and what could come next

* *Pool free list*: `ggggc_expandGeneration` and `ggggc_freeGeneration` have no
  callers in this fork; `newPool` with an empty list is in `Pools`.
* *The first descriptors*: the moments in
  `ggggc_allocateDescriptorDescriptor` in which a header points to the C stack
  (allocate.c:263-280). A collection in them needs the pool to grow in the first
  allocations; `Collector` starts after them.
* *Masks of wide objects*: classes of 30 and more members, where `1 << size`
  leaves the range of an int, and the words of masks after the first, in
  `Collector`.
* *Calls with several parameters* and the branches of the interpreter that
  report a program's error and go on.
* *Output and text*: what strings contain, printing, the generated scanner and
  parser, `pushgen.c` and `ggggcify` (generators of text), the pool providers
  (calls to the operating system), the patches (for another version), tests and
  benchmarks (clients).

In the order of their worth: the composition of `Interpreter` with `Collector`;
`FirstCollectionHarmless` as a theorem.
