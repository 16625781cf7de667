----------------------------- MODULE MCLibrary -----------------------------
(* What the library has besides its allocator and collector, for TLC.  These *)
(* components share no state: in a behaviour only one of them is in use.     *)
EXTENDS Lists, Maps, Frames, Descriptors, Barrier, TLC

CONSTANTS
  Components,          \* the components in question
  HashZero, HashFour   \* the keys with hash 0 and 4

VARIABLE inUse

KeyHash ==
  [k \in Key |-> CASE k \in HashZero -> 0 [] k \in HashFour -> 4 [] OTHER -> 1]

Bodies ==
  {<< >>, <<"int", "int">>, <<"class">>, <<"class", "int">>, <<"int", "class">>,
   <<"class", "class", "int">>}

(* GGC_ListNode, GGC_Map, and a type without pointers.                       *)
SomeTypes ==
  {[size |-> 3, pointers |-> {1, 2}], [size |-> 4, pointers |-> {3}],
   [size |-> 2, pointers |-> {}]}

LibraryVars ==
  <<listVars, mapVars, frameVars, descriptorVars, barrierVars, inUse>>

Init ==
  /\ inUse \in Components
  /\ ListsInit /\ MapsInit /\ FramesInit /\ DescriptorsInit /\ BarrierInit

Lonely(component, unused) == inUse = component /\ UNCHANGED <<unused, inUse>>

Next ==
  \/ /\ Lonely("lists", <<mapVars, frameVars, descriptorVars, barrierVars>>)
     /\ ListsNext
  \/ /\ Lonely("maps", <<listVars, frameVars, descriptorVars, barrierVars>>)
     /\ MapsNext
  \/ /\ Lonely("frames", <<listVars, mapVars, descriptorVars, barrierVars>>)
     /\ FramesNext
  \/ /\ Lonely("descriptors", <<listVars, mapVars, frameVars, barrierVars>>)
     /\ DescriptorsNext
  \/ /\ Lonely("barrier", <<listVars, mapVars, frameVars, descriptorVars>>)
     /\ BarrierNext

Spec == Init /\ [][Next]_LibraryVars

(* The instance uses the same names for lists and maps, and the same for     *)
(* values and groups of variables.                                           *)
Symmetry == Permutations(List) \cup Permutations(Value) \cup Permutations(HashZero)
=============================================================================
