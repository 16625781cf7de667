---------------------------- MODULE ObjectGraph ----------------------------
(***************************************************************************)
(* What the collector's library promises to the program: a graph of        *)
(* objects that only the program changes.  Objects are named by identities *)
(* that never change; there are no addresses, no spaces and no moment at   *)
(* which a collection runs.  The only trace of the collector is Reclaim,   *)
(* which may forget objects nothing refers to.                             *)
(*                                                                         *)
(* Word 0 of an object is its header and refers to its descriptor, itself  *)
(* an object; a descriptor's shape is the set of words of the objects it   *)
(* describes that hold references.                                         *)
(***************************************************************************)
EXTENDS Integers

CONSTANTS
  Ids,         \* the identities objects may get, positive numbers
  Locations,   \* the program's variables that may hold a reference
  Width,       \* words of an object after its header
  Shapes,      \* shapes a descriptor may be given
  DD           \* the variable that holds the descriptor of descriptors

VARIABLES
  graph,   \* the objects: what each identity stands for
  refs     \* the identity each variable holds, 0 for NULL

vars == <<graph, refs>>

Word == 0 .. Width

Blank == [k \in Word |-> 0]

(* The references of the object i, its header included. *)
Points(i) == {graph[i].words[k] : k \in Word} \ {0}

(* The program starts with the descriptor of descriptors, which describes    *)
(* itself: its header and its user pointer are references.                   *)
Init ==
  /\ graph = [i \in {1} |-> [words |-> [Blank EXCEPT ![0] = 1], shape |-> {0, 1}]]
  /\ refs = [l \in Locations |-> IF l = DD THEN 1 ELSE 0]

(* The variable l gets a reference. *)
Name(l, i) == refs' = [refs EXCEPT ![l] = i]

(* There is an object i more, which d describes; when d describes            *)
(* descriptors the new object gets a shape, otherwise it has none.           *)
Add(i, d, shape) ==
  /\ d # refs[DD] => shape = {}
  /\ graph' = [j \in DOMAIN graph \cup {i} |->
                 IF j = i THEN [words |-> [Blank EXCEPT ![0] = d], shape |-> shape]
                 ELSE graph[j]]

New(l, i, d, shape) == Name(l, i) /\ Add(i, d, shape)

(* m's object gets a reference to n's, or NULL, in a word that may hold one. *)
Write(m, k, n) ==
  /\ UNCHANGED refs
  /\ refs[m] # 0
  /\ k \in graph[graph[refs[m]].words[0]].shape \ {0}
  /\ graph' = [graph EXCEPT ![refs[m]].words[k] = refs[n]]

(* A variable gets another's value, or what a word of m's object holds.      *)
Copy(l, m) == Name(l, refs[m]) /\ UNCHANGED graph

Read(l, m, k) ==
  /\ refs[m] # 0 /\ k # 0
  /\ Name(l, graph[refs[m]].words[k])
  /\ UNCHANGED graph

(* Of either kind: it gets NULL or what a variable or an object has.         *)
Assign(l, i) ==
  /\ Name(l, i)
  /\ \/ i = 0
     \/ \E m \in Locations : refs[m] # 0 /\ i \in {refs[m]} \cup Points(refs[m])
  /\ UNCHANGED graph

(* Some variables are set to NULL, or the program leaves their scope. *)
Leave(gone) ==
  /\ refs' = [l \in Locations |-> IF l \in gone THEN 0 ELSE refs[l]]
  /\ UNCHANGED graph

(* Objects disappear that no variable and no remaining object refers to. *)
Reclaim(keep) ==
  /\ UNCHANGED refs
  /\ graph' = [i \in keep |-> graph[i]]
  /\ \A l \in Locations : refs[l] \in keep \cup {0}
  /\ \A i \in keep : Points(i) \subseteq keep

Next ==
  \/ \E l \in Locations, i \in Ids \ DOMAIN graph :
       /\ Name(l, i)
       /\ \E d \in DOMAIN graph, shape \in Shapes \cup {{}} : Add(i, d, shape)
  \/ \E m, n \in Locations, k \in Word : Write(m, k, n)
  \/ \E l \in Locations, i \in DOMAIN graph \cup {0} : Assign(l, i)
  \/ Leave({l \in Locations : refs'[l] # refs[l]})
  \/ \E keep \in SUBSET DOMAIN graph : Reclaim(keep)

Spec == Init /\ [][Next]_vars
=============================================================================
