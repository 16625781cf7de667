------------------------------- MODULE Lists -------------------------------
(***************************************************************************)
(* The list collection (gc/collections/list.c): singly linked nodes with a *)
(* head, a tail and a length, changed by functions that update each of     *)
(* them by itself.  A function is one step: all its variables are on the   *)
(* pointer stack, so that a collection in it changes nothing here.         *)
(***************************************************************************)
EXTENDS Naturals, FiniteSets

CONSTANTS
  List,         \* the lists, made before the first call
  Value,        \* what is put in them
  None,         \* what is in a node that was never used
  MaxNodes,     \* nodes alive at any moment (bound)
  EmptySources, \* TRUE: programs move empty lists into lists that are not empty
  InsertAtTail  \* TRUE: programs insert after the last node

ASSUME ListsAssumption ==
  None \notin Value /\ MaxNodes \in Nat /\ EmptySources \in BOOLEAN /\ InsertAtTail \in BOOLEAN

NULL == 0
Node == 1 .. MaxNodes

VARIABLES
  length, head, tail,  \* the members of each GGC_List
  next, el,            \* the members of each GGC_ListNode
  failed               \* whether a call has written through NULL

listVars == <<length, head, tail, next, el, failed>>

(* GGC_NEW gives zeroed objects. *)
ListsInit ==
  /\ length = [l \in List |-> 0]
  /\ head = [l \in List |-> NULL] /\ tail = head
  /\ next = [n \in Node |-> NULL] /\ el = [n \in Node |-> None]
  /\ failed = FALSE

(* The nodes met from n on, in order, then NULL.                             *)
Path(n) ==
  LET at[k \in 0 .. MaxNodes] ==
        IF k = 0 THEN n ELSE IF at[k - 1] = NULL THEN NULL ELSE next[at[k - 1]]
  IN  at

From(n) == {Path(n)[k] : k \in 0 .. MaxNodes} \ {NULL}
Nodes(l) == From(head[l])

(* What a new node is made of: nothing leads to it.                          *)
Unused == Node \ UNION {Nodes(l) \cup From(tail[l]) : l \in List}
New == CHOOSE n \in Unused : \A m \in Unused : n <= m

(* GGC_ListToArray. *)
ToArray(l) ==
  [k \in 1 .. Cardinality({j \in 1 .. MaxNodes : j <= length[l] /\ Path(head[l])[j - 1] # NULL}) |->
     el[Path(head[l])[k - 1]]]

(* Writing link m into node n, after other links have been written.          *)
Linked(links, n, m) == IF n = NULL THEN links ELSE [links EXCEPT ![n] = m]

(* A new node with value v and the link m, nodes before it linked by links.  *)
Make(v, m, links) ==
  /\ next' = [links EXCEPT ![New] = m]
  /\ el' = [el EXCEPT ![New] = v]

(***************************************************************************)
(* The library's functions                                                 *)
(***************************************************************************)

Push(l, v) ==
  /\ ~failed /\ Unused # {}
  /\ Make(v, NULL, Linked(next, tail[l], New))
  /\ head' = [head EXCEPT ![l] = IF tail[l] = NULL THEN New ELSE @]
  /\ tail' = [tail EXCEPT ![l] = New]
  /\ length' = [length EXCEPT ![l] = @ + 1]
  /\ UNCHANGED failed

Unshift(l, v) ==
  /\ ~failed /\ Unused # {}
  /\ Make(v, head[l], next)
  /\ head' = [head EXCEPT ![l] = New]
  /\ tail' = [tail EXCEPT ![l] = IF head[l] = NULL THEN New ELSE @]
  /\ length' = [length EXCEPT ![l] = @ + 1]
  /\ UNCHANGED failed

(* Moving a list that may be empty into one that is.                         *)
Graft(to, from) ==
  /\ head' = [head EXCEPT ![to] = IF head[from] = NULL THEN @ ELSE head[from], ![from] = NULL]
  /\ tail' = [tail EXCEPT ![to] = IF head[from] = NULL THEN @ ELSE tail[from],
                          ![from] = IF head[from] = NULL THEN @ ELSE NULL]
  /\ length' = [length EXCEPT ![to] = IF head[from] = NULL THEN @ ELSE length[from],
                              ![from] = IF head[from] = NULL THEN @ ELSE 0]
  /\ UNCHANGED <<next, el, failed>>

(* Whether the program makes such a call. *)
Movable(to, from) ==
  ~failed /\ to # from /\ (head[to] = NULL \/ head[from] # NULL \/ EmptySources)

PushList(to, from) ==
  /\ Movable(to, from)
  /\ \/ head[to] = NULL /\ Graft(to, from)
     \/ /\ head[to] # NULL
        /\ next' = Linked(next, tail[to], head[from])
        /\ tail' = [tail EXCEPT ![to] = tail[from], ![from] = NULL]
        /\ length' = [length EXCEPT ![to] = @ + length[from], ![from] = 0]
        /\ head' = [head EXCEPT ![from] = NULL]
        /\ failed' = (tail[to] = NULL)
        /\ UNCHANGED el

(* The mutant of UnshiftList: it does what PushList does.                    *)
UnshiftListAppends(to, from) == PushList(to, from)

UnshiftList(to, from) ==
  /\ Movable(to, from)
  /\ \/ head[to] = NULL /\ Graft(to, from)
     \/ /\ head[to] # NULL
        /\ next' = Linked(next, tail[from], head[to])
        /\ head' = [head EXCEPT ![to] = head[from], ![from] = NULL]
        /\ length' = [length EXCEPT ![to] = @ + length[from], ![from] = 0]
        /\ tail' = [tail EXCEPT ![from] = NULL]
        /\ failed' = (tail[from] = NULL)
        /\ UNCHANGED el

(* The mutant of Shift: the tail of a list that gets empty stays.            *)
ShiftKeepsTail(l) ==
  /\ ~failed /\ head[l] # NULL
  /\ head' = [head EXCEPT ![l] = next[@]]
  /\ length' = [length EXCEPT ![l] = @ - 1]
  /\ UNCHANGED <<tail, next, el, failed>>

(* Of an empty list it returns NULL. *)
Shift(l) ==
  /\ ~failed /\ head[l] # NULL
  /\ head' = [head EXCEPT ![l] = next[@]]
  /\ tail' = [tail EXCEPT ![l] = IF next[head[l]] = NULL THEN NULL ELSE @]
  /\ length' = [length EXCEPT ![l] = @ - 1]
  /\ UNCHANGED <<next, el, failed>>

InsertAfter(l, after, v) ==
  /\ ~failed /\ Unused # {}
  /\ after \in Nodes(l) /\ (after = tail[l] => InsertAtTail)
  /\ Make(v, next[after], [next EXCEPT ![after] = New])
  /\ length' = [length EXCEPT ![l] = @ + 1]
  /\ UNCHANGED <<head, tail, failed>>

(* The mutant of InsertAfterList: after's link is read when it has changed.  *)
InsertAfterListLate(to, after, from) ==
  /\ Movable(to, from) /\ after \in Nodes(to) /\ (after = tail[to] => InsertAtTail)
  /\ next' = Linked([next EXCEPT ![after] = head[from]], tail[from], head[from])
  /\ head' = [head EXCEPT ![from] = NULL]
  /\ tail' = [tail EXCEPT ![from] = NULL]
  /\ length' = [length EXCEPT ![to] = @ + length[from], ![from] = 0]
  /\ failed' = (tail[from] = NULL)
  /\ UNCHANGED el

InsertAfterList(to, after, from) ==
  /\ Movable(to, from) /\ after \in Nodes(to) /\ (after = tail[to] => InsertAtTail)
  /\ next' = Linked([next EXCEPT ![after] = head[from]], tail[from], next[after])
  /\ head' = [head EXCEPT ![from] = NULL]
  /\ tail' = [tail EXCEPT ![from] = NULL]
  /\ length' = [length EXCEPT ![to] = @ + length[from], ![from] = 0]
  /\ failed' = (tail[from] = NULL)
  /\ UNCHANGED el

ListsNext ==
  \/ \E l \in List, v \in Value : Push(l, v) \/ Unshift(l, v)
  \/ \E l \in List : Shift(l)
  \/ \E l \in List, after \in Node, v \in Value : InsertAfter(l, after, v)
  \/ \E to \in List, from \in List : PushList(to, from) \/ UnshiftList(to, from)
  \/ \E to \in List, from \in List, after \in Node : InsertAfterList(to, after, from)

ListsSpec == ListsInit /\ [][ListsNext]_listVars

(***************************************************************************)
(* Properties                                                              *)
(***************************************************************************)

(* Members and links are nodes or NULL, and no call writes through NULL.     *)
ListsTypeOK ==
  /\ length \in [List -> 0 .. MaxNodes]
  /\ head \in [List -> Node \cup {NULL}] /\ tail \in [List -> Node \cup {NULL}]
  /\ next \in [Node -> Node \cup {NULL}]
  /\ el \in [Node -> Value \cup {None}]
  /\ failed = FALSE

(* No node is in two lists, none is reached twice, and the tail is the last  *)
(* one: what each function relies on the other ones for.                     *)
ListsWellFormed ==
  \A l \in List :
    /\ Cardinality(Nodes(l)) = length[l]
    /\ Path(head[l])[length[l]] = NULL
    /\ tail[l] = IF head[l] = NULL THEN NULL ELSE Path(head[l])[length[l] - 1]
    /\ \A m \in List \ {l} : Nodes(l) \cap Nodes(m) = {}

Held == INSTANCE Contents WITH contents <- [l \in List |-> ToArray(l)]

Position(l, n) == CHOOSE k \in 1 .. length[l] : Path(head[l])[k - 1] = n

(* Each function does to the sequences what its comment says, whichever      *)
(* calls came before it, and touches no other list.                          *)
ListsPromised ==
  /\ \A l \in List :
       /\ Shift(l) => Held!Shift(l)
       /\ \A v \in Value :
            /\ Push(l, v) => Held!Push(l, v)
            /\ Unshift(l, v) => Held!Unshift(l, v)
            /\ \A n \in Node : InsertAfter(l, n, v) => Held!InsertAfter(l, Position(l, n), v)
  /\ \A to \in List, from \in List :
       /\ PushList(to, from) => Held!PushList(to, from)
       /\ UnshiftList(to, from) => Held!UnshiftList(to, from)
       /\ \A n \in Node :
            InsertAfterList(to, n, from) => Held!InsertAfterList(to, Position(to, n), from)

ListsImplement == Held!Spec /\ [][ListsPromised]_listVars
=============================================================================
