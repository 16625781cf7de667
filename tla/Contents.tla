------------------------------ MODULE Contents ------------------------------
(***************************************************************************)
(* What the list collection promises: each list is a sequence of values.   *)
(* Moving a list into another one leaves it empty.                         *)
(***************************************************************************)
EXTENDS Naturals, Sequences

CONSTANTS List, Value

VARIABLE contents

vars == contents

Init == contents = [l \in List |-> << >>]

Push(l, v) == contents' = [contents EXCEPT ![l] = Append(@, v)]

Unshift(l, v) == contents' = [contents EXCEPT ![l] = <<v>> \o @]

Shift(l) == contents' = [contents EXCEPT ![l] = SubSeq(@, 2, Len(@))]

(* After the k-th element. *)
InsertAfter(l, k, v) ==
  contents' = [contents EXCEPT ![l] = SubSeq(@, 1, k) \o <<v>> \o SubSeq(@, k + 1, Len(@))]

InsertAfterList(to, k, from) ==
  contents' = [contents EXCEPT
                 ![to] = SubSeq(@, 1, k) \o contents[from] \o SubSeq(@, k + 1, Len(@)),
                 ![from] = << >>]

PushList(to, from) == InsertAfterList(to, Len(contents[to]), from)

UnshiftList(to, from) == InsertAfterList(to, 0, from)

Next ==
  \/ \E l \in List, v \in Value :
       \/ Push(l, v) \/ Unshift(l, v)
       \/ \E k \in 1 .. Len(contents[l]) : InsertAfter(l, k, v)
  \/ \E l \in List : Shift(l)
  \/ \E to \in List, from \in List :
       /\ to # from
       /\ \/ PushList(to, from) \/ UnshiftList(to, from)
          \/ \E k \in 1 .. Len(contents[to]) : InsertAfterList(to, k, from)

Spec == Init /\ [][Next]_vars
=============================================================================
