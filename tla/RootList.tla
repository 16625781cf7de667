------------------------------ MODULE RootList ------------------------------
(***************************************************************************)
(* What the pointer stack is to a collection: the groups of variables of   *)
(* the functions that run now, innermost first, and the groups that were   *)
(* made global, in the order of that.                                      *)
(***************************************************************************)
EXTENDS Sequences

CONSTANT Group   \* groups of variables a function registers

VARIABLES frames, globals

Init == frames = << >> /\ globals = << >>

Push(g) == frames' = <<g>> \o frames /\ UNCHANGED globals

Pop == frames # << >> /\ frames' = Tail(frames) /\ UNCHANGED globals

(* The group of the running function becomes global as well.                 *)
Globalize ==
  frames # << >> /\ globals' = Append(globals, Head(frames)) /\ UNCHANGED frames

Next == (\E g \in Group : Push(g)) \/ Pop \/ Globalize

Spec == Init /\ [][Next]_<<frames, globals>>
=============================================================================
