--------------------------- MODULE MCInterpreter ---------------------------
(***************************************************************************)
(* Instances of Interpreter for TLC.  Members are in the order of std::map.*)
(***************************************************************************)
EXTENDS Interpreter

(* Two classes, one with a member of each kind.                              *)
TwoClasses ==
  [T |-> << [name |-> "lhs", type |-> "T"], [name |-> "val", type |-> "int"] >>,
   U |-> << [name |-> "of", type |-> "T"] >>]

TwoClassesPaths == {<<"lhs">>, <<"of">>, <<"of", "val">>}

(* One class, with nothing but a reference.                                  *)
OneClass == [T |-> << [name |-> "lhs", type |-> "T"] >>]

OneClassPaths == {<<"lhs">>}
=============================================================================
