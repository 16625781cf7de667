------------------------------ MODULE Language ------------------------------
(***************************************************************************)
(* What an LSR program means: variables in nested frames hold integers,    *)
(* strings or references to objects; a frame is opened by each iteration   *)
(* of a loop and by a call, and a function sees no variable of main.       *)
(***************************************************************************)
EXTENDS Classes

VARIABLES
  frames,   \* of main and of the running function: the frames, innermost last,
            \* each with the values of its variables
  heap,     \* the objects
  ended     \* whether the program has gone through a NULL member

vars == <<frames, heap, ended>>

Init ==
  /\ frames = [c \in Chain |-> IF c = "main" THEN << << >>, << >> >> ELSE << << >> >>]
  /\ heap = << >>
  /\ ended = FALSE

Here == IF Len(frames["fn"]) > 1 THEN "fn" ELSE "main"
Inner == Len(frames[Here])
Visible == {x \in Vars : Innermost(frames[Here], x) # 0}
Value(x) == frames[Here][Innermost(frames[Here], x)][x]
Types == [x \in Visible |-> Value(x).type]

(* Accesses through NULL. *)
Dangles(a) == Owner(heap, Value(a.x).val, a.path) = 0

MeaningOfAtom(a) ==
  CASE a.op = "literal" -> a.value
    [] a.op = "var"     -> Value(a.x)
    [] a.op = "member"  -> [type |-> AtomType(a, Types),
                            val |-> Cell(heap, Value(a.x).val, a.path)]

Meaning(e) ==
  IF e.op # "plus" THEN MeaningOfAtom(e)
  ELSE [MeaningOfAtom(e.l) EXCEPT !.val = @ + MeaningOfAtom(e.r).val]

Initial(t) == [type |-> t, val |-> IF t \in Class THEN Len(heap) + 1 ELSE 0]

(* Expressions of type t that go through no NULL.                            *)
Of(t) ==
  {e \in Exprs : t # "none" /\ TypeOf(e, Types) = t /\ \A a \in Accesses(e) : ~Dangles(a)}

(* x is new in the innermost frame, and has the value v.                     *)
New(x, t, v) ==
  /\ x \notin DOMAIN frames[Here][Inner]
  /\ frames' = [frames EXCEPT ![Here][Inner] = Put(@, x, v)]
  /\ heap' = Grown(heap, t)
  /\ UNCHANGED ended

Declare(x, t) == New(x, t, Initial(t))
DeclareInit(x, t, e) == e \in Of(t) /\ New(x, t, Meaning(e))

(* The innermost x gets a value of its type.                                 *)
Assign(x, e) ==
  /\ x \in Visible /\ e \in Of(Types[x])
  /\ frames' = [frames EXCEPT ![Here][Innermost(frames[Here], x)][x] = Meaning(e)]
  /\ UNCHANGED <<heap, ended>>

SetMember(a, e) ==
  /\ AtomType(a, Types) # "none" /\ ~Dangles(a)
  /\ e \in Of(AtomType(a, Types))
  /\ heap' = SetCell(heap, Value(a.x).val, a.path, Meaning(e).val)
  /\ UNCHANGED <<frames, ended>>

Open ==
  /\ frames' = [frames EXCEPT ![Here] = Append(@, << >>)]
  /\ UNCHANGED <<heap, ended>>

(* A loop's frame goes, or that of the call.                                 *)
Close ==
  /\ frames' = [frames EXCEPT ![Here] = SubSeq(@, 1, Inner - 1)]
  /\ UNCHANGED <<heap, ended>>

(* A call opens the function's frame, with its parameters in it.             *)
Call ==
  /\ Here = "main"
  /\ frames' = [frames EXCEPT !["fn"] = Append(@, << >>)]
  /\ UNCHANGED <<heap, ended>>

CallWith(x, t, e) ==
  /\ Here = "main" /\ e \in Of(t)
  /\ frames' = [frames EXCEPT !["fn"] = Append(@, Put(<< >>, x, Meaning(e)))]
  /\ heap' = Grown(heap, t)
  /\ UNCHANGED ended

Fail ==
  /\ \E a \in Members : AtomType(a, Types) # "none" /\ Dangles(a)
  /\ ended' = TRUE
  /\ UNCHANGED <<frames, heap>>

Next ==
  /\ ~ended
  /\ \/ \E x \in Vars, t \in Type : Declare(x, t) \/ \E e \in Of(t) : DeclareInit(x, t, e)
     \/ \E x \in Visible : \E e \in Of(Types[x]) : Assign(x, e)
     \/ \E a \in Members : \E e \in Of(AtomType(a, Types)) : SetMember(a, e)
     \/ Open \/ Close
     \/ Call \/ \E x \in Vars, t \in Type : \E e \in Of(t) : CallWith(x, t, e)
     \/ Fail

Spec == Init /\ [][Next]_vars
=============================================================================
