---------------------------- MODULE Interpreter ----------------------------
(***************************************************************************)
(* LSR's interpreter (lsr_classes.cpp, the actions of lsr_bison.y): the    *)
(* statements of main are evaluated while they are parsed, the bodies of   *)
(* loops and functions are kept as nodes and executed later, by another    *)
(* evaluator.  A variable of class type is in two places: its type in the  *)
(* SymbolTable of a Scope, its reference in the map of an LSRScope, where  *)
(* the collector looks for it.  The two chains are pushed, popped and      *)
(* searched independently.                                                 *)
(*                                                                         *)
(* Programs are well typed ("the onus is on the programmer not to assign   *)
(* between types") and declare no name twice in a frame, and any statement *)
(* may come next, which covers every program.                              *)
(***************************************************************************)
EXTENDS Classes

CONSTANTS
  MaxObjects,    \* objects ever made (bound)
  MaxLoops,      \* loops inside each other (bound)
  MaxInt,        \* largest integer (bound)
  StringSums,    \* TRUE: programs add strings
  DeferredReads  \* TRUE: loops and functions use members of class type as values

ASSUME InterpreterAssumption ==
  /\ MaxObjects \in Nat /\ MaxLoops \in Nat /\ MaxInt \in Nat
  /\ StringSums \in BOOLEAN /\ DeferredReads \in BOOLEAN

VARIABLES
  scopes,    \* the chain of Scopes of main and of functions, outermost first:
             \* the symMap of each
  ptrs,      \* the chains of LSRScopes: the ptrs of each
  heap,      \* the objects
  declared,  \* the type each variable of scopes was declared with
  crashed    \* whether the interpreter has gone through a NULL member

vars == <<scopes, ptrs, heap, declared, crashed>>

IsClass(v) == v.type \notin {"int", "str"}

(* The program's first action, and main's block.                             *)
Init ==
  /\ scopes = [c \in Chain |-> IF c = "main" THEN << << >>, << >> >> ELSE << << >> >>]
  /\ ptrs = scopes
  /\ heap = << >>
  /\ declared = scopes
  /\ crashed = FALSE

(* Whether a function is running, and whether statements are nodes.          *)
Here == IF Len(scopes["fn"]) > 1 THEN "fn" ELSE "main"
Deferred == Here = "fn" \/ Len(scopes["main"]) > 2

(***************************************************************************)
(* Looking up                                                              *)
(***************************************************************************)

(* The mutant of Pointer: the parents are not asked.                         *)
PointerInnermost(x) ==
  LET own == ptrs[Here][Len(ptrs[Here])]
  IN  IF x \in DOMAIN own THEN own[x] ELSE 0

(* LSRScope::resolve. *)
Pointer(x) ==
  LET i == Innermost(ptrs[Here], x)
  IN  IF i = 0 THEN 0 ELSE ptrs[Here][i][x]

(* Scope::resolve: the type from the Scope, the reference from the LSRScope. *)
Resolve(x) ==
  LET i == Innermost(scopes[Here], x)
  IN  IF i = 0 THEN IntVal(0)
      ELSE IF IsClass(scopes[Here][i][x])
           THEN [scopes[Here][i][x] EXCEPT !.val = Pointer(x)]
           ELSE scopes[Here][i][x]

Dangles(a) == Owner(heap, Pointer(a.x), a.path) = 0

Types ==
  [x \in {y \in Vars : Innermost(declared[Here], y) # 0} |->
     declared[Here][Innermost(declared[Here], x)][x]]

(* Scope::resolveMembers. *)
ResolveMembers(a) ==
  IF ~IsClass(Resolve(a.x)) THEN IntVal(0)
  ELSE [type |-> PathType(Resolve(a.x).type, a.path), val |-> Cell(heap, Pointer(a.x), a.path)]

Atom(a) ==
  CASE a.op = "literal" -> a.value
    [] a.op = "var"     -> Resolve(a.x)
    [] a.op = "member"  -> ResolveMembers(a)

(* LSRExpr: what an expression is when it is evaluated at once.  The sum of  *)
(* two strings is made by the constructor that takes a class's name: it has  *)
(* the text for a type and no reference was ever stored in it.               *)
Immediate(e) ==
  IF e.op # "plus" THEN Atom(e)
  ELSE IF Atom(e.l).type = "int" THEN IntVal(Atom(e.l).val + e.r.value.val)
  ELSE [type |-> "text", val |-> -1]

(* Mutant of Executed: varNode does not set the name of a variable either.   *)
ExecutedNoName(a) == IF a.op # "literal" /\ IsClass(Atom(a)) THEN IntVal(0) ELSE Atom(a)

(* nodeValue::toVal of what a node's execute returns.  A variable of a class *)
(* is looked up again by its name; a member of a class is not given one, so  *)
(* that the name "" is looked up.                                            *)
Executed(a) == IF a.op = "member" /\ IsClass(Atom(a)) THEN IntVal(0) ELSE Atom(a)

(* The same of any expression.  A sum adds the intVal of its operands, which *)
(* is 0 in a string literal and was never set in a string variable.          *)
NodeValues(e) ==
  IF e.op # "plus" THEN {Executed(e)}
  ELSE IF e.l.op = "var" /\ Atom(e.l).type = "str" THEN {IntVal(n) : n \in 0 .. MaxInt}
  ELSE {IntVal(Atom(e.l).val + e.r.value.val)}

Values(e) == IF Deferred THEN NodeValues(e) ELSE {Immediate(e)}

(* Expressions of type t that a program here may use, and that get a value.  *)
Usable(t) ==
  {e \in Exprs :
     /\ TypeOf(e, Types) = t /\ \A a \in Accesses(e) : ~Dangles(a)
     /\ e.op = "plus" /\ t = "str" => StringSums
     /\ e.op = "member" /\ t \in Class /\ Deferred => DeferredReads
     /\ \A v \in Values(e) : v.type = "int" => v.val <= MaxInt}

(***************************************************************************)
(* Changing the chains.  A step's effects on them, in their order, are     *)
(* applied to a record of both.                                            *)
(***************************************************************************)

Both == [scopes |-> scopes, ptrs |-> ptrs]

(* The constructor of Scope. *)
NewScope(b, c) == [b EXCEPT !.scopes[c] = Append(@, << >>)]

(* The mutant of Declared: a reference that is there already stays there, as *)
(* with the map's insert.                                                    *)
DeclaredInserts(b, c, x, t) ==
  [b EXCEPT !.scopes[c][Len(b.scopes[c])] = Put(@, x, [type |-> t, val |-> 0]),
            !.ptrs[c][Len(b.ptrs[c])] =
              IF t \in Class /\ x \notin DOMAIN @ THEN Put(@, x, Len(heap) + 1) ELSE @]

(* Scope::decl of a name that is new: into the innermost Scope, and for a    *)
(* class the new object into the innermost LSRScope.                         *)
Declared(b, c, x, t) ==
  [b EXCEPT !.scopes[c][Len(b.scopes[c])] = Put(@, x, [type |-> t, val |-> 0]),
            !.ptrs[c][Len(b.ptrs[c])] =
              IF t \in Class THEN Put(@, x, Len(heap) + 1) ELSE @]

(* Scope::assign: the innermost Scope that has x gets the value, the         *)
(* innermost LSRScope that has x the reference (LSRScope::setPtr).           *)
Assigned(b, c, x, v) ==
  LET i == Innermost(b.scopes[c], x)
      j == Innermost(b.ptrs[c], x)
      s == [b EXCEPT !.scopes[c][i] = Put(@, x, IF IsClass(v) THEN [v EXCEPT !.val = 0] ELSE v)]
  IN  IF i = 0 THEN b
      ELSE IF IsClass(v) /\ j # 0 THEN [s EXCEPT !.ptrs[c][j][x] = v.val]
      ELSE s

(* The mutant of Added: of the object made for x.                            *)
AddedFresh(b, c, x) ==
  IF IsClass(b.scopes[c][Innermost(b.scopes[c], x)][x])
  THEN [b EXCEPT !.ptrs[c][Len(b.ptrs[c])] = Put(@, x, Len(heap) + 1)]
  ELSE b

(* The addPtr that main's decl goes on to: of what x now is.                 *)
Added(b, c, x) ==
  LET j == Innermost(b.ptrs[c], x)
  IN  IF IsClass(b.scopes[c][Innermost(b.scopes[c], x)][x])
      THEN [b EXCEPT !.ptrs[c][Len(b.ptrs[c])] = Put(@, x, IF j = 0 THEN 0 ELSE b.ptrs[c][j][x])]
      ELSE b

Become(b) == scopes' = b.scopes /\ ptrs' = b.ptrs

(***************************************************************************)
(* Statements                                                              *)
(***************************************************************************)

New(x) == x \notin DOMAIN scopes[Here][Len(scopes[Here])]
Room(t) == Len(Grown(heap, t)) <= MaxObjects

Note(c, x, t) == declared' = [declared EXCEPT ![c][Len(declared[c])] = Put(@, x, t)]

(* decl and deferdecl.                                                       *)
Declare(x, t) ==
  /\ ~crashed /\ New(x) /\ Room(t)
  /\ Become(IF Deferred THEN Declared(Both, Here, x, t)
            ELSE Added(Declared(Both, Here, x, t), Here, x))
  /\ heap' = Grown(heap, t)
  /\ Note(Here, x, t)
  /\ UNCHANGED crashed

(* decl with an initial value, which is evaluated first; only in main.       *)
DeclareInit(x, t, e) ==
  /\ ~crashed /\ New(x) /\ Room(t)
  /\ ~Deferred /\ e \in Usable(t)
  /\ Become(Added(Assigned(Declared(Both, Here, x, t), Here, x, Immediate(e)), Here, x))
  /\ heap' = Grown(heap, t)
  /\ Note(Here, x, t)
  /\ UNCHANGED crashed

(* assign and assignNode, of a variable.                                     *)
Assign(x, e) ==
  /\ ~crashed
  /\ x \in DOMAIN Types /\ e \in Usable(Types[x])
  /\ \E v \in Values(e) : Become(Assigned(Both, Here, x, v))
  /\ UNCHANGED <<heap, declared, crashed>>

(* assign and assignNode, of a member: Scope::memberAssign writes integers   *)
(* and references.                                                           *)
MemberAssign(a, e) ==
  /\ ~crashed
  /\ AtomType(a, Types) # "none" /\ ~Dangles(a)
  /\ e \in Usable(AtomType(a, Types))
  /\ \E v \in Values(e) : heap' = SetCell(heap, Pointer(a.x), a.path, v.val)
  /\ UNCHANGED <<scopes, ptrs, declared, crashed>>

(* A statement goes through a member that is NULL.                           *)
Crash ==
  /\ ~crashed
  /\ \E a \in Members : AtomType(a, Types) # "none" /\ Dangles(a)
  /\ crashed' = TRUE
  /\ UNCHANGED <<scopes, ptrs, heap, declared>>

(* whileNode::execute: an iteration begins.                                  *)
EnterLoop ==
  /\ ~crashed
  /\ Len(scopes[Here]) < 2 + MaxLoops
  /\ Become([NewScope(Both, Here) EXCEPT !.ptrs[Here] = Append(@, << >>)])
  /\ declared' = [declared EXCEPT ![Here] = Append(@, << >>)]
  /\ UNCHANGED <<heap, crashed>>

(* Mutants of LeaveLoop: the block of main is left as well; the LSRScope is  *)
(* left in place.                                                            *)
LeaveLoopUnguarded ==
  /\ ~crashed
  /\ scopes' = [scopes EXCEPT ![Here] = SubSeq(@, 1, Len(@) - 1)]
  /\ ptrs' = [ptrs EXCEPT ![Here] = SubSeq(@, 1, Len(@) - 1)]
  /\ declared' = [declared EXCEPT ![Here] = SubSeq(@, 1, Len(@) - 1)]
  /\ UNCHANGED <<heap, crashed>>

LeaveLoopKeepsPointers ==
  /\ ~crashed
  /\ Len(scopes[Here]) > 2
  /\ scopes' = [scopes EXCEPT ![Here] = SubSeq(@, 1, Len(@) - 1)]
  /\ declared' = [declared EXCEPT ![Here] = SubSeq(@, 1, Len(@) - 1)]
  /\ UNCHANGED <<ptrs, heap, crashed>>

(* It ends.                                                                  *)
LeaveLoop ==
  /\ ~crashed
  /\ Len(scopes[Here]) > 2
  /\ scopes' = [scopes EXCEPT ![Here] = SubSeq(@, 1, Len(@) - 1)]
  /\ ptrs' = [ptrs EXCEPT ![Here] = SubSeq(@, 1, Len(@) - 1)]
  /\ declared' = [declared EXCEPT ![Here] = SubSeq(@, 1, Len(@) - 1)]
  /\ UNCHANGED <<heap, crashed>>

(* fncall, for a function without parameters and for one with a parameter x  *)
(* of type t: a Scope, but no LSRScope.                                      *)
Call ==
  /\ ~crashed /\ ~Deferred
  /\ Become(NewScope(Both, "fn"))
  /\ declared' = [declared EXCEPT !["fn"] = Append(@, << >>)]
  /\ UNCHANGED <<heap, crashed>>

(* The mutant of CallWith: the parameter keeps the object of its declaration. *)
CallWithOwn(x, t, e) ==
  /\ ~crashed /\ ~Deferred /\ Room(t)
  /\ e \in Usable(t)
  /\ Become(Declared(NewScope(Both, "fn"), "fn", x, t))
  /\ heap' = Grown(heap, t)
  /\ declared' = [declared EXCEPT !["fn"] = Append(@, Put(<< >>, x, t))]
  /\ UNCHANGED crashed

CallWith(x, t, e) ==
  /\ ~crashed /\ ~Deferred /\ Room(t)
  /\ e \in Usable(t)
  /\ Become(Assigned(Declared(NewScope(Both, "fn"), "fn", x, t), "fn", x, Immediate(e)))
  /\ heap' = Grown(heap, t)
  /\ declared' = [declared EXCEPT !["fn"] = Append(@, Put(<< >>, x, t))]
  /\ UNCHANGED crashed

(* The function's statements are over: its Scope is deleted.                 *)
Return ==
  /\ ~crashed
  /\ Here = "fn" /\ Len(scopes["fn"]) = 2
  /\ scopes' = [scopes EXCEPT !["fn"] = SubSeq(@, 1, 1)]
  /\ declared' = [declared EXCEPT !["fn"] = SubSeq(@, 1, 1)]
  /\ UNCHANGED <<ptrs, heap, crashed>>

Next ==
  \/ \E x \in Vars, t \in Type : Declare(x, t)
  \/ \E x \in Vars, t \in Type, e \in Exprs : DeclareInit(x, t, e)
  \/ \E x \in Vars, e \in Exprs : Assign(x, e)
  \/ \E a \in Members, e \in Exprs : MemberAssign(a, e)
  \/ Crash
  \/ EnterLoop \/ LeaveLoop
  \/ Call \/ Return
  \/ \E x \in Vars, t \in Type, e \in Exprs : CallWith(x, t, e)

Spec == Init /\ [][Next]_vars

(***************************************************************************)
(* Properties                                                              *)
(***************************************************************************)

Depth == 1 .. 2 + MaxLoops

(* The outermost Scopes stay, and main's block until the program ends: each  *)
(* pop of a chain meets its push.                                            *)
TypeOK ==
  /\ \A c \in Chain :
       /\ Len(scopes[c]) \in Depth /\ Len(ptrs[c]) \in Depth
       /\ Len(declared[c]) = Len(scopes[c])
       /\ \A i \in 1 .. Len(scopes[c]) :
            /\ DOMAIN scopes[c][i] \subseteq Vars
            /\ DOMAIN declared[c][i] = DOMAIN scopes[c][i]
       /\ \A i \in 1 .. Len(ptrs[c]) : DOMAIN ptrs[c][i] \subseteq Vars
  /\ Len(scopes["main"]) > 1
  /\ Len(heap) <= MaxObjects
  /\ crashed \in BOOLEAN

(* The LSRScope that belongs to a Scope: a call has none of its own.         *)
Beside(c, i) == IF c = "fn" /\ i > 1 THEN i - 1 ELSE i

(* What LSRScope::resolve finds from there.                                  *)
Reference(c, i, x) ==
  LET j == Innermost(SubSeq(ptrs[c], 1, Beside(c, i)), x)
  IN  IF j = 0 THEN 0 ELSE ptrs[c][j][x]

(* A variable of class type, shadowed or not, has its reference in the       *)
(* LSRScope that belongs to its Scope, so that the two searches, each        *)
(* innermost first, end at the same declaration.                             *)
ChainsInStep ==
  \A c \in Chain : \A i \in 1 .. Len(scopes[c]) : \A x \in DOMAIN scopes[c][i] :
    IsClass(scopes[c][i][x]) => /\ Beside(c, i) \in 1 .. Len(ptrs[c])
                                /\ x \in DOMAIN ptrs[c][Beside(c, i)]

(* A reference, in an LSRScope beside a Scope or in an object, is NULL or an  *)
(* object of the class the variable or the member was declared with: the     *)
(* collector follows it, and a member access counts words from it, without   *)
(* asking what it refers to.                                                 *)
ReferencesTyped ==
  LET Fits(ref, t) == ref = 0 \/ (ref \in 1 .. Len(heap) /\ heap[ref].class = t)
  IN  /\ \A c \in Chain : \A i \in 1 .. Len(scopes[c]) : \A x \in DOMAIN scopes[c][i] :
           IsClass(scopes[c][i][x]) => Fits(Reference(c, i, x), declared[c][i][x])
      /\ \A o \in 1 .. Len(heap) : \A k \in References(heap[o].class) :
           Fits(heap[o].words[k], Fields[heap[o].class][k].type)

(* A variable keeps the type it was declared with, whichever evaluator       *)
(* assigns to it.                                                            *)
TypesKept ==
  \A c \in Chain : \A i \in 1 .. Len(scopes[c]) : \A x \in DOMAIN scopes[c][i] :
    scopes[c][i][x].type = declared[c][i][x]

(* The variables as the language sees them. *)
Frames ==
  [c \in Chain |-> [i \in 1 .. Len(scopes[c]) |-> [x \in DOMAIN scopes[c][i] |->
     IF IsClass(scopes[c][i][x])
     THEN [scopes[c][i][x] EXCEPT !.val = Reference(c, i, x)]
     ELSE scopes[c][i][x]]]]

Meant == INSTANCE Language WITH frames <- Frames, ended <- crashed

(* The interpreter implements the language: variables are lexically scoped,  *)
(* a function sees none of main's, and memory is what a program made it.     *)
Implements == Meant!Spec

(* Each statement means the same in both evaluators: what the language says  *)
(* of that statement, objects being references ("if you do a = b then        *)
(* b.lhs = 5 a.lhs will also now be 5").                                     *)
Means ==
  /\ \A x \in Vars, t \in Type :
       /\ Declare(x, t) => Meant!Declare(x, t)
       /\ \A e \in Exprs : DeclareInit(x, t, e) => Meant!DeclareInit(x, t, e)
       /\ \A e \in Exprs : CallWith(x, t, e) => Meant!CallWith(x, t, e)
  /\ \A x \in Vars, e \in Exprs : Assign(x, e) => Meant!Assign(x, e)
  /\ \A a \in Members, e \in Exprs : MemberAssign(a, e) => Meant!SetMember(a, e)
  /\ EnterLoop => Meant!Open
  /\ LeaveLoop \/ Return => Meant!Close
  /\ Call => Meant!Call
  /\ Crash => Meant!Fail

Faithful == [][Means]_vars
=============================================================================
