------------------------------ MODULE Classes ------------------------------
(***************************************************************************)
(* LSR's classes, objects, values and expressions, as the modules Language *)
(* and Interpreter need them.  An object is named by its position in the   *)
(* heap, which stands still here: what a collection does to addresses is   *)
(* the business of module Collector.  What strings contain is left out.    *)
(***************************************************************************)
EXTENDS Integers, Sequences, FiniteSets

CONSTANTS
  Vars,      \* names of variables
  Fields,    \* of each class its members, records of name and type, in the
             \* order of std::map
  Ints,      \* integer literals
  Basic,     \* the types that are not classes a program uses
  Paths      \* the member names after the variable in a member access

Class == DOMAIN Fields
Type == Basic \cup Class
Chain == {"main", "fn"}

(* Members are of type int or of a class: cvartype in the grammar.           *)
ASSUME ClassesAssumption ==
  /\ {"int", "str", "text", "none"} \cap Class = {} /\ Basic \subseteq {"int", "str"}
  /\ \A t \in Class : /\ Len(Fields[t]) \in Nat
                      /\ \A k \in 1 .. Len(Fields[t]) : Fields[t][k].type \in {"int"} \cup Class
  /\ Ints \subseteq Nat
  /\ \A p \in Paths : Len(p) \in Nat \ {0}

Put(f, x, v) == [y \in DOMAIN f \cup {x} |-> IF y = x THEN v ELSE f[y]]

(* The innermost of some nested frames that has x, 0 if none does.           *)
Innermost(frames, x) ==
  IF \E i \in 1 .. Len(frames) : x \in DOMAIN frames[i]
  THEN CHOOSE i \in 1 .. Len(frames) :
         x \in DOMAIN frames[i] /\ \A j \in i + 1 .. Len(frames) : x \notin DOMAIN frames[j]
  ELSE 0

(***************************************************************************)
(* Objects                                                                 *)
(***************************************************************************)

(* The word of an object of class t that a member is kept in.                *)
Index(t, m) == CHOOSE k \in 1 .. Len(Fields[t]) : Fields[t][k].name = m

Has(t, m) == t \in Class /\ \E k \in 1 .. Len(Fields[t]) : Fields[t][k].name = m

MemberType(t, m) == IF Has(t, m) THEN Fields[t][Index(t, m)].type ELSE "none"

Blank(t) == [class |-> t, words |-> [k \in 1 .. Len(Fields[t]) |-> 0]]

(* The words of class t that hold references, and how many come before k.    *)
References(t) == {k \in 1 .. Len(Fields[t]) : Fields[t][k].type \in Class}
Before(t, k) == Cardinality({j \in References(t) : j < k})

(* A declaration makes an object and one for each of its members of a class; *)
(* the members of those are NULL.                                            *)
Create(heap, t) ==
  LET n == Len(heap) + 1
      whole == [Blank(t) EXCEPT !.words =
                  [k \in DOMAIN @ |-> IF k \in References(t) THEN n + Before(t, k) + 1 ELSE 0]]
      part == [i \in 1 .. Cardinality(References(t)) |->
                 Blank(Fields[t][CHOOSE k \in References(t) : Before(t, k) = i - 1].type)]
  IN  heap \o <<whole>> \o part

(* The heap after a declaration of type t.                                   *)
Grown(heap, t) == IF t \in Class THEN Create(heap, t) ELSE heap

(* The object the last member of path is in, starting from the object ref,   *)
(* 0 if NULL is met on the way.                                              *)
Owner(heap, ref, path) ==
  LET o[k \in 1 .. Len(path)] ==
        IF k = 1 THEN ref
        ELSE IF o[k - 1] = 0 THEN 0
        ELSE heap[o[k - 1]].words[Index(heap[o[k - 1]].class, path[k - 1])]
  IN  o[Len(path)]

Cell(heap, ref, path) ==
  LET o == Owner(heap, ref, path)
  IN  heap[o].words[Index(heap[o].class, path[Len(path)])]

SetCell(heap, ref, path, v) ==
  LET o == Owner(heap, ref, path)
  IN  [heap EXCEPT ![o].words[Index(heap[o].class, path[Len(path)])] = v]

(***************************************************************************)
(* Values and expressions                                                  *)
(***************************************************************************)

IntVal(n) == [type |-> "int", val |-> n]
StrVal == [type |-> "str", val |-> 0]

(* Variables, member accesses, literals, and sums with a literal.            *)
Literals ==
  [op : {"literal"},
   value : {v \in {IntVal(n) : n \in Ints} \cup {StrVal} : v.type \in Basic}]
Members == [op : {"member"}, x : Vars, path : Paths]
Atoms == [op : {"var"}, x : Vars] \cup Members \cup Literals
Exprs == Atoms \cup [op : {"plus"}, l : Atoms, r : Literals]

(* Types where each variable x has type types[x], "none" if there is none.   *)
PathType(t, path) ==
  LET w[k \in 0 .. Len(path)] == IF k = 0 THEN t ELSE MemberType(w[k - 1], path[k])
  IN  w[Len(path)]

AtomType(a, types) ==
  CASE a.op = "literal" -> a.value.type
    [] a.op = "var"     -> IF a.x \in DOMAIN types THEN types[a.x] ELSE "none"
    [] a.op = "member"  -> IF a.x \in DOMAIN types /\ types[a.x] \in Class
                           THEN PathType(types[a.x], a.path) ELSE "none"

TypeOf(e, types) ==
  IF e.op # "plus" THEN AtomType(e, types)
  ELSE IF AtomType(e.l, types) = AtomType(e.r, types)
          /\ AtomType(e.l, types) \in {"int", "str"}
       THEN AtomType(e.l, types) ELSE "none"

(* The member accesses of an expression.                                     *)
Accesses(e) ==
  {a \in (IF e.op = "plus" THEN {e.l, e.r} ELSE {e}) : a.op = "member"}
=============================================================================
