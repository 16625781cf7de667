--------------------------- MODULE LanguageProofs ---------------------------
(***************************************************************************)
(* That the interpreter implements the language, for every set of classes  *)
(* and every program that is Plain.  What the language sees of the two     *)
(* chains (Frames) is, in every state the interpreter reaches, the view    *)
(* InterpreterProofs follows through each step, so that each statement can *)
(* be compared with what the language says of it.                          *)
(***************************************************************************)
EXTENDS InterpreterProofs

(***************************************************************************)
(* The language speaks of the same classes, objects and expressions        *)
(***************************************************************************)

(* The same frame is found for a name.                                     *)
LEMMA SameInnermost ==
  ASSUME NEW fs, NEW x PROVE Meant!Innermost(fs, x) = Innermost(fs, x)
BY DEF Meant!Innermost, Innermost

(* A frame gets the same value.                                            *)
LEMMA SamePut ==
  ASSUME NEW f, NEW x, NEW v PROVE Meant!Put(f, x, v) = Put(f, x, v)
BY DEF Meant!Put, Put

(* The same classes, types, chains and expressions.                        *)
LEMMA SameKinds ==
  /\ Meant!Class = Class /\ Meant!Type = Type /\ Meant!Chain = Chain
  /\ Meant!Members = Members /\ Meant!Exprs = Exprs
BY DEF Meant!Class, Class, Meant!Type, Type, Meant!Chain, Chain, Meant!Members, Members,
       Meant!Exprs, Exprs, Meant!Atoms, Atoms, Meant!Literals, Literals,
       Meant!IntVal, IntVal, Meant!StrVal, StrVal

(* The same members of a class are references.                             *)
LEMMA SameReferences ==
  ASSUME NEW t PROVE Meant!References(t) = References(t)
BY SameKinds DEF Meant!References, References

(* There are as many of them.                                              *)
LEMMA SameCardinality ==
  ASSUME NEW S PROVE Meant!Cardinality(S) = Cardinality(S)
BY DEF Meant!Cardinality, Cardinality

(* As many of them come before a member.                                   *)
LEMMA SameBefore ==
  ASSUME NEW t, NEW k PROVE Meant!Before(t, k) = Before(t, k)
BY SameReferences, SameCardinality DEF Meant!Before, Before

(* A new object has the same words.                                        *)
LEMMA SameBlank ==
  ASSUME NEW t PROVE Meant!Blank(t) = Blank(t)
BY DEF Meant!Blank, Blank

(* A declaration makes the same objects.                                   *)
LEMMA SameGrown ==
  ASSUME NEW h, NEW t PROVE Meant!Grown(h, t) = Grown(h, t)
<1>1. Meant!Create(h, t) = Create(h, t)
  <2> DEFINE R == References(t)
             C == Cardinality(R)
  <2>1. /\ Meant!References(t) = R /\ Meant!Blank(t) = Blank(t)
        /\ \A k : Meant!Before(t, k) = Before(t, k)
        /\ Meant!Cardinality(R) = C
        /\ \A u : Meant!Blank(u) = Blank(u)
    BY SameReferences, SameBefore, SameBlank, SameCardinality
  <2> HIDE DEF R, C
  <2> DEFINE n == Len(h) + 1
             whole1 == [Meant!Blank(t) EXCEPT !.words =
                          [k \in DOMAIN @ |-> IF k \in Meant!References(t)
                                              THEN n + Meant!Before(t, k) + 1 ELSE 0]]
             whole2 == [Blank(t) EXCEPT !.words =
                          [k \in DOMAIN @ |-> IF k \in R THEN n + Before(t, k) + 1 ELSE 0]]
             part1 == [i \in 1 .. Meant!Cardinality(Meant!References(t)) |->
                         Meant!Blank(Fields[t][CHOOSE k \in Meant!References(t) :
                                                 Meant!Before(t, k) = i - 1].type)]
             part2 == [i \in 1 .. C |->
                         Blank(Fields[t][CHOOSE k \in R : Before(t, k) = i - 1].type)]
  <2>2. whole1 = whole2
    BY <2>1
  <2>3. part1 = part2
    <3>1. ASSUME NEW i
          PROVE  Meant!Blank(Fields[t][CHOOSE k \in Meant!References(t) :
                                         Meant!Before(t, k) = i - 1].type)
                   = Blank(Fields[t][CHOOSE k \in R : Before(t, k) = i - 1].type)
      <4>1. (CHOOSE k \in Meant!References(t) : Meant!Before(t, k) = i - 1)
              = (CHOOSE k \in R : Before(t, k) = i - 1)
        BY <2>1
      <4> QED
        BY <2>1, <4>1
    <3>2. Meant!Cardinality(Meant!References(t)) = C
      BY <2>1
    <3> QED
      BY <3>1, <3>2
  <2>4. Meant!Create(h, t) = h \o <<whole1>> \o part1
    BY DEF Meant!Create
  <2>5. Create(h, t) = h \o <<whole2>> \o part2
    BY DEF Create, R, C
  <2> QED
    BY <2>2, <2>3, <2>4, <2>5
<1> QED
  BY <1>1, SameKinds DEF Meant!Grown, Grown

(* A path leads to the same object.                                        *)
LEMMA SameOwner ==
  ASSUME NEW h, NEW r, NEW p PROVE Meant!Owner(h, r, p) = Owner(h, r, p)
BY DEF Meant!Owner, Owner, Meant!Index, Index

(* The same word is read and written.                                      *)
LEMMA SameCell ==
  ASSUME NEW h, NEW r, NEW p, NEW v
  PROVE  Meant!Cell(h, r, p) = Cell(h, r, p) /\ Meant!SetCell(h, r, p, v) = SetCell(h, r, p, v)
BY SameOwner DEF Meant!Cell, Cell, Meant!SetCell, SetCell, Meant!Index, Index

(* Expressions have the same types and accesses.                           *)
LEMMA SameTypes ==
  ASSUME NEW e, NEW types
  PROVE  /\ Meant!AtomType(e, types) = AtomType(e, types)
         /\ Meant!TypeOf(e, types) = TypeOf(e, types) /\ Meant!Accesses(e) = Accesses(e)
BY DEF Meant!TypeOf, TypeOf, Meant!AtomType, AtomType, Meant!PathType, PathType,
       Meant!MemberType, MemberType, Meant!Has, Has, Meant!Index, Index, Meant!Class, Class,
       Meant!Accesses, Accesses

(***************************************************************************)
(* The frames are the view                                                 *)
(***************************************************************************)

(* The reference found from a frame, innermost first.                      *)
From(b, c, i, x) ==
  LET j == Innermost(SubSeq(b.ptrs[c], 1, Beside(c, i)), x)
  IN  IF j = 0 THEN 0 ELSE b.ptrs[c][j][x]

(* Frames, of any chains.                                                  *)
FramesOf(b) ==
  [c \in Chain |-> [i \in 1 .. Len(b.scopes[c]) |-> [x \in DOMAIN b.scopes[c][i] |->
     IF IsClass(b.scopes[c][i][x])
     THEN [b.scopes[c][i][x] EXCEPT !.val = From(b, c, i, x)]
     ELSE b.scopes[c][i][x]]]]

(* Frames is that of both chains, before a step and after it.              *)
LEMMA FramesBoth == Frames = FramesOf(Both) /\ Frames' = FramesOf(Both')
BY DEF Frames, FramesOf, Both, Reference, From

(* In chains that match, it is the reference of the frame itself.          *)
LEMMA FromIs ==
  ASSUME NEW b, NEW d, NEW h, Good(b, d, h), NEW c \in Chain,
         NEW i \in 1 .. Len(b.scopes[c]), NEW x \in DOMAIN b.ptrs[c][Beside(c, i)]
  PROVE  From(b, c, i, x) = b.ptrs[c][Beside(c, i)][x]
<1> DEFINE p == b.ptrs[c]
           m == Beside(c, i)
           cut == SubSeq(p, 1, m)
<1>1. /\ IsSeq(p) /\ Len(p) = Beside(c, Len(b.scopes[c])) /\ Len(b.scopes[c]) \in Nat
      /\ x \in DOMAIN p[m]
  BY DEF Good, Lengths, IsChains, IsSeq
<1>2. m \in 1 .. Len(p) /\ m \in 0 .. Len(p) /\ m \in 1 .. m /\ m \in Nat
  BY <1>1 DEF Beside
<1> HIDE DEF m, p
<1>3. Len(cut) = m /\ cut[m] = p[m]
  BY <1>1, <1>2, Cutting
<1> HIDE DEF cut
<1>4. \A j \in m + 1 .. Len(cut) : x \notin DOMAIN cut[j]
  BY <1>2, <1>3
<1>5. m \in 1 .. Len(cut) /\ Len(cut) \in Nat /\ x \in DOMAIN cut[m]
  BY <1>1, <1>2, <1>3
<1>6. Innermost(cut, x) = m
  BY <1>4, <1>5, InnermostIs
<1> QED
  BY <1>2, <1>6 DEF From, cut, m, p

(* The refinement mapping's search finds what the view has.                *)
LEMMA FramesView ==
  ASSUME NEW b, NEW d, NEW h, Good(b, d, h)
  PROVE  FramesOf(b) = View(b, d)
<1>1. ASSUME NEW c \in Chain, NEW i \in 1 .. Len(b.scopes[c]), NEW x \in DOMAIN b.scopes[c][i]
      PROVE  (IF IsClass(b.scopes[c][i][x])
              THEN [b.scopes[c][i][x] EXCEPT !.val = From(b, c, i, x)]
              ELSE b.scopes[c][i][x])
              = ViewOf(b.scopes[c][i], b.ptrs[c][Beside(c, i)], d[c][i])[x]
  <2> DEFINE s == b.scopes[c][i]
             f == d[c][i]
             p == b.ptrs[c][Beside(c, i)]
             r == From(b, c, i, x)
  <2>1. /\ s[x] = [type |-> f[x], val |-> s[x].val] /\ f[x] \in Type
        /\ f[x] \in Class => x \in DOMAIN p
    BY DEF Good, Matched
  <2>2. x \in DOMAIN p => r = p[x]
    BY FromIs
  <2>3. ViewOf(s, p, f)[x] = IF f[x] \in Class THEN [type |-> f[x], val |-> p[x]] ELSE s[x]
    BY DEF ViewOf
  <2> HIDE DEF s, f, p, r
  <2>4. IsClass(s[x]) <=> f[x] \in Class
    BY <2>1, Classy
  <2>5. [s[x] EXCEPT !.val = r] = [type |-> f[x], val |-> r]
    BY <2>1
  <2>6. (IF IsClass(s[x]) THEN [s[x] EXCEPT !.val = r] ELSE s[x]) = ViewOf(s, p, f)[x]
    BY <2>1, <2>2, <2>3, <2>4, <2>5
  <2> QED
    BY <2>6 DEF s, f, p, r
<1>2. \A c \in Chain : \A i \in 1 .. Len(b.scopes[c]) :
        /\ FramesOf(b)[c][i] = ViewOf(b.scopes[c][i], b.ptrs[c][Beside(c, i)], d[c][i])
  <2> SUFFICES ASSUME NEW c \in Chain, NEW i \in 1 .. Len(b.scopes[c])
               PROVE  FramesOf(b)[c][i] = ViewOf(b.scopes[c][i], b.ptrs[c][Beside(c, i)], d[c][i])
    OBVIOUS
  <2> DEFINE w == ViewOf(b.scopes[c][i], b.ptrs[c][Beside(c, i)], d[c][i])
  <2>1. w = [x \in DOMAIN b.scopes[c][i] |-> w[x]]
    BY DEF ViewOf
  <2> HIDE DEF w
  <2>2. FramesOf(b)[c][i] = [x \in DOMAIN b.scopes[c][i] |-> w[x]]
    BY <1>1 DEF FramesOf, w
  <2> QED
    BY <2>1, <2>2 DEF w
<1> QED
  BY <1>2 DEF FramesOf, View

(* Before a step, and after it.                                            *)
LEMMA Seen ==
  ASSUME IInv
  PROVE  Frames = View(Both, declared) /\ (IInv' => Frames' = View(Both', declared'))
<1>1. Good(Both, declared, heap) /\ (IInv' => Good(Both', declared', heap'))
  BY DEF IInv
<1> QED
  BY <1>1, FramesBoth, FramesView

(***************************************************************************)
(* Names and values                                                        *)
(***************************************************************************)

(* A search sees the names only.                                           *)
LEMMA NamesAlone ==
  ASSUME NEW f, NEW g, NEW x, Len(f) \in Nat, Len(g) = Len(f),
         \A i \in 1 .. Len(f) : DOMAIN g[i] = DOMAIN f[i]
  PROVE  Innermost(g, x) = Innermost(f, x)
<1> DEFINE i == Innermost(f, x)
<1>1. CASE i = 0 /\ \A j \in 1 .. Len(f) : x \notin DOMAIN f[j]
  BY <1>1, InnermostHas
<1>2. CASE i \in 1 .. Len(f) /\ x \in DOMAIN f[i] /\ \A j \in i + 1 .. Len(f) : x \notin DOMAIN f[j]
  <2> HIDE DEF i
  <2>1. /\ i \in 1 .. Len(g) /\ Len(g) \in Nat /\ x \in DOMAIN g[i]
        /\ \A j \in i + 1 .. Len(g) : j \in 1 .. Len(f)
    BY <1>2
  <2>2. \A j \in i + 1 .. Len(g) : x \notin DOMAIN g[j]
    BY <1>2, <2>1
  <2>3. Innermost(g, x) = i
    BY <2>1, <2>2, InnermostIs
  <2> QED
    BY <2>3 DEF i
<1> QED
  BY <1>1, <1>2, InnermostHas

(* The frames of the chains, their names in their places.                  *)
LEMMA FramesAre ==
  ASSUME IInv, NEW c \in Chain
  PROVE  /\ Len(Frames[c]) = Len(scopes[c]) /\ Len(Frames[c]) \in Nat
         /\ \A i \in 1 .. Len(scopes[c]) :
              /\ Frames[c][i] = ViewOf(scopes[c][i], ptrs[c][Beside(c, i)], declared[c][i])
              /\ DOMAIN Frames[c][i] = DOMAIN scopes[c][i]
         /\ \A x : Innermost(Frames[c], x) = Innermost(scopes[c], x)
<1>1. Good(Both, declared, heap) /\ Frames = View(Both, declared)
  BY Seen DEF IInv
<1>2. /\ Len(Frames[c]) = Len(scopes[c]) /\ Len(scopes[c]) \in Nat
      /\ \A i \in 1 .. Len(scopes[c]) :
           /\ Frames[c][i] = ViewOf(scopes[c][i], ptrs[c][Beside(c, i)], declared[c][i])
           /\ DOMAIN Frames[c][i] = DOMAIN scopes[c][i]
  <2> DEFINE b == Both
             V == View(b, declared)
  <2>1. /\ Good(b, declared, heap) /\ Frames = V /\ IsSeq(b.scopes[c])
        /\ b.scopes = scopes /\ b.ptrs = ptrs
    BY <1>1, BothIs DEF Good, IsChains
  <2> HIDE DEF b
  <2>2. /\ Len(V[c]) = Len(b.scopes[c])
        /\ \A i \in 1 .. Len(b.scopes[c]) :
             /\ V[c][i] = ViewOf(b.scopes[c][i], b.ptrs[c][Beside(c, i)], declared[c][i])
             /\ DOMAIN V[c][i] = DOMAIN b.scopes[c][i]
    BY <2>1, ViewIs
  <2> HIDE DEF V
  <2> QED
    BY <2>1, <2>2 DEF IsSeq
<1> QED
  BY <1>2, NamesAlone

(* A function runs, and has as many frames, for both.                      *)
LEMMA MeantHere ==
  ASSUME IInv
  PROVE  Meant!Here = Here /\ Meant!Inner = Len(scopes[Here])
<1>1. "fn" \in Chain /\ Here \in Chain
  BY HereIs DEF Chain
<1>2. Len(Frames["fn"]) = Len(scopes["fn"]) /\ Len(Frames[Here]) = Len(scopes[Here])
  BY <1>1, FramesAre
<1>3. Meant!Here = Here
  BY <1>2 DEF Meant!Here, Here
<1> QED
  BY <1>2, <1>3 DEF Meant!Inner

(* Scope::resolve and the language agree on the value of a variable.       *)
LEMMA MeantValue ==
  ASSUME IInv, NEW x \in DOMAIN Types PROVE Meant!Value(x) = Resolve(x)
<1> DEFINE c == Here
           i == Innermost(scopes[c], x)
           s == scopes[c][i]
           p == ptrs[c][Beside(c, i)]
           d == declared[c][i]
<1>1. Good(Both, declared, heap) /\ c \in Chain
  BY HereIs DEF IInv
<1>2. /\ i # 0 /\ Innermost(declared[c], x) = i /\ Types[x] = d[x] /\ Types[x] \in Type
      /\ Resolve(x) = [type |-> Types[x], val |-> Resolve(x).val]
      /\ Types[x] \in Class => Resolve(x).val = Pointer(x)
  BY Resolved
<1>3. /\ i \in 1 .. Len(scopes[c]) /\ x \in DOMAIN s
      /\ Beside(c, i) \in 1 .. Len(ptrs[c])
      /\ d[x] \in Class => Innermost(ptrs[c], x) = Beside(c, i)
  BY <1>1, <1>2, BothIs, SameFrame
<1>4. Matched(s, p, d, heap)
  BY <1>1, <1>3, BothIs DEF Good
<1>5. Meant!Value(x) = ViewOf(s, p, d)[x]
  BY <1>1, <1>3, MeantHere, FramesAre, SameInnermost DEF Meant!Value
<1>6. ViewOf(s, p, d)[x] = IF d[x] \in Class THEN [type |-> d[x], val |-> p[x]] ELSE s[x]
  BY <1>3 DEF ViewOf
<1>7. Types[x] \in Class => Pointer(x) = p[x]
  BY <1>2, <1>3 DEF Pointer
<1>8. Resolve(x) = IF IsClass(s[x]) THEN [s[x] EXCEPT !.val = Pointer(x)] ELSE s[x]
  BY <1>2 DEF Resolve
<1>9. s[x] = [type |-> d[x], val |-> s[x].val]
  BY <1>3, <1>4 DEF Matched
<1> HIDE DEF s, p, d, i, c
<1>10. IsClass(s[x]) <=> Types[x] \in Class
  BY <1>2, <1>9, Classy
<1> QED
  BY <1>2, <1>5, <1>6, <1>7, <1>8, <1>10

(* The same variables are visible, with the same types.                    *)
LEMMA MeantTypes ==
  ASSUME IInv PROVE Meant!Types = Types /\ Meant!Visible = DOMAIN Types
<1>1. Good(Both, declared, heap) /\ Here \in Chain
  BY HereIs DEF IInv
<1>2. \A x : Innermost(declared[Here], x) = Innermost(scopes[Here], x)
  BY <1>1, BothIs, SameNames
<1>3. Meant!Visible = DOMAIN Types
  BY <1>1, <1>2, MeantHere, FramesAre, SameInnermost DEF Meant!Visible, Types
<1>4. \A x \in DOMAIN Types : Meant!Value(x).type = Types[x]
  <2> SUFFICES ASSUME NEW x \in DOMAIN Types PROVE Meant!Value(x).type = Types[x]
    OBVIOUS
  <2>1. Meant!Value(x) = [type |-> Types[x], val |-> Resolve(x).val]
    BY MeantValue, Resolved
  <2> QED
    BY <2>1
<1>5. Types = [x \in DOMAIN Types |-> Types[x]]
  BY DEF Types
<1> QED
  BY <1>3, <1>4, <1>5 DEF Meant!Types

(* A member access through a variable of class type.                       *)
LEMMA MeantMember ==
  ASSUME IInv, NEW a, a.op = "member", AtomType(a, Types) # "none"
  PROVE  /\ Meant!AtomType(a, Meant!Types) = AtomType(a, Types)
         /\ Meant!Value(a.x).val = Pointer(a.x)
         /\ Meant!Dangles(a) <=> Dangles(a)
         /\ a.x \in DOMAIN Types /\ Types[a.x] \in Class
<1>1. a.x \in DOMAIN Types /\ Types[a.x] \in Class
  BY DEF AtomType
<1>2. Meant!Value(a.x).val = Pointer(a.x)
  BY <1>1, MeantValue, Resolved
<1>3. Meant!Dangles(a) <=> Dangles(a)
  BY <1>2, SameOwner DEF Meant!Dangles, Dangles
<1> QED
  BY <1>1, <1>2, <1>3, MeantTypes, SameTypes

(* What is evaluated of an atom is its meaning.                            *)
LEMMA MeantAtom ==
  ASSUME IInv, NEW a \in Atoms, AtomType(a, Types) # "none"
  PROVE  Meant!MeaningOfAtom(a) = Atom(a)
<1>1. CASE a.op = "literal"
  BY <1>1 DEF Meant!MeaningOfAtom, Atom
<1>2. CASE a.op = "var"
  <2>1. a.x \in DOMAIN Types
    BY <1>2 DEF AtomType
  <2> QED
    BY <1>2, <2>1, MeantValue DEF Meant!MeaningOfAtom, Atom
<1>3. CASE a.op = "member"
  <2>1. /\ Meant!AtomType(a, Meant!Types) = AtomType(a, Types)
        /\ Meant!Value(a.x).val = Pointer(a.x)
        /\ a.x \in DOMAIN Types /\ Types[a.x] \in Class
    BY <1>3, MeantMember
  <2>2. Meant!MeaningOfAtom(a)
          = [type |-> AtomType(a, Types), val |-> Cell(heap, Pointer(a.x), a.path)]
    BY <1>3, <2>1, SameCell DEF Meant!MeaningOfAtom
  <2>3. Resolve(a.x).type = Types[a.x] /\ Types[a.x] \in Type
    BY <2>1, Resolved
  <2>4. IsClass(Resolve(a.x))
    BY <2>1, <2>3, Classy
  <2>5. Atom(a) = [type |-> PathType(Types[a.x], a.path), val |-> Cell(heap, Pointer(a.x), a.path)]
    BY <1>3, <2>3, <2>4 DEF Atom, ResolveMembers
  <2>6. AtomType(a, Types) = PathType(Types[a.x], a.path)
    BY <1>3, <2>1 DEF AtomType
  <2> QED
    BY <2>2, <2>5, <2>6
<1>4. a.op \in {"literal", "var", "member"}
  BY DEF Atoms, Members, Literals
<1> QED
  BY <1>1, <1>2, <1>3, <1>4

(* The accesses of a typed expression are typed.                           *)
LEMMA AccessTyped ==
  ASSUME NEW e \in Exprs, TypeOf(e, Types) # "none", NEW a \in Accesses(e)
  PROVE  a.op = "member" /\ AtomType(a, Types) # "none"
BY DEF Accesses, TypeOf

(* What a program may use here is what the language lets it use.           *)
LEMMA MeantOf ==
  ASSUME IInv, NEW t, t # "none", NEW e \in Usable(t)
  PROVE  e \in Meant!Of(t)
<1>1. e \in Exprs /\ TypeOf(e, Types) = t /\ \A a \in Accesses(e) : ~Dangles(a)
  BY DEF Usable
<1>2. \A a \in Accesses(e) : ~Meant!Dangles(a)
  BY <1>1, AccessTyped, MeantMember
<1>3. Meant!TypeOf(e, Meant!Types) = t /\ Meant!Accesses(e) = Accesses(e) /\ e \in Meant!Exprs
  BY <1>1, MeantTypes, SameTypes, SameKinds
<1> QED
  BY <1>2, <1>3 DEF Meant!Of

(* What is evaluated of an expression, at once or as a node, is its        *)
(* meaning.                                                                *)
LEMMA MeantMeaning ==
  ASSUME IInv, Plain, NEW t, t # "none", NEW e \in Usable(t), NEW v \in Values(e)
  PROVE  Meant!Meaning(e) = v
<1>1. /\ e \in Exprs /\ TypeOf(e, Types) = t /\ \A a \in Accesses(e) : ~Dangles(a)
      /\ (e.op = "plus" /\ t = "str" => StringSums)
      /\ (e.op = "member" /\ t \in Class /\ Deferred => DeferredReads)
  BY DEF Usable
<1>2. CASE e.op # "plus"
  <2>1. e \in Atoms /\ AtomType(e, Types) = t
    BY <1>1, <1>2 DEF Exprs, TypeOf
  <2>2. Meant!Meaning(e) = Atom(e)
    BY <1>2, <2>1, MeantAtom DEF Meant!Meaning
  <2>3. CASE Deferred
    <3>1. v = Executed(e)
      BY <1>2, <2>3 DEF Values, NodeValues
    <3>2. ~(e.op = "member" /\ IsClass(Atom(e)))
      <4>1. ASSUME e.op = "member" PROVE t = "int"
        <5>1. t \notin Class
          BY <1>1, <2>3, <4>1 DEF Plain
        <5>2. e.path \in Paths
          BY <2>1, <4>1 DEF Atoms, Members, Literals
        <5>3. \E u : t = PathType(u, e.path)
          BY <2>1, <4>1 DEF AtomType
        <5> QED
          BY <5>1, <5>2, <5>3, MemberTypes
      <4>2. e.op = "member" => ~Dangles(e)
        BY <1>1, <1>2 DEF Accesses
      <4>3. HasType(Atom(e), t)
        BY <2>1, <4>2, AtomTyped
      <4> QED
        BY <4>1, <4>3 DEF HasType, IsClass
    <3> QED
      BY <2>2, <3>1, <3>2 DEF Executed
  <2>4. CASE ~Deferred
    BY <1>2, <2>2, <2>4 DEF Values, Immediate
  <2> QED
    BY <2>3, <2>4
<1>3. CASE e.op = "plus"
  <2>1. /\ e.l \in Atoms /\ e.r \in Literals /\ t = AtomType(e.l, Types) /\ t \in {"int", "str"}
        /\ AtomType(e.l, Types) # "none"
    BY <1>1, <1>3 DEF Exprs, Atoms, Members, Literals, TypeOf
  <2>2. t = "int"
    BY <1>1, <1>3, <2>1 DEF Plain
  <2>3. e.l.op = "member" => ~Dangles(e.l)
    BY <1>1, <1>3 DEF Accesses
  <2>4. Atom(e.l) = [type |-> "int", val |-> Atom(e.l).val]
    BY <2>1, <2>2, <2>3, AtomTyped DEF HasType
  <2>5. Meant!MeaningOfAtom(e.l) = Atom(e.l) /\ Meant!MeaningOfAtom(e.r) = e.r.value
    BY <2>1, MeantAtom DEF Meant!MeaningOfAtom, Literals
  <2> DEFINE a == Atom(e.l)
             n == e.r.value.val
  <2>6. Meant!Meaning(e) = [a EXCEPT !.val = @ + n]
    BY <1>3, <2>5 DEF Meant!Meaning
  <2>7. v = IntVal(a.val + n)
    BY <1>3, <2>4 DEF Values, NodeValues, Immediate
  <2> HIDE DEF a, n
  <2>8. [a EXCEPT !.val = @ + n] = [type |-> "int", val |-> a.val + n]
    BY <2>4 DEF a
  <2> QED
    BY <2>6, <2>7, <2>8 DEF IntVal
<1> QED
  BY <1>2, <1>3

(***************************************************************************)
(* The statements                                                          *)
(***************************************************************************)

(* x is new, and all that changes of the frames is that it has a value.    *)
LEMMA NewMeant ==
  ASSUME IInv, IInv', NEW x, NEW t, NEW v, New(x), Shows(Here, Len(scopes[Here]), x, v),
         heap' = Grown(heap, t), UNCHANGED crashed
  PROVE  Meant!New(x, t, v)
<1> DEFINE c == Here
           n == Len(scopes[c])
           F == View(Both, declared)
           G == View(Both', declared')
<1>1. Frames = F /\ Frames' = G
  BY Seen
<1>2. G = [F EXCEPT ![c] = [@ EXCEPT ![n] = Put(F[c][n], x, v)]]
  BY DEF Shows, Sets, Changed
<1>3. c \in Chain /\ Meant!Here = c /\ Meant!Inner = n
  BY HereIs, MeantHere
<1>4. n \in 1 .. n
  BY <1>3, DeclaredBounds
<1>5. x \notin DOMAIN F[c][n]
  BY <1>1, <1>3, <1>4, FramesAre DEF New
<1> HIDE DEF c, n, F, G
<1>6. G = [F EXCEPT ![c][n] = Meant!Put(@, x, v)]
  BY <1>2, SamePut
<1>7. heap' = Meant!Grown(heap, t)
  BY SameGrown
<1> QED
  BY <1>1, <1>3, <1>5, <1>6, <1>7 DEF Meant!New

(* decl and deferdecl: x is new, with its initial value.                   *)
LEMMA DeclareMeant ==
  ASSUME IInv, NEW x \in Vars, NEW t \in Type, Declare(x, t)
  PROVE  Meant!Declare(x, t)
<1>1. IInv' /\ Shows(Here, Len(scopes[Here]), x, InitialOf(t))
  BY DeclareKeeps
<1>2. New(x) /\ heap' = Grown(heap, t) /\ UNCHANGED crashed
  BY DEF Declare
<1>3. Meant!Initial(t) = InitialOf(t)
  BY SameKinds DEF Meant!Initial, InitialOf
<1> QED
  BY <1>1, <1>2, <1>3, NewMeant DEF Meant!Declare

(* decl with an initial value: x is new, with that value.                  *)
LEMMA DeclareInitMeant ==
  ASSUME IInv, Plain, NEW x \in Vars, NEW t \in Type, NEW e \in Exprs, DeclareInit(x, t, e)
  PROVE  Meant!DeclareInit(x, t, e)
<1>1. IInv' /\ Shows(Here, Len(scopes[Here]), x, Immediate(e))
  BY DeclareInitKeeps
<1>2. /\ New(x) /\ heap' = Grown(heap, t) /\ UNCHANGED crashed
      /\ ~Deferred /\ e \in Usable(t) /\ t # "none"
  BY TypeSane DEF DeclareInit
<1>3. Immediate(e) \in Values(e)
  BY <1>2 DEF Values
<1>4. Meant!Meaning(e) = Immediate(e) /\ e \in Meant!Of(t)
  BY <1>2, <1>3, MeantMeaning, MeantOf
<1> QED
  BY <1>1, <1>2, <1>4, NewMeant DEF Meant!DeclareInit

(* assign and assignNode: the innermost x gets the value.                  *)
LEMMA AssignMeant ==
  ASSUME IInv, Plain, NEW x \in Vars, NEW e \in Exprs, Assign(x, e)
  PROVE  Meant!Assign(x, e)
<1> DEFINE c == Here
           i == Innermost(scopes[c], x)
           F == View(Both, declared)
           G == View(Both', declared')
           f == F[c][i]
<1>1. x \in DOMAIN Types /\ e \in Usable(Types[x]) /\ UNCHANGED <<heap, crashed>>
  BY DEF Assign
<1>2. PICK v \in Values(e) : IInv' /\ Shows(c, i, x, v)
  BY AssignKeeps
<1>3. i # 0 /\ Types[x] \in Type /\ Types[x] # "none" /\ c \in Chain
  BY <1>1, Resolved, TypeSane, HereIs
<1>4. Meant!Meaning(e) = v /\ e \in Meant!Of(Types[x])
  BY <1>1, <1>2, <1>3, MeantMeaning, MeantOf
<1>5. /\ Frames = F /\ Frames' = G /\ Meant!Here = c
      /\ Meant!Innermost(Frames[c], x) = i /\ Meant!Types = Types /\ x \in Meant!Visible
  BY <1>1, <1>2, <1>3, Seen, MeantHere, MeantTypes, FramesAre, SameInnermost
<1>6. G = [F EXCEPT ![c] = [@ EXCEPT ![i] = Put(f, x, v)]]
  BY <1>2 DEF Shows, Sets, Changed
<1>7. IsFrame(f) /\ x \in DOMAIN f
  <2>1. Good(Both, declared, heap)
    BY DEF IInv
  <2>2. i \in 1 .. Len(Both.scopes[c]) /\ x \in DOMAIN Both.scopes[c][i]
    BY <1>3, <2>1, BothIs, SameFrame
  <2> QED
    BY <1>3, <2>1, <2>2, ViewIs
<1> HIDE DEF c, i, F, G, f
<1>8. Put(f, x, v) = [f EXCEPT ![x] = v]
  BY <1>7 DEF Put, IsFrame
<1>9. G = [F EXCEPT ![c][i][x] = v]
  BY <1>6, <1>8 DEF f
<1> QED
  BY <1>1, <1>4, <1>5, <1>9 DEF Meant!Assign

(* Scope::memberAssign: the member gets the value.                         *)
LEMMA SetMemberMeant ==
  ASSUME IInv, Plain, NEW a \in Members, NEW e \in Exprs, MemberAssign(a, e)
  PROVE  Meant!SetMember(a, e)
<1>1. PICK v \in Values(e) : heap' = SetCell(heap, Pointer(a.x), a.path, v.val)
  BY DEF MemberAssign
<1>2. /\ AtomType(a, Types) # "none" /\ ~Dangles(a) /\ e \in Usable(AtomType(a, Types))
      /\ a.op = "member" /\ UNCHANGED <<scopes, ptrs, crashed>>
  BY DEF MemberAssign, Members
<1>3. Meant!Meaning(e) = v /\ e \in Meant!Of(AtomType(a, Types))
  BY <1>1, <1>2, MeantMeaning, MeantOf
<1>4. /\ Meant!AtomType(a, Meant!Types) = AtomType(a, Types)
      /\ Meant!Value(a.x).val = Pointer(a.x) /\ ~Meant!Dangles(a)
  BY <1>2, MeantMember
<1>5. heap' = Meant!SetCell(heap, Meant!Value(a.x).val, a.path, Meant!Meaning(e).val)
  BY <1>1, <1>3, <1>4, SameCell
<1>6. Frames' = Frames
  BY <1>2, FramesBoth DEF Both
<1> QED
  BY <1>2, <1>3, <1>4, <1>5, <1>6 DEF Meant!SetMember

(* A statement goes through a NULL of the program's.                       *)
LEMMA CrashMeant ==
  ASSUME IInv, Crash PROVE Meant!Fail
<1>1. PICK a \in Members : AtomType(a, Types) # "none" /\ Dangles(a)
  BY DEF Crash
<1>2. a.op = "member" /\ a \in Meant!Members
  BY SameKinds DEF Members
<1>3. Meant!AtomType(a, Meant!Types) # "none" /\ Meant!Dangles(a)
  BY <1>1, <1>2, MeantMember
<1>4. crashed' = TRUE /\ heap' = heap /\ Frames' = Frames
  BY FramesBoth DEF Crash, Both
<1> QED
  BY <1>2, <1>3, <1>4 DEF Meant!Fail

(* An iteration opens a frame.                                             *)
LEMMA EnterLoopMeant ==
  ASSUME IInv, EnterLoop PROVE Meant!Open
<1>1. IInv' /\ Pushed(View(Both', declared'), View(Both, declared), Here)
  BY EnterLoopKeeps
<1>2. Frames = View(Both, declared) /\ Frames' = View(Both', declared')
  BY <1>1, Seen
<1>3. UNCHANGED <<heap, crashed>>
  BY DEF EnterLoop
<1> QED
  BY <1>1, <1>2, <1>3, MeantHere DEF Meant!Open, Pushed

(* Its end, or that of a call, closes the innermost frame.                 *)
LEMMA CloseMeant ==
  ASSUME IInv, LeaveLoop \/ Return PROVE Meant!Close
<1> DEFINE F == View(Both, declared)
           G == View(Both', declared')
<1>1. IInv' /\ Shortened(G, F, Here)
  BY LeaveLoopKeeps, ReturnKeeps DEF Return
<1>2. Frames = F /\ Frames' = G
  BY <1>1, Seen
<1>3. UNCHANGED <<heap, crashed>>
  BY DEF LeaveLoop, Return
<1>4. Here \in Chain /\ Meant!Here = Here /\ Meant!Inner = Len(F[Here])
  BY <1>2, HereIs, MeantHere, FramesAre
<1> HIDE DEF F, G
<1> QED
  BY <1>1, <1>2, <1>3, <1>4 DEF Meant!Close, Shortened

(* Where a call may be.                                                    *)
LEMMA MeantMain ==
  ASSUME IInv, ~Deferred PROVE Meant!Here = "main"
BY MeantHere DEF Deferred, Here

(* A call opens a frame of the function.                                   *)
LEMMA CallMeant ==
  ASSUME IInv, Call PROVE Meant!Call
<1>1. IInv' /\ Pushed(View(Both', declared'), View(Both, declared), "fn")
  BY CallKeeps
<1>2. Frames = View(Both, declared) /\ Frames' = View(Both', declared')
  BY <1>1, Seen
<1>3. UNCHANGED <<heap, crashed>> /\ Meant!Here = "main"
  BY MeantMain DEF Call
<1> QED
  BY <1>1, <1>2, <1>3 DEF Meant!Call, Pushed

(* A call with a parameter opens a frame with the argument in it.          *)
LEMMA CallWithMeant ==
  ASSUME IInv, Plain, NEW x \in Vars, NEW t \in Type, NEW e \in Exprs, CallWith(x, t, e)
  PROVE  Meant!CallWith(x, t, e)
<1> DEFINE F == View(Both, declared)
           G == View(Both', declared')
           v == Immediate(e)
<1>1. IInv' /\ G = [F EXCEPT !["fn"] = Append(@, Put(<< >>, x, v))]
  BY CallWithKeeps
<1>2. Frames = F /\ Frames' = G
  BY <1>1, Seen
<1>3. ~Deferred /\ e \in Usable(t) /\ t # "none" /\ heap' = Grown(heap, t) /\ UNCHANGED crashed
  BY TypeSane DEF CallWith
<1>4. v \in Values(e)
  BY <1>3 DEF Values
<1>5. Meant!Meaning(e) = v /\ e \in Meant!Of(t)
  BY <1>3, <1>4, MeantMeaning, MeantOf
<1>6. Meant!Here = "main" /\ heap' = Meant!Grown(heap, t) /\ Meant!Put(<< >>, x, v) = Put(<< >>, x, v)
  BY <1>3, MeantMain, SameGrown, SamePut
<1> HIDE DEF F, G, v
<1> QED
  BY <1>1, <1>2, <1>3, <1>5, <1>6 DEF Meant!CallWith

(***************************************************************************)
(* The refinement                                                          *)
(***************************************************************************)

(* A program starts in two empty frames of main.                           *)
LEMMA InitMeant == Init => Meant!Init
<1> SUFFICES ASSUME Init PROVE Meant!Init
  OBVIOUS
<1>1. /\ scopes = [c \in Chain |-> IF c = "main" THEN << << >>, << >> >> ELSE << << >> >>]
      /\ heap = << >> /\ crashed = FALSE
  BY DEF Init
<1>2. ASSUME NEW c \in Chain
      PROVE  Frames[c] = scopes[c]
  <2>1. /\ IsSeq(scopes[c]) /\ \A i \in 1 .. Len(scopes[c]) : scopes[c][i] = << >>
    BY <1>1 DEF IsSeq
  <2>2. Frames[c] = [i \in 1 .. Len(scopes[c]) |-> << >>]
    BY <2>1 DEF Frames
  <2> QED
    BY <2>1, <2>2 DEF IsSeq
<1>3. Frames = scopes
  BY <1>1, <1>2 DEF Frames
<1> QED
  BY <1>1, <1>3, SameKinds DEF Meant!Init

(* Each statement, and each step of the program.                           *)
LEMMA StatementsMeant ==
  ASSUME IInv, Plain PROVE Means
<1>1. \A x \in Vars, t \in Type : Declare(x, t) => Meant!Declare(x, t)
  BY DeclareMeant
<1>2. \A x \in Vars, t \in Type, e \in Exprs : DeclareInit(x, t, e) => Meant!DeclareInit(x, t, e)
  BY DeclareInitMeant
<1>3. \A x \in Vars, t \in Type, e \in Exprs : CallWith(x, t, e) => Meant!CallWith(x, t, e)
  BY CallWithMeant
<1>4. \A x \in Vars, e \in Exprs : Assign(x, e) => Meant!Assign(x, e)
  BY AssignMeant
<1>5. \A a \in Members, e \in Exprs : MemberAssign(a, e) => Meant!SetMember(a, e)
  BY SetMemberMeant
<1>6. /\ EnterLoop => Meant!Open
      /\ LeaveLoop \/ Return => Meant!Close
      /\ Call => Meant!Call
      /\ Crash => Meant!Fail
  BY EnterLoopMeant, CloseMeant, CallMeant, CrashMeant
<1> QED
  BY <1>1, <1>2, <1>3, <1>4, <1>5, <1>6 DEF Means

(* Each step is one of the language.                                       *)
LEMMA StepMeant ==
  ASSUME IInv, Plain, Next PROVE Meant!Next
<1>1. Means /\ ~crashed
  BY StatementsMeant DEF Next, Declare, DeclareInit, Assign, MemberAssign, Crash, EnterLoop,
                         LeaveLoop, Call, CallWith, Return
<1>2. ASSUME NEW x \in Vars, NEW t \in Type, Declare(x, t) PROVE Meant!Next
  BY <1>1, <1>2, SameKinds DEF Means, Meant!Next
<1>3. ASSUME NEW x \in Vars, NEW t \in Type, NEW e \in Exprs, DeclareInit(x, t, e)
      PROVE  Meant!Next
  <2>1. Meant!DeclareInit(x, t, e)
    BY <1>1, <1>3 DEF Means
  <2> QED
    BY <1>1, <2>1, SameKinds DEF Meant!DeclareInit, Meant!Next
<1>4. ASSUME NEW x \in Vars, NEW e \in Exprs, Assign(x, e) PROVE Meant!Next
  <2>1. Meant!Assign(x, e)
    BY <1>1, <1>4 DEF Means
  <2> QED
    BY <1>1, <2>1 DEF Meant!Assign, Meant!Next
<1>5. ASSUME NEW a \in Members, NEW e \in Exprs, MemberAssign(a, e) PROVE Meant!Next
  <2>1. Meant!SetMember(a, e)
    BY <1>1, <1>5 DEF Means
  <2> QED
    BY <1>1, <2>1, SameKinds DEF Meant!SetMember, Meant!Next
<1>6. ASSUME NEW x \in Vars, NEW t \in Type, NEW e \in Exprs, CallWith(x, t, e)
      PROVE  Meant!Next
  <2>1. Meant!CallWith(x, t, e)
    BY <1>1, <1>6 DEF Means
  <2> QED
    BY <1>1, <2>1, SameKinds DEF Meant!CallWith, Meant!Next
<1>7. CASE Crash \/ EnterLoop \/ LeaveLoop \/ Call \/ Return
  BY <1>1, <1>7 DEF Means, Meant!Next
<1> QED
  BY <1>2, <1>3, <1>4, <1>5, <1>6, <1>7 DEF Next

(* Whatever plain program runs: the two chains, the maps of values and of  *)
(* references, and the copies of the values in nodes together behave as    *)
(* one stack of frames of variables and one heap, scoped lexically, and a  *)
(* function sees none of main's variables.                                 *)
THEOREM LanguageImplemented == ASSUME Plain PROVE Spec => Implements
<1>1. IInv /\ [Next]_vars => [Meant!Next]_<<Frames, heap, crashed>>
  <2> SUFFICES ASSUME IInv, [Next]_vars PROVE [Meant!Next]_<<Frames, heap, crashed>>
    OBVIOUS
  <2>1. CASE Next
    BY <2>1, StepMeant
  <2>2. CASE UNCHANGED vars
    <3>1. UNCHANGED <<scopes, ptrs, heap, crashed>>
      BY <2>2 DEF vars
    <3>2. Frames' = Frames
      BY <3>1, FramesBoth DEF Both
    <3> QED
      BY <3>1, <3>2
  <2> QED
    BY <2>1, <2>2
<1>2. Spec => []IInv
  BY InterpreterInvariant
<1>3. Init => Meant!Init
  BY InitMeant
<1> QED
  BY <1>1, <1>2, <1>3, PTL DEF Spec, Implements, Meant!Spec, Meant!vars

(* Whatever plain program runs: a statement means the same in main, where  *)
(* it is evaluated while it is parsed, and in a loop or a function, where  *)
(* it is executed from its node: what the language says of it.             *)
THEOREM StatementsFaithful == ASSUME Plain PROVE Spec => Faithful
<1>1. IInv => [Means]_vars
  BY StatementsMeant
<1>2. Spec => []IInv
  BY InterpreterInvariant
<1> QED
  BY <1>1, <1>2, PTL DEF Faithful
=============================================================================
