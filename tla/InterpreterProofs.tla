------------------------- MODULE InterpreterProofs -------------------------
(***************************************************************************)
(* The types of the interpreter's variables and objects, for every set of  *)
(* classes and every program that meets none of the two defects the other  *)
(* runs show (see Plain).  The invariant says of each Scope, of the        *)
(* LSRScope that belongs to it and of the declared types that they match   *)
(* (Matched), which no pair of them does alone: the interpreter keeps them *)
(* in two chains that it pushes, pops and searches independently.          *)
(***************************************************************************)
EXTENDS Interpreter, FiniteSetTheorems, SequenceTheorems, TLAPS

(***************************************************************************)
(* Sequences and numbers                                                   *)
(***************************************************************************)

(* A sequence, told by its length and its elements.                        *)
IsSeq(s) == Len(s) \in Nat /\ s = [i \in 1 .. Len(s) |-> s[i]]

(* The length of a function on 1 .. n.                                     *)
LEMMA LengthIs ==
  ASSUME NEW n \in Nat, NEW s, DOMAIN s = 1 .. n, s = [i \in 1 .. n |-> s[i]]
  PROVE  Len(s) = n /\ IsSeq(s)
BY DEF IsSeq

(* The element Append adds is the last, the others stay.                   *)
LEMMA Appending ==
  ASSUME NEW s, IsSeq(s), NEW e
  PROVE  /\ IsSeq(Append(s, e)) /\ Len(Append(s, e)) = Len(s) + 1
         /\ \A i \in 1 .. Len(s) : Append(s, e)[i] = s[i]
         /\ Append(s, e)[Len(s) + 1] = e
<1> DEFINE S == {s[i] : i \in 1 .. Len(s)} \cup {e}
<1>1. s \in Seq(S) /\ e \in S
  BY DEF IsSeq
<1>2. /\ Append(s, e) \in Seq(S)
      /\ Len(Append(s, e)) = Len(s) + 1
      /\ \A i \in 1 .. Len(s) : Append(s, e)[i] = s[i]
      /\ Append(s, e)[Len(s) + 1] = e
  <2> HIDE DEF S
  <2> QED
    BY <1>1, AppendProperties
<1>3. Append(s, e) = [i \in 1 .. Len(Append(s, e)) |-> Append(s, e)[i]]
  BY <1>2, LenProperties
<1> QED
  BY <1>2, <1>3 DEF IsSeq

(* A prefix.                                                               *)
LEMMA Cutting ==
  ASSUME NEW s, IsSeq(s), NEW n \in 0 .. Len(s)
  PROVE  /\ IsSeq(SubSeq(s, 1, n)) /\ Len(SubSeq(s, 1, n)) = n
         /\ \A i \in 1 .. n : SubSeq(s, 1, n)[i] = s[i]
BY DEF IsSeq

(* r is s but for its i-th element.                                        *)
Replaced(r, s, i, e) == r = [s EXCEPT ![i] = e]

LEMMA Replacing ==
  ASSUME NEW s, IsSeq(s), NEW i \in 1 .. Len(s), NEW e, NEW r, Replaced(r, s, i, e)
  PROVE  /\ IsSeq(r) /\ Len(r) = Len(s) /\ r[i] = e
         /\ \A j \in 1 .. Len(s) \ {i} : r[j] = s[j]
BY LengthIs DEF IsSeq, Replaced

(* A set of positions that is not empty has a last one: else adding 1 and  *)
(* mapping on would be one to one into a smaller set.                      *)
LEMMA Largest ==
  ASSUME NEW n \in Nat, NEW S \in SUBSET (1 .. n), S # {}
  PROVE  \E m \in S : \A k \in S : k <= m
<1> DEFINE U == {k \in 1 .. n : \E j \in S : k <= j}
<1> DEFINE f == [k \in U |-> k + 1]
<1> SUFFICES ASSUME \A m \in S : \E k \in S : m < k PROVE FALSE
  OBVIOUS
<1>1. IsFiniteSet(U) /\ 1 \in U
  <2>1. IsFiniteSet(1 .. n)
    BY FS_Interval
  <2>2. PICK j \in S : TRUE
    OBVIOUS
  <2>3. U \subseteq 1 .. n /\ j \in 1 .. n /\ 1 <= j
    OBVIOUS
  <2>4. 1 \in U
    BY <2>2, <2>3
  <2> QED
    BY <2>1, <2>3, <2>4, FS_Subset
<1>2. f \in [U -> U \ {1}]
  OBVIOUS
<1>3. IsFiniteSet(U \ {1}) /\ Cardinality(U \ {1}) = Cardinality(U) - 1
  BY <1>1, FS_RemoveElement
<1>4. Cardinality(U) \in Nat
  BY <1>1, FS_CardinalityType
<1>5. \E x, y \in U : x # y /\ f[x] = f[y]
  <2> HIDE DEF f, U
  <2> QED
    BY <1>1, <1>2, <1>3, <1>4, FS_PigeonHole
<1> QED
  BY <1>5

(* Induction over 1 .. n.                                                  *)
LEMMA Induction ==
  ASSUME NEW n \in Nat \ {0}, NEW S \in SUBSET (1 .. n), 1 \in S,
         \A k \in 1 .. n - 1 : k \in S => k + 1 \in S
  PROVE  \A k \in 1 .. n : k \in S
<1> DEFINE T == {m \in 1 .. n : \A k \in 1 .. m : k \in S}
<1>1. 1 \in T
  OBVIOUS
<1>2. PICK m \in T : \A k \in T : k <= m
  <2> HIDE DEF T
  <2>1. T \in SUBSET (1 .. n)
    BY DEF T
  <2> QED
    BY <1>1, <2>1, Largest
<1>3. CASE m = n
  BY <1>3
<1>4. CASE m < n
  <2>1. m + 1 \in S
    BY <1>4
  <2>2. m + 1 \in T
    BY <1>4, <2>1
  <2> QED
    BY <1>2, <2>2
<1> QED
  BY <1>3, <1>4

(***************************************************************************)
(* Looking for a name                                                      *)
(***************************************************************************)

(* The last frame that has x is the one Innermost finds.                   *)
LEMMA InnermostIs ==
  ASSUME NEW fs, NEW x, NEW i \in 1 .. Len(fs), Len(fs) \in Nat, x \in DOMAIN fs[i],
         \A j \in i + 1 .. Len(fs) : x \notin DOMAIN fs[j]
  PROVE  Innermost(fs, x) = i
<1>1. \A k \in 1 .. Len(fs) :
        x \in DOMAIN fs[k] /\ (\A j \in k + 1 .. Len(fs) : x \notin DOMAIN fs[j]) => k = i
  OBVIOUS
<1> QED
  BY <1>1 DEF Innermost

(* Innermost finds the last frame that has x, or that none has.            *)
LEMMA InnermostHas ==
  ASSUME NEW fs, NEW x, Len(fs) \in Nat
  PROVE  \/ Innermost(fs, x) = 0 /\ \A j \in 1 .. Len(fs) : x \notin DOMAIN fs[j]
         \/ /\ Innermost(fs, x) \in 1 .. Len(fs)
            /\ x \in DOMAIN fs[Innermost(fs, x)]
            /\ \A j \in Innermost(fs, x) + 1 .. Len(fs) : x \notin DOMAIN fs[j]
<1>1. CASE ~ \E i \in 1 .. Len(fs) : x \in DOMAIN fs[i]
  BY <1>1 DEF Innermost
<1>2. CASE \E i \in 1 .. Len(fs) : x \in DOMAIN fs[i]
  <2> DEFINE S == {i \in 1 .. Len(fs) : x \in DOMAIN fs[i]}
  <2>1. PICK m \in S : \A k \in S : k <= m
    <3>1. S \in SUBSET (1 .. Len(fs)) /\ S # {}
      BY <1>2
    <3> HIDE DEF S
    <3> QED
      BY <3>1, Largest
  <2>2. \A j \in m + 1 .. Len(fs) : x \notin DOMAIN fs[j]
    BY <2>1
  <2>3. Innermost(fs, x) = m
    BY <2>2, InnermostIs
  <2> QED
    BY <2>2, <2>3
<1> QED
  BY <1>1, <1>2

(***************************************************************************)
(* The inductive invariant                                                 *)
(***************************************************************************)

(* A reference is NULL or that of an object of class t.                    *)
Fits(ref, t, h) == ref = 0 \/ (ref \in 1 .. Len(h) /\ h[ref].class = t)

(* The heap: each object has the words of its class, with references to    *)
(* objects of the members' classes.                                        *)
Object(o, h) ==
  /\ o = [class |-> o.class, words |-> o.words] /\ o.class \in Class
  /\ o.words = [k \in 1 .. Len(Fields[o.class]) |-> o.words[k]]
  /\ \A k \in References(o.class) : Fits(o.words[k], Fields[o.class][k].type, h)

HeapTyped(h) == IsSeq(h) /\ \A i \in 1 .. Len(h) : Object(h[i], h)

IsFrame(f) == f = [x \in DOMAIN f |-> f[x]]

(* A Scope sf, the LSRScope pf that belongs to it, and the types df its    *)
(* variables were declared with.                                           *)
Matched(sf, pf, df, h) ==
  /\ IsFrame(sf) /\ IsFrame(pf) /\ IsFrame(df)
  /\ DOMAIN sf \subseteq Vars /\ DOMAIN pf \subseteq Vars /\ DOMAIN df = DOMAIN sf
  /\ \A x \in DOMAIN sf :
       /\ sf[x] = [type |-> df[x], val |-> sf[x].val]
       /\ df[x] \in Type
       /\ df[x] \in Class => x \in DOMAIN pf /\ Fits(pf[x], df[x], h)

IsChains(f) == f = [c \in Chain |-> f[c]] /\ \A c \in Chain : IsSeq(f[c])

IsBoth(b) == b = [f \in {"scopes", "ptrs"} |-> b[f]]

Lengths(b, d) ==
  \A c \in Chain : /\ Len(b.scopes[c]) > 0
                   /\ Len(d[c]) = Len(b.scopes[c])
                   /\ Len(b.ptrs[c]) = Beside(c, Len(b.scopes[c]))

(* The chains: what is left behind by earlier calls is in the outermost    *)
(* LSRScope of functions, whose Scope has no variables.                    *)
Good(b, d, h) ==
  /\ IsBoth(b) /\ IsChains(b.scopes) /\ IsChains(b.ptrs) /\ IsChains(d)
  /\ Lengths(b, d)
  /\ DOMAIN b.scopes["fn"][1] = {}
  /\ \A c \in Chain : \A i \in 1 .. Len(b.scopes[c]) :
       /\ Matched(b.scopes[c][i], b.ptrs[c][Beside(c, i)], d[c][i], h)
       /\ c = "main" \/ i > 2 => DOMAIN b.ptrs[c][Beside(c, i)] \subseteq DOMAIN b.scopes[c][i]

Bounds ==
  /\ \A c \in Chain : Len(scopes[c]) <= 2 + MaxLoops
  /\ Len(scopes["main"]) > 1
  /\ Len(heap) <= MaxObjects
  /\ crashed \in BOOLEAN

IInv == Good(Both, declared, heap) /\ HeapTyped(heap) /\ Bounds

Extends(h, h2) == Len(h) <= Len(h2) /\ \A i \in 1 .. Len(h) : h2[i].class = h[i].class

(* What h becomes: objects stay, of their classes.                         *)
LEMMA FitsStays ==
  ASSUME NEW h, NEW h2, Len(h) \in Nat, Len(h2) \in Nat, Extends(h, h2),
         NEW r, NEW t, Fits(r, t, h)
  PROVE  Fits(r, t, h2)
BY DEF Fits, Extends

(* So do frames that match.                                                *)
LEMMA MatchedStays ==
  ASSUME NEW h, NEW h2, Len(h) \in Nat, Len(h2) \in Nat, Extends(h, h2),
         NEW sf, NEW pf, NEW df, Matched(sf, pf, df, h)
  PROVE  Matched(sf, pf, df, h2)
BY FitsStays DEF Matched

(* Put gives x the value v and leaves the other names.                     *)
LEMMA PutIs ==
  ASSUME NEW f, NEW x, NEW v
  PROVE  /\ DOMAIN Put(f, x, v) = DOMAIN f \cup {x}
         /\ Put(f, x, v)[x] = v
         /\ \A y \in DOMAIN f \ {x} : Put(f, x, v)[y] = f[y]
         /\ IsFrame(Put(f, x, v))
BY DEF Put, IsFrame

(* A variable gets type t, a value and, if t is a class, a reference.      *)
LEMMA PutMatches ==
  ASSUME NEW h, NEW sf, NEW pf, NEW df, Matched(sf, pf, df, h), 
         NEW x \in Vars, NEW t \in Type, NEW u, NEW r, t \in Class => Fits(r, t, h)
  PROVE  Matched(Put(sf, x, [type |-> t, val |-> u]),
                 IF t \in Class THEN Put(pf, x, r) ELSE pf, Put(df, x, t), h)
<1> DEFINE s2 == Put(sf, x, [type |-> t, val |-> u])
           p2 == IF t \in Class THEN Put(pf, x, r) ELSE pf
           d2 == Put(df, x, t)
<1>1. /\ DOMAIN s2 = DOMAIN sf \cup {x} /\ DOMAIN d2 = DOMAIN df \cup {x}
      /\ DOMAIN p2 = IF t \in Class THEN DOMAIN pf \cup {x} ELSE DOMAIN pf
  BY PutIs
<1>2. \A y \in DOMAIN sf \ {x} : s2[y] = sf[y] /\ d2[y] = df[y] /\ (y \in DOMAIN pf => p2[y] = pf[y])
  BY DEF Put, Matched
<1>3. s2[x] = [type |-> t, val |-> u] /\ d2[x] = t /\ (t \in Class => p2[x] = r)
  BY DEF Put
<1>5. IsFrame(s2) /\ IsFrame(p2) /\ IsFrame(d2)
  BY PutIs DEF Matched
<1> HIDE DEF s2, p2, d2
<1>4. Matched(s2, p2, d2, h)
  BY <1>1, <1>2, <1>3, <1>5 DEF Matched
<1> QED
  BY <1>4 DEF s2, p2, d2

(* The n-th frame of chain c becomes e.                                    *)
Changed(f2, f, c, n, e) == f2 = [f EXCEPT ![c] = [@ EXCEPT ![n] = e]]

(* A frame that becomes itself.                                            *)
LEMMA NoChange ==
  ASSUME NEW f, IsChains(f), NEW c \in Chain, NEW n \in 1 .. Len(f[c])
  PROVE  Changed(f, f, c, n, f[c][n])
<1>1. f[c] = [f[c] EXCEPT ![n] = f[c][n]]
  BY DEF IsChains, IsSeq
<1> QED
  BY <1>1 DEF IsChains, Changed

(* Frame n of chain c becomes sf, the LSRScope beside it pf.               *)
LEMMA Update ==
  ASSUME NEW b, NEW d, NEW h, NEW h2, Good(b, d, h),
         Len(h) \in Nat, Len(h2) \in Nat, Extends(h, h2),
         NEW c \in Chain, NEW n \in 1 .. Len(b.scopes[c]), c = "fn" => n > 1,
         NEW sf, NEW pf, NEW df, Matched(sf, pf, df, h2),
         c = "main" \/ n > 2 => DOMAIN pf \subseteq DOMAIN sf,
         NEW B, IsBoth(B), Changed(B.scopes, b.scopes, c, n, sf),
         Changed(B.ptrs, b.ptrs, c, Beside(c, n), pf), NEW D, Changed(D, d, c, n, df)
  PROVE  Good(B, D, h2)
<1> DEFINE m == Beside(c, n)
           S == B.scopes
           P == B.ptrs
<1>1. /\ IsSeq(b.scopes[c]) /\ IsSeq(b.ptrs[c]) /\ IsSeq(d[c])
      /\ n \in 1 .. Len(d[c]) /\ m \in 1 .. Len(b.ptrs[c])
  BY DEF Good, IsChains, Lengths, Beside, IsSeq
<1>2. /\ Replaced(S[c], b.scopes[c], n, sf) /\ Replaced(P[c], b.ptrs[c], m, pf)
      /\ Replaced(D[c], d[c], n, df)
  BY DEF Good, IsChains, Replaced, Changed
<1>3. \A e \in Chain \ {c} : S[e] = b.scopes[e] /\ P[e] = b.ptrs[e] /\ D[e] = d[e]
  BY DEF Good, IsChains, Changed
<1>4. S = [e \in Chain |-> S[e]] /\ P = [e \in Chain |-> P[e]] /\ D = [e \in Chain |-> D[e]]
  BY DEF Good, IsChains, Changed
<1> HIDE DEF m, S, P
<1>5. /\ IsSeq(S[c]) /\ Len(S[c]) = Len(b.scopes[c]) /\ S[c][n] = sf
      /\ \A j \in 1 .. Len(b.scopes[c]) \ {n} : S[c][j] = b.scopes[c][j]
  BY <1>1, <1>2, Replacing
<1>6. /\ IsSeq(P[c]) /\ Len(P[c]) = Len(b.ptrs[c]) /\ P[c][m] = pf
      /\ \A j \in 1 .. Len(b.ptrs[c]) \ {m} : P[c][j] = b.ptrs[c][j]
  BY <1>1, <1>2, Replacing
<1>7. /\ IsSeq(D[c]) /\ Len(D[c]) = Len(d[c]) /\ D[c][n] = df
      /\ \A j \in 1 .. Len(d[c]) \ {n} : D[c][j] = d[c][j]
  BY <1>1, <1>2, Replacing
<1> USE DEF m, S, P
<1>8. IsChains(S) /\ IsChains(P) /\ IsChains(D)
  BY <1>3, <1>4, <1>5, <1>6, <1>7 DEF Good, IsChains
<1>9. Lengths(B, D)
  BY <1>3, <1>5, <1>6, <1>7 DEF Good, Lengths
<1>10. DOMAIN S["fn"][1] = {}
  <2>1. CASE c = "fn"
    BY <1>5, <2>1 DEF Good
  <2>2. CASE c # "fn"
    BY <1>3, <2>2 DEF Good, Chain
  <2> QED
    BY <2>1, <2>2
<1>11. ASSUME NEW e \in Chain, NEW i \in 1 .. Len(S[e])
       PROVE  /\ Matched(S[e][i], P[e][Beside(e, i)], D[e][i], h2)
              /\ e = "main" \/ i > 2 => DOMAIN P[e][Beside(e, i)] \subseteq DOMAIN S[e][i]
  <2>1. CASE e # c
    <3>1. S[e] = b.scopes[e] /\ P[e] = b.ptrs[e] /\ D[e] = d[e]
      BY <1>3, <2>1
    <3> QED
      BY <3>1, MatchedStays DEF Good
  <2>2. CASE e = c /\ i = n
    BY <1>5, <1>6, <1>7, <2>2
  <2>3. CASE e = c /\ i # n /\ Beside(e, i) # m
    <3>1. i \in 1 .. Len(b.scopes[c]) \ {n} /\ i \in 1 .. Len(d[c]) \ {n}
          /\ Beside(c, i) \in 1 .. Len(b.ptrs[c]) \ {m}
      BY <1>5, <2>3 DEF Good, Lengths, Beside, IsChains, IsSeq
    <3>2. S[c][i] = b.scopes[c][i] /\ P[c][Beside(c, i)] = b.ptrs[c][Beside(c, i)] /\ D[c][i] = d[c][i]
      BY <1>5, <1>6, <1>7, <3>1
    <3>3. Matched(b.scopes[c][i], b.ptrs[c][Beside(c, i)], d[c][i], h2)
      BY <3>1, MatchedStays DEF Good
    <3> QED
      BY <2>3, <3>1, <3>2, <3>3 DEF Good
  <2>4. CASE e = c /\ i # n /\ Beside(e, i) = m
    <3>1. e = "fn" /\ i = 1 /\ n = 2
      BY <1>1, <1>5, <2>4 DEF Beside, Chain, Good, IsChains, IsSeq
    <3>2. S[e][i] = b.scopes[e][1] /\ D[e][i] = d[e][1]
      BY <1>1, <1>5, <1>7, <2>4, <3>1
    <3>3. P[e][Beside(e, i)] = pf
      BY <1>6, <2>4
    <3>4. /\ DOMAIN b.scopes[e][1] = {} /\ DOMAIN d[e][1] = {}
          /\ IsFrame(b.scopes[e][1]) /\ IsFrame(d[e][1])
      BY <1>5, <2>4, <3>1 DEF Good, Matched
    <3>5. Matched(S[e][i], pf, D[e][i], h2)
      BY <3>2, <3>4 DEF Matched
    <3> QED
      BY <3>1, <3>3, <3>5
  <2> QED
    BY <2>1, <2>2, <2>3, <2>4
<1> QED
  BY <1>8, <1>9, <1>10, <1>11 DEF Good

(***************************************************************************)
(* What the language sees of the chains                                    *)
(***************************************************************************)

(* Of one frame: the values of integers and strings, the references of the *)
(* others.                                                                 *)
ViewOf(sf, pf, df) ==
  [x \in DOMAIN sf |-> IF df[x] \in Class THEN [type |-> df[x], val |-> pf[x]] ELSE sf[x]]

View(b, d) ==
  [c \in Chain |-> [i \in 1 .. Len(b.scopes[c]) |->
     ViewOf(b.scopes[c][i], b.ptrs[c][Beside(c, i)], d[c][i])]]

(* All a step changes of it is that x has the value v in frame n of c.     *)
Sets(B, D, b, d, c, n, x, v) ==
  Changed(View(B, D), View(b, d), c, n, Put(View(b, d)[c][n], x, v))

(* The view has the chains' names in their places.                         *)
LEMMA ViewIs ==
  ASSUME NEW b, NEW d, NEW h, Good(b, d, h)
  PROVE  /\ IsChains(View(b, d))
         /\ \A c \in Chain :
              /\ Len(View(b, d)[c]) = Len(b.scopes[c])
              /\ \A i \in 1 .. Len(b.scopes[c]) :
                   /\ View(b, d)[c][i] = ViewOf(b.scopes[c][i], b.ptrs[c][Beside(c, i)], d[c][i])
                   /\ DOMAIN View(b, d)[c][i] = DOMAIN b.scopes[c][i]
                   /\ IsFrame(View(b, d)[c][i])
<1> DEFINE V == View(b, d)
<1>1. V = [c \in Chain |-> V[c]]
  BY DEF View
<1>2. ASSUME NEW c \in Chain
      PROVE  /\ IsSeq(V[c]) /\ Len(V[c]) = Len(b.scopes[c])
             /\ \A i \in 1 .. Len(b.scopes[c]) :
                  V[c][i] = ViewOf(b.scopes[c][i], b.ptrs[c][Beside(c, i)], d[c][i])
  <2> DEFINE n == Len(b.scopes[c])
  <2>1. n \in Nat
    BY DEF Good, IsChains, IsSeq
  <2>2. V[c] = [i \in 1 .. n |-> ViewOf(b.scopes[c][i], b.ptrs[c][Beside(c, i)], d[c][i])]
    BY DEF View
  <2> HIDE DEF n, V
  <2>3. DOMAIN V[c] = 1 .. n /\ V[c] = [i \in 1 .. n |-> V[c][i]]
    BY <2>2
  <2>4. Len(V[c]) = n /\ IsSeq(V[c])
    BY <2>1, <2>3, LengthIs
  <2> QED
    BY <2>2, <2>4 DEF n
<1>3. \A sf, pf, df : DOMAIN ViewOf(sf, pf, df) = DOMAIN sf /\ IsFrame(ViewOf(sf, pf, df))
  BY DEF ViewOf, IsFrame
<1> HIDE DEF V
<1> QED
  BY <1>1, <1>2, <1>3 DEF IsChains, V

(* The view of a changed frame is all that changes.                        *)
LEMMA UpdateView ==
  ASSUME NEW b, NEW d, NEW h, NEW h2, Good(b, d, h), NEW B, NEW D, Good(B, D, h2),
         NEW c \in Chain, NEW n \in 1 .. Len(b.scopes[c]), c = "fn" => n > 1,
         NEW sf, NEW pf, NEW df, Changed(B.scopes, b.scopes, c, n, sf),
         Changed(B.ptrs, b.ptrs, c, Beside(c, n), pf), Changed(D, d, c, n, df)
  PROVE  Changed(View(B, D), View(b, d), c, n, ViewOf(sf, pf, df))
<1> DEFINE m == Beside(c, n)
           S == B.scopes
           P == B.ptrs
           V == View(b, d)
           W == View(B, D)
<1>1. /\ IsSeq(b.scopes[c]) /\ IsSeq(b.ptrs[c]) /\ IsSeq(d[c])
      /\ n \in 1 .. Len(d[c]) /\ m \in 1 .. Len(b.ptrs[c])
      /\ Len(b.ptrs[c]) = Beside(c, Len(b.scopes[c])) /\ Len(d[c]) = Len(b.scopes[c])
  BY DEF Good, IsChains, Lengths, Beside, IsSeq
<1>2. /\ Replaced(S[c], b.scopes[c], n, sf) /\ Replaced(P[c], b.ptrs[c], m, pf)
      /\ Replaced(D[c], d[c], n, df)
  BY DEF Good, IsChains, Replaced, Changed
<1>3. \A e \in Chain \ {c} : S[e] = b.scopes[e] /\ P[e] = b.ptrs[e] /\ D[e] = d[e]
  BY DEF Good, IsChains, Changed
<1> HIDE DEF m, S, P
<1>4. /\ Len(S[c]) = Len(b.scopes[c]) /\ S[c][n] = sf
      /\ \A j \in 1 .. Len(b.scopes[c]) \ {n} : S[c][j] = b.scopes[c][j]
  BY <1>1, <1>2, Replacing
<1>5. /\ P[c][m] = pf /\ \A j \in 1 .. Len(b.ptrs[c]) \ {m} : P[c][j] = b.ptrs[c][j]
  BY <1>1, <1>2, Replacing
<1>6. /\ D[c][n] = df /\ \A j \in 1 .. Len(d[c]) \ {n} : D[c][j] = d[c][j]
  BY <1>1, <1>2, Replacing
<1>7. /\ IsChains(V) /\ IsChains(W)
      /\ \A e \in Chain : /\ Len(V[e]) = Len(b.scopes[e]) /\ Len(W[e]) = Len(S[e])
                          /\ \A i \in 1 .. Len(b.scopes[e]) :
                               V[e][i] = ViewOf(b.scopes[e][i], b.ptrs[e][Beside(e, i)], d[e][i])
                          /\ \A i \in 1 .. Len(S[e]) :
                               W[e][i] = ViewOf(S[e][i], P[e][Beside(e, i)], D[e][i])
  BY ViewIs DEF S, P
<1> HIDE DEF V, W
<1>8. \A e \in Chain \ {c} : W[e] = V[e]
  <2> SUFFICES ASSUME NEW e \in Chain \ {c} PROVE W[e] = V[e]
    OBVIOUS
  <2>1. S[e] = b.scopes[e] /\ P[e] = b.ptrs[e] /\ D[e] = d[e]
    BY <1>3
  <2>2. Len(W[e]) = Len(V[e]) /\ \A i \in 1 .. Len(V[e]) : W[e][i] = V[e][i]
    BY <1>7, <2>1
  <2> QED
    BY <1>7, <2>2 DEF IsChains, IsSeq
<1>9. ASSUME NEW i \in 1 .. Len(b.scopes[c]), i # n PROVE W[c][i] = V[c][i]
  <2>1. S[c][i] = b.scopes[c][i] /\ D[c][i] = d[c][i]
    BY <1>1, <1>4, <1>6, <1>9
  <2>2. /\ W[c][i] = ViewOf(S[c][i], P[c][Beside(c, i)], D[c][i])
        /\ V[c][i] = ViewOf(b.scopes[c][i], b.ptrs[c][Beside(c, i)], d[c][i])
    BY <1>4, <1>7
  <2>3. CASE Beside(c, i) # m
    <3>1. Beside(c, i) \in 1 .. Len(b.ptrs[c]) \ {m}
      BY <1>1, <2>3 DEF Beside, IsSeq
    <3> QED
      BY <1>5, <2>1, <2>2, <3>1
  <2>4. CASE Beside(c, i) = m
    <3>1. c = "fn" /\ i = 1
      BY <1>1, <1>9, <2>4 DEF Beside, IsSeq, m
    <3>2. DOMAIN b.scopes[c][i] = {}
      BY <3>1 DEF Good
    <3>3. \A f, p, q, g : DOMAIN f = {} => ViewOf(f, p, g) = ViewOf(f, q, g)
      BY DEF ViewOf
    <3> QED
      BY <2>1, <2>2, <3>2, <3>3
  <2> QED
    BY <2>3, <2>4
<1>10. W[c][n] = ViewOf(sf, pf, df)
  BY <1>4, <1>5, <1>6, <1>7 DEF m
<1> DEFINE w == ViewOf(sf, pf, df)
<1> HIDE DEF w
<1>11. W[c] = [V[c] EXCEPT ![n] = w]
  <2>1. Len(W[c]) = Len(V[c]) /\ Len(V[c]) = Len(b.scopes[c])
    BY <1>4, <1>7
  <2>2. W[c] = [i \in 1 .. Len(V[c]) |-> W[c][i]] /\ V[c] = [i \in 1 .. Len(V[c]) |-> V[c][i]]
    BY <1>7, <2>1 DEF IsChains, IsSeq
  <2>3. \A i \in 1 .. Len(V[c]) : W[c][i] = IF i = n THEN w ELSE V[c][i]
    BY <1>9, <1>10, <2>1 DEF w
  <2> QED
    BY <2>1, <2>2, <2>3
<1> QED
  BY <1>7, <1>8, <1>11 DEF Changed, IsChains, V, W, w

(* The view of a frame in which x gets a value or a reference.             *)
LEMMA PutView ==
  ASSUME NEW h, NEW sf, NEW pf, NEW df, Matched(sf, pf, df, h), NEW x, NEW t, NEW u, NEW r
  PROVE  ViewOf(Put(sf, x, [type |-> t, val |-> u]),
                IF t \in Class THEN Put(pf, x, r) ELSE pf, Put(df, x, t))
           = Put(ViewOf(sf, pf, df), x, [type |-> t, val |-> IF t \in Class THEN r ELSE u])
<1> DEFINE s2 == Put(sf, x, [type |-> t, val |-> u])
           p2 == IF t \in Class THEN Put(pf, x, r) ELSE pf
           d2 == Put(df, x, t)
           f == ViewOf(s2, p2, d2)
           g == Put(ViewOf(sf, pf, df), x, [type |-> t, val |-> IF t \in Class THEN r ELSE u])
<1>1. DOMAIN f = DOMAIN sf \cup {x} /\ DOMAIN g = DOMAIN sf \cup {x}
  BY DEF ViewOf, Put
<1>2. IsFrame(f) /\ IsFrame(g)
  BY DEF ViewOf, Put, IsFrame
<1>3. f[x] = g[x]
  BY DEF ViewOf, Put
<1>4. ASSUME NEW y \in DOMAIN sf \ {x} PROVE f[y] = g[y]
  <2>1. s2[y] = sf[y] /\ d2[y] = df[y] /\ (y \in DOMAIN pf => p2[y] = pf[y])
    BY DEF Put, Matched
  <2>2. f[y] = IF d2[y] \in Class THEN [type |-> d2[y], val |-> p2[y]] ELSE s2[y]
    <3>1. y \in DOMAIN s2
      BY DEF Put
    <3> HIDE DEF s2, p2, d2
    <3> QED
      BY <3>1 DEF ViewOf
  <2>3. g[y] = IF df[y] \in Class THEN [type |-> df[y], val |-> pf[y]] ELSE sf[y]
    BY DEF Put, ViewOf
  <2>4. df[y] \in Class => y \in DOMAIN pf
    BY DEF Matched
  <2> HIDE DEF f, g, s2, p2, d2
  <2> QED
    BY <2>1, <2>2, <2>3, <2>4
<1> HIDE DEF f, g
<1>5. f = g
  <2>1. \A y \in DOMAIN f : f[y] = g[y]
    BY <1>1, <1>3, <1>4
  <2> QED
    BY <1>1, <1>2, <2>1 DEF IsFrame
<1> QED
  BY <1>5 DEF f, g

(* Scope::decl of x as a t.                                                *)
LEMMA DeclaredGood ==
  ASSUME NEW b, NEW d, NEW h, NEW h2, Good(b, d, h),
         Len(h) \in Nat, Len(h2) \in Nat, Extends(h, h2),
         NEW c \in Chain, c = "fn" => Len(b.scopes[c]) > 1,
         NEW x \in Vars, NEW t \in Type, t \in Class => Fits(Len(heap) + 1, t, h2)
  PROVE  LET B == Declared(b, c, x, t)
             D == [d EXCEPT ![c][Len(d[c])] = Put(@, x, t)]
         IN  /\ Good(B, D, h2)
             /\ Sets(B, D, b, d, c, Len(b.scopes[c]), x,
                     [type |-> t, val |-> IF t \in Class THEN Len(heap) + 1 ELSE 0])
<1> DEFINE n == Len(b.scopes[c])
           sf == Put(b.scopes[c][n], x, [type |-> t, val |-> 0])
           pf == IF t \in Class THEN Put(b.ptrs[c][Beside(c, n)], x, Len(heap) + 1)
                 ELSE b.ptrs[c][Beside(c, n)]
           df == Put(d[c][n], x, t)
<1>1. n \in 1 .. n /\ Len(b.ptrs[c]) = Beside(c, n) /\ Len(d[c]) = n
  BY DEF Good, IsChains, IsSeq, Lengths
<1>2. Matched(b.scopes[c][n], b.ptrs[c][Beside(c, n)], d[c][n], h2)
  BY <1>1, MatchedStays DEF Good
<1>3. Matched(sf, pf, df, h2)
  BY <1>2, PutMatches
<1>4. c = "main" \/ n > 2 => DOMAIN pf \subseteq DOMAIN sf
  <2>1. DOMAIN sf = DOMAIN b.scopes[c][n] \cup {x}
    BY PutIs
  <2>2. DOMAIN pf \subseteq DOMAIN b.ptrs[c][Beside(c, n)] \cup {x}
    <3>1. CASE t \in Class
      <4>1. pf = Put(b.ptrs[c][Beside(c, n)], x, Len(heap) + 1)
        BY <3>1
      <4>2. DOMAIN Put(b.ptrs[c][Beside(c, n)], x, Len(heap) + 1)
              = DOMAIN b.ptrs[c][Beside(c, n)] \cup {x}
        BY PutIs
      <4> HIDE DEF pf
      <4> QED
        BY <4>1, <4>2
    <3>2. CASE t \notin Class
      <4>1. pf = b.ptrs[c][Beside(c, n)]
        BY <3>2
      <4> QED
        BY <4>1
    <3> QED
      BY <3>1, <3>2
  <2> HIDE DEF sf, pf, df
  <2> QED
    BY <1>1, <2>1, <2>2 DEF Good
<1>5. IsBoth(b)
  BY DEF Good
<1> DEFINE B == Declared(b, c, x, t)
<1>6. IsBoth(B)
  BY <1>5 DEF IsBoth, Declared
<1>7. Changed(B.scopes, b.scopes, c, n, sf)
  BY <1>5 DEF Declared, Changed, IsBoth
<1>8. Changed(B.ptrs, b.ptrs, c, Beside(c, n), pf)
  BY <1>1, <1>5 DEF Declared, Changed, IsBoth
<1> DEFINE D == [d EXCEPT ![c][Len(d[c])] = Put(@, x, t)]
           v == [type |-> t, val |-> IF t \in Class THEN Len(heap) + 1 ELSE 0]
<1>9. Changed(D, d, c, n, df)
  BY <1>1 DEF Changed
<1>10. Matched(b.scopes[c][n], b.ptrs[c][Beside(c, n)], d[c][n], h)
  BY <1>1 DEF Good
<1>11. ViewOf(sf, pf, df) = Put(ViewOf(b.scopes[c][n], b.ptrs[c][Beside(c, n)], d[c][n]), x, v)
  <2> DEFINE s0 == b.scopes[c][n]
             p0 == b.ptrs[c][Beside(c, n)]
             d0 == d[c][n]
  <2> HIDE DEF s0, p0, d0
  <2> QED
    BY <1>10, PutView DEF s0, p0, d0
<1> HIDE DEF n, sf, pf, df, B, D, v
<1>12. Good(B, D, h2)
  BY <1>1, <1>3, <1>4, <1>6, <1>7, <1>8, <1>9, Update DEF n
<1>13. Changed(View(B, D), View(b, d), c, n, ViewOf(sf, pf, df))
  BY <1>1, <1>7, <1>8, <1>9, <1>12, UpdateView DEF n
<1>14. View(b, d)[c][n] = ViewOf(b.scopes[c][n], b.ptrs[c][Beside(c, n)], d[c][n])
  BY <1>1, ViewIs DEF n
<1>15. Sets(B, D, b, d, c, n, x, v)
  BY <1>11, <1>13, <1>14 DEF Sets
<1> QED
  BY <1>12, <1>15 DEF n, B, D, v

(* The two searches end at the same declaration.                           *)
LEMMA SameFrame ==
  ASSUME NEW b, NEW d, NEW h, Good(b, d, h), NEW c \in Chain, NEW x,
         Innermost(b.scopes[c], x) # 0
  PROVE  LET i == Innermost(b.scopes[c], x)
         IN  /\ i \in 1 .. Len(b.scopes[c]) /\ x \in DOMAIN b.scopes[c][i]
             /\ Innermost(d[c], x) = i
             /\ c = "fn" => i > 1
             /\ Beside(c, i) \in 1 .. Len(b.ptrs[c])
             /\ d[c][i][x] \in Class => Innermost(b.ptrs[c], x) = Beside(c, i)
<1> DEFINE i == Innermost(b.scopes[c], x)
<1>1. /\ i \in 1 .. Len(b.scopes[c]) /\ x \in DOMAIN b.scopes[c][i]
      /\ \A j \in i + 1 .. Len(b.scopes[c]) : x \notin DOMAIN b.scopes[c][j]
  <2>1. Len(b.scopes[c]) \in Nat
    BY DEF Good, IsChains, IsSeq
  <2> QED
    BY <2>1, InnermostHas
<1> HIDE DEF i
<1>2. /\ Len(b.scopes[c]) \in Nat /\ Len(b.ptrs[c]) = Beside(c, Len(b.scopes[c]))
      /\ Len(d[c]) = Len(b.scopes[c])
  BY DEF Good, IsChains, IsSeq, Lengths
<1>3. \A j \in 1 .. Len(d[c]) : DOMAIN d[c][j] = DOMAIN b.scopes[c][j]
  BY <1>2 DEF Good, Matched
<1>4. Innermost(d[c], x) = i
  BY <1>1, <1>2, <1>3, InnermostIs
<1>5. c = "fn" => i > 1
  BY <1>1 DEF Good
<1>6. Beside(c, i) \in 1 .. Len(b.ptrs[c])
  BY <1>1, <1>2, <1>5 DEF Beside
<1>7. ASSUME d[c][i][x] \in Class PROVE Innermost(b.ptrs[c], x) = Beside(c, i)
  <2>1. x \in DOMAIN b.ptrs[c][Beside(c, i)]
    BY <1>1, <1>7 DEF Good, Matched
  <2>2. ASSUME NEW j \in Beside(c, i) + 1 .. Len(b.ptrs[c]) PROVE x \notin DOMAIN b.ptrs[c][j]
    <3> DEFINE k == IF c = "fn" THEN j + 1 ELSE j
    <3>1. /\ k \in i + 1 .. Len(b.scopes[c]) /\ Beside(c, k) = j
          /\ c = "main" \/ k > 2
      BY <1>1, <1>2, <1>5, <2>2 DEF Beside, Chain
    <3>2. DOMAIN b.ptrs[c][j] \subseteq DOMAIN b.scopes[c][k]
      BY <1>1, <3>1 DEF Good
    <3> QED
      BY <1>1, <3>1, <3>2
  <2> QED
    BY <1>2, <1>6, <2>1, <2>2, InnermostIs
<1> QED
  BY <1>1, <1>4, <1>5, <1>6, <1>7 DEF i

(* What IsClass tells from the text of a type is whether it is a class.    *)
LEMMA Classy ==
  ASSUME NEW v, v.type \in Type PROVE IsClass(v) <=> v.type \in Class
BY ClassesAssumption DEF IsClass, Type

(* Scope::assign of a value of the type x was declared with.               *)
LEMMA AssignedGood ==
  ASSUME NEW b, NEW d, NEW h, Good(b, d, h), Len(h) \in Nat, NEW c \in Chain,
         NEW x \in Vars, Innermost(b.scopes[c], x) # 0,
         NEW t, t = d[c][Innermost(d[c], x)][x],
         NEW v, v = [type |-> t, val |-> v.val], t \in Class => Fits(v.val, t, h)
  PROVE  LET B == Assigned(b, c, x, v)
         IN  Good(B, d, h) /\ Sets(B, d, b, d, c, Innermost(b.scopes[c], x), x, v)
<1> DEFINE n == Innermost(b.scopes[c], x)
           m == Beside(c, n)
           u == IF t \in Class THEN 0 ELSE v.val
           sf == Put(b.scopes[c][n], x, [type |-> t, val |-> u])
           pf == IF t \in Class THEN Put(b.ptrs[c][m], x, v.val) ELSE b.ptrs[c][m]
<1>1. /\ n \in 1 .. Len(b.scopes[c]) /\ x \in DOMAIN b.scopes[c][n]
      /\ Innermost(d[c], x) = n /\ m \in 1 .. Len(b.ptrs[c])
      /\ c = "fn" => n > 1
      /\ t \in Class => Innermost(b.ptrs[c], x) = m
  BY SameFrame
<1> HIDE DEF n, m
<1>2. Matched(b.scopes[c][n], b.ptrs[c][m], d[c][n], h)
  BY <1>1 DEF Good, m
<1>3. t \in Type /\ Put(d[c][n], x, t) = d[c][n]
  <2>0. DOMAIN d[c][n] = DOMAIN b.scopes[c][n] /\ IsFrame(d[c][n])
    BY <1>2 DEF Matched
  <2>1. x \in DOMAIN d[c][n] /\ t = d[c][n][x] /\ IsFrame(d[c][n])
    BY <1>1, <2>0
  <2>2. DOMAIN d[c][n] \cup {x} = DOMAIN d[c][n]
    BY <2>1
  <2>3. Put(d[c][n], x, t) = d[c][n]
    BY <2>1, <2>2 DEF Put, IsFrame
  <2> QED
    BY <1>1, <1>2, <2>3 DEF Matched
<1>4. Matched(sf, pf, d[c][n], h)
  BY <1>2, <1>3, PutMatches
<1>5. c = "main" \/ n > 2 => DOMAIN pf \subseteq DOMAIN sf
  <2>1. DOMAIN sf = DOMAIN b.scopes[c][n] \cup {x}
    BY PutIs
  <2>2. DOMAIN pf \subseteq DOMAIN b.ptrs[c][m] \cup {x}
    <3>1. CASE t \in Class
      <4>1. pf = Put(b.ptrs[c][m], x, v.val)
        BY <3>1
      <4>2. DOMAIN Put(b.ptrs[c][m], x, v.val) = DOMAIN b.ptrs[c][m] \cup {x}
        BY PutIs
      <4> HIDE DEF pf
      <4> QED
        BY <4>1, <4>2
    <3>2. CASE t \notin Class
      <4>1. pf = b.ptrs[c][m]
        BY <3>2
      <4> QED
        BY <4>1
    <3> QED
      BY <3>1, <3>2
  <2> HIDE DEF sf, pf
  <2> QED
    BY <1>1, <2>1, <2>2 DEF Good, m
<1> DEFINE B == Assigned(b, c, x, v)
<1>6. IsBoth(b) /\ n # 0 /\ IsChains(b.ptrs) /\ IsChains(d)
  BY <1>1 DEF Good
<1>7. v.type = t /\ (IsClass(v) <=> t \in Class)
  BY <1>3, Classy
<1>8. t = d[c][n][x]
  BY <1>1
<1>10. sf = Put(b.scopes[c][n], x, IF IsClass(v) THEN [v EXCEPT !.val = 0] ELSE v)
  <2>1. [type |-> t, val |-> u] = IF IsClass(v) THEN [v EXCEPT !.val = 0] ELSE v
    BY <1>7
  <2> HIDE DEF u
  <2> QED
    BY <2>1
<1>11. Changed(d, d, c, n, d[c][n])
  <2>1. n \in 1 .. Len(d[c])
    BY <1>1 DEF Good, Lengths
  <2> QED
    BY <1>6, <2>1, NoChange
<1>14. Extends(h, h)
  BY DEF Extends
<1>15. ViewOf(sf, pf, d[c][n]) = Put(ViewOf(b.scopes[c][n], b.ptrs[c][m], d[c][n]), x, v)
  <2>1. v = [type |-> t, val |-> IF t \in Class THEN v.val ELSE u]
    OBVIOUS
  <2> DEFINE s0 == b.scopes[c][n]
             p0 == b.ptrs[c][m]
             d0 == d[c][n]
             r == v.val
  <2>2. ViewOf(Put(s0, x, [type |-> t, val |-> u]),
               IF t \in Class THEN Put(p0, x, r) ELSE p0, Put(d0, x, t))
          = Put(ViewOf(s0, p0, d0), x, [type |-> t, val |-> IF t \in Class THEN r ELSE u])
    <3> HIDE DEF s0, p0, d0, u, r
    <3> QED
      BY <1>2, PutView DEF s0, p0, d0
  <2> QED
    BY <1>3, <2>1, <2>2
<1>16. View(b, d)[c][n] = ViewOf(b.scopes[c][n], b.ptrs[c][m], d[c][n])
  BY <1>1, ViewIs DEF m
<1> HIDE DEF sf, u
<1>12. CASE t \in Class
  <2>1. /\ Innermost(b.ptrs[c], x) = m /\ m # 0
        /\ x \in DOMAIN b.ptrs[c][m] /\ IsFrame(b.ptrs[c][m])
    <3>1. x \in DOMAIN b.ptrs[c][m] /\ IsFrame(b.ptrs[c][m])
      BY <1>1, <1>2, <1>8, <1>12 DEF Matched
    <3> QED
      BY <1>1, <1>12, <3>1
  <2>2. [b.ptrs[c][m] EXCEPT ![x] = v.val] = pf
    BY <1>12, <2>1 DEF Put, IsFrame
  <2> HIDE DEF pf
  <2>3. IsBoth(B)
    BY <1>1, <1>6, <1>7, <1>12, <2>1 DEF IsBoth, Assigned, n
  <2>4. Changed(B.scopes, b.scopes, c, n, sf)
    BY <1>1, <1>6, <1>7, <1>10, <1>12, <2>1 DEF IsBoth, Assigned, Changed, n
  <2>5. Changed(B.ptrs, b.ptrs, c, m, pf)
    BY <1>1, <1>6, <1>7, <1>12, <2>1, <2>2 DEF IsBoth, Assigned, Changed, n
  <2> HIDE DEF B
  <2>6. Good(B, d, h)
    BY <1>1, <1>4, <1>5, <1>11, <1>14, <2>3, <2>4, <2>5, Update DEF m
  <2>7. Changed(View(B, d), View(b, d), c, n, ViewOf(sf, pf, d[c][n]))
    BY <1>1, <1>11, <2>4, <2>5, <2>6, UpdateView DEF m
  <2>8. Sets(B, d, b, d, c, n, x, v)
    BY <1>15, <1>16, <2>7 DEF Sets
  <2> QED
    BY <2>6, <2>8 DEF B, n
<1>13. CASE t \notin Class
  <2>1. pf = b.ptrs[c][m] /\ Changed(b.ptrs, b.ptrs, c, m, pf)
    BY <1>1, <1>6, <1>13, NoChange
  <2> HIDE DEF pf
  <2>3. IsBoth(B)
    BY <1>1, <1>6, <1>7, <1>13 DEF IsBoth, Assigned, n
  <2>4. Changed(B.scopes, b.scopes, c, n, sf)
    BY <1>1, <1>6, <1>7, <1>10, <1>13 DEF IsBoth, Assigned, Changed, n
  <2>5. Changed(B.ptrs, b.ptrs, c, m, pf)
    BY <1>1, <1>6, <1>7, <1>13, <2>1 DEF IsBoth, Assigned, n
  <2> HIDE DEF B
  <2>6. Good(B, d, h)
    BY <1>1, <1>4, <1>5, <1>11, <1>14, <2>3, <2>4, <2>5, Update DEF m
  <2>7. Changed(View(B, d), View(b, d), c, n, ViewOf(sf, pf, d[c][n]))
    BY <1>1, <1>11, <2>4, <2>5, <2>6, UpdateView DEF m
  <2>8. Sets(B, d, b, d, c, n, x, v)
    BY <1>15, <1>16, <2>7 DEF Sets
  <2> QED
    BY <2>6, <2>8 DEF B, n
<1> QED
  BY <1>12, <1>13

(* The addPtr of main's decl writes the reference that is there.           *)
LEMMA AddedSame ==
  ASSUME NEW b, NEW d, NEW h, Good(b, d, h), NEW c \in Chain, c = "fn" => Len(b.scopes[c]) > 1,
         NEW x \in DOMAIN b.scopes[c][Len(b.scopes[c])]
  PROVE  Added(b, c, x) = b
<1> DEFINE n == Len(b.scopes[c])
           m == Beside(c, n)
<1>1. /\ n \in Nat /\ n > 0 /\ n \in 1 .. n /\ Len(b.ptrs[c]) = m /\ m \in 1 .. m
      /\ IsBoth(b) /\ IsChains(b.ptrs)
  BY DEF Good, IsChains, IsSeq, Lengths, Beside
<1>2. Innermost(b.scopes[c], x) = n
  BY <1>1, InnermostIs
<1>3. Innermost(d[c], x) = n /\ (d[c][n][x] \in Class => Innermost(b.ptrs[c], x) = m)
  BY <1>1, <1>2, SameFrame
<1>4. Matched(b.scopes[c][n], b.ptrs[c][m], d[c][n], h)
  BY <1>1 DEF Good
<1>5. IsClass(b.scopes[c][n][x]) <=> d[c][n][x] \in Class
  <2>0. x \in DOMAIN b.scopes[c][n]
    OBVIOUS
  <2> HIDE DEF n, m
  <2>2. /\ b.scopes[c][n][x] = [type |-> d[c][n][x], val |-> b.scopes[c][n][x].val]
        /\ d[c][n][x] \in Type
    BY <1>4, <2>0 DEF Matched
  <2>1. b.scopes[c][n][x].type = d[c][n][x] /\ d[c][n][x] \in Type
    BY <2>2
  <2> QED
    BY <2>1, Classy
<1>6. CASE ~IsClass(b.scopes[c][n][x])
  BY <1>2, <1>6 DEF Added
<1>7. CASE IsClass(b.scopes[c][n][x])
  <2>1. x \in DOMAIN b.ptrs[c][m] /\ IsFrame(b.ptrs[c][m])
    BY <1>4, <1>5, <1>7 DEF Matched
  <2>2. Put(b.ptrs[c][m], x, b.ptrs[c][m][x]) = b.ptrs[c][m]
    <3>1. DOMAIN b.ptrs[c][m] \cup {x} = DOMAIN b.ptrs[c][m]
      BY <2>1
    <3> QED
      BY <2>1, <3>1 DEF Put, IsFrame
  <2>3. Innermost(b.ptrs[c], x) = m /\ m # 0
    BY <1>1, <1>3, <1>5, <1>7
  <2> HIDE DEF n, m
  <2>4. Added(b, c, x) = [b EXCEPT !.ptrs[c][m] = b.ptrs[c][m]]
    BY <1>1, <1>2, <1>7, <2>2, <2>3 DEF Added
  <2>5. [b.ptrs EXCEPT ![c] = [@ EXCEPT ![m] = b.ptrs[c][m]]] = b.ptrs
    <3>1. m \in 1 .. Len(b.ptrs[c])
      BY <1>1
    <3> QED
      BY <1>1, <3>1, NoChange DEF Changed
  <2>6. [b EXCEPT !.ptrs = b.ptrs] = b
    BY <1>1 DEF IsBoth
  <2> QED
    BY <2>4, <2>5, <2>6
<1> QED
  BY <1>6, <1>7

(* A frame without names.                                                  *)
LEMMA EmptyFrame == IsFrame(<< >>) /\ DOMAIN << >> = {}
BY DEF IsFrame

(* An empty frame is pushed on chain c.                                    *)
Pushed(g, f, c) == g = [f EXCEPT ![c] = Append(@, << >>)]

(* An iteration begins: a Scope and an LSRScope.                           *)
LEMMA LoopGood ==
  ASSUME NEW b, NEW d, NEW h, Good(b, d, h), NEW c \in Chain, c = "fn" => Len(b.scopes[c]) > 1,
         NEW B, IsBoth(B), Pushed(B.scopes, b.scopes, c), Pushed(B.ptrs, b.ptrs, c),
         NEW D, Pushed(D, d, c)
  PROVE  Good(B, D, h)
<1> DEFINE S == B.scopes
           P == B.ptrs
           n == Len(b.scopes[c])
<1>1. /\ IsSeq(b.scopes[c]) /\ IsSeq(b.ptrs[c]) /\ IsSeq(d[c]) /\ n \in Nat /\ n > 0
      /\ Len(d[c]) = n /\ Len(b.ptrs[c]) = Beside(c, n) /\ Beside(c, n) \in Nat
  BY DEF Good, IsChains, Lengths, IsSeq
<1>2. /\ S[c] = Append(b.scopes[c], << >>) /\ P[c] = Append(b.ptrs[c], << >>)
      /\ D[c] = Append(d[c], << >>)
      /\ \A e \in Chain \ {c} : S[e] = b.scopes[e] /\ P[e] = b.ptrs[e] /\ D[e] = d[e]
      /\ S = [e \in Chain |-> S[e]] /\ P = [e \in Chain |-> P[e]] /\ D = [e \in Chain |-> D[e]]
  BY DEF Good, IsChains, Pushed
<1> HIDE DEF S, P
<1>3. /\ IsSeq(S[c]) /\ Len(S[c]) = n + 1 /\ S[c][n + 1] = << >>
      /\ \A i \in 1 .. n : S[c][i] = b.scopes[c][i]
  BY <1>1, <1>2, Appending
<1>4. /\ IsSeq(D[c]) /\ Len(D[c]) = n + 1 /\ D[c][n + 1] = << >>
      /\ \A i \in 1 .. n : D[c][i] = d[c][i]
  BY <1>1, <1>2, Appending
<1>5. /\ IsSeq(P[c]) /\ Len(P[c]) = Beside(c, n) + 1 /\ P[c][Beside(c, n) + 1] = << >>
      /\ \A i \in 1 .. Beside(c, n) : P[c][i] = b.ptrs[c][i]
  BY <1>1, <1>2, Appending
<1>6. Beside(c, n + 1) = Beside(c, n) + 1
  BY <1>1 DEF Beside
<1>7. IsChains(S) /\ IsChains(P) /\ IsChains(D)
  BY <1>2, <1>3, <1>4, <1>5 DEF Good, IsChains
<1>8. Lengths(B, D)
  <2>1. \A e \in Chain \ {c} : /\ Len(S[e]) > 0 /\ Len(D[e]) = Len(S[e])
                               /\ Len(P[e]) = Beside(e, Len(S[e]))
    BY <1>2 DEF Good, Lengths
  <2>2. Len(S[c]) > 0 /\ Len(D[c]) = Len(S[c])
    BY <1>1, <1>3, <1>4
  <2>3. Len(P[c]) = Beside(c, Len(S[c]))
    BY <1>3, <1>5, <1>6
  <2> QED
    BY <2>1, <2>2, <2>3 DEF Lengths, S, P
<1>9. DOMAIN S["fn"][1] = {}
  <2>1. CASE c = "fn"
    BY <1>1, <1>3, <2>1 DEF Good
  <2>2. CASE c # "fn"
    BY <1>2, <2>2 DEF Good, Chain
  <2> QED
    BY <2>1, <2>2
<1>10. ASSUME NEW e \in Chain, NEW i \in 1 .. Len(S[e])
       PROVE  /\ Matched(S[e][i], P[e][Beside(e, i)], D[e][i], h)
              /\ e = "main" \/ i > 2 => DOMAIN P[e][Beside(e, i)] \subseteq DOMAIN S[e][i]
  <2>1. CASE e # c
    BY <1>2, <2>1 DEF Good
  <2>2. CASE e = c /\ i = n + 1
    BY <1>3, <1>4, <1>5, <1>6, <2>2, EmptyFrame DEF Matched
  <2>3. CASE e = c /\ i # n + 1
    <3>1. i \in 1 .. n /\ Beside(c, i) \in 1 .. Beside(c, n)
      BY <1>1, <1>3, <2>3 DEF Beside
    <3>2. /\ S[e][i] = b.scopes[c][i] /\ D[e][i] = d[c][i]
          /\ P[e][Beside(e, i)] = b.ptrs[c][Beside(c, i)]
      BY <1>3, <1>4, <1>5, <2>3, <3>1
    <3> QED
      BY <2>3, <3>1, <3>2 DEF Good
  <2> QED
    BY <2>1, <2>2, <2>3
<1> QED
  BY <1>7, <1>8, <1>9, <1>10 DEF Good, S, P

(* A call of a function begins: a Scope, beside the outermost LSRScope.    *)
LEMMA CallGood ==
  ASSUME NEW b, NEW d, NEW h, Good(b, d, h), NEW c \in Chain, c = "fn",
         Len(b.scopes[c]) = 1,
         NEW D, D = [d EXCEPT ![c] = Append(@, << >>)]
  PROVE  Good(NewScope(b, c), D, h)
<1> DEFINE B == NewScope(b, c)
           S == B.scopes
           P == B.ptrs
<1>0. IsBoth(b)
  BY DEF Good, Chain
<1>1. /\ IsSeq(b.scopes[c]) /\ IsSeq(b.ptrs[c]) /\ IsSeq(d[c])
      /\ Len(d[c]) = 1 /\ Len(b.ptrs[c]) = 1
  <2>1. IsSeq(b.scopes[c]) /\ IsSeq(b.ptrs[c]) /\ IsSeq(d[c])
    BY <1>0 DEF Good, IsChains
  <2>2. Len(d[c]) = 1 /\ Len(b.ptrs[c]) = Beside(c, 1)
    BY <1>0 DEF Good, Lengths
  <2> QED
    BY <2>1, <2>2 DEF Beside
<1>2. IsBoth(B) /\ P = b.ptrs /\ S = [b.scopes EXCEPT ![c] = Append(@, << >>)]
  BY <1>0 DEF IsBoth, NewScope
<1> HIDE DEF B
<1>3. /\ S[c] = Append(b.scopes[c], << >>) /\ D[c] = Append(d[c], << >>)
      /\ \A e \in Chain \ {c} : S[e] = b.scopes[e] /\ D[e] = d[e]
      /\ S = [e \in Chain |-> S[e]] /\ D = [e \in Chain |-> D[e]]
  BY <1>2 DEF Good, IsChains
<1> HIDE DEF S, P
<1>4. /\ IsSeq(S[c]) /\ Len(S[c]) = 2 /\ S[c][2] = << >> /\ S[c][1] = b.scopes[c][1]
  <2>1. /\ IsSeq(S[c]) /\ Len(S[c]) = 1 + 1 /\ S[c][1 + 1] = << >>
        /\ \A i \in 1 .. 1 : S[c][i] = b.scopes[c][i]
    <3>1. /\ IsSeq(Append(b.scopes[c], << >>)) /\ Len(Append(b.scopes[c], << >>)) = Len(b.scopes[c]) + 1
          /\ \A i \in 1 .. Len(b.scopes[c]) : Append(b.scopes[c], << >>)[i] = b.scopes[c][i]
          /\ Append(b.scopes[c], << >>)[Len(b.scopes[c]) + 1] = << >>
      BY <1>1, Appending
    <3> QED
      BY <1>1, <1>3, <3>1
  <2> QED
    BY <2>1
<1>5. /\ IsSeq(D[c]) /\ Len(D[c]) = 2 /\ D[c][2] = << >> /\ D[c][1] = d[c][1]
  <2>1. /\ IsSeq(D[c]) /\ Len(D[c]) = 1 + 1 /\ D[c][1 + 1] = << >>
        /\ \A i \in 1 .. 1 : D[c][i] = d[c][i]
    <3>1. /\ IsSeq(Append(d[c], << >>)) /\ Len(Append(d[c], << >>)) = Len(d[c]) + 1
          /\ \A i \in 1 .. Len(d[c]) : Append(d[c], << >>)[i] = d[c][i]
          /\ Append(d[c], << >>)[Len(d[c]) + 1] = << >>
      BY <1>1, Appending
    <3> QED
      BY <1>1, <1>3, <3>1
  <2> QED
    BY <2>1
<1>6. IsChains(S) /\ IsChains(P) /\ IsChains(D)
  BY <1>2, <1>3, <1>4, <1>5 DEF Good, IsChains
<1>7. Lengths(B, D)
  BY <1>1, <1>2, <1>3, <1>4, <1>5 DEF Good, Lengths, Beside, S, P
<1>8. DOMAIN S[c][1] = {}
  BY <1>4 DEF Good
<1>9. ASSUME NEW e \in Chain, NEW i \in 1 .. Len(S[e])
      PROVE  /\ Matched(S[e][i], P[e][Beside(e, i)], D[e][i], h)
             /\ e = "main" \/ i > 2 => DOMAIN P[e][Beside(e, i)] \subseteq DOMAIN S[e][i]
  <2>1. CASE e # c
    BY <1>2, <1>3, <2>1 DEF Good
  <2>2. CASE e = c
    <3>5. Len(S[e]) = 2
      BY <1>4, <2>2
    <3>0. i \in {1, 2} /\ 1 \in 1 .. Len(b.scopes[c])
      BY <3>5
    <3>1. Beside(e, i) = 1 /\ i \in {1, 2} /\ 1 \in 1 .. Len(b.scopes[c]) /\ Beside(c, 1) = 1
      BY <2>2, <3>0 DEF Beside
    <3>2. Matched(b.scopes[c][1], b.ptrs[c][1], d[c][1], h)
      BY <1>0, <3>1 DEF Good
    <3>3. Matched(<< >>, b.ptrs[c][1], << >>, h)
      BY <3>2, EmptyFrame DEF Matched
    <3> QED
      BY <1>2, <1>4, <1>5, <2>2, <3>1, <3>2, <3>3
  <2> QED
    BY <2>1, <2>2
<1> QED
  BY <1>2, <1>6, <1>7, <1>8, <1>9 DEF Good, S, P, B

(* The innermost frame of chain c is dropped.                              *)
Shortened(g, f, c) == g = [f EXCEPT ![c] = SubSeq(@, 1, Len(@) - 1)]

(* An iteration or a call ends: with the last Scope goes its LSRScope, but *)
(* that of functions stays.                                                *)
LEMMA CloseGood ==
  ASSUME NEW b, NEW d, NEW h, Good(b, d, h), NEW c \in Chain,
         Len(b.scopes[c]) > 1,
         NEW B, IsBoth(B), Shortened(B.scopes, b.scopes, c),
         IF c = "fn" /\ Len(b.scopes[c]) <= 2 THEN B.ptrs = b.ptrs
         ELSE Shortened(B.ptrs, b.ptrs, c),
         NEW D, Shortened(D, d, c)
  PROVE  Good(B, D, h)
<1> DEFINE S == B.scopes
           P == B.ptrs
           n == Len(b.scopes[c]) - 1
           m == Beside(c, n)
<1>1. /\ IsSeq(b.scopes[c]) /\ IsSeq(b.ptrs[c]) /\ IsSeq(d[c]) /\ n \in Nat /\ n > 0
      /\ n \in 0 .. Len(b.scopes[c]) /\ n \in 0 .. Len(d[c]) /\ m \in 0 .. Len(b.ptrs[c])
      /\ Len(b.scopes[c]) = n + 1 /\ Len(d[c]) = n + 1
      /\ Len(b.ptrs[c]) = Beside(c, n + 1)
  <2>1. /\ IsSeq(b.scopes[c]) /\ IsSeq(b.ptrs[c]) /\ IsSeq(d[c])
        /\ Len(d[c]) = Len(b.scopes[c]) /\ Len(b.ptrs[c]) = Beside(c, Len(b.scopes[c]))
        /\ Len(b.scopes[c]) \in Nat
    BY DEF Good, IsChains, Lengths, IsSeq
  <2>2. /\ n \in Nat /\ n > 0 /\ Len(b.scopes[c]) = n + 1
        /\ n \in 0 .. Len(b.scopes[c])
    BY <2>1
  <2> HIDE DEF n
  <2>3. Len(d[c]) = n + 1 /\ n \in 0 .. Len(d[c]) /\ Len(b.ptrs[c]) = Beside(c, n + 1)
    BY <2>1, <2>2
  <2>4. m \in 0 .. Beside(c, n + 1)
    BY <2>2 DEF Beside
  <2> QED
    BY <2>1, <2>2, <2>3, <2>4
<1>2. /\ S[c] = SubSeq(b.scopes[c], 1, n) /\ D[c] = SubSeq(d[c], 1, n)
      /\ \A e \in Chain \ {c} : S[e] = b.scopes[e] /\ P[e] = b.ptrs[e] /\ D[e] = d[e]
      /\ S = [e \in Chain |-> S[e]] /\ P = [e \in Chain |-> P[e]] /\ D = [e \in Chain |-> D[e]]
  BY <1>1 DEF Good, IsChains, Shortened
<1> HIDE DEF n
<1>3. /\ IsSeq(P[c]) /\ Len(P[c]) = m /\ \A i \in 1 .. m : P[c][i] = b.ptrs[c][i]
  <2>1. CASE c = "fn" /\ Len(b.scopes[c]) <= 2
    <3>1. P = b.ptrs
      BY <2>1
    <3>2. n = 1
      BY <1>1, <2>1
    <3>3. m = 1 /\ Len(b.ptrs[c]) = 1
      BY <1>1, <2>1, <3>2 DEF Beside
    <3> HIDE DEF P, m
    <3> QED
      BY <1>1, <3>1, <3>3
  <2>2. CASE ~(c = "fn" /\ Len(b.scopes[c]) <= 2)
    <3>1. P[c] = SubSeq(b.ptrs[c], 1, Len(b.ptrs[c]) - 1)
      BY <2>2 DEF Good, IsChains, Shortened
    <3>2. Len(b.ptrs[c]) - 1 = m
      BY <1>1, <2>2 DEF Beside
    <3> HIDE DEF P, m
    <3> QED
      BY <1>1, <3>1, <3>2, Cutting
  <2> QED
    BY <2>1, <2>2
<1> HIDE DEF S, P
<1>4. /\ IsSeq(S[c]) /\ Len(S[c]) = n /\ \A i \in 1 .. n : S[c][i] = b.scopes[c][i]
  BY <1>1, <1>2, Cutting
<1>5. /\ IsSeq(D[c]) /\ Len(D[c]) = n /\ \A i \in 1 .. n : D[c][i] = d[c][i]
  BY <1>1, <1>2, Cutting
<1>7. IsChains(S) /\ IsChains(P) /\ IsChains(D)
  BY <1>2, <1>3, <1>4, <1>5 DEF Good, IsChains
<1>8. Lengths(B, D)
  <2>1. ASSUME NEW e \in Chain
        PROVE  Len(S[e]) > 0 /\ Len(D[e]) = Len(S[e]) /\ Len(P[e]) = Beside(e, Len(S[e]))
    <3>1. CASE e = c
      BY <1>1, <1>3, <1>4, <1>5, <3>1
    <3>2. CASE e # c
      BY <1>2, <3>2 DEF Good, Lengths
    <3> QED
      BY <3>1, <3>2
  <2> QED
    BY <2>1 DEF Lengths, S, P
<1>9. DOMAIN S["fn"][1] = {}
  <2>1. CASE c = "fn"
    <3>1. S[c][1] = b.scopes[c][1]
      BY <1>1, <1>4
    <3> QED
      BY <2>1, <3>1 DEF Good
  <2>2. CASE c # "fn"
    BY <1>2, <2>2 DEF Good, Chain
  <2> QED
    BY <2>1, <2>2
<1>10. ASSUME NEW e \in Chain, NEW i \in 1 .. Len(S[e])
       PROVE  /\ Matched(S[e][i], P[e][Beside(e, i)], D[e][i], h)
              /\ e = "main" \/ i > 2 => DOMAIN P[e][Beside(e, i)] \subseteq DOMAIN S[e][i]
  <2>1. CASE e # c
    BY <1>2, <2>1 DEF Good
  <2>3. CASE e = c
    <3>1. i \in 1 .. n /\ i \in 1 .. Len(b.scopes[c]) /\ Beside(c, i) \in 1 .. m
      BY <1>1, <1>4, <2>3 DEF Beside
    <3>2. /\ S[e][i] = b.scopes[c][i] /\ D[e][i] = d[c][i]
          /\ P[e][Beside(e, i)] = b.ptrs[c][Beside(c, i)]
      BY <1>3, <1>4, <1>5, <2>3, <3>1
    <3> QED
      BY <2>3, <3>1, <3>2 DEF Good
  <2> QED
    BY <2>1, <2>3
<1> QED
  BY <1>7, <1>8, <1>9, <1>10 DEF Good, S, P

(* x gets a value right after it got another.                              *)
LEMMA SetsTwice ==
  ASSUME NEW f, IsChains(f), NEW c \in Chain, NEW n \in 1 .. Len(f[c]), NEW x, NEW u, NEW v,
         NEW g, Changed(g, f, c, n, Put(f[c][n], x, u)),
         NEW k, Changed(k, g, c, n, Put(g[c][n], x, v))
  PROVE  Changed(k, f, c, n, Put(f[c][n], x, v))
<1> DEFINE p == Put(f[c][n], x, u)
           q == Put(f[c][n], x, v)
<1>1. IsSeq(f[c]) /\ f = [e \in Chain |-> f[e]]
  BY DEF IsChains
<1>2. Put(p, x, v) = q
  BY DEF Put
<1> HIDE DEF p, q
<1>3. Changed(g, f, c, n, p)
  BY DEF p
<1>4. g[c] = [f[c] EXCEPT ![n] = p] /\ g[c][n] = p
  BY <1>1, <1>3 DEF Changed, IsSeq
<1>5. Changed(k, g, c, n, q)
  BY <1>2, <1>4
<1>6. k[c] = [f[c] EXCEPT ![n] = q]
  BY <1>1, <1>3, <1>4, <1>5 DEF Changed, IsSeq
<1>7. k = [f EXCEPT ![c] = [f[c] EXCEPT ![n] = q]]
  BY <1>1, <1>3, <1>5, <1>6 DEF Changed
<1> QED
  BY <1>7 DEF Changed, q

(* The view of an empty frame is empty.                                    *)
LEMMA EmptyView ==
  ASSUME NEW pf, NEW df PROVE ViewOf(<< >>, pf, df) = << >>
<1>1. DOMAIN ViewOf(<< >>, pf, df) = {} /\ IsFrame(ViewOf(<< >>, pf, df))
  BY EmptyFrame DEF ViewOf, IsFrame
<1> QED
  BY <1>1, EmptyFrame DEF IsFrame

(* A Scope is pushed; the LSRScopes beside the others stay.                *)
LEMMA PushView ==
  ASSUME NEW b, NEW d, NEW h, Good(b, d, h), NEW B, NEW D, Good(B, D, h),
         NEW c \in Chain, Pushed(B.scopes, b.scopes, c), Pushed(D, d, c),
         \A e \in Chain : \A i \in 1 .. Len(b.scopes[e]) :
           B.ptrs[e][Beside(e, i)] = b.ptrs[e][Beside(e, i)]
  PROVE  Pushed(View(B, D), View(b, d), c)
<1> DEFINE V == View(b, d)
           W == View(B, D)
           S == B.scopes
           n == Len(b.scopes[c])
<1>1. /\ IsChains(V) /\ IsChains(W)
      /\ \A e \in Chain : /\ Len(V[e]) = Len(b.scopes[e]) /\ Len(W[e]) = Len(S[e])
                          /\ \A i \in 1 .. Len(b.scopes[e]) :
                               V[e][i] = ViewOf(b.scopes[e][i], b.ptrs[e][Beside(e, i)], d[e][i])
                          /\ \A i \in 1 .. Len(S[e]) :
                               W[e][i] = ViewOf(S[e][i], B.ptrs[e][Beside(e, i)], D[e][i])
  BY ViewIs
<1>2. /\ IsSeq(b.scopes[c]) /\ IsSeq(d[c]) /\ n \in Nat /\ Len(d[c]) = n
  BY DEF Good, IsChains, Lengths, IsSeq
<1>3. /\ S[c] = Append(b.scopes[c], << >>) /\ D[c] = Append(d[c], << >>)
      /\ \A e \in Chain \ {c} : S[e] = b.scopes[e] /\ D[e] = d[e]
  BY DEF Good, IsChains, Pushed
<1> HIDE DEF V, W, S
<1>4. /\ Len(S[c]) = n + 1 /\ S[c][n + 1] = << >> /\ \A i \in 1 .. n : S[c][i] = b.scopes[c][i]
  BY <1>2, <1>3, Appending
<1>5. \A i \in 1 .. n : D[c][i] = d[c][i]
  BY <1>2, <1>3, Appending
<1>6. \A e \in Chain \ {c} : W[e] = V[e]
  <2> SUFFICES ASSUME NEW e \in Chain \ {c} PROVE W[e] = V[e]
    OBVIOUS
  <2>1. Len(W[e]) = Len(V[e]) /\ \A i \in 1 .. Len(V[e]) : W[e][i] = V[e][i]
    BY <1>1, <1>3
  <2> QED
    BY <1>1, <2>1 DEF IsChains, IsSeq
<1>7. \A i \in 1 .. n : W[c][i] = V[c][i]
  <2> SUFFICES ASSUME NEW i \in 1 .. n PROVE W[c][i] = V[c][i]
    OBVIOUS
  <2>1. i \in 1 .. Len(S[c]) /\ S[c][i] = b.scopes[c][i] /\ D[c][i] = d[c][i]
    BY <1>2, <1>4, <1>5
  <2> QED
    BY <1>1, <2>1
<1>8. W[c][n + 1] = << >>
  <2>1. n + 1 \in 1 .. Len(S[c])
    BY <1>2, <1>4
  <2> QED
    BY <1>1, <1>4, <2>1, EmptyView
<1> HIDE DEF n
<1>9. W[c] = Append(V[c], << >>)
  <2> DEFINE a == Append(V[c], << >>)
  <2>1. IsSeq(V[c]) /\ Len(V[c]) = n /\ IsSeq(W[c]) /\ Len(W[c]) = n + 1
    BY <1>1, <1>4 DEF IsChains, n
  <2>2. IsSeq(a) /\ Len(a) = n + 1 /\ a[n + 1] = << >> /\ \A i \in 1 .. n : a[i] = V[c][i]
    BY <2>1, Appending
  <2> HIDE DEF a
  <2>3. \A i \in 1 .. n + 1 : i \in 1 .. n \/ i = n + 1
    BY <1>2
  <2>4. \A i \in 1 .. n + 1 : a[i] = W[c][i]
    BY <1>7, <1>8, <2>2, <2>3
  <2>5. a = [i \in 1 .. n + 1 |-> a[i]] /\ W[c] = [i \in 1 .. n + 1 |-> W[c][i]]
    BY <2>1, <2>2 DEF IsSeq
  <2>6. a = W[c]
    BY <2>4, <2>5
  <2> QED
    BY <2>6 DEF a
<1> QED
  BY <1>1, <1>6, <1>9 DEF IsChains, Pushed, V, W

(* A Scope is dropped; the LSRScopes beside the others stay.               *)
LEMMA CutView ==
  ASSUME NEW b, NEW d, NEW h, Good(b, d, h), NEW B, NEW D, Good(B, D, h),
         NEW c \in Chain, Shortened(B.scopes, b.scopes, c), Shortened(D, d, c),
         \A e \in Chain : \A i \in 1 .. Len(B.scopes[e]) :
           B.ptrs[e][Beside(e, i)] = b.ptrs[e][Beside(e, i)]
  PROVE  Shortened(View(B, D), View(b, d), c)
<1> DEFINE V == View(b, d)
           W == View(B, D)
           S == B.scopes
           n == Len(b.scopes[c]) - 1
<1>1. /\ IsChains(V) /\ IsChains(W)
      /\ \A e \in Chain : /\ Len(V[e]) = Len(b.scopes[e]) /\ Len(W[e]) = Len(S[e])
                          /\ \A i \in 1 .. Len(b.scopes[e]) :
                               V[e][i] = ViewOf(b.scopes[e][i], b.ptrs[e][Beside(e, i)], d[e][i])
                          /\ \A i \in 1 .. Len(S[e]) :
                               W[e][i] = ViewOf(S[e][i], B.ptrs[e][Beside(e, i)], D[e][i])
  BY ViewIs
<1>2. /\ IsSeq(b.scopes[c]) /\ IsSeq(d[c]) /\ n \in 0 .. Len(b.scopes[c])
      /\ Len(d[c]) = Len(b.scopes[c]) /\ Len(b.scopes[c]) \in Nat
  BY DEF Good, IsChains, Lengths, IsSeq
<1>3. /\ S[c] = SubSeq(b.scopes[c], 1, n) /\ D[c] = SubSeq(d[c], 1, n)
      /\ \A e \in Chain \ {c} : S[e] = b.scopes[e] /\ D[e] = d[e]
  BY <1>2 DEF Good, IsChains, Shortened
<1> HIDE DEF V, W, S
<1>4. Len(S[c]) = n /\ \A i \in 1 .. n : S[c][i] = b.scopes[c][i]
  BY <1>2, <1>3, Cutting
<1>5. \A i \in 1 .. n : D[c][i] = d[c][i]
  BY <1>2, <1>3, Cutting
<1>6. \A e \in Chain \ {c} : W[e] = V[e]
  <2> SUFFICES ASSUME NEW e \in Chain \ {c} PROVE W[e] = V[e]
    OBVIOUS
  <2>0. S[e] = b.scopes[e] /\ D[e] = d[e]
    BY <1>3
  <2>1. Len(W[e]) = Len(V[e]) /\ \A i \in 1 .. Len(V[e]) : W[e][i] = V[e][i]
    BY <1>1, <2>0 DEF S
  <2> QED
    BY <1>1, <2>1 DEF IsChains, IsSeq
<1>7. \A i \in 1 .. n : W[c][i] = V[c][i]
  <2> SUFFICES ASSUME NEW i \in 1 .. n PROVE W[c][i] = V[c][i]
    OBVIOUS
  <2>1. i \in 1 .. Len(S[c]) /\ i \in 1 .. Len(b.scopes[c])
        /\ S[c][i] = b.scopes[c][i] /\ D[c][i] = d[c][i]
    BY <1>2, <1>4, <1>5
  <2>2. B.ptrs[c][Beside(c, i)] = b.ptrs[c][Beside(c, i)]
    BY <2>1 DEF S
  <2> QED
    BY <1>1, <2>1, <2>2
<1>8. W[c] = SubSeq(V[c], 1, Len(V[c]) - 1)
  <2> DEFINE a == SubSeq(V[c], 1, n)
  <2>0. IsSeq(V[c]) /\ Len(V[c]) = Len(b.scopes[c]) /\ IsSeq(W[c]) /\ Len(W[c]) = n
    BY <1>1, <1>4 DEF IsChains
  <2>7. Len(V[c]) - 1 = n
    BY <2>0
  <2> HIDE DEF n
  <2>1. n \in 0 .. Len(V[c])
    BY <1>2, <2>0
  <2>2. IsSeq(a) /\ Len(a) = n /\ \A i \in 1 .. n : a[i] = V[c][i]
    BY <2>0, <2>1, Cutting
  <2> HIDE DEF a
  <2>4. \A i \in 1 .. n : a[i] = W[c][i]
    BY <1>7, <2>2
  <2>5. a = [i \in 1 .. n |-> a[i]] /\ W[c] = [i \in 1 .. n |-> W[c][i]]
    BY <2>0, <2>2 DEF IsSeq
  <2>6. a = W[c]
    BY <2>4, <2>5
  <2> QED
    BY <2>6, <2>7 DEF a
<1> QED
  BY <1>1, <1>6, <1>8 DEF IsChains, Shortened, V, W

(***************************************************************************)
(* Objects                                                                 *)
(***************************************************************************)

(* One sequence after another.                                             *)
LEMMA Concatenating ==
  ASSUME NEW s, IsSeq(s), NEW t, IsSeq(t)
  PROVE  /\ IsSeq(s \o t) /\ Len(s \o t) = Len(s) + Len(t)
         /\ \A i \in 1 .. Len(s) : (s \o t)[i] = s[i]
         /\ \A i \in 1 .. Len(t) : (s \o t)[Len(s) + i] = t[i]
<1> DEFINE S == {s[i] : i \in 1 .. Len(s)} \cup {t[i] : i \in 1 .. Len(t)}
<1>1. s \in Seq(S) /\ t \in Seq(S) /\ Len(s) \in Nat /\ Len(t) \in Nat
  BY DEF IsSeq
<1> HIDE DEF S
<1>2. /\ s \o t \in Seq(S) /\ Len(s \o t) = Len(s) + Len(t)
      /\ \A i \in 1 .. Len(s) + Len(t) :
           (s \o t)[i] = IF i <= Len(s) THEN s[i] ELSE t[i - Len(s)]
  BY <1>1, ConcatProperties
<1>3. s \o t = [i \in 1 .. Len(s \o t) |-> (s \o t)[i]]
  BY <1>2, LenProperties
<1>4. IsSeq(s \o t)
  BY <1>1, <1>2, <1>3 DEF IsSeq
<1> QED
  BY <1>1, <1>2, <1>4

(* A class's members of class type are numbered from 0 by Before.          *)
LEMMA ReferencesNumbered ==
  ASSUME NEW t \in Class
  PROVE  /\ References(t) \subseteq 1 .. Len(Fields[t])
         /\ Cardinality(References(t)) \in Nat
         /\ \A k \in References(t) : Before(t, k) \in 0 .. Cardinality(References(t)) - 1
         /\ \A k, l \in References(t) : Before(t, k) = Before(t, l) => k = l
         /\ \A i \in 0 .. Cardinality(References(t)) - 1 :
              \E k \in References(t) : Before(t, k) = i
<1> DEFINE R == References(t)
           B(k) == {j \in R : j < k}
<1>1. R \subseteq 1 .. Len(Fields[t]) /\ Len(Fields[t]) \in Nat
  BY ClassesAssumption DEF References
<1>2. IsFiniteSet(R) /\ Cardinality(R) \in Nat
  <2> HIDE DEF R
  <2>1. IsFiniteSet(1 .. Len(Fields[t]))
    BY <1>1, FS_Interval
  <2>2. IsFiniteSet(R)
    BY <1>1, <2>1, FS_Subset
  <2> QED
    BY <2>2, FS_CardinalityType
<1> HIDE DEF R
<1>3. \A k : IsFiniteSet(B(k)) /\ Cardinality(B(k)) \in Nat
  BY <1>2, FS_Subset, FS_CardinalityType
<1>4. ASSUME NEW k \in R, NEW T, IsFiniteSet(T), B(k) \cup {k} \subseteq T
      PROVE  Cardinality(B(k)) < Cardinality(T)
  <2>1. k \notin B(k)
    BY <1>1
  <2>2. Cardinality(B(k) \cup {k}) = Cardinality(B(k)) + 1
    BY <1>3, <2>1, FS_AddElement
  <2>3. Cardinality(B(k) \cup {k}) <= Cardinality(T)
    BY <1>4, FS_Subset
  <2>4. Cardinality(T) \in Nat
    BY <1>4, FS_CardinalityType
  <2> HIDE DEF B
  <2> QED
    BY <1>3, <2>2, <2>3, <2>4
<1>5. \A k \in R : Cardinality(B(k)) < Cardinality(R)
  <2> SUFFICES ASSUME NEW k \in R PROVE Cardinality(B(k)) < Cardinality(R)
    OBVIOUS
  <2>1. B(k) \cup {k} \subseteq R
    OBVIOUS
  <2> QED
    BY <1>2, <1>4, <2>1
<1>6. \A k, l \in R : k < l => Cardinality(B(k)) < Cardinality(B(l))
  <2> SUFFICES ASSUME NEW k \in R, NEW l \in R, k < l PROVE Cardinality(B(k)) < Cardinality(B(l))
    OBVIOUS
  <2>0. \A j \in R : j \in Int
    BY <1>1
  <2>1. B(k) \cup {k} \subseteq B(l)
    BY <2>0
  <2> QED
    BY <1>3, <1>4, <2>1
<1>7. \A k : Before(t, k) = Cardinality(B(k))
  BY DEF Before, R
<1> HIDE DEF B
<1>8. \A k \in R : Before(t, k) \in 0 .. Cardinality(R) - 1
  BY <1>2, <1>3, <1>5, <1>7
<1>9. \A k, l \in R : Before(t, k) = Before(t, l) => k = l
  <2> SUFFICES ASSUME NEW k \in R, NEW l \in R, k # l PROVE Before(t, k) # Before(t, l)
    OBVIOUS
  <2>1. k < l \/ l < k
    BY <1>1
  <2>2. Cardinality(B(k)) \in Nat /\ Cardinality(B(l)) \in Nat
    BY <1>3
  <2>3. Cardinality(B(k)) < Cardinality(B(l)) \/ Cardinality(B(l)) < Cardinality(B(k))
    BY <1>6, <2>1
  <2> QED
    BY <1>7, <2>2, <2>3
<1>10. \A i \in 0 .. Cardinality(R) - 1 : \E k \in R : Before(t, k) = i
  <2> DEFINE f == [k \in R |-> Before(t, k)]
             N == 0 .. Cardinality(R) - 1
  <2>1. f \in [R -> N] /\ f \in Injection(R, N)
    BY <1>8, <1>9 DEF Injection, IsInjective
  <2>2. IsFiniteSet(N) /\ Cardinality(N) = Cardinality(R)
    BY <1>2, FS_Interval
  <2> HIDE DEF f, N
  <2>3. f \in Surjection(R, N)
    BY <2>1, <2>2, FS_Injection
  <2>4. \A i \in N : \E k \in R : f[k] = i
    BY <2>3 DEF Surjection
  <2> QED
    BY <2>4 DEF f, N
<1> QED
  BY <1>1, <1>2, <1>8, <1>9, <1>10 DEF R

(* createInMemory: the new object and one of each of its members' classes  *)
(* follow the old ones.                                                    *)
LEMMA GrownTyped ==
  ASSUME NEW h, HeapTyped(h), NEW t \in Type
  PROVE  LET h2 == Grown(h, t)
         IN  /\ HeapTyped(h2) /\ Len(h) \in Nat /\ Len(h2) \in Nat /\ Extends(h, h2)
             /\ t \in Class => Fits(Len(h) + 1, t, h2)
<1> DEFINE h2 == Grown(h, t)
<1>1. IsSeq(h) /\ Len(h) \in Nat
  BY DEF HeapTyped, IsSeq
<1>2. CASE t \notin Class
  <2>1. h2 = h
    BY <1>2 DEF Grown
  <2> QED
    BY <1>1, <1>2, <2>1 DEF Extends
<1>3. CASE t \in Class
  <2> DEFINE n == Len(h) + 1
             R == References(t)
             p == Cardinality(R)
             whole == [Blank(t) EXCEPT !.words =
                        [k \in DOMAIN @ |-> IF k \in R THEN n + Before(t, k) + 1 ELSE 0]]
             K(i) == CHOOSE k \in R : Before(t, k) = i - 1
             part == [i \in 1 .. p |-> Blank(Fields[t][K(i)].type)]
  <2>1. h2 = h \o <<whole>> \o part
    BY <1>3 DEF Grown, Create
  <2>2. /\ R \subseteq 1 .. Len(Fields[t]) /\ p \in Nat
        /\ \A k \in R : Before(t, k) \in 0 .. p - 1
        /\ \A k, l \in R : Before(t, k) = Before(t, l) => k = l
        /\ \A i \in 0 .. p - 1 : \E k \in R : Before(t, k) = i
    BY <1>3, ReferencesNumbered
  <2>3. \A k \in R : Fields[t][k].type \in Class
    BY DEF References
  <2> HIDE DEF R, p, whole
  <2>4. \A i \in 1 .. p : K(i) \in R /\ Before(t, K(i)) = i - 1
    <3> SUFFICES ASSUME NEW i \in 1 .. p PROVE K(i) \in R /\ Before(t, K(i)) = i - 1
      OBVIOUS
    <3>1. \E k \in R : Before(t, k) = i - 1
      BY <2>2
    <3> QED
      BY <3>1
  <2>5. IsSeq(part) /\ Len(part) = p
    BY <2>2, LengthIs
  <2>6. IsSeq(<<whole>>) /\ Len(<<whole>>) = 1 /\ <<whole>>[1] = whole
    BY DEF IsSeq
  <2> HIDE DEF K, part, h2
  <2>7. /\ IsSeq(h \o <<whole>>) /\ Len(h \o <<whole>>) = n
        /\ \A i \in 1 .. Len(h) : (h \o <<whole>>)[i] = h[i]
        /\ (h \o <<whole>>)[n] = whole
    BY <1>1, <2>6, Concatenating
  <2>8. /\ IsSeq(h2) /\ Len(h2) = n + p /\ n \in 1 .. n
        /\ \A i \in 1 .. n : h2[i] = (h \o <<whole>>)[i]
        /\ \A i \in 1 .. p : h2[n + i] = part[i]
    <3> DEFINE g == h \o <<whole>>
    <3>1. IsSeq(g) /\ Len(g) = n /\ h2 = g \o part /\ n \in Nat /\ n > 0
      BY <1>1, <2>1, <2>7
    <3> HIDE DEF g, n
    <3>3. IsSeq(g) /\ IsSeq(part)
      BY <2>5, <3>1
    <3>2. /\ IsSeq(g \o part) /\ Len(g \o part) = Len(g) + Len(part)
          /\ \A i \in 1 .. Len(g) : (g \o part)[i] = g[i]
          /\ \A i \in 1 .. Len(part) : (g \o part)[Len(g) + i] = part[i]
      BY <3>3, Concatenating
    <3> QED
      BY <2>5, <3>1, <3>2 DEF g
  <2>9. /\ \A i \in 1 .. Len(h) : h2[i] = h[i]
        /\ h2[n] = whole
        /\ \A i \in 1 .. p : h2[n + i] = part[i]
    BY <1>1, <2>7, <2>8
  <2>10. Extends(h, h2) /\ Len(h2) \in Nat
    BY <1>1, <2>2, <2>8, <2>9 DEF Extends
  <2>11. /\ whole = [class |-> whole.class, words |-> whole.words] /\ whole.class = t
         /\ whole.words = [k \in 1 .. Len(Fields[t]) |-> IF k \in R THEN n + Before(t, k) + 1 ELSE 0]
    BY DEF whole, Blank
  <2>12. Fits(n, t, h2)
    BY <1>1, <2>2, <2>8, <2>9, <2>11 DEF Fits
  <2>13. \A i \in 1 .. Len(h) : Object(h2[i], h2)
    BY <1>1, <2>9, <2>10, FitsStays DEF HeapTyped, Object
  <2>14. Object(whole, h2)
    <3>1. ASSUME NEW k \in R PROVE Fits(n + Before(t, k) + 1, Fields[t][k].type, h2)
      <4> DEFINE i == Before(t, k) + 1
      <4>1. i \in 1 .. p /\ Before(t, k) \in Nat
        BY <2>2, <3>1
      <4>2. K(i) = k
        <5>1. K(i) \in R /\ Before(t, K(i)) = i - 1
          BY <2>4, <4>1
        <5>2. i - 1 = Before(t, k)
          BY <4>1
        <5> HIDE DEF i
        <5> QED
          BY <2>2, <3>1, <5>1, <5>2
      <4>3. part[i] = Blank(Fields[t][k].type)
        BY <4>1, <4>2 DEF part, K
      <4>4. h2[n + i].class = Fields[t][k].type
        BY <2>9, <4>1, <4>3 DEF Blank
      <4>5. n + i \in 1 .. Len(h2) /\ n + i = n + Before(t, k) + 1
        BY <1>1, <2>2, <2>8, <4>1
      <4> QED
        BY <4>4, <4>5 DEF Fits
    <3>2. whole.words = [k \in 1 .. Len(Fields[t]) |-> whole.words[k]]
      BY <2>11
    <3>3. \A k \in R : whole.words[k] = n + Before(t, k) + 1
      BY <2>2, <2>11
    <3> QED
      BY <1>3, <2>11, <3>1, <3>2, <3>3 DEF Object, R
  <2>15. ASSUME NEW i \in 1 .. p PROVE Object(part[i], h2)
    <3> DEFINE u == Fields[t][K(i)].type
    <3>1. u \in Class /\ part[i] = Blank(u)
      BY <2>3, <2>4 DEF part
    <3> HIDE DEF u
    <3> QED
      BY <3>1 DEF Object, Blank, Fits, References
  <2>16. \A i \in 1 .. Len(h2) : Object(h2[i], h2)
    <3> SUFFICES ASSUME NEW i \in 1 .. Len(h2) PROVE Object(h2[i], h2)
      OBVIOUS
    <3>1. i \in 1 .. Len(h) \/ i = n \/ (i - n \in 1 .. p /\ i = n + (i - n))
      BY <1>1, <2>2, <2>8
    <3> QED
      BY <2>9, <2>13, <2>14, <2>15, <3>1
  <2> QED
    BY <1>1, <2>8, <2>10, <2>12, <2>16 DEF HeapTyped, h2
<1> QED
  BY <1>2, <1>3

(* Word k of object o becomes v.                                           *)
WordSet(h2, h, o, k, v) == h2 = [h EXCEPT ![o].words[k] = v]

(* A word of an object gets a value that fits it.                          *)
LEMMA CellTyped ==
  ASSUME NEW h, HeapTyped(h), NEW o \in 1 .. Len(h),
         NEW k \in 1 .. Len(Fields[h[o].class]), NEW v,
         Fields[h[o].class][k].type \in Class => Fits(v, Fields[h[o].class][k].type, h),
         NEW h2, WordSet(h2, h, o, k, v)
  PROVE  HeapTyped(h2) /\ Len(h2) = Len(h) /\ Extends(h, h2)
<1> DEFINE t == h[o].class
           w == [h[o].words EXCEPT ![k] = v]
           e == [h[o] EXCEPT !.words = w]
<1>1. IsSeq(h) /\ Len(h) \in Nat /\ Object(h[o], h)
  BY DEF HeapTyped, IsSeq
<1>2. /\ h[o] = [class |-> t, words |-> h[o].words] /\ t \in Class
      /\ h[o].words = [i \in 1 .. Len(Fields[t]) |-> h[o].words[i]]
      /\ \A i \in References(t) : Fits(h[o].words[i], Fields[t][i].type, h)
  BY <1>1 DEF Object
<1>3. e = [class |-> t, words |-> w]
  <2> DEFINE ws == h[o].words
  <2>1. h[o] = [class |-> t, words |-> ws]
    BY <1>2
  <2> HIDE DEF t, w, ws
  <2> QED
    BY <2>1
<1>4. w = [i \in 1 .. Len(Fields[t]) |-> IF i = k THEN v ELSE h[o].words[i]]
  BY <1>2
<1>5. Replaced(h2, h, o, e)
  BY DEF Replaced, WordSet
<1> HIDE DEF e, w
<1>6. /\ IsSeq(h2) /\ Len(h2) = Len(h) /\ h2[o] = e
      /\ \A i \in 1 .. Len(h) \ {o} : h2[i] = h[i]
  BY <1>1, <1>5, Replacing
<1>7. Extends(h, h2)
  <2>1. h2[o].class = h[o].class
    <3> DEFINE hw == w
    <3>1. h2[o] = [class |-> t, words |-> hw]
      BY <1>3, <1>6
    <3> HIDE DEF hw
    <3> QED
      BY <3>1
  <2>2. \A i \in 1 .. Len(h) : h2[i].class = h[i].class
    BY <1>6, <2>1
  <2> QED
    BY <1>1, <1>6, <2>2 DEF Extends
<1>8. ASSUME NEW i \in 1 .. Len(h) PROVE Object(h2[i], h2)
  <2>1. CASE i # o
    <3>1. Object(h[i], h)
      BY DEF HeapTyped
    <3>2. \A r, u : Fits(r, u, h) => Fits(r, u, h2)
      BY <1>1, <1>6, <1>7, FitsStays
    <3>3. Object(h[i], h2)
      BY <3>1, <3>2 DEF Object
    <3> QED
      BY <1>6, <2>1, <3>3
  <2>2. CASE i = o
    <3>1. \A j \in References(t) : Fits(w[j], Fields[t][j].type, h)
      BY <1>2, <1>4 DEF References
    <3>2. \A j \in References(t) : Fits(w[j], Fields[t][j].type, h2)
      BY <1>1, <1>6, <1>7, <3>1, FitsStays
    <3>3. e.class = t /\ e.words = w /\ e = [class |-> e.class, words |-> e.words]
      BY <1>3
    <3>4. w = [j \in 1 .. Len(Fields[t]) |-> w[j]]
      BY <1>4
    <3> HIDE DEF t
    <3> QED
      BY <1>2, <1>6, <2>2, <3>2, <3>3, <3>4 DEF Object
  <2> QED
    BY <2>1, <2>2
<1> QED
  BY <1>1, <1>6, <1>7, <1>8 DEF HeapTyped

(***************************************************************************)
(* Following a path                                                        *)
(***************************************************************************)

(* The k-th object on a path, from the one before.                         *)
OwnerOf(h, ref, path, o, k) ==
  IF k = 1 THEN ref
  ELSE IF o[k - 1] = 0 THEN 0
  ELSE h[o[k - 1]].words[Index(h[o[k - 1]].class, path[k - 1])]

(* The objects on a path, as a function that satisfies the equation of     *)
(* Owner.                                                                  *)
LEMMA OwnerIs ==
  ASSUME NEW h, NEW ref, NEW path, NEW n \in Nat \ {0}, Len(path) = n
  PROVE  \E o : /\ o = [k \in 1 .. n |-> OwnerOf(h, ref, path, o, k)]
                /\ Owner(h, ref, path) = o[n]
<1> DEFINE P(o, m) == o = [k \in 1 .. m |-> OwnerOf(h, ref, path, o, k)]
           U == {m \in 1 .. n : \E o : P(o, m)}
<1>1. 1 \in U
  <2>1. P([k \in 1 .. 1 |-> ref], 1)
    BY DEF OwnerOf
  <2> QED
    BY <2>1
<1>2. ASSUME NEW m \in 1 .. n - 1, m \in U PROVE m + 1 \in U
  <2>1. PICK o : P(o, m)
    BY <1>2
  <2> DEFINE q == [k \in 1 .. m + 1 |-> IF k <= m THEN o[k] ELSE OwnerOf(h, ref, path, o, k)]
  <2>2. \A k \in 1 .. m : q[k] = o[k] /\ o[k] = OwnerOf(h, ref, path, o, k)
    BY <2>1
  <2>3. \A k \in 1 .. m + 1 : OwnerOf(h, ref, path, q, k) = OwnerOf(h, ref, path, o, k)
    <3> SUFFICES ASSUME NEW k \in 1 .. m + 1
                 PROVE  OwnerOf(h, ref, path, q, k) = OwnerOf(h, ref, path, o, k)
      OBVIOUS
    <3>1. k = 1 \/ k - 1 \in 1 .. m
      OBVIOUS
    <3> HIDE DEF q
    <3> QED
      BY <2>2, <3>1 DEF OwnerOf
  <2>6. q[m + 1] = OwnerOf(h, ref, path, o, m + 1)
    OBVIOUS
  <2>4. \A k \in 1 .. m + 1 : q[k] = OwnerOf(h, ref, path, q, k)
    <3>1. \A k \in 1 .. m + 1 : k \in 1 .. m \/ k = m + 1
      OBVIOUS
    <3> HIDE DEF q
    <3> QED
      BY <2>2, <2>3, <2>6, <3>1
  <2>5. q = [k \in 1 .. m + 1 |-> OwnerOf(h, ref, path, q, k)]
    <3>1. q = [k \in 1 .. m + 1 |-> q[k]]
      OBVIOUS
    <3> HIDE DEF q
    <3> QED
      BY <2>4, <3>1
  <2>7. m + 1 \in 1 .. n
    OBVIOUS
  <2> HIDE DEF q
  <2> QED
    BY <2>5, <2>7
<1>3. n \in U
  <2> HIDE DEF U
  <2>1. U \in SUBSET (1 .. n)
    BY DEF U
  <2>2. \A m \in 1 .. n - 1 : m \in U => m + 1 \in U
    BY <1>2
  <2>3. \A k \in 1 .. n : k \in U
    BY <1>1, <2>1, <2>2, Induction
  <2> QED
    BY <2>3
<1>4. PICK o : P(o, n)
  BY <1>3
<1> DEFINE c == CHOOSE q : q = [k \in 1 .. n |-> OwnerOf(h, ref, path, q, k)]
<1>5. c = [k \in 1 .. n |-> OwnerOf(h, ref, path, c, k)]
  BY <1>4
<1>6. Owner(h, ref, path) = c[n]
  BY DEF Owner, OwnerOf
<1> HIDE DEF c
<1> QED
  BY <1>5, <1>6

(* The types along a path, the same way.                                   *)
LEMMA PathTypeIs ==
  ASSUME NEW t, NEW path, NEW n \in Nat \ {0}, Len(path) = n
  PROVE  \E w : /\ w[0] = t
                /\ \A k \in 1 .. n : w[k] = MemberType(w[k - 1], path[k])
                /\ PathType(t, path) = w[n]
<1> DEFINE G(w, k) == IF k = 0 THEN t ELSE MemberType(w[k - 1], path[k])
           P(w, m) == w = [k \in 0 .. m |-> G(w, k)]
           U == {m \in 1 .. n : \E w : P(w, m)}
<1>1. 1 \in U
  <2> DEFINE w == [k \in 0 .. 1 |-> IF k = 0 THEN t ELSE MemberType(t, path[k])]
  <2>1. \A k \in 0 .. 1 : w[k] = G(w, k)
    OBVIOUS
  <2>2. P(w, 1)
    <3>1. w = [k \in 0 .. 1 |-> w[k]]
      OBVIOUS
    <3> HIDE DEF w
    <3> QED
      BY <2>1, <3>1
  <2>3. 1 \in 1 .. n
    OBVIOUS
  <2> HIDE DEF w
  <2> QED
    BY <2>2, <2>3
<1>2. ASSUME NEW m \in 1 .. n - 1, m \in U PROVE m + 1 \in U
  <2>1. PICK o : P(o, m)
    BY <1>2
  <2> DEFINE q == [k \in 0 .. m + 1 |-> IF k <= m THEN o[k] ELSE G(o, k)]
  <2>2. \A k \in 0 .. m : q[k] = o[k] /\ o[k] = G(o, k)
    BY <2>1
  <2>3. \A k \in 0 .. m + 1 : G(q, k) = G(o, k)
    <3> SUFFICES ASSUME NEW k \in 0 .. m + 1 PROVE G(q, k) = G(o, k)
      OBVIOUS
    <3>1. k = 0 \/ k - 1 \in 0 .. m
      OBVIOUS
    <3> HIDE DEF q
    <3> QED
      BY <2>2, <3>1
  <2>6. q[m + 1] = G(o, m + 1)
    OBVIOUS
  <2>4. \A k \in 0 .. m + 1 : q[k] = G(q, k)
    <3>1. \A k \in 0 .. m + 1 : k \in 0 .. m \/ k = m + 1
      OBVIOUS
    <3> HIDE DEF G, q
    <3> QED
      BY <2>2, <2>3, <2>6, <3>1
  <2>5. P(q, m + 1)
    <3>1. q = [k \in 0 .. m + 1 |-> q[k]]
      OBVIOUS
    <3> HIDE DEF q, G
    <3> QED
      BY <2>4, <3>1
  <2>7. m + 1 \in 1 .. n
    OBVIOUS
  <2> HIDE DEF q
  <2> QED
    BY <2>5, <2>7
<1>3. n \in U
  <2> HIDE DEF U
  <2>1. U \in SUBSET (1 .. n)
    BY DEF U
  <2>2. \A m \in 1 .. n - 1 : m \in U => m + 1 \in U
    BY <1>2
  <2>3. \A k \in 1 .. n : k \in U
    BY <1>1, <2>1, <2>2, Induction
  <2> QED
    BY <2>3
<1>4. PICK o : P(o, n)
  BY <1>3
<1> DEFINE c == CHOOSE q : q = [k \in 0 .. n |-> IF k = 0 THEN t ELSE MemberType(q[k - 1], path[k])]
<1>5. c = [k \in 0 .. n |-> IF k = 0 THEN t ELSE MemberType(c[k - 1], path[k])]
  BY <1>4
<1>6. PathType(t, path) = c[n]
  BY DEF PathType
<1> HIDE DEF c
<1>7. c[0] = t /\ \A k \in 1 .. n : c[k] = MemberType(c[k - 1], path[k])
  BY <1>5
<1> QED
  BY <1>6, <1>7

(* A path ends in an integer or an object, or is none.                     *)
LEMMA MemberTypes ==
  ASSUME NEW t, NEW path \in Paths
  PROVE  PathType(t, path) \in {"int", "none"} \cup Class
<1> DEFINE n == Len(path)
<1>1. n \in Nat \ {0}
  BY ClassesAssumption
<1> HIDE DEF n
<1>2. PICK w : /\ \A k \in 1 .. n : w[k] = MemberType(w[k - 1], path[k])
               /\ PathType(t, path) = w[n]
  BY <1>1, PathTypeIs DEF n
<1>3. \A u, m : MemberType(u, m) \in {"int", "none"} \cup Class
  BY ClassesAssumption DEF MemberType, Has, Index
<1> QED
  BY <1>1, <1>2, <1>3

(* The object a path leads to, if it goes through no NULL, is of the class *)
(* whose member the path ends in.                                          *)
LEMMA PathLeads ==
  ASSUME NEW h, HeapTyped(h), NEW t \in Class, NEW ref, Fits(ref, t, h),
         NEW path \in Paths, PathType(t, path) # "none", Owner(h, ref, path) # 0
  PROVE  LET o == Owner(h, ref, path)
             k == Index(h[o].class, path[Len(path)])
         IN  /\ o \in 1 .. Len(h)
             /\ k \in 1 .. Len(Fields[h[o].class])
             /\ Fields[h[o].class][k].type = PathType(t, path)
<1> DEFINE n == Len(path)
<1>1. n \in Nat \ {0}
  BY ClassesAssumption
<1> HIDE DEF n
<1>2. PICK o : /\ o = [k \in 1 .. n |-> OwnerOf(h, ref, path, o, k)]
               /\ Owner(h, ref, path) = o[n]
  BY <1>1, OwnerIs DEF n
<1>3. PICK w : /\ w[0] = t
               /\ \A k \in 1 .. n : w[k] = MemberType(w[k - 1], path[k])
               /\ PathType(t, path) = w[n]
  BY <1>1, PathTypeIs DEF n
<1>4. "none" \notin Class
  BY ClassesAssumption
<1>5. \A u, m : Has(u, m) => /\ u \in Class
                             /\ Index(u, m) \in 1 .. Len(Fields[u])
                             /\ Fields[u][Index(u, m)].type = MemberType(u, m)
  BY DEF Has, Index, MemberType
<1>6. \A u, m : MemberType(u, m) # "none" => Has(u, m)
  BY DEF MemberType
<1>7. o[1] = ref /\ \A k \in 1 .. n : k # 1 => o[k] = OwnerOf(h, ref, path, o, k)
  <2>1. \A k \in 1 .. n : o[k] = OwnerOf(h, ref, path, o, k)
    BY <1>2
  <2>2. OwnerOf(h, ref, path, o, 1) = ref
    BY DEF OwnerOf
  <2>3. 1 \in 1 .. n
    BY <1>1
  <2> QED
    BY <2>1, <2>2, <2>3
<1> DEFINE U == {k \in 1 .. n : w[k - 1] \in Class => Fits(o[k], w[k - 1], h)}
<1>8. 1 \in U
  BY <1>1, <1>3, <1>7
<1>9. ASSUME NEW k \in 1 .. n - 1, k \in U PROVE k + 1 \in U
  <2> SUFFICES ASSUME w[k] \in Class PROVE Fits(o[k + 1], w[k], h)
    BY <1>1
  <2>1. k \in 1 .. n /\ k + 1 \in 1 .. n /\ k + 1 # 1 /\ k + 1 - 1 = k
    BY <1>1
  <2>2. w[k] = MemberType(w[k - 1], path[k])
    BY <1>3, <2>1
  <2>3. Has(w[k - 1], path[k])
    BY <1>4, <1>6, <2>2
  <2> DEFINE u == w[k - 1]
             i == Index(u, path[k])
  <2>4. u \in Class /\ i \in 1 .. Len(Fields[u]) /\ Fields[u][i].type = w[k]
    BY <1>5, <2>2, <2>3
  <2>5. Fits(o[k], u, h)
    BY <1>9, <2>4
  <2>6. i \in References(u)
    BY <2>4 DEF References
  <2>7. o[k + 1] = IF o[k] = 0 THEN 0 ELSE h[o[k]].words[Index(h[o[k]].class, path[k])]
    <3>1. o[k + 1] = OwnerOf(h, ref, path, o, k + 1)
      BY <1>7, <2>1
    <3> QED
      BY <2>1, <3>1 DEF OwnerOf
  <2>8. CASE o[k] = 0
    BY <2>7, <2>8 DEF Fits
  <2>9. CASE o[k] # 0
    <3>1. o[k] \in 1 .. Len(h) /\ h[o[k]].class = u
      BY <2>5, <2>9 DEF Fits
    <3>2. Object(h[o[k]], h)
      BY <3>1 DEF HeapTyped
    <3> HIDE DEF u
    <3>3. Fits(h[o[k]].words[i], w[k], h)
      BY <2>4, <2>6, <3>1, <3>2 DEF Object
    <3> QED
      BY <2>7, <2>9, <3>1, <3>3 DEF i
  <2> QED
    BY <2>8, <2>9
<1>10. n \in U
  <2> HIDE DEF U
  <2>1. U \in SUBSET (1 .. n)
    BY DEF U
  <2> QED
    BY <1>1, <1>8, <1>9, <2>1, Induction
<1>11. w[n] = MemberType(w[n - 1], path[n]) /\ w[n] # "none"
  BY <1>1, <1>3
<1>12. Has(w[n - 1], path[n])
  BY <1>6, <1>11
<1>13. Fits(o[n], w[n - 1], h) /\ o[n] # 0
  BY <1>2, <1>5, <1>10, <1>12
<1>14. o[n] \in 1 .. Len(h) /\ h[o[n]].class = w[n - 1]
  BY <1>13 DEF Fits
<1> QED
  BY <1>2, <1>3, <1>5, <1>11, <1>12, <1>14 DEF n

(***************************************************************************)
(* Values                                                                  *)
(***************************************************************************)

(* Programs that add no strings and that keep members of class type out of *)
(* loops and functions: the interpreter gets the others wrong.             *)
Plain == ~StringSums /\ ~DeferredReads

(* The chain in use; that of functions is so during a call only.           *)
LEMMA HereIs == Here \in Chain /\ (Here = "fn" => Len(scopes[Here]) > 1)
BY DEF Here, Chain

(* The chains, taken apart again.                                          *)
LEMMA BothIs == Both.scopes = scopes /\ Both.ptrs = ptrs /\ IsBoth(Both)
BY DEF Both, IsBoth

(* A name is declared where it is found.                                   *)
LEMMA SameNames ==
  ASSUME NEW b, NEW d, NEW h, Good(b, d, h), NEW c \in Chain, NEW x
  PROVE  Innermost(d[c], x) = Innermost(b.scopes[c], x)
<1>1. Len(d[c]) \in Nat /\ Len(b.scopes[c]) = Len(d[c])
  BY DEF Good, IsChains, IsSeq, Lengths
<1>2. \A i \in 1 .. Len(d[c]) : DOMAIN d[c][i] = DOMAIN b.scopes[c][i]
  BY <1>1 DEF Good, Matched
<1>3. CASE Innermost(b.scopes[c], x) # 0
  BY <1>3, SameFrame
<1>4. CASE Innermost(b.scopes[c], x) = 0
  <2>1. \A i \in 1 .. Len(d[c]) : x \notin DOMAIN d[c][i]
    BY <1>1, <1>2, <1>4, InnermostHas
  <2> QED
    BY <1>4, <2>1 DEF Innermost
<1> QED
  BY <1>3, <1>4

(* The type of a variable is that of its value, and its reference fits.    *)
LEMMA Resolved ==
  ASSUME IInv, NEW x \in DOMAIN Types
  PROVE  /\ Innermost(scopes[Here], x) # 0
         /\ Innermost(declared[Here], x) = Innermost(scopes[Here], x)
         /\ Types[x] = declared[Here][Innermost(declared[Here], x)][x]
         /\ Types[x] \in Type
         /\ Resolve(x) = [type |-> Types[x], val |-> Resolve(x).val]
         /\ Types[x] \in Class => /\ Fits(Pointer(x), Types[x], heap)
                                  /\ Resolve(x).val = Pointer(x)
<1> DEFINE c == Here
           i == Innermost(scopes[c], x)
<1>1. Good(Both, declared, heap) /\ c \in Chain
  BY HereIs DEF IInv
<1>2. Innermost(declared[c], x) = i
  BY <1>1, BothIs, SameNames
<1>3. i # 0 /\ Types[x] = declared[c][i][x]
  BY <1>2 DEF Types
<1>4. /\ i \in 1 .. Len(scopes[c]) /\ x \in DOMAIN scopes[c][i]
      /\ Beside(c, i) \in 1 .. Len(ptrs[c])
      /\ declared[c][i][x] \in Class => Innermost(ptrs[c], x) = Beside(c, i)
  BY <1>1, <1>3, BothIs, SameFrame
<1>5. Matched(scopes[c][i], ptrs[c][Beside(c, i)], declared[c][i], heap)
  BY <1>1, <1>4, BothIs DEF Good
<1> HIDE DEF i
<1>6. /\ scopes[c][i][x] = [type |-> Types[x], val |-> scopes[c][i][x].val]
      /\ Types[x] \in Type
      /\ Types[x] \in Class => Fits(ptrs[c][Beside(c, i)][x], Types[x], heap)
  BY <1>3, <1>4, <1>5 DEF Matched
<1>7. Types[x] \in Class => Pointer(x) = ptrs[c][Beside(c, i)][x]
  BY <1>3, <1>4 DEF Pointer
<1>8. scopes[c][i][x].type = Types[x]
  BY <1>6
<1>9. IsClass(scopes[c][i][x]) <=> Types[x] \in Class
  BY <1>6, <1>8, Classy
<1>10. Resolve(x) = IF Types[x] \in Class THEN [scopes[c][i][x] EXCEPT !.val = Pointer(x)]
                    ELSE scopes[c][i][x]
  BY <1>3, <1>9 DEF Resolve, i
<1>11. CASE Types[x] \in Class
  <2>1. Resolve(x) = [type |-> Types[x], val |-> Pointer(x)]
    BY <1>6, <1>10, <1>11
  <2>2. Resolve(x).val = Pointer(x)
    BY <2>1
  <2> QED
    BY <1>2, <1>3, <1>6, <1>7, <1>11, <2>1, <2>2 DEF i
<1>12. CASE Types[x] \notin Class
  BY <1>2, <1>3, <1>6, <1>10, <1>12 DEF i
<1> QED
  BY <1>11, <1>12

(* v is a value of type t: if that is a class, an object of it.            *)
HasType(v, t) == v = [type |-> t, val |-> v.val] /\ (t \in Class => Fits(v.val, t, heap))

(* An atom of an expression evaluates to a value of its type.              *)
LEMMA AtomTyped ==
  ASSUME IInv, NEW a \in Atoms, AtomType(a, Types) # "none",
         a.op = "member" => ~Dangles(a)
  PROVE  HasType(Atom(a), AtomType(a, Types))
<1> DEFINE t == AtomType(a, Types)
<1>1. CASE a.op = "literal"
  <2>1. a \in Literals
    BY <1>1 DEF Atoms, Members
  <2>2. a.value \in {IntVal(n) : n \in Ints} \cup {StrVal}
    BY <2>1 DEF Literals
  <2>3. a.value = [type |-> a.value.type, val |-> a.value.val] /\ a.value.type \in {"int", "str"}
    BY <2>2 DEF IntVal, StrVal
  <2>4. Atom(a) = a.value /\ t = a.value.type
    BY <1>1 DEF Atom, AtomType
  <2> QED
    BY <2>3, <2>4, ClassesAssumption DEF HasType
<1>2. CASE a.op = "var"
  <2>1. a.x \in DOMAIN Types /\ t = Types[a.x] /\ Atom(a) = Resolve(a.x)
    BY <1>2 DEF Atom, AtomType
  <2> HIDE DEF t
  <2> QED
    BY <2>1, Resolved DEF HasType, t
<1>3. CASE a.op = "member"
  <2>1. a \in Members
    BY <1>3 DEF Atoms, Literals
  <2>2. a.path \in Paths
    BY <2>1 DEF Members
  <2>3. /\ a.x \in DOMAIN Types /\ Types[a.x] \in Class
        /\ t = PathType(Types[a.x], a.path) /\ Atom(a) = ResolveMembers(a)
    BY <1>3 DEF Atom, AtomType
  <2>4. /\ Resolve(a.x).type = Types[a.x] /\ Types[a.x] \in Type
        /\ Fits(Pointer(a.x), Types[a.x], heap)
    BY <2>3, Resolved
  <2>5. IsClass(Resolve(a.x))
    BY <2>3, <2>4, Classy
  <2>6. Atom(a) = [type |-> t, val |-> Cell(heap, Pointer(a.x), a.path)]
    BY <2>3, <2>4, <2>5 DEF ResolveMembers
  <2> DEFINE o == Owner(heap, Pointer(a.x), a.path)
             k == Index(heap[o].class, a.path[Len(a.path)])
  <2>7. t # "none" /\ o # 0 /\ HeapTyped(heap)
    BY <1>3 DEF Dangles, IInv
  <2>8. /\ o \in 1 .. Len(heap) /\ k \in 1 .. Len(Fields[heap[o].class])
        /\ Fields[heap[o].class][k].type = t
    BY <2>2, <2>3, <2>4, <2>7, PathLeads
  <2>9. Cell(heap, Pointer(a.x), a.path) = heap[o].words[k]
    BY DEF Cell
  <2> HIDE DEF t, o, k
  <2>10. ASSUME t \in Class PROVE Fits(heap[o].words[k], t, heap)
    <3>1. Object(heap[o], heap)
      BY <2>7, <2>8 DEF HeapTyped
    <3>2. k \in References(heap[o].class)
      BY <2>8, <2>10 DEF References
    <3> QED
      BY <2>8, <3>1, <3>2 DEF Object
  <2>11. Atom(a).val = heap[o].words[k]
    BY <2>6, <2>9
  <2> QED
    BY <2>6, <2>9, <2>10, <2>11 DEF HasType, t
<1>4. a.op \in {"literal", "var", "member"}
  BY DEF Atoms, Members, Literals
<1> QED
  BY <1>1, <1>2, <1>3, <1>4

(* What an expression evaluates to, in either evaluator.                   *)
LEMMA ValuesTyped ==
  ASSUME IInv, Plain, NEW t, t # "none", NEW e \in Usable(t), NEW v \in Values(e)
  PROVE  HasType(v, t)
<1>1. /\ e \in Exprs /\ TypeOf(e, Types) = t /\ \A a \in Accesses(e) : ~Dangles(a)
      /\ (e.op = "plus" /\ t = "str" => StringSums)
      /\ (e.op = "member" /\ t \in Class /\ Deferred => DeferredReads)
  BY DEF Usable
<1>2. \A n : HasType(IntVal(n), "int")
  BY ClassesAssumption DEF HasType, IntVal
<1>3. CASE e.op # "plus"
  <2>1. e \in Atoms /\ AtomType(e, Types) = t
    BY <1>1, <1>3 DEF Exprs, TypeOf
  <2>2. e.op = "member" => ~Dangles(e)
    BY <1>1, <1>3 DEF Accesses
  <2>3. HasType(Atom(e), t)
    BY <2>1, <2>2, AtomTyped
  <2>4. CASE Deferred
    <3>1. v = Executed(e)
      BY <1>3, <2>4 DEF Values, NodeValues
    <3>2. ~(e.op = "member" /\ IsClass(Atom(e)))
      <4>1. ASSUME e.op = "member" PROVE t = "int"
        <5>1. t \notin Class
          BY <1>1, <2>4, <4>1 DEF Plain
        <5>2. e.path \in Paths
          BY <2>1, <4>1 DEF Atoms, Members, Literals
        <5>3. \E u : t = PathType(u, e.path)
          BY <2>1, <4>1 DEF AtomType
        <5> QED
          BY <5>1, <5>2, <5>3, MemberTypes
      <4> QED
        BY <2>3, <4>1 DEF HasType, IsClass
    <3> QED
      BY <2>3, <3>1, <3>2 DEF Executed
  <2>5. CASE ~Deferred
    BY <1>3, <2>3, <2>5 DEF Values, Immediate
  <2> QED
    BY <2>4, <2>5
<1>4. CASE e.op = "plus"
  <2>1. /\ e.l \in Atoms /\ t = AtomType(e.l, Types) /\ t \in {"int", "str"}
        /\ AtomType(e.l, Types) # "none"
    BY <1>1, <1>4 DEF Exprs, Atoms, Members, Literals, TypeOf
  <2>2. t = "int"
    BY <1>1, <1>4, <2>1 DEF Plain
  <2>3. e.l.op = "member" => ~Dangles(e.l)
    BY <1>1, <1>4 DEF Accesses
  <2>4. Atom(e.l).type = "int"
    <3>1. HasType(Atom(e.l), "int")
      BY <2>1, <2>2, <2>3, AtomTyped
    <3> QED
      BY <3>1 DEF HasType
  <2>5. \E n : v = IntVal(n)
    BY <1>4, <2>4 DEF Values, NodeValues, Immediate
  <2> QED
    BY <1>2, <2>2, <2>5
<1> QED
  BY <1>3, <1>4

(***************************************************************************)
(* The steps                                                               *)
(***************************************************************************)

(* The first state: no names, no objects.                                  *)
LEMMA Initially == Init => IInv
<1> SUFFICES ASSUME Init PROVE IInv
  OBVIOUS
<1>1. /\ scopes["main"] = << << >>, << >> >> /\ scopes["fn"] = << << >> >>
      /\ ptrs = scopes /\ declared = scopes /\ heap = << >> /\ crashed = FALSE
      /\ scopes = [c \in Chain |-> scopes[c]]
  BY DEF Init, Chain
<1>2. /\ IsSeq(scopes["main"]) /\ Len(scopes["main"]) = 2
      /\ scopes["main"][1] = << >> /\ scopes["main"][2] = << >>
      /\ IsSeq(scopes["fn"]) /\ Len(scopes["fn"]) = 1 /\ scopes["fn"][1] = << >>
  BY <1>1 DEF IsSeq
<1>3. ASSUME NEW c \in Chain
      PROVE  /\ IsSeq(scopes[c]) /\ Len(scopes[c]) > 0 /\ Len(scopes[c]) <= 2
             /\ Beside(c, Len(scopes[c])) = Len(scopes[c])
             /\ \A i \in 1 .. Len(scopes[c]) : scopes[c][i] = << >> /\ Beside(c, i) = i
  <2>1. CASE c = "main"
    <3>1. Len(scopes[c]) = 2
      BY <1>2, <2>1
    <3>2. \A i : Beside(c, i) = i
      BY <2>1 DEF Beside
    <3>3. \A i \in 1 .. Len(scopes[c]) : i = 1 \/ i = 2
      BY <3>1
    <3>4. IsSeq(scopes[c]) /\ scopes[c][1] = << >> /\ scopes[c][2] = << >>
      BY <1>2, <2>1
    <3>5. Len(scopes[c]) > 0 /\ Len(scopes[c]) <= 2
      BY <3>1
    <3> QED
      BY <3>2, <3>3, <3>4, <3>5
  <2>2. CASE c = "fn"
    <3>1. Len(scopes[c]) = 1
      BY <1>2, <2>2
    <3>2. Beside(c, 1) = 1
      BY DEF Beside
    <3>3. \A i \in 1 .. Len(scopes[c]) : i = 1
      BY <3>1
    <3>4. IsSeq(scopes[c]) /\ scopes[c][1] = << >>
      BY <1>2, <2>2
    <3> QED
      BY <3>1, <3>2, <3>3, <3>4
  <2> QED
    BY <2>1, <2>2 DEF Chain
<1>4. Good(Both, declared, heap)
  <2>1. IsChains(scopes)
    BY <1>1, <1>3 DEF IsChains
  <2>2. Lengths(Both, declared)
    <3>1. \A c \in Chain : Len(scopes[c]) > 0 /\ Len(ptrs[c]) = Beside(c, Len(scopes[c]))
      <4> SUFFICES ASSUME NEW c \in Chain
                   PROVE  Len(scopes[c]) > 0 /\ Len(ptrs[c]) = Beside(c, Len(scopes[c]))
        OBVIOUS
      <4>1. Len(scopes[c]) > 0 /\ Beside(c, Len(scopes[c])) = Len(scopes[c])
        BY <1>3
      <4>2. ptrs[c] = scopes[c]
        BY <1>1
      <4>3. Len(ptrs[c]) = Len(scopes[c]) /\ Len(scopes[c]) > 0
        BY <4>1, <4>2
      <4> QED
        BY <4>1, <4>3
    <3>2. declared = scopes
      BY <1>1
    <3> QED
      BY <3>1, <3>2, BothIs DEF Lengths
  <2>3. Matched(<< >>, << >>, << >>, heap)
    BY EmptyFrame DEF Matched
  <2>4. DOMAIN scopes["fn"][1] = {}
    BY <1>2, EmptyFrame
  <2> QED
    BY <1>1, <1>3, <2>1, <2>2, <2>3, <2>4, BothIs DEF Good
<1>5. HeapTyped(heap) /\ Len(heap) = 0
  BY <1>1 DEF HeapTyped, IsSeq
<1>6. Bounds
  <2>1. \A c \in Chain : Len(scopes[c]) <= 2 + MaxLoops
    BY <1>3, InterpreterAssumption
  <2>2. Len(heap) <= MaxObjects
    BY <1>5, InterpreterAssumption
  <2>3. Len(scopes["main"]) > 1
    BY <1>2
  <2>4. crashed \in BOOLEAN
    BY <1>1
  <2> QED
    BY <2>1, <2>2, <2>3, <2>4 DEF Bounds
<1> QED
  BY <1>4, <1>5, <1>6 DEF IInv

(* What the steps that make objects have in common.                        *)
LEMMA Created ==
  ASSUME IInv, NEW t \in Type, heap' = Grown(heap, t)
  PROVE  /\ HeapTyped(heap)' /\ Len(heap) \in Nat /\ Len(heap') \in Nat /\ Extends(heap, heap')
         /\ t \in Class => Fits(Len(heap) + 1, t, heap')
<1>1. HeapTyped(heap)
  BY DEF IInv
<1>2. /\ HeapTyped(Grown(heap, t)) /\ Len(heap) \in Nat /\ Len(Grown(heap, t)) \in Nat
      /\ Extends(heap, Grown(heap, t))
      /\ t \in Class => Fits(Len(heap) + 1, t, Grown(heap, t))
  BY <1>1, GrownTyped
<1> QED
  BY <1>2

(* The chains do not mind what else the heap gets.                         *)
LEMMA GoodStays ==
  ASSUME NEW b, NEW d, NEW h, NEW h2, Good(b, d, h),
         Len(h) \in Nat, Len(h2) \in Nat, Extends(h, h2)
  PROVE  Good(b, d, h2)
BY MatchedStays DEF Good

(* The chains after a step.                                                *)
LEMMA BecomeIs ==
  ASSUME NEW B, IsBoth(B), Become(B)
  PROVE  Both' = B
BY DEF Become, IsBoth, Both

(* A step need only bound the chains of declared types.                    *)
LEMMA Bounded ==
  ASSUME Good(Both, declared, heap)', HeapTyped(heap)',
         \A c \in Chain : Len(declared'[c]) <= 2 + MaxLoops,
         Len(declared'["main"]) > 1, Len(heap') <= MaxObjects, crashed' \in BOOLEAN
  PROVE  IInv'
<1>1. \A c \in Chain : Len(declared'[c]) = Len(scopes'[c])
  BY DEF Good, Lengths, Both
<1> QED
  BY <1>1 DEF IInv, Bounds, Chain

(* What the invariant says of declared and of the bounds.                  *)
LEMMA DeclaredBounds ==
  ASSUME IInv
  PROVE  /\ \A c \in Chain : Len(declared[c]) <= 2 + MaxLoops /\ Len(declared[c]) \in Nat \ {0}
         /\ \A c \in Chain : Len(declared[c]) = Len(scopes[c]) /\ IsSeq(declared[c])
         /\ declared = [c \in Chain |-> declared[c]]
         /\ Len(declared["main"]) > 1 /\ Len(heap) <= MaxObjects /\ crashed \in BOOLEAN
<1>1. \A c \in Chain : Len(declared[c]) = Len(scopes[c]) /\ Len(scopes[c]) > 0
  BY BothIs DEF IInv, Good, Lengths
<1>2. \A c \in Chain : IsSeq(declared[c]) /\ Len(declared[c]) \in Nat
  BY DEF IInv, Good, IsChains, IsSeq
<1>3. declared = [c \in Chain |-> declared[c]]
  BY DEF IInv, Good, IsChains
<1> QED
  BY <1>1, <1>2, <1>3 DEF IInv, Bounds, Chain

(* A declaration lengthens no chain.                                       *)
LEMMA NotedLengths ==
  ASSUME IInv, NEW c \in Chain, NEW x, NEW t, Note(c, x, t)
  PROVE  \A e \in Chain : Len(declared'[e]) = Len(declared[e])
<1>1. IsSeq(declared[c]) /\ Len(declared[c]) \in 1 .. Len(declared[c])
  BY DeclaredBounds
<1>2. Replaced(declared'[c], declared[c], Len(declared[c]), Put(declared[c][Len(declared[c])], x, t))
  BY DeclaredBounds DEF Note, Replaced
<1>3. Len(declared'[c]) = Len(declared[c])
  BY <1>1, <1>2, Replacing
<1>4. \A e \in Chain \ {c} : declared'[e] = declared[e]
  BY DeclaredBounds DEF Note
<1> QED
  BY <1>3, <1>4

InitialOf(t) == [type |-> t, val |-> IF t \in Class THEN Len(heap) + 1 ELSE 0]

(* All that the step changes of the view is that x has the value v.        *)
Shows(c, n, x, v) == Sets(Both', declared', Both, declared, c, n, x, v)

(* The declaration of x, of the innermost frame.                           *)
LEMMA Declaring ==
  ASSUME IInv, NEW x \in Vars, NEW t \in Type, heap' = Grown(heap, t), Note(Here, x, t)
  PROVE  LET B == Declared(Both, Here, x, t)
         IN  /\ Good(B, declared', heap') /\ Len(heap') \in Nat
             /\ Here = "fn" => Len(B.scopes[Here]) > 1
             /\ x \in DOMAIN B.scopes[Here][Len(B.scopes[Here])]
             /\ t = declared'[Here][Innermost(declared'[Here], x)][x]
             /\ Innermost(B.scopes[Here], x) = Len(scopes[Here]) /\ Len(scopes[Here]) # 0
             /\ Sets(B, declared', Both, declared, Here, Len(scopes[Here]), x, InitialOf(t))
<1> DEFINE c == Here
           B == Declared(Both, c, x, t)
           n == Len(declared[c])
<1>1. /\ Good(Both, declared, heap) /\ c \in Chain
      /\ c = "fn" => Len(Both.scopes[c]) > 1
  BY HereIs, BothIs DEF IInv
<1>2. /\ Good(B, declared', heap') /\ Len(heap') \in Nat
      /\ Sets(B, declared', Both, declared, c, Len(Both.scopes[c]), x, InitialOf(t))
  <2>1. /\ Len(heap) \in Nat /\ Len(heap') \in Nat /\ Extends(heap, heap')
        /\ t \in Class => Fits(Len(heap) + 1, t, heap')
    BY Created
  <2>2. declared' = [declared EXCEPT ![c][Len(declared[c])] = Put(@, x, t)]
    BY DEF Note
  <2> HIDE DEF c
  <2> QED
    BY <1>1, <2>1, <2>2, DeclaredGood DEF InitialOf
<1> HIDE DEF c, B
<1>3. /\ n \in 1 .. n /\ IsSeq(declared[c]) /\ n = Len(scopes[c])
      /\ declared = [e \in Chain |-> declared[e]]
  BY <1>1, DeclaredBounds
<1>4. declared'[c][n] = Put(declared[c][n], x, t) /\ Len(declared'[c]) = n
  <2>1. Replaced(declared'[c], declared[c], n, Put(declared[c][n], x, t))
    BY <1>1, <1>3 DEF Note, Replaced, c
  <2> HIDE DEF n
  <2> QED
    BY <1>3, <2>1, Replacing DEF n
<1>5. Len(B.scopes[c]) = n
  BY <1>1, <1>2, <1>4 DEF Good, Lengths
<1>6. DOMAIN B.scopes[c][n] = DOMAIN declared'[c][n]
  BY <1>1, <1>2, <1>3, <1>5 DEF Good, Matched
<1>7. x \in DOMAIN B.scopes[c][n] /\ declared'[c][n][x] = t
  <2> DEFINE f == Put(declared[c][n], x, t)
  <2>1. DOMAIN f = DOMAIN declared[c][n] \cup {x} /\ f[x] = t
    BY DEF Put
  <2>2. declared'[c][n] = f
    BY <1>4
  <2> HIDE DEF f
  <2> QED
    BY <1>6, <2>1, <2>2
<1>8. Innermost(declared'[c], x) = n /\ Innermost(B.scopes[c], x) = n
  <2>1. n \in Nat /\ \A j \in n + 1 .. n : FALSE
    BY <1>3
  <2> HIDE DEF n
  <2> QED
    BY <1>3, <1>4, <1>5, <1>6, <1>7, <2>1, InnermostIs
<1> QED
  BY <1>1, <1>2, <1>3, <1>5, <1>7, <1>8, BothIs DEF c, B

(* decl and deferdecl keep the invariant.                                  *)
LEMMA DeclareKeeps ==
  ASSUME IInv, NEW x \in Vars, NEW t \in Type, Declare(x, t)
  PROVE  IInv' /\ Shows(Here, Len(scopes[Here]), x, InitialOf(t))
<1> DEFINE B == Declared(Both, Here, x, t)
<1>1. /\ heap' = Grown(heap, t) /\ Note(Here, x, t) /\ Room(t) /\ crashed' = crashed
      /\ Become(IF Deferred THEN B ELSE Added(B, Here, x))
  BY DEF Declare
<1>2. /\ Good(B, declared', heap')
      /\ Here = "fn" => Len(B.scopes[Here]) > 1
      /\ x \in DOMAIN B.scopes[Here][Len(B.scopes[Here])]
      /\ Sets(B, declared', Both, declared, Here, Len(scopes[Here]), x, InitialOf(t))
  BY <1>1, Declaring
<1> HIDE DEF B
<1>3. Added(B, Here, x) = B
  BY <1>2, HereIs, AddedSame
<1>4. Both' = B
  BY <1>1, <1>2, <1>3, BecomeIs DEF Good
<1>5. Good(Both, declared, heap)'
  BY <1>2, <1>4
<1>6. HeapTyped(heap)' /\ Len(heap') <= MaxObjects
  BY <1>1, Created DEF Room
<1>7. \A e \in Chain : Len(declared'[e]) = Len(declared[e])
  BY <1>1, HereIs, NotedLengths
<1>8. IInv'
  BY <1>1, <1>5, <1>6, <1>7, DeclaredBounds, Bounded DEF Chain
<1> QED
  BY <1>2, <1>4, <1>8 DEF Shows

(* No type is the one of what has none.                                    *)
LEMMA TypeSane == "none" \notin Type
BY ClassesAssumption DEF Type

(* So does decl with an initial value, evaluated in the chains before it.  *)
LEMMA DeclareInitKeeps ==
  ASSUME IInv, Plain, NEW x \in Vars, NEW t \in Type, NEW e \in Exprs, DeclareInit(x, t, e)
  PROVE  IInv' /\ Shows(Here, Len(scopes[Here]), x, Immediate(e))
<1> DEFINE D == Declared(Both, Here, x, t)
           v == Immediate(e)
           B == Assigned(D, Here, x, v)
<1>1. /\ heap' = Grown(heap, t) /\ Note(Here, x, t) /\ Room(t) /\ crashed' = crashed
      /\ Become(Added(B, Here, x)) /\ ~Deferred /\ e \in Usable(t)
  BY DEF DeclareInit
<1>2. /\ Good(D, declared', heap') /\ Len(heap') \in Nat
      /\ Here = "fn" => Len(D.scopes[Here]) > 1
      /\ x \in DOMAIN D.scopes[Here][Len(D.scopes[Here])]
      /\ t = declared'[Here][Innermost(declared'[Here], x)][x]
      /\ Innermost(D.scopes[Here], x) = Len(scopes[Here]) /\ Len(scopes[Here]) # 0
      /\ Sets(D, declared', Both, declared, Here, Len(scopes[Here]), x, InitialOf(t))
  BY <1>1, Declaring
<1>3. v \in Values(e)
  BY <1>1 DEF Values
<1> HIDE DEF v
<1>4. HasType(v, t)
  BY <1>1, <1>3, TypeSane, ValuesTyped
<1>5. v = [type |-> t, val |-> v.val] /\ (t \in Class => Fits(v.val, t, heap'))
  <2>1. Len(heap) \in Nat /\ Len(heap') \in Nat /\ Extends(heap, heap')
    BY <1>1, Created
  <2> QED
    BY <1>4, <2>1, FitsStays DEF HasType
<1> HIDE DEF D
<1>6. /\ Good(B, declared', heap')
      /\ Sets(B, declared', D, declared', Here, Len(scopes[Here]), x, v)
  BY <1>2, <1>5, HereIs, AssignedGood
<1> HIDE DEF B
<1>7. /\ Here = "fn" => Len(B.scopes[Here]) > 1
      /\ x \in DOMAIN B.scopes[Here][Len(B.scopes[Here])]
  <2>1. Len(B.scopes[Here]) = Len(D.scopes[Here]) /\ Len(D.scopes[Here]) \in 1 .. Len(D.scopes[Here])
    BY <1>2, <1>6, HereIs DEF Good, Lengths, IsChains, IsSeq
  <2>2. DOMAIN B.scopes[Here][Len(B.scopes[Here])] = DOMAIN D.scopes[Here][Len(D.scopes[Here])]
    BY <1>2, <1>6, <2>1, HereIs DEF Good, Matched
  <2> QED
    BY <1>2, <2>1, <2>2
<1>8. Added(B, Here, x) = B
  BY <1>6, <1>7, HereIs, AddedSame
<1>9. Both' = B
  BY <1>1, <1>6, <1>8, BecomeIs DEF Good
<1>10. Good(Both, declared, heap)'
  BY <1>6, <1>9
<1>11. HeapTyped(heap)' /\ Len(heap') <= MaxObjects
  BY <1>1, Created DEF Room
<1>12. \A c \in Chain : Len(declared'[c]) = Len(declared[c])
  BY <1>1, HereIs, NotedLengths
<1>13. IInv'
  BY <1>1, <1>10, <1>11, <1>12, DeclaredBounds, Bounded DEF Chain
<1>14. Sets(B, declared', Both, declared, Here, Len(scopes[Here]), x, v)
  <2> DEFINE f == View(Both, declared)
             g == View(D, declared')
             k == View(B, declared')
             u == InitialOf(t)
             n == Len(scopes[Here])
  <2>1. IsChains(f) /\ n \in 1 .. Len(f[Here]) /\ Here \in Chain
    <3>1. Good(Both, declared, heap) /\ Here \in Chain /\ n \in Nat /\ n # 0
      BY HereIs, DeclaredBounds DEF IInv
    <3> HIDE DEF n
    <3>2. IsChains(f) /\ Len(f[Here]) = n
      BY <3>1, BothIs, ViewIs DEF n
    <3> QED
      BY <3>1, <3>2
  <2>2. /\ Changed(g, f, Here, n, Put(f[Here][n], x, u))
        /\ Changed(k, g, Here, n, Put(g[Here][n], x, v))
    BY <1>2, <1>6 DEF Sets
  <2> HIDE DEF f, g, k, u, n
  <2>3. Changed(k, f, Here, n, Put(f[Here][n], x, v))
    BY <2>1, <2>2, SetsTwice
  <2> QED
    BY <2>3 DEF Sets, f, k, n
<1> QED
  BY <1>9, <1>13, <1>14 DEF Shows, v

(* So does an assignment to a variable, in either evaluator.               *)
LEMMA AssignKeeps ==
  ASSUME IInv, Plain, NEW x \in Vars, NEW e \in Exprs, Assign(x, e)
  PROVE  IInv' /\ \E v \in Values(e) : Shows(Here, Innermost(scopes[Here], x), x, v)
<1> DEFINE t == Types[x]
<1>1. x \in DOMAIN Types /\ e \in Usable(t) /\ UNCHANGED <<heap, declared, crashed>>
  BY DEF Assign
<1>2. PICK v \in Values(e) : Become(Assigned(Both, Here, x, v))
  BY DEF Assign
<1>3. /\ Innermost(scopes[Here], x) # 0 /\ t \in Type
      /\ t = declared[Here][Innermost(declared[Here], x)][x]
  BY <1>1, Resolved
<1> HIDE DEF t
<1>4. HasType(v, t)
  BY <1>1, <1>3, TypeSane, ValuesTyped
<1>5. Good(Both, declared, heap) /\ Len(heap) \in Nat /\ HeapTyped(heap)
  BY DEF IInv, HeapTyped, IsSeq
<1> DEFINE B == Assigned(Both, Here, x, v)
<1>6. /\ Good(B, declared, heap)
      /\ Sets(B, declared, Both, declared, Here, Innermost(scopes[Here], x), x, v)
  BY <1>3, <1>4, <1>5, HereIs, BothIs, AssignedGood DEF HasType
<1> HIDE DEF B
<1>7. Both' = B
  BY <1>2, <1>6, BecomeIs DEF Good, B
<1>8. Good(Both, declared, heap)' /\ HeapTyped(heap)'
  BY <1>1, <1>5, <1>6, <1>7
<1>9. IInv'
  BY <1>1, <1>8, DeclaredBounds, Bounded
<1>10. Shows(Here, Innermost(scopes[Here], x), x, v)
  BY <1>1, <1>6, <1>7 DEF Shows
<1> QED
  BY <1>9, <1>10

(* So does an assignment to a member, in either evaluator.                 *)
LEMMA MemberAssignKeeps ==
  ASSUME IInv, Plain, NEW a \in Members, NEW e \in Exprs, MemberAssign(a, e)
  PROVE  IInv'
<1> DEFINE t == AtomType(a, Types)
           o == Owner(heap, Pointer(a.x), a.path)
           k == Index(heap[o].class, a.path[Len(a.path)])
<1>1. /\ t # "none" /\ o # 0 /\ e \in Usable(t)
      /\ UNCHANGED <<scopes, ptrs, declared, crashed>>
  BY DEF MemberAssign, Dangles
<1>2. PICK v \in Values(e) : heap' = SetCell(heap, Pointer(a.x), a.path, v.val)
  BY DEF MemberAssign
<1>3. HasType(v, t)
  <2> HIDE DEF t
  <2> QED
    BY <1>1, ValuesTyped
<1>4. Good(Both, declared, heap) /\ Len(heap) \in Nat /\ HeapTyped(heap)
  BY DEF IInv, HeapTyped, IsSeq
<1>5. a.op = "member" /\ a.path \in Paths
  BY DEF Members
<1>6. a.x \in DOMAIN Types /\ Types[a.x] \in Class /\ t = PathType(Types[a.x], a.path)
  BY <1>1, <1>5 DEF AtomType
<1>7. Fits(Pointer(a.x), Types[a.x], heap)
  BY <1>6, Resolved
<1>8. /\ o \in 1 .. Len(heap) /\ k \in 1 .. Len(Fields[heap[o].class])
      /\ Fields[heap[o].class][k].type = t
  BY <1>1, <1>4, <1>5, <1>6, <1>7, PathLeads
<1>9. heap' = [heap EXCEPT ![o].words[k] = v.val]
  BY <1>2 DEF SetCell
<1> HIDE DEF t, o, k
<1>10. HeapTyped(heap') /\ Len(heap') = Len(heap) /\ Extends(heap, heap')
  <2> DEFINE r == v.val
  <2>1. Fields[heap[o].class][k].type \in Class => Fits(r, Fields[heap[o].class][k].type, heap)
    BY <1>3, <1>8 DEF HasType
  <2>2. WordSet(heap', heap, o, k, r)
    BY <1>9 DEF WordSet
  <2> HIDE DEF r
  <2> QED
    BY <1>4, <1>8, <2>1, <2>2, CellTyped
<1>11. Good(Both, declared, heap')
  BY <1>4, <1>10, GoodStays
<1>12. Good(Both, declared, heap)' /\ HeapTyped(heap)'
  BY <1>1, <1>10, <1>11 DEF Both
<1> QED
  BY <1>1, <1>10, <1>12, DeclaredBounds, Bounded

(* So does going through NULL.                                             *)
LEMMA CrashKeeps ==
  ASSUME IInv, Crash PROVE IInv'
<1>1. UNCHANGED <<scopes, ptrs, heap, declared>> /\ crashed' = TRUE
  BY DEF Crash
<1>2. Good(Both, declared, heap)' /\ HeapTyped(heap)'
  BY <1>1 DEF IInv, Both
<1> QED
  BY <1>1, <1>2, DeclaredBounds, Bounded

(* So does the start of an iteration.                                      *)
LEMMA EnterLoopKeeps ==
  ASSUME IInv, EnterLoop
  PROVE  IInv' /\ Pushed(View(Both', declared'), View(Both, declared), Here)
<1> DEFINE c == Here
           B == [NewScope(Both, c) EXCEPT !.ptrs[c] = Append(@, << >>)]
<1>1. /\ Become(B) /\ Pushed(declared', declared, c)
      /\ Len(scopes[c]) < 2 + MaxLoops /\ UNCHANGED <<heap, crashed>>
  BY DEF EnterLoop, Pushed
<1>2. /\ c \in Chain /\ (c = "fn" => Len(Both.scopes[c]) > 1)
      /\ Good(Both, declared, heap) /\ HeapTyped(heap)
  BY HereIs, BothIs DEF IInv
<1> HIDE DEF c
<1>3. IsBoth(B) /\ Pushed(B.scopes, Both.scopes, c) /\ Pushed(B.ptrs, Both.ptrs, c)
  BY DEF IsBoth, NewScope, Both, Pushed
<1> HIDE DEF B
<1>4. Good(B, declared', heap)
  <2> DEFINE D == declared'
             b == Both
  <2>1. /\ Good(b, declared, heap) /\ (c = "fn" => Len(b.scopes[c]) > 1)
        /\ Pushed(B.scopes, b.scopes, c) /\ Pushed(B.ptrs, b.ptrs, c) /\ Pushed(D, declared, c)
    BY <1>1, <1>2, <1>3
  <2> HIDE DEF D, b
  <2>2. Good(B, D, heap)
    BY <1>2, <1>3, <2>1, LoopGood
  <2> QED
    BY <2>2 DEF D
<1>5. Both' = B
  BY <1>1, <1>3, BecomeIs
<1>6. Good(Both, declared, heap)' /\ HeapTyped(heap)'
  BY <1>1, <1>2, <1>4, <1>5
<1>7. /\ Len(declared'[c]) = Len(declared[c]) + 1
      /\ \A e \in Chain \ {c} : declared'[e] = declared[e]
  <2>1. declared'[c] = Append(declared[c], << >>)
        /\ \A e \in Chain \ {c} : declared'[e] = declared[e]
    BY <1>1, <1>2, DeclaredBounds DEF Pushed
  <2> QED
    BY <1>2, <2>1, DeclaredBounds, Appending
<1>8. \A e \in Chain : Len(declared'[e]) <= 2 + MaxLoops /\ Len(declared'[e]) >= Len(declared[e])
  BY <1>1, <1>2, <1>7, DeclaredBounds, InterpreterAssumption
<1>9. IInv'
  BY <1>1, <1>6, <1>8, DeclaredBounds, Bounded DEF Chain
<1>10. ASSUME NEW a \in Chain, NEW i \in 1 .. Len(Both.scopes[a])
       PROVE  B.ptrs[a][Beside(a, i)] = Both.ptrs[a][Beside(a, i)]
  <2>1. CASE a # c
    BY <1>2, <1>3, <2>1 DEF Good, IsChains, Pushed
  <2>2. CASE a = c
    <3>1. /\ IsSeq(Both.ptrs[c]) /\ B.ptrs[c] = Append(Both.ptrs[c], << >>)
          /\ Beside(a, i) \in 1 .. Len(Both.ptrs[c])
      <4>1. IsSeq(Both.ptrs[c]) /\ B.ptrs[c] = Append(Both.ptrs[c], << >>)
        BY <1>2, <1>3 DEF Good, IsChains, Pushed
      <4>2. Len(Both.ptrs[c]) = Beside(c, Len(Both.scopes[c])) /\ Len(Both.scopes[c]) \in Nat
        BY <1>2 DEF Good, Lengths, IsChains, IsSeq
      <4>3. Beside(a, i) \in 1 .. Beside(c, Len(Both.scopes[c]))
        BY <2>2, <4>2 DEF Beside
      <4> QED
        BY <4>1, <4>2, <4>3
    <3> QED
      BY <2>2, <3>1, Appending
  <2> QED
    BY <2>1, <2>2
<1>11. Pushed(View(B, declared'), View(Both, declared), c)
  <2> DEFINE D == declared'
             b == Both
  <2>1. /\ Good(b, declared, heap) /\ Good(B, D, heap)
        /\ Pushed(B.scopes, b.scopes, c) /\ Pushed(D, declared, c)
        /\ \A a \in Chain : \A i \in 1 .. Len(b.scopes[a]) :
             B.ptrs[a][Beside(a, i)] = b.ptrs[a][Beside(a, i)]
    BY <1>1, <1>2, <1>3, <1>4, <1>10
  <2> HIDE DEF D, b
  <2>2. Pushed(View(B, D), View(b, declared), c)
    BY <1>2, <2>1, PushView
  <2> QED
    BY <2>2 DEF D, b
<1> QED
  BY <1>5, <1>9, <1>11 DEF c

(* A Scope is closed.                                                      *)
LEMMA Closing ==
  ASSUME IInv, NEW c \in Chain, Len(scopes[c]) > 1, c = "main" => Len(scopes[c]) > 2,
         Shortened(scopes', scopes, c), Shortened(declared', declared, c),
         IF c = "fn" /\ Len(scopes[c]) <= 2 THEN ptrs' = ptrs
         ELSE Shortened(ptrs', ptrs, c),
         UNCHANGED <<heap, crashed>>
  PROVE  IInv' /\ Shortened(View(Both', declared'), View(Both, declared), c)
<1>1. Good(Both, declared, heap) /\ HeapTyped(heap)
  BY DEF IInv
<1> DEFINE B == Both'
<1>2. IsBoth(B) /\ B.scopes = scopes' /\ B.ptrs = ptrs'
  BY DEF Both, IsBoth
<1> HIDE DEF B
<1>3. Good(B, declared', heap)
  <2> DEFINE D == declared'
             b == Both
  <2>1. /\ Good(b, declared, heap) /\ Len(b.scopes[c]) > 1 /\ Shortened(D, declared, c)
        /\ Shortened(B.scopes, b.scopes, c)
        /\ IF c = "fn" /\ Len(b.scopes[c]) <= 2 THEN B.ptrs = b.ptrs
           ELSE Shortened(B.ptrs, b.ptrs, c)
    BY <1>1, <1>2, BothIs
  <2> HIDE DEF D, b
  <2>2. Good(B, D, heap)
    BY <1>2, <2>1, CloseGood
  <2> QED
    BY <2>2 DEF D
<1>4. Good(Both, declared, heap)' /\ HeapTyped(heap)'
  BY <1>1, <1>3 DEF B
<1>5. /\ Len(declared'[c]) = Len(declared[c]) - 1
      /\ \A e \in Chain \ {c} : declared'[e] = declared[e]
  <2>1. declared'[c] = SubSeq(declared[c], 1, Len(declared[c]) - 1)
        /\ \A e \in Chain \ {c} : declared'[e] = declared[e]
    BY DeclaredBounds DEF Shortened
  <2>2. IsSeq(declared[c]) /\ Len(declared[c]) - 1 \in 0 .. Len(declared[c])
    BY DeclaredBounds
  <2> QED
    BY <2>1, <2>2, Cutting
<1>6. \A e \in Chain : Len(declared'[e]) <= Len(declared[e]) /\ Len(declared'[e]) \in Int
  BY <1>5, DeclaredBounds
<1>7. Len(declared'["main"]) > 1
  <2>1. CASE c = "main"
    <3>1. Len(declared["main"]) \in Nat /\ Len(declared["main"]) > 2
      BY <2>1, DeclaredBounds
    <3> QED
      BY <1>5, <2>1, <3>1
  <2>2. CASE c # "main"
    BY <1>5, <2>2, DeclaredBounds DEF Chain
  <2> QED
    BY <2>1, <2>2
<1>8. \A e \in Chain : Len(declared'[e]) <= 2 + MaxLoops
  BY <1>6, DeclaredBounds, InterpreterAssumption
<1>9. IInv'
  BY <1>4, <1>7, <1>8, DeclaredBounds, Bounded
<1>10. ASSUME NEW a \in Chain, NEW i \in 1 .. Len(scopes'[a])
       PROVE  ptrs'[a][Beside(a, i)] = ptrs[a][Beside(a, i)]
  <2>1. CASE ptrs'[a] = ptrs[a]
    BY <2>1
  <2>2. CASE ptrs'[a] # ptrs[a]
    <3>1. a = c /\ ptrs'[c] = SubSeq(ptrs[c], 1, Len(ptrs[c]) - 1)
      BY <1>1, <2>2, BothIs DEF Good, IsChains, Shortened
    <3>2. /\ IsSeq(ptrs[c]) /\ Len(ptrs[c]) = Beside(c, Len(scopes[c]))
          /\ Len(scopes[c]) \in Nat /\ Len(scopes[c]) > 1
      BY <1>1, BothIs DEF Good, IsChains, IsSeq, Lengths
    <3>3. ptrs'[c] # ptrs[c] => ~(c = "fn" /\ Len(scopes[c]) <= 2)
      OBVIOUS
    <3>4. Len(scopes'[c]) = Len(scopes[c]) - 1
      BY <1>4, BothIs, DeclaredBounds, <1>5 DEF Good, Lengths, Both
    <3> DEFINE n == Len(scopes[c])
    <3>5. i \in 1 .. n - 1 /\ n \in Nat /\ n > 1 /\ Len(ptrs[c]) = Beside(c, n)
          /\ ~(c = "fn" /\ n <= 2)
      BY <2>2, <3>1, <3>2, <3>3, <3>4
    <3> HIDE DEF n
    <3>6. /\ Beside(c, i) \in 1 .. Len(ptrs[c]) - 1 /\ Len(ptrs[c]) - 1 \in 0 .. Len(ptrs[c])
      BY <3>5 DEF Beside
    <3> QED
      BY <3>1, <3>2, <3>6, Cutting
  <2> QED
    BY <2>1, <2>2
<1>11. Shortened(View(B, declared'), View(Both, declared), c)
  <2> DEFINE D == declared'
             b == Both
  <2>1. /\ Good(b, declared, heap) /\ Good(B, D, heap)
        /\ Shortened(B.scopes, b.scopes, c) /\ Shortened(D, declared, c)
        /\ \A a \in Chain : \A i \in 1 .. Len(B.scopes[a]) :
             B.ptrs[a][Beside(a, i)] = b.ptrs[a][Beside(a, i)]
    BY <1>1, <1>2, <1>3, <1>10, BothIs
  <2> HIDE DEF D, b
  <2>2. Shortened(View(B, D), View(b, declared), c)
    BY <2>1, CutView
  <2> QED
    BY <2>2 DEF D, b
<1> QED
  BY <1>9, <1>11 DEF B

(* So does the end of an iteration.                                        *)
LEMMA LeaveLoopKeeps ==
  ASSUME IInv, LeaveLoop
  PROVE  IInv' /\ Shortened(View(Both', declared'), View(Both, declared), Here)
<1> DEFINE c == Here
<1>1. /\ Len(scopes[c]) > 2 /\ UNCHANGED <<heap, crashed>>
      /\ Shortened(scopes', scopes, c) /\ Shortened(ptrs', ptrs, c)
      /\ Shortened(declared', declared, c)
  BY DEF LeaveLoop, Shortened
<1>2. c \in Chain
  BY HereIs
<1> HIDE DEF c
<1>3. Len(scopes[c]) > 1 /\ ~(Len(scopes[c]) <= 2)
  <2>1. Len(scopes[c]) \in Nat
    BY <1>2, DeclaredBounds
  <2>2. Len(scopes[c]) > 2
    BY <1>1
  <2> QED
    BY <2>1, <2>2
<1> QED
  BY <1>1, <1>2, <1>3, Closing DEF c

(* So does the end of a call.                                              *)
LEMMA ReturnKeeps ==
  ASSUME IInv, Return
  PROVE  IInv' /\ Shortened(View(Both', declared'), View(Both, declared), "fn")
<1> DEFINE c == "fn"
<1>1. /\ Len(scopes[c]) = 2 /\ UNCHANGED <<ptrs, heap, crashed>>
      /\ scopes' = [scopes EXCEPT ![c] = SubSeq(@, 1, 1)]
      /\ declared' = [declared EXCEPT ![c] = SubSeq(@, 1, 1)]
  BY DEF Return
<1>2. c \in Chain /\ c # "main"
  BY DEF Chain
<1>3. Len(declared[c]) = 2 /\ 2 - 1 = 1
  BY <1>1, <1>2, DeclaredBounds
<1>4. Shortened(scopes', scopes, c) /\ Shortened(declared', declared, c)
  BY <1>1, <1>3 DEF Shortened
<1>5. Len(scopes[c]) > 1 /\ Len(scopes[c]) <= 2
  BY <1>1
<1> HIDE DEF c
<1> QED
  BY <1>1, <1>2, <1>4, <1>5, Closing DEF c

(* A call's Scope.                                                         *)
LEMMA Calling ==
  ASSUME IInv, ~Deferred
  PROVE  LET N == NewScope(Both, "fn")
             D == [declared EXCEPT !["fn"] = Append(@, << >>)]
         IN  /\ Len(scopes["fn"]) = 1
             /\ Good(N, D, heap)
             /\ Pushed(View(N, D), View(Both, declared), "fn")
<1> DEFINE c == "fn"
<1>1. Here = "main" /\ c \in Chain
  BY DEF Deferred, Here, Chain
<1>2. ~(Len(scopes[c]) > 1) /\ Len(scopes[c]) \in Nat \ {0}
  <2>1. Len(scopes[c]) \in Nat \ {0}
    BY <1>1, DeclaredBounds
  <2>2. ~(Len(scopes[c]) > 1)
    BY <1>1 DEF Here
  <2> QED
    BY <2>1, <2>2
<1>3. Len(scopes[c]) = 1
  <2> DEFINE n == Len(scopes[c])
  <2>1. n \in Nat \ {0} /\ ~(n > 1)
    BY <1>2
  <2> HIDE DEF n
  <2>2. n = 1
    BY <2>1
  <2> QED
    BY <2>2 DEF n
<1>4. Good(Both, declared, heap)
  BY DEF IInv
<1> DEFINE D == [declared EXCEPT ![c] = Append(@, << >>)]
<1>5. D = [declared EXCEPT ![c] = Append(@, << >>)]
  OBVIOUS
<1>6. c = "fn"
  OBVIOUS
<1> HIDE DEF c, D
<1>7. Good(NewScope(Both, c), D, heap)
  BY <1>1, <1>3, <1>4, <1>5, <1>6, BothIs, CallGood
<1> DEFINE N == NewScope(Both, c)
<1>8. Pushed(N.scopes, Both.scopes, c) /\ N.ptrs = Both.ptrs
  BY <1>4 DEF NewScope, Pushed, Good, IsBoth
<1>9. Pushed(D, declared, c)
  BY DEF D, Pushed
<1> HIDE DEF N
<1>10. Pushed(View(N, D), View(Both, declared), c)
  <2> DEFINE b == Both
  <2>1. Good(b, declared, heap) /\ Good(N, D, heap) /\ Pushed(N.scopes, b.scopes, c) /\ N.ptrs = b.ptrs
    BY <1>4, <1>7, <1>8 DEF N
  <2> HIDE DEF b
  <2>2. Pushed(View(N, D), View(b, declared), c)
    BY <1>1, <1>9, <2>1, PushView
  <2> QED
    BY <2>2 DEF b
<1> QED
  BY <1>3, <1>7, <1>10 DEF c, D, N

(* The bounds, at the start of a call.                                     *)
LEMMA CallBounds ==
  ASSUME IInv, Len(scopes["fn"]) = 1, NEW f, declared' = [declared EXCEPT !["fn"] = Append(@, f)]
  PROVE  /\ \A e \in Chain : Len(declared'[e]) <= 2 + MaxLoops
         /\ Len(declared'["main"]) > 1
<1> DEFINE c == "fn"
<1>1. c \in Chain /\ "main" \in Chain \ {c}
  BY DEF Chain
<1>2. declared'[c] = Append(declared[c], f) /\ \A e \in Chain \ {c} : declared'[e] = declared[e]
  BY <1>1, DeclaredBounds
<1>3. IsSeq(declared[c]) /\ Len(declared[c]) = 1
  BY <1>1, DeclaredBounds
<1>4. Len(declared'[c]) = 2
  BY <1>2, <1>3, Appending
<1>5. 2 <= 2 + MaxLoops
  BY InterpreterAssumption
<1> HIDE DEF c
<1>6. Len(declared'["main"]) > 1
  BY <1>1, <1>2, DeclaredBounds
<1>7. \A e \in Chain : Len(declared'[e]) <= 2 + MaxLoops
  BY <1>1, <1>2, <1>4, <1>5, DeclaredBounds
<1> QED
  BY <1>6, <1>7

(* So does a call without parameters.                                      *)
LEMMA CallKeeps ==
  ASSUME IInv, Call
  PROVE  IInv' /\ Pushed(View(Both', declared'), View(Both, declared), "fn")
<1> DEFINE B == NewScope(Both, "fn")
<1>1. /\ Become(B) /\ declared' = [declared EXCEPT !["fn"] = Append(@, << >>)]
      /\ ~Deferred /\ UNCHANGED <<heap, crashed>>
  BY DEF Call
<1>2. /\ Len(scopes["fn"]) = 1 /\ Good(B, declared', heap)
      /\ Pushed(View(B, declared'), View(Both, declared), "fn")
  BY <1>1, Calling
<1> HIDE DEF B
<1>3. Both' = B
  BY <1>1, <1>2, BecomeIs DEF Good
<1>4. Good(Both, declared, heap)' /\ HeapTyped(heap)'
  BY <1>1, <1>2, <1>3 DEF IInv
<1>5. IInv'
  BY <1>1, <1>2, <1>4, CallBounds, DeclaredBounds, Bounded
<1> QED
  BY <1>2, <1>3, <1>5

(* So does a call with one: its Scope, the declaration, the assignment.    *)
LEMMA CallWithKeeps ==
  ASSUME IInv, Plain, NEW x \in Vars, NEW t \in Type, NEW e \in Exprs, CallWith(x, t, e)
  PROVE  /\ IInv'
         /\ View(Both', declared')
              = [View(Both, declared) EXCEPT !["fn"] = Append(@, Put(<< >>, x, Immediate(e)))]
<1> DEFINE c == "fn"
           N == NewScope(Both, c)
           d == [declared EXCEPT ![c] = Append(@, << >>)]
           D == Declared(N, c, x, t)
           v == Immediate(e)
           B == Assigned(D, c, x, v)
<1>1. /\ heap' = Grown(heap, t) /\ Room(t) /\ crashed' = crashed
      /\ declared' = [declared EXCEPT ![c] = Append(@, Put(<< >>, x, t))]
      /\ Become(B) /\ ~Deferred /\ e \in Usable(t)
  BY DEF CallWith
<1>2. /\ Len(scopes[c]) = 1 /\ Good(N, d, heap) /\ c \in Chain
      /\ Pushed(View(N, d), View(Both, declared), c)
  BY <1>1, Calling DEF Chain
<1>3. /\ Len(heap) \in Nat /\ Len(heap') \in Nat /\ Extends(heap, heap') /\ HeapTyped(heap)'
      /\ t \in Class => Fits(Len(heap) + 1, t, heap')
  BY <1>1, Created
<1> DEFINE n == Len(declared[c])
<1>4. /\ IsSeq(declared[c]) /\ n \in Nat /\ declared = [g \in Chain |-> declared[g]]
      /\ \A i \in 1 .. n + 1 : i \in 1 .. n \/ i = n + 1
  BY <1>2, DeclaredBounds
<1>5. /\ d[c] = Append(declared[c], << >>) /\ declared'[c] = Append(declared[c], Put(<< >>, x, t))
      /\ \A g \in Chain \ {c} : d[g] = declared[g] /\ declared'[g] = declared[g]
      /\ d = [g \in Chain |-> d[g]] /\ declared' = [g \in Chain |-> declared'[g]]
  BY <1>1, <1>2, <1>4
<1>6. /\ IsSeq(d[c]) /\ Len(d[c]) = n + 1 /\ d[c][n + 1] = << >>
      /\ IsSeq(declared'[c]) /\ Len(declared'[c]) = n + 1 /\ declared'[c][n + 1] = Put(<< >>, x, t)
      /\ \A i \in 1 .. n : d[c][i] = declared[c][i] /\ declared'[c][i] = declared[c][i]
  <2> HIDE DEF c, d
  <2> QED
    BY <1>4, <1>5, Appending
<1> HIDE DEF c, d, n
<1>7. declared' = [d EXCEPT ![c][Len(d[c])] = Put(@, x, t)]
  <2> DEFINE q == [d EXCEPT ![c][n + 1] = Put(@, x, t)]
  <2>1. Replaced(q[c], d[c], n + 1, Put(<< >>, x, t))
    BY <1>2, <1>5, <1>6 DEF Replaced
  <2>2. q = [g \in Chain |-> q[g]] /\ \A g \in Chain \ {c} : q[g] = declared[g]
    BY <1>5
  <2> HIDE DEF q
  <2>3. n + 1 \in 1 .. Len(d[c]) /\ \A i \in 1 .. n : i \in 1 .. Len(d[c]) \ {n + 1}
    BY <1>4, <1>6
  <2>4. /\ IsSeq(q[c]) /\ Len(q[c]) = n + 1 /\ q[c][n + 1] = Put(<< >>, x, t)
        /\ \A i \in 1 .. n : q[c][i] = declared[c][i]
    BY <1>6, <2>1, <2>3, Replacing
  <2>5. \A i \in 1 .. n + 1 : q[c][i] = declared'[c][i]
    BY <1>4, <1>6, <2>4
  <2>6. q[c] = [i \in 1 .. n + 1 |-> q[c][i]] /\ declared'[c] = [i \in 1 .. n + 1 |-> declared'[c][i]]
    BY <1>6, <2>4 DEF IsSeq
  <2>7. q[c] = declared'[c]
    BY <2>5, <2>6
  <2>8. q = declared'
    BY <1>5, <2>2, <2>7
  <2> QED
    BY <1>6, <2>8 DEF q
<1>8. Len(N.scopes[c]) = n + 1 /\ n > 0
  BY <1>2, <1>4, <1>6, DeclaredBounds DEF Good, Lengths, n
<1>9. /\ Good(D, declared', heap')
      /\ Sets(D, declared', N, d, c, n + 1, x, InitialOf(t))
  <2> DEFINE q == [d EXCEPT ![c][Len(d[c])] = Put(@, x, t)]
             m == Len(N.scopes[c])
             u == InitialOf(t)
  <2>1. m > 1 /\ q = declared' /\ m = n + 1
    BY <1>4, <1>7, <1>8
  <2> HIDE DEF N
  <2>2. Good(D, q, heap') /\ Sets(D, q, N, d, c, m, x, u)
    BY <1>2, <1>3, <2>1, DeclaredGood DEF InitialOf
  <2> HIDE DEF D, q, m, u
  <2>3. Good(D, declared', heap') /\ Sets(D, declared', N, d, c, n + 1, x, u)
    BY <2>1, <2>2
  <2> QED
    BY <2>3 DEF u
<1> HIDE DEF D, N
<1>10. /\ Innermost(declared'[c], x) = n + 1 /\ declared'[c][n + 1][x] = t
       /\ Innermost(D.scopes[c], x) = n + 1
  <2>1. x \in DOMAIN declared'[c][n + 1] /\ declared'[c][n + 1][x] = t
    <3> DEFINE f == Put(<< >>, x, t)
    <3>1. x \in DOMAIN f /\ f[x] = t
      BY DEF Put
    <3>2. declared'[c][n + 1] = f
      BY <1>6
    <3> HIDE DEF f
    <3> QED
      BY <3>1, <3>2
  <2>2. /\ n + 1 \in 1 .. Len(declared'[c]) /\ Len(declared'[c]) \in Nat
        /\ \A j \in n + 1 + 1 .. Len(declared'[c]) : FALSE
    BY <1>4, <1>6
  <2>3. Innermost(declared'[c], x) = n + 1
    BY <2>1, <2>2, InnermostIs
  <2>4. Innermost(declared'[c], x) = Innermost(D.scopes[c], x)
    BY <1>2, <1>9, SameNames
  <2> QED
    BY <2>1, <2>3, <2>4
<1>11. v \in Values(e)
  BY <1>1 DEF Values
<1> HIDE DEF v
<1>12. HasType(v, t)
  BY <1>1, <1>11, TypeSane, ValuesTyped
<1>13. v = [type |-> t, val |-> v.val] /\ (t \in Class => Fits(v.val, t, heap'))
  BY <1>3, <1>12, FitsStays DEF HasType
<1>14. /\ Good(B, declared', heap')
       /\ Sets(B, declared', D, declared', c, n + 1, x, v)
  <2>1. Innermost(D.scopes[c], x) # 0 /\ t = declared'[c][Innermost(declared'[c], x)][x]
    BY <1>4, <1>10
  <2> QED
    BY <1>2, <1>3, <1>9, <1>10, <1>13, <2>1, AssignedGood
<1> HIDE DEF B
<1>15. Both' = B
  BY <1>1, <1>14, BecomeIs DEF Good
<1>16. Good(Both, declared, heap)' /\ HeapTyped(heap)'
  BY <1>3, <1>14, <1>15
<1>17. Len(heap') <= MaxObjects
  BY <1>1 DEF Room
<1>18. IInv'
  BY <1>1, <1>2, <1>16, <1>17, CallBounds, DeclaredBounds, Bounded DEF c
<1>19. View(B, declared') = [View(Both, declared) EXCEPT ![c] = Append(@, Put(<< >>, x, v))]
  <2> DEFINE o == View(Both, declared)
             f == View(N, d)
             g == View(D, declared')
             k == View(B, declared')
             u == InitialOf(t)
             p == Put(<< >>, x, v)
  <2>1. /\ IsChains(o) /\ Len(o[c]) = n /\ IsChains(f) /\ Len(f[c]) = n + 1
    <3>1. Good(Both, declared, heap) /\ Len(Both.scopes[c]) = n
      BY <1>2, BothIs, DeclaredBounds DEF IInv, n
    <3> QED
      BY <1>2, <1>8, <3>1, ViewIs
  <2>2. /\ Changed(g, f, c, n + 1, Put(f[c][n + 1], x, u))
        /\ Changed(k, g, c, n + 1, Put(g[c][n + 1], x, v))
    BY <1>9, <1>14 DEF Sets
  <2>3. Pushed(f, o, c)
    BY <1>2
  <2> HIDE DEF o, f, g, k, u, p
  <2>4. n + 1 \in 1 .. Len(f[c])
    BY <1>4, <2>1
  <2>5. Changed(k, f, c, n + 1, Put(f[c][n + 1], x, v))
    BY <1>2, <2>1, <2>2, <2>4, SetsTwice
  <2>6. /\ f[c] = Append(o[c], << >>) /\ \A g2 \in Chain \ {c} : f[g2] = o[g2]
        /\ o = [g2 \in Chain |-> o[g2]] /\ f = [g2 \in Chain |-> f[g2]] /\ IsSeq(o[c])
    BY <1>2, <2>1, <2>3 DEF Pushed, IsChains
  <2>7. /\ f[c][n + 1] = << >> /\ \A i \in 1 .. n : f[c][i] = o[c][i] /\ IsSeq(f[c])
    BY <2>1, <2>6, Appending
  <2>8. Changed(k, f, c, n + 1, p)
    BY <2>5, <2>7 DEF p
  <2>9. k[c] = Append(o[c], p)
    <3> DEFINE a == Append(o[c], p)
    <3>1. /\ IsSeq(a) /\ Len(a) = n + 1 /\ a[n + 1] = p /\ \A i \in 1 .. n : a[i] = o[c][i]
      BY <2>1, <2>6, Appending
    <3>2. IsSeq(f[c])
      BY <1>2, <2>1 DEF IsChains
    <3>3. Replaced(k[c], f[c], n + 1, p)
      BY <1>2, <2>6, <2>8 DEF Changed, Replaced
    <3> HIDE DEF a
    <3>4. \A i \in 1 .. n : i \in 1 .. Len(f[c]) \ {n + 1}
      BY <1>4, <2>1
    <3>5. /\ IsSeq(k[c]) /\ Len(k[c]) = n + 1 /\ k[c][n + 1] = p
          /\ \A i \in 1 .. n : k[c][i] = o[c][i]
      BY <2>1, <2>4, <2>7, <3>2, <3>3, <3>4, Replacing
    <3>6. \A i \in 1 .. n + 1 : k[c][i] = a[i]
      BY <1>4, <3>1, <3>5
    <3>7. k[c] = [i \in 1 .. n + 1 |-> k[c][i]] /\ a = [i \in 1 .. n + 1 |-> a[i]]
      BY <3>1, <3>5 DEF IsSeq
    <3>8. k[c] = a
      BY <3>6, <3>7
    <3> QED
      BY <3>8 DEF a
  <2>10. k = [o EXCEPT ![c] = Append(o[c], p)]
    BY <1>2, <2>6, <2>8, <2>9 DEF Changed
  <2> QED
    BY <2>10 DEF k, o, p
<1> QED
  BY <1>15, <1>18, <1>19 DEF c, v

(* So does no step at all.                                                 *)
LEMMA StutterKeeps ==
  ASSUME IInv, UNCHANGED vars PROVE IInv'
<1>1. UNCHANGED <<scopes, ptrs, heap, declared, crashed>>
  BY DEF vars
<1>2. Good(Both, declared, heap)' /\ HeapTyped(heap)'
  BY <1>1 DEF IInv, Both
<1> QED
  BY <1>1, <1>2, DeclaredBounds, Bounded

(* Each step keeps the invariant.                                          *)
LEMMA Inductive ==
  ASSUME IInv, Plain, [Next]_vars PROVE IInv'
<1>1. ASSUME NEW x \in Vars, NEW t \in Type, Declare(x, t) PROVE IInv'
  BY <1>1, DeclareKeeps
<1>2. ASSUME NEW x \in Vars, NEW t \in Type, NEW e \in Exprs, DeclareInit(x, t, e) PROVE IInv'
  BY <1>2, DeclareInitKeeps
<1>3. ASSUME NEW x \in Vars, NEW e \in Exprs, Assign(x, e) PROVE IInv'
  BY <1>3, AssignKeeps
<1>4. ASSUME NEW a \in Members, NEW e \in Exprs, MemberAssign(a, e) PROVE IInv'
  BY <1>4, MemberAssignKeeps
<1>5. ASSUME NEW x \in Vars, NEW t \in Type, NEW e \in Exprs, CallWith(x, t, e) PROVE IInv'
  BY <1>5, CallWithKeeps
<1>6. CASE Crash
  BY <1>6, CrashKeeps
<1>7. CASE EnterLoop
  BY <1>7, EnterLoopKeeps
<1>8. CASE LeaveLoop
  BY <1>8, LeaveLoopKeeps
<1>9. CASE Call
  BY <1>9, CallKeeps
<1>10. CASE Return
  BY <1>10, ReturnKeeps
<1>11. CASE UNCHANGED vars
  BY <1>11, StutterKeeps
<1> QED
  BY <1>1, <1>2, <1>3, <1>4, <1>5, <1>6, <1>7, <1>8, <1>9, <1>10, <1>11 DEF Next

(***************************************************************************)
(* What the invariant says                                                 *)
(***************************************************************************)

(* The invariant implies the type invariant.                               *)
LEMMA InvariantTypes == IInv => TypeOK
<1> SUFFICES ASSUME IInv PROVE TypeOK
  OBVIOUS
<1>1. Good(Both, declared, heap)
  BY DEF IInv
<1>2. ASSUME NEW c \in Chain
      PROVE  /\ Len(scopes[c]) \in Depth /\ Len(ptrs[c]) \in Depth
             /\ Len(declared[c]) = Len(scopes[c])
  <2>1. /\ Len(scopes[c]) > 0 /\ Len(declared[c]) = Len(scopes[c])
        /\ Len(ptrs[c]) = Beside(c, Len(scopes[c]))
    BY <1>1, BothIs DEF Good, Lengths
  <2>2. Len(scopes[c]) \in Nat /\ Len(scopes[c]) <= 2 + MaxLoops
    BY <1>1, BothIs DEF Good, IsChains, IsSeq, IInv, Bounds
  <2> QED
    BY <2>1, <2>2, InterpreterAssumption DEF Depth, Beside
<1>3. ASSUME NEW c \in Chain, NEW i \in 1 .. Len(scopes[c])
      PROVE  /\ DOMAIN scopes[c][i] \subseteq Vars
             /\ DOMAIN declared[c][i] = DOMAIN scopes[c][i]
             /\ DOMAIN ptrs[c][Beside(c, i)] \subseteq Vars
  BY <1>1, BothIs DEF Good, Matched
<1>4. ASSUME NEW c \in Chain, NEW j \in 1 .. Len(ptrs[c])
      PROVE  DOMAIN ptrs[c][j] \subseteq Vars
  <2> DEFINE n == Len(scopes[c])
  <2>1. n \in Nat /\ n > 0 /\ Len(ptrs[c]) = Beside(c, n)
    BY <1>1, BothIs DEF Good, Lengths, IsChains, IsSeq
  <2> HIDE DEF n
  <2>2. \E i \in 1 .. n : Beside(c, i) = j
    <3>1. CASE c = "fn"
      <4>1. CASE n > 1
        <5>1. j + 1 \in 1 .. n /\ Beside(c, j + 1) = j
          BY <2>1, <3>1, <4>1 DEF Beside
        <5> QED
          BY <5>1
      <4>2. CASE ~(n > 1)
        <5>1. n = 1
          BY <2>1, <4>2
        <5>2. j = 1 /\ 1 \in 1 .. n /\ Beside(c, 1) = 1
          BY <2>1, <5>1 DEF Beside
        <5> QED
          BY <5>2
      <4> QED
        BY <4>1, <4>2
    <3>2. CASE c # "fn"
      BY <2>1, <3>2 DEF Beside
    <3> QED
      BY <3>1, <3>2
  <2> QED
    BY <1>3, <2>2 DEF n
<1> QED
  BY <1>2, <1>3, <1>4 DEF TypeOK, IInv, Bounds

(* What is known of a variable of some frame.                              *)
LEMMA OfVariable ==
  ASSUME IInv, NEW c \in Chain, NEW i \in 1 .. Len(scopes[c]), NEW x \in DOMAIN scopes[c][i]
  PROVE  /\ scopes[c][i][x].type = declared[c][i][x]
         /\ IsClass(scopes[c][i][x]) =>
              /\ Beside(c, i) \in 1 .. Len(ptrs[c]) /\ x \in DOMAIN ptrs[c][Beside(c, i)]
              /\ Fits(ptrs[c][Beside(c, i)][x], declared[c][i][x], heap)
<1>1. Good(Both, declared, heap)
  BY DEF IInv
<1>2. Matched(scopes[c][i], ptrs[c][Beside(c, i)], declared[c][i], heap)
  BY <1>1, BothIs DEF Good
<1>3. /\ scopes[c][i][x] = [type |-> declared[c][i][x], val |-> scopes[c][i][x].val]
      /\ declared[c][i][x] \in Type
      /\ declared[c][i][x] \in Class => /\ x \in DOMAIN ptrs[c][Beside(c, i)]
                                        /\ Fits(ptrs[c][Beside(c, i)][x], declared[c][i][x], heap)
  BY <1>2 DEF Matched
<1>4. scopes[c][i][x].type = declared[c][i][x]
  BY <1>3
<1>5. IsClass(scopes[c][i][x]) => declared[c][i][x] \in Class
  BY <1>3, <1>4, Classy
<1>6. Beside(c, i) \in 1 .. Len(ptrs[c])
  <2>1. Len(ptrs[c]) = Beside(c, Len(scopes[c])) /\ Len(scopes[c]) \in Nat
    BY <1>1, BothIs DEF Good, Lengths, IsChains, IsSeq
  <2> QED
    BY <2>1 DEF Beside
<1> QED
  BY <1>3, <1>4, <1>5, <1>6

(* A reference is found in the LSRScope that belongs to its Scope.         *)
LEMMA InvariantChains == IInv => ChainsInStep
BY OfVariable DEF ChainsInStep

(* The types agree.                                                        *)
LEMMA InvariantKept == IInv => TypesKept
BY OfVariable DEF TypesKept

(* The innermost reference to x up to the frame beside its Scope is the    *)
(* one there, which fits.                                                  *)
LEMMA InvariantReferences == IInv => ReferencesTyped
<1> SUFFICES ASSUME IInv PROVE ReferencesTyped
  OBVIOUS
<1>1. ASSUME NEW c \in Chain, NEW i \in 1 .. Len(scopes[c]), NEW x \in DOMAIN scopes[c][i],
             IsClass(scopes[c][i][x])
      PROVE  Fits(Reference(c, i, x), declared[c][i][x], heap)
  <2> DEFINE m == Beside(c, i)
             cut == SubSeq(ptrs[c], 1, m)
  <2>1. /\ m \in 1 .. Len(ptrs[c]) /\ x \in DOMAIN ptrs[c][m]
        /\ Fits(ptrs[c][m][x], declared[c][i][x], heap)
    BY <1>1, OfVariable
  <2>2. IsSeq(ptrs[c])
    BY BothIs DEF IInv, Good, IsChains
  <2>3. m \in 0 .. Len(ptrs[c]) /\ m \in 1 .. m /\ m \in Nat /\ Len(ptrs[c]) \in Nat
    BY <2>1, <2>2 DEF IsSeq
  <2> HIDE DEF m
  <2>4. Len(cut) = m /\ cut[m] = ptrs[c][m]
    BY <2>2, <2>3, Cutting
  <2> HIDE DEF cut
  <2>5. \A j \in m + 1 .. Len(cut) : x \notin DOMAIN cut[j]
    BY <2>3, <2>4
  <2>6. Innermost(cut, x) = m
    <3>1. m \in 1 .. Len(cut) /\ Len(cut) \in Nat /\ x \in DOMAIN cut[m]
      BY <2>1, <2>3, <2>4
    <3> QED
      BY <2>5, <3>1, InnermostIs
  <2>7. Reference(c, i, x) = ptrs[c][m][x]
    BY <2>3, <2>6 DEF Reference, m, cut
  <2> QED
    BY <2>1, <2>7
<1>2. ASSUME NEW o \in 1 .. Len(heap), NEW k \in References(heap[o].class)
      PROVE  Fits(heap[o].words[k], Fields[heap[o].class][k].type, heap)
  <2>1. Object(heap[o], heap)
    BY DEF IInv, HeapTyped
  <2> QED
    BY <2>1 DEF Object
<1> QED
  BY <1>1, <1>2 DEF ReferencesTyped, Fits

(* Whatever plain program runs, with any classes and any numbers of        *)
(* variables, objects and loops: the two chains stay beside each other,    *)
(* each variable's value and reference are of its declared type, and so    *)
(* are the members of every object.                                        *)
THEOREM InterpreterInvariant == ASSUME Plain PROVE Spec => []IInv
<1>1. Init => IInv
  BY Initially
<1>2. IInv /\ [Next]_vars => IInv'
  BY Inductive
<1> QED
  BY <1>1, <1>2, PTL DEF Spec

(* Each pop of a chain of Scopes or LSRScopes meets its push: the          *)
(* outermost ones stay, the chains hold the names of variables, and the    *)
(* depths and the heap keep within their bounds.                           *)
THEOREM Typed == ASSUME Plain PROVE Spec => []TypeOK
BY InterpreterInvariant, InvariantTypes, PTL

(* A variable of class type has its reference in the LSRScope that belongs *)
(* to its Scope, so that Scope::resolve and LSRScope::resolve, each        *)
(* innermost first, end at the same declaration.                           *)
THEOREM InStep == ASSUME Plain PROVE Spec => []ChainsInStep
BY InterpreterInvariant, InvariantChains, PTL

(* A variable keeps the type it was declared with, whichever evaluator     *)
(* assigns to it.                                                          *)
THEOREM Kept == ASSUME Plain PROVE Spec => []TypesKept
BY InterpreterInvariant, InvariantKept, PTL

(* A reference of a variable or of an object is NULL or an object of the   *)
(* class declared: the collector may follow it and a member access may     *)
(* count words from it.                                                    *)
THEOREM ReferencesFit == ASSUME Plain PROVE Spec => []ReferencesTyped
BY InterpreterInvariant, InvariantReferences, PTL
=============================================================================
