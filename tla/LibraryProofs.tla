--------------------------- MODULE LibraryProofs ---------------------------
(***************************************************************************)
(* What the list and the map collection promise, for any number of lists,  *)
(* nodes and maps, any keys, hash function and values.                     *)
(*                                                                         *)
(* Lists: the functions of list.c keep the nodes of each list strung on a  *)
(* line that head, tail, length and the links agree on.  All but Shift are *)
(* one operation on those lines, see Spliced.                              *)
(*                                                                         *)
(* Maps: the functions of map.c keep every entry of a table once and in    *)
(* the bucket of its key, see Good; a put moves no entry elsewhere even    *)
(* when it doubles the table, see LoopExists and Grows.                    *)
(***************************************************************************)
EXTENDS Lists, Maps, FiniteSetTheorems, SequenceTheorems, WellFoundedInduction, TLAPS

(***************************************************************************)
(* Lines of nodes                                                          *)
(***************************************************************************)

(* The links nx lead along the nodes s of a list of n, from its head h to    *)
(* its tail t.                                                               *)
Strung(s, n, nx, h, t) ==
  /\ n \in Nat /\ s \in [1 .. n -> Node]
  /\ \A i, j \in 1 .. n : s[i] = s[j] => i = j
  /\ \A i \in 1 .. n - 1 : nx[s[i]] = s[i + 1]
  /\ n > 0 => h = s[1] /\ t = s[n] /\ nx[s[n]] = NULL
  /\ n = 0 => h = NULL /\ t = NULL

Apart(s, n, u, m) == \A i \in 1 .. n, j \in 1 .. m : s[i] # u[j]

(* The sequence u, of m, put into s, of n, after its k-th element.           *)
Spliced(s, n, k, u, m) ==
  [i \in 1 .. n + m |-> IF i <= k THEN s[i] ELSE IF i <= k + m THEN u[i - k] ELSE s[i - m]]

(* Its links: to u and from its last node.                                   *)
Relinked(nx2, nx, s, n, k, u, m) ==
  /\ \A x \in Node : x # u[m] /\ (k > 0 => x # s[k]) => nx2[x] = nx[x]
  /\ k > 0 => nx2[s[k]] = u[1]
  /\ nx2[u[m]] = IF k < n THEN s[k + 1] ELSE NULL

Chain(u, m, nx) ==
  /\ m \in Nat /\ m > 0 /\ u \in [1 .. m -> Node]
  /\ \A i, j \in 1 .. m : u[i] = u[j] => i = j
  /\ \A i \in 1 .. m - 1 : nx[u[i]] = u[i + 1]

(* Where an element of Spliced comes from.                                   *)
LEMMA SplicedIs ==
  ASSUME NEW s, NEW n \in Nat, NEW k \in 0 .. n, NEW u, NEW m \in Nat,
         NEW i \in 1 .. n + m
  PROVE  LET q == Spliced(s, n, k, u, m)
         IN  \/ i \in 1 .. k /\ i \in 1 .. n /\ q[i] = s[i]
             \/ i - k \in 1 .. m /\ i > k /\ i <= k + m /\ q[i] = u[i - k]
             \/ i > k + m /\ i - m \in k + 1 .. n /\ i - m \in 1 .. n /\ q[i] = s[i - m]
BY DEF Spliced

LEMMA SplicedStrung ==
  ASSUME NEW s, NEW n, NEW nx, NEW h, NEW t, Strung(s, n, nx, h, t),
         NEW k \in 0 .. n, NEW u, NEW m, Chain(u, m, nx), Apart(s, n, u, m),
         NEW nx2, Relinked(nx2, nx, s, n, k, u, m)
  PROVE  Strung(Spliced(s, n, k, u, m), n + m, nx2,
                IF k = 0 THEN u[1] ELSE h, IF k = n THEN u[m] ELSE t)
<1> DEFINE q == Spliced(s, n, k, u, m)
<1>1. /\ n \in Nat /\ s \in [1 .. n -> Node]
      /\ \A i, j \in 1 .. n : s[i] = s[j] => i = j
      /\ \A i \in 1 .. n - 1 : nx[s[i]] = s[i + 1]
      /\ n > 0 => h = s[1] /\ t = s[n] /\ nx[s[n]] = NULL
  BY DEF Strung
<1>2. /\ m \in Nat /\ m > 0 /\ u \in [1 .. m -> Node]
      /\ \A i, j \in 1 .. m : u[i] = u[j] => i = j
      /\ \A i \in 1 .. m - 1 : nx[u[i]] = u[i + 1]
  BY DEF Chain
<1>3. /\ \A x \in Node : x # u[m] /\ (k > 0 => x # s[k]) => nx2[x] = nx[x]
      /\ k > 0 => nx2[s[k]] = u[1]
      /\ nx2[u[m]] = IF k < n THEN s[k + 1] ELSE NULL
  BY DEF Relinked
<1>4. \A i \in 1 .. n, j \in 1 .. m : s[i] # u[j]
  BY DEF Apart
<1>5. \A i \in 1 .. k : i \in 1 .. n + m /\ i \in 1 .. n /\ q[i] = s[i]
  BY <1>1, <1>2 DEF Spliced
<1>6. \A i \in 1 .. m : i + k \in 1 .. n + m /\ q[i + k] = u[i]
  BY <1>1, <1>2 DEF Spliced
<1>7. \A i \in k + 1 .. n : i + m \in 1 .. n + m /\ i \in 1 .. n /\ q[i + m] = s[i]
  BY <1>1, <1>2 DEF Spliced
<1>8. \A i \in 1 .. n + m :
        \/ i \in 1 .. k
        \/ \E j \in 1 .. m : i = j + k
        \/ \E j \in k + 1 .. n : i = j + m
  <2> TAKE i \in 1 .. n + m
  <2>1. i \in 1 .. k \/ i - k \in 1 .. m \/ i - m \in k + 1 .. n
    BY <1>1, <1>2
  <2>2. i = (i - k) + k /\ i = (i - m) + m
    BY <1>1, <1>2
  <2> QED
    BY <2>1, <2>2
<1>9. q = [i \in 1 .. n + m |-> q[i]]
  BY DEF Spliced
<1> HIDE DEF q
<1>10. \A i \in 1 .. n + m : q[i] \in Node
  <2> TAKE i \in 1 .. n + m
  <2>1. ASSUME i \in 1 .. k PROVE q[i] \in Node
    <3>1. q[i] = s[i] /\ i \in 1 .. n
      BY <1>5, <2>1
    <3> QED
      BY <1>1, <3>1
  <2>2. ASSUME NEW j \in 1 .. m, i = j + k PROVE q[i] \in Node
    BY <1>2, <1>6, <2>2
  <2>3. ASSUME NEW j \in k + 1 .. n, i = j + m PROVE q[i] \in Node
    <3>1. q[i] = s[j] /\ j \in 1 .. n
      BY <1>7, <2>3
    <3> QED
      BY <1>1, <3>1
  <2> QED
    BY <1>8, <2>1, <2>2, <2>3
<1>11. ASSUME NEW i \in 1 .. n + m, NEW j \in 1 .. n + m, q[i] = q[j] PROVE i = j
  <2>1. CASE i \in 1 .. k
    <3>1. CASE j \in 1 .. k
      BY <1>1, <1>5, <1>11, <2>1, <3>1
    <3>2. CASE \E b \in 1 .. m : j = b + k
      BY <1>4, <1>5, <1>6, <1>11, <2>1, <3>2
    <3>3. ASSUME NEW b \in k + 1 .. n, j = b + m PROVE FALSE
      <4>1. i \in 1 .. n /\ b \in 1 .. n /\ s[i] = s[b]
        BY <1>5, <1>7, <1>11, <2>1, <3>3
      <4>2. i = b
        BY <1>1, <4>1
      <4> QED
        BY <1>1, <2>1, <4>2
    <3> QED
      BY <1>8, <3>1, <3>2, <3>3
  <2>2. ASSUME NEW a \in 1 .. m, i = a + k PROVE i = j
    <3>1. CASE j \in 1 .. k
      BY <1>4, <1>5, <1>6, <1>11, <2>2, <3>1
    <3>2. ASSUME NEW b \in 1 .. m, j = b + k PROVE i = j
      <4>1. u[a] = u[b]
        BY <1>6, <1>11, <2>2, <3>2
      <4>2. a = b
        BY <1>2, <4>1
      <4> QED
        BY <2>2, <3>2, <4>2
    <3>3. CASE \E b \in k + 1 .. n : j = b + m
      BY <1>4, <1>6, <1>7, <1>11, <2>2, <3>3
    <3> QED
      BY <1>8, <3>1, <3>2, <3>3
  <2>3. ASSUME NEW a \in k + 1 .. n, i = a + m PROVE i = j
    <3>1. ASSUME j \in 1 .. k PROVE FALSE
      <4>1. j = a
        BY <1>1, <1>5, <1>7, <1>11, <2>3, <3>1
      <4> QED
        BY <1>1, <3>1, <4>1
    <3>2. CASE \E b \in 1 .. m : j = b + k
      BY <1>4, <1>6, <1>7, <1>11, <2>3, <3>2
    <3>3. CASE \E b \in k + 1 .. n : j = b + m
      BY <1>1, <1>7, <1>11, <2>3, <3>3
    <3> QED
      BY <1>8, <3>1, <3>2, <3>3
  <2> QED
    BY <1>8, <2>1, <2>2, <2>3
<1>12. ASSUME NEW i \in 1 .. n + m - 1 PROVE nx2[q[i]] = q[i + 1]
  <2>1. i \in 1 .. n + m /\ i + 1 \in 1 .. n + m
    BY <1>1, <1>2
  <2>2. CASE i \in 1 .. k /\ i # k
    <3>1. i + 1 \in 1 .. k /\ i \in 1 .. n - 1 /\ i \in 1 .. n /\ k \in 1 .. n
      BY <1>1, <2>2
    <3>2. s[i] \in Node /\ s[i] # u[m] /\ s[i] # s[k]
      BY <1>1, <1>2, <1>4, <2>2, <3>1
    <3>3. nx2[s[i]] = nx[s[i]] /\ nx[s[i]] = s[i + 1]
      BY <1>1, <1>3, <3>1, <3>2
    <3> QED
      BY <1>5, <2>2, <3>1, <3>3
  <2>3. CASE i = k
    <3>1. k > 0 /\ k \in 1 .. k /\ 1 \in 1 .. m /\ i + 1 = 1 + k
      BY <1>1, <1>2, <2>3
    <3> QED
      BY <1>3, <1>5, <1>6, <2>3, <3>1
  <2>4. ASSUME NEW a \in 1 .. m, i = a + k, a # m PROVE nx2[q[i]] = q[i + 1]
    <3>1. a + 1 \in 1 .. m /\ a \in 1 .. m - 1 /\ i + 1 = (a + 1) + k
      BY <1>1, <1>2, <2>4
    <3>2. u[a] \in Node /\ u[a] # u[m] /\ (k > 0 => u[a] # s[k])
      BY <1>1, <1>2, <1>4, <2>4
    <3>3. nx2[u[a]] = nx[u[a]] /\ nx[u[a]] = u[a + 1]
      BY <1>2, <1>3, <3>1, <3>2
    <3> QED
      BY <1>6, <2>4, <3>1, <3>3
  <2>5. CASE i = m + k
    <3>1. k < n /\ m \in 1 .. m /\ k + 1 \in k + 1 .. n /\ i + 1 = (k + 1) + m
      BY <1>1, <1>2, <2>5
    <3> QED
      BY <1>3, <1>6, <1>7, <2>5, <3>1
  <2>6. ASSUME NEW a \in k + 1 .. n, i = a + m PROVE nx2[q[i]] = q[i + 1]
    <3>1. /\ a + 1 \in k + 1 .. n /\ a \in 1 .. n - 1 /\ a \in 1 .. n
          /\ i + 1 = (a + 1) + m /\ (k > 0 => k \in 1 .. n /\ a # k)
      BY <1>1, <1>2, <2>6
    <3>2. s[a] \in Node /\ s[a] # u[m] /\ (k > 0 => s[a] # s[k])
      BY <1>1, <1>2, <1>4, <3>1
    <3>3. nx2[s[a]] = nx[s[a]] /\ nx[s[a]] = s[a + 1]
      BY <1>1, <1>3, <3>1, <3>2
    <3> QED
      BY <1>7, <2>6, <3>1, <3>3
  <2> QED
    BY <1>8, <2>1, <2>2, <2>3, <2>4, <2>5, <2>6
<1>13. q[1] = IF k = 0 THEN u[1] ELSE h
  <2>1. CASE k = 0
    BY <1>2, <1>6, <2>1
  <2>2. CASE k # 0
    BY <1>1, <1>5, <2>2
  <2> QED
    BY <2>1, <2>2
<1>14. q[n + m] = (IF k = n THEN u[m] ELSE t) /\ nx2[q[n + m]] = NULL
  <2>1. CASE k = n
    <3>1. m \in 1 .. m /\ n + m = m + k
      BY <1>1, <1>2, <2>1
    <3> QED
      BY <1>3, <1>6, <2>1, <3>1
  <2>2. CASE k # n
    <3>1. n \in k + 1 .. n /\ n \in 1 .. n /\ n > 0 /\ (k > 0 => k \in 1 .. n /\ k # n)
      BY <1>1, <2>2
    <3>2. s[n] \in Node /\ s[n] # u[m] /\ (k > 0 => s[n] # s[k])
      BY <1>1, <1>2, <1>4, <3>1
    <3>3. nx2[s[n]] = NULL
      BY <1>1, <1>3, <3>1, <3>2
    <3> QED
      BY <1>1, <1>7, <2>2, <3>1, <3>3
  <2> QED
    BY <2>1, <2>2
<1>15. n + m \in Nat /\ n + m > 0 /\ q \in [1 .. n + m -> Node]
  BY <1>1, <1>2, <1>9, <1>10
<1>16. Strung(q, n + m, nx2, IF k = 0 THEN u[1] ELSE h, IF k = n THEN u[m] ELSE t)
  <2> DEFINE h2 == IF k = 0 THEN u[1] ELSE h
             t2 == IF k = n THEN u[m] ELSE t
             l == n + m
  <2>1. q[1] = h2 /\ q[l] = t2 /\ nx2[q[l]] = NULL
    BY <1>13, <1>14
  <2>2. l \in Nat /\ l > 0 /\ q \in [1 .. l -> Node]
    BY <1>15
  <2>3. \A i, j \in 1 .. l : q[i] = q[j] => i = j
    BY <1>11
  <2>4. \A i \in 1 .. l - 1 : nx2[q[i]] = q[i + 1]
    <3> TAKE i \in 1 .. l - 1
    <3>1. i \in 1 .. n + m - 1
      BY <1>1, <1>2
    <3> HIDE DEF l
    <3> QED
      BY <1>12, <3>1
  <2> HIDE DEF h2, t2, l
  <2>5. Strung(q, l, nx2, h2, t2)
    BY <2>1, <2>2, <2>3, <2>4 DEF Strung
  <2> QED
    BY <2>5 DEF h2, t2, l
<1> QED
  BY <1>16 DEF q

(***************************************************************************)
(* All the lists                                                           *)
(***************************************************************************)

(* Along the sequences sp, one for each list, none of whose nodes is in      *)
(* another one.                                                              *)
Lines(sp, len, nx, h, t) ==
  /\ \A l \in List : Strung(sp[l], len[l], nx, h[l], t[l])
  /\ \A l, m \in List : l # m => Apart(sp[l], len[l], sp[m], len[m])

(* What changes l as Spliced changes its line: from is the list u is taken   *)
(* from, which gets empty, or l itself if it is made anew.                   *)
Changed(l, from, n, m, k, u, len, len2, h, h2, t, t2) ==
  /\ len2[l] = n + m
  /\ h2[l] = IF k = 0 THEN u[1] ELSE h[l]
  /\ t2[l] = IF k = n THEN u[m] ELSE t[l]
  /\ from # l => len2[from] = 0 /\ h2[from] = NULL /\ t2[from] = NULL
  /\ \A j \in List \ {l, from} : len2[j] = len[j] /\ h2[j] = h[j] /\ t2[j] = t[j]

AfterSplice(sp, len, l, from, k, u, m) ==
  [j \in List |-> IF j = l THEN Spliced(sp[l], len[l], k, u, m)
                  ELSE IF j = from THEN [i \in 1 .. 0 |-> NULL] ELSE sp[j]]

LEMMA EmptyStrung ==
  ASSUME NEW nx
  PROVE  Strung([i \in 1 .. 0 |-> NULL], 0, nx, NULL, NULL)
<1> DEFINE e == [i \in 1 .. 0 |-> NULL]
<1>1. e \in [1 .. 0 -> Node] /\ 1 .. 0 = {} /\ 1 .. 0 - 1 = {}
  OBVIOUS
<1> HIDE DEF e
<1>2. Strung(e, 0, nx, NULL, NULL)
  BY <1>1 DEF Strung
<1> QED
  BY <1>2 DEF e

LEMMA StrungSame ==
  ASSUME NEW s, NEW n, NEW nx, NEW h, NEW t, Strung(s, n, nx, h, t), NEW nx2,
         \A i \in 1 .. n : nx2[s[i]] = nx[s[i]]
  PROVE  Strung(s, n, nx2, h, t)
<1>1. n \in Nat /\ (\A i \in 1 .. n - 1 : i \in 1 .. n) /\ (n > 0 => n \in 1 .. n)
  BY DEF Strung
<1> QED
  BY <1>1 DEF Strung

LEMMA ChangedLines ==
  ASSUME NEW sp, NEW len, NEW nx, NEW h, NEW t, Lines(sp, len, nx, h, t),
         NEW l \in List, NEW from \in List, NEW k \in 0 .. len[l],
         NEW u, NEW m, Chain(u, m, nx),
         \A j \in List : j # from \/ j = l => Apart(sp[j], len[j], u, m),
         NEW nx2, Relinked(nx2, nx, sp[l], len[l], k, u, m),
         NEW len2, NEW h2, NEW t2,
         Changed(l, from, len[l], m, k, u, len, len2, h, h2, t, t2)
  PROVE  Lines(AfterSplice(sp, len, l, from, k, u, m), len2, nx2, h2, t2)
<1> DEFINE r == AfterSplice(sp, len, l, from, k, u, m)
           n == len[l]
<1>1. /\ r[l] = Spliced(sp[l], n, k, u, m)
      /\ from # l => r[from] = [i \in 1 .. 0 |-> NULL]
      /\ \A j \in List \ {l, from} : r[j] = sp[j]
  BY DEF AfterSplice
<1>2. /\ \A j \in List : Strung(sp[j], len[j], nx, h[j], t[j])
      /\ \A i, j \in List : i # j => Apart(sp[i], len[i], sp[j], len[j])
  BY DEF Lines
<1>3. /\ len2[l] = n + m
      /\ h2[l] = IF k = 0 THEN u[1] ELSE h[l]
      /\ t2[l] = IF k = n THEN u[m] ELSE t[l]
      /\ from # l => len2[from] = 0 /\ h2[from] = NULL /\ t2[from] = NULL
      /\ \A j \in List \ {l, from} : len2[j] = len[j] /\ h2[j] = h[j] /\ t2[j] = t[j]
  BY DEF Changed
<1>4. n \in Nat /\ m \in Nat /\ m > 0
  BY <1>2 DEF Strung, Chain
<1> HIDE DEF r, n
<1>5. Strung(r[l], len2[l], nx2, h2[l], t2[l])
  <2>1. Strung(sp[l], n, nx, h[l], t[l]) /\ Apart(sp[l], n, u, m)
        /\ Relinked(nx2, nx, sp[l], n, k, u, m) /\ k \in 0 .. n
    BY <1>2 DEF n
  <2>2. Strung(Spliced(sp[l], n, k, u, m), n + m, nx2,
               IF k = 0 THEN u[1] ELSE h[l], IF k = n THEN u[m] ELSE t[l])
    BY <2>1, SplicedStrung
  <2> QED
    BY <1>1, <1>3, <2>2
<1>6. from # l => Strung(r[from], len2[from], nx2, h2[from], t2[from])
  BY <1>1, <1>3, EmptyStrung
<1>7. ASSUME NEW j \in List \ {l, from} PROVE Strung(r[j], len2[j], nx2, h2[j], t2[j])
  <2>1. Strung(sp[j], len[j], nx, h[j], t[j])
    BY <1>2
  <2>2. ASSUME NEW i \in 1 .. len[j] PROVE nx2[sp[j][i]] = nx[sp[j][i]]
    <3>1. sp[j][i] \in Node
      BY <2>1 DEF Strung
    <3>2. sp[j][i] # u[m]
      BY <1>4 DEF Apart
    <3>3. k > 0 => k \in 1 .. n /\ sp[j][i] # sp[l][k]
      <4>1. Apart(sp[j], len[j], sp[l], n)
        BY <1>2 DEF n
      <4>2. k > 0 => k \in 1 .. n
        BY <1>4 DEF n
      <4> QED
        BY <4>1, <4>2 DEF Apart
    <3> QED
      BY <3>1, <3>2, <3>3 DEF Relinked
  <2>3. Strung(sp[j], len[j], nx2, h[j], t[j])
    BY <2>1, <2>2, StrungSame
  <2> QED
    BY <1>1, <1>3, <2>3
<1>8. \A j \in List \ {l} : Apart(r[l], len2[l], r[j], len2[j])
  <2> TAKE j \in List \ {l}
  <2>1. CASE j = from
    BY <1>3, <2>1 DEF Apart
  <2>2. CASE j # from
    <3> SUFFICES ASSUME NEW i \in 1 .. n + m, NEW x \in 1 .. len[j]
                 PROVE  r[l][i] # sp[j][x]
      BY <1>1, <1>3, <2>2 DEF Apart
    <3>1. Apart(sp[l], n, sp[j], len[j]) /\ Apart(sp[j], len[j], u, m)
      BY <1>2, <2>2 DEF n
    <3>2. \/ i \in 1 .. n /\ r[l][i] = sp[l][i]
          \/ i - k \in 1 .. m /\ r[l][i] = u[i - k]
          \/ i - m \in 1 .. n /\ r[l][i] = sp[l][i - m]
      <4>1. k \in 0 .. n
        BY DEF n
      <4> QED
        BY <1>1, <1>4, <4>1, SplicedIs
    <3> QED
      BY <3>1, <3>2 DEF Apart
  <2> QED
    BY <2>1, <2>2
<1>9. \A i, j \in List : Apart(r[i], len2[i], r[j], len2[j]) => Apart(r[j], len2[j], r[i], len2[i])
  BY DEF Apart
<1>10. ASSUME NEW i \in List \ {l}, NEW j \in List \ {l}, i # j
       PROVE  Apart(r[i], len2[i], r[j], len2[j])
  <2>1. CASE i = from \/ j = from
    BY <1>3, <2>1 DEF Apart
  <2>2. CASE i # from /\ j # from
    BY <1>1, <1>2, <1>3, <1>10, <2>2
  <2> QED
    BY <2>1, <2>2
<1>11. \A j \in List : Strung(r[j], len2[j], nx2, h2[j], t2[j])
  BY <1>5, <1>6, <1>7
<1>12. \A i, j \in List : i # j => Apart(r[i], len2[i], r[j], len2[j])
  BY <1>8, <1>9, <1>10
<1> QED
  BY <1>11, <1>12 DEF Lines, r

(***************************************************************************)
(* Walking along a line                                                    *)
(***************************************************************************)

LEMMA Least ==
  ASSUME NEW S \in SUBSET Nat, S # {}
  PROVE  \E m \in S : \A n \in S : m <= n
<1>1. PICK m \in S : \A n \in S : ~ (<<n, m>> \in OpToRel(<, Nat))
  BY NatLessThanWellFounded, WFMin
<1>2. \A n \in S : ~ (n < m)
  BY <1>1 DEF OpToRel
<1> QED
  BY <1>2

LEMMA NodeIsNotNull == NULL \notin Node
BY DEF NULL, Node

(* There are no more nodes in a line than there are.                         *)
LEMMA LineFits ==
  ASSUME NEW s, NEW n, NEW nx, NEW h, NEW t, Strung(s, n, nx, h, t)
  PROVE  n \in 0 .. MaxNodes
<1>1. n \in Nat /\ s \in [1 .. n -> Node] /\ \A i, j \in 1 .. n : s[i] = s[j] => i = j
  BY DEF Strung
<1>2. MaxNodes \in Nat
  BY ListsAssumption
<1>3. IsFiniteSet(1 .. n) /\ Cardinality(1 .. n) = n
  <2>1. IsFiniteSet(1 .. n) /\ Cardinality(1 .. n) = IF 1 > n THEN 0 ELSE n - 1 + 1
    BY <1>1, FS_Interval
  <2> QED
    BY <1>1, <2>1
<1>4. IsFiniteSet(Node) /\ Cardinality(Node) = MaxNodes
  <2>1. IsFiniteSet(1 .. MaxNodes)
        /\ Cardinality(1 .. MaxNodes) = IF 1 > MaxNodes THEN 0 ELSE MaxNodes - 1 + 1
    BY <1>2, FS_Interval
  <2> QED
    BY <1>2, <2>1 DEF Node
<1>5. ~ (MaxNodes < n)
  <2>1. SUFFICES ASSUME Cardinality(Node) < Cardinality(1 .. n) PROVE FALSE
    BY <1>3, <1>4
  <2>2. \E i, j \in 1 .. n : i # j /\ s[i] = s[j]
    BY <1>1, <1>3, <1>4, <2>1, FS_PigeonHole
  <2> QED
    BY <1>1, <2>2
<1> QED
  BY <1>1, <1>2, <1>5

(* Path, for any links. *)
Step(w, n, nx, k) == IF k = 0 THEN n ELSE IF w[k - 1] = NULL THEN NULL ELSE nx[w[k - 1]]
Walked(w, n, nx) == w = [k \in 0 .. MaxNodes |-> Step(w, n, nx, k)]
Walk(n, nx) == CHOOSE w : Walked(w, n, nx)

LEMMA PathWalks ==
  /\ \A n : Path(n) = Walk(n, next)
  /\ \A n : Path(n)' = Walk(n, next')
BY DEF Path, Walk, Walked, Step

LEMMA WalkIs ==
  ASSUME NEW s, NEW n, NEW nx, NEW h, NEW t, Strung(s, n, nx, h, t),
         NEW k \in 0 .. MaxNodes
  PROVE  Walk(h, nx)[k] = IF k < n THEN s[k + 1] ELSE NULL
<1> DEFINE v == [j \in 0 .. MaxNodes |-> IF j < n THEN s[j + 1] ELSE NULL]
           w == Walk(h, nx)
<1>1. n \in Nat /\ n \in 0 .. MaxNodes /\ MaxNodes \in Nat
  BY LineFits, ListsAssumption
<1>2. /\ \A i \in 1 .. n : s[i] # NULL
      /\ \A i \in 1 .. n - 1 : nx[s[i]] = s[i + 1]
      /\ n > 0 => h = s[1] /\ nx[s[n]] = NULL
      /\ n = 0 => h = NULL
  BY NodeIsNotNull DEF Strung
<1>3. \A j \in 0 .. MaxNodes : v[j] = Step(v, h, nx, j)
  <2> TAKE j \in 0 .. MaxNodes
  <2>1. CASE j = 0
    BY <1>1, <1>2, <2>1 DEF Step
  <2>2. CASE j > 0
    <3>1. j - 1 \in 0 .. MaxNodes /\ (j - 1) + 1 = j
      BY <1>1, <2>2
    <3>2. v[j - 1] = IF j - 1 < n THEN s[j] ELSE NULL
      BY <3>1
    <3>3. v[j] = IF j < n THEN s[j + 1] ELSE NULL
      OBVIOUS
    <3> HIDE DEF v
    <3>4. CASE j < n
      <4>1. j \in 1 .. n - 1 /\ j \in 1 .. n /\ j - 1 < n
        BY <1>1, <2>2, <3>4
      <4> QED
        BY <1>2, <2>2, <3>2, <3>3, <3>4, <4>1 DEF Step
    <3>5. CASE j = n
      <4>1. j \in 1 .. n /\ j - 1 < n /\ n > 0 /\ ~ (j < n)
        BY <1>1, <2>2, <3>5
      <4> QED
        BY <1>2, <2>2, <3>2, <3>3, <3>5, <4>1 DEF Step
    <3>6. CASE j > n
      <4>1. ~ (j - 1 < n) /\ ~ (j < n)
        BY <1>1, <2>2, <3>6
      <4> QED
        BY <2>2, <3>2, <3>3, <4>1 DEF Step
    <3> QED
      BY <1>1, <3>4, <3>5, <3>6
  <2> QED
    BY <2>1, <2>2
<1>4. Walked(v, h, nx)
  <2>1. v = [j \in 0 .. MaxNodes |-> v[j]]
    OBVIOUS
  <2> HIDE DEF v
  <2> QED
    BY <1>3, <2>1 DEF Walked
<1>5. Walked(w, h, nx)
  BY <1>4 DEF Walk
<1>6. \A j \in 0 .. MaxNodes : w[j] = Step(w, h, nx, j)
  <2> HIDE DEF w
  <2> QED
    BY <1>5 DEF Walked
<1>7. v[k] = IF k < n THEN s[k + 1] ELSE NULL
  OBVIOUS
<1> HIDE DEF v, w
<1>8. v[k] = w[k]
  <2> DEFINE S == {j \in 0 .. MaxNodes : v[j] # w[j]}
  <2>1. SUFFICES ASSUME S # {} PROVE FALSE
    OBVIOUS
  <2>2. PICK j \in S : \A i \in S : j <= i
    <3>1. S \in SUBSET Nat
      BY <1>1
    <3> HIDE DEF S
    <3> QED
      BY <2>1, <3>1, Least
  <2>3. j > 0
    BY <1>3, <1>6 DEF Step
  <2>4. j - 1 \in 0 .. MaxNodes /\ v[j - 1] = w[j - 1]
    <3>1. j - 1 \in 0 .. MaxNodes /\ ~ (j <= j - 1)
      BY <1>1, <2>3
    <3> QED
      BY <2>2, <3>1
  <2> QED
    BY <1>3, <1>6, <2>3, <2>4 DEF Step
<1> QED
  BY <1>7, <1>8 DEF w

(***************************************************************************)
(* The invariant of the lists                                              *)
(***************************************************************************)

Typed ==
  /\ length \in [List -> Nat]
  /\ head \in [List -> Node \cup {NULL}] /\ tail \in [List -> Node \cup {NULL}]
  /\ next \in [Node -> Node \cup {NULL}]
  /\ el \in [Node -> Value \cup {None}]
  /\ failed = FALSE

LInv == Typed /\ \E sp : Lines(sp, length, next, head, tail)

(* The nodes of a list. *)
LEMMA NodesAre ==
  ASSUME NEW sp, Lines(sp, length, next, head, tail), NEW l \in List
  PROVE  /\ Nodes(l) = {sp[l][i] : i \in 1 .. length[l]}
         /\ From(tail[l]) \subseteq Nodes(l)
<1> DEFINE s == sp[l]
           n == length[l]
<1>1. Strung(s, n, next, head[l], tail[l])
  BY DEF Lines
<1>2. n \in 0 .. MaxNodes /\ MaxNodes \in Nat
  BY <1>1, LineFits, ListsAssumption
<1>3. \A k \in 0 .. MaxNodes : Path(head[l])[k] = IF k < n THEN s[k + 1] ELSE NULL
  BY <1>1, WalkIs, PathWalks
<1>4. \A i \in 1 .. n : s[i] \in Node /\ s[i] # NULL
  BY <1>1, NodeIsNotNull DEF Strung
<1> HIDE DEF s, n
<1>5. Nodes(l) = {s[i] : i \in 1 .. n}
  <2>1. ASSUME NEW x \in Nodes(l) PROVE x \in {s[i] : i \in 1 .. n}
    <3>1. PICK k \in 0 .. MaxNodes : x = Path(head[l])[k] /\ x # NULL
      BY DEF Nodes, From
    <3>2. x = s[k + 1] /\ k < n
      BY <1>3, <3>1
    <3>3. k + 1 \in 1 .. n
      BY <1>2, <3>2
    <3> QED
      BY <3>2, <3>3
  <2>2. ASSUME NEW i \in 1 .. n PROVE s[i] \in Nodes(l)
    <3>1. i - 1 \in 0 .. MaxNodes /\ i - 1 < n /\ (i - 1) + 1 = i
      BY <1>2
    <3>2. Path(head[l])[i - 1] = s[i]
      BY <1>3, <3>1
    <3> QED
      BY <1>4, <3>1, <3>2 DEF Nodes, From
  <2> QED
    BY <2>1, <2>2
<1>6. From(tail[l]) \subseteq Nodes(l)
  <2>1. CASE n = 0
    <3>1. tail[l] = head[l]
      BY <1>1, <2>1 DEF Strung, s, n
    <3> QED
      BY <3>1 DEF Nodes
  <2>2. CASE n > 0
    <3> DEFINE one == [i \in 1 .. 1 |-> s[n]]
    <3>1. n \in 1 .. n /\ tail[l] = s[n] /\ next[s[n]] = NULL /\ s[n] \in Node
      BY <1>1, <1>2, <1>4, <2>2 DEF Strung, s, n
    <3>2. one \in [1 .. 1 -> Node] /\ one[1] = s[n] /\ 1 .. 1 - 1 = {}
          /\ \A i \in 1 .. 1 : i = 1
      BY <3>1
    <3> HIDE DEF one
    <3>3. Strung(one, 1, next, tail[l], tail[l])
      BY <3>1, <3>2 DEF Strung
    <3>4. ASSUME NEW x \in From(tail[l]) PROVE x = s[n]
      <4>1. PICK k \in 0 .. MaxNodes : x = Path(tail[l])[k] /\ x # NULL
        BY DEF From
      <4>2. x = (IF k < 1 THEN one[k + 1] ELSE NULL)
        BY <3>3, <4>1, WalkIs, PathWalks
      <4>3. k = 0
        BY <4>1, <4>2
      <4> QED
        BY <3>2, <4>2, <4>3
    <3> QED
      BY <1>5, <3>1, <3>4
  <2> QED
    BY <1>2, <2>1, <2>2
<1> QED
  BY <1>5, <1>6 DEF s, n

(* A new node is in no list. *)
LEMMA NewIsNew ==
  ASSUME NEW sp, Lines(sp, length, next, head, tail), Unused # {}
  PROVE  /\ New \in Node
         /\ \A l \in List : \A i \in 1 .. length[l] : sp[l][i] # New
<1>1. Unused \subseteq Node /\ Node \subseteq Nat
  BY ListsAssumption DEF Unused, Node
<1>2. \E m \in Unused : \A n \in Unused : m <= n
  BY <1>1, Least
<1>3. New \in Unused
  BY <1>2 DEF New
<1>4. \A l \in List : New \notin Nodes(l)
  BY <1>3 DEF Unused
<1> QED
  BY <1>1, <1>3, <1>4, NodesAre

LEMMA TypesHold == LInv => ListsTypeOK
<1> SUFFICES ASSUME LInv PROVE ListsTypeOK
  OBVIOUS
<1>1. PICK sp : Lines(sp, length, next, head, tail)
  BY DEF LInv
<1>2. \A l \in List : length[l] \in 0 .. MaxNodes
  BY <1>1, LineFits DEF Lines
<1> QED
  BY <1>2 DEF LInv, Typed, ListsTypeOK

LEMMA Counted ==
  ASSUME NEW n \in Nat, NEW s, \A i, j \in 1 .. n : s[i] = s[j] => i = j
  PROVE  Cardinality({s[i] : i \in 1 .. n}) = n
<1> DEFINE S == {s[i] : i \in 1 .. n}
           f == [i \in 1 .. n |-> s[i]]
<1>1. f \in Bijection(1 .. n, S)
  BY DEF Bijection, Injection, IsInjective, Surjection
<1> HIDE DEF S, f
<1>2. Cardinality(S) = n
  BY <1>1, FS_CountingElements DEF ExistsBijection
<1> QED
  BY <1>2 DEF S

LEMMA WellFormedHolds == LInv => ListsWellFormed
<1> SUFFICES ASSUME LInv, NEW l \in List
             PROVE  /\ Cardinality(Nodes(l)) = length[l]
                    /\ Path(head[l])[length[l]] = NULL
                    /\ tail[l] = IF head[l] = NULL THEN NULL ELSE Path(head[l])[length[l] - 1]
                    /\ \A m \in List \ {l} : Nodes(l) \cap Nodes(m) = {}
  BY DEF ListsWellFormed
<1>1. PICK sp : Lines(sp, length, next, head, tail)
  BY DEF LInv
<1> DEFINE s == sp[l]
           n == length[l]
<1>2. Strung(s, n, next, head[l], tail[l])
  BY <1>1 DEF Lines
<1>3. n \in 0 .. MaxNodes /\ n \in Nat /\ MaxNodes \in Nat
  <2>1. n \in 0 .. MaxNodes
    BY <1>2, LineFits
  <2> HIDE DEF n
  <2> QED
    BY <2>1, ListsAssumption
<1>4. \A k \in 0 .. MaxNodes : Path(head[l])[k] = IF k < n THEN s[k + 1] ELSE NULL
  BY <1>2, WalkIs, PathWalks
<1>5. Cardinality(Nodes(l)) = n
  <2>1. \A i, j \in 1 .. n : s[i] = s[j] => i = j
    BY <1>2 DEF Strung
  <2>2. Nodes(l) = {s[i] : i \in 1 .. n}
    BY <1>1, NodesAre
  <2> HIDE DEF s, n
  <2> QED
    BY <1>3, <2>1, <2>2, Counted
<1>6. tail[l] = IF head[l] = NULL THEN NULL ELSE Path(head[l])[n - 1]
  <2> HIDE DEF s, n
  <2>1. CASE n = 0
    BY <1>2, <2>1 DEF Strung
  <2>2. CASE n > 0
    <3>1. head[l] = s[1] /\ tail[l] = s[n] /\ s[1] \in Node
      BY <1>2, <1>3, <2>2 DEF Strung
    <3>2. n - 1 \in 0 .. MaxNodes /\ n - 1 < n /\ (n - 1) + 1 = n
      BY <1>3, <2>2
    <3> QED
      BY <1>4, <3>1, <3>2, NodeIsNotNull
  <2> QED
    BY <1>3, <2>1, <2>2
<1>7. \A m \in List \ {l} : Nodes(l) \cap Nodes(m) = {}
  BY <1>1, NodesAre DEF Lines, Apart
<1>8. Path(head[l])[n] = NULL
  BY <1>3, <1>4
<1> QED
  BY <1>5, <1>6, <1>7, <1>8

(***************************************************************************)
(* What the lists contain                                                  *)
(***************************************************************************)

ArrayOf(s, n, e) == [i \in 1 .. n |-> e[s[i]]]

(* GGC_ListToArray, for any list. *)
Reached(n, h, nx, e) ==
  [k \in 1 .. Cardinality({j \in 1 .. MaxNodes : j <= n /\ Walk(h, nx)[j - 1] # NULL}) |->
     e[Walk(h, nx)[k - 1]]]

LEMMA ArrayIs ==
  ASSUME NEW s, NEW n, NEW nx, NEW h, NEW t, Strung(s, n, nx, h, t), NEW e
  PROVE  Reached(n, h, nx, e) = ArrayOf(s, n, e)
<1> DEFINE w == Walk(h, nx)
           J == {j \in 1 .. MaxNodes : j <= n /\ w[j - 1] # NULL}
<1>1. n \in 0 .. MaxNodes /\ MaxNodes \in Nat
  BY LineFits, ListsAssumption
<1>2. \A k \in 0 .. MaxNodes : w[k] = IF k < n THEN s[k + 1] ELSE NULL
  BY WalkIs
<1> HIDE DEF w
<1>3. \A k \in 1 .. n : w[k - 1] = s[k] /\ w[k - 1] # NULL
  <2> TAKE k \in 1 .. n
  <2>1. k - 1 \in 0 .. MaxNodes /\ k - 1 < n /\ (k - 1) + 1 = k
    BY <1>1
  <2>2. w[k - 1] = s[k]
    BY <1>2, <2>1
  <2>3. s[k] \in Node
    BY DEF Strung
  <2> QED
    BY <2>2, <2>3, NodeIsNotNull
<1>4. J = 1 .. n
  BY <1>1, <1>3
<1>5. Cardinality(J) = n
  <2>1. Cardinality(1 .. n) = IF 1 > n THEN 0 ELSE n - 1 + 1
    BY <1>1, FS_Interval
  <2> HIDE DEF J
  <2> QED
    BY <1>1, <1>4, <2>1
<1> HIDE DEF J
<1>6. [k \in 1 .. Cardinality(J) |-> e[w[k - 1]]] = ArrayOf(s, n, e)
  BY <1>3, <1>5 DEF ArrayOf
<1> QED
  BY <1>6 DEF Reached, J, w

LEMMA ArrayNow ==
  ASSUME NEW s, NEW l \in List, Strung(s, length[l], next, head[l], tail[l])
  PROVE  ToArray(l) = ArrayOf(s, length[l], el)
<1>1. ToArray(l) = Reached(length[l], head[l], next, el)
  BY PathWalks DEF ToArray, Reached
<1> QED
  BY <1>1, ArrayIs

LEMMA ArrayThen ==
  ASSUME NEW s, NEW l \in List, Strung(s, length'[l], next', head'[l], tail'[l])
  PROVE  ToArray(l)' = ArrayOf(s, length'[l], el')
<1>1. ToArray(l)' = Reached(length'[l], head'[l], next', el')
  BY PathWalks DEF ToArray, Reached
<1> QED
  BY <1>1, ArrayIs

(* What the nodes of a line hold stays.                                      *)
HeldAlong(e2, e, s, n) == \A i \in 1 .. n : e2[s[i]] = e[s[i]]

LEMMA ArraySpliced ==
  ASSUME NEW s, NEW n \in Nat, NEW k \in 0 .. n, NEW u, NEW m \in Nat, NEW e, NEW e2,
         HeldAlong(e2, e, s, n), NEW l, l = n + m
  PROVE  ArrayOf(Spliced(s, n, k, u, m), l, e2)
           = Spliced(ArrayOf(s, n, e), n, k, ArrayOf(u, m, e2), m)
<1> DEFINE q == Spliced(s, n, k, u, m)
           c == ArrayOf(s, n, e)
           d == ArrayOf(u, m, e2)
           a == ArrayOf(q, n + m, e2)
           b == Spliced(c, n, k, d, m)
<1>1. a = [i \in 1 .. n + m |-> e2[q[i]]] /\ b = [i \in 1 .. n + m |-> b[i]]
  BY DEF ArrayOf, Spliced
<1>2. (\A i \in 1 .. n : c[i] = e[s[i]]) /\ (\A i \in 1 .. m : d[i] = e2[u[i]])
  BY DEF ArrayOf
<1>3. ASSUME NEW i \in 1 .. n + m PROVE b[i] = e2[q[i]]
  <2>1. \/ i \in 1 .. k /\ i \in 1 .. n /\ q[i] = s[i] /\ b[i] = c[i]
        \/ i - k \in 1 .. m /\ q[i] = u[i - k] /\ b[i] = d[i - k]
        \/ i - m \in 1 .. n /\ q[i] = s[i - m] /\ b[i] = c[i - m]
    BY DEF Spliced
  <2> HIDE DEF q, c, d, b
  <2> QED
    BY <1>2, <2>1 DEF HeldAlong
<1> HIDE DEF q, c, d, a, b
<1>4. a = b
  BY <1>1, <1>3
<1> QED
  BY <1>4 DEF a, b, c, d, q

(* In the words of Contents. *)
IsArray(c, n) == n \in Nat /\ c = [i \in 1 .. n |-> c[i]]
Joined(c, n, k, d) == SubSeq(c, 1, k) \o d \o SubSeq(c, k + 1, n)

LEMMA SplicedSeq ==
  ASSUME NEW n, NEW c, IsArray(c, n), NEW m, NEW d, IsArray(d, m), NEW k \in 0 .. n
  PROVE  /\ Len(c) = n
         /\ Joined(c, n, k, d) = Spliced(c, n, k, d, m)
<1> DEFINE S == {c[i] : i \in 1 .. n} \cup {d[i] : i \in 1 .. m}
<1>1. n \in Nat /\ m \in Nat /\ c \in [1 .. n -> S] /\ d \in [1 .. m -> S]
  BY DEF IsArray
<1> HIDE DEF S
<1>2. c \in Seq(S) /\ d \in Seq(S)
  BY <1>1, SeqDef
<1>3. Len(c) = n /\ Len(d) = m
  BY <1>1, <1>2, LenProperties
<1> DEFINE p == SubSeq(c, 1, k)
           q == SubSeq(c, k + 1, n)
<1>4. p \in Seq(S) /\ Len(p) = k /\ \A i \in 1 .. k : p[i] = c[i]
  <2>1. \A i \in 1 .. k : c[i] \in S
    BY <1>1
  <2>2. /\ p \in Seq(S) /\ Len(p) = IF 1 <= k THEN k - 1 + 1 ELSE 0
        /\ \A i \in 1 .. k - 1 + 1 : p[i] = c[1 + i - 1]
    BY <1>1, <2>1, SubSeqProperties
  <2> HIDE DEF p
  <2> QED
    BY <1>1, <2>2
<1>5. q \in Seq(S) /\ Len(q) = n - k /\ \A i \in 1 .. n - k : q[i] = c[k + i]
  <2>1. \A i \in k + 1 .. n : c[i] \in S
    BY <1>1
  <2>2. /\ q \in Seq(S) /\ Len(q) = IF k + 1 <= n THEN n - (k + 1) + 1 ELSE 0
        /\ \A i \in 1 .. n - (k + 1) + 1 : q[i] = c[(k + 1) + i - 1]
    BY <1>1, <2>1, SubSeqProperties
  <2> HIDE DEF q
  <2>3. n - (k + 1) + 1 = n - k /\ \A i \in 1 .. n - k : (k + 1) + i - 1 = k + i
    BY <1>1
  <2> QED
    BY <1>1, <2>2, <2>3
<1> HIDE DEF p, q
<1>6. /\ p \o d \in Seq(S) /\ Len(p \o d) = k + m
      /\ \A i \in 1 .. k + m : (p \o d)[i] = IF i <= k THEN c[i] ELSE d[i - k]
  <2>1. /\ p \o d \in Seq(S) /\ Len(p \o d) = k + m
        /\ \A i \in 1 .. k + m : (p \o d)[i] = IF i <= k THEN p[i] ELSE d[i - k]
    BY <1>2, <1>3, <1>4, ConcatProperties
  <2> QED
    BY <1>1, <1>4, <2>1
<1> DEFINE r == p \o d
           z == r \o q
<1>7. /\ r \in Seq(S) /\ Len(r) = k + m
      /\ \A i \in 1 .. k + m : r[i] = IF i <= k THEN c[i] ELSE d[i - k]
  BY <1>6
<1> HIDE DEF r
<1>8. /\ z \in Seq(S) /\ Len(z) = (k + m) + (n - k)
      /\ \A i \in 1 .. (k + m) + (n - k) : z[i] = IF i <= k + m THEN r[i] ELSE q[i - (k + m)]
  <2>1. /\ r \o q \in Seq(S) /\ Len(r \o q) = Len(r) + Len(q)
        /\ \A i \in 1 .. Len(r) + Len(q) :
             (r \o q)[i] = IF i <= Len(r) THEN r[i] ELSE q[i - Len(r)]
    BY <1>5, <1>7, ConcatProperties
  <2>2. Len(r) = k + m /\ Len(q) = n - k
    BY <1>5, <1>7
  <2> QED
    BY <2>1, <2>2
<1> HIDE DEF z
<1>9. (k + m) + (n - k) = n + m
  BY <1>1
<1>10. z = [i \in 1 .. n + m |-> z[i]]
  BY <1>8, <1>9, LenProperties
<1>11. ASSUME NEW i \in 1 .. n + m PROVE z[i] = Spliced(c, n, k, d, m)[i]
  <2>1. CASE i <= k + m
    <3>1. z[i] = IF i <= k THEN c[i] ELSE d[i - k]
      BY <1>1, <1>7, <1>8, <1>9, <2>1
    <3> QED
      BY <1>1, <2>1, <3>1 DEF Spliced
  <2>2. CASE i > k + m
    <3>1. ~ (i <= k + m) /\ i - (k + m) \in 1 .. n - k /\ k + (i - (k + m)) = i - m /\ ~ (i <= k)
      BY <1>1, <2>2
    <3>2. z[i] = q[i - (k + m)]
      BY <1>8, <1>9, <3>1
    <3>3. z[i] = c[i - m]
      BY <1>5, <3>1, <3>2
    <3> QED
      BY <3>1, <3>3 DEF Spliced
  <2> QED
    BY <1>1, <2>1, <2>2
<1>12. z = Spliced(c, n, k, d, m)
  BY <1>10, <1>11 DEF Spliced
<1> QED
  BY <1>3, <1>12 DEF Joined, z, r, p, q

(* A call that changes the lists as ChangedLines says changes what they      *)
(* contain in the same way.                                                  *)
LEMMA Inserting ==
  ASSUME NEW sp, Lines(sp, length, next, head, tail),
         NEW l \in List, NEW from \in List, NEW k \in 0 .. length[l],
         NEW u, NEW m, Chain(u, m, next),
         \A j \in List : j # from \/ j = l => Apart(sp[j], length[j], u, m),
         Relinked(next', next, sp[l], length[l], k, u, m),
         Changed(l, from, length[l], m, k, u, length, length', head, head', tail, tail'),
         \A j \in List : \A i \in 1 .. length[j] : el'[sp[j][i]] = el[sp[j][i]]
  PROVE  /\ \E r : Lines(r, length', next', head', tail')
         /\ ToArray(l)' = Spliced(ToArray(l), length[l], k, ArrayOf(u, m, el'), m)
         /\ from # l => ToArray(from)' = << >>
         /\ \A j \in List \ {l, from} : ToArray(j)' = ToArray(j)
<1> DEFINE r == AfterSplice(sp, length, l, from, k, u, m)
           n == length[l]
<1>1. Lines(r, length', next', head', tail')
  BY ChangedLines
<1>2. /\ r[l] = Spliced(sp[l], n, k, u, m)
      /\ \A j \in List \ {l, from} : r[j] = sp[j]
  BY DEF AfterSplice
<1>3. /\ length'[l] = n + m /\ (from # l => length'[from] = 0)
      /\ \A j \in List \ {l, from} : length'[j] = length[j]
  BY DEF Changed
<1>4. \A j \in List : Strung(sp[j], length[j], next, head[j], tail[j])
  BY DEF Lines
<1>5. \A j \in List : ToArray(j) = ArrayOf(sp[j], length[j], el)
  BY <1>4, ArrayNow
<1>6. n \in Nat /\ m \in Nat
  BY <1>4 DEF Strung, Chain
<1> HIDE DEF r
<1>7. \A j \in List : Strung(r[j], length'[j], next', head'[j], tail'[j])
  BY <1>1 DEF Lines
<1>8. \A j \in List : ToArray(j)' = ArrayOf(r[j], length'[j], el')
  BY <1>7, ArrayThen
<1>9. ToArray(l)' = Spliced(ToArray(l), n, k, ArrayOf(u, m, el'), m)
  <2>1. \A i \in 1 .. n : el'[sp[l][i]] = el[sp[l][i]]
    OBVIOUS
  <2>2. k \in 0 .. n
    OBVIOUS
  <2>3. ToArray(l)' = ArrayOf(Spliced(sp[l], n, k, u, m), n + m, el')
    BY <1>2, <1>3, <1>8
  <2>4. ToArray(l) = ArrayOf(sp[l], n, el)
    BY <1>5
  <2> DEFINE s == sp[l]
             e == el
             e2 == el'
  <2>5. HeldAlong(e2, e, s, n)
    BY <2>1 DEF HeldAlong
  <2> HIDE DEF n, s, e, e2
  <2>6. PICK l2 : l2 = n + m
    OBVIOUS
  <2>7. ArrayOf(Spliced(s, n, k, u, m), l2, e2)
          = Spliced(ArrayOf(s, n, e), n, k, ArrayOf(u, m, e2), m)
    BY <1>6, <2>2, <2>5, <2>6, ArraySpliced
  <2> QED
    BY <2>3, <2>4, <2>6, <2>7 DEF s, e, e2
<1>10. ASSUME from # l PROVE ToArray(from)' = << >>
  <2>1. ToArray(from)' = ArrayOf(r[from], 0, el')
    BY <1>3, <1>8, <1>10
  <2> QED
    BY <2>1 DEF ArrayOf
<1>11. ASSUME NEW j \in List \ {l, from} PROVE ToArray(j)' = ToArray(j)
  <2>1. ToArray(j)' = ArrayOf(sp[j], length[j], el')
    BY <1>2, <1>3, <1>8
  <2>2. ToArray(j) = ArrayOf(sp[j], length[j], el)
    BY <1>5
  <2>3. \A i \in 1 .. length[j] : el'[sp[j][i]] = el[sp[j][i]]
    OBVIOUS
  <2> QED
    BY <2>1, <2>2, <2>3 DEF ArrayOf
<1> QED
  BY <1>1, <1>9, <1>10, <1>11

LEMMA ArraysHeld ==
  ASSUME NEW sp, Lines(sp, length, next, head, tail), NEW l \in List
  PROVE  IsArray(ToArray(l), length[l])
<1>1. Strung(sp[l], length[l], next, head[l], tail[l])
  BY DEF Lines
<1>2. ToArray(l) = ArrayOf(sp[l], length[l], el)
  BY <1>1, ArrayNow
<1>3. length[l] \in Nat
  BY <1>1 DEF Strung
<1> QED
  BY <1>2, <1>3 DEF ArrayOf, IsArray

(* What that is in Contents.                                                 *)
LEMMA HeldInsertList ==
  ASSUME NEW to \in List, NEW from \in List, to # from, NEW n, NEW m, NEW k \in 0 .. n,
         IsArray(ToArray(to), n), IsArray(ToArray(from), m),
         ToArray(to)' = Spliced(ToArray(to), n, k, ToArray(from), m),
         ToArray(from)' = << >>,
         \A j \in List \ {to, from} : ToArray(j)' = ToArray(j)
  PROVE  /\ Held!InsertAfterList(to, k, from)
         /\ k = n => Held!PushList(to, from)
         /\ k = 0 => Held!UnshiftList(to, from)
<1> DEFINE c == ToArray(to)
           d == ToArray(from)
<1>1. Len(c) = n /\ Joined(c, n, k, d) = Spliced(c, n, k, d, m)
  BY SplicedSeq
<1>2. Held!InsertAfterList(to, k, from)
  BY <1>1 DEF Joined, Held!InsertAfterList
<1>3. k = n => Held!PushList(to, from)
  BY <1>1, <1>2 DEF Held!PushList
<1>4. k = 0 => Held!UnshiftList(to, from)
  BY <1>2 DEF Held!UnshiftList
<1> QED
  BY <1>2, <1>3, <1>4

LEMMA HeldInsert ==
  ASSUME NEW l \in List, NEW v, NEW n, NEW k \in 0 .. n, IsArray(ToArray(l), n),
         ToArray(l)' = Spliced(ToArray(l), n, k, [i \in 1 .. 1 |-> v], 1),
         \A j \in List \ {l} : ToArray(j)' = ToArray(j)
  PROVE  /\ Held!InsertAfter(l, k, v)
         /\ k = n => Held!Push(l, v)
         /\ k = 0 => Held!Unshift(l, v)
<1> DEFINE c == ToArray(l)
           d == [i \in 1 .. 1 |-> v]
<1>1. IsArray(d, 1) /\ d = <<v>>
  BY DEF IsArray
<1>2. Len(c) = n /\ Joined(c, n, k, <<v>>) = Spliced(c, n, k, d, 1)
  <2> HIDE DEF c, d
  <2>1. IsArray(c, n)
    BY DEF c
  <2>2. Len(c) = n /\ Joined(c, n, k, d) = Spliced(c, n, k, d, 1)
    BY <1>1, <2>1, SplicedSeq
  <2> QED
    BY <1>1, <2>2
<1>3. Held!InsertAfter(l, k, v)
  BY <1>2 DEF Joined, Held!InsertAfter
<1>4. ASSUME k = n PROVE Spliced(c, n, k, d, 1) = Append(c, v)
  BY <1>4 DEF Spliced, IsArray
<1>5. ASSUME k = 0 PROVE Spliced(c, n, k, d, 1) = <<v>> \o c
  BY <1>5 DEF Spliced, IsArray
<1>6. k = n => Held!Push(l, v)
  BY <1>4 DEF Held!Push
<1>7. k = 0 => Held!Unshift(l, v)
  BY <1>5 DEF Held!Unshift
<1> QED
  BY <1>3, <1>6, <1>7

(***************************************************************************)
(* The functions                                                           *)
(***************************************************************************)

(* Programs that keep to what the functions can do.                          *)
Careful == ~ EmptySources /\ ~ InsertAtTail

One(x) == [i \in 1 .. 1 |-> x]

LEMMA OneIs ==
  ASSUME NEW x, x \in Node, NEW nx
  PROVE  Chain(One(x), 1, nx) /\ One(x)[1] = x
BY DEF Chain, One

Only(v) == [i \in 1 .. 1 |-> v]
Put(e2, e, n, v) == e2 = [e EXCEPT ![n] = v]

(* One node u[1] that holds v, put after the k-th one of l.                  *)
LEMMA OneInserted ==
  ASSUME LInv, Typed', NEW sp, Lines(sp, length, next, head, tail),
         NEW l \in List, NEW k \in 0 .. length[l], NEW v, NEW u, NEW m, m = 1,
         Chain(u, m, next), \A j \in List : Apart(sp[j], length[j], u, m),
         Relinked(next', next, sp[l], length[l], k, u, m),
         Changed(l, l, length[l], m, k, u, length, length', head, head', tail, tail'),
         \A j \in List : \A i \in 1 .. length[j] : el'[sp[j][i]] = el[sp[j][i]],
         ArrayOf(u, m, el') = Only(v)
  PROVE  /\ LInv' /\ Held!InsertAfter(l, k, v)
         /\ k = length[l] => Held!Push(l, v)
         /\ k = 0 => Held!Unshift(l, v)
<1> DEFINE n == length[l]
<1>1. PICK f : f = l
  OBVIOUS
<1>2. /\ f \in List /\ k \in 0 .. n
      /\ \A j \in List : j # f \/ j = l => Apart(sp[j], length[j], u, m)
      /\ Changed(l, f, n, m, k, u, length, length', head, head', tail, tail')
  BY <1>1
<1>3. /\ \E r : Lines(r, length', next', head', tail')
      /\ ToArray(l)' = Spliced(ToArray(l), n, k, ArrayOf(u, m, el'), m)
      /\ \A j \in List \ {l, f} : ToArray(j)' = ToArray(j)
  BY <1>2, Inserting
<1>4. IsArray(ToArray(l), n)
  BY ArraysHeld
<1>5. /\ ToArray(l)' = Spliced(ToArray(l), n, k, [i \in 1 .. 1 |-> v], 1)
      /\ \A j \in List \ {l} : ToArray(j)' = ToArray(j)
  BY <1>1, <1>3 DEF Only
<1>6. LInv'
  BY <1>3 DEF LInv
<1> QED
  BY <1>2, <1>4, <1>5, <1>6, HeldInsert

(* What a new node holds, and that no line held it.                          *)
LEMMA NewHolds ==
  ASSUME LInv, NEW sp, Lines(sp, length, next, head, tail), Unused # {}, NEW v,
         Put(el', el, New, v)
  PROVE  /\ Chain(One(New), 1, next)
         /\ \A j \in List : Apart(sp[j], length[j], One(New), 1)
         /\ \A j \in List : \A i \in 1 .. length[j] : el'[sp[j][i]] = el[sp[j][i]]
         /\ ArrayOf(One(New), 1, el') = Only(v)
<1>1. PICK x : x = New
  OBVIOUS
<1>2. x \in Node /\ \A j \in List : \A i \in 1 .. length[j] : sp[j][i] # x
  BY <1>1, NewIsNew
<1>3. Chain(One(x), 1, next) /\ \A j \in List : Apart(sp[j], length[j], One(x), 1)
  <2>1. \A i \in 1 .. 1 : i = 1
    OBVIOUS
  <2> QED
    BY <1>2, <2>1, OneIs DEF Apart
<1>4. el' = [el EXCEPT ![x] = v] /\ el \in [Node -> Value \cup {None}]
  BY <1>1 DEF Put, LInv, Typed
<1>5. \A j \in List : \A i \in 1 .. length[j] : el'[sp[j][i]] = el[sp[j][i]]
  <2> TAKE j \in List
  <2> TAKE i \in 1 .. length[j]
  <2>1. sp[j][i] \in Node
    BY DEF Lines, Strung
  <2> QED
    BY <1>2, <1>4, <2>1
<1>6. ArrayOf(One(x), 1, el') = Only(v)
  BY <1>2, <1>4 DEF Only, ArrayOf, One
<1> QED
  BY <1>1, <1>3, <1>5, <1>6

(* A new node that holds v, put after the k-th one of l.                     *)
LEMMA MadeKeeps ==
  ASSUME LInv, Typed', NEW sp, Lines(sp, length, next, head, tail), Unused # {},
         NEW l \in List, NEW k \in 0 .. length[l], NEW v,
         Relinked(next', next, sp[l], length[l], k, One(New), 1),
         Changed(l, l, length[l], 1, k, One(New), length, length', head, head', tail, tail'),
         Put(el', el, New, v)
  PROVE  /\ LInv' /\ Held!InsertAfter(l, k, v)
         /\ k = length[l] => Held!Push(l, v)
         /\ k = 0 => Held!Unshift(l, v)
<1>1. /\ Chain(One(New), 1, next)
      /\ \A j \in List : Apart(sp[j], length[j], One(New), 1)
      /\ \A j \in List : \A i \in 1 .. length[j] : el'[sp[j][i]] = el[sp[j][i]]
      /\ ArrayOf(One(New), 1, el') = Only(v)
  BY NewHolds
<1>2. PICK u : u = One(New)
  OBVIOUS
<1>3. PICK m : m = 1
  OBVIOUS
<1>4. /\ Chain(u, m, next) /\ \A j \in List : Apart(sp[j], length[j], u, m)
      /\ Relinked(next', next, sp[l], length[l], k, u, m)
      /\ Changed(l, l, length[l], m, k, u, length, length', head, head', tail, tail')
      /\ ArrayOf(u, m, el') = Only(v)
  BY <1>1, <1>2, <1>3
<1> QED
  BY <1>1, <1>3, <1>4, OneInserted

(* The nodes of from, after the k-th one of to.                              *)
LEMMA MovedKeeps ==
  ASSUME LInv, Typed', NEW sp, Lines(sp, length, next, head, tail),
         NEW to \in List, NEW from \in List, to # from, length[from] > 0,
         NEW k \in 0 .. length[to],
         Relinked(next', next, sp[to], length[to], k, sp[from], length[from]),
         Changed(to, from, length[to], length[from], k, sp[from],
                 length, length', head, head', tail, tail'),
         UNCHANGED el
  PROVE  /\ LInv' /\ Held!InsertAfterList(to, k, from)
         /\ k = length[to] => Held!PushList(to, from)
         /\ k = 0 => Held!UnshiftList(to, from)
<1> DEFINE u == sp[from]
           m == length[from]
           n == length[to]
<1>1. Strung(u, m, next, head[from], tail[from]) /\ m > 0
  BY DEF Lines
<1>2. Chain(u, m, next)
  BY <1>1 DEF Strung, Chain
<1>3. \A j \in List : j # from \/ j = to => Apart(sp[j], length[j], u, m)
  BY DEF Lines
<1>4. \A j \in List : \A i \in 1 .. length[j] : el'[sp[j][i]] = el[sp[j][i]]
  OBVIOUS
<1>5. /\ Relinked(next', next, sp[to], n, k, u, m)
      /\ Changed(to, from, n, m, k, u, length, length', head, head', tail, tail')
      /\ k \in 0 .. n
  OBVIOUS
<1>6. ArrayOf(u, m, el') = ToArray(from)
  BY <1>1, ArrayNow
<1>7. IsArray(ToArray(to), n) /\ IsArray(ToArray(from), m)
  BY ArraysHeld
<1> HIDE DEF u, m
<1>8. /\ \E r : Lines(r, length', next', head', tail')
      /\ ToArray(to)' = Spliced(ToArray(to), n, k, ArrayOf(u, m, el'), m)
      /\ ToArray(from)' = << >>
      /\ \A j \in List \ {to, from} : ToArray(j)' = ToArray(j)
  BY <1>2, <1>3, <1>4, <1>5, Inserting
<1> HIDE DEF n
<1>9. /\ Held!InsertAfterList(to, k, from)
      /\ k = n => Held!PushList(to, from)
      /\ k = 0 => Held!UnshiftList(to, from)
  BY <1>5, <1>6, <1>7, <1>8, HeldInsertList
<1>10. LInv'
  BY <1>8 DEF LInv
<1> QED
  BY <1>9, <1>10 DEF n

(* The two links a function writes, that of s[k] before that of u[m].        *)
Written(nx2, links, nx, s, n, k, u, m, z) ==
  /\ k = 0 => links = nx
  /\ k > 0 => Put(links, nx, s[k], u[1])
  /\ z = IF k < n THEN s[k + 1] ELSE NULL
  /\ Put(nx2, links, u[m], z)

LEMMA WrittenRelinks ==
  ASSUME NEW s, NEW n, NEW nx, NEW h, NEW t, Strung(s, n, nx, h, t),
         NEW k \in 0 .. n, NEW u, NEW m, Chain(u, m, nx), Apart(s, n, u, m),
         nx \in [Node -> Node \cup {NULL}],
         NEW links, NEW z, NEW nx2, Written(nx2, links, nx, s, n, k, u, m, z)
  PROVE  /\ Relinked(nx2, nx, s, n, k, u, m)
         /\ nx2 \in [Node -> Node \cup {NULL}]
<1>1. /\ n \in Nat /\ m \in Nat /\ m > 0 /\ m \in 1 .. m /\ 1 \in 1 .. m
      /\ u[m] \in Node /\ u[1] \in Node
      /\ k > 0 => k \in 1 .. n /\ s[k] \in Node
      /\ k < n => k + 1 \in 1 .. n /\ s[k + 1] \in Node
  BY DEF Strung, Chain
<1>2. k > 0 => s[k] # u[m]
  BY <1>1 DEF Apart
<1>3. z \in Node \cup {NULL}
  BY <1>1 DEF Written
<1>4. /\ links \in [Node -> Node \cup {NULL}]
      /\ \A x \in Node : (k > 0 => x # s[k]) => links[x] = nx[x]
      /\ k > 0 => links[s[k]] = u[1]
  <2>1. CASE k = 0
    BY <2>1 DEF Written
  <2>2. CASE k > 0
    BY <1>1, <2>2 DEF Written, Put
  <2> QED
    BY <1>1, <2>1, <2>2
<1>5. nx2 = [links EXCEPT ![u[m]] = z]
  BY DEF Written, Put
<1>6. /\ nx2 \in [Node -> Node \cup {NULL}]
      /\ \A x \in Node : x # u[m] => nx2[x] = links[x]
      /\ nx2[u[m]] = z
  BY <1>1, <1>3, <1>4, <1>5
<1>7. nx2[u[m]] = IF k < n THEN s[k + 1] ELSE NULL
  BY <1>6 DEF Written
<1>8. /\ \A x \in Node : x # u[m] /\ (k > 0 => x # s[k]) => nx2[x] = nx[x]
      /\ k > 0 => nx2[s[k]] = u[1]
  BY <1>1, <1>2, <1>4, <1>6
<1> QED
  BY <1>6, <1>7, <1>8 DEF Relinked

(* The first and the last node of a list.                                    *)
LEMMA Ends ==
  ASSUME NEW sp, Lines(sp, length, next, head, tail), NEW l \in List
  PROVE  /\ length[l] \in Nat
         /\ head[l] = NULL <=> length[l] = 0
         /\ tail[l] = NULL <=> length[l] = 0
         /\ length[l] > 0 =>
              /\ head[l] = sp[l][1] /\ tail[l] = sp[l][length[l]]
              /\ head[l] \in Node /\ tail[l] \in Node /\ next[tail[l]] = NULL
         /\ \A i \in 1 .. length[l] : sp[l][i] \in Node
         /\ \A i \in 1 .. length[l] - 1 : next[sp[l][i]] = sp[l][i + 1]
BY NodeIsNotNull DEF Lines, Strung

(* A node of a list that is not the last one has a place in it.              *)
LEMMA Places ==
  ASSUME NEW sp, Lines(sp, length, next, head, tail), NEW l \in List,
         NEW n \in Nodes(l)
  PROVE  /\ Position(l, n) \in 1 .. length[l]
         /\ sp[l][Position(l, n)] = n
         /\ n # tail[l] => Position(l, n) < length[l]
<1> DEFINE s == sp[l]
<1>1. Strung(s, length[l], next, head[l], tail[l])
  BY DEF Lines
<1>2. length[l] \in 0 .. MaxNodes /\ MaxNodes \in Nat
  BY <1>1, LineFits, ListsAssumption
<1>3. \A k \in 1 .. length[l] : Path(head[l])[k - 1] = s[k]
  <2> TAKE k \in 1 .. length[l]
  <2>1. k - 1 \in 0 .. MaxNodes /\ k - 1 < length[l] /\ (k - 1) + 1 = k
    BY <1>2
  <2>2. Walk(head[l], next)[k - 1] = s[k]
    BY <1>1, <2>1, WalkIs
  <2> QED
    BY <2>2, PathWalks
<1>4. \E k \in 1 .. length[l] : Path(head[l])[k - 1] = n
  BY <1>3, NodesAre
<1>5. Position(l, n) \in 1 .. length[l] /\ Path(head[l])[Position(l, n) - 1] = n
  BY <1>4 DEF Position
<1>6. s[Position(l, n)] = n
  BY <1>3, <1>5
<1>7. length[l] > 0 => tail[l] = s[length[l]]
  BY Ends
<1> QED
  BY <1>2, <1>5, <1>6, <1>7

(***************************************************************************)
(* The functions, one by one                                               *)
(***************************************************************************)

(* The links a function that makes a node writes.                            *)
LEMMA NewRelinks ==
  ASSUME LInv, NEW sp, Lines(sp, length, next, head, tail), Unused # {},
         NEW l \in List, NEW k \in 0 .. length[l],
         NEW links, NEW z, Written(next', links, next, sp[l], length[l], k, One(New), 1, z)
  PROVE  /\ New \in Node /\ next' \in [Node -> Node \cup {NULL}]
         /\ Relinked(next', next, sp[l], length[l], k, One(New), 1)
<1>1. PICK x : x = New
  OBVIOUS
<1>2. PICK m : m = 1
  OBVIOUS
<1>3. x \in Node /\ \A j \in List : \A i \in 1 .. length[j] : sp[j][i] # x
  BY <1>1, NewIsNew
<1> DEFINE u == One(x)
           s == sp[l]
           n == length[l]
<1>4. Chain(u, m, next)
  BY <1>2, <1>3, OneIs
<1>5. Apart(s, n, u, m)
  <2>1. \A i \in 1 .. m : i = 1
    BY <1>2
  <2> QED
    BY <1>3, <2>1, OneIs DEF Apart
<1>6. Strung(s, n, next, head[l], tail[l]) /\ next \in [Node -> Node \cup {NULL}]
  BY DEF Lines, LInv, Typed
<1>7. Written(next', links, next, s, n, k, u, m, z) /\ k \in 0 .. n
  BY <1>1, <1>2
<1> HIDE DEF u, s, n
<1>8. /\ Relinked(next', next, s, n, k, u, m)
      /\ next' \in [Node -> Node \cup {NULL}]
  BY <1>4, <1>5, <1>6, <1>7, WrittenRelinks
<1> QED
  BY <1>1, <1>2, <1>3, <1>8 DEF u, s, n

(* GGC_ListPush.                                                             *)
LEMMA PushKeeps ==
  ASSUME LInv, NEW l \in List, NEW v \in Value, Push(l, v)
  PROVE  LInv' /\ Held!Push(l, v)
<1>1. PICK sp : Lines(sp, length, next, head, tail)
  BY DEF LInv
<1> DEFINE n == length[l]
<1>2. /\ n \in Nat /\ (tail[l] = NULL <=> n = 0)
      /\ n > 0 => tail[l] = sp[l][n]
  BY <1>1, Ends
<1>3. One(New)[1] = New
  BY DEF One
<1>4. next' = [Linked(next, tail[l], New) EXCEPT ![New] = NULL] /\ Unused # {}
  BY DEF Push, Make
<1>5. \E links, z : Written(next', links, next, sp[l], n, n, One(New), 1, z)
  <2>1. PICK links : links = Linked(next, tail[l], New)
    OBVIOUS
  <2>2. PICK z : z = NULL
    OBVIOUS
  <2>3. Put(next', links, New, z)
    BY <1>4, <2>1, <2>2 DEF Put
  <2>4. n = 0 => links = next
    BY <1>2, <2>1 DEF Linked
  <2>5. n > 0 => Put(links, next, sp[l][n], New)
    <3> SUFFICES ASSUME n > 0 PROVE Put(links, next, sp[l][n], New)
      OBVIOUS
    <3>1. tail[l] # NULL /\ tail[l] = sp[l][n]
      BY <1>2
    <3>2. links = [next EXCEPT ![tail[l]] = New]
      BY <2>1, <3>1 DEF Linked
    <3>3. Put(links, next, tail[l], New)
      BY <3>2 DEF Put
    <3> QED
      BY <3>1, <3>3
  <2>6. z = IF n < n THEN sp[l][n + 1] ELSE NULL
    BY <1>2, <2>2
  <2>7. Written(next', links, next, sp[l], n, n, One(New), 1, z)
    BY <1>3, <2>3, <2>4, <2>5, <2>6 DEF Written
  <2> QED
    BY <2>7
<1>6. n \in 0 .. length[l]
  BY <1>2
<1>7. /\ New \in Node /\ next' \in [Node -> Node \cup {NULL}]
      /\ Relinked(next', next, sp[l], n, n, One(New), 1)
  BY <1>1, <1>4, <1>5, <1>6, NewRelinks
<1>8. /\ length' = [length EXCEPT ![l] = @ + 1] /\ length \in [List -> Nat]
      /\ head' = [head EXCEPT ![l] = IF tail[l] = NULL THEN New ELSE @]
      /\ tail' = [tail EXCEPT ![l] = New]
      /\ head \in [List -> Node \cup {NULL}] /\ tail \in [List -> Node \cup {NULL}]
      /\ el' = [el EXCEPT ![New] = v] /\ el \in [Node -> Value \cup {None}]
      /\ failed' = FALSE
  BY DEF Push, Make, LInv, Typed
<1>9. Typed'
  BY <1>7, <1>8 DEF Typed
<1>10. Changed(l, l, n, 1, n, One(New), length, length', head, head', tail, tail')
  BY <1>2, <1>3, <1>8 DEF Changed
<1>11. Put(el', el, New, v)
  BY <1>8 DEF Put
<1> QED
  BY <1>1, <1>4, <1>6, <1>7, <1>9, <1>10, <1>11, MadeKeeps

(* GGC_ListUnshift.                                                          *)
LEMMA UnshiftKeeps ==
  ASSUME LInv, NEW l \in List, NEW v \in Value, Unshift(l, v)
  PROVE  LInv' /\ Held!Unshift(l, v)
<1>1. PICK sp : Lines(sp, length, next, head, tail)
  BY DEF LInv
<1> DEFINE n == length[l]
<1>2. /\ n \in Nat /\ (head[l] = NULL <=> n = 0)
      /\ n > 0 => head[l] = sp[l][1]
  BY <1>1, Ends
<1>3. One(New)[1] = New
  BY DEF One
<1>4. next' = [next EXCEPT ![New] = head[l]] /\ Unused # {}
  BY DEF Unshift, Make
<1>5. \E links, z : Written(next', links, next, sp[l], n, 0, One(New), 1, z)
  <2>1. Put(next', next, New, head[l])
    BY <1>4 DEF Put
  <2>2. PICK k : k = 0
    OBVIOUS
  <2>3. /\ head[l] = IF k < n THEN sp[l][k + 1] ELSE NULL
        /\ ~ (k > 0)
    BY <1>2, <2>2
  <2>4. Written(next', next, next, sp[l], n, k, One(New), 1, head[l])
    BY <1>3, <2>1, <2>3 DEF Written
  <2> QED
    BY <2>2, <2>4
<1>6. 0 \in 0 .. length[l]
  BY <1>2
<1>7. /\ New \in Node /\ next' \in [Node -> Node \cup {NULL}]
      /\ Relinked(next', next, sp[l], n, 0, One(New), 1)
  BY <1>1, <1>4, <1>5, <1>6, NewRelinks
<1>8. /\ length' = [length EXCEPT ![l] = @ + 1] /\ length \in [List -> Nat]
      /\ head' = [head EXCEPT ![l] = New]
      /\ tail' = [tail EXCEPT ![l] = IF head[l] = NULL THEN New ELSE @]
      /\ head \in [List -> Node \cup {NULL}] /\ tail \in [List -> Node \cup {NULL}]
      /\ el' = [el EXCEPT ![New] = v] /\ el \in [Node -> Value \cup {None}]
      /\ failed' = FALSE
  BY DEF Unshift, Make, LInv, Typed
<1>9. Typed'
  BY <1>7, <1>8 DEF Typed
<1>10. Changed(l, l, n, 1, 0, One(New), length, length', head, head', tail, tail')
  BY <1>2, <1>3, <1>8 DEF Changed
<1>11. Put(el', el, New, v)
  BY <1>8 DEF Put
<1> QED
  BY <1>1, <1>4, <1>6, <1>7, <1>9, <1>10, <1>11, MadeKeeps

(* GGC_ListInsertAfter, but after the last node: it does not move the tail.  *)
LEMMA InsertAfterKeeps ==
  ASSUME LInv, Careful, NEW l \in List, NEW after \in Node, NEW v \in Value,
         InsertAfter(l, after, v)
  PROVE  /\ LInv' /\ Held!InsertAfter(l, Position(l, after), v)
         /\ Position(l, after) \in 1 .. length[l]
<1>1. PICK sp : Lines(sp, length, next, head, tail)
  BY DEF LInv
<1> DEFINE n == length[l]
           k == Position(l, after)
<1>2. after \in Nodes(l) /\ after # tail[l]
  BY DEF InsertAfter, Careful
<1>3. k \in 1 .. n /\ k < n /\ sp[l][k] = after
  BY <1>1, <1>2, Places
<1> HIDE DEF k
<1>4. /\ n \in Nat /\ \A i \in 1 .. n - 1 : next[sp[l][i]] = sp[l][i + 1]
      /\ \A i \in 1 .. n : sp[l][i] \in Node
  BY <1>1, Ends
<1>5. next[after] = sp[l][k + 1]
  BY <1>3, <1>4
<1>6. One(New)[1] = New
  BY DEF One
<1>7. /\ next' = [[next EXCEPT ![after] = New] EXCEPT ![New] = next[after]]
      /\ Unused # {}
  BY DEF InsertAfter, Make
<1>8. \E links, z : Written(next', links, next, sp[l], n, k, One(New), 1, z)
  <2>1. PICK links : links = [next EXCEPT ![after] = New]
    OBVIOUS
  <2>2. PICK z : z = next[after]
    OBVIOUS
  <2>3. Put(next', links, New, z)
    BY <1>7, <2>1, <2>2 DEF Put
  <2>4. Put(links, next, sp[l][k], New)
    BY <1>3, <2>1 DEF Put
  <2>5. z = IF k < n THEN sp[l][k + 1] ELSE NULL
    BY <1>3, <1>5, <2>2
  <2>6. ~ (k = 0)
    BY <1>3, <1>4
  <2>7. Written(next', links, next, sp[l], n, k, One(New), 1, z)
    BY <1>6, <2>3, <2>4, <2>5, <2>6 DEF Written
  <2> QED
    BY <2>7
<1>9. k \in 0 .. length[l] /\ k # 0 /\ k # n
  BY <1>3, <1>4
<1>10. /\ New \in Node /\ next' \in [Node -> Node \cup {NULL}]
       /\ Relinked(next', next, sp[l], n, k, One(New), 1)
  BY <1>1, <1>7, <1>8, <1>9, NewRelinks
<1>11. /\ length' = [length EXCEPT ![l] = @ + 1] /\ length \in [List -> Nat]
       /\ UNCHANGED <<head, tail>>
       /\ head \in [List -> Node \cup {NULL}] /\ tail \in [List -> Node \cup {NULL}]
       /\ el' = [el EXCEPT ![New] = v] /\ el \in [Node -> Value \cup {None}]
       /\ failed' = FALSE
  BY DEF InsertAfter, Make, LInv, Typed
<1>12. Typed'
  BY <1>10, <1>11 DEF Typed
<1>13. Changed(l, l, n, 1, k, One(New), length, length', head, head', tail, tail')
  BY <1>9, <1>11 DEF Changed
<1>14. Put(el', el, New, v)
  BY <1>11 DEF Put
<1>15. LInv' /\ Held!InsertAfter(l, k, v)
  BY <1>1, <1>7, <1>9, <1>10, <1>12, <1>13, <1>14, MadeKeeps
<1> QED
  BY <1>3, <1>15 DEF k

LEMMA PutSame ==
  ASSUME NEW nx \in [Node -> Node \cup {NULL}], NEW x \in Node, nx[x] = NULL
  PROVE  Put(nx, nx, x, NULL)
BY DEF Put

(* The links a function that moves nodes writes.                             *)
LEMMA MovedRelinks ==
  ASSUME LInv, NEW sp, Lines(sp, length, next, head, tail),
         NEW to \in List, NEW from \in List, to # from, length[from] > 0,
         NEW k \in 0 .. length[to],
         NEW links, NEW z,
         Written(next', links, next, sp[to], length[to], k, sp[from], length[from], z)
  PROVE  /\ next' \in [Node -> Node \cup {NULL}]
         /\ Relinked(next', next, sp[to], length[to], k, sp[from], length[from])
<1> DEFINE u == sp[from]
           m == length[from]
           n == length[to]
           s == sp[to]
<1>1. Strung(u, m, next, head[from], tail[from]) /\ m > 0
  BY DEF Lines
<1>2. Chain(u, m, next)
  BY <1>1 DEF Strung, Chain
<1>3. Apart(s, n, u, m) /\ Strung(s, n, next, head[to], tail[to])
  BY DEF Lines
<1>4. next \in [Node -> Node \cup {NULL}] /\ k \in 0 .. n
  BY DEF LInv, Typed
<1>5. Written(next', links, next, s, n, k, u, m, z)
  OBVIOUS
<1> HIDE DEF u, m, n, s
<1>6. /\ next' \in [Node -> Node \cup {NULL}]
      /\ Relinked(next', next, s, n, k, u, m)
  BY <1>2, <1>3, <1>4, <1>5, WrittenRelinks
<1> QED
  BY <1>6 DEF u, m, n, s

(* What the functions that move nodes do to the members of the two lists.    *)
LEMMA MovedTypes ==
  ASSUME LInv, NEW to \in List, NEW from \in List, NEW a, NEW b, NEW c, NEW d, NEW e,
         a \in Node \cup {NULL}, b \in Node \cup {NULL}, d \in Node \cup {NULL},
         e \in Node \cup {NULL}, c \in Nat,
         head' = [head EXCEPT ![to] = a, ![from] = d],
         tail' = [tail EXCEPT ![to] = b, ![from] = e],
         length' = [length EXCEPT ![to] = c, ![from] = 0],
         next' \in [Node -> Node \cup {NULL}], UNCHANGED el, failed' = FALSE
  PROVE  Typed'
BY DEF LInv, Typed

(* Moving nodes into a list that has none.                                   *)
LEMMA GraftKeeps ==
  ASSUME LInv, NEW to \in List, NEW from \in List, to # from,
         head[to] = NULL, Graft(to, from)
  PROVE  LInv' /\ Held!PushList(to, from) /\ Held!UnshiftList(to, from)
<1>1. PICK sp : Lines(sp, length, next, head, tail)
  BY DEF LInv
<1> DEFINE n == length[to]
           m == length[from]
           s == sp[to]
           u == sp[from]
<1>2. /\ n = 0 /\ m \in Nat /\ (head[from] = NULL <=> m = 0)
      /\ tail[to] = NULL /\ (tail[from] = NULL <=> m = 0)
      /\ m > 0 => /\ head[from] = u[1] /\ tail[from] = u[m]
                  /\ u[m] \in Node /\ next[u[m]] = NULL /\ head[from] \in Node
  BY <1>1, Ends
<1>3. /\ length \in [List -> Nat] /\ next \in [Node -> Node \cup {NULL}]
      /\ head \in [List -> Node \cup {NULL}] /\ tail \in [List -> Node \cup {NULL}]
      /\ el \in [Node -> Value \cup {None}] /\ failed = FALSE
  BY DEF LInv, Typed
<1>4. UNCHANGED <<next, el, failed>>
  BY DEF Graft
<1>5. CASE m = 0
  <2>1. head[from] = NULL /\ tail[from] = NULL
    BY <1>2, <1>5
  <2>2. UNCHANGED <<head, tail, length>>
    BY <1>2, <1>3, <1>5, <2>1 DEF Graft
  <2>3. UNCHANGED listVars
    BY <1>4, <2>2 DEF listVars
  <2>4. LInv'
    BY <2>3 DEF LInv, Typed, listVars
  <2>5. \A j \in List : ToArray(j)' = ToArray(j)
    BY <2>3 DEF ToArray, Path, listVars
  <2>6. /\ IsArray(ToArray(to), n) /\ IsArray(ToArray(from), m)
    BY <1>1, ArraysHeld
  <2>7. ToArray(to) = << >> /\ ToArray(from) = << >>
    BY <1>2, <1>5, <2>6 DEF IsArray
  <2>8. ToArray(to)' = Spliced(ToArray(to), n, 0, ToArray(from), m)
    BY <1>2, <1>5, <2>5, <2>7 DEF Spliced
  <2> HIDE DEF n, m
  <2>9. 0 \in 0 .. n
    BY <1>2
  <2>10. Held!PushList(to, from) /\ Held!UnshiftList(to, from)
    BY <1>2, <2>5, <2>6, <2>7, <2>8, <2>9, HeldInsertList
  <2> QED
    BY <2>4, <2>10
<1>6. CASE m > 0
  <2>1. /\ head' = [head EXCEPT ![to] = u[1], ![from] = NULL]
        /\ tail' = [tail EXCEPT ![to] = u[m], ![from] = NULL]
        /\ length' = [length EXCEPT ![to] = m, ![from] = 0]
    BY <1>2, <1>6 DEF Graft
  <2>2. Changed(to, from, n, m, 0, u, length, length', head, head', tail, tail')
    BY <1>2, <1>3, <2>1 DEF Changed
  <2>3. Typed'
    BY <1>2, <1>3, <1>4, <1>6, <2>1, MovedTypes
  <2>4. Put(next', next, u[m], NULL)
    BY <1>2, <1>3, <1>4, <1>6, PutSame
  <2>5. PICK k : k = 0
    OBVIOUS
  <2>6. PICK z : z = NULL
    OBVIOUS
  <2>7. ~ (k > 0) /\ z = IF k < n THEN s[k + 1] ELSE NULL
    BY <1>2, <2>5, <2>6
  <2>8. Written(next', next, next, s, n, k, u, m, z)
    BY <2>4, <2>6, <2>7 DEF Written
  <2>9. k \in 0 .. length[to] /\ length[from] > 0 /\ k = n
    BY <1>2, <1>6, <2>5
  <2>10. Relinked(next', next, s, n, k, u, m)
    BY <1>1, <2>8, <2>9, MovedRelinks
  <2>11. Changed(to, from, n, m, k, u, length, length', head, head', tail, tail')
    BY <2>2, <2>5
  <2>12. /\ LInv' /\ Held!InsertAfterList(to, k, from)
         /\ k = length[to] => Held!PushList(to, from)
         /\ k = 0 => Held!UnshiftList(to, from)
    BY <1>1, <1>4, <2>3, <2>9, <2>10, <2>11, MovedKeeps
  <2> QED
    BY <2>5, <2>9, <2>12
<1> QED
  BY <1>2, <1>5, <1>6

(* The ends of two lists that have nodes.                                    *)
LEMMA BothEnds ==
  ASSUME LInv, NEW sp, Lines(sp, length, next, head, tail),
         NEW to \in List, NEW from \in List, head[to] # NULL, head[from] # NULL
  PROVE  /\ length[to] \in Nat /\ length[to] > 0
         /\ head[to] = sp[to][1] /\ tail[to] = sp[to][length[to]]
         /\ head[to] \in Node /\ tail[to] \in Node /\ tail[to] # NULL
         /\ length[from] \in Nat /\ length[from] > 0
         /\ head[from] = sp[from][1] /\ tail[from] = sp[from][length[from]]
         /\ head[from] \in Node /\ tail[from] \in Node /\ tail[from] # NULL
         /\ next[tail[from]] = NULL
         /\ length \in [List -> Nat] /\ next \in [Node -> Node \cup {NULL}]
         /\ head \in [List -> Node \cup {NULL}] /\ tail \in [List -> Node \cup {NULL}]
BY Ends DEF LInv, Typed

(* GGC_ListPushList, of lists that have nodes.                               *)
LEMMA PushListKeeps ==
  ASSUME LInv, NEW to \in List, NEW from \in List, to # from,
         head[to] # NULL, head[from] # NULL, PushList(to, from)
  PROVE  LInv' /\ Held!PushList(to, from)
<1>1. PICK sp : Lines(sp, length, next, head, tail)
  BY DEF LInv
<1> DEFINE n == length[to]
           m == length[from]
           s == sp[to]
           u == sp[from]
<1>2. /\ n \in Nat /\ n > 0 /\ head[to] = s[1] /\ tail[to] = s[n]
      /\ head[to] \in Node /\ tail[to] \in Node
      /\ m \in Nat /\ m > 0 /\ head[from] = u[1] /\ tail[from] = u[m]
      /\ head[from] \in Node /\ tail[from] \in Node /\ next[tail[from]] = NULL
      /\ tail[to] # NULL
      /\ length \in [List -> Nat] /\ next \in [Node -> Node \cup {NULL}]
      /\ head \in [List -> Node \cup {NULL}] /\ tail \in [List -> Node \cup {NULL}]
  BY <1>1, BothEnds
<1>3. /\ next' = Linked(next, tail[to], head[from])
      /\ tail' = [tail EXCEPT ![to] = tail[from], ![from] = NULL]
      /\ length' = [length EXCEPT ![to] = @ + length[from], ![from] = 0]
      /\ head' = [head EXCEPT ![from] = NULL]
      /\ failed' = (tail[to] = NULL)
      /\ UNCHANGED el
  BY DEF PushList
<1>4. next' = [next EXCEPT ![s[n]] = u[1]]
  BY <1>2, <1>3 DEF Linked
<1>5. s[n] # u[m]
  BY <1>1, <1>2 DEF Lines, Apart
<1>6. Put(next', next', u[m], NULL)
  BY <1>2, <1>4, <1>5, PutSame
<1>7. PICK z : z = NULL
  OBVIOUS
<1>8. ~ (n = 0) /\ z = IF n < n THEN s[n + 1] ELSE NULL
  BY <1>2, <1>7
<1>9. Put(next', next, s[n], u[1])
  BY <1>4 DEF Put
<1>10. Written(next', next', next, s, n, n, u, m, z)
  BY <1>6, <1>7, <1>8, <1>9 DEF Written
<1>11. n \in 0 .. length[to] /\ length[from] > 0 /\ n # 0
  BY <1>2
<1>12. /\ next' \in [Node -> Node \cup {NULL}]
       /\ Relinked(next', next, s, n, n, u, m)
  BY <1>1, <1>10, <1>11, MovedRelinks
<1>13. Changed(to, from, n, m, n, u, length, length', head, head', tail, tail')
  BY <1>2, <1>3 DEF Changed
<1>14. Typed'
  <2>1. n + m \in Nat /\ el \in [Node -> Value \cup {None}]
    BY <1>2 DEF LInv, Typed
  <2>2. length' \in [List -> Nat] /\ el' \in [Node -> Value \cup {None}]
    BY <1>2, <1>3, <2>1
  <2>3. head' \in [List -> Node \cup {NULL}]
    BY <1>2, <1>3
  <2>4. tail' \in [List -> Node \cup {NULL}]
    BY <1>2, <1>3
  <2>5. failed' = FALSE
    BY <1>2, <1>3
  <2> QED
    BY <1>12, <2>2, <2>3, <2>4, <2>5 DEF Typed
<1> QED
  BY <1>1, <1>3, <1>11, <1>12, <1>13, <1>14, MovedKeeps

(* GGC_ListUnshiftList, of lists that have nodes.                            *)
LEMMA UnshiftListKeeps ==
  ASSUME LInv, NEW to \in List, NEW from \in List, to # from,
         head[to] # NULL, head[from] # NULL, UnshiftList(to, from)
  PROVE  LInv' /\ Held!UnshiftList(to, from)
<1>1. PICK sp : Lines(sp, length, next, head, tail)
  BY DEF LInv
<1> DEFINE n == length[to]
           m == length[from]
           s == sp[to]
           u == sp[from]
<1>2. /\ n \in Nat /\ n > 0 /\ head[to] = s[1] /\ tail[to] = s[n]
      /\ head[to] \in Node /\ tail[to] \in Node
      /\ m \in Nat /\ m > 0 /\ head[from] = u[1] /\ tail[from] = u[m]
      /\ head[from] \in Node /\ tail[from] \in Node /\ next[tail[from]] = NULL
      /\ tail[from] # NULL
      /\ length \in [List -> Nat] /\ next \in [Node -> Node \cup {NULL}]
      /\ head \in [List -> Node \cup {NULL}] /\ tail \in [List -> Node \cup {NULL}]
  BY <1>1, BothEnds
<1>3. /\ next' = Linked(next, tail[from], head[to])
      /\ head' = [head EXCEPT ![to] = head[from], ![from] = NULL]
      /\ length' = [length EXCEPT ![to] = @ + length[from], ![from] = 0]
      /\ tail' = [tail EXCEPT ![from] = NULL]
      /\ failed' = (tail[from] = NULL)
      /\ UNCHANGED el
  BY DEF UnshiftList
<1>4. Put(next', next, u[m], head[to])
  BY <1>2, <1>3 DEF Linked, Put
<1>5. PICK k : k = 0
  OBVIOUS
<1>6. /\ ~ (k > 0) /\ k # n /\ k \in 0 .. length[to] /\ length[from] > 0
      /\ head[to] = IF k < n THEN s[k + 1] ELSE NULL
  BY <1>2, <1>5
<1>7. Written(next', next, next, s, n, k, u, m, head[to])
  BY <1>4, <1>6 DEF Written
<1>8. /\ next' \in [Node -> Node \cup {NULL}]
      /\ Relinked(next', next, s, n, k, u, m)
  BY <1>1, <1>6, <1>7, MovedRelinks
<1>9. Changed(to, from, n, m, k, u, length, length', head, head', tail, tail')
  BY <1>2, <1>3, <1>5, <1>6 DEF Changed
<1>10. Typed'
  <2>1. n + m \in Nat /\ el \in [Node -> Value \cup {None}]
    BY <1>2 DEF LInv, Typed
  <2>2. length' \in [List -> Nat] /\ el' \in [Node -> Value \cup {None}]
    BY <1>2, <1>3, <2>1
  <2>3. head' \in [List -> Node \cup {NULL}]
    BY <1>2, <1>3
  <2>4. tail' \in [List -> Node \cup {NULL}]
    BY <1>2, <1>3
  <2>5. failed' = FALSE
    BY <1>2, <1>3
  <2> QED
    BY <1>8, <2>2, <2>3, <2>4, <2>5 DEF Typed
<1>11. k = 0 => Held!UnshiftList(to, from)
  BY <1>1, <1>3, <1>6, <1>8, <1>9, <1>10, MovedKeeps
<1>12. LInv'
  BY <1>1, <1>3, <1>6, <1>8, <1>9, <1>10, MovedKeeps
<1> QED
  BY <1>5, <1>11, <1>12

(* GGC_ListInsertAfterList, but after the last node.                         *)
LEMMA InsertAfterListKeeps ==
  ASSUME LInv, Careful, NEW to \in List, NEW from \in List, NEW after \in Node,
         InsertAfterList(to, after, from)
  PROVE  /\ LInv' /\ Held!InsertAfterList(to, Position(to, after), from)
         /\ Position(to, after) \in 1 .. length[to]
<1>1. PICK sp : Lines(sp, length, next, head, tail)
  BY DEF LInv
<1> DEFINE n == length[to]
           m == length[from]
           s == sp[to]
           u == sp[from]
           k == Position(to, after)
<1>2. after \in Nodes(to) /\ after # tail[to] /\ to # from
  BY DEF InsertAfterList, Movable, Careful
<1>3. k \in 1 .. n /\ k < n /\ s[k] = after
  BY <1>1, <1>2, Places
<1> HIDE DEF k
<1>4. head[to] # NULL
  BY <1>1, <1>3, Ends
<1>5. head[from] # NULL
  BY <1>4 DEF InsertAfterList, Movable, Careful
<1>6. /\ n \in Nat /\ n > 0 /\ head[to] = s[1] /\ tail[to] = s[n]
      /\ head[to] \in Node /\ tail[to] \in Node
      /\ m \in Nat /\ m > 0 /\ head[from] = u[1] /\ tail[from] = u[m]
      /\ head[from] \in Node /\ tail[from] \in Node /\ next[tail[from]] = NULL
      /\ tail[from] # NULL
      /\ length \in [List -> Nat] /\ next \in [Node -> Node \cup {NULL}]
      /\ head \in [List -> Node \cup {NULL}] /\ tail \in [List -> Node \cup {NULL}]
  BY <1>1, <1>4, <1>5, BothEnds
<1>7. next[after] = s[k + 1]
  BY <1>1, <1>3, <1>6, Ends
<1>8. /\ next' = Linked([next EXCEPT ![after] = head[from]], tail[from], next[after])
      /\ head' = [head EXCEPT ![from] = NULL]
      /\ tail' = [tail EXCEPT ![from] = NULL]
      /\ length' = [length EXCEPT ![to] = @ + length[from], ![from] = 0]
      /\ failed' = (tail[from] = NULL)
      /\ UNCHANGED el
  BY DEF InsertAfterList
<1>9. \E links, z : Written(next', links, next, s, n, k, u, m, z)
  <2>1. PICK links : links = [next EXCEPT ![after] = head[from]]
    OBVIOUS
  <2>2. PICK z : z = next[after]
    OBVIOUS
  <2>3. next' = Linked(links, tail[from], z)
    BY <1>8, <2>1, <2>2
  <2>4. Put(next', links, u[m], z)
    BY <1>6, <2>3 DEF Linked, Put
  <2>5. Put(links, next, after, head[from])
    BY <2>1 DEF Put
  <2>6. Put(links, next, s[k], u[1])
    BY <1>3, <1>6, <2>5
  <2>7. z = IF k < n THEN s[k + 1] ELSE NULL
    BY <1>3, <1>7, <2>2
  <2>8. ~ (k = 0)
    BY <1>3, <1>6
  <2>9. Written(next', links, next, s, n, k, u, m, z)
    BY <2>4, <2>6, <2>7, <2>8 DEF Written
  <2> QED
    BY <2>9
<1>10. k \in 0 .. length[to] /\ length[from] > 0 /\ k # 0 /\ k # n
  BY <1>3, <1>6
<1>11. /\ next' \in [Node -> Node \cup {NULL}]
       /\ Relinked(next', next, s, n, k, u, m)
  BY <1>1, <1>2, <1>9, <1>10, MovedRelinks
<1>12. Changed(to, from, n, m, k, u, length, length', head, head', tail, tail')
  BY <1>2, <1>6, <1>8, <1>10 DEF Changed
<1>13. Typed'
  <2>1. n + m \in Nat /\ el \in [Node -> Value \cup {None}]
    BY <1>6 DEF LInv, Typed
  <2>2. length' \in [List -> Nat] /\ el' \in [Node -> Value \cup {None}]
    BY <1>6, <1>8, <2>1
  <2>3. head' \in [List -> Node \cup {NULL}]
    BY <1>6, <1>8
  <2>4. tail' \in [List -> Node \cup {NULL}]
    BY <1>6, <1>8
  <2>5. failed' = FALSE
    BY <1>6, <1>8
  <2> QED
    BY <1>11, <2>2, <2>3, <2>4, <2>5 DEF Typed
<1>14. LInv' /\ Held!InsertAfterList(to, k, from)
  BY <1>1, <1>2, <1>8, <1>10, <1>11, <1>12, <1>13, MovedKeeps
<1> QED
  BY <1>3, <1>14 DEF k

(* The line s, of n, without its first node.                                 *)
Shifted(s, n) == [i \in 1 .. n - 1 |-> s[i + 1]]

LEMMA ShiftedStrung ==
  ASSUME NEW s, NEW n, NEW nx, NEW h, NEW t, Strung(s, n, nx, h, t), n > 0,
         NEW n2, n2 = n - 1
  PROVE  /\ Strung(Shifted(s, n), n2, nx, nx[h], IF nx[h] = NULL THEN NULL ELSE t)
         /\ nx[h] \in Node \cup {NULL}
<1> DEFINE q == Shifted(s, n)
<1>1. /\ n \in Nat /\ s \in [1 .. n -> Node]
      /\ \A i, j \in 1 .. n : s[i] = s[j] => i = j
      /\ \A i \in 1 .. n - 1 : nx[s[i]] = s[i + 1]
      /\ h = s[1] /\ t = s[n] /\ nx[s[n]] = NULL
  BY DEF Strung
<1>2. n2 \in Nat /\ \A i \in 1 .. n2 : i \in 1 .. n - 1 /\ i + 1 \in 1 .. n
  BY <1>1
<1>3. q \in [1 .. n2 -> Node] /\ \A i \in 1 .. n2 : q[i] = s[i + 1]
  BY <1>1, <1>2 DEF Shifted
<1> HIDE DEF q
<1>4. \A i, j \in 1 .. n2 : q[i] = q[j] => i = j
  BY <1>1, <1>2, <1>3
<1>5. \A i \in 1 .. n2 - 1 : nx[q[i]] = q[i + 1]
  <2> TAKE i \in 1 .. n2 - 1
  <2>1. i \in 1 .. n2 /\ i + 1 \in 1 .. n2 /\ i + 1 \in 1 .. n - 1
    BY <1>1, <1>2
  <2> QED
    BY <1>1, <1>3, <2>1
<1>6. CASE n2 = 0
  <2>1. n = 1
    BY <1>1, <1>6
  <2>2. nx[h] = NULL
    BY <1>1, <2>1
  <2> QED
    BY <1>2, <1>3, <1>4, <1>5, <1>6, <2>2 DEF Strung, q
<1>7. CASE n2 > 0
  <2>1. 1 \in 1 .. n2 /\ n2 \in 1 .. n2 /\ 1 \in 1 .. n - 1 /\ n2 + 1 = n
    BY <1>1, <1>2, <1>7
  <2>2. nx[h] = s[2] /\ q[1] = s[2] /\ q[n2] = s[n]
    BY <1>1, <1>3, <2>1
  <2>3. nx[h] \in Node /\ nx[h] # NULL
    BY <1>3, <2>1, <2>2, NodeIsNotNull
  <2>4. n2 # 0
    BY <1>7
  <2> QED
    <3>1. PICK h2, t2 : h2 = nx[h] /\ t2 = IF nx[h] = NULL THEN NULL ELSE t
      OBVIOUS
    <3>2. h2 = q[1] /\ t2 = q[n2]
      BY <1>1, <2>2, <2>3, <3>1
    <3>3. nx[q[n2]] = NULL
      BY <1>1, <2>2
    <3>4. Strung(q, n2, nx, h2, t2)
      BY <1>2, <1>3, <1>4, <1>5, <2>4, <3>2, <3>3 DEF Strung
    <3> QED
      BY <2>3, <3>1, <3>4 DEF q
<1>8. n2 = 0 \/ n2 > 0
  <2>1. n > 0 /\ n \in Nat /\ n2 = n - 1
    BY <1>1
  <2> QED
    BY <2>1
<1> QED
  BY <1>6, <1>7, <1>8

LEMMA ArrayShifted ==
  ASSUME NEW s, NEW n \in Nat, n > 0, NEW n2, n2 = n - 1, NEW e
  PROVE  /\ Len(ArrayOf(s, n, e)) = n
         /\ ArrayOf(Shifted(s, n), n2, e) = SubSeq(ArrayOf(s, n, e), 2, n)
<1> DEFINE c == ArrayOf(s, n, e)
           S == {c[i] : i \in 1 .. n}
<1>1. c \in [1 .. n -> S] /\ \A i \in 1 .. n : c[i] = e[s[i]]
  BY DEF ArrayOf
<1> HIDE DEF c, S
<1>2. c \in Seq(S) /\ Len(c) = n
  BY <1>1, SeqDef
<1> DEFINE d == SubSeq(c, 2, n)
           q == ArrayOf(Shifted(s, n), n2, e)
<1>3. \A i \in 2 .. n : c[i] \in S
  BY <1>1
<1>4. /\ d \in Seq(S) /\ Len(d) = IF 2 <= n THEN n - 2 + 1 ELSE 0
      /\ \A i \in 1 .. n - 2 + 1 : d[i] = c[2 + i - 1]
  BY <1>3, SubSeqProperties
<1>5. Len(d) = n2 /\ n2 \in Nat /\ \A i \in 1 .. n2 : i + 1 \in 1 .. n /\ d[i] = c[i + 1]
  BY <1>4
<1>6. \A i \in 1 .. n2 : q[i] = e[s[i + 1]]
  <2>1. \A i \in 1 .. n2 : Shifted(s, n)[i] = s[i + 1]
    BY DEF Shifted
  <2> QED
    BY <2>1 DEF ArrayOf
<1>7. \A i \in 1 .. n2 : q[i] = d[i] /\ q[i] \in S
  BY <1>1, <1>5, <1>6
<1>8. q = [i \in 1 .. n2 |-> q[i]]
  BY DEF ArrayOf
<1> HIDE DEF d, q
<1>9. q \in Seq(S) /\ Len(q) = n2
  BY <1>5, <1>7, <1>8, SeqDef
<1>10. q = d
  BY <1>4, <1>5, <1>7, <1>9, SeqEqual
<1> QED
  BY <1>2, <1>10 DEF c, d, q

(* GGC_ListShift.                                                            *)
LEMMA ShiftKeeps ==
  ASSUME LInv, NEW l \in List, Shift(l)
  PROVE  LInv' /\ Held!Shift(l)
<1>1. PICK sp : Lines(sp, length, next, head, tail)
  BY DEF LInv
<1> DEFINE n == length[l]
           s == sp[l]
           r == [j \in List |-> IF j = l THEN Shifted(s, n) ELSE sp[j]]
<1>2. PICK n2 : n2 = n - 1
  OBVIOUS
<1>3. /\ head[l] # NULL
      /\ head' = [head EXCEPT ![l] = next[head[l]]]
      /\ tail' = [tail EXCEPT ![l] = IF next[head[l]] = NULL THEN NULL ELSE tail[l]]
      /\ length' = [length EXCEPT ![l] = length[l] - 1]
      /\ UNCHANGED <<next, el, failed>>
  BY DEF Shift
<1>4. n \in Nat /\ n > 0 /\ n2 \in Nat
  BY <1>1, <1>2, <1>3, Ends
<1>5. /\ length \in [List -> Nat] /\ next \in [Node -> Node \cup {NULL}]
      /\ head \in [List -> Node \cup {NULL}] /\ tail \in [List -> Node \cup {NULL}]
      /\ el \in [Node -> Value \cup {None}] /\ failed = FALSE
  BY DEF LInv, Typed
<1>6. Strung(s, n, next, head[l], tail[l])
  BY <1>1 DEF Lines
<1>7. /\ Strung(Shifted(s, n), n2, next, next[head[l]],
                IF next[head[l]] = NULL THEN NULL ELSE tail[l])
      /\ next[head[l]] \in Node \cup {NULL}
  BY <1>2, <1>4, <1>6, ShiftedStrung
<1>8. /\ length'[l] = n2 /\ head'[l] = next[head[l]]
      /\ tail'[l] = IF next[head[l]] = NULL THEN NULL ELSE tail[l]
      /\ \A j \in List \ {l} :
           length'[j] = length[j] /\ head'[j] = head[j] /\ tail'[j] = tail[j]
  BY <1>2, <1>3, <1>5
<1>9. \A j \in List : Strung(r[j], length'[j], next', head'[j], tail'[j])
  <2> TAKE j \in List
  <2>1. CASE j = l
    BY <1>3, <1>7, <1>8, <2>1
  <2>2. CASE j # l
    BY <1>1, <1>3, <1>8, <2>2 DEF Lines
  <2> QED
    BY <2>1, <2>2
<1>10. \A i \in 1 .. n2 : i + 1 \in 1 .. n /\ Shifted(s, n)[i] = s[i + 1]
  BY <1>2, <1>4 DEF Shifted
<1>11. \A j, i \in List : j # i => Apart(r[j], length'[j], r[i], length'[i])
  <2> SUFFICES ASSUME NEW j \in List, NEW i \in List, j # i
               PROVE  Apart(r[j], length'[j], r[i], length'[i])
    OBVIOUS
  <2>1. Apart(sp[j], length[j], sp[i], length[i])
    BY <1>1 DEF Lines
  <2>2. \A x \in List : \A y \in 1 .. length'[x] : \E z \in 1 .. length[x] : r[x][y] = sp[x][z]
    BY <1>8, <1>10
  <2> HIDE DEF r
  <2> QED
    BY <2>1, <2>2 DEF Apart
<1>12. Typed'
  <2>1. n - 1 \in Nat
    BY <1>2, <1>4
  <2> QED
    BY <1>3, <1>5, <1>7, <2>1 DEF Typed
<1>13. Lines(r, length', next', head', tail')
  BY <1>9, <1>11 DEF Lines
<1>14. LInv'
  BY <1>12, <1>13 DEF LInv
<1>15. ToArray(l)' = ArrayOf(r[l], length'[l], el')
  BY <1>9, ArrayThen
<1>16. ToArray(l)' = ArrayOf(Shifted(s, n), n2, el)
  BY <1>3, <1>8, <1>15
<1>17. ToArray(l) = ArrayOf(s, n, el)
  BY <1>6, ArrayNow
<1>18. Len(ToArray(l)) = n /\ ToArray(l)' = SubSeq(ToArray(l), 2, n)
  BY <1>2, <1>4, <1>16, <1>17, ArrayShifted
<1>19. \A j \in List \ {l} : ToArray(j)' = ToArray(j)
  <2> TAKE j \in List \ {l}
  <2>1. Strung(sp[j], length[j], next, head[j], tail[j])
    BY <1>1 DEF Lines
  <2>2. ToArray(j) = ArrayOf(sp[j], length[j], el)
    BY <2>1, ArrayNow
  <2>3. ToArray(j)' = ArrayOf(r[j], length'[j], el')
    BY <1>9, ArrayThen
  <2> QED
    BY <1>3, <1>8, <2>2, <2>3
<1>20. Held!Shift(l)
  BY <1>18, <1>19 DEF Held!Shift
<1> QED
  BY <1>14, <1>20

(***************************************************************************)
(* What is proved of the lists                                             *)
(***************************************************************************)

LEMMA Initially ==
  ASSUME ListsInit
  PROVE  LInv /\ Held!Init
<1> DEFINE e == [i \in 1 .. 0 |-> NULL]
           sp == [l \in List |-> e]
<1>1. Typed
  BY DEF ListsInit, Typed
<1>2. \A l \in List : length[l] = 0 /\ head[l] = NULL /\ tail[l] = NULL
  BY DEF ListsInit
<1>3. \A l \in List : Strung(sp[l], length[l], next, head[l], tail[l])
  BY <1>2, EmptyStrung
<1>4. \A l, m \in List : l # m => Apart(sp[l], length[l], sp[m], length[m])
  BY <1>2 DEF Apart
<1>5. Lines(sp, length, next, head, tail)
  BY <1>3, <1>4 DEF Lines
<1>6. LInv
  BY <1>1, <1>5 DEF LInv
<1>7. \A l \in List : ToArray(l) = << >>
  <2> TAKE l \in List
  <2>1. ToArray(l) = ArrayOf(sp[l], length[l], el)
    BY <1>3, ArrayNow
  <2> QED
    BY <1>2, <2>1 DEF ArrayOf
<1>8. Held!Init
  BY <1>7 DEF Held!Init
<1> QED
  BY <1>6, <1>8

(* Nodes moved to either end of a list.                                      *)
LEMMA MoveKeeps ==
  ASSUME LInv, Careful, NEW to \in List, NEW from \in List
  PROVE  /\ PushList(to, from) => LInv' /\ Held!PushList(to, from) /\ to # from
         /\ UnshiftList(to, from) => LInv' /\ Held!UnshiftList(to, from) /\ to # from
<1>1. ASSUME PushList(to, from) PROVE LInv' /\ Held!PushList(to, from) /\ to # from
  <2>1. to # from /\ (head[to] = NULL \/ head[from] # NULL)
    BY <1>1 DEF PushList, Movable, Careful
  <2>2. CASE head[to] = NULL
    <3>1. Graft(to, from)
      BY <1>1, <2>2 DEF PushList
    <3> QED
      BY <2>1, <2>2, <3>1, GraftKeeps
  <2>3. CASE head[to] # NULL
    BY <1>1, <2>1, <2>3, PushListKeeps
  <2> QED
    BY <2>2, <2>3
<1>2. ASSUME UnshiftList(to, from) PROVE LInv' /\ Held!UnshiftList(to, from) /\ to # from
  <2>1. to # from /\ (head[to] = NULL \/ head[from] # NULL)
    BY <1>2 DEF UnshiftList, Movable, Careful
  <2>2. CASE head[to] = NULL
    <3>1. Graft(to, from)
      BY <1>2, <2>2 DEF UnshiftList
    <3> QED
      BY <2>1, <2>2, <3>1, GraftKeeps
  <2>3. CASE head[to] # NULL
    BY <1>2, <2>1, <2>3, UnshiftListKeeps
  <2> QED
    BY <2>2, <2>3
<1> QED
  BY <1>1, <1>2

LEMMA PromisesKept ==
  ASSUME LInv, Careful
  PROVE  ListsPromised
<1>1. \A l \in List : Shift(l) => Held!Shift(l)
  BY ShiftKeeps
<1>2. \A l \in List, v \in Value :
        /\ Push(l, v) => Held!Push(l, v)
        /\ Unshift(l, v) => Held!Unshift(l, v)
  BY PushKeeps, UnshiftKeeps
<1>3. \A l \in List, v \in Value, n \in Node :
        InsertAfter(l, n, v) => Held!InsertAfter(l, Position(l, n), v)
  BY InsertAfterKeeps
<1>4. \A to, from \in List :
        /\ PushList(to, from) => Held!PushList(to, from)
        /\ UnshiftList(to, from) => Held!UnshiftList(to, from)
  BY MoveKeeps
<1>5. \A to, from \in List, n \in Node :
        InsertAfterList(to, n, from) => Held!InsertAfterList(to, Position(to, n), from)
  BY InsertAfterListKeeps
<1> QED
  BY <1>1, <1>2, <1>3, <1>4, <1>5 DEF ListsPromised

(* Each function is one of the operations on the sequences.                  *)
LEMMA Stepping ==
  ASSUME LInv, Careful, ListsNext
  PROVE  LInv' /\ Held!Next
<1>1. \A l \in List : Len(ToArray(l)) = length[l]
  <2>1. PICK sp : Lines(sp, length, next, head, tail)
    BY DEF LInv
  <2> TAKE l \in List
  <2>2. IsArray(ToArray(l), length[l]) /\ 0 \in 0 .. length[l]
    BY <2>1, ArraysHeld, Ends
  <2> QED
    BY <2>2, SplicedSeq
<1>2. CASE \E l \in List, v \in Value : Push(l, v) \/ Unshift(l, v)
  BY <1>2, PushKeeps, UnshiftKeeps DEF Held!Next
<1>3. CASE \E l \in List : Shift(l)
  BY <1>3, ShiftKeeps DEF Held!Next
<1>4. CASE \E l \in List, after \in Node, v \in Value : InsertAfter(l, after, v)
  <2>1. PICK l \in List, after \in Node, v \in Value : InsertAfter(l, after, v)
    BY <1>4
  <2>2. /\ LInv' /\ Held!InsertAfter(l, Position(l, after), v)
        /\ Position(l, after) \in 1 .. Len(ToArray(l))
    BY <1>1, <2>1, InsertAfterKeeps
  <2> QED
    BY <2>2 DEF Held!Next
<1>5. CASE \E to \in List, from \in List : PushList(to, from) \/ UnshiftList(to, from)
  BY <1>5, MoveKeeps DEF Held!Next
<1>6. CASE \E to \in List, from \in List, after \in Node : InsertAfterList(to, after, from)
  <2>1. PICK to \in List, from \in List, after \in Node : InsertAfterList(to, after, from)
    BY <1>6
  <2>2. /\ LInv' /\ Held!InsertAfterList(to, Position(to, after), from)
        /\ Position(to, after) \in 1 .. Len(ToArray(to))
    BY <1>1, <2>1, InsertAfterListKeeps
  <2>3. to # from
    BY <2>1 DEF InsertAfterList, Movable
  <2> QED
    BY <2>2, <2>3 DEF Held!Next
<1> QED
  BY <1>2, <1>3, <1>4, <1>5, <1>6 DEF ListsNext

LEMMA Stuttering ==
  ASSUME UNCHANGED listVars
  PROVE  /\ LInv => LInv'
         /\ [l \in List |-> ToArray(l)]' = [l \in List |-> ToArray(l)]
<1>1. LInv => LInv'
  BY DEF LInv, Typed, listVars
<1>2. \A l \in List : ToArray(l)' = ToArray(l)
  BY DEF ToArray, Path, listVars
<1> QED
  BY <1>1, <1>2

LEMMA ListsKept == ASSUME Careful PROVE ListsSpec => []LInv
<1>1. ListsInit => LInv
  BY Initially
<1>2. LInv /\ [ListsNext]_listVars => LInv'
  BY Stepping, Stuttering
<1> QED
  BY <1>1, <1>2, PTL DEF ListsSpec

(* No call of a careful program writes through NULL, and every member and    *)
(* link stays a node or NULL, whichever calls the functions of list.c get.   *)
THEOREM ListsTyped == ASSUME Careful PROVE ListsSpec => []ListsTypeOK
BY ListsKept, TypesHold, PTL

(* Each of the functions of list.c keeps what the other ones rely on: as     *)
(* many nodes as the length says, the tail the last of them, none reached    *)
(* twice or from two lists.                                                  *)
THEOREM ListsKeptWellFormed == ASSUME Careful PROVE ListsSpec => []ListsWellFormed
BY ListsKept, WellFormedHolds, PTL

(* The linked nodes are sequences to whoever calls list.c: each function     *)
(* does to them what its comment says and changes no other list.             *)
THEOREM ListsImplemented == ASSUME Careful PROVE ListsSpec => ListsImplement
<1>1. ListsInit => Held!Init
  BY Initially
<1>2. LInv /\ [ListsNext]_listVars => [Held!Next]_(Held!vars)
  BY Stepping, Stuttering DEF Held!vars
<1>3. LInv => [ListsPromised]_listVars
  BY PromisesKept
<1> QED
  BY <1>1, <1>2, <1>3, ListsKept, PTL DEF ListsSpec, ListsImplement, Held!Spec

(***************************************************************************)
(* Tables of chains                                                        *)
(***************************************************************************)

(* The entries a map m may have. *)
Own(m) == {m} \X Key

(* A table of n buckets: each entry once, in the bucket of its key.          *)
Good(T, n, m) ==
  /\ n \in Nat /\ T \in [1 .. n -> Seq(Own(m))]
  /\ \A b \in 1 .. n : \A i \in 1 .. Len(T[b]) : Bucket(T[b][i][2], n) = b
  /\ \A b \in 1 .. n : \A i, j \in 1 .. Len(T[b]) : T[b][i] = T[b][j] => i = j

Content(T, n) == UNION {{T[b][i] : i \in 1 .. Len(T[b])} : b \in 1 .. n}

LEMMA ContentIs ==
  ASSUME NEW T, NEW n
  PROVE  \A e : e \in Content(T, n) <=> \E b \in 1 .. n : \E i \in 1 .. Len(T[b]) : T[b][i] = e
BY DEF Content

LEMMA BucketFits ==
  ASSUME NEW k \in Key, NEW n \in Nat, n > 0
  PROVE  Bucket(k, n) \in 1 .. n
BY MapsAssumption DEF Bucket

(* A chain with an entry more in front. *)
LEMMA Longer ==
  ASSUME NEW S, NEW c \in Seq(S), NEW e \in S
  PROVE  /\ <<e>> \o c \in Seq(S) /\ Len(<<e>> \o c) = Len(c) + 1
         /\ (<<e>> \o c)[1] = e
         /\ \A i \in 1 .. Len(c) : (<<e>> \o c)[i + 1] = c[i]
         /\ Len(c) \in Nat
<1>1. <<e>> \in Seq(S) /\ Len(<<e>>) = 1 /\ <<e>>[1] = e
  OBVIOUS
<1>2. Len(c) \in Nat
  BY LenProperties
<1> QED
  BY <1>1, <1>2, ConcatProperties

LEMMA OwnKeys ==
  ASSUME NEW m, NEW e \in Own(m)
  PROVE  e[1] = m /\ e[2] \in Key /\ e = <<m, e[2]>>
BY DEF Own

(* Putting an entry that is not there in front of its chain.                 *)
LEMMA InFrontGood ==
  ASSUME NEW T, NEW n, NEW m, Good(T, n, m), n > 0, NEW e \in Own(m), e \notin Content(T, n)
  PROVE  /\ Good(InFront(T, e, n), n, m)
         /\ Content(InFront(T, e, n), n) = Content(T, n) \cup {e}
<1> DEFINE a == Bucket(e[2], n)
           q == <<e>> \o T[a]
           U == InFront(T, e, n)
<1>1. n \in Nat /\ T \in [1 .. n -> Seq(Own(m))]
  BY DEF Good
<1>2. a \in 1 .. n
  BY <1>1, OwnKeys, BucketFits
<1>3. \A i \in 1 .. Len(T[a]) : T[a][i] # e
  BY <1>2, ContentIs
<1>4. /\ q \in Seq(Own(m)) /\ Len(q) = Len(T[a]) + 1 /\ q[1] = e
      /\ \A i \in 1 .. Len(T[a]) : q[i + 1] = T[a][i]
      /\ Len(T[a]) \in Nat
  BY <1>1, <1>2, Longer
<1>5. U = [T EXCEPT ![a] = q]
  BY DEF InFront
<1> HIDE DEF a, q, U
<1>6. /\ U \in [1 .. n -> Seq(Own(m))] /\ U[a] = q
      /\ \A b \in 1 .. n : b # a => U[b] = T[b]
  BY <1>1, <1>2, <1>4, <1>5
<1>7. \A i \in 1 .. Len(q) : i = 1 \/ (i - 1 \in 1 .. Len(T[a]) /\ q[i] = T[a][i - 1])
  <2> TAKE i \in 1 .. Len(q)
  <2>1. i = 1 \/ (i - 1 \in 1 .. Len(T[a]) /\ (i - 1) + 1 = i)
    BY <1>4
  <2> QED
    BY <1>4, <2>1
<1>8. \A b \in 1 .. n : \A i \in 1 .. Len(U[b]) : Bucket(U[b][i][2], n) = b
  <2> SUFFICES ASSUME NEW b \in 1 .. n, NEW i \in 1 .. Len(U[b])
               PROVE  Bucket(U[b][i][2], n) = b
    OBVIOUS
  <2>1. CASE b # a
    BY <1>6, <2>1 DEF Good
  <2>2. CASE b = a /\ i = 1
    BY <1>4, <1>6, <2>2 DEF a
  <2>3. CASE b = a /\ i # 1
    <3>1. i - 1 \in 1 .. Len(T[a]) /\ U[b][i] = T[a][i - 1]
      BY <1>6, <1>7, <2>3
    <3>2. \A j \in 1 .. Len(T[a]) : Bucket(T[a][j][2], n) = a
      BY <1>2 DEF Good
    <3>3. Bucket(T[a][i - 1][2], n) = a
      BY <3>1, <3>2
    <3> QED
      BY <2>3, <3>1, <3>3
  <2> QED
    BY <2>1, <2>2, <2>3
<1>9. \A i, j \in 1 .. Len(q) : q[i] = q[j] => i = j
  <2> SUFFICES ASSUME NEW i \in 1 .. Len(q), NEW j \in 1 .. Len(q), q[i] = q[j]
               PROVE  i = j
    OBVIOUS
  <2>1. CASE i = 1 \/ j = 1
    BY <1>3, <1>4, <1>7, <2>1
  <2>2. CASE i # 1 /\ j # 1
    <3>1. /\ i - 1 \in 1 .. Len(T[a]) /\ q[i] = T[a][i - 1]
          /\ j - 1 \in 1 .. Len(T[a]) /\ q[j] = T[a][j - 1]
      BY <1>7, <2>2
    <3>2. i - 1 = j - 1
      BY <1>2, <3>1 DEF Good
    <3> QED
      BY <1>4, <3>2
  <2> QED
    BY <2>1, <2>2
<1>10. \A b \in 1 .. n : \A i, j \in 1 .. Len(U[b]) : U[b][i] = U[b][j] => i = j
  <2> SUFFICES ASSUME NEW b \in 1 .. n
               PROVE  \A i, j \in 1 .. Len(U[b]) : U[b][i] = U[b][j] => i = j
    OBVIOUS
  <2>1. CASE b # a
    BY <1>6, <2>1 DEF Good
  <2>2. CASE b = a
    BY <1>6, <1>9, <2>2
  <2> QED
    BY <2>1, <2>2
<1>11. Good(U, n, m)
  BY <1>1, <1>6, <1>8, <1>10 DEF Good
<1>12. \A x : (\E i \in 1 .. Len(q) : q[i] = x) <=> x = e \/ \E i \in 1 .. Len(T[a]) : T[a][i] = x
  <2>1. 1 \in 1 .. Len(q) /\ \A i \in 1 .. Len(T[a]) : i + 1 \in 1 .. Len(q)
    BY <1>4
  <2> QED
    BY <1>4, <1>7, <2>1
<1>13. \A x : x \in Content(U, n) <=> x \in Content(T, n) \/ x = e
  <2> SUFFICES ASSUME NEW x
               PROVE  x \in Content(U, n) <=> x \in Content(T, n) \/ x = e
    OBVIOUS
  <2> DEFINE In(V, b) == \E i \in 1 .. Len(V[b]) : V[b][i] = x
  <2>1. In(U, a) <=> x = e \/ In(T, a)
    BY <1>6, <1>12
  <2>2. \A b \in 1 .. n : b # a => (In(U, b) <=> In(T, b))
    BY <1>6
  <2>3. /\ x \in Content(U, n) <=> \E b \in 1 .. n : In(U, b)
        /\ x \in Content(T, n) <=> \E b \in 1 .. n : In(T, b)
    BY ContentIs
  <2> HIDE DEF In
  <2> QED
    BY <1>2, <2>1, <2>2, <2>3
<1>14. Content(U, n) = Content(T, n) \cup {e}
  BY <1>13
<1> QED
  BY <1>11, <1>14 DEF U

(***************************************************************************)
(* The two loops of a table that grows                                     *)
(***************************************************************************)

(* What they do in a round with x: with an entry, or with a chain.           *)
Round(inner, T, x, n) == IF inner THEN InFront(T, x, n) ELSE Moved(T, x, n)

Loop(inner, T, c, n, last, k) ==
  k = [i \in 0 .. last |-> IF i = 0 THEN T ELSE Round(inner, k[i - 1], c[i], n)]

LEMMA LoopExists ==
  ASSUME NEW inner, NEW T, NEW c, NEW n, NEW last \in Nat
  PROVE  \E k : Loop(inner, T, c, n, last, k)
<1> DEFINE R(t, x) == Round(inner, t, x, n)
           S == {l \in Nat : ~ \E k : Loop(inner, T, c, n, l, k)}
<1>1. \A l : \A k : Loop(inner, T, c, n, l, k) <=>
               k = [i \in 0 .. l |-> IF i = 0 THEN T ELSE R(k[i - 1], c[i])]
  BY DEF Loop
<1> HIDE DEF R
<1>2. Loop(inner, T, c, n, 0, [i \in 0 .. 0 |-> T])
  <2> DEFINE k == [i \in 0 .. 0 |-> T]
  <2>1. k = [i \in 0 .. 0 |-> IF i = 0 THEN T ELSE R(k[i - 1], c[i])]
    OBVIOUS
  <2> HIDE DEF k
  <2>2. Loop(inner, T, c, n, 0, k)
    BY <1>1, <2>1
  <2> QED
    BY <2>2 DEF k
<1>3. ASSUME NEW l \in Nat, NEW k, Loop(inner, T, c, n, l, k)
      PROVE  \E k2 : Loop(inner, T, c, n, l + 1, k2)
  <2> DEFINE k2 == [i \in 0 .. l + 1 |-> IF i <= l THEN k[i] ELSE R(k[l], c[i])]
  <2>1. k = [i \in 0 .. l |-> IF i = 0 THEN T ELSE R(k[i - 1], c[i])]
    BY <1>1, <1>3
  <2>2. ASSUME NEW i \in 0 .. l + 1
        PROVE  k2[i] = IF i = 0 THEN T ELSE R(k2[i - 1], c[i])
    <3>1. CASE i = 0
      BY <2>1, <3>1
    <3>2. CASE i \in 1 .. l
      <4>1. k2[i] = k[i] /\ k2[i - 1] = k[i - 1] /\ k[i] = R(k[i - 1], c[i])
        BY <2>1, <3>2
      <4> QED
        BY <3>2, <4>1
    <3>3. CASE i = l + 1
      <4>1. k2[i] = R(k[l], c[i]) /\ k2[i - 1] = k[l] /\ i # 0
        BY <3>3
      <4> QED
        BY <4>1
    <3> QED
      BY <3>1, <3>2, <3>3
  <2>3. k2 = [i \in 0 .. l + 1 |-> k2[i]]
    OBVIOUS
  <2> HIDE DEF k2
  <2>4. k2 = [i \in 0 .. l + 1 |-> IF i = 0 THEN T ELSE R(k2[i - 1], c[i])]
    BY <2>2, <2>3
  <2> QED
    BY <1>1, <2>4
<1>4. S = {}
  <2> SUFFICES ASSUME S # {} PROVE FALSE
    OBVIOUS
  <2>1. PICK l \in S : \A j \in S : l <= j
    BY Least
  <2>2. l # 0
    BY <1>2, <2>1
  <2>3. l - 1 \in Nat /\ l - 1 \notin S /\ (l - 1) + 1 = l
    BY <2>1, <2>2
  <2>4. \E k : Loop(inner, T, c, n, l - 1, k)
    BY <2>3
  <2>5. \E k : Loop(inner, T, c, n, (l - 1) + 1, k)
    BY <1>3, <2>3, <2>4
  <2> QED
    BY <2>1, <2>3, <2>5
<1> QED
  BY <1>4

LEMMA EmptyGood ==
  ASSUME NEW n \in Nat, NEW m
  PROVE  Good(Empty(n), n, m) /\ Content(Empty(n), n) = {}
<1>1. << >> \in Seq(Own(m)) /\ Len(<< >>) = 0
  BY EmptySeq
<1>2. Empty(n) \in [1 .. n -> Seq(Own(m))] /\ \A b \in 1 .. n : Len(Empty(n)[b]) = 0
  BY <1>1 DEF Empty
<1>3. \A b \in 1 .. n : 1 .. Len(Empty(n)[b]) = {}
  BY <1>2
<1> QED
  BY <1>2, <1>3, ContentIs DEF Good

(* All entries of a chain.                                                   *)
Upto(c, l) == {c[i] : i \in 1 .. l}

(* The inner loop, over the entries of the chain c.                          *)
LEMMA MovedGood ==
  ASSUME NEW T, NEW n, NEW m, Good(T, n, m), n > 0, NEW c \in Seq(Own(m)),
         \A i, j \in 1 .. Len(c) : c[i] = c[j] => i = j,
         \A i \in 1 .. Len(c) : c[i] \notin Content(T, n)
  PROVE  /\ Good(Moved(T, c, n), n, m)
         /\ Content(Moved(T, c, n), n) = Content(T, n) \cup Upto(c, Len(c))
<1> DEFINE last == Len(c)
           k == CHOOSE x : Loop(TRUE, T, c, n, last, x)
           Sound(l) == Good(k[l], n, m) /\ Content(k[l], n) = Content(T, n) \cup Upto(c, l)
           S == {l \in 0 .. last : ~ Sound(l)}
<1>1. last \in Nat /\ \A i \in 1 .. last : c[i] \in Own(m)
  BY LenProperties, ElementOfSeq
<1>2. Moved(T, c, n) = k[last]
  BY DEF Moved, Loop, Round
<1>3. Loop(TRUE, T, c, n, last, k)
  BY <1>1, LoopExists
<1>4. k = [i \in 0 .. last |-> IF i = 0 THEN T ELSE InFront(k[i - 1], c[i], n)]
  BY <1>3 DEF Loop, Round
<1> HIDE DEF k
<1>5. /\ k[0] = T
      /\ \A i \in 1 .. last : k[i] = InFront(k[i - 1], c[i], n)
  BY <1>1, <1>4
<1>6. Sound(0)
  <2>1. Upto(c, 0) = {}
    BY DEF Upto
  <2> QED
    BY <1>5, <2>1
<1>7. ASSUME NEW l \in 1 .. last, Sound(l - 1) PROVE Sound(l)
  <2> DEFINE U == k[l - 1]
             e == c[l]
  <2>1. Good(U, n, m) /\ Content(U, n) = Content(T, n) \cup Upto(c, l - 1)
    BY <1>7
  <2>2. e \in Own(m) /\ e \notin Content(T, n)
    BY <1>1
  <2>3. e \notin Upto(c, l - 1)
    BY <1>1 DEF Upto
  <2>4. Upto(c, l) = Upto(c, l - 1) \cup {e}
    <3>1. \A i : i \in 1 .. l <=> i \in 1 .. l - 1 \/ i = l
      BY <1>1
    <3> QED
      BY <3>1 DEF Upto
  <2>5. k[l] = InFront(U, e, n)
    BY <1>5
  <2> HIDE DEF U, e
  <2>6. Good(k[l], n, m) /\ Content(k[l], n) = Content(U, n) \cup {e}
    BY <2>1, <2>2, <2>3, <2>5, InFrontGood
  <2> QED
    BY <2>1, <2>4, <2>6
<1> HIDE DEF Sound
<1>8. S = {}
  <2> SUFFICES ASSUME S # {} PROVE FALSE
    OBVIOUS
  <2>1. S \in SUBSET Nat
    BY <1>1
  <2>2. PICK l \in S : \A j \in S : l <= j
    BY <2>1, Least
  <2>3. l \in 0 .. last /\ ~ Sound(l) /\ l # 0
    BY <1>6, <2>2
  <2>4. l \in 1 .. last /\ l - 1 \in 0 .. last /\ l - 1 \notin S
    BY <1>1, <2>2, <2>3
  <2> QED
    BY <1>7, <2>3, <2>4
<1>9. Sound(last)
  BY <1>1, <1>8
<1> QED
  BY <1>2, <1>9 DEF Sound

(* The outer loop, over the chains of the old table E of s buckets.          *)
Grows(E, s, n) ==
  LET after[b \in 0 .. s] == IF b = 0 THEN Empty(n) ELSE Moved(after[b - 1], E[b], n)
  IN  after[s]

LEMMA GrowsGood ==
  ASSUME NEW E, NEW s, NEW m, Good(E, s, m), NEW n \in Nat, n > 0
  PROVE  Good(Grows(E, s, n), n, m) /\ Content(Grows(E, s, n), n) = Content(E, s)
<1> DEFINE T == Empty(n)
           k == CHOOSE x : Loop(FALSE, T, E, n, s, x)
           Sound(l) == Good(k[l], n, m) /\ Content(k[l], n) = Content(E, l)
           S == {l \in 0 .. s : ~ Sound(l)}
<1>1. s \in Nat /\ E \in [1 .. s -> Seq(Own(m))]
  BY DEF Good
<1>2. Grows(E, s, n) = k[s]
  BY DEF Grows, Loop, Round
<1>3. Loop(FALSE, T, E, n, s, k)
  BY <1>1, LoopExists
<1>4. k = [i \in 0 .. s |-> IF i = 0 THEN T ELSE Moved(k[i - 1], E[i], n)]
  BY <1>3 DEF Loop, Round
<1>5. Good(T, n, m) /\ Content(T, n) = {}
  BY EmptyGood
<1> HIDE DEF k, T
<1>6. /\ k[0] = T
      /\ \A i \in 1 .. s : k[i] = Moved(k[i - 1], E[i], n)
  BY <1>1, <1>4
<1>7. Sound(0)
  <2>1. Content(E, 0) = {}
    BY DEF Content
  <2> QED
    BY <1>5, <1>6, <2>1
<1>8. ASSUME NEW l \in 1 .. s, Sound(l - 1) PROVE Sound(l)
  <2> DEFINE U == k[l - 1]
             c == E[l]
  <2>1. Good(U, n, m) /\ Content(U, n) = Content(E, l - 1)
    BY <1>8
  <2>2. /\ c \in Seq(Own(m))
        /\ \A i, j \in 1 .. Len(c) : c[i] = c[j] => i = j
        /\ \A i \in 1 .. Len(c) : Bucket(c[i][2], s) = l
    BY <1>1 DEF Good
  <2>3. \A b \in 1 .. l - 1 : b \in 1 .. s /\ b # l
    BY <1>1
  <2>4. \A b \in 1 .. l - 1 : \A j \in 1 .. Len(E[b]) : Bucket(E[b][j][2], s) # l
    BY <2>3 DEF Good
  <2>5. \A i \in 1 .. Len(c) : c[i] \notin Content(E, l - 1)
    BY <2>2, <2>4, ContentIs
  <2>6. Content(E, l) = Content(E, l - 1) \cup Upto(c, Len(c))
    <3>1. \A b : b \in 1 .. l <=> b \in 1 .. l - 1 \/ b = l
      BY <1>1
    <3> QED
      BY <3>1 DEF Content, Upto
  <2>7. k[l] = Moved(U, c, n)
    BY <1>6
  <2> HIDE DEF U, c
  <2>8. Good(k[l], n, m) /\ Content(k[l], n) = Content(U, n) \cup Upto(c, Len(c))
    BY <2>1, <2>2, <2>5, <2>7, MovedGood
  <2> QED
    BY <2>1, <2>6, <2>8
<1> HIDE DEF Sound
<1>9. S = {}
  <2> SUFFICES ASSUME S # {} PROVE FALSE
    OBVIOUS
  <2>1. S \in SUBSET Nat
    BY <1>1
  <2>2. PICK l \in S : \A j \in S : l <= j
    BY <2>1, Least
  <2>3. l \in 0 .. s /\ ~ Sound(l) /\ l # 0
    BY <1>7, <2>2
  <2>4. l \in 1 .. s /\ l - 1 \in 0 .. s /\ l - 1 \notin S
    BY <1>1, <2>2, <2>3
  <2> QED
    BY <1>8, <2>3, <2>4
<1>10. Sound(s)
  BY <1>1, <1>9
<1> QED
  BY <1>2, <1>10 DEF Sound

(***************************************************************************)
(* The invariant                                                           *)
(***************************************************************************)

MInv ==
  /\ size \in [Map -> Nat] /\ used \in [Map -> Nat]
  /\ entries = [m \in Map |-> entries[m]]
  /\ value \in [Entry -> Datum \cup {Missing}]
  /\ \A m \in Map :
       /\ Good(entries[m], size[m], m)
       /\ IsFiniteSet(Content(entries[m], size[m]))
       /\ Cardinality(Content(entries[m], size[m])) = used[m]
       /\ used[m] <= size[m] \div 2 + 1

LEMMA MembersAre ==
  /\ \A m : Members(m) = Content(entries[m], size[m])
  /\ \A m : Rehashed(m, 2 * size[m]) = Grows(entries[m], size[m], 2 * size[m])
BY DEF Members, Content, Rehashed, Grows

LEMMA TableLength ==
  ASSUME NEW T, NEW n, NEW m, Good(T, n, m)
  PROVE  Len(T) = n
<1>1. n \in Nat /\ T \in [1 .. n -> Seq(Own(m))]
  BY DEF Good
<1>2. T \in Seq(Seq(Own(m)))
  BY <1>1, SeqDef
<1> QED
  BY <1>1, <1>2, LenProperties

(* Every entry is its map and its key. *)
LEMMA ContentOwn ==
  ASSUME NEW T, NEW n, NEW m, Good(T, n, m)
  PROVE  /\ Content(T, n) \subseteq Own(m)
         /\ \A k \in Key : \A b \in 1 .. n : \A i \in 1 .. Len(T[b]) :
              T[b][i][2] = k <=> T[b][i] = <<m, k>>
<1>1. \A b \in 1 .. n : \A i \in 1 .. Len(T[b]) : T[b][i] \in Own(m)
  BY ElementOfSeq DEF Good
<1> QED
  BY <1>1, ContentIs, OwnKeys

(* What is in the bucket of a key.                                           *)
LEMMA InBucket ==
  ASSUME NEW T, NEW n, NEW m, Good(T, n, m), n > 0, NEW k \in Key
  PROVE  /\ Bucket(k, n) \in 1 .. n
         /\ <<m, k>> \in Content(T, n) <=>
              \E i \in 1 .. Len(T[Bucket(k, n)]) : T[Bucket(k, n)][i][2] = k
<1> DEFINE a == Bucket(k, n)
<1>1. a \in 1 .. n
  BY BucketFits DEF Good
<1>2. ASSUME <<m, k>> \in Content(T, n)
      PROVE  \E i \in 1 .. Len(T[a]) : T[a][i][2] = k
  <2>1. PICK b \in 1 .. n : \E i \in 1 .. Len(T[b]) : T[b][i] = <<m, k>>
    BY <1>2, ContentIs
  <2>2. PICK i \in 1 .. Len(T[b]) : T[b][i] = <<m, k>>
    BY <2>1
  <2>3. T[b][i][2] = k
    BY <2>2
  <2>4. b = a
    BY <2>3 DEF Good
  <2> QED
    BY <2>3, <2>4
<1>3. ASSUME NEW i \in 1 .. Len(T[a]), T[a][i][2] = k
      PROVE  <<m, k>> \in Content(T, n)
  <2>1. T[a][i] = <<m, k>>
    BY <1>1, <1>3, ContentOwn
  <2> QED
    BY <1>1, <2>1, ContentIs
<1> QED
  BY <1>1, <1>2, <1>3

(* GGC_MapGet, for any map.                                                  *)
Found(T, n, v, k) ==
  LET chain == T[Bucket(k, n)]
      hits == {i \in 1 .. Len(chain) : chain[i][2] = k}
  IN  IF n = 0 \/ hits = {} THEN Missing
      ELSE v[chain[CHOOSE i \in hits : \A j \in hits : i <= j]]

Holding(T, n, v, m, k) == IF <<m, k>> \in Content(T, n) THEN v[<<m, k>>] ELSE Missing

LEMMA FoundIs ==
  ASSUME NEW T, NEW n, NEW m, Good(T, n, m), NEW v, NEW k \in Key
  PROVE  Found(T, n, v, k) = Holding(T, n, v, m, k)
<1> DEFINE chain == T[Bucket(k, n)]
           hits == {i \in 1 .. Len(chain) : chain[i][2] = k}
           first == CHOOSE i \in hits : \A j \in hits : i <= j
<1>1. n \in Nat
  BY DEF Good
<1>2. CASE n = 0
  <2>1. Content(T, n) = {}
    BY <1>2 DEF Content
  <2> QED
    BY <1>2, <2>1 DEF Found, Holding
<1>3. CASE n > 0 /\ hits = {}
  <2>1. <<m, k>> \notin Content(T, n)
    BY <1>3, InBucket
  <2> QED
    BY <1>3, <2>1 DEF Found, Holding
<1>4. CASE n > 0 /\ hits # {}
  <2>1. Bucket(k, n) \in 1 .. n /\ <<m, k>> \in Content(T, n)
    BY <1>4, InBucket
  <2>2. hits \in SUBSET Nat
    OBVIOUS
  <2>3. \E i \in hits : \A j \in hits : i <= j
    BY <1>4, <2>2, Least
  <2>4. first \in hits
    BY <2>3
  <2>5. chain[first] = <<m, k>>
    <3> HIDE DEF first
    <3> QED
      BY <2>1, <2>4, ContentOwn
  <2>6. Found(T, n, v, k) = v[chain[first]]
    BY <1>1, <1>4 DEF Found
  <2> QED
    BY <2>1, <2>5, <2>6 DEF Holding
<1> QED
  BY <1>1, <1>2, <1>3, <1>4

LEMMA GetIs ==
  ASSUME NEW m \in Map, NEW k \in Key
  PROVE  /\ Good(entries[m], size[m], m) =>
              Get(m, k) = Holding(entries[m], size[m], value, m, k)
         /\ Good(entries'[m], size'[m], m) =>
              Get(m, k)' = Holding(entries'[m], size'[m], value', m, k)
<1>1. Get(m, k) = Found(entries[m], size[m], value, k)
  BY DEF Get, Found
<1>2. Get(m, k)' = Found(entries'[m], size'[m], value', k)
  BY DEF Get, Found
<1> QED
  BY <1>1, <1>2, FoundIs

(***************************************************************************)
(* The functions                                                           *)
(***************************************************************************)

(* The table a put works on has the map's entries and room for one more.     *)
LEMMA TableGood ==
  ASSUME MInv, NEW m \in Map
  PROVE  \E n \in Nat : /\ n > 0 /\ Len(Table(m)) = n /\ Good(Table(m), n, m)
                        /\ Content(Table(m), n) = Content(entries[m], size[m])
                        /\ used[m] <= n \div 2
<1>1. /\ size[m] \in Nat /\ used[m] \in Nat /\ Good(entries[m], size[m], m)
      /\ Cardinality(Content(entries[m], size[m])) = used[m]
      /\ used[m] <= size[m] \div 2 + 1
  BY DEF MInv
<1>2. CASE size[m] = 0
  <2>1. Content(entries[m], size[m]) = {}
    BY <1>2 DEF Content
  <2>2. used[m] = 0
    BY <1>1, <2>1, FS_EmptySet
  <2>3. PICK n : n = InitialSize
    OBVIOUS
  <2>4. n \in Nat /\ n > 0 /\ 0 <= n \div 2
    BY <2>3 DEF InitialSize
  <2>5. Table(m) = Empty(n)
    BY <1>2, <2>3 DEF Table
  <2>6. Good(Table(m), n, m) /\ Content(Table(m), n) = {}
    BY <2>4, <2>5, EmptyGood
  <2> QED
    BY <2>1, <2>2, <2>4, <2>6, TableLength
<1>3. CASE size[m] # 0 /\ used[m] > size[m] \div 2
  <2>1. PICK n : n = 2 * size[m]
    OBVIOUS
  <2>2. n \in Nat /\ n > 0 /\ n \div 2 = size[m] /\ used[m] <= n \div 2
    BY <1>1, <1>3, <2>1
  <2>3. Table(m) = Rehashed(m, 2 * size[m])
    BY <1>3 DEF Table
  <2>4. Table(m) = Grows(entries[m], size[m], n)
    BY <2>1, <2>3, MembersAre
  <2>5. /\ Good(Table(m), n, m)
        /\ Content(Table(m), n) = Content(entries[m], size[m])
    BY <1>1, <2>2, <2>4, GrowsGood
  <2> QED
    BY <2>2, <2>5, TableLength
<1>4. CASE size[m] # 0 /\ ~ (used[m] > size[m] \div 2)
  <2>1. Table(m) = entries[m]
    BY <1>4 DEF Table
  <2>2. size[m] > 0 /\ used[m] <= size[m] \div 2
    BY <1>1, <1>4
  <2> QED
    BY <1>1, <2>1, <2>2, TableLength
<1> QED
  BY <1>2, <1>3, <1>4

(* What changes in one map, m, whichever way a put goes.                     *)
PutInto(m, k, d) ==
  /\ Good(entries'[m], size'[m], m)
  /\ Content(entries'[m], size'[m]) = Content(entries[m], size[m]) \cup {<<m, k>>}
  /\ value' = [value EXCEPT ![<<m, k>>] = d]
  /\ used'[m] = used[m] + IF <<m, k>> \in Content(entries[m], size[m]) THEN 0 ELSE 1
  /\ size'[m] \in Nat /\ used'[m] <= size'[m] \div 2 + 1
  /\ size' = [j \in Map |-> IF j = m THEN size'[m] ELSE size[j]]
  /\ used' = [j \in Map |-> IF j = m THEN used'[m] ELSE used[j]]
  /\ entries' = [j \in Map |-> IF j = m THEN entries'[m] ELSE entries[j]]

LEMMA PutIs ==
  ASSUME MInv, NEW m \in Map, NEW k \in Key, NEW d \in Datum, MapPut(m, k, d)
  PROVE  PutInto(m, k, d)
<1> DEFINE T == Table(m)
           C == Content(entries[m], size[m])
<1>1. PICK n \in Nat : /\ n > 0 /\ Len(T) = n /\ Good(T, n, m)
                       /\ Content(T, n) = C /\ used[m] <= n \div 2
  BY TableGood
<1> DEFINE b == Bucket(k, n)
<1>2. PutIn(m, k, d, T, b)
  BY <1>1 DEF MapPut
<1>3. /\ size \in [Map -> Nat] /\ used \in [Map -> Nat]
      /\ entries = [j \in Map |-> entries[j]]
  BY DEF MInv
<1>4. /\ b \in 1 .. n
      /\ <<m, k>> \in C <=> \E i \in 1 .. Len(T[b]) : T[b][i][2] = k
  BY <1>1, InBucket
<1> HIDE DEF T, C, b
<1>5. size' = [size EXCEPT ![m] = n]
  BY <1>1, <1>2 DEF PutIn
<1>6. /\ size'[m] = n /\ n \in Nat
      /\ size' = [j \in Map |-> IF j = m THEN n ELSE size[j]]
  BY <1>3, <1>5
<1>7. CASE \E i \in 1 .. Len(T[b]) : T[b][i][2] = k
  <2>1. PICK i \in 1 .. Len(T[b]) :
               /\ T[b][i][2] = k
               /\ value' = [value EXCEPT ![T[b][i]] = d]
               /\ entries' = [entries EXCEPT ![m] = T]
               /\ UNCHANGED used
    BY <1>2, <1>7 DEF PutIn
  <2>2. T[b][i] = <<m, k>> /\ <<m, k>> \in C
    BY <1>1, <1>4, <2>1, ContentOwn
  <2>3. value' = [value EXCEPT ![<<m, k>>] = d]
    BY <2>1, <2>2
  <2>4. /\ entries'[m] = T
        /\ entries' = [j \in Map |-> IF j = m THEN T ELSE entries[j]]
    BY <1>3, <2>1
  <2>5. /\ used'[m] = used[m] /\ used[m] \in Nat
        /\ used' = [j \in Map |-> IF j = m THEN used[m] ELSE used[j]]
    BY <1>3, <2>1
  <2>6. used'[m] <= n \div 2 + 1
    BY <1>1, <2>5
  <2>7. Content(T, n) = C \cup {<<m, k>>}
    BY <1>1, <2>2
  <2>8. used'[m] = used[m] + IF <<m, k>> \in C THEN 0 ELSE 1
    BY <2>2, <2>5
  <2> QED
    BY <1>1, <1>6, <2>3, <2>4, <2>5, <2>6, <2>7, <2>8 DEF PutInto, C
<1>8. CASE ~ \E i \in 1 .. Len(T[b]) : T[b][i][2] = k
  <2>1. /\ value' = [value EXCEPT ![<<m, k>>] = d]
        /\ entries' = [entries EXCEPT ![m] = [T EXCEPT ![b] = <<<<m, k>>>> \o @]]
        /\ used' = [used EXCEPT ![m] = @ + 1]
    BY <1>2, <1>8 DEF PutIn
  <2>2. PICK U : U = [T EXCEPT ![b] = <<<<m, k>>>> \o @]
    OBVIOUS
  <2>3. PICK e : e = <<m, k>>
    OBVIOUS
  <2>4. e \in Own(m) /\ e[2] = k /\ e \notin C
    BY <1>4, <1>8, <2>3 DEF Own
  <2>5. U = InFront(T, e, n)
    BY <2>2, <2>3, <2>4 DEF InFront, b
  <2>6. Good(U, n, m) /\ Content(U, n) = C \cup {e}
    BY <1>1, <2>4, <2>5, InFrontGood
  <2>7. /\ entries'[m] = U
        /\ entries' = [j \in Map |-> IF j = m THEN U ELSE entries[j]]
    BY <1>3, <2>1, <2>2
  <2>8. /\ used'[m] = used[m] + 1 /\ used[m] \in Nat
        /\ used' = [j \in Map |-> IF j = m THEN used[m] + 1 ELSE used[j]]
    BY <1>3, <2>1
  <2>9. used'[m] <= n \div 2 + 1
    BY <1>1, <2>8
  <2>10. used'[m] = used[m] + IF <<m, k>> \in C THEN 0 ELSE 1
    BY <2>3, <2>4, <2>8
  <2>11. used' = [j \in Map |-> IF j = m THEN used'[m] ELSE used[j]]
    BY <2>8
  <2> QED
    BY <1>6, <2>1, <2>3, <2>6, <2>7, <2>9, <2>10, <2>11 DEF PutInto, C
<1> QED
  BY <1>7, <1>8

LEMMA PutKeeps ==
  ASSUME MInv, NEW m \in Map, NEW k \in Key, NEW d \in Datum, PutInto(m, k, d)
  PROVE  MInv'
<1> DEFINE C == Content(entries[m], size[m])
           C2 == Content(entries'[m], size'[m])
<1>1. /\ IsFiniteSet(C) /\ Cardinality(C) = used[m] /\ used[m] \in Nat
      /\ value \in [Entry -> Datum \cup {Missing}]
      /\ size \in [Map -> Nat] /\ used \in [Map -> Nat]
  BY DEF MInv
<1>2. /\ C2 = C \cup {<<m, k>>}
      /\ value' = [value EXCEPT ![<<m, k>>] = d]
      /\ used'[m] = used[m] + IF <<m, k>> \in C THEN 0 ELSE 1
  BY DEF PutInto
<1>3. IsFiniteSet(C2) /\ Cardinality(C2) = used'[m] /\ used'[m] \in Nat
  <2> HIDE DEF C, C2
  <2>1. /\ IsFiniteSet(C2)
        /\ Cardinality(C2) = IF <<m, k>> \in C THEN Cardinality(C) ELSE Cardinality(C) + 1
    BY <1>1, <1>2, FS_AddElement
  <2> QED
    BY <1>1, <1>2, <2>1
<1>4. /\ size'[m] \in Nat /\ used'[m] <= size'[m] \div 2 + 1
      /\ Good(entries'[m], size'[m], m)
      /\ size' = [j \in Map |-> IF j = m THEN size'[m] ELSE size[j]]
      /\ used' = [j \in Map |-> IF j = m THEN used'[m] ELSE used[j]]
      /\ entries' = [j \in Map |-> IF j = m THEN entries'[m] ELSE entries[j]]
  BY DEF PutInto
<1>5. /\ size' \in [Map -> Nat] /\ used' \in [Map -> Nat]
      /\ entries' = [j \in Map |-> entries'[j]]
      /\ \A j \in Map \ {m} :
           size'[j] = size[j] /\ used'[j] = used[j] /\ entries'[j] = entries[j]
  BY <1>1, <1>3, <1>4
<1>6. value' \in [Entry -> Datum \cup {Missing}]
  BY <1>1, <1>2
<1>7. ASSUME NEW j \in Map
      PROVE  /\ Good(entries'[j], size'[j], j)
             /\ IsFiniteSet(Content(entries'[j], size'[j]))
             /\ Cardinality(Content(entries'[j], size'[j])) = used'[j]
             /\ used'[j] <= size'[j] \div 2 + 1
  <2>1. CASE j = m
    BY <1>3, <1>4, <2>1
  <2>2. CASE j # m
    BY <1>5, <2>2 DEF MInv
  <2> QED
    BY <2>1, <2>2
<1> QED
  BY <1>5, <1>6, <1>7 DEF MInv

(* What every key is found to hold after a put.                              *)
LEMMA PutFound ==
  ASSUME MInv, NEW m \in Map, NEW k \in Key, NEW d \in Datum, PutInto(m, k, d), MInv'
  PROVE  \A j \in Map, x \in Key : Get(j, x)' = IF j = m /\ x = k THEN d ELSE Get(j, x)
<1> SUFFICES ASSUME NEW j \in Map, NEW x \in Key
             PROVE  Get(j, x)' = IF j = m /\ x = k THEN d ELSE Get(j, x)
  OBVIOUS
<1>1. Good(entries[j], size[j], j) /\ Good(entries'[j], size'[j], j)
  BY DEF MInv
<1>2. /\ Get(j, x) = Holding(entries[j], size[j], value, j, x)
      /\ Get(j, x)' = Holding(entries'[j], size'[j], value', j, x)
  BY <1>1, GetIs
<1> DEFINE C == Content(entries[j], size[j])
           C2 == Content(entries'[j], size'[j])
<1>3. /\ value' = [value EXCEPT ![<<m, k>>] = d]
      /\ value \in [Entry -> Datum \cup {Missing}] /\ <<m, k>> \in Entry
      /\ <<j, x>> \in Entry
  BY DEF PutInto, MInv, Entry
<1>4. j = m => C2 = C \cup {<<m, k>>}
  BY DEF PutInto
<1>5. j # m => C2 = C
  BY DEF PutInto
<1>6. /\ Get(j, x) = IF <<j, x>> \in C THEN value[<<j, x>>] ELSE Missing
      /\ Get(j, x)' = IF <<j, x>> \in C2 THEN value'[<<j, x>>] ELSE Missing
  BY <1>2 DEF Holding
<1> HIDE DEF C, C2
<1>7. CASE j = m /\ x = k
  BY <1>3, <1>4, <1>6, <1>7
<1>8. CASE ~ (j = m /\ x = k)
  <2>1. <<j, x>> # <<m, k>>
    BY <1>8
  <2>2. <<j, x>> \in C2 <=> <<j, x>> \in C
    BY <1>4, <1>5, <2>1
  <2>3. value'[<<j, x>>] = value[<<j, x>>]
    BY <1>3, <2>1
  <2> QED
    BY <1>6, <1>8, <2>2, <2>3
<1> QED
  BY <1>7, <1>8

(* The entries C renamed for the clone c.                                    *)
Renamed(C, c) == {<<c, e[2]>> : e \in C}

(* Where the clone c of a map has its entries.                               *)
Copied(E, s, c) == [b \in 1 .. s |-> [i \in 1 .. Len(E[b]) |-> <<c, E[b][i][2]>>]]

LEMMA CopiedGood ==
  ASSUME NEW E, NEW s, NEW m, Good(E, s, m), NEW c
  PROVE  /\ Good(Copied(E, s, c), s, c)
         /\ \A k : <<c, k>> \in Content(Copied(E, s, c), s) <=> <<m, k>> \in Content(E, s)
         /\ Content(Copied(E, s, c), s) = Renamed(Content(E, s), c)
<1> DEFINE U == Copied(E, s, c)
<1>1. s \in Nat /\ E \in [1 .. s -> Seq(Own(m))]
  BY DEF Good
<1>2. \A b \in 1 .. s : \A i \in 1 .. Len(E[b]) :
        E[b][i] \in Own(m) /\ E[b][i] = <<m, E[b][i][2]>> /\ E[b][i][2] \in Key
  BY <1>1, ElementOfSeq, OwnKeys
<1>3. ASSUME NEW b \in 1 .. s
      PROVE  /\ U[b] \in Seq(Own(c)) /\ Len(U[b]) = Len(E[b])
             /\ \A i \in 1 .. Len(E[b]) : U[b][i] = <<c, E[b][i][2]>>
  <2> DEFINE n == Len(E[b])
  <2>1. n \in Nat
    BY <1>1, LenProperties
  <2>2. U[b] = [i \in 1 .. n |-> <<c, E[b][i][2]>>]
    BY DEF Copied
  <2>3. U[b] \in [1 .. n -> Own(c)]
    BY <1>2, <2>2 DEF Own
  <2>4. U[b] \in Seq(Own(c))
    BY <2>1, <2>3, SeqDef
  <2> HIDE DEF n
  <2>5. Len(U[b]) = n
    BY <2>1, <2>3, <2>4, LenProperties
  <2> QED
    BY <2>2, <2>4, <2>5 DEF n
<1>4. U = [b \in 1 .. s |-> U[b]]
  BY DEF Copied
<1> HIDE DEF U
<1>5. U \in [1 .. s -> Seq(Own(c))]
  BY <1>3, <1>4
<1>6. \A b \in 1 .. s : \A i \in 1 .. Len(U[b]) : Bucket(U[b][i][2], s) = b
  BY <1>3 DEF Good
<1>7. \A b \in 1 .. s : \A i, j \in 1 .. Len(U[b]) : U[b][i] = U[b][j] => i = j
  <2> SUFFICES ASSUME NEW b \in 1 .. s, NEW i \in 1 .. Len(U[b]), NEW j \in 1 .. Len(U[b]),
                      U[b][i] = U[b][j]
               PROVE  i = j
    OBVIOUS
  <2>1. i \in 1 .. Len(E[b]) /\ j \in 1 .. Len(E[b]) /\ E[b][i][2] = E[b][j][2]
    BY <1>3
  <2>2. E[b][i] = E[b][j]
    BY <1>2, <2>1
  <2> QED
    BY <2>1, <2>2 DEF Good
<1>8. Good(U, s, c)
  BY <1>1, <1>5, <1>6, <1>7 DEF Good
<1>9. ASSUME NEW x
      PROVE  x \in Content(U, s) <=>
               \E b \in 1 .. s : \E i \in 1 .. Len(E[b]) : x = <<c, E[b][i][2]>>
  <2> DEFINE In(b) == \E i \in 1 .. Len(U[b]) : U[b][i] = x
             Of(b) == \E i \in 1 .. Len(E[b]) : x = <<c, E[b][i][2]>>
  <2>1. ASSUME NEW b \in 1 .. s PROVE In(b) <=> Of(b)
    BY <1>3
  <2>2. x \in Content(U, s) <=> \E b \in 1 .. s : In(b)
    BY ContentIs
  <2> HIDE DEF In
  <2> QED
    BY <2>1, <2>2
<1>10. ASSUME NEW k
       PROVE  <<c, k>> \in Content(U, s) <=> <<m, k>> \in Content(E, s)
  <2>1. \A b \in 1 .. s : \A i \in 1 .. Len(E[b]) :
          <<c, k>> = <<c, E[b][i][2]>> <=> E[b][i] = <<m, k>>
    BY <1>2
  <2>2. <<c, k>> \in Content(U, s) <=>
          \E b \in 1 .. s : \E i \in 1 .. Len(E[b]) : <<c, k>> = <<c, E[b][i][2]>>
    BY <1>9
  <2>3. <<c, k>> \in Content(U, s) <=>
          \E b \in 1 .. s : \E i \in 1 .. Len(E[b]) : E[b][i] = <<m, k>>
    BY <2>1, <2>2
  <2> QED
    BY <2>3, ContentIs
<1>11. Content(U, s) = Renamed(Content(E, s), c)
  <2>1. \A x : x \in Content(U, s) <=> \E e \in Content(E, s) : x = <<c, e[2]>>
    <3> SUFFICES ASSUME NEW x
                 PROVE  x \in Content(U, s) <=> \E e \in Content(E, s) : x = <<c, e[2]>>
      OBVIOUS
    <3>1. x \in Content(U, s) <=>
            \E b \in 1 .. s : \E i \in 1 .. Len(E[b]) : x = <<c, E[b][i][2]>>
      BY <1>9
    <3> QED
      BY <3>1, ContentIs
  <2> QED
    BY <2>1 DEF Renamed
<1> QED
  BY <1>8, <1>10, <1>11 DEF U

(* As many entries as the origin has, and as many keys.                      *)
LEMMA KeysCounted ==
  ASSUME NEW m, NEW C \in SUBSET Own(m), IsFiniteSet(C), NEW c
  PROVE  /\ Cardinality({e[2] : e \in C}) = Cardinality(C)
         /\ IsFiniteSet(Renamed(C, c))
         /\ Cardinality(Renamed(C, c)) = Cardinality(C)
<1> DEFINE K == {e[2] : e \in C}
           D == {<<c, e[2]>> : e \in C}
           f == [e \in C |-> e[2]]
           g == [e \in C |-> <<c, e[2]>>]
<1>1. \A e \in C : e = <<m, e[2]>>
  BY OwnKeys
<1>2. f \in Bijection(C, K)
  BY <1>1 DEF Bijection, Injection, IsInjective, Surjection
<1>3. g \in Bijection(C, D)
  BY <1>1 DEF Bijection, Injection, IsInjective, Surjection
<1> HIDE DEF K, D, f, g
<1>4. Cardinality(K) = Cardinality(C)
  BY <1>2, FS_Bijection DEF ExistsBijection
<1>5. IsFiniteSet(D) /\ Cardinality(D) = Cardinality(C)
  BY <1>3, FS_Bijection DEF ExistsBijection
<1> QED
  BY <1>4, <1>5 DEF K, D, Renamed

(* What every key is found to hold, if it is known of each map.              *)
LEMMA Mapped ==
  ASSUME NEW v, \A j \in Map, x \in Key : Get(j, x)' = v[j][x],
         v = [j \in Map |-> [x \in Key |-> v[j][x]]]
  PROVE  [j \in Map |-> [x \in Key |-> Get(j, x)]]' = v
OBVIOUS

(* GGC_MapPut.                                                               *)
LEMMA PutKept ==
  ASSUME MInv, NEW m \in Map, NEW k \in Key, NEW d \in Datum, MapPut(m, k, d)
  PROVE  MInv' /\ Kept!Put(m, k, d)
<1>1. PutInto(m, k, d)
  BY PutIs
<1>2. MInv'
  BY <1>1, PutKeeps
<1>3. \A j \in Map, x \in Key : Get(j, x)' = IF j = m /\ x = k THEN d ELSE Get(j, x)
  BY <1>1, <1>2, PutFound
<1> DEFINE old == [j \in Map |-> [x \in Key |-> Get(j, x)]]
           v == [old EXCEPT ![m][k] = d]
<1>4. \A j \in Map, x \in Key : Get(j, x)' = v[j][x]
  BY <1>3
<1>5. v = [j \in Map |-> [x \in Key |-> v[j][x]]]
  OBVIOUS
<1>6. old' = v
  <2> HIDE DEF v
  <2> QED
    BY <1>4, <1>5, Mapped
<1> QED
  BY <1>2, <1>6 DEF Kept!Put

(* GGC_MapClone.                                                             *)
LEMMA CloneKept ==
  ASSUME MInv, NEW m \in Map, NEW copy \in Map, MapClone(m, copy)
  PROVE  MInv' /\ Kept!Clone(m, copy)
<1> DEFINE E == entries[m]
           s == size[m]
           U == Copied(E, s, copy)
           C == Content(E, s)
<1>1. /\ m # copy
      /\ size' = [size EXCEPT ![copy] = s]
      /\ used' = [used EXCEPT ![copy] = used[m]]
      /\ entries' = [entries EXCEPT ![copy] = U]
      /\ value' = [e \in Entry |-> IF e[1] = copy THEN Get(m, e[2]) ELSE value[e]]
  BY DEF MapClone, Copied
<1>2. /\ size \in [Map -> Nat] /\ used \in [Map -> Nat]
      /\ entries = [j \in Map |-> entries[j]]
      /\ value \in [Entry -> Datum \cup {Missing}]
      /\ Good(E, s, m) /\ IsFiniteSet(C) /\ Cardinality(C) = used[m]
      /\ used[m] <= s \div 2 + 1
  BY DEF MInv
<1> HIDE DEF E, s
<1>3. /\ Good(U, s, copy)
      /\ \A k : <<copy, k>> \in Content(U, s) <=> <<m, k>> \in C
      /\ Content(U, s) = Renamed(C, copy)
  BY <1>2, CopiedGood
<1>4. C \in SUBSET Own(m)
  BY <1>2, ContentOwn
<1> HIDE DEF U, C
<1>5. IsFiniteSet(Content(U, s)) /\ Cardinality(Content(U, s)) = used[m]
  <2>1. /\ IsFiniteSet(Renamed(C, copy))
        /\ Cardinality(Renamed(C, copy)) = Cardinality(C)
    BY <1>2, <1>4, KeysCounted
  <2> QED
    BY <1>2, <1>3, <2>1
<1>6. /\ size' \in [Map -> Nat] /\ used' \in [Map -> Nat]
      /\ entries' = [j \in Map |-> entries'[j]]
      /\ size'[copy] = s /\ used'[copy] = used[m] /\ entries'[copy] = U
      /\ \A j \in Map \ {copy} :
           size'[j] = size[j] /\ used'[j] = used[j] /\ entries'[j] = entries[j]
  BY <1>1, <1>2 DEF s
<1>7. ASSUME NEW k \in Key
      PROVE  /\ Get(m, k) = IF <<m, k>> \in C THEN value[<<m, k>>] ELSE Missing
             /\ Get(m, k) \in Datum \cup {Missing}
  <2>1. Get(m, k) = Holding(E, s, value, m, k)
    BY <1>2, GetIs DEF E, s
  <2>2. <<m, k>> \in Entry
    BY DEF Entry
  <2> QED
    BY <1>2, <2>1, <2>2 DEF Holding, C
<1>8. value' \in [Entry -> Datum \cup {Missing}]
  <2>1. \A e \in Entry : e[2] \in Key
    BY DEF Entry
  <2>2. \A e \in Entry : value'[e] \in Datum \cup {Missing}
    BY <1>1, <1>2, <1>7, <2>1
  <2> QED
    BY <1>1, <2>2
<1>9. ASSUME NEW j \in Map
      PROVE  /\ Good(entries'[j], size'[j], j)
             /\ IsFiniteSet(Content(entries'[j], size'[j]))
             /\ Cardinality(Content(entries'[j], size'[j])) = used'[j]
             /\ used'[j] <= size'[j] \div 2 + 1
  <2>1. CASE j = copy
    BY <1>2, <1>3, <1>5, <1>6, <2>1
  <2>2. CASE j # copy
    BY <1>6, <2>2 DEF MInv
  <2> QED
    BY <2>1, <2>2
<1>10. MInv'
  BY <1>6, <1>8, <1>9 DEF MInv
<1>11. ASSUME NEW j \in Map, NEW k \in Key
       PROVE  Get(j, k)' = IF j = copy THEN Get(m, k) ELSE Get(j, k)
  <2>1. /\ Get(j, k) = Holding(entries[j], size[j], value, j, k)
        /\ Get(j, k)' = Holding(entries'[j], size'[j], value', j, k)
    BY <1>9, GetIs DEF MInv
  <2>2. <<j, k>> \in Entry /\ <<j, k>>[1] = j /\ <<j, k>>[2] = k
    BY DEF Entry
  <2>3. CASE j = copy
    <3>1. value'[<<j, k>>] = Get(m, k)
      BY <1>1, <2>2, <2>3
    <3>2. Get(j, k)' = IF <<copy, k>> \in Content(U, s) THEN value'[<<j, k>>] ELSE Missing
      BY <1>6, <2>1, <2>3 DEF Holding
    <3> QED
      BY <1>3, <1>7, <2>3, <3>1, <3>2
  <2>4. CASE j # copy
    <3>1. value'[<<j, k>>] = value[<<j, k>>]
      BY <1>1, <2>2, <2>4
    <3> QED
      BY <1>6, <2>1, <2>4, <3>1 DEF Holding
  <2> QED
    BY <2>3, <2>4
<1> DEFINE old == [j \in Map |-> [x \in Key |-> Get(j, x)]]
           v == [old EXCEPT ![copy] = old[m]]
<1>12. \A j \in Map, x \in Key : Get(j, x)' = v[j][x]
  BY <1>11
<1>13. v = [j \in Map |-> [x \in Key |-> v[j][x]]]
  OBVIOUS
<1>14. old' = v
  <2> HIDE DEF v
  <2> QED
    BY <1>12, <1>13, Mapped
<1> QED
  BY <1>10, <1>14 DEF Kept!Clone

(***************************************************************************)
(* What is proved of the maps                                              *)
(***************************************************************************)

LEMMA MapsInitially ==
  ASSUME MapsInit
  PROVE  MInv /\ Kept!Init
<1>1. /\ size = [m \in Map |-> 0] /\ used = [m \in Map |-> 0]
      /\ entries = [m \in Map |-> << >>] /\ value = [e \in Entry |-> Missing]
  BY DEF MapsInit
<1>2. \A m \in Map : << >> = Empty(size[m])
  BY <1>1 DEF Empty
<1>3. ASSUME NEW m \in Map
      PROVE  /\ Good(entries[m], size[m], m) /\ Content(entries[m], size[m]) = {}
             /\ size[m] = 0 /\ used[m] = 0
  BY <1>1, <1>2, EmptyGood
<1>4. \A m \in Map : used[m] <= size[m] \div 2 + 1
  BY <1>3
<1>5. MInv
  BY <1>1, <1>3, <1>4, FS_EmptySet DEF MInv
<1>6. ASSUME NEW m \in Map, NEW k \in Key PROVE Get(m, k) = Missing
  BY <1>3, GetIs DEF Holding
<1> QED
  BY <1>5, <1>6 DEF Kept!Init

LEMMA MapsStep ==
  ASSUME MInv, MapsNext
  PROVE  MInv' /\ Kept!Next
BY PutKept, CloneKept DEF MapsNext, Kept!Next

LEMMA MapsStutter ==
  ASSUME UNCHANGED mapVars
  PROVE  /\ MInv => MInv'
         /\ [m \in Map |-> [k \in Key |-> Get(m, k)]]'
              = [m \in Map |-> [k \in Key |-> Get(m, k)]]
BY DEF MInv, Get, mapVars

LEMMA MapsSound == MInv => MapsWellFormed
<1> SUFFICES ASSUME MInv PROVE MapsWellFormed
  OBVIOUS
<1>1. ASSUME NEW m \in Map
      PROVE  /\ Len(entries[m]) = size[m] /\ used[m] <= size[m] \div 2 + 1
             /\ \A b \in 1 .. size[m] : \A i \in 1 .. Len(entries[m][b]) :
                  /\ Bucket(entries[m][b][i][2], size[m]) = b
                  /\ \A j \in 1 .. Len(entries[m][b]) :
                       entries[m][b][i][2] = entries[m][b][j][2] => i = j
             /\ Cardinality({e[2] : e \in Members(m)}) = used[m]
             /\ Members(m) \subseteq Own(m)
  <2> DEFINE E == entries[m]
             s == size[m]
             C == Content(E, s)
  <2>1. /\ Good(E, s, m) /\ used[m] <= s \div 2 + 1
        /\ IsFiniteSet(C) /\ Cardinality(C) = used[m]
    BY DEF MInv
  <2> HIDE DEF E, s
  <2>2. Len(E) = s
    BY <2>1, TableLength
  <2>3. C \in SUBSET Own(m)
    BY <2>1, ContentOwn
  <2>4. Members(m) = C
    BY MembersAre DEF E, s
  <2>5. Cardinality({e[2] : e \in C}) = used[m]
    <3> HIDE DEF C
    <3> QED
      BY <2>1, <2>3, KeysCounted
  <2>6. ASSUME NEW b \in 1 .. s, NEW i \in 1 .. Len(E[b])
        PROVE  /\ Bucket(E[b][i][2], s) = b
               /\ \A j \in 1 .. Len(E[b]) : E[b][i][2] = E[b][j][2] => i = j
    <3>1. \A j \in 1 .. Len(E[b]) : E[b][j] \in Own(m)
      BY <2>1, ElementOfSeq DEF Good
    <3>2. \A j \in 1 .. Len(E[b]) : E[b][i][2] = E[b][j][2] => E[b][i] = E[b][j]
      BY <3>1, OwnKeys
    <3> QED
      BY <2>1, <3>2 DEF Good
  <2> QED
    BY <2>1, <2>2, <2>3, <2>4, <2>5, <2>6 DEF E, s
<1>2. \A m, n \in Map : m # n => Own(m) \cap Own(n) = {}
  BY DEF Own
<1> QED
  BY <1>1, <1>2 DEF MapsWellFormed

LEMMA MapsKept == MapsSpec => []MInv
<1>1. MapsInit => MInv
  BY MapsInitially
<1>2. MInv /\ [MapsNext]_mapVars => MInv'
  BY MapsStep, MapsStutter
<1> QED
  BY <1>1, <1>2, PTL DEF MapsSpec

(* However often a table grows and is cloned, every entry is where           *)
(* GGC_MapGet looks for it, there is one per key, and no two maps share one. *)
THEOREM MapsKeptWellFormed == MapsSpec => []MapsWellFormed
BY MapsKept, MapsSound, PTL

(* To whoever calls map.c a map is a function from keys to values: GGC_MapGet *)
(* finds what GGC_MapPut put there last, and a clone is a map of its own.    *)
THEOREM MapsImplemented == MapsSpec => MapsImplement
<1>1. MapsInit => Kept!Init
  BY MapsInitially
<1>2. MInv /\ [MapsNext]_mapVars
        => [Kept!Next]_([m \in Map |-> [k \in Key |-> Get(m, k)]])
  BY MapsStep, MapsStutter
<1>3. MInv => [MapsPromised]_mapVars
  BY PutKept, CloneKept DEF MapsPromised
<1> QED
  BY <1>1, <1>2, <1>3, MapsKept, PTL DEF MapsSpec, MapsImplement, Kept!Spec
=============================================================================
