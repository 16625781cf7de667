------------------------- MODULE DescriptorsProofs -------------------------
(***************************************************************************)
(* What is traced and what should be, for all types, classes and lengths   *)
(* of arrays and however many descriptors are made.                        *)
(***************************************************************************)
EXTENDS Descriptors, SequenceTheorems, FiniteSetTheorems, WellFoundedInduction,
        TLAPS

(* What is known of a descriptor by its kind.                                *)
OfType(d) ==
  /\ d.kind = "type" /\ d.size \in 1 .. 31
  /\ d.references \subseteq 1 .. d.size - 1
  /\ d.mask = d.references \cup {0}

OfClass(d) ==
  /\ d.kind = "class" /\ d.size \in 1 .. 30
  /\ d.references \subseteq 1 .. d.size - 1
  /\ d.mask = {k + 1 : k \in d.references} \cup {0}

OfPointers(d) ==
  /\ d.kind = "pointers" /\ d.size \in Nat /\ d.size > 1
  /\ {0, 1} \subseteq d.mask /\ 1 \notin d.references

OfData(d) == d.kind = "data" /\ d.mask = {} /\ d.references = {}

OfDescriptors(d) ==
  /\ d.kind = "descriptor" /\ d.size \in Nat /\ d.size > 1
  /\ d.mask = {0, 1} /\ d.references = {0, 1}

Known(d) ==
  OfType(d) \/ OfClass(d) \/ OfPointers(d) \/ OfData(d) \/ OfDescriptors(d)

IInv == descriptors \in Seq(Made) /\ \A d \in Made : Known(d)

(***************************************************************************)
(* What scan makes of a descriptor                                         *)
(***************************************************************************)

LEMMA Least ==
  ASSUME NEW S \in SUBSET Nat, S # {}
  PROVE  \E m \in S : \A n \in S : m <= n
<1>1. PICK m \in S : \A n \in S : ~ (<<n, m>> \in OpToRel(<, Nat))
  BY NatLessThanWellFounded, WFMin
<1>2. \A n \in S : ~ (n < m)
  BY <1>1 DEF OpToRel
<1> QED
  BY <1>2

(* Of a class the first member that is a reference is the one that is surely *)
(* not traced: the bits of all of them are those of later words.             *)
LEMMA ClassesTracedWrong ==
  ASSUME NEW d, OfClass(d), d.references # {}
  PROVE  Scanned(d) # {0} \cup d.references
<1>1. d.references \in SUBSET Nat
  BY DEF OfClass
<1>2. PICK m \in d.references : \A n \in d.references : m <= n
  BY <1>1, Least
<1>3. m # 0 /\ m \notin {k + 1 : k \in d.references} \cup {0}
  BY <1>1, <1>2 DEF OfClass
<1>4. m \notin Scanned(d)
  BY <1>3 DEF OfClass, Scanned
<1> QED
  BY <1>2, <1>4

LEMMA KnownIsTraced ==
  ASSUME NEW d, Known(d)
  PROVE  Scanned(d) = {0} \cup d.references <=>
           \/ d.kind \in {"descriptor", "type", "data"}
           \/ d.kind = "class" /\ d.references = {}
<1>1. CASE OfType(d)
  BY <1>1 DEF OfType, Scanned, BitsPerWord
<1>2. CASE OfClass(d)
  <2>1. d.references = {} => Scanned(d) = {0} \cup d.references
    BY <1>2 DEF OfClass, Scanned, BitsPerWord
  <2> QED
    BY <1>2, <2>1, ClassesTracedWrong DEF OfClass
<1>3. CASE OfPointers(d)
  <2>1. 1 \in Scanned(d)
    BY <1>3 DEF OfPointers, Scanned, BitsPerWord
  <2> QED
    BY <1>3, <2>1 DEF OfPointers
<1>4. CASE OfData(d)
  BY <1>4 DEF OfData, Scanned
<1>5. CASE OfDescriptors(d)
  BY <1>5 DEF OfDescriptors, Scanned, BitsPerWord
<1> QED
  BY <1>1, <1>2, <1>3, <1>4, <1>5 DEF Known

(***************************************************************************)
(* The table                                                               *)
(***************************************************************************)

LEMMA Words ==
  ASSUME NEW n \in Nat
  PROVE  WordsReq(n) \in Nat /\ (n > 0 => WordsReq(n) > 0)
BY DEF WordsReq, BitsPerWord

LEMMA UpIs ==
  ASSUME NEW n \in Nat
  PROVE  Up(n) \in Nat /\ Up(n) > 1
BY Words DEF Up, DescriptorSize

(* The calls that make a descriptor-descriptor are the first ones, until a   *)
(* size is in the table: if one finds its size there, so do all within it.   *)
LEMMA SizesIs ==
  ASSUME NEW size \in Nat, size > 1
  PROVE  \E k \in 0 .. 4 : /\ DOMAIN Sizes(size) = 1 .. k
                           /\ \A i \in 1 .. k : Sizes(size)[i] \in Nat /\ Sizes(size)[i] > 1
<1> DEFINE s == <<size, Up(size), Up(Up(size)), Up(Up(Up(size)))>>
           new == {i \in 1 .. 4 : /\ s[i] \notin DOMAIN table
                                  /\ \A j \in 1 .. i - 1 : s[j] \notin DOMAIN table /\ s[j] # s[i]}
<1>1. \A i \in 1 .. 4 : s[i] \in Nat /\ s[i] > 1
  <2>1. Up(size) \in Nat /\ Up(size) > 1
    BY UpIs
  <2>2. Up(Up(size)) \in Nat /\ Up(Up(size)) > 1
    BY <2>1, UpIs
  <2>3. Up(Up(Up(size))) \in Nat /\ Up(Up(Up(size))) > 1
    BY <2>2, UpIs
  <2>4. \A i \in 1 .. 4 : i = 1 \/ i = 2 \/ i = 3 \/ i = 4
    OBVIOUS
  <2> QED
    BY <2>1, <2>2, <2>3, <2>4
<1>2. s[2] = Up(s[1]) /\ s[3] = Up(s[2]) /\ s[4] = Up(s[3])
  OBVIOUS
<1> HIDE DEF s
<1>3. 2 \in new => 1 \in new
  OBVIOUS
<1>4. 3 \in new => 2 \in new
  BY <1>2
<1>5. 4 \in new => 3 \in new
  BY <1>2
<1>6. \E k \in 0 .. 4 : new = 1 .. k
  <2>1. CASE 4 \in new
    BY <1>3, <1>4, <1>5, <2>1
  <2>2. CASE 4 \notin new /\ 3 \in new
    BY <1>3, <1>4, <2>2
  <2>3. CASE 4 \notin new /\ 3 \notin new /\ 2 \in new
    BY <1>3, <2>3
  <2>4. CASE 4 \notin new /\ 3 \notin new /\ 2 \notin new
    BY <2>4
  <2> QED
    BY <2>1, <2>2, <2>3, <2>4
<1>7. Sizes(size) = [i \in new |-> s[i]]
  BY DEF Sizes, s
<1> HIDE DEF new
<1> QED
  BY <1>1, <1>6, <1>7

(* Every call appends the descriptor-descriptors it needs and then its own.  *)
LEMMA Kept ==
  ASSUME IInv, NEW kind, NEW size, NEW bits, NEW words, NEW before, NEW after,
         NEW maskWords \in Nat,
         maskWords = IF kind = "data" THEN 1 ELSE WordsReq(size),
         \A d : /\ d.kind = kind /\ d.size = size
                /\ d.mask = Mask(kind, bits) /\ d.references = words
                => Known(d),
         Allocate(kind, size, bits, words, before, after)
  PROVE  IInv'
<1> DEFINE length == DescriptorSize(maskWords)
           s == Sizes(length)
           t == Grown(length).table
           d == Descriptor(kind, size, Mask(kind, bits), words, length, t[length])
           new == [i \in DOMAIN s |->
                     Descriptor("descriptor", s[i], Description, Description, Up(s[i]), t[Up(s[i])])]
           All == Made \cup {new[i] : i \in DOMAIN s} \cup {d}
<1>1. length \in Nat /\ length > 1
  BY DEF DescriptorSize
<1>2. PICK k \in 0 .. 4 : /\ DOMAIN s = 1 .. k
                          /\ \A i \in 1 .. k : s[i] \in Nat /\ s[i] > 1
  BY <1>1, SizesIs
<1>3. descriptors' = Append(descriptors \o new, d)
  <2>1. length = DescriptorSize(IF kind = "data" THEN 1 ELSE WordsReq(size))
    OBVIOUS
  <2>2. descriptors' = Append(Grown(length).made, d)
    BY <2>1 DEF Allocate
  <2> HIDE DEF length
  <2>3. Grown(length).made = descriptors \o new
    BY DEF Grown
  <2> QED
    BY <2>2, <2>3
<1> HIDE DEF length, s, t
<1>4. \A e \in All : Known(e)
  <2>1. ASSUME NEW i \in 1 .. k PROVE Known(new[i])
    <3>1. /\ new[i].kind = "descriptor" /\ new[i].size = s[i]
          /\ new[i].mask = {0, 1} /\ new[i].references = {0, 1}
      BY <1>2 DEF Descriptor, Description
    <3> HIDE DEF new
    <3> QED
      BY <1>2, <3>1 DEF Known, OfDescriptors
  <2>2. Known(d)
    <3>1. /\ d.kind = kind /\ d.size = size
          /\ d.mask = Mask(kind, bits) /\ d.references = words
      BY DEF Descriptor
    <3> HIDE DEF d
    <3> QED
      BY <3>1
  <2> HIDE DEF new, d
  <2> QED
    BY <1>2, <2>1, <2>2 DEF IInv
<1>5. descriptors \in Seq(All) /\ new \in Seq(All) /\ d \in All
  <2>1. new \in [1 .. k -> All] /\ k \in Nat
    BY <1>2
  <2>2. new \in Seq(All)
    BY <2>1, SeqDef
  <2>3. descriptors \in [1 .. Len(descriptors) -> All] /\ Len(descriptors) \in Nat
    BY LenProperties DEF IInv
  <2> QED
    BY <2>2, <2>3, SeqDef
<1> HIDE DEF new, d, All
<1>6. descriptors \o new \in Seq(All)
  BY <1>5, ConcatProperties
<1>7. descriptors' \in Seq(All)
  BY <1>3, <1>5, <1>6, AppendProperties
<1>8. /\ descriptors' \in [1 .. Len(descriptors') -> All] /\ Len(descriptors') \in Nat
  BY <1>7, LenProperties
<1>9. \A e \in Made' : Known(e)
  BY <1>4, <1>8 DEF Made
<1>10. descriptors' \in [1 .. Len(descriptors') -> Made']
  BY <1>8 DEF Made
<1>11. descriptors' \in Seq(Made')
  BY <1>8, <1>10, SeqDef
<1> QED
  BY <1>9, <1>11 DEF IInv

LEMMA Initially == DescriptorsInit => IInv
BY EmptySeq DEF DescriptorsInit, IInv, Made

LEMMA ClassKnown ==
  ASSUME NEW d, NEW n \in 0 .. 29, NEW words \in SUBSET (1 .. n),
         d.kind = "class", d.size = n + 1, d.references = words,
         d.mask = {k + 1 : k \in words} \cup {0}
  PROVE  OfClass(d)
BY DEF OfClass

LEMMA Inductive == IInv /\ [DescriptorsNext]_descriptorVars => IInv'
<1> SUFFICES ASSUME IInv, [DescriptorsNext]_descriptorVars PROVE IInv'
  OBVIOUS
<1> USE DescriptorsAssumption
<1>1. ASSUME NEW t \in Types, Slot(t) PROVE IInv'
  <2>1. t.size \in 1 .. 31
    OBVIOUS
  <2>2. \A n \in 1 .. 31 : WordsReq(n) \in Nat
    BY Words
  <2>3. WordsReq(t.size) \in Nat
    BY <2>1, <2>2, Zenon
  <2>4. ASSUME NEW d, d.kind = "type", d.size = t.size,
               d.mask = Mask("type", t.pointers), d.references = t.pointers
        PROVE  Known(d)
    BY <2>4 DEF Known, OfType, Mask
  <2> QED
    BY <1>1, <2>3, <2>4, Kept DEF Slot
<1>2. ASSUME NEW c \in Classes, Class(c) PROVE IInv'
  <2>1. Len(c) \in 0 .. 29
    OBVIOUS
  <2>2. \A n \in 0 .. 29 : n + 1 \in 1 .. 30 /\ WordsReq(n + 1) \in Nat
    BY Words
  <2>3. ASSUME NEW d, d.kind = "class", d.size = Len(c) + 1,
               d.mask = Mask("class", ClassMask(c)), d.references = References(c)
        PROVE  Known(d)
    <3>1. References(c) \subseteq 1 .. Len(c)
      BY <2>1 DEF References
    <3>2. d.mask = {k + 1 : k \in References(c)} \cup {0}
      BY <2>3 DEF Mask, ClassMask
    <3> QED
      BY <2>1, <2>3, <3>1, <3>2, ClassKnown DEF Known
  <2> QED
    BY <1>2, <2>1, <2>2, <2>3, Kept DEF Class
<1>3. ASSUME NEW n \in Lengths, PointerArray(n) PROVE IInv'
  <2> DEFINE size == ArraySize(n)
             bits == (0 .. BitsPerWord * WordsReq(size) - 1) \ {2}
  <2>1. n \in Nat /\ size \in Nat /\ size > 1 /\ WordsReq(size) \in Nat /\ WordsReq(size) > 0
    BY Words DEF ArraySize
  <2>2. {0, 1} \subseteq bits
    BY <2>1 DEF BitsPerWord
  <2>3. ASSUME NEW d, d.kind = "pointers", d.size = size,
               d.mask = Mask("pointers", bits), d.references = 2 .. n + 1
        PROVE  Known(d)
    <3> HIDE DEF bits, size
    <3> QED
      BY <2>1, <2>2, <2>3 DEF Known, OfPointers, Mask
  <2> QED
    BY <1>3, <2>1, <2>3, Kept DEF PointerArray
<1>4. ASSUME NEW n \in Lengths, DataArray(n) PROVE IInv'
  <2>1. ASSUME NEW d, d.kind = "data", d.mask = Mask("data", {}), d.references = {}
        PROVE  Known(d)
    BY <2>1 DEF Known, OfData, Mask
  <2> QED
    BY <1>4, <2>1, Kept DEF DataArray
<1>5. CASE UNCHANGED descriptorVars
  BY <1>5 DEF descriptorVars, IInv, Made
<1> QED
  BY <1>1, <1>2, <1>3, <1>4, <1>5 DEF DescriptorsNext

(* For descriptors of descriptors, types and data arrays scan goes through   *)
(* the words that hold references; for no class with members of class type   *)
(* and for no array of pointers does it: setDescriptorPointer and            *)
(* allocateDescriptorPA are wrong for all of them.                           *)
THEOREM WordsTraced == DescriptorsSpec => []TracedExactly
<1>1. IInv => TracedExactly
  BY KnownIsTraced DEF IInv, TracedExactly
<1> QED
  BY <1>1, Initially, Inductive, PTL DEF DescriptorsSpec

(***************************************************************************)
(* What describes a descriptor, and what was made global                   *)
(***************************************************************************)

(* The variables that are made global. *)
Name == ({"table"} \X Nat) \cup ({"slot"} \X Types) \cup ({"class"} \X Classes)

Occurs(s, v) == \E i \in 1 .. Len(s) : s[i] = v
Once(s, v) == \E i \in 1 .. Len(s) : s[i] = v /\ \A j \in 1 .. Len(s) : s[j] = v => j = i

(* The table leads from the size of every descriptor-descriptor on to that   *)
(* of the one that describes it, and no descriptor has another header.       *)
Tabled ==
  /\ \A n \in DOMAIN table :
       /\ n \in Nat /\ Up(n) \in DOMAIN table
       /\ table[n] \in 1 .. Len(descriptors)
       /\ descriptors[table[n]].kind = "descriptor" /\ descriptors[table[n]].size = n
  /\ \A i \in 1 .. Len(descriptors) :
       /\ descriptors[i].length \in DOMAIN table
       /\ descriptors[i].header = table[descriptors[i].length]

(* A variable is made global when it gets its descriptor, never before and   *)
(* never again.                                                              *)
MadeGlobal ==
  /\ registered \in Seq(Name)
  /\ DOMAIN slots \subseteq Types
  /\ \A n \in Nat : IF n \in DOMAIN table THEN Once(registered, <<"table", n>>)
                    ELSE ~ Occurs(registered, <<"table", n>>)
  /\ \A t \in Types : IF t \in DOMAIN slots THEN Once(registered, <<"slot", t>>)
                      ELSE ~ Occurs(registered, <<"slot", t>>)

DInv == IInv /\ Tabled /\ MadeGlobal

(* Three times up from a size is 5, whose descriptor-descriptor describes    *)
(* itself: no array is longer than a pool, and no descriptor than 32773.     *)
MaxLength == 32773

LEMMA UpReachesFive ==
  ASSUME NEW n \in 2 .. MaxLength
  PROVE  /\ Up(n) \in 2 .. MaxLength /\ Up(Up(n)) \in 2 .. MaxLength
         /\ Up(Up(Up(n))) = 5 /\ Up(5) = 5
<1>1. Up(n) \in 5 .. 517
  <2>1. \A m \in Nat : m <= 32836 => m \div 64 <= 513
    BY SMTT(30)
  <2>2. \A m \in Nat : m >= 64 => m \div 64 >= 1 /\ m \div 64 \in Nat
    BY SMTT(30)
  <2>3. n + 63 \in Nat /\ n + 63 <= 32836 /\ n + 63 >= 64
    BY DEF MaxLength
  <2>4. (n + 63) \div 64 <= 513 /\ (n + 63) \div 64 >= 1 /\ (n + 63) \div 64 \in Nat
    BY <2>1, <2>2, <2>3
  <2>5. Up(n) = 4 + (n + 63) \div 64
    BY DEF Up, DescriptorSize, WordsReq, BitsPerWord, MaxLength
  <2> QED
    BY <2>4, <2>5
<1>2. \A m \in 5 .. 517 : Up(m) \in 5 .. 13
  BY DEF Up, DescriptorSize, WordsReq, BitsPerWord
<1>3. \A m \in 5 .. 13 : Up(m) = 5
  BY DEF Up, DescriptorSize, WordsReq, BitsPerWord
<1>4. Up(Up(n)) \in 5 .. 13
  BY <1>1, <1>2
<1> QED
  BY <1>1, <1>3, <1>4 DEF MaxLength

(* The sizes for which one is made are new and differ, and with them the     *)
(* table is closed again.                                                    *)
LEMMA SizesClose ==
  ASSUME NEW size \in 2 .. MaxLength, \A n \in DOMAIN table : Up(n) \in DOMAIN table
  PROVE  /\ \A i \in DOMAIN Sizes(size) :
              /\ Sizes(size)[i] \notin DOMAIN table
              /\ Up(Sizes(size)[i]) \in DOMAIN table
                   \cup {Sizes(size)[j] : j \in DOMAIN Sizes(size)}
              /\ \A j \in DOMAIN Sizes(size) : Sizes(size)[j] = Sizes(size)[i] => j = i
         /\ size \in DOMAIN table \cup {Sizes(size)[j] : j \in DOMAIN Sizes(size)}
<1> DEFINE s == <<size, Up(size), Up(Up(size)), Up(Up(Up(size)))>>
           new == {i \in 1 .. 4 : /\ s[i] \notin DOMAIN table
                                  /\ \A j \in 1 .. i - 1 : s[j] \notin DOMAIN table /\ s[j] # s[i]}
<1>1. s[1] = size /\ s[2] = Up(s[1]) /\ s[3] = Up(s[2]) /\ s[4] = Up(s[3]) /\ Up(s[4]) = s[4]
  BY UpReachesFive
<1>2. Sizes(size) = [i \in new |-> s[i]]
  BY DEF Sizes
<1> HIDE DEF s
<1>3. new \subseteq 1 .. 4
  OBVIOUS
<1>4. \A i \in new : s[i] \notin DOMAIN table
  OBVIOUS
<1>5. \A i, j \in new : s[i] = s[j] => i = j
  OBVIOUS
<1>6. \A i \in new, j \in 1 .. 4 : j <= i => j \in new
  <2>1. size \in Nat /\ size > 1
    BY DEF MaxLength
  <2>2. PICK k \in 0 .. 4 : DOMAIN Sizes(size) = 1 .. k
    BY <2>1, SizesIs
  <2>3. new = 1 .. k
    BY <1>2, <2>2
  <2> HIDE DEF new
  <2> QED
    BY <2>3
<1>7. ASSUME NEW i \in new PROVE Up(s[i]) \in DOMAIN table \cup {s[j] : j \in new}
  <2>1. CASE i = 4
    BY <1>1, <2>1
  <2>2. CASE i # 4
    <3>1. i + 1 \in 1 .. 4 /\ i \in 1 .. 4
      BY <1>3, <2>2
    <3>2. Up(s[i]) = s[i + 1]
      <4>1. i = 1 \/ i = 2 \/ i = 3
        BY <3>1
      <4> QED
        BY <1>1, <4>1
    <3>3. CASE i + 1 \in new
      BY <3>2, <3>3
    <3>4. CASE i + 1 \notin new /\ s[i + 1] \notin DOMAIN table
      <4>1. PICK j \in 1 .. (i + 1) - 1 : s[j] \in DOMAIN table \/ s[j] = s[i + 1]
        BY <3>1, <3>4
      <4>2. j \in new
        BY <1>3, <1>6, <3>1, <4>1
      <4> QED
        BY <1>4, <3>2, <4>1, <4>2
    <3> QED
      BY <3>2, <3>3, <3>4
  <2> QED
    BY <2>1, <2>2
<1>8. size \in DOMAIN table \cup {s[j] : j \in new}
  BY <1>1
<1> HIDE DEF new
<1> QED
  BY <1>2, <1>4, <1>5, <1>7, <1>8

(* The sequences with a variable in them, in one part or the other.          *)
LEMMA Occurrences ==
  ASSUME NEW S, NEW s \in Seq(S), NEW t \in Seq(S), NEW v
  PROVE  /\ ~ Occurs(s, v) /\ ~ Occurs(t, v) => ~ Occurs(s \o t, v)
         /\ Once(s, v) /\ ~ Occurs(t, v) => Once(s \o t, v)
         /\ ~ Occurs(s, v) /\ Once(t, v) => Once(s \o t, v)
<1> DEFINE c == s \o t
           m == Len(s)
           n == Len(t)
<1>1. m \in Nat /\ n \in Nat /\ Len(c) = m + n
  BY ConcatProperties, LenProperties
<1>2. \A i \in 1 .. m : c[i] = s[i]
  BY ConcatProperties, LenProperties
<1>3. \A i \in 1 .. m + n : i > m => c[i] = t[i - m] /\ i - m \in 1 .. n
  BY ConcatProperties, LenProperties
<1>4. \A i \in 1 .. n : c[i + m] = t[i] /\ i + m \in 1 .. m + n
  <2> TAKE i \in 1 .. n
  <2>1. i + m \in 1 .. m + n /\ i + m > m /\ (i + m) - m = i
    BY <1>1
  <2> HIDE DEF c, m, n
  <2> QED
    BY <1>3, <2>1
<1> HIDE DEF c, m, n
<1>5. \A i \in 1 .. m + n : i <= m \/ i > m
  BY <1>1
<1> SUFFICES /\ (~ \E i \in 1 .. m : s[i] = v) /\ (~ \E i \in 1 .. n : t[i] = v)
                  => ~ \E i \in 1 .. m + n : c[i] = v
             /\ Once(s, v) /\ ~ Occurs(t, v) => Once(c, v)
             /\ ~ Occurs(s, v) /\ Once(t, v) => Once(c, v)
  BY <1>1 DEF Occurs, c, m, n
<1>6. (~ \E i \in 1 .. m : s[i] = v) /\ (~ \E i \in 1 .. n : t[i] = v)
        => ~ \E i \in 1 .. m + n : c[i] = v
  BY <1>1, <1>2, <1>3, <1>5
<1>7. ASSUME Once(s, v), ~ Occurs(t, v) PROVE Once(c, v)
  <2>1. PICK i \in 1 .. m : s[i] = v /\ \A j \in 1 .. m : s[j] = v => j = i
    BY <1>7 DEF Once, m
  <2>2. \A j \in 1 .. n : t[j] # v
    BY <1>7 DEF Occurs, n
  <2>3. i \in 1 .. m + n /\ c[i] = v
    BY <1>1, <1>2, <2>1
  <2>4. \A j \in 1 .. m + n : c[j] = v => j = i
    BY <1>1, <1>2, <1>3, <1>5, <2>1, <2>2
  <2> QED
    BY <1>1, <2>3, <2>4 DEF Once
<1>8. ASSUME ~ Occurs(s, v), Once(t, v) PROVE Once(c, v)
  <2>1. PICK i \in 1 .. n : t[i] = v /\ \A j \in 1 .. n : t[j] = v => j = i
    BY <1>8 DEF Once, n
  <2>2. \A j \in 1 .. m : s[j] # v
    BY <1>8 DEF Occurs, m
  <2>3. i + m \in 1 .. m + n /\ c[i + m] = v
    BY <1>1, <1>4, <2>1
  <2>4. \A j \in 1 .. m + n : c[j] = v => j = i + m
    <3> TAKE j \in 1 .. m + n
    <3>1. CASE j <= m
      BY <1>1, <1>2, <2>2, <3>1
    <3>2. CASE j > m
      <4>1. c[j] = t[j - m] /\ j - m \in 1 .. n
        BY <1>3, <3>2
      <4>2. t[j - m] = v => j - m = i
        BY <2>1, <4>1
      <4> QED
        BY <1>1, <4>1, <4>2
    <3> QED
      BY <1>5, <3>1, <3>2
  <2> QED
    BY <1>1, <2>3, <2>4 DEF Once
<1> QED
  BY <1>6, <1>7, <1>8 DEF c

(* A call in all: s are the k sizes for which it makes descriptor-           *)
(* descriptors, which are followed by the one it was called for.             *)
Extended(k, s) ==
  /\ DOMAIN table' = DOMAIN table \cup {s[i] : i \in 1 .. k}
  /\ \A n \in DOMAIN table : table'[n] = table[n]
  /\ \A i \in 1 .. k :
       /\ s[i] \notin DOMAIN table /\ Up(s[i]) \in DOMAIN table'
       /\ \A j \in 1 .. k : s[j] = s[i] => j = i
       /\ table'[s[i]] = Len(descriptors) + i

Appended(k, s) ==
  LET N == Len(descriptors)
  IN  /\ Len(descriptors') = N + k + 1
      /\ \A i \in 1 .. N : descriptors'[i] = descriptors[i]
      /\ \A i \in 1 .. k :
           /\ descriptors'[N + i].kind = "descriptor" /\ descriptors'[N + i].size = s[i]
           /\ descriptors'[N + i].length = Up(s[i])
           /\ descriptors'[N + i].header = table'[Up(s[i])]
      /\ descriptors'[N + k + 1].length \in DOMAIN table'
      /\ descriptors'[N + k + 1].header = table'[descriptors'[N + k + 1].length]

NamesOf(k, s) == [i \in 1 .. k |-> <<"table", s[i]>>]
MadeGlobalBy(k, s, before, after) ==
  registered' = registered \o before \o NamesOf(k, s) \o after

LEMMA Allocated ==
  ASSUME DInv, NEW kind, NEW size, NEW bits, NEW words, NEW before, NEW after,
         NEW maskWords \in 1 .. MaxLength - 4,
         maskWords = IF kind = "data" THEN 1 ELSE WordsReq(size),
         Allocate(kind, size, bits, words, before, after)
  PROVE  \E k \in 0 .. 4 : \E s \in [1 .. k -> Nat] :
           /\ Extended(k, s) /\ Appended(k, s)
           /\ MadeGlobalBy(k, s, before, after)
<1> DEFINE length == DescriptorSize(maskWords)
           s == Sizes(length)
           t == Grown(length).table
           d == Descriptor(kind, size, Mask(kind, bits), words, length, t[length])
           new == [i \in DOMAIN s |->
                     Descriptor("descriptor", s[i], Description, Description, Up(s[i]), t[Up(s[i])])]
           N == Len(descriptors)
<1>1. length \in Nat /\ length > 1 /\ length \in 2 .. MaxLength
  <2>1. MaxLength \in Nat
    BY DEF MaxLength
  <2> QED
    BY <2>1 DEF DescriptorSize
<1>2. /\ descriptors' = Append(descriptors \o new, d) /\ table' = t
      /\ registered' = registered \o before \o [i \in DOMAIN s |-> <<"table", s[i]>>] \o after
  <2>1. length = DescriptorSize(IF kind = "data" THEN 1 ELSE WordsReq(size))
    OBVIOUS
  <2>2. /\ descriptors' = Append(Grown(length).made, d) /\ table' = t
        /\ registered' = registered \o before \o Grown(length).names \o after
    BY <2>1 DEF Allocate
  <2> HIDE DEF length
  <2>3. Grown(length).made = descriptors \o new
    BY DEF Grown
  <2>4. Grown(length).names = [i \in DOMAIN s |-> <<"table", s[i]>>]
    BY DEF Grown
  <2> QED
    BY <2>2, <2>3, <2>4
<1> HIDE DEF length
<1>3. PICK k \in 0 .. 4 : /\ DOMAIN s = 1 .. k
                          /\ \A i \in 1 .. k : s[i] \in Nat /\ s[i] > 1
  BY <1>1, SizesIs
<1>4. /\ \A i \in 1 .. k : /\ s[i] \notin DOMAIN table
                           /\ Up(s[i]) \in DOMAIN table \cup {s[j] : j \in 1 .. k}
                           /\ \A j \in 1 .. k : s[j] = s[i] => j = i
      /\ length \in DOMAIN table \cup {s[j] : j \in 1 .. k}
  <2>1. \A n \in DOMAIN table : Up(n) \in DOMAIN table
    BY DEF DInv, Tabled
  <2> QED
    BY <1>1, <1>3, <2>1, SizesClose
<1>5. s \in [1 .. k -> Nat]
  <2>1. s = [i \in DOMAIN s |-> s[i]]
    BY DEF Sizes
  <2> HIDE DEF s
  <2> QED
    BY <1>3, <2>1
<1>6. t = [n \in DOMAIN table \cup {s[i] : i \in DOMAIN s} |->
             IF n \in DOMAIN table THEN table[n] ELSE N + CHOOSE i \in DOMAIN s : s[i] = n]
  BY DEF Grown
<1> HIDE DEF t, s
<1>7. DOMAIN t = DOMAIN table \cup {s[i] : i \in 1 .. k}
  BY <1>3, <1>6
<1>8. \A n \in DOMAIN table : t[n] = table[n]
  BY <1>6
<1>9. ASSUME NEW i \in 1 .. k PROVE t[s[i]] = N + i
  <2>1. (CHOOSE j \in 1 .. k : s[j] = s[i]) = i
    BY <1>4
  <2> QED
    BY <1>3, <1>4, <1>6, <2>1
<1> DEFINE All == {descriptors[i] : i \in 1 .. N} \cup {new[i] : i \in 1 .. k} \cup {d}
<1>10. descriptors \in Seq(All) /\ new \in Seq(All) /\ d \in All /\ N \in Nat /\ Len(new) = k
  <2>1. new \in [1 .. k -> All] /\ k \in Nat
    BY <1>3
  <2>2. new \in Seq(All) /\ Len(new) = k
    BY <2>1, SeqDef, LenProperties
  <2>3. descriptors \in [1 .. N -> All] /\ N \in Nat
    BY LenProperties DEF DInv, IInv
  <2> QED
    BY <2>2, <2>3, SeqDef
<1>11. \A i \in 1 .. k : /\ new[i].kind = "descriptor" /\ new[i].size = s[i]
                         /\ new[i].length = Up(s[i]) /\ new[i].header = t[Up(s[i])]
  BY <1>3 DEF Descriptor
<1>12. d.length = length /\ d.header = t[length]
  BY DEF Descriptor
<1> HIDE DEF new, d, All
<1>13. /\ Len(descriptors') = N + k + 1
       /\ \A i \in 1 .. N : descriptors'[i] = descriptors[i]
       /\ \A i \in 1 .. k : descriptors'[N + i] = new[i]
       /\ descriptors'[N + k + 1] = d
  <2> DEFINE c == descriptors \o new
  <2>1. /\ c \in Seq(All) /\ Len(c) = N + k
        /\ \A i \in 1 .. N + k : c[i] = IF i <= N THEN descriptors[i] ELSE new[i - N]
    BY <1>10, ConcatProperties
  <2>2. \A i \in 1 .. k : N + i \in 1 .. N + k /\ ~ (N + i <= N) /\ (N + i) - N = i
    BY <1>3, <1>10
  <2>3. \A i \in 1 .. N : i \in 1 .. N + k /\ i <= N
    BY <1>3, <1>10
  <2> HIDE DEF c
  <2>4. /\ Len(Append(c, d)) = N + k + 1 /\ Append(c, d)[N + k + 1] = d
        /\ \A i \in 1 .. N + k : Append(c, d)[i] = c[i]
    BY <1>10, <2>1, AppendProperties
  <2>5. descriptors' = Append(c, d)
    BY <1>2 DEF c
  <2> HIDE DEF N
  <2> QED
    BY <2>1, <2>2, <2>3, <2>4, <2>5
<1> HIDE DEF N
<1> WITNESS k \in 0 .. 4
<1> WITNESS s \in [1 .. k -> Nat]
<1>14. MadeGlobalBy(k, s, before, after)
  BY <1>2, <1>3 DEF NamesOf, MadeGlobalBy
<1>15. DOMAIN table' = DOMAIN table \cup {s[i] : i \in 1 .. k} /\ length \in DOMAIN table'
  BY <1>2, <1>4, <1>7
<1>16. Extended(k, s)
  BY <1>2, <1>4, <1>8, <1>9, <1>15 DEF N, Extended
<1>17. Appended(k, s)
  BY <1>2, <1>11, <1>12, <1>13, <1>15 DEF N, Appended
<1> QED
  BY <1>14, <1>16, <1>17

LEMMA TabledKept ==
  ASSUME DInv, NEW kind, NEW size, NEW bits, NEW words, NEW before, NEW after,
         NEW maskWords \in 1 .. MaxLength - 4,
         maskWords = IF kind = "data" THEN 1 ELSE WordsReq(size),
         Allocate(kind, size, bits, words, before, after)
  PROVE  Tabled'
<1> DEFINE N == Len(descriptors)
<1>1. PICK k \in 0 .. 4 : \E s \in [1 .. k -> Nat] : Extended(k, s) /\ Appended(k, s)
  BY Allocated
<1>2. PICK s \in [1 .. k -> Nat] : Extended(k, s) /\ Appended(k, s)
  BY <1>1
<1>3. /\ DOMAIN table' = DOMAIN table \cup {s[i] : i \in 1 .. k}
      /\ \A n \in DOMAIN table : table'[n] = table[n]
      /\ \A i \in 1 .. k : Up(s[i]) \in DOMAIN table' /\ table'[s[i]] = N + i
      /\ Len(descriptors') = N + k + 1
      /\ \A i \in 1 .. N : descriptors'[i] = descriptors[i]
      /\ \A i \in 1 .. k :
           /\ descriptors'[N + i].kind = "descriptor"
           /\ descriptors'[N + i].size = s[i]
           /\ descriptors'[N + i].length = Up(s[i])
           /\ descriptors'[N + i].header = table'[Up(s[i])]
      /\ descriptors'[N + k + 1].length \in DOMAIN table'
      /\ descriptors'[N + k + 1].header = table'[descriptors'[N + k + 1].length]
  BY <1>2 DEF Extended, Appended
<1>4. N \in Nat
  BY LenProperties DEF DInv, IInv
<1>5. /\ \A n \in DOMAIN table :
           /\ n \in Nat /\ Up(n) \in DOMAIN table
           /\ table[n] \in 1 .. N
           /\ descriptors[table[n]].kind = "descriptor" /\ descriptors[table[n]].size = n
      /\ \A i \in 1 .. N :
           /\ descriptors[i].length \in DOMAIN table
           /\ descriptors[i].header = table[descriptors[i].length]
  BY DEF DInv, Tabled
<1> HIDE DEF N
<1>6. ASSUME NEW n \in DOMAIN table'
      PROVE  /\ n \in Nat /\ Up(n) \in DOMAIN table'
             /\ table'[n] \in 1 .. N + k + 1
             /\ descriptors'[table'[n]].kind = "descriptor" /\ descriptors'[table'[n]].size = n
  <2>1. CASE n \in DOMAIN table
    <3>1. n \in Nat /\ Up(n) \in DOMAIN table' /\ table'[n] = table[n] /\ table[n] \in 1 .. N
      BY <1>3, <1>5, <2>1
    <3>2. table[n] \in 1 .. N + k + 1
      BY <1>4, <3>1
    <3>3. descriptors'[table[n]] = descriptors[table[n]]
      BY <1>3, <3>1
    <3>4. descriptors[table[n]].kind = "descriptor" /\ descriptors[table[n]].size = n
      BY <1>5, <2>1
    <3> QED
      BY <3>1, <3>2, <3>3, <3>4
  <2>2. CASE n \notin DOMAIN table
    <3>1. PICK i \in 1 .. k : n = s[i]
      BY <1>3, <2>2
    <3>2. N + i \in 1 .. N + k + 1
      BY <1>4
    <3> QED
      BY <1>3, <3>1, <3>2
  <2> QED
    BY <2>1, <2>2
<1>7. ASSUME NEW i \in 1 .. N + k + 1
      PROVE  /\ descriptors'[i].length \in DOMAIN table'
             /\ descriptors'[i].header = table'[descriptors'[i].length]
  <2>1. CASE i \in 1 .. N
    <3>1. descriptors'[i] = descriptors[i]
      BY <1>3, <2>1
    <3>2. descriptors[i].length \in DOMAIN table
          /\ descriptors[i].header = table[descriptors[i].length]
      BY <1>5, <2>1
    <3>3. \A n \in DOMAIN table : n \in DOMAIN table' /\ table'[n] = table[n]
      BY <1>3
    <3> QED
      BY <3>1, <3>2, <3>3
  <2>2. CASE i \in N + 1 .. N + k
    <3> DEFINE j == i - N
    <3>1. j \in 1 .. k /\ N + j = i
      BY <1>4, <2>2
    <3> HIDE DEF j
    <3>2. descriptors'[N + j].length = Up(s[j])
          /\ descriptors'[N + j].header = table'[Up(s[j])] /\ Up(s[j]) \in DOMAIN table'
      BY <1>3, <3>1
    <3> QED
      BY <3>1, <3>2
  <2>3. CASE i = N + k + 1
    BY <1>3, <2>3
  <2> QED
    BY <1>4, <2>1, <2>2, <2>3
<1> QED
  BY <1>3, <1>6, <1>7 DEF Tabled

(* What is made global in a call is global once and nothing else is that was *)
(* not before: it finds no name a second time that is no class.              *)
LEMMA GlobalKept ==
  ASSUME NEW old \in Seq(Name), NEW before \in Seq(Name), NEW names \in Seq(Name),
         NEW after \in Seq(Name), NEW v
  PROVE  LET new == old \o before \o names \o after
         IN  /\ new \in Seq(Name)
             /\ (/\ ~ Occurs(old, v) /\ ~ Occurs(before, v)
                 /\ ~ Occurs(names, v) /\ ~ Occurs(after, v)) => ~ Occurs(new, v)
             /\ (/\ Once(old, v) /\ ~ Occurs(before, v)
                 /\ ~ Occurs(names, v) /\ ~ Occurs(after, v)) => Once(new, v)
             /\ (/\ ~ Occurs(old, v) /\ ~ Occurs(before, v)
                 /\ Once(names, v) /\ ~ Occurs(after, v)) => Once(new, v)
             /\ (/\ ~ Occurs(old, v) /\ ~ Occurs(before, v)
                 /\ ~ Occurs(names, v) /\ Once(after, v)) => Once(new, v)
<1>1. old \o before \in Seq(Name) /\ old \o before \o names \in Seq(Name)
      /\ old \o before \o names \o after \in Seq(Name)
  BY ConcatProperties
<1>2. /\ ~ Occurs(old, v) /\ ~ Occurs(before, v) => ~ Occurs(old \o before, v)
      /\ Once(old, v) /\ ~ Occurs(before, v) => Once(old \o before, v)
  BY Occurrences
<1> DEFINE a == old \o before
<1>3. /\ ~ Occurs(a, v) /\ ~ Occurs(names, v) => ~ Occurs(a \o names, v)
      /\ Once(a, v) /\ ~ Occurs(names, v) => Once(a \o names, v)
      /\ ~ Occurs(a, v) /\ Once(names, v) => Once(a \o names, v)
  BY <1>1, Occurrences
<1> DEFINE b == a \o names
<1>4. /\ ~ Occurs(b, v) /\ ~ Occurs(after, v) => ~ Occurs(b \o after, v)
      /\ Once(b, v) /\ ~ Occurs(after, v) => Once(b \o after, v)
      /\ ~ Occurs(b, v) /\ Once(after, v) => Once(b \o after, v)
  BY <1>1, Occurrences
<1> QED
  BY <1>1, <1>2, <1>3, <1>4, Zenon

(* The names of s, which differ.                                             *)
LEMMA NamesDiffer ==
  ASSUME NEW k \in 0 .. 4, NEW s \in [1 .. k -> Nat],
         \A i, j \in 1 .. k : s[j] = s[i] => j = i
  PROVE  LET names == [i \in 1 .. k |-> <<"table", s[i]>>]
         IN  /\ names \in Seq(Name)
             /\ \A i \in 1 .. k : Once(names, <<"table", s[i]>>)
             /\ \A v : (\A i \in 1 .. k : v # <<"table", s[i]>>) => ~ Occurs(names, v)
<1> DEFINE names == [i \in 1 .. k |-> <<"table", s[i]>>]
<1>1. names \in [1 .. k -> Name] /\ k \in Nat
  BY DEF Name
<1>2. names \in Seq(Name) /\ Len(names) = k
  BY <1>1, SeqDef, LenProperties
<1>3. ASSUME NEW i \in 1 .. k PROVE Once(names, <<"table", s[i]>>)
  <2>1. \A j \in 1 .. k : names[j] = <<"table", s[i]>> => j = i
    OBVIOUS
  <2>2. names[i] = <<"table", s[i]>>
    OBVIOUS
  <2> HIDE DEF names
  <2> QED
    BY <1>2, <2>1, <2>2 DEF Once
<1>4. ASSUME NEW v, \A i \in 1 .. k : v # <<"table", s[i]>> PROVE ~ Occurs(names, v)
  BY <1>2, <1>4 DEF Occurs
<1> QED
  BY <1>2, <1>3, <1>4

LEMMA Single ==
  ASSUME NEW x \in Name
  PROVE  /\ <<x>> \in Seq(Name) /\ Once(<<x>>, x)
         /\ \A v : v # x => ~ Occurs(<<x>>, v)
BY DEF Once, Occurs

LEMMA Nothing ==
  << >> \in Seq(Name) /\ \A v : ~ Occurs(<< >>, v)
BY DEF Occurs

(* A call makes what it adds to the table global, and what its caller does.  *)
LEMMA AllocateGlobal ==
  ASSUME DInv, NEW kind, NEW size, NEW bits, NEW words,
         NEW before \in Seq(Name), NEW after \in Seq(Name),
         \A n : ~ Occurs(before, <<"table", n>>) /\ ~ Occurs(after, <<"table", n>>),
         \A t : ~ Occurs(before, <<"slot", t>>),
         NEW maskWords \in 1 .. MaxLength - 4,
         maskWords = IF kind = "data" THEN 1 ELSE WordsReq(size),
         Allocate(kind, size, bits, words, before, after)
  PROVE  /\ registered' \in Seq(Name)
         /\ \A n \in Nat : IF n \in DOMAIN table' THEN Once(registered', <<"table", n>>)
                           ELSE ~ Occurs(registered', <<"table", n>>)
         /\ \A t : LET v == <<"slot", t>>
                   IN  /\ ~ Occurs(registered, v) /\ ~ Occurs(after, v) => ~ Occurs(registered', v)
                       /\ Once(registered, v) /\ ~ Occurs(after, v) => Once(registered', v)
                       /\ ~ Occurs(registered, v) /\ Once(after, v) => Once(registered', v)
<1>1. PICK k \in 0 .. 4 :
        \E s \in [1 .. k -> Nat] :
          /\ Extended(k, s) /\ Appended(k, s)
          /\ MadeGlobalBy(k, s, before, after)
  BY Allocated
<1>2. PICK s \in [1 .. k -> Nat] :
        /\ Extended(k, s)
        /\ registered' = registered \o before \o NamesOf(k, s) \o after
  BY <1>1 DEF MadeGlobalBy
<1> DEFINE names == NamesOf(k, s)
<1>3. /\ DOMAIN table' = DOMAIN table \cup {s[i] : i \in 1 .. k}
      /\ \A i \in 1 .. k : s[i] \notin DOMAIN table
      /\ \A i, j \in 1 .. k : s[j] = s[i] => j = i
  BY <1>2 DEF Extended
<1>4. /\ names \in Seq(Name)
      /\ \A i \in 1 .. k : Once(names, <<"table", s[i]>>)
      /\ \A v : (\A i \in 1 .. k : v # <<"table", s[i]>>) => ~ Occurs(names, v)
  BY <1>3, NamesDiffer DEF NamesOf
<1>5. /\ registered \in Seq(Name)
      /\ \A n \in Nat : IF n \in DOMAIN table THEN Once(registered, <<"table", n>>)
                        ELSE ~ Occurs(registered, <<"table", n>>)
  BY DEF DInv, MadeGlobal
<1>6. \A t : ~ Occurs(names, <<"slot", t>>)
  BY <1>4
<1>7. registered' = registered \o before \o names \o after
  BY <1>2
<1> HIDE DEF names
<1>8. ASSUME NEW n \in Nat
      PROVE  IF n \in DOMAIN table' THEN Once(registered', <<"table", n>>)
             ELSE ~ Occurs(registered', <<"table", n>>)
  <2> DEFINE v == <<"table", n>>
  <2>1. ~ Occurs(before, v) /\ ~ Occurs(after, v)
    OBVIOUS
  <2>2. CASE n \in DOMAIN table
    <3>1. Once(registered, v)
      BY <1>5, <2>2
    <3>2. \A i \in 1 .. k : v # <<"table", s[i]>>
      BY <1>3, <2>2
    <3>3. ~ Occurs(names, v)
      BY <1>4, <3>2
    <3>4. Once(registered', v)
      BY <1>4, <1>5, <1>7, <2>1, <3>1, <3>3, GlobalKept
    <3> QED
      BY <1>3, <2>2, <3>4
  <2>3. CASE n \notin DOMAIN table /\ n \in DOMAIN table'
    <3>1. ~ Occurs(registered, v)
      BY <1>5, <2>3
    <3>2. Once(names, v)
      BY <1>3, <1>4, <2>3
    <3>3. Once(registered', v)
      BY <1>4, <1>5, <1>7, <2>1, <3>1, <3>2, GlobalKept
    <3> QED
      BY <2>3, <3>3
  <2>4. CASE n \notin DOMAIN table'
    <3>1. ~ Occurs(registered, v)
      BY <1>3, <1>5, <2>4
    <3>2. \A i \in 1 .. k : v # <<"table", s[i]>>
      BY <1>3, <2>4
    <3>3. ~ Occurs(names, v)
      BY <1>4, <3>2
    <3>4. ~ Occurs(registered', v)
      BY <1>4, <1>5, <1>7, <2>1, <3>1, <3>3, GlobalKept
    <3> QED
      BY <2>4, <3>4
  <2> QED
    BY <1>3, <2>2, <2>3, <2>4
<1>9. ASSUME NEW t
      PROVE  LET v == <<"slot", t>>
             IN  /\ ~ Occurs(registered, v) /\ ~ Occurs(after, v) => ~ Occurs(registered', v)
                 /\ Once(registered, v) /\ ~ Occurs(after, v) => Once(registered', v)
                 /\ ~ Occurs(registered, v) /\ Once(after, v) => Once(registered', v)
  <2> DEFINE v == <<"slot", t>>
  <2>1. ~ Occurs(before, v) /\ ~ Occurs(names, v)
    BY <1>6
  <2> HIDE DEF v
  <2>2. /\ ~ Occurs(registered, v) /\ ~ Occurs(after, v) => ~ Occurs(registered', v)
        /\ Once(registered, v) /\ ~ Occurs(after, v) => Once(registered', v)
        /\ ~ Occurs(registered, v) /\ Once(after, v) => Once(registered', v)
    BY <1>4, <1>5, <1>7, <2>1, GlobalKept
  <2> QED
    BY <2>2 DEF v
<1>10. registered' \in Seq(Name)
  BY <1>4, <1>5, <1>7, GlobalKept
<1> QED
  BY <1>8, <1>9, <1>10

LEMMA OnceIsOne ==
  ASSUME NEW s, NEW v, Once(s, v)
  PROVE  Cardinality({i \in 1 .. Len(s) : s[i] = v}) = 1
<1>1. PICK i \in 1 .. Len(s) : s[i] = v /\ \A j \in 1 .. Len(s) : s[j] = v => j = i
  BY DEF Once
<1>2. {j \in 1 .. Len(s) : s[j] = v} = {i}
  BY <1>1
<1> QED
  BY <1>2, FS_Singleton

LEMMA DescribedHolds == DInv => Described
<1> SUFFICES ASSUME DInv PROVE Described
  OBVIOUS
<1>1. ASSUME NEW d \in Made
      PROVE  /\ d.header \in 1 .. Len(descriptors)
             /\ descriptors[d.header].kind = "descriptor"
             /\ descriptors[d.header].size = d.length
             /\ table[d.length] = d.header
  BY DEF DInv, Tabled, Made
<1>2. ASSUME NEW v \in ({"table"} \X DOMAIN table) \cup ({"slot"} \X DOMAIN slots)
      PROVE  Once(registered, v)
  <2>1. CASE v \in {"table"} \X DOMAIN table
    <3>1. PICK n \in DOMAIN table : v = <<"table", n>>
      BY <2>1
    <3>2. n \in Nat
      BY DEF DInv, Tabled
    <3> QED
      BY <3>1, <3>2 DEF DInv, MadeGlobal
  <2>2. CASE v \in {"slot"} \X DOMAIN slots
    <3>1. PICK t \in DOMAIN slots : v = <<"slot", t>>
      BY <2>2
    <3> QED
      BY <3>1 DEF DInv, MadeGlobal
  <2> QED
    BY <2>1, <2>2
<1> QED
  BY <1>1, <1>2, OnceIsOne DEF Described

LEMMA DescribedInitially == DescriptorsInit => DInv
<1> SUFFICES ASSUME DescriptorsInit PROVE DInv
  OBVIOUS
<1>1. Tabled
  BY DEF DescriptorsInit, Tabled
<1>2. MadeGlobal
  BY Nothing DEF DescriptorsInit, MadeGlobal
<1> QED
  BY <1>1, <1>2, Initially DEF DInv

(* What has a descriptor is no longer than a pool and a few words.           *)
LEMMA Fits ==
  ASSUME NEW w \in Nat, w > 31
  PROVE  /\ \A n \in 1 .. 31 : n \in Nat /\ n > 0 /\ n <= w + 2
         /\ \A n \in 0 .. 29 : n + 1 \in Nat /\ n + 1 > 0 /\ n + 1 <= w + 2
         /\ \A n \in 0 .. w : n + 2 \in Nat /\ n + 2 > 0 /\ n + 2 <= w + 2
OBVIOUS

(* Words of mask, of what is described.                                      *)
LEMMA MaskWords ==
  ASSUME NEW n \in Nat, n > 0, n <= WordsPerPool + 2
  PROVE  WordsReq(n) \in 1 .. MaxLength - 4
<1>1. \A m \in Nat : m <= 2097217 => m \div 64 <= 32769
  BY SMTT(30)
<1>2. \A m \in Nat : m >= 64 => m \div 64 >= 1 /\ m \div 64 \in Nat
  BY SMTT(30)
<1>3. n + 63 \in Nat /\ n + 63 <= 2097217 /\ n + 63 >= 64
  BY SMT DEF WordsPerPool
<1>4. (n + 63) \div 64 <= 32769 /\ (n + 63) \div 64 >= 1 /\ (n + 63) \div 64 \in Nat
  BY <1>1, <1>2, <1>3, SMT
<1>5. WordsReq(n) = (n + 63) \div 64
  BY DEF WordsReq, BitsPerWord
<1>6. MaxLength - 4 = 32769
  BY SMT DEF MaxLength
<1> QED
  BY <1>4, <1>5, <1>6, SMT

LEMMA MasksFit ==
  /\ \A t \in Types : WordsReq(t.size) \in 1 .. MaxLength - 4
  /\ \A c \in Classes : WordsReq(Len(c) + 1) \in 1 .. MaxLength - 4
  /\ \A n \in Lengths : WordsReq(ArraySize(n)) \in 1 .. MaxLength - 4
<1> DEFINE R == 1 .. MaxLength - 4
<1>1. \A n \in Nat : n > 0 /\ n <= WordsPerPool + 2 => WordsReq(n) \in R
  BY MaskWords
<1>2. WordsPerPool \in Nat /\ WordsPerPool > 31
  BY SMT DEF WordsPerPool
<1> HIDE DEF R
<1>3. \A n \in 1 .. 31 : WordsReq(n) \in R
  BY <1>1, <1>2, Fits
<1>4. \A n \in 0 .. 29 : WordsReq(n + 1) \in R
  BY <1>1, <1>2, Fits
<1>5. \A n \in 0 .. WordsPerPool : WordsReq(n + 2) \in R
  BY <1>1, <1>2, Fits
<1>6. \A t \in Types : WordsReq(t.size) \in R
  BY <1>3, DescriptorsAssumption
<1>7. \A c \in Classes : WordsReq(Len(c) + 1) \in R
  BY <1>4, DescriptorsAssumption
<1>8. \A n \in Lengths : WordsReq(ArraySize(n)) \in R
  BY <1>5, DescriptorsAssumption DEF ArraySize
<1> QED
  BY <1>6, <1>7, <1>8 DEF R

LEMMA DescribedKept == DInv /\ [DescriptorsNext]_descriptorVars => DInv'
<1> SUFFICES ASSUME DInv, [DescriptorsNext]_descriptorVars PROVE DInv'
  OBVIOUS
<1>1. /\ \A t \in Types : WordsReq(t.size) \in 1 .. MaxLength - 4
      /\ \A c \in Classes : WordsReq(Len(c) + 1) \in 1 .. MaxLength - 4
      /\ \A n \in Lengths : WordsReq(ArraySize(n)) \in 1 .. MaxLength - 4
  BY MasksFit
<1>2. IInv'
  BY Inductive DEF DInv
<1>3. /\ DOMAIN slots \subseteq Types
      /\ \A t \in Types : IF t \in DOMAIN slots THEN Once(registered, <<"slot", t>>)
                          ELSE ~ Occurs(registered, <<"slot", t>>)
  BY DEF DInv, MadeGlobal
<1>4. ASSUME NEW t \in Types, Slot(t) PROVE Tabled' /\ MadeGlobal'
  <2> DEFINE v == <<"slot", t>>
             words == WordsReq(t.size)
             after == <<v>>
  <2>1. words \in 1 .. MaxLength - 4
    BY <1>1
  <2>2. v \in Name
    BY DEF Name
  <2>3. /\ after \in Seq(Name) /\ Once(after, v)
        /\ \A n : ~ Occurs(after, <<"table", n>>)
        /\ \A u : u # t => ~ Occurs(after, <<"slot", u>>)
    <3>1. (\A n : <<"table", n>> # v) /\ \A u : u # t => <<"slot", u>> # v
      OBVIOUS
    <3> HIDE DEF v
    <3> QED
      BY <2>2, <3>1, Single
  <2>4. Allocate("type", t.size, t.pointers, t.pointers, << >>, after)
    BY <1>4 DEF Slot
  <2>5. /\ t \notin DOMAIN slots
        /\ slots' = [s \in DOMAIN slots \cup {t} |->
                       IF s = t THEN Len(descriptors') ELSE slots[s]]
    BY <1>4 DEF Slot
  <2>6. words = IF "type" = "data" THEN 1 ELSE WordsReq(t.size)
    OBVIOUS
  <2> HIDE DEF words, v, after
  <2>7. Tabled'
    BY <2>1, <2>4, <2>6, TabledKept
  <2>8. /\ registered' \in Seq(Name)
        /\ \A n \in Nat : IF n \in DOMAIN table' THEN Once(registered', <<"table", n>>)
                          ELSE ~ Occurs(registered', <<"table", n>>)
        /\ \A u : /\ ~ Occurs(registered, <<"slot", u>>) /\ ~ Occurs(after, <<"slot", u>>)
                       => ~ Occurs(registered', <<"slot", u>>)
                  /\ Once(registered, <<"slot", u>>) /\ ~ Occurs(after, <<"slot", u>>)
                       => Once(registered', <<"slot", u>>)
                  /\ ~ Occurs(registered, <<"slot", u>>) /\ Once(after, <<"slot", u>>)
                       => Once(registered', <<"slot", u>>)
    BY <2>1, <2>3, <2>4, <2>6, Nothing, AllocateGlobal
  <2>9. ASSUME NEW u \in Types
        PROVE  IF u \in DOMAIN slots' THEN Once(registered', <<"slot", u>>)
               ELSE ~ Occurs(registered', <<"slot", u>>)
    <3>1. CASE u = t
      BY <1>3, <2>3, <2>5, <2>8, <3>1 DEF v
    <3>2. CASE u # t
      BY <1>3, <2>3, <2>5, <2>8, <3>2
    <3> QED
      BY <3>1, <3>2
  <2>10. DOMAIN slots' \subseteq Types
    BY <1>3, <2>5
  <2> QED
    BY <2>7, <2>8, <2>9, <2>10 DEF MadeGlobal
(* The other calls leave the slots as they are. *)
<1>5. ASSUME NEW kind, NEW size, NEW bits, NEW words, NEW before \in Seq(Name),
             \A n : ~ Occurs(before, <<"table", n>>), \A t : ~ Occurs(before, <<"slot", t>>),
             NEW maskWords \in 1 .. MaxLength - 4,
             maskWords = IF kind = "data" THEN 1 ELSE WordsReq(size),
             Allocate(kind, size, bits, words, before, << >>), UNCHANGED slots
      PROVE  Tabled' /\ MadeGlobal'
  <2>1. Tabled'
    BY <1>5, TabledKept
  <2>2. /\ registered' \in Seq(Name)
        /\ \A n \in Nat : IF n \in DOMAIN table' THEN Once(registered', <<"table", n>>)
                          ELSE ~ Occurs(registered', <<"table", n>>)
        /\ \A t : LET v == <<"slot", t>>
                  IN  /\ ~ Occurs(registered, v) /\ ~ Occurs(<< >>, v) => ~ Occurs(registered', v)
                      /\ Once(registered, v) /\ ~ Occurs(<< >>, v) => Once(registered', v)
                      /\ ~ Occurs(registered, v) /\ Once(<< >>, v) => Once(registered', v)
    BY <1>5, Nothing, AllocateGlobal
  <2> QED
    BY <1>3, <1>5, <2>1, <2>2, Nothing DEF MadeGlobal
<1>6. ASSUME NEW c \in Classes, Class(c) PROVE Tabled' /\ MadeGlobal'
  <2> DEFINE v == <<"class", c>>
             before == <<v>>
             size == Len(c) + 1
  <2>1. WordsReq(size) \in 1 .. MaxLength - 4
    BY <1>1
  <2>2. v \in Name
    BY DEF Name
  <2>3. before \in Seq(Name) /\ \A n : ~ Occurs(before, <<"table", n>>)
        /\ ~ Occurs(before, <<"slot", n>>)
    <3>1. \A n : <<"table", n>> # v /\ <<"slot", n>> # v
      OBVIOUS
    <3> HIDE DEF v
    <3> QED
      BY <2>2, <3>1, Single
  <2>4. Allocate("class", size, ClassMask(c), References(c), before, << >>) /\ UNCHANGED slots
    BY <1>6 DEF Class
  <2>5. WordsReq(size) = IF "class" = "data" THEN 1 ELSE WordsReq(size)
    OBVIOUS
  <2> HIDE DEF before, size
  <2> QED
    BY <1>5, <2>1, <2>3, <2>4, <2>5
<1>7. ASSUME NEW n \in Lengths, PointerArray(n) PROVE Tabled' /\ MadeGlobal'
  <2> DEFINE size == ArraySize(n)
             bits == (0 .. BitsPerWord * WordsReq(size) - 1) \ {2}
  <2>1. WordsReq(size) \in 1 .. MaxLength - 4
    BY <1>1
  <2>2. Allocate("pointers", size, bits, 2 .. n + 1, << >>, << >>) /\ UNCHANGED slots
    BY <1>7 DEF PointerArray
  <2>3. WordsReq(size) = IF "pointers" = "data" THEN 1 ELSE WordsReq(size)
    OBVIOUS
  <2> HIDE DEF size, bits
  <2> QED
    BY <1>5, <2>1, <2>2, <2>3, Nothing
<1>8. ASSUME NEW n \in Lengths, DataArray(n) PROVE Tabled' /\ MadeGlobal'
  <2>1. 1 \in 1 .. MaxLength - 4 /\ 1 = IF "data" = "data" THEN 1 ELSE WordsReq(ArraySize(n))
    BY SMT DEF MaxLength
  <2>2. Allocate("data", ArraySize(n), {}, {}, << >>, << >>) /\ UNCHANGED slots
    BY <1>8 DEF DataArray
  <2> QED
    BY <1>5, <2>1, <2>2, Nothing
<1>9. CASE UNCHANGED descriptorVars
  BY <1>2, <1>9 DEF descriptorVars, DInv, Tabled, MadeGlobal
<1> QED
  BY <1>2, <1>4, <1>6, <1>7, <1>8, <1>9 DEF DescriptorsNext, DInv

(* However the table grows, every descriptor is described by one of its own  *)
(* length, and what leads to a descriptor is a root, once.                   *)
THEOREM DescriptorsDescribed == DescriptorsSpec => []Described
BY DescribedHolds, DescribedInitially, DescribedKept, PTL DEF DescriptorsSpec
=============================================================================
