---------------------------- MODULE Descriptors ----------------------------
(***************************************************************************)
(* Descriptors, as gc/allocate.c makes them for types, arrays and LSR's    *)
(* classes, and as scan and forward (gc/collect.c) read them.  Each call   *)
(* is one step: what a collection does to the addresses in it is module    *)
(* Collector.  A mask is the set of its bits that are 1.                   *)
(***************************************************************************)
EXTENDS Integers, Sequences, FiniteSets

CONSTANTS
  Classes,         \* bodies of LSR classes: the types of the members in the
                   \* order of std::map
  Types,           \* types of the library: their size and the words of their pointers
  Lengths,         \* lengths of arrays, in words
  MaxDescriptors   \* descriptors ever made (bound)

BitsPerWord == 64
WordsPerPool == 2097152

(* A member's bit is computed as an int: bit 31 of it is the sign.  Neither  *)
(* a type nor a class reaches it here.                                       *)
ASSUME DescriptorsAssumption ==
  /\ \A c \in Classes : Len(c) \in 0 .. 29 /\ \A k \in 1 .. Len(c) : c[k] \in {"int", "class"}
  /\ \A t \in Types : t.size \in 1 .. 31 /\ t.pointers \subseteq 1 .. t.size - 1
  /\ Lengths \subseteq 0 .. WordsPerPool
  /\ MaxDescriptors \in Nat

VARIABLES
  descriptors,   \* the descriptors, in the order they were made
  table,         \* ggggc_descriptorDescriptors: where it has one, and which
  slots,         \* the descriptor in each slot that has one
  registered     \* what was made global, one after the other

descriptorVars == <<descriptors, table, slots, registered>>

DescriptorsInit ==
  /\ descriptors = << >> /\ table = << >> /\ slots = << >>
  /\ registered = << >>

(* GGGGC_DESCRIPTOR_WORDS_REQ, and the size of a descriptor of so many words *)
(* of mask: header, user pointer, size, and one word of mask more.           *)
WordsReq(size) == (size + BitsPerWord - 1) \div BitsPerWord
DescriptorSize(maskWords) == 4 + maskWords

Description == {0, 1}

(* A descriptor of kind kind for objects of a size, in whose mask bits are   *)
(* 1, though words is where the program keeps references; it has words       *)
(* length itself, and the descriptor header describes it.                    *)
Descriptor(kind, size, bits, words, length, header) ==
  [kind |-> kind, size |-> size, mask |-> bits, references |-> words,
   length |-> length, header |-> header]

(* The sizes for which ggggc_allocateDescriptorDescriptor is entered, one    *)
(* from within the other, until it finds one in the table.  All sizes up to  *)
(* 64 words need one of size 5, which describes itself.                      *)
Up(size) == DescriptorSize(WordsReq(size))

Sizes(size) ==
  LET s == <<size, Up(size), Up(Up(size)), Up(Up(Up(size)))>>
      new == {i \in 1 .. 4 : /\ s[i] \notin DOMAIN table
                             /\ \A j \in 1 .. i - 1 : s[j] \notin DOMAIN table /\ s[j] # s[i]}
  IN  [i \in new |-> s[i]]

(* Mutant of Grown: a descriptor-descriptor is described by the one for      *)
(* objects of the size it describes.                                         *)
GrownSameSize(size) ==
  LET s == Sizes(size)
      t == [n \in DOMAIN table \cup {s[i] : i \in DOMAIN s} |->
              IF n \in DOMAIN table THEN table[n]
              ELSE Len(descriptors) + CHOOSE i \in DOMAIN s : s[i] = n]
  IN  [table |-> t,
       made |-> descriptors \o [i \in DOMAIN s |->
                  Descriptor("descriptor", s[i], Description, Description, Up(s[i]), t[s[i]])],
       names |-> [i \in DOMAIN s |-> <<"table", s[i]>>]]

(* ggggc_allocateDescriptorDescriptor: the table and the descriptors with    *)
(* those made for size.                                                      *)
Grown(size) ==
  LET s == Sizes(size)
      t == [n \in DOMAIN table \cup {s[i] : i \in DOMAIN s} |->
              IF n \in DOMAIN table THEN table[n]
              ELSE Len(descriptors) + CHOOSE i \in DOMAIN s : s[i] = n]
  IN  [table |-> t,
       made |-> descriptors \o [i \in DOMAIN s |->
                  Descriptor("descriptor", s[i], Description, Description, Up(s[i]), t[Up(s[i])])],
       names |-> [i \in DOMAIN s |-> <<"table", s[i]>>]]

(* Mutant of Mask: the header's bit is left as the caller has it.            *)
MaskAsIs(kind, bits) == IF kind = "data" THEN {} ELSE bits

(* The mask of a new descriptor: the header is a pointer, unless nothing is. *)
Mask(kind, bits) == IF kind = "data" THEN {} ELSE bits \cup {0}

(* ggggc_allocateDescriptorL, when its caller makes the variables before and  *)
(* after global before and after the call.                                   *)
Allocate(kind, size, bits, words, before, after) ==
  LET length == DescriptorSize(IF kind = "data" THEN 1 ELSE WordsReq(size))
      grown == Grown(length)
  IN  /\ Len(descriptors) < MaxDescriptors
      /\ table' = grown.table
      /\ descriptors' = Append(grown.made,
           Descriptor(kind, size, Mask(kind, bits), words, length, grown.table[length]))
      /\ registered' = registered \o before \o grown.names \o after

(* ggggc_allocateDescriptorSlot: a slot has the mask GGC_PTR made.           *)
Slot(t) ==
  /\ t \notin DOMAIN slots
  /\ Allocate("type", t.size, t.pointers, t.pointers, << >>, << <<"slot", t>> >>)
  /\ slots' = [s \in DOMAIN slots \cup {t} |->
                 IF s = t THEN Len(descriptors') ELSE slots[s]]

(* The words getIndex gives to the members of a class that are references.   *)
References(c) == {k \in 1 .. Len(c) : c[k] # "int"}

(* setDescriptorPointer counts the member before it shifts.                  *)
ClassMask(c) == {k + 1 : k \in References(c)}

(* It makes the class's variable global before it has a descriptor.          *)
Class(c) ==
  /\ Allocate("class", Len(c) + 1, ClassMask(c), References(c), << <<"class", c>> >>, << >>)
  /\ UNCHANGED slots

(* An array has a header and its length before the elements.                 *)
ArraySize(n) == n + 2

(* ggggc_allocateDescriptorPA: all bits but that of the first element.       *)
PointerArray(n) ==
  /\ Allocate("pointers", ArraySize(n),
              (0 .. BitsPerWord * WordsReq(ArraySize(n)) - 1) \ {2},
              2 .. n + 1, << >>, << >>)
  /\ UNCHANGED slots

DataArray(n) ==
  /\ Allocate("data", ArraySize(n), {}, {}, << >>, << >>)
  /\ UNCHANGED slots

DescriptorsNext ==
  \/ \E t \in Types : Slot(t)
  \/ \E c \in Classes : Class(c)
  \/ \E n \in Lengths : PointerArray(n) \/ DataArray(n)

DescriptorsSpec == DescriptorsInit /\ [][DescriptorsNext]_descriptorVars

(* The words of an object of this descriptor that scan processes: it looks   *)
(* at the first word of the mask.                                            *)
Scanned(d) ==
  IF 0 \in d.mask
  THEN {z \in d.mask : z < d.size /\ z < BitsPerWord} ELSE {0}

(***************************************************************************)
(* Properties                                                              *)
(***************************************************************************)

Made == {descriptors[i] : i \in 1 .. Len(descriptors)}

(* Every descriptor is described by one that has its own length, by which    *)
(* forward copies it, and that is in the table; what is in the table or in a *)
(* slot was made global once: however the table grew, no collection loses or *)
(* cuts off a descriptor, and none meets one of those variables twice.       *)
Described ==
  /\ \A d \in Made :
       /\ d.header \in 1 .. Len(descriptors)
       /\ descriptors[d.header].kind = "descriptor"
       /\ descriptors[d.header].size = d.length
       /\ table[d.length] = d.header
  /\ \A v \in ({"table"} \X DOMAIN table) \cup ({"slot"} \X DOMAIN slots) :
       Cardinality({i \in 1 .. Len(registered) : registered[i] = v}) = 1

(* The words that hold references are the words that are traced, for         *)
(* descriptors of descriptors, types and data arrays; never for a class that *)
(* has references nor for an array of pointers, whose length is traced.      *)
TracedExactly ==
  \A d \in Made :
    Scanned(d) = {0} \cup d.references <=>
      \/ d.kind \in {"descriptor", "type", "data"}
      \/ d.kind = "class" /\ d.references = {}

(* What setDescriptorPointer is to achieve: a member that is no int is       *)
(* traced.                                                                   *)
ClassReferencesTraced ==
  \A d \in Made : d.kind = "class" => d.references \subseteq Scanned(d)
=============================================================================
