--------------------------- MODULE FramesProofs ---------------------------
(***************************************************************************)
(* A collection finds the frames of all functions that run, innermost      *)
(* first, and then every global, however deep the program is and however   *)
(* often it makes variables global.                                        *)
(***************************************************************************)
EXTENDS Frames, SequenceTheorems, TLAPS

(* The types of the list's variables; what was pushed or copied is a group.  *)
FramesTypeOK ==
  /\ depth \in 0 .. MaxFrames /\ copies \in 0 .. MaxCopies
  /\ link \in [Frame -> Int]
  /\ pointers \in [Frame -> Group \cup {NoGroup}]
  /\ \A i \in 1 .. depth : pointers[Local(i)] \in Group
  /\ \A j \in 1 .. copies : pointers[Copied(j)] \in Group

(* Where the list goes on after the frames of the running functions.         *)
FirstCopy == IF copies > 0 THEN Copied(1) ELSE NoFrame

(* The links one by one: InOrder without a name for the n-th frame.          *)
Links ==
  /\ pointerStack = IF depth > 0 THEN Local(depth) ELSE FirstCopy
  /\ pointerStackGlobals = IF copies > 0 THEN Copied(copies) ELSE NoFrame
  /\ \A i \in 1 .. depth : link[Local(i)] = IF i > 1 THEN Local(i - 1) ELSE FirstCopy
  /\ \A j \in 1 .. copies :
       link[Copied(j)] = IF j < copies THEN Copied(j + 1) ELSE NoFrame

IInv == FramesTypeOK /\ Links

USE FramesAssumption DEF Local, Copied, NoFrame

LEMMA FrameIs == Frame = (1 .. MaxFrames) \cup (-MaxCopies .. -1)
<1>1. \A j \in -MaxCopies .. -1 : -j \in 1 .. MaxCopies /\ j = -(-j)
  OBVIOUS
<1>2. \A j \in 1 .. MaxCopies : -j \in -MaxCopies .. -1
  OBVIOUS
<1>3. {-j : j \in 1 .. MaxCopies} = -MaxCopies .. -1
  BY <1>1, <1>2
<1>4. {i : i \in 1 .. MaxFrames} = 1 .. MaxFrames
  OBVIOUS
<1> QED
  BY <1>3, <1>4 DEF Frame

(* The frame the first call of ggggc_globalize finds is the outermost one.   *)
LEMMA EndIsLast ==
  ASSUME IInv, depth > 0
  PROVE  End = IF copies > 0 THEN Copied(copies) ELSE Local(1)
<1>1. CASE copies > 0
  BY <1>1 DEF IInv, FramesTypeOK, Links, End
<1>2. CASE copies = 0
  <2>1. Live = {i : i \in 1 .. depth} \cup {-j : j \in 1 .. 0}
    BY <1>2 DEF Live
  <2>2. \A f : f \in Live <=> f \in 1 .. depth
    BY <2>1
  <2>3. \A f \in Live : link[f] = 0 <=> f = 1
    BY <1>2, <2>2 DEF IInv, FramesTypeOK, Links, FirstCopy
  <2>4. 1 \in Live
    BY <2>2 DEF IInv, FramesTypeOK
  <2>5. (CHOOSE f \in Live : link[f] = 0) = 1
    BY <2>3, <2>4
  <2> QED
    BY <1>2, <2>5 DEF IInv, Links, End
<1> QED
  BY <1>1, <1>2 DEF IInv, FramesTypeOK

LEMMA Initially == FramesInit => IInv
BY FrameIs DEF FramesInit, IInv, FramesTypeOK, Links, FirstCopy

LEMMA Inductive == IInv /\ [FramesNext]_frameVars => IInv'
<1> SUFFICES ASSUME IInv, [FramesNext]_frameVars PROVE IInv'
  OBVIOUS
<1> USE FrameIs DEF IInv, FramesTypeOK, Links, FirstCopy
<1>1. ASSUME NEW g \in Group, PushFrame(g) PROVE IInv'
  BY <1>1 DEF PushFrame
<1>2. CASE PopFrame
  BY <1>2 DEF PopFrame
<1>3. CASE Globalize
  <2>1. End = IF copies > 0 THEN -copies ELSE 1
    BY <1>3, EndIsLast DEF Globalize
  <2>2. FramesTypeOK'
    BY <1>3, <2>1 DEF Globalize
  <2>3. Links'
    BY <1>3, <2>1 DEF Globalize
  <2> QED
    BY <2>2, <2>3
<1>4. CASE UNCHANGED frameVars
  BY <1>4 DEF frameVars
<1> QED
  BY <1>1, <1>2, <1>3, <1>4 DEF FramesNext

(* ggggc_collect, which follows the list from ggggc_pointerStack on, comes   *)
(* by every frame that is live and every copy, and by nothing else.          *)
THEOREM RootsInOrder == FramesSpec => []InOrder
<1>1. ASSUME IInv PROVE InOrder
  <2> USE <1>1 DEF IInv, FramesTypeOK, Links, FirstCopy
  <2>1. pointerStack = Nth(1)
    BY DEF Nth
  <2>2. ASSUME NEW i \in 1 .. depth PROVE link[Nth(i)] = Nth(i + 1)
    <3>1. depth + 1 - i \in 1 .. depth /\ Nth(i) = depth + 1 - i
      BY DEF Nth
    <3>2. Nth(i + 1) = IF i < depth THEN depth - i ELSE IF copies > 0 THEN -1 ELSE 0
      BY DEF Nth
    <3> QED
      BY <3>1, <3>2
  <2>3. ASSUME NEW i \in depth + 1 .. depth + copies PROVE link[Nth(i)] = Nth(i + 1)
    <3>1. i - depth \in 1 .. copies /\ Nth(i) = -(i - depth)
      BY DEF Nth
    <3>2. Nth(i + 1) = IF i - depth < copies THEN -(i - depth + 1) ELSE 0
      BY DEF Nth
    <3> QED
      BY <3>1, <3>2
  <2>4. \A i \in 1 .. depth + copies : i \in 1 .. depth \/ i \in depth + 1 .. depth + copies
    OBVIOUS
  <2> QED
    BY <2>1, <2>2, <2>3, <2>4 DEF InOrder
<1> QED
  BY <1>1, Initially, Inductive, PTL DEF FramesSpec

(***************************************************************************)
(* The list implements the stack and the sequence of globals.              *)
(***************************************************************************)

LEMMA Contents ==
  ASSUME IInv
  PROVE  /\ Running \in Seq(Group) /\ Len(Running) = depth
         /\ \A i \in 1 .. depth : Running[i] = pointers[depth + 1 - i]
         /\ Globals \in Seq(Group) /\ Len(Globals) = copies
         /\ \A j \in 1 .. copies : Globals[j] = pointers[-j]
<1> USE DEF IInv, FramesTypeOK
<1>1. Running \in [1 .. depth -> Group] /\ depth \in Nat
  BY DEF Running
<1>2. Globals \in [1 .. copies -> Group] /\ copies \in Nat
  BY DEF Globals
<1>3. Running \in Seq(Group) /\ Len(Running) = depth
  BY <1>1, SeqDef
<1>4. Globals \in Seq(Group) /\ Len(Globals) = copies
  BY <1>2, SeqDef
<1> QED
  BY <1>3, <1>4 DEF Running, Globals

LEMMA PushImplemented ==
  ASSUME IInv, IInv', NEW g \in Group, PushFrame(g)
  PROVE  Registered!Push(g)
<1>1. <<g>> \in Seq(Group) /\ Len(<<g>>) = 1 /\ <<g>>[1] = g
  OBVIOUS
<1>2. /\ <<g>> \o Running \in Seq(Group)
      /\ Len(<<g>> \o Running) = depth + 1
      /\ \A i \in 1 .. depth + 1 : (<<g>> \o Running)[i] = IF i <= 1 THEN g ELSE Running[i - 1]
  BY <1>1, Contents, ConcatProperties
<1>3. /\ Running' \in Seq(Group) /\ Len(Running') = depth + 1
      /\ \A i \in 1 .. depth + 1 : Running'[i] = pointers'[depth + 2 - i]
  BY Contents DEF PushFrame, Running, IInv, FramesTypeOK
<1>4. \A i \in 1 .. depth + 1 : Running'[i] = (<<g>> \o Running)[i]
  BY <1>2, <1>3, Contents, FrameIs DEF PushFrame, IInv, FramesTypeOK
<1>5. Running' = <<g>> \o Running
  BY <1>2, <1>3, <1>4, SeqEqual
<1>6. Globals' = Globals
  BY FrameIs DEF PushFrame, Globals, IInv, FramesTypeOK
<1> QED
  BY <1>5, <1>6 DEF Registered!Push

LEMMA PopImplemented ==
  ASSUME IInv, IInv', PopFrame
  PROVE  Registered!Pop
<1> USE DEF IInv, FramesTypeOK
<1>1. /\ Running' \in Seq(Group) /\ Len(Running') = depth - 1
      /\ \A i \in 1 .. depth - 1 : Running'[i] = pointers[depth - i]
  BY Contents DEF PopFrame, Running
<1>2. Running # << >>
  BY Contents DEF PopFrame
<1>3. /\ Tail(Running) \in Seq(Group) /\ Len(Tail(Running)) = depth - 1
      /\ \A i \in 1 .. depth - 1 : Tail(Running)[i] = Running[i + 1]
  BY <1>2, Contents, HeadTailProperties
<1>4. \A i \in 1 .. depth - 1 : Running'[i] = Tail(Running)[i]
  <2> SUFFICES ASSUME NEW i \in 1 .. depth - 1 PROVE Running'[i] = Tail(Running)[i]
    OBVIOUS
  <2>1. i + 1 \in 1 .. depth /\ depth + 1 - (i + 1) = depth - i
    OBVIOUS
  <2>2. Running[i + 1] = pointers[depth - i]
    BY <2>1, Contents
  <2> QED
    BY <1>1, <1>3, <2>2
<1>5. Running' = Tail(Running)
  BY <1>1, <1>3, <1>4, SeqEqual
<1>6. Globals' = Globals
  BY DEF PopFrame, Globals
<1> QED
  BY <1>2, <1>5, <1>6 DEF Registered!Pop

LEMMA Appended ==
  ASSUME NEW s \in Seq(Group), NEW g \in Group
  PROVE  /\ Append(s, g) \in Seq(Group) /\ Len(Append(s, g)) = Len(s) + 1
         /\ \A j \in 1 .. Len(s) : Append(s, g)[j] = s[j]
         /\ Append(s, g)[Len(s) + 1] = g
BY AppendProperties

LEMMA GlobalizeImplemented ==
  ASSUME IInv, IInv', Globalize
  PROVE  Registered!Globalize
<1> USE FrameIs DEF IInv, FramesTypeOK
<1>1. /\ Running # << >> /\ Head(Running) = pointers[depth] /\ Head(Running) \in Group
  BY Contents, HeadTailProperties DEF Globalize
<1>2. pointerStack = depth
  BY DEF Globalize, Links
<1>3. /\ Globals' \in Seq(Group) /\ Len(Globals') = copies + 1
      /\ \A j \in 1 .. copies + 1 : Globals'[j] = pointers'[-j]
  BY Contents DEF Globalize, Globals
<1>4. /\ Append(Globals, Head(Running)) \in Seq(Group)
      /\ Len(Append(Globals, Head(Running))) = copies + 1
      /\ \A j \in 1 .. copies : Append(Globals, Head(Running))[j] = Globals[j]
      /\ Append(Globals, Head(Running))[copies + 1] = Head(Running)
  <2>1. Globals \in Seq(Group) /\ Head(Running) \in Group
    BY <1>1, Contents
  <2>2. Len(Globals) = copies
    BY Contents
  <2>3. /\ Append(Globals, Head(Running)) \in Seq(Group)
        /\ Len(Append(Globals, Head(Running))) = Len(Globals) + 1
        /\ \A j \in 1 .. Len(Globals) : Append(Globals, Head(Running))[j] = Globals[j]
        /\ Append(Globals, Head(Running))[Len(Globals) + 1] = Head(Running)
    BY <2>1, Appended, Zenon
  <2> QED
    BY <2>2, <2>3, Zenon
<1>5. \A j \in 1 .. copies + 1 : Globals'[j] = Append(Globals, Head(Running))[j]
  <2>1. \A j \in 1 .. copies : pointers'[-j] = pointers[-j]
    BY DEF Globalize
  <2>2. pointers'[-(copies + 1)] = pointers[depth]
    BY <1>2 DEF Globalize
  <2>3. \A j \in 1 .. copies : Globals'[j] = Globals[j]
    BY <1>3, <2>1, Contents
  <2>4. Globals'[copies + 1] = Head(Running)
    <3>1. copies + 1 \in 1 .. copies + 1
      OBVIOUS
    <3>2. Globals'[copies + 1] = pointers'[-(copies + 1)]
      BY <1>3, <3>1
    <3> QED
      BY <1>1, <2>2, <3>2
  <2>5. \A j \in 1 .. copies + 1 : j \in 1 .. copies \/ j = copies + 1
    OBVIOUS
  <2> QED
    BY <1>4, <2>3, <2>4, <2>5
<1>6. Globals' = Append(Globals, Head(Running))
  BY <1>3, <1>4, <1>5, SeqEqual
<1>7. Running' = Running
  <2>1. \A i \in 1 .. depth : pointers'[depth + 1 - i] = pointers[depth + 1 - i]
    BY DEF Globalize
  <2> QED
    BY <2>1 DEF Globalize, Running
<1> QED
  BY <1>1, <1>6, <1>7 DEF Registered!Globalize

(* The one linked list is, to the program, a stack of the groups of the      *)
(* running functions and a growing sequence of global ones: whatever is made *)
(* global, a return forgets the returning function's group and nothing else. *)
THEOREM RootsImplemented == FramesSpec => FramesImplement
<1>1. FramesInit => Registered!Init
  <2> SUFFICES ASSUME FramesInit PROVE Registered!Init
    OBVIOUS
  <2>1. IInv /\ depth = 0 /\ copies = 0
    BY Initially DEF FramesInit
  <2> QED
    BY <2>1, Contents, EmptySeq DEF Registered!Init
<1>2. IInv /\ IInv' /\ [FramesNext]_frameVars => [Registered!Next]_<<Running, Globals>>
  <2> SUFFICES ASSUME IInv, IInv', [FramesNext]_frameVars
               PROVE  [Registered!Next]_<<Running, Globals>>
    OBVIOUS
  <2>1. ASSUME NEW g \in Group, PushFrame(g) PROVE Registered!Next
    BY <2>1, PushImplemented DEF Registered!Next
  <2>2. CASE PopFrame
    BY <2>2, PopImplemented DEF Registered!Next
  <2>3. CASE Globalize
    BY <2>3, GlobalizeImplemented DEF Registered!Next
  <2>4. CASE UNCHANGED frameVars
    BY <2>4 DEF frameVars, Running, Globals
  <2> QED
    BY <2>1, <2>2, <2>3, <2>4 DEF FramesNext
<1> QED
  BY <1>1, <1>2, Initially, Inductive, PTL DEF FramesSpec, FramesImplement, Registered!Spec
=============================================================================
