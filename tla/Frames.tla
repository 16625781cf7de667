------------------------------- MODULE Frames -------------------------------
(***************************************************************************)
(* The pointer stack (GGC_PUSH_n of ggggc/push.h, GGGGC_POP of ggggc/gc.h, *)
(* ggggc_globalize of gc/roots.c): one linked list that begins in frames   *)
(* on the C stack and ends in copies made by malloc.  A frame's memory is  *)
(* used again by the next function at its depth.                           *)
(***************************************************************************)
EXTENDS Integers, Sequences

CONSTANTS
  Group,      \* groups of variables a function registers
  NoGroup,    \* what is in a frame that was never used
  MaxFrames,  \* functions running at once that registered some (bound)
  MaxCopies   \* calls of ggggc_globalize (bound)

ASSUME FramesAssumption ==
  NoGroup \notin Group /\ MaxFrames \in Nat /\ MaxCopies \in Nat

(* The addresses of frames: that of the function at depth i, the j-th copy,  *)
(* and NULL.                                                                 *)
Local(i) == i
Copied(j) == -j
NoFrame == 0
Frame == {Local(i) : i \in 1 .. MaxFrames} \cup {Copied(j) : j \in 1 .. MaxCopies}

VARIABLES
  pointerStack,         \* ggggc_pointerStack, where a collection starts
  pointerStackGlobals,  \* ggggc_pointerStackGlobals, the last copy
  link, pointers,       \* the members of each frame
  depth,                \* frames on the C stack
  copies                \* calls of ggggc_globalize so far

frameVars == <<pointerStack, pointerStackGlobals, link, pointers, depth, copies>>

FramesInit ==
  /\ pointerStack = NoFrame /\ pointerStackGlobals = NoFrame
  /\ link = [f \in Frame |-> NoFrame]
  /\ pointers = [f \in Frame |-> NoGroup]
  /\ depth = 0 /\ copies = 0

(* GGC_PUSH_n at the start of a function. *)
PushFrame(g) ==
  /\ depth < MaxFrames
  /\ link' = [link EXCEPT ![Local(depth + 1)] = pointerStack]
  /\ pointers' = [pointers EXCEPT ![Local(depth + 1)] = g]
  /\ pointerStack' = Local(depth + 1)
  /\ depth' = depth + 1
  /\ UNCHANGED <<pointerStackGlobals, copies>>

(* GGGGC_POP when it returns. *)
PopFrame ==
  /\ depth > 0
  /\ pointerStack' = link[pointerStack]
  /\ depth' = depth - 1
  /\ UNCHANGED <<pointerStackGlobals, link, pointers, copies>>

(* Where the list ends: the first call looks for the frame without a next    *)
(* one, later calls know the last copy.                                      *)
Live == {Local(i) : i \in 1 .. depth} \cup {Copied(j) : j \in 1 .. copies}

End ==
  IF pointerStackGlobals = NoFrame THEN CHOOSE f \in Live : link[f] = NoFrame
  ELSE pointerStackGlobals

(* Mutants of Globalize: the copy is made of the last frame; it follows the  *)
(* frame it was made from.                                                   *)
GlobalizeLast ==
  /\ depth > 0 /\ copies < MaxCopies
  /\ pointers' = [pointers EXCEPT ![Copied(copies + 1)] = pointers[End]]
  /\ link' = [link EXCEPT ![Copied(copies + 1)] = NoFrame, ![End] = Copied(copies + 1)]
  /\ pointerStackGlobals' = Copied(copies + 1)
  /\ copies' = copies + 1
  /\ UNCHANGED <<pointerStack, depth>>

GlobalizeAfterTop ==
  /\ depth > 0 /\ copies < MaxCopies
  /\ pointers' = [pointers EXCEPT ![Copied(copies + 1)] = pointers[pointerStack]]
  /\ link' = [link EXCEPT ![pointerStack] = Copied(copies + 1)]
  /\ pointerStackGlobals' = Copied(copies + 1)
  /\ copies' = copies + 1
  /\ UNCHANGED <<pointerStack, depth>>

(* ggggc_globalize in a function that registered variables. *)
Globalize ==
  /\ depth > 0 /\ copies < MaxCopies
  /\ pointers' = [pointers EXCEPT ![Copied(copies + 1)] = pointers[pointerStack]]
  /\ link' = [link EXCEPT ![Copied(copies + 1)] = NoFrame, ![End] = Copied(copies + 1)]
  /\ pointerStackGlobals' = Copied(copies + 1)
  /\ copies' = copies + 1
  /\ UNCHANGED <<pointerStack, depth>>

FramesNext == (\E g \in Group : PushFrame(g)) \/ PopFrame \/ Globalize

FramesSpec == FramesInit /\ [][FramesNext]_frameVars

(***************************************************************************)
(* Properties                                                              *)
(***************************************************************************)

(* The frames in the order a collection must meet them: those of the running *)
(* functions, innermost first, then the copies.                              *)
Nth(i) ==
  IF i <= depth THEN Local(depth + 1 - i)
  ELSE IF i <= depth + copies THEN Copied(i - depth) ELSE NoFrame

(* The loop of ggggc_collect, from ggggc_pointerStack on, meets them all in  *)
(* that order, and no frame of a function that has returned.                 *)
InOrder ==
  /\ pointerStack = Nth(1)
  /\ \A i \in 1 .. depth + copies : link[Nth(i)] = Nth(i + 1)

(* What it finds in them.                                                    *)
Running == [i \in 1 .. depth |-> pointers[Local(depth + 1 - i)]]
Globals == [j \in 1 .. copies |-> pointers[Copied(j)]]

Registered == INSTANCE RootList WITH
  frames <- Running, globals <- Globals

(* To the program the list is a stack and a growing sequence: a return       *)
(* forgets one frame and no global, a call of ggggc_globalize adds the       *)
(* caller's variables and loses nothing.                                     *)
FramesImplement == Registered!Spec
=============================================================================
