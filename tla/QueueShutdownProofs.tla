------------------------- MODULE QueueShutdownProofs -------------------------
(***************************************************************************)
(* Proofs about the end of a queue, for every number of calls of Push,      *)
(* wherever the networking thread is when exit(1) runs the destructor: it   *)
(* follows and deletes no deleted node before it deletes the last one, it   *)
(* leaves nothing behind, and it takes the values out as Pop does.          *)
(***************************************************************************)
EXTENDS QueueShutdown, MultiThreadSingleQueueProofs

LEMMA ShutdownInitInv == ShutdownInit => ShutdownInv
<1> SUFFICES ASSUME ShutdownInit PROVE ShutdownInv
  OBVIOUS
<1>1. QueueInv
  BY InitInv DEF ShutdownInit
<1> QED
  BY <1>1 DEF ShutdownInv, ShutdownInit, Init, QueueInv

(* A Push beside the destructor.                                           *)
LEMMA PushesInv ==
  ASSUME ShutdownInv, Pushes
  PROVE  ShutdownInv'
<1> USE DEF Pushes
<1>1. (\E v \in Values : PushAllocate(v)) \/ PushStep
  OBVIOUS
<1>2. ListInv'
  BY <1>1, ListPushStep DEF ShutdownInv
<1>3. UNCHANGED <<freed, pHeadNode, popPc>>
  BY <1>1 DEF PushAllocate, PushStep, PushLink, PushSwing, IncrementLoad, IncrementStore,
              listVars, popVars
<1>4. FreedBehindHead' = FreedBehindHead
  BY <1>3 DEF FreedBehindHead
<1>5. overlapped' \in BOOLEAN /\ (shutdown' \in {"empty", "deleted"} => overlapped')
  OBVIOUS
<1> QED
  BY <1>2, <1>3, <1>4, <1>5 DEF ShutdownInv

(* A Push that goes astray touches nothing the model knows of.             *)
LEMMA PushDanglesInv ==
  ASSUME ShutdownInv, PushDangles
  PROVE  ShutdownInv'
<1> USE DEF PushDangles
<1>1. ListInv'
  BY StutterInv DEF ShutdownInv
<1> QED
  BY <1>1 DEF ShutdownInv, queueVars, listVars, popVars

(* The destructor's own steps.                                             *)
LEMMA CallsPopInv ==
  ASSUME ShutdownInv, CallsPop
  PROVE  ShutdownInv'
<1> USE DEF CallsPop, listVars, pushVars
<1>1. LastLinked' = LastLinked /\ pNewNode' = pNewNode
  BY DEF LastLinked, pNewNode
<1>2. ListInv'
  BY <1>1 DEF ShutdownInv, ListInv, TypeOK, ListShape, PopLocals, PoppedInOrder
<1>3. FreedBehindHead'
  BY DEF ShutdownInv, FreedBehindHead
<1> QED
  BY <1>2, <1>3 DEF ShutdownInv

LEMMA RunsPopInv ==
  ASSUME ShutdownInv, RunsPop
  PROVE  ShutdownInv'
<1>1. ListInv' /\ FreedBehindHead'
  BY ListPopStep, FreedPopStep DEF ShutdownInv, RunsPop
<1>2. CASE popPc = "read" /\ pNextNode[pHeadNode] = NULL
  <2>1. shutdown' = "empty" /\ PopEmpty
    BY <1>2 DEF RunsPop, PopStep, PopEmpty, PopRead, PopValue, PopSwing, DecrementLoad,
                DecrementStore, PopDelete
  <2>2. pHeadNode = LastLinked
    BY <1>2, MaxPushAssumption
       DEF ShutdownInv, ListInv, ListShape, TypeOK, Nodes, NULL, LastLinked, pNewNode
  <2>3. popPc' = "idle" /\ pHeadNode' = LastLinked'
    BY <2>1, <2>2 DEF PopEmpty, LastLinked, pNewNode, listVars, pushVars
  <2> QED
    BY <1>1, <2>1, <2>3 DEF ShutdownInv, RunsPop
<1>3. CASE ~(popPc = "read" /\ pNextNode[pHeadNode] = NULL)
  BY <1>1, <1>3 DEF ShutdownInv, RunsPop
<1> QED
  BY <1>2, <1>3

LEMMA DeletesHeadInv ==
  ASSUME ShutdownInv, DeletesHead
  PROVE  ShutdownInv'
<1> USE DEF DeletesHead, pushVars, popVars
<1>1. LastLinked' = LastLinked /\ pNewNode' = pNewNode
  BY DEF LastLinked, pNewNode
<1>2. pHeadNode \in Nat /\ pHeadNode \in Nodes /\ freed = 0 .. pHeadNode - 1
  BY MaxPushAssumption DEF ShutdownInv, ListInv, TypeOK, FreedBehindHead, Nodes
<1>3. freed' = 0 .. pHeadNode
  BY <1>2
<1>4. ListInv'
  BY <1>1, <1>2 DEF ShutdownInv, ListInv, TypeOK, ListShape, PopLocals, PoppedInOrder
<1> QED
  BY <1>1, <1>3, <1>4 DEF ShutdownInv

LEMMA EndInv ==
  ASSUME ShutdownInv, ProcessEnds \/ UNCHANGED shutdownVars
  PROVE  ShutdownInv'
<1> USE DEF ProcessEnds, shutdownVars
<1>1. UNCHANGED queueVars
  OBVIOUS
<1>2. ListInv' /\ LastLinked' = LastLinked /\ FreedBehindHead' = FreedBehindHead
  BY <1>1, StutterInv
     DEF ShutdownInv, queueVars, listVars, pushVars, popVars, LastLinked, pNewNode, FreedBehindHead
<1> QED
  BY <1>2 DEF ShutdownInv, queueVars, listVars, popVars

(* The list keeps its shape to the end, the counter put aside: what is      *)
(* behind the head is deleted once, and the head last.                     *)
THEOREM ShutdownInvariant == ShutdownSpec => []ShutdownInv
<1>1. ShutdownInit => ShutdownInv
  BY ShutdownInitInv
<1>2. ShutdownInv /\ [ShutdownNext]_shutdownVars => ShutdownInv'
  BY PushesInv, PushDanglesInv, CallsPopInv, RunsPopInv, DeletesHeadInv, EndInv DEF ShutdownNext, ExitStep
<1> QED
  BY <1>1, <1>2, PTL DEF ShutdownSpec

(* Up to the deletion of the last node neither the destructor nor a Push    *)
(* beside it uses a deleted node, and that node was not deleted before.    *)
THEOREM DestructorSafety == ShutdownSpec => []SafeUntilHeadIsDeleted
<1>1. ShutdownInv => SafeUntilHeadIsDeleted
  BY SafeList, MaxPushAssumption
     DEF ShutdownInv, SafeUntilHeadIsDeleted, FreedBehindHead, ListInv, TypeOK, Nodes
<1> QED
  BY <1>1, ShutdownInvariant, PTL

(* Every node that was ever allocated is deleted, when no Push overlaps.    *)
THEOREM DestructorDeletesAll == ShutdownSpec => []NothingLeaks
<1>1. ShutdownInv => NothingLeaks
  BY DEF ShutdownInv, NothingLeaks, LastLinked
<1> QED
  BY <1>1, ShutdownInvariant, PTL

(* A Push during the shutdown still adds its value at the end, and the      *)
(* destructor takes the values out in order, each of them once, whatever    *)
(* the state of the counter: the queue is a queue until the process ends or *)
(* a Push stores through the deleted head, where the behaviour is undefined *)
(* and the model, which stops there, claims nothing more.                  *)
THEOREM ShutdownRefinement == ShutdownSpec => ImplementsFifo
<1>1. ShutdownInit => F!Init
  BY MaxPushAssumption DEF ShutdownInit, Init, F!Init, Items, Queued, LastLinked, pNewNode
<1>2. ShutdownInv /\ [ShutdownNext]_shutdownVars => [F!Next]_F!fifoVars
  <2> SUFFICES ASSUME ShutdownInv, [ShutdownNext]_shutdownVars
               PROVE  F!Next \/ UNCHANGED <<Items, popped>>
    BY DEF F!fifoVars
  <2>1. CASE Pushes \/ RunsPop
    <3>1. [Next]_queueVars
      BY <2>1 DEF Pushes, RunsPop, Next
    <3> QED
      BY <3>1, PushLinkRefines, PopSwingRefines, OtherStepsStutter DEF F!Next, ShutdownInv
  <2>2. CASE CallsPop \/ DeletesHead \/ ProcessEnds \/ PushDangles \/ UNCHANGED shutdownVars
    <3>1. UNCHANGED <<pHeadNode, pValuePointer, LastLinked, popped>>
      BY <2>2 DEF CallsPop, DeletesHead, ProcessEnds, PushDangles, shutdownVars, queueVars, listVars, pushVars,
                  popVars, LastLinked, pNewNode
    <3> QED
      BY <3>1 DEF Items, Queued
  <2> QED
    BY <2>1, <2>2 DEF ShutdownNext, ExitStep
<1> QED
  BY <1>1, <1>2, ShutdownInvariant, PTL DEF ShutdownSpec, ImplementsFifo, F!Spec
=============================================================================
