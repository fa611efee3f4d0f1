-------------------- MODULE MultiThreadSingleQueueProofs --------------------
(***************************************************************************)
(* Proofs about the unlocked queue, for every number of calls of Push and  *)
(* every set of values: the inductive invariant, memory safety, the sign   *)
(* of the counter, and the refinement of the abstract queue Fifo.          *)
(***************************************************************************)
EXTENDS MultiThreadSingleQueue, TLAPS

LEMMA InitInv == Init => QueueInv
<1> SUFFICES ASSUME Init PROVE QueueInv
  OBVIOUS
<1> USE MaxPushAssumption DEF Init, Nodes, NULL
<1>1. TypeOK
  BY DEF TypeOK
<1>2. ListShape
  BY DEF ListShape, LastLinked, pNewNode
<1>3. PopLocals /\ FreedBehindHead /\ PoppedInOrder /\ CountInv
  BY DEF PopLocals, FreedBehindHead, PoppedInOrder, CountInv
<1> QED
  BY <1>1, <1>2, <1>3 DEF QueueInv, ListInv

(* The list: one lemma per step of the network thread.                     *)

LEMMA PushAllocateInv ==
  ASSUME ListInv, NEW v \in Values, PushAllocate(v)
  PROVE  ListInv'
<1> USE MaxPushAssumption DEF ListInv, PushAllocate, popVars, Nodes, NULL
<1>1. /\ pValuePointer' \in Seq(Values)
      /\ Len(pValuePointer') = Len(pValuePointer) + 1
      /\ \A i \in 1 .. Len(pValuePointer) : pValuePointer'[i] = pValuePointer[i]
  BY DEF TypeOK
<1>2. TypeOK'
  BY <1>1 DEF TypeOK
<1>3. LastLinked' = LastLinked /\ LastLinked = Len(pValuePointer)
  BY <1>1 DEF TypeOK, LastLinked, pNewNode
<1>4. ListShape'
  BY <1>1, <1>3 DEF TypeOK, ListShape, pNewNode
<1>5. PopLocals'
  BY <1>1, <1>3 DEF TypeOK, PopLocals
<1>6. PoppedInOrder'
  BY <1>1, <1>3 DEF TypeOK, PoppedInOrder, ListShape
<1> QED
  BY <1>2, <1>4, <1>5, <1>6

LEMMA PushLinkInv ==
  ASSUME ListInv, PushLink
  PROVE  ListInv'
<1> USE MaxPushAssumption DEF ListInv, PushLink, popVars, Nodes, NULL
<1>1. /\ LastLinked = Len(pValuePointer) - 1 /\ LastLinked' = Len(pValuePointer)
      /\ pTailNode = Len(pValuePointer) - 1 /\ pTailNode \in Nodes
      /\ Len(pValuePointer) \in Nodes
  BY DEF TypeOK, ListShape, LastLinked, pNewNode
<1>2. TypeOK'
  BY <1>1 DEF TypeOK, pNewNode
<1>3. ListShape'
  BY <1>1 DEF TypeOK, ListShape, pNewNode
<1>4. PopLocals'
  BY <1>1 DEF TypeOK, PopLocals
<1>5. PoppedInOrder'
  BY DEF PoppedInOrder
<1> QED
  BY <1>2, <1>3, <1>4, <1>5

LEMMA PushSwingInv ==
  ASSUME ListInv, PushSwing
  PROVE  ListInv'
<1> USE MaxPushAssumption DEF ListInv, PushSwing, popVars, Nodes, NULL
<1>1. LastLinked' = LastLinked /\ LastLinked = Len(pValuePointer)
  BY DEF LastLinked, pNewNode
<1>2. TypeOK'
  BY DEF TypeOK, pNewNode
<1>3. ListShape'
  BY <1>1 DEF TypeOK, ListShape, pNewNode
<1>4. PopLocals'
  BY <1>1 DEF PopLocals
<1>5. PoppedInOrder'
  BY DEF PoppedInOrder
<1> QED
  BY <1>2, <1>3, <1>4, <1>5

(* The two halves of m_Size++ leave the list alone.                        *)
LEMMA IncrementInv ==
  ASSUME ListInv, IncrementLoad \/ IncrementStore
  PROVE  ListInv'
<1> USE MaxPushAssumption DEF ListInv, IncrementLoad, IncrementStore, listVars, popVars, Nodes, NULL
<1>1. LastLinked' = LastLinked /\ pNewNode' = pNewNode
  BY DEF LastLinked, pNewNode
<1>2. TypeOK'
  <2>1. CASE IncrementLoad
    BY <2>1 DEF TypeOK
  <2>2. CASE IncrementStore
    BY <2>2 DEF TypeOK
  <2> QED
    BY <2>1, <2>2
<1>3. ListShape'
  BY <1>1 DEF ListShape
<1>4. PopLocals' /\ PoppedInOrder'
  BY <1>1 DEF PopLocals, PoppedInOrder
<1> QED
  BY <1>2, <1>3, <1>4

(* The list: one lemma per kind of step of the tunnel thread.              *)

LEMMA PopBeginInv ==
  ASSUME ListInv, GetSizePositive \/ PopEmpty
  PROVE  ListInv'
<1> USE MaxPushAssumption
    DEF ListInv, GetSizePositive, PopEmpty, listVars, pushVars, Nodes, NULL
<1>1. LastLinked' = LastLinked /\ pNewNode' = pNewNode
  BY DEF LastLinked, pNewNode, pushVars
<1>2. TypeOK'
  <2>1. CASE GetSizePositive
    <3>1. <<>> \in Seq(Values)
      OBVIOUS
    <3> QED
      BY <2>1, <3>1 DEF TypeOK
  <2>2. CASE PopEmpty
    BY <2>2 DEF TypeOK
  <2> QED
    BY <2>1, <2>2
<1>3. ListShape'
  BY <1>1 DEF ListShape
<1>4. PopLocals' /\ PoppedInOrder'
  BY <1>1 DEF PopLocals, PoppedInOrder
<1> QED
  BY <1>2, <1>3, <1>4

LEMMA PopReadInv ==
  ASSUME ListInv, PopRead
  PROVE  ListInv'
<1> USE MaxPushAssumption DEF ListInv, PopRead, listVars, pushVars, Nodes, NULL
<1>1. LastLinked' = LastLinked /\ pNewNode' = pNewNode
  BY DEF LastLinked, pNewNode
<1>2. pHeadNode < LastLinked /\ pNewHeadNode' = pHeadNode + 1
  BY DEF TypeOK, ListShape
<1>3. TypeOK'
  BY DEF TypeOK
<1>4. ListShape'
  BY <1>1 DEF ListShape
<1>5. PopLocals'
  BY <1>1, <1>2 DEF TypeOK, PopLocals, LastLinked, pNewNode
<1>6. PoppedInOrder'
  BY DEF PoppedInOrder
<1> QED
  BY <1>3, <1>4, <1>5, <1>6

LEMMA PopValueInv ==
  ASSUME ListInv, PopValue
  PROVE  ListInv'
<1> USE MaxPushAssumption DEF ListInv, PopValue, listVars, pushVars, Nodes, NULL
<1>1. LastLinked' = LastLinked /\ pNewNode' = pNewNode
  BY DEF LastLinked, pNewNode
<1>2. pNewHeadNode \in 1 .. Len(pValuePointer)
  BY DEF TypeOK, PopLocals, LastLinked, pNewNode
<1>3. pValuePointer[pNewHeadNode] \in Values
  BY <1>2 DEF TypeOK
<1>4. TypeOK'
  BY <1>3 DEF TypeOK
<1>5. ListShape'
  BY <1>1 DEF ListShape
<1>6. PopLocals'
  BY <1>1 DEF PopLocals
<1>7. PoppedInOrder'
  BY DEF PoppedInOrder
<1> QED
  BY <1>4, <1>5, <1>6, <1>7

LEMMA PopSwingInv ==
  ASSUME ListInv, PopSwing
  PROVE  ListInv'
<1> USE MaxPushAssumption DEF ListInv, PopSwing, pushVars, Nodes, NULL
<1>1. LastLinked' = LastLinked /\ pNewNode' = pNewNode
  BY DEF LastLinked, pNewNode
<1>2. /\ pHeadNode' = pHeadNode + 1
      /\ pHeadNode' <= LastLinked
      /\ pCurrentNode = pHeadNode
      /\ pValue[1] = pValuePointer[pHeadNode']
      /\ pHeadNode' \in 1 .. Len(pValuePointer)
  BY DEF TypeOK, PopLocals, LastLinked, pNewNode
<1>3. pValue[1] \in Values
  BY <1>2 DEF TypeOK
<1>4. /\ popped' \in Seq(Values)
      /\ Len(popped') = Len(popped) + 1
      /\ \A i \in 1 .. Len(popped) : popped'[i] = popped[i]
      /\ popped'[Len(popped) + 1] = pValue[1]
  BY <1>3 DEF TypeOK
<1>5. TypeOK'
  <2>1. pHeadNode' \in Nodes
    BY <1>2 DEF TypeOK
  <2>2. popped' \in Seq(Values)
    BY <1>4
  <2> HIDE DEF Nodes
  <2> QED
    BY <2>1, <2>2 DEF TypeOK
<1>6. ListShape'
  BY <1>1, <1>2 DEF ListShape
<1>7. PopLocals'
  BY <1>2 DEF TypeOK, PopLocals
<1>8. PoppedInOrder'
  BY <1>2, <1>4 DEF TypeOK, PoppedInOrder
<1> QED
  BY <1>5, <1>6, <1>7, <1>8

(* The two halves of m_Size-- leave the list alone, and so does the        *)
(* deletion, which the chain does not show.                                *)
LEMMA DecrementInv ==
  ASSUME ListInv, DecrementLoad \/ DecrementStore \/ PopDelete
  PROVE  ListInv'
<1> USE MaxPushAssumption
    DEF ListInv, DecrementLoad, DecrementStore, PopDelete, listVars, pushVars, Nodes, NULL
<1>1. LastLinked' = LastLinked /\ pNewNode' = pNewNode
  BY DEF LastLinked, pNewNode
<1>2. TypeOK'
  <2>1. CASE DecrementLoad
    BY <2>1 DEF TypeOK
  <2>2. CASE DecrementStore
    BY <2>2 DEF TypeOK
  <2>3. CASE PopDelete
    BY <2>3 DEF TypeOK, PopLocals
  <2> QED
    BY <2>1, <2>2, <2>3
<1>3. ListShape'
  BY <1>1 DEF ListShape
<1>4. PopLocals' /\ PoppedInOrder'
  BY <1>1 DEF PopLocals, PoppedInOrder
<1> QED
  BY <1>2, <1>3, <1>4

(* A step that changes nothing keeps whatever it reads.                    *)
LEMMA StutterInv ==
  ASSUME ListInv, UNCHANGED queueVars
  PROVE  ListInv'
<1> USE DEF ListInv, queueVars, listVars, pushVars, popVars
<1>1. LastLinked' = LastLinked /\ pNewNode' = pNewNode
  BY DEF LastLinked, pNewNode
<1> QED
  BY <1>1 DEF TypeOK, ListShape, PopLocals, PoppedInOrder

LEMMA ListPushStep ==
  ASSUME ListInv, (\E v \in Values : PushAllocate(v)) \/ PushStep
  PROVE  ListInv'
BY PushAllocateInv, PushLinkInv, PushSwingInv, IncrementInv DEF PushStep

LEMMA ListPopStep ==
  ASSUME ListInv, PopStep
  PROVE  ListInv'
BY PopBeginInv, PopReadInv, PopValueInv, PopSwingInv, DecrementInv DEF PopStep

(* Whatever Push does, it deletes nothing and does not move the head.      *)
LEMMA FreedPushStep ==
  ASSUME FreedBehindHead, (\E v \in Values : PushAllocate(v)) \/ PushStep
  PROVE  FreedBehindHead'
BY DEF FreedBehindHead, PushAllocate, PushStep, PushLink, PushSwing, IncrementLoad, IncrementStore,
       listVars, popVars

(* Pop deletes the node it has moved the head from.                        *)
LEMMA FreedPopStep ==
  ASSUME ListInv, FreedBehindHead, PopStep
  PROVE  FreedBehindHead'
<1> USE DEF ListInv, FreedBehindHead
<1>1. CASE PopSwing
  BY <1>1, MaxPushAssumption DEF PopSwing, PopLocals, TypeOK, Nodes
<1>2. CASE PopDelete
  <2>1. pHeadNode \in Nat /\ pHeadNode > 0 /\ freed' = (0 .. pHeadNode - 2) \cup {pHeadNode - 1}
    BY <1>2, MaxPushAssumption DEF PopDelete, PopLocals, TypeOK, Nodes
  <2>2. freed' = 0 .. pHeadNode - 1
    BY <2>1
  <2> QED
    BY <1>2, <2>2 DEF PopDelete
<1>3. CASE PopEmpty \/ PopRead \/ PopValue
  BY <1>3 DEF PopEmpty, PopRead, PopValue, listVars
<1>4. CASE DecrementLoad \/ DecrementStore
  BY <1>4 DEF DecrementLoad, DecrementStore, listVars
<1> QED
  BY <1>1, <1>2, <1>3, <1>4 DEF PopStep

(* The counter: no store of either thread makes it negative.               *)
LEMMA CountStep ==
  ASSUME TypeOK, CountInv, [Next]_queueVars
  PROVE  CountInv'
<1> USE DEF TypeOK, CountInv
<1>1. CASE (\E v \in Values : PushAllocate(v)) \/ PushLink \/ PushSwing
  BY <1>1 DEF PushAllocate, PushLink, PushSwing, popVars
<1>2. CASE IncrementLoad \/ IncrementStore
  BY <1>2 DEF IncrementLoad, IncrementStore, popVars
<1>3. CASE GetSizePositive \/ PopEmpty \/ PopRead \/ PopValue \/ PopSwing
  BY <1>3 DEF GetSizePositive, PopEmpty, PopRead, PopValue, PopSwing, pushVars
<1>4. CASE DecrementLoad \/ DecrementStore \/ PopDelete
  BY <1>4 DEF DecrementLoad, DecrementStore, PopDelete, pushVars
<1>5. CASE UNCHANGED queueVars
  BY <1>5 DEF queueVars, pushVars, popVars
<1> QED
  BY <1>1, <1>2, <1>3, <1>4, <1>5 DEF Next, PushStep, PopStep

-----------------------------------------------------------------------------
LEMMA QueueInvStep ==
  ASSUME QueueInv, [Next]_queueVars
  PROVE  QueueInv'
<1> USE DEF QueueInv
<1>1. ListInv' /\ FreedBehindHead'
  <2>1. CASE (\E v \in Values : PushAllocate(v)) \/ PushStep
    BY <2>1, ListPushStep, FreedPushStep
  <2>2. CASE GetSizePositive
    BY <2>2, PopBeginInv DEF GetSizePositive, listVars, FreedBehindHead
  <2>3. CASE PopStep
    BY <2>3, ListPopStep, FreedPopStep
  <2>4. CASE UNCHANGED queueVars
    BY <2>4, StutterInv DEF queueVars, listVars, popVars, FreedBehindHead
  <2> QED
    BY <2>1, <2>2, <2>3, <2>4 DEF Next
<1>2. CountInv'
  BY CountStep DEF ListInv
<1> QED
  BY <1>1, <1>2

(* In every reachable state the list is the chain of the nodes in the order *)
(* of their allocation and both threads' locals agree with it, although no  *)
(* lock orders the accesses of Push and Pop.                               *)
THEOREM QueueInvariant == Spec => []QueueInv
<1>1. Init => QueueInv
  BY InitInv
<1>2. QueueInv /\ [Next]_queueVars => QueueInv'
  BY QueueInvStep
<1> QED
  BY <1>1, <1>2, PTL DEF Spec

(* What is not deleted is safe to use: the head, its successors and the     *)
(* tail that Push is about to link from.                                   *)
LEMMA SafeList ==
  ASSUME ListInv, FreedBehindHead
  PROVE  NoUseAfterFree
BY MaxPushAssumption
   DEF ListInv, TypeOK, ListShape, PopLocals, FreedBehindHead, NoUseAfterFree,
       LastLinked, pNewNode, Nodes

(* No thread dereferences or deletes a node that is already deleted, however *)
(* Push and Pop interleave: the node Pop deletes is behind the head, and    *)
(* Push has linked past it before Pop can reach its successor.             *)
THEOREM MemorySafety == Spec => []NoUseAfterFree
<1>1. QueueInv => NoUseAfterFree
  BY SafeList DEF QueueInv
<1> QED
  BY <1>1, QueueInvariant, PTL

(* Lost updates make the counter wrong but never negative: GetSize() > 0   *)
(* cannot be reached from below.                                           *)
THEOREM CounterSign == Spec => []SizeNeverNegative
<1>1. QueueInv => SizeNeverNegative
  BY DEF QueueInv, CountInv, SizeNeverNegative
<1> QED
  BY <1>1, QueueInvariant, PTL

-----------------------------------------------------------------------------
(* What the abstract queue sees of the list.                               *)
LEMMA ItemsSequence ==
  ASSUME ListInv
  PROVE  /\ Queued \in Nat
         /\ Items \in Seq(Values)
         /\ Len(Items) = Queued
         /\ \A i \in 1 .. Queued : Items[i] = pValuePointer[pHeadNode + i]
<1> USE DEF ListInv
<1>1. Queued \in Nat /\ pHeadNode \in Nat /\ pHeadNode + Queued <= Len(pValuePointer)
  BY MaxPushAssumption DEF TypeOK, ListShape, Queued, LastLinked, pNewNode, Nodes
<1>2. \A i \in 1 .. Queued : pValuePointer[pHeadNode + i] \in Values
  BY <1>1 DEF TypeOK
<1> QED
  BY <1>1, <1>2 DEF Items

(* Linking the new node is the abstract Push.                              *)
LEMMA PushLinkRefines ==
  ASSUME ListInv, PushLink
  PROVE  \E v \in Values : F!Push(v)
<1> DEFINE v == pValuePointer[pNewNode]
<1>1. ListInv'
  BY PushLinkInv
<1>2. /\ Queued \in Nat /\ Queued' = Queued + 1 /\ pHeadNode \in Nat
      /\ pHeadNode + Queued + 1 = pNewNode
      /\ pNewNode \in 1 .. Len(pValuePointer)
      /\ UNCHANGED <<pHeadNode, pValuePointer, popped>>
  BY ItemsSequence
     DEF ListInv, TypeOK, ListShape, PushLink, Queued, LastLinked, pNewNode, Nodes, popVars
<1>3. v \in Values
  BY <1>2 DEF ListInv, TypeOK
<1>4. Items' = Append(Items, v)
  BY <1>2, MaxPushAssumption DEF Items
<1> HIDE DEF v
<1>5. F!Push(v)
  BY <1>2, <1>4 DEF F!Push
<1> QED
  BY <1>3, <1>5

(* Moving the head is the abstract Pop.                                    *)
LEMMA PopSwingRefines ==
  ASSUME ListInv, PopSwing
  PROVE  F!Pop
<1>1. /\ Queued \in Nat /\ Queued >= 1 /\ Queued' = Queued - 1
      /\ pHeadNode \in Nat /\ pHeadNode' = pHeadNode + 1
      /\ pValuePointer' = pValuePointer
      /\ pValue[1] = pValuePointer[pHeadNode + 1]
  BY ItemsSequence
     DEF ListInv, TypeOK, PopLocals, PopSwing, Queued, LastLinked, pNewNode, Nodes, pushVars
<1>2. Items # <<>> /\ Head(Items) = pValue[1]
  BY <1>1, ItemsSequence
<1>3. Items' = Tail(Items)
  BY <1>1, ItemsSequence DEF Items
<1>4. popped' = Append(popped, Head(Items))
  BY <1>2 DEF PopSwing
<1> QED
  BY <1>2, <1>3, <1>4 DEF F!Pop

(* A step that moves neither the head nor the last link is invisible.      *)
LEMMA OtherStepsStutter ==
  ASSUME ListInv, [Next]_queueVars, ~PushLink, ~PopSwing
  PROVE  UNCHANGED <<Items, popped>>
<1>1. CASE \E v \in Values : PushAllocate(v)
  <2>1. PICK v \in Values : PushAllocate(v)
    BY <1>1
  <2>2. /\ Len(pValuePointer') = Len(pValuePointer) + 1
        /\ \A i \in 1 .. Len(pValuePointer) : pValuePointer'[i] = pValuePointer[i]
    BY <2>1 DEF ListInv, TypeOK, PushAllocate
  <2>3. /\ Queued' = Queued /\ Queued \in Nat /\ pHeadNode' = pHeadNode /\ pHeadNode \in Nat
        /\ pHeadNode + Queued = Len(pValuePointer)
    BY <2>1, <2>2, ItemsSequence
       DEF ListInv, TypeOK, PushAllocate, Queued, LastLinked, pNewNode, Nodes
  <2> QED
    BY <2>1, <2>2, <2>3 DEF Items, PushAllocate, popVars
<1>2. CASE ~ \E v \in Values : PushAllocate(v)
  <2>1. UNCHANGED <<pHeadNode, pValuePointer, LastLinked, popped>>
    BY <1>2 DEF Next, PushStep, PopStep, PushSwing, IncrementLoad, IncrementStore,
      GetSizePositive, PopEmpty, PopRead, PopValue, DecrementLoad, DecrementStore, PopDelete,
      queueVars, listVars, pushVars, popVars, LastLinked, pNewNode
  <2> QED
    BY <2>1 DEF Items, Queued
<1> QED
  BY <1>1, <1>2

(* The unlocked list implements the queue: for every interleaving the values *)
(* come out once, in the order in which they went in.                      *)
THEOREM Refinement == Spec => ImplementsFifo
<1>1. Init => F!Init
  BY MaxPushAssumption DEF Init, F!Init, Items, Queued, LastLinked, pNewNode
<1>2. ListInv /\ [Next]_queueVars => [F!Next]_F!fifoVars
  <2> SUFFICES ASSUME ListInv, [Next]_queueVars
               PROVE  F!Next \/ UNCHANGED <<Items, popped>>
    BY DEF F!fifoVars
  <2> QED
    BY PushLinkRefines, PopSwingRefines, OtherStepsStutter DEF F!Next
<1>3. QueueInv => ListInv
  BY DEF QueueInv
<1> QED
  BY <1>1, <1>2, <1>3, QueueInvariant, PTL DEF Spec, ImplementsFifo, F!Spec

-----------------------------------------------------------------------------
(* The counter is the number of pushes that were counted less the number of *)
(* pops that were, and what a thread has loaded of it is not stale.         *)
CountIsExact ==
  LET uncountedPush == IF pushPc = "idle" THEN 0 ELSE 1
      uncountedPop == IF popPc \in {"load", "store"} THEN 1 ELSE 0
  IN  /\ m_Size = (pNewNode - uncountedPush) - (pHeadNode - uncountedPop)
      /\ UpdatesApart
      /\ pushPc = "store" => pushSize = m_Size
      /\ popPc = "store" => popSize = m_Size

LEMMA CountIsExactPush ==
  ASSUME ListInv, CountIsExact, UpdatesApart', (\E v \in Values : PushAllocate(v)) \/ PushStep
  PROVE  CountIsExact'
<1> USE DEF CountIsExact, UpdatesApart, pNewNode, popVars, listVars
<1>1. Len(pValuePointer) \in Nat /\ pHeadNode \in Nat /\ m_Size \in Int /\ pushSize \in Int
  BY MaxPushAssumption DEF ListInv, TypeOK, Nodes
<1>2. CASE \E v \in Values : PushAllocate(v)
  <2>1. PICK v \in Values : PushAllocate(v)
    BY <1>2
  <2>2. Len(pValuePointer') = Len(pValuePointer) + 1
    BY <2>1 DEF ListInv, TypeOK, PushAllocate
  <2> QED
    BY <1>1, <2>1, <2>2 DEF PushAllocate
<1>3. CASE PushLink \/ PushSwing
  BY <1>1, <1>3 DEF PushLink, PushSwing
<1>4. CASE IncrementLoad
  BY <1>1, <1>4 DEF IncrementLoad
<1>5. CASE IncrementStore
  BY <1>1, <1>5 DEF IncrementStore
<1> QED
  BY <1>2, <1>3, <1>4, <1>5 DEF PushStep

LEMMA CountIsExactPop ==
  ASSUME ListInv, CountIsExact, UpdatesApart', GetSizePositive \/ PopStep
  PROVE  CountIsExact'
<1> USE DEF CountIsExact, UpdatesApart, pNewNode, pushVars, listVars
<1>1. Len(pValuePointer) \in Nat /\ pHeadNode \in Nat /\ m_Size \in Int /\ popSize \in Int
  BY MaxPushAssumption DEF ListInv, TypeOK, Nodes
<1>2. CASE GetSizePositive \/ PopEmpty \/ PopRead \/ PopValue \/ PopDelete
  BY <1>1, <1>2 DEF GetSizePositive, PopEmpty, PopRead, PopValue, PopDelete
<1>3. CASE PopSwing
  <2>1. pHeadNode' = pHeadNode + 1
    BY <1>3 DEF PopSwing, ListInv, PopLocals
  <2> QED
    BY <1>1, <1>3, <2>1 DEF PopSwing
<1>4. CASE DecrementLoad
  BY <1>1, <1>4 DEF DecrementLoad
<1>5. CASE DecrementStore
  BY <1>1, <1>5 DEF DecrementStore
<1> QED
  BY <1>2, <1>3, <1>4, <1>5 DEF PopStep

(* Overlapping updates are the only way in which GetSize() comes to hide a   *)
(* value: as long as no increment overlaps a decrement, the counter is      *)
(* exact after each update, and a queue that holds values says so.         *)
THEOREM CountsWhenApart == Spec => OnlyOverlapsHide
<1>1. Init => CountIsExact
  <2> SUFFICES ASSUME Init PROVE CountIsExact
    OBVIOUS
  <2>1. Len(pValuePointer) = 0 /\ pHeadNode = 0 /\ m_Size = 0 /\ pushPc = "idle" /\ popPc = "idle"
    BY DEF Init
  <2>2. m_Size = (Len(pValuePointer) - 0) - (pHeadNode - 0)
    BY <2>1
  <2>3. pushPc # "store" /\ popPc # "store" /\ popPc # "load"
    BY <2>1
  <2> QED
    BY <2>1, <2>2, <2>3 DEF CountIsExact, UpdatesApart, pNewNode
<1>2. ListInv /\ CountIsExact /\ UpdatesApart' /\ [Next]_queueVars => CountIsExact'
  <2> SUFFICES ASSUME ListInv, CountIsExact, UpdatesApart', [Next]_queueVars
               PROVE  CountIsExact'
    OBVIOUS
  <2>1. CASE UNCHANGED queueVars
    BY <2>1 DEF CountIsExact, UpdatesApart, pNewNode, queueVars, listVars, pushVars, popVars
  <2>2. CASE Next
    BY <2>2, CountIsExactPush, CountIsExactPop DEF Next
  <2> QED
    BY <2>1, <2>2
<1>3. ListInv /\ CountIsExact => QueuedIsCounted
  BY MaxPushAssumption
     DEF ListInv, TypeOK, CountIsExact, QueuedIsCounted, Queued, LastLinked, pNewNode, Nodes
<1>4. QueueInv => ListInv
  BY DEF QueueInv
<1>5. Spec /\ []UpdatesApart => []QueuedIsCounted
  BY <1>1, <1>2, <1>3, <1>4, QueueInvariant, PTL DEF Spec
<1> QED
  BY <1>5, PTL DEF OnlyOverlapsHide
=============================================================================
