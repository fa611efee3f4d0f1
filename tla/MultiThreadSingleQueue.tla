----------------------- MODULE MultiThreadSingleQueue -----------------------
(***************************************************************************)
(* CTMultiThreadSingleQueue<std::string> of TMultiThreadSingleQueue.h, as  *)
(* this program uses it: the network thread calls Push (from rcv_callback  *)
(* or send_callback) and the tunnel thread calls GetSize and then Pop.     *)
(* All the locks of the original algorithm are commented out, so every     *)
(* access to memory the two threads share is a step of its own.  m_Size++  *)
(* and m_Size-- are a load and a store: the counter is volatile, which     *)
(* makes neither of them atomic.                                           *)
(*                                                                         *)
(* A node is named by the order in which it was allocated, 0 being the     *)
(* dummy node of the constructor.  The code never compares two node        *)
(* pointers, so it cannot tell a reused address from a new one and the     *)
(* names lose nothing; a pointer to a deleted node stays recognisable.     *)
(*                                                                         *)
(* The unsynchronised accesses to pNextNode and m_Size are data races.     *)
(* The outcomes modelled are those of the x86-64 build: an aligned word    *)
(* is read and written whole, and stores become visible in program order.  *)
(***************************************************************************)
EXTENDS Integers, Sequences

CONSTANTS
  Values,    \* the strings that are queued
  MaxPush    \* how many times Push may be called: the bound of the model

ASSUME MaxPushAssumption == MaxPush \in Nat

NULL == -1                    \* no node
Nodes == 0 .. MaxPush         \* node 0 is the dummy, node n that of the nth Push

VARIABLES
  pHeadNode,      \* the dummy node: the value at the front is in its successor
  pTailNode,      \* the node Push links the next one to
  m_Size,         \* the counter GetSize returns
  pNextNode,      \* the link of each node
  pValuePointer,  \* the value of each node allocated so far, by number
  freed,          \* the nodes that were deleted
  pushPc,         \* where the network thread is in Push
  pushSize,       \* the m_Size its increment has loaded
  popPc,          \* where the tunnel thread is in GetSize and Pop
  pCurrentNode,   \* Pop's local variables
  pNewHeadNode,
  pValue,         \* the caller's variable Pop fills in: <<>> while it is empty
  popSize,        \* the m_Size its decrement has loaded
  popped          \* history: what the calls to Pop have returned, in order

listVars == <<pHeadNode, pTailNode, pNextNode, pValuePointer, freed>>
pushVars == <<pushPc, pushSize>>
popVars  == <<popPc, pCurrentNode, pNewHeadNode, pValue, popSize, popped>>
queueVars == <<listVars, m_Size, pushVars, popVars>>

-----------------------------------------------------------------------------
(* The constructor and the derived views of the list.                      *)

Init ==
  /\ pHeadNode = 0
  /\ pTailNode = 0
  /\ m_Size = 0
  /\ pNextNode = [n \in Nodes |-> NULL]
  /\ pValuePointer = <<>>
  /\ freed = {}
  /\ pushPc = "idle"
  /\ pushSize = 0
  /\ popPc = "idle"
  /\ pCurrentNode = NULL
  /\ pNewHeadNode = NULL
  /\ pValue = <<>>
  /\ popSize = 0
  /\ popped = <<>>

pNewNode == Len(pValuePointer)      \* the node allocated last, Push's local

(* The last node that Pop can reach from the head: a new node joins the    *)
(* queue when it is linked, before the tail pointer moves to it.           *)
LastLinked == IF pushPc = "link" THEN pNewNode - 1 ELSE pNewNode

Queued == LastLinked - pHeadNode    \* how many values the list holds

-----------------------------------------------------------------------------
(* Defective variants of the steps below, which the mutants of PROJECT.json *)
(* substitute to show that a property notices.                             *)

\* moves the tail to the new node although no link leads there yet
PushLink_SwingFirst ==
  /\ pushPc = "link"
  /\ pNextNode' = pNextNode
  /\ pushPc' = "swing"
  /\ UNCHANGED <<pHeadNode, pTailNode, pValuePointer, freed, m_Size, pushSize, popVars>>

\* starts the next Push before the tail has moved
PushLink_ReturnEarly ==
  /\ pushPc = "link"
  /\ pNextNode' = [pNextNode EXCEPT ![pTailNode] = pNewNode]
  /\ pushPc' = "load"
  /\ UNCHANGED <<pHeadNode, pTailNode, pValuePointer, freed, m_Size, pushSize, popVars>>

\* tests for a non-negative instead of a positive size
GetSizePositive_NotStrict ==
  /\ popPc = "idle"
  /\ m_Size >= 0
  /\ pValue' = <<>>
  /\ popPc' = "read"
  /\ UNCHANGED <<listVars, m_Size, pushVars, pCurrentNode, pNewHeadNode, popSize, popped>>

\* the caller's variable keeps the value of the call before
GetSizePositive_KeepValue ==
  /\ popPc = "idle"
  /\ m_Size > 0
  /\ popPc' = "read"
  /\ UNCHANGED <<listVars, m_Size, pushVars, pCurrentNode, pNewHeadNode, pValue, popSize, popped>>

\* returns from Push without counting the node
PushSwing_Uncounted ==
  /\ pushPc = "swing"
  /\ pTailNode' = pNewNode
  /\ pushPc' = "idle"
  /\ UNCHANGED <<pHeadNode, pNextNode, pValuePointer, freed, m_Size, pushSize, popVars>>

\* the head pointer stays where it was
PopSwing_KeepHead ==
  /\ popPc = "swing"
  /\ popped' = Append(popped, pValue[1])
  /\ popPc' = "load"
  /\ UNCHANGED <<listVars, m_Size, pushVars, pCurrentNode, pNewHeadNode, pValue, popSize>>

-----------------------------------------------------------------------------
(* Push: allocate and fill a node, link it, move the tail, count it.       *)

PushAllocate(v) ==
  /\ pushPc = "idle"
  /\ Len(pValuePointer) < MaxPush
  /\ pValuePointer' = Append(pValuePointer, v)
  /\ pushPc' = "link"
  /\ UNCHANGED <<pHeadNode, pTailNode, m_Size, pNextNode, freed, pushSize, popVars>>

PushLink ==
  /\ pushPc = "link"
  /\ pNextNode' = [pNextNode EXCEPT ![pTailNode] = pNewNode]
  /\ pushPc' = "swing"
  /\ UNCHANGED <<pHeadNode, pTailNode, pValuePointer, freed, m_Size, pushSize, popVars>>

PushSwing ==
  /\ pushPc = "swing"
  /\ pTailNode' = pNewNode
  /\ pushPc' = "load"
  /\ UNCHANGED <<pHeadNode, pNextNode, pValuePointer, freed, m_Size, pushSize, popVars>>

IncrementLoad ==
  /\ pushPc = "load"
  /\ pushSize' = m_Size
  /\ pushPc' = "store"
  /\ UNCHANGED <<listVars, m_Size, popVars>>

IncrementStore ==
  /\ pushPc = "store"
  /\ m_Size' = pushSize + 1
  /\ pushPc' = "idle"
  /\ UNCHANGED <<listVars, pushSize, popVars>>

PushStep == PushLink \/ PushSwing \/ IncrementLoad \/ IncrementStore

-----------------------------------------------------------------------------
(* GetSize() > 0, the test its caller makes, and Pop.                      *)

GetSizePositive ==
  /\ popPc = "idle"
  /\ m_Size > 0
  /\ pValue' = <<>>
  /\ popPc' = "read"
  /\ UNCHANGED <<listVars, m_Size, pushVars, pCurrentNode, pNewHeadNode, popSize, popped>>

(* Pop reads the head and its link; it gives up when there is no link.     *)
PopEmpty ==
  /\ popPc = "read"
  /\ pNextNode[pHeadNode] = NULL
  /\ popPc' = "idle"
  /\ UNCHANGED <<listVars, m_Size, pushVars, pCurrentNode, pNewHeadNode, pValue, popSize, popped>>

PopRead ==
  /\ popPc = "read"
  /\ pNextNode[pHeadNode] # NULL
  /\ pCurrentNode' = pHeadNode
  /\ pNewHeadNode' = pNextNode[pHeadNode]
  /\ popPc' = "value"
  /\ UNCHANGED <<listVars, m_Size, pushVars, pValue, popSize, popped>>

PopValue ==
  /\ popPc = "value"
  /\ pValue' = <<pValuePointer[pNewHeadNode]>>
  /\ popPc' = "swing"
  /\ UNCHANGED <<listVars, m_Size, pushVars, pCurrentNode, pNewHeadNode, popSize, popped>>

PopSwing ==
  /\ popPc = "swing"
  /\ pHeadNode' = pNewHeadNode
  /\ popped' = Append(popped, pValue[1])
  /\ popPc' = "load"
  /\ UNCHANGED <<pTailNode, pNextNode, pValuePointer, freed, m_Size, pushVars,
                 pCurrentNode, pNewHeadNode, pValue, popSize>>

DecrementLoad ==
  /\ popPc = "load"
  /\ popSize' = m_Size
  /\ popPc' = "store"
  /\ UNCHANGED <<listVars, m_Size, pushVars, pCurrentNode, pNewHeadNode, pValue, popped>>

DecrementStore ==
  /\ popPc = "store"
  /\ m_Size' = popSize - 1
  /\ popPc' = "delete"
  /\ UNCHANGED <<listVars, pushVars, pCurrentNode, pNewHeadNode, pValue, popSize, popped>>

PopDelete ==
  /\ popPc = "delete"
  /\ freed' = freed \cup {pCurrentNode}
  /\ popPc' = "idle"
  /\ UNCHANGED <<pHeadNode, pTailNode, pNextNode, pValuePointer, m_Size, pushVars,
                 pCurrentNode, pNewHeadNode, pValue, popSize, popped>>

PopStep ==
  PopEmpty \/ PopRead \/ PopValue \/ PopSwing \/ DecrementLoad \/ DecrementStore \/ PopDelete

-----------------------------------------------------------------------------
Next ==
  \/ \E v \in Values : PushAllocate(v)
  \/ PushStep
  \/ GetSizePositive
  \/ PopStep

Spec == Init /\ [][Next]_queueVars

(* Each thread finishes the call it is in.  Neither has to begin another:   *)
(* the tunnel thread may wait for its sockets for ever (select, accept).    *)
FairSpec ==
  /\ Spec
  /\ WF_queueVars(PushStep)
  /\ WF_queueVars(PopStep)

-----------------------------------------------------------------------------
TypeOK ==
  /\ pHeadNode \in Nodes
  /\ pTailNode \in Nodes
  /\ m_Size \in Int
  /\ pNextNode \in [Nodes -> Nodes \cup {NULL}]
  /\ pValuePointer \in Seq(Values)
  /\ Len(pValuePointer) \in Nodes
  /\ freed \subseteq Nodes
  /\ pushPc \in {"idle", "link", "swing", "load", "store"}
  /\ pushSize \in Int
  /\ popPc \in {"idle", "read", "value", "swing", "load", "store", "delete"}
  /\ pCurrentNode \in Nodes \cup {NULL}
  /\ pNewHeadNode \in Nodes \cup {NULL}
  /\ pValue \in Seq(Values)
  /\ popSize \in Int
  /\ popped \in Seq(Values)

(* The list is the chain 0, 1, 2, ... up to the last linked node; the tail  *)
(* is behind by one while Push is about to move it.                        *)
ListShape ==
  /\ pushPc \in {"link", "swing"} => pNewNode > 0
  /\ pTailNode = IF pushPc \in {"link", "swing"} THEN pNewNode - 1 ELSE pNewNode
  /\ \A n \in Nodes : pNextNode[n] = IF n < LastLinked THEN n + 1 ELSE NULL
  /\ pHeadNode <= LastLinked

(* What Pop holds in its locals agrees with the list.                      *)
PopLocals ==
  /\ popPc \in {"value", "swing"} =>
       /\ pCurrentNode = pHeadNode
       /\ pNewHeadNode = pHeadNode + 1
       /\ pNewHeadNode <= LastLinked
  /\ popPc = "swing" => pValue = <<pValuePointer[pNewHeadNode]>>
  /\ popPc \in {"load", "store", "delete"} =>
       /\ pHeadNode > 0
       /\ pCurrentNode = pHeadNode - 1

(* The deleted nodes are those before the head, but for the one Pop is     *)
(* about to delete: none is left behind.                                   *)
FreedBehindHead ==
  freed = 0 .. (IF popPc \in {"load", "store", "delete"} THEN pHeadNode - 2 ELSE pHeadNode - 1)

(* Pop has returned the values pushed first, in the order of the pushes.   *)
PoppedInOrder ==
  /\ Len(popped) = pHeadNode
  /\ \A i \in 1 .. pHeadNode : popped[i] = pValuePointer[i]

(* The counter and the copies of it the two threads hold in registers.     *)
CountInv ==
  /\ m_Size >= 0
  /\ popPc \in {"read", "value", "swing", "load"} => m_Size >= 1
  /\ popPc = "store" => popSize >= 1
  /\ pushPc = "store" => pushSize >= 0

(* The list without its locks is the chain of the nodes in allocation order, *)
(* cut at the head and at the last link, and each thread's locals point    *)
(* where that chain says.                                                  *)
ListInv == TypeOK /\ ListShape /\ PopLocals /\ PoppedInOrder

(* The inductive invariant of the queue: the list, what was deleted of it,  *)
(* and the counter, which says little about the list.                      *)
QueueInv == ListInv /\ FreedBehindHead /\ CountInv

(* Neither thread follows a pointer to a node the other has deleted, and    *)
(* no node is deleted twice, although Pop deletes the old dummy node while *)
(* pTailNode may still point to it: Push has dereferenced the tail by then. *)
NoUseAfterFree ==
  /\ pushPc = "link" => pTailNode \notin freed
  /\ popPc = "read" => pHeadNode \notin freed
  /\ popPc = "value" => pNewHeadNode \notin freed
  /\ popPc = "delete" => pCurrentNode \notin freed

(* The counter is never negative, however the two unlocked updates overlap: *)
(* a decrement starts only after the size was seen positive and everything *)
(* the other thread stores in between is positive.                         *)
SizeNeverNegative == m_Size >= 0

(* The values in the list, from the head on: what the abstract queue holds. *)
Items == [i \in 1 .. Queued |-> pValuePointer[pHeadNode + i]]

F == INSTANCE Fifo WITH items <- Items, delivered <- popped

(* The unlocked linked list is a queue: values come out once, in the order  *)
(* they went in, whatever the interleaving of Push and Pop.                *)
ImplementsFifo == F!Spec

(* With no call in progress, a queue that holds values says so.  This is    *)
(* what the caller relies on (GetSize() > 0 before Pop) and what the header *)
(* says of the unlocked operations: they "may run in parallel without      *)
(* disrupting the state of the queue" (TMultiThreadSingleQueue.h:39-40).   *)
QueuedIsCounted ==
  pushPc = "idle" /\ popPc = "idle" /\ Queued > 0 => m_Size > 0

(* No increment of the counter overlaps a decrement.                       *)
UpdatesApart == ~(pushPc = "store" /\ popPc = "store")

(* Overlapping updates are the only way in which GetSize() comes to hide a  *)
(* value: while none overlap, a queue that holds values says so, wherever  *)
(* else Push and Pop meet (incrementSize, decrementSize).                  *)
OnlyOverlapsHide == []UpdatesApart => []QueuedIsCounted
=============================================================================
