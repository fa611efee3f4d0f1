---------------------------- MODULE QueueShutdown ----------------------------
(***************************************************************************)
(* The end of a queue: when build_server fails, the tunnel thread calls    *)
(* exit(1) (tcptunnel.cpp:702), which runs the destructors of the global   *)
(* queues while the networking thread, whose callbacks are set since       *)
(* before build_server, may still be in Push.  Until then nobody has       *)
(* popped; the process ends some time after the destructor has.            *)
(*                                                                         *)
(* A Push that stores through its pTailNode after the destructor deleted   *)
(* that node has undefined behaviour.  Nothing is claimed from there on:   *)
(* the step goes to a state of its own, in which the model stops.          *)
(***************************************************************************)
EXTENDS MultiThreadSingleQueue

VARIABLES
  shutdown,     \* where exit(1) is: "no", "pops", "empty", "deleted" or "ended";
                \* "undefined" once Push has stored through a deleted node
  overlapped    \* history: Push has run during the shutdown

shutdownVars == <<queueVars, shutdown, overlapped>>

ShutdownInit == Init /\ shutdown = "no" /\ overlapped = FALSE

Dangling == pushPc = "link" /\ pTailNode \in freed

(* The networking thread, which the end of the process stops anywhere.      *)
Pushes ==
  /\ shutdown \notin {"ended", "undefined"}
  /\ ~Dangling
  /\ PushStep \/ \E v \in Values : PushAllocate(v)
  /\ overlapped' = (shutdown # "no")
  /\ UNCHANGED shutdown

\* the store to pTailNode->pNextNode, in a node that is deleted
PushDangles ==
  /\ shutdown = "deleted"
  /\ Dangling
  /\ shutdown' = "undefined"
  /\ overlapped' = TRUE
  /\ UNCHANGED queueVars

\* while ( Pop(pDummyValue) ), into the same variable each time
CallsPop ==
  /\ shutdown \in {"no", "pops"}
  /\ popPc = "idle"
  /\ popPc' = "read"
  /\ shutdown' = "pops"
  /\ UNCHANGED <<listVars, m_Size, pushVars, pCurrentNode, pNewHeadNode, pValue, popSize, popped,
                 overlapped>>

\* variant: the destructor pops until the size is zero
RunsPop_UntilSizeZero ==
  /\ shutdown = "pops"
  /\ PopStep
  /\ shutdown' = IF popPc = "read" /\ pNextNode[pHeadNode] = NULL /\ m_Size = 0 THEN "empty" ELSE "pops"
  /\ UNCHANGED overlapped

RunsPop ==
  /\ shutdown = "pops"
  /\ PopStep
  /\ shutdown' = IF popPc = "read" /\ pNextNode[pHeadNode] = NULL THEN "empty" ELSE "pops"
  /\ UNCHANGED overlapped

\* variant: the destructor deletes the dummy node only
DeletesHead_AtOnce ==
  /\ shutdown \in {"pops", "empty"}
  /\ freed' = freed \cup {pHeadNode}
  /\ shutdown' = "deleted"
  /\ UNCHANGED <<pHeadNode, pTailNode, pNextNode, pValuePointer, m_Size, pushVars, popVars, overlapped>>

DeletesHead ==
  /\ shutdown = "empty"
  /\ freed' = freed \cup {pHeadNode}
  /\ shutdown' = "deleted"
  /\ UNCHANGED <<pHeadNode, pTailNode, pNextNode, pValuePointer, m_Size, pushVars, popVars, overlapped>>

ProcessEnds ==
  /\ shutdown = "deleted"
  /\ shutdown' = "ended"
  /\ UNCHANGED <<queueVars, overlapped>>

ExitStep == CallsPop \/ RunsPop \/ DeletesHead \/ ProcessEnds

ShutdownNext == Pushes \/ PushDangles \/ ExitStep

ShutdownSpec == ShutdownInit /\ [][ShutdownNext]_shutdownVars

(* Once exit was called, its thread keeps running. *)
FairShutdownSpec == ShutdownSpec /\ WF_shutdownVars(shutdown # "no" /\ ExitStep)

-----------------------------------------------------------------------------
(* The inductive invariant: the list is what it is while the program runs,  *)
(* except that its counter may be anything, since the destructor pops what *)
(* Push has not counted yet, and that the head is deleted at last.  What    *)
(* was found empty stays so unless a Push goes on.                         *)
ShutdownInv ==
  /\ ListInv
  /\ shutdown \in {"no", "pops", "empty", "deleted", "ended", "undefined"}
  /\ overlapped \in BOOLEAN
  /\ shutdown # "pops" => popPc = "idle"
  /\ IF shutdown \in {"deleted", "ended", "undefined"} THEN freed = 0 .. pHeadNode ELSE FreedBehindHead
  /\ shutdown \in {"empty", "deleted"} /\ ~overlapped => pHeadNode = LastLinked

(* The destructor's loop is as safe beside a Push as the program's own Pop, *)
(* although it does not look at the size, and the node it deletes at last   *)
(* was not deleted before.  It is this last deletion, and nothing earlier,  *)
(* that leaves a Push in progress with a dangling pTailNode.               *)
SafeUntilHeadIsDeleted ==
  shutdown \notin {"deleted", "ended", "undefined"} => NoUseAfterFree /\ pHeadNode \notin freed

(* If Push was not called meanwhile, the destructor deletes every node.     *)
NothingLeaks ==
  shutdown = "deleted" /\ ~overlapped /\ pushPc = "idle" => freed = 0 .. pNewNode

(* The loop ends, whatever Push is in the middle of, unless the networking  *)
(* thread pushes as fast as the destructor pops for ever (MaxPush): the     *)
(* process ends, or a Push has stored through the deleted head before.     *)
ExitEnds == (shutdown = "pops") ~> (shutdown \in {"ended", "undefined"})
=============================================================================
