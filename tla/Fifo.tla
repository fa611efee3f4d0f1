-------------------------------- MODULE Fifo --------------------------------
(***************************************************************************)
(* What CTMultiThreadSingleQueue promises its callers: Push puts a value   *)
(* at the end, Pop takes the oldest value away, and nothing is lost,       *)
(* repeated or overtaken in between.  The linked list of the module        *)
(* MultiThreadSingleQueue implements this specification.                   *)
(***************************************************************************)
EXTENDS Sequences

CONSTANT Values   \* what is queued: the decoded payloads of BIN_DATA messages

VARIABLES
  items,      \* the values pushed and not yet popped, oldest first
  delivered   \* the values popped, in the order of the calls to Pop

fifoVars == <<items, delivered>>

Init ==
  /\ items = <<>>
  /\ delivered = <<>>

Push(v) ==
  /\ items' = Append(items, v)
  /\ UNCHANGED delivered

Pop ==
  /\ items # <<>>
  /\ delivered' = Append(delivered, Head(items))
  /\ items' = Tail(items)

Next ==
  \/ \E v \in Values : Push(v)
  \/ Pop

Spec == Init /\ [][Next]_fifoVars
=============================================================================
