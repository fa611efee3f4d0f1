--------------------------- MODULE TcpTunnelProofs ---------------------------
(***************************************************************************)
(* Proofs about the tunnel thread and its queue, for either side and every *)
(* number of sessions, bytes and messages: the queue is used within its    *)
(* own specification, so what is proved of it holds here, and the          *)
(* inductive invariant TunnelInv with what follows from it.                *)
(***************************************************************************)
EXTENDS TcpTunnel, MultiThreadSingleQueueProofs

-----------------------------------------------------------------------------
(* Which steps touch the queue, and how.                                   *)

\* the steps that leave all of the queue's variables alone
QueueIdle == UNCHANGED queueVars

LEMMA QueueSteps ==
  ASSUME [TunnelNext]_vars
  PROVE  \/ \E v \in Values : QueueBinData(v)
         \/ RunPush
         \/ SizePositive
         \/ RunPop
         \/ QueueIdle
BY DEF TunnelNext, TunnelStep, TunnelFailure, CallFails, vars, QueueIdle,
  SetRcvCallback, SetSendCallback, BuildServer, BuildServerFails, AcceptFails, AcceptFailsUnseen, AcceptRefused,
  Accept, BuildTunnel, BuildTunnelFails, SelectReturns, SelectFails, SelectFailsUnseen,
  RecvSkipped, Relay, RelayThrows, RecvEnds, SizeNotPositive, Send, CountsLate, SendKills,
  DropBinData, CallNull, DecodeThrows, PeerSends, PeerHangsUp, ResetFollows, IgnoredPeerActs

(* Each step of the program is a step the queue's specification allows.    *)
LEMMA QueueStepAllowed ==
  ASSUME [TunnelNext]_vars
  PROVE  [Next]_queueVars
<1>1. CASE \E v \in Values : QueueBinData(v)
  BY <1>1 DEF QueueBinData, Next
<1>2. CASE RunPush
  BY <1>2 DEF RunPush, Next
<1>3. CASE SizePositive
  BY <1>3 DEF SizePositive, Next
<1>4. CASE RunPop
  BY <1>4 DEF RunPop, Next
<1>5. CASE QueueIdle
  BY <1>5 DEF QueueIdle
<1> QED
  BY <1>1, <1>2, <1>3, <1>4, <1>5, QueueSteps

(* The program's steps are steps of the queue or leave it alone, so that    *)
(* the theorems about the queue can be cited for the program.              *)
LEMMA QueueContract == TunnelSpec => Spec
<1>1. TunnelInit => Init
  BY DEF TunnelInit
<1>2. [TunnelNext]_vars => [Next]_queueVars
  BY QueueStepAllowed
<1> QED
  BY <1>1, <1>2, PTL DEF TunnelSpec, Spec

(* In the running program no thread touches a deleted node of the queue.   *)
THEOREM ProgramMemorySafety == TunnelSpec => []NoUseAfterFree
BY QueueContract, MemorySafety, PTL

-----------------------------------------------------------------------------
LEMMA NewPeersType ==
  ASSUME NewPeers
  PROVE  /\ peer' \in {"open", "closed", "reset", "dead"}
         /\ sent' \in 0 .. MaxBytes /\ relayed' \in 0 .. sent'
         /\ hungUpWith' \in 0 .. MaxBytes /\ lateSends' \in Nat
         /\ ignoredReadable' \in BOOLEAN
<1>1. MaxBytes \in Nat
  BY TunnelAssumption
<1>2. 0 \in 0 .. MaxBytes /\ 0 \in 0 .. 0 /\ 0 \in Nat
  BY <1>1
<1>3. peer' \in {"open", "closed", "reset", "dead"} /\ ignoredReadable' \in BOOLEAN
  BY DEF NewPeers
<1> QED
  BY <1>2, <1>3 DEF NewPeers

LEMMA TunnelTypeStep ==
  ASSUME TunnelInv, [TunnelNext]_vars
  PROVE  TunnelTypeOK'
<1> USE TunnelAssumption
    DEF TunnelInv, TunnelTypeOK, callbackVars, socketVars, peerVars, threadVars,
        NextRound, AfterRecv, AfterQueue, unread, inTunnel, Sockets,
        Client, Remote, ServerSocket, NoSocket, Running, Readable
<1>1. CASE SetRcvCallback
  BY <1>1 DEF SetRcvCallback
<1>2. CASE SetSendCallback
  BY <1>2 DEF SetSendCallback
<1>3. CASE BuildServer
  BY <1>3 DEF BuildServer
<1>4. CASE BuildServerFails
  BY <1>4 DEF BuildServerFails
<1>5. CASE AcceptFails
  BY <1>5, NewPeersType DEF AcceptFails
<1>6. CASE AcceptRefused
  <2>1. session' \in 0 .. MaxSessions /\ client_socket' \in Sockets \ {ServerSocket, NoSocket}
    BY <1>6 DEF AcceptRefused
  <2> HIDE DEF Sockets, ServerSocket
  <2> QED
    BY <1>6, <2>1, NewPeersType DEF AcceptRefused
<1>7. CASE Accept
  BY <1>7 DEF Accept
<1>8. CASE BuildTunnel
  <2>1. session \in 1 .. MaxSessions
    BY <1>8 DEF BuildTunnel, NoStaleDescriptor
  <2>2. Remote(session) \in Sockets \ {ServerSocket, NoSocket}
    BY <2>1
  <2>3. /\ open' \subseteq Sockets \ {NoSocket}
        /\ {client_socket', remote_socket'} \subseteq Sockets \ {ServerSocket}
    <3> HIDE DEF Sockets, Remote, ServerSocket
    <3> QED
      BY <1>8, <2>2 DEF BuildTunnel
  <2> HIDE DEF Sockets, ServerSocket
  <2> QED
    BY <1>8, <2>3, NewPeersType DEF BuildTunnel
<1>9. CASE BuildTunnelFails
  <2>1. session \in 1 .. MaxSessions
    BY <1>9 DEF BuildTunnelFails, NoStaleDescriptor
  <2>2. /\ Remote(session) \in Sockets \ {ServerSocket, NoSocket}
        /\ NoSocket \in Sockets \ {ServerSocket}
    BY <2>1
  <2> HIDE DEF Sockets, Remote, ServerSocket, NoSocket
  <2> QED
    BY <1>9, <2>1, <2>2, NewPeersType DEF BuildTunnelFails
<1>10. CASE SelectReturns
  BY <1>10 DEF SelectReturns
<1>11. CASE SelectFails
  BY <1>11, NewPeersType DEF SelectFails, NoStaleDescriptor
<1>12. CASE SelectFailsUnseen
  BY <1>12 DEF SelectFailsUnseen
<1>13. CASE RecvSkipped
  BY <1>13 DEF RecvSkipped
<1>14. CASE \E k \in 1 .. BufferSize : Relay(k)
  BY <1>14 DEF Relay
<1>15. CASE RelayThrows
  BY <1>15 DEF RelayThrows
<1>16. CASE RecvEnds
  BY <1>16, NewPeersType DEF RecvEnds
<1>17. CASE SizeNotPositive
  BY <1>17 DEF SizeNotPositive
<1>18. CASE SizePositive
  BY <1>18 DEF SizePositive
<1>19. CASE RunPop
  BY <1>19 DEF RunPop, tunnelVars
<1>20. CASE Send
  <2>1. written' \in Seq(Values)
    BY <1>20 DEF Send, QueueInv, ListInv, TypeOK
  <2>2. peer' \in {"open", "closed", "reset", "dead"}
    BY <1>20 DEF Send
  <2> QED
    BY <1>20, <2>1, <2>2 DEF Send, CountsLate
<1>21. CASE SendKills
  BY <1>21 DEF SendKills, CountsLate
<1>22. CASE DropBinData
  BY <1>22 DEF DropBinData
<1>23. CASE CallNull
  BY <1>23 DEF CallNull
<1>24. CASE \E v \in Values : QueueBinData(v)
  BY <1>24 DEF QueueBinData, tunnelVars
<1>25. CASE RunPush
  BY <1>25 DEF RunPush, tunnelVars
<1>26. CASE PeerSends
  BY <1>26 DEF PeerSends
<1>27. CASE PeerHangsUp
  BY <1>27 DEF PeerHangsUp
<1>28. CASE IgnoredPeerActs
  BY <1>28 DEF IgnoredPeerActs
<1>29. CASE DecodeThrows
  BY <1>29 DEF DecodeThrows
<1>30. CASE UNCHANGED vars
  BY <1>30 DEF vars, tunnelVars, queueVars
<1>31. CASE AcceptFailsUnseen
  BY <1>31 DEF AcceptFailsUnseen
<1>32. CASE ResetFollows
  BY <1>32 DEF ResetFollows
<1> QED
  BY <1>1, <1>2, <1>3, <1>4, <1>5, <1>6, <1>7, <1>8, <1>9, <1>10, <1>11, <1>12, <1>13, <1>14, <1>15, <1>16, <1>17, <1>18, <1>19, <1>20, <1>21, <1>22, <1>23, <1>24, <1>25, <1>26, <1>27, <1>28, <1>29, <1>30, <1>31, <1>32
  DEF TunnelNext, TunnelStep, TunnelFailure, CallFails

-----------------------------------------------------------------------------
(* Steps that neither open nor close a descriptor nor leave use_tunnel.     *)
QuietStep ==
  \/ BuildServerFails \/ RelayThrows \/ SendKills \/ RunPop
  \/ DropBinData \/ CallNull \/ DecodeThrows \/ (\E v \in Values : QueueBinData(v)) \/ RunPush
  \/ PeerSends \/ PeerHangsUp \/ ResetFollows \/ IgnoredPeerActs \/ UNCHANGED vars

RoundStep ==
  \/ SelectReturns \/ SelectFailsUnseen \/ RecvSkipped
  \/ (\E k \in 1 .. BufferSize : Relay(k))
  \/ SizeNotPositive \/ SizePositive \/ Send

LEMMA StepKinds ==
  ASSUME [TunnelNext]_vars
  PROVE  \/ QuietStep \/ RoundStep
         \/ SetRcvCallback \/ SetSendCallback \/ BuildServer
         \/ AcceptFails \/ AcceptFailsUnseen \/ AcceptRefused \/ Accept \/ BuildTunnel \/ BuildTunnelFails
         \/ SelectFails \/ RecvEnds
BY DEF TunnelNext, TunnelStep, TunnelFailure, CallFails, QuietStep, RoundStep

LEMMA QuietFrame ==
  ASSUME QuietStep
  PROVE  UNCHANGED <<socketVars, threadVars>>
BY DEF QuietStep, BuildServerFails, RelayThrows, SendKills, RunPop, DropBinData, CallNull, DecodeThrows,
  QueueBinData, RunPush, PeerSends, PeerHangsUp, ResetFollows, IgnoredPeerActs, vars, tunnelVars, threadVars

LEMMA RoundFrame ==
  ASSUME RoundStep
  PROVE  inTunnel /\ inTunnel' /\ UNCHANGED <<socketVars, process, callbackVars>>
BY DEF RoundStep, SelectReturns, SelectFailsUnseen, RecvSkipped, Relay, SizeNotPositive,
  SizePositive, Send, AfterRecv, AfterQueue, inTunnel

LEMMA DescriptorStep ==
  ASSUME TunnelInv, [TunnelNext]_vars
  PROVE  NoStaleDescriptor' /\ LeaksOnlyAfterFailure'
<1> USE DEF TunnelInv, NoStaleDescriptor, LeaksOnlyAfterFailure, NextRound, NewPeers, socketVars, inTunnel
<1>1. CASE QuietStep
  BY <1>1, QuietFrame DEF threadVars
<1>2. CASE RoundStep
  BY <1>2, RoundFrame
<1>3. CASE SetRcvCallback \/ SetSendCallback
  BY <1>3 DEF SetRcvCallback, SetSendCallback
<1>4. CASE BuildServer
  BY <1>4 DEF BuildServer
<1>5. CASE AcceptFails
  BY <1>5 DEF AcceptFails
<1>12. CASE AcceptFailsUnseen
  BY <1>12 DEF AcceptFailsUnseen, TunnelTypeOK
<1>6. CASE AcceptRefused
  BY <1>6 DEF AcceptRefused, TunnelTypeOK
<1>7. CASE Accept
  BY <1>7 DEF Accept, TunnelTypeOK, Client, ServerSocket
<1>8. CASE BuildTunnel
  BY <1>8 DEF BuildTunnel, Remote, Client, ServerSocket
<1>9. CASE BuildTunnelFails
  <2>1. /\ tunnelPc = "build_tunnel" /\ tunnelPc' \in {"accept", "returned"}
        /\ failed' = failed \cup {session} /\ ServerSocket \in open
        /\ open' \subseteq open \cup {Remote(session)}
        /\ tunnelPc' = "accept" => open \subseteq open'
    BY <1>9 DEF BuildTunnelFails
  <2>2. ASSUME NEW s \in open' \ {ServerSocket} PROVE s[2] \in failed'
    <3>1. CASE s = Remote(session)
      BY <2>1, <3>1 DEF Remote
    <3>2. CASE s = client_socket
      <4>1. client_socket # NoSocket
        BY <2>1, <2>2, <3>2 DEF Remote, NoSocket, TunnelTypeOK
      <4> QED
        BY <2>1, <3>2, <4>1 DEF Client
    <3> QED
      BY <2>1, <2>2, <3>1, <3>2
  <2>3. NoStaleDescriptor'
    BY <2>1
  <2>4. LeaksOnlyAfterFailure'
    BY <2>2
  <2> QED
    BY <2>3, <2>4
<1>10. CASE SelectFails
  BY <1>10 DEF SelectFails, Client, Remote
<1>11. CASE RecvEnds
  <2>1. /\ inTunnel /\ session > 0 /\ Remote(session) = remote_socket
        /\ client_socket \in {Client(session), NoSocket}
    BY <1>11 DEF RecvEnds
  <2>2. open' \subseteq open \ {client_socket, Remote(session)}
    BY <1>11, <2>1 DEF RecvEnds
  <2>3. ASSUME NEW s \in open' \ {ServerSocket} PROVE s[2] \in failed
    BY <2>1, <2>2
  <2>4. stay_alive => ServerSocket \in open'
    BY <1>11, <2>1 DEF RecvEnds, Client, Remote, ServerSocket, NoSocket
  <2> QED
    BY <1>11, <2>3, <2>4 DEF RecvEnds
<1> QED
  BY <1>1, <1>2, <1>3, <1>4, <1>5, <1>6, <1>7, <1>8, <1>9, <1>10, <1>11, <1>12, StepKinds

-----------------------------------------------------------------------------
(* A step that is not one of Pop's callers leaves Pop's side of the queue,  *)
(* what was written, and whether the thread is in Pop, as they are.        *)
LEMMA PopFrame ==
  ASSUME [TunnelNext]_vars, ~SizePositive, ~RunPop, ~Send
  PROVE  /\ UNCHANGED <<popPc, pValue, popped, written>>
         /\ (tunnelPc' = "pop") <=> (tunnelPc = "pop")
<1>1. CASE QueueIdle
  <2>1. UNCHANGED <<popPc, pValue, popped>>
    BY <1>1 DEF QueueIdle, queueVars, popVars
  <2> QED
    BY <2>1 DEF TunnelNext, TunnelStep, TunnelFailure, CallFails, vars, tunnelVars, threadVars,
      SetRcvCallback, SetSendCallback, BuildServer, BuildServerFails, AcceptFails, AcceptFailsUnseen, AcceptRefused,
      Accept, BuildTunnel, BuildTunnelFails, SelectReturns, SelectFails, SelectFailsUnseen,
      RecvSkipped, Relay, RelayThrows, RecvEnds, SizeNotPositive, SendKills,
      DropBinData, CallNull, DecodeThrows, QueueBinData, RunPush, PeerSends, PeerHangsUp, ResetFollows, IgnoredPeerActs,
      NextRound, NewPeers, AfterRecv, AfterQueue
<1>2. CASE (\E v \in Values : QueueBinData(v)) \/ RunPush
  BY <1>2 DEF QueueBinData, RunPush, PushAllocate, PushStep, PushLink, PushSwing,
    IncrementLoad, IncrementStore, tunnelVars, threadVars, popVars
<1> QED
  BY <1>1, <1>2, QueueSteps

LEMMA WrittenStep ==
  ASSUME TunnelInv, [TunnelNext]_vars
  PROVE  PopInRound' /\ WrittenOnceInOrder'
<1> USE DEF TunnelInv, PopInRound, WrittenOnceInOrder, InHand
<1>1. CASE ~SizePositive /\ ~RunPop /\ ~Send
  BY <1>1, PopFrame
<1>2. CASE SizePositive
  BY <1>2 DEF SizePositive, GetSizePositive
<1>3. CASE RunPop
  <2>1. tunnelPc = "pop" /\ UNCHANGED <<tunnelPc, written>>
    BY <1>3 DEF RunPop, tunnelVars, threadVars
  <2>2. CASE PopEmpty
    <3>1. written = written \o <<>>
      BY DEF TunnelTypeOK
    <3> QED
      BY <2>1, <2>2, <3>1 DEF PopEmpty
  <2>3. CASE PopRead \/ PopValue
    BY <2>1, <2>3 DEF PopRead, PopValue
  <2>4. CASE PopSwing
    <3>1. pNewHeadNode \in 1 .. Len(pValuePointer) /\ pValue = <<pValuePointer[pNewHeadNode]>>
      BY <2>4, MaxPushAssumption
      DEF PopSwing, QueueInv, ListInv, PopLocals, TypeOK, LastLinked, pNewNode, Nodes, NULL
    <3>2. PICK x \in Values : pValue = <<x>>
      BY <3>1 DEF QueueInv, ListInv, TypeOK
    <3>3. Append(written, x) = written \o <<x>>
      BY DEF TunnelTypeOK
    <3> QED
      BY <2>1, <2>4, <3>2, <3>3 DEF PopSwing
  <2>5. CASE DecrementLoad \/ DecrementStore \/ PopDelete
    BY <2>1, <2>5 DEF DecrementLoad, DecrementStore, PopDelete
  <2> QED
    BY <1>3, <2>2, <2>3, <2>4, <2>5 DEF RunPop, PopStep
<1>4. CASE Send
  BY <1>4 DEF Send, AfterQueue, queueVars, popVars
<1> QED
  BY <1>1, <1>2, <1>3, <1>4

-----------------------------------------------------------------------------
LEMMA HangUpStep ==
  ASSUME TunnelInv, [TunnelNext]_vars
  PROVE  HangUpInv' /\ FewLateSends'
<1> USE DEF TunnelInv, HangUpInv, FewLateSends, unread, inTunnel, Running
<1>1. CASE PeerSends \/ PeerHangsUp \/ ResetFollows \/ IgnoredPeerActs
  BY <1>1 DEF PeerSends, PeerHangsUp, ResetFollows, IgnoredPeerActs, threadVars, TunnelTypeOK
<1>2. CASE Send
  BY <1>2 DEF Send, CountsLate, AfterQueue, TunnelTypeOK
<1>3. CASE SendKills
  BY <1>3 DEF SendKills, CountsLate, threadVars, TunnelTypeOK
<1>4. CASE BuildTunnel
  BY <1>4 DEF BuildTunnel, NewPeers
<1>5. CASE \E k \in 1 .. BufferSize : Relay(k)
  BY <1>5, TunnelAssumption DEF Relay, AfterRecv, peerVars, TunnelTypeOK
<1>6. CASE SelectReturns \/ SelectFailsUnseen
  BY <1>6 DEF SelectReturns, SelectFailsUnseen, Readable, peerVars
<1>9. CASE RecvSkipped \/ SizeNotPositive \/ SizePositive
  BY <1>9 DEF RecvSkipped, SizeNotPositive, SizePositive, AfterRecv, AfterQueue, peerVars, TunnelTypeOK
<1>7. CASE \/ SetRcvCallback \/ SetSendCallback \/ BuildServer \/ AcceptFails \/ AcceptFailsUnseen
           \/ AcceptRefused \/ Accept \/ BuildTunnelFails \/ SelectFails \/ RecvEnds
  BY <1>7 DEF SetRcvCallback, SetSendCallback, BuildServer, AcceptFails, AcceptFailsUnseen, AcceptRefused,
    Accept, BuildTunnelFails, SelectFails, RecvEnds, NextRound, NewPeers, peerVars
<1>8. CASE \/ BuildServerFails \/ RelayThrows \/ RunPop \/ DropBinData \/ CallNull \/ DecodeThrows
           \/ (\E v \in Values : QueueBinData(v)) \/ RunPush \/ UNCHANGED vars
  BY <1>8 DEF BuildServerFails, RelayThrows, RunPop, DropBinData, CallNull, DecodeThrows, QueueBinData,
    RunPush, vars, tunnelVars, peerVars, threadVars
<1> QED
  BY <1>1, <1>2, <1>3, <1>4, <1>5, <1>6, <1>7, <1>8, <1>9, StepKinds
  DEF QuietStep, RoundStep

-----------------------------------------------------------------------------
LEMMA CallbackStep ==
  ASSUME TunnelInv, [TunnelNext]_vars
  PROVE  CallbackInv'
<1>1. rcv_callback => rcv_callback'
  BY DEF TunnelNext, TunnelStep, TunnelFailure, CallFails, vars, tunnelVars, callbackVars,
    SetRcvCallback, SetSendCallback, BuildServer, BuildServerFails, AcceptFails, AcceptFailsUnseen, AcceptRefused,
    Accept, BuildTunnel, BuildTunnelFails, SelectReturns, SelectFails, SelectFailsUnseen,
    RecvSkipped, Relay, RelayThrows, RecvEnds, SizeNotPositive, SizePositive, RunPop, Send,
    SendKills, CountsLate, DropBinData, CallNull, DecodeThrows, QueueBinData, RunPush, PeerSends, PeerHangsUp, ResetFollows, IgnoredPeerActs
<1>2. CASE \E v \in Values : QueueBinData(v)
  BY <1>1, <1>2 DEF QueueBinData, CallbackInv
<1>3. CASE RunPush
  BY <1>1, <1>3 DEF RunPush, PushStep, PushLink, PushSwing, IncrementLoad, IncrementStore,
    listVars, TunnelInv, CallbackInv
<1>4. CASE SizePositive
  BY <1>1, <1>4 DEF SizePositive, GetSizePositive, listVars, TunnelInv, CallbackInv
<1>5. CASE RunPop
  BY <1>1, <1>5 DEF RunPop, PopStep, PopEmpty, PopRead, PopValue, PopSwing, DecrementLoad,
    DecrementStore, PopDelete, listVars, TunnelInv, CallbackInv
<1>6. CASE QueueIdle
  BY <1>1, <1>6 DEF QueueIdle, queueVars, listVars, TunnelInv, CallbackInv
<1> QED
  BY <1>2, <1>3, <1>4, <1>5, <1>6, QueueSteps

LEMMA TunnelInitInv == TunnelInit => TunnelInv
<1> SUFFICES ASSUME TunnelInit PROVE TunnelInv
  OBVIOUS
<1>1. QueueInv
  BY InitInv DEF TunnelInit
<1>2. TunnelTypeOK
  <2>1. NoSocket \in Sockets \ {ServerSocket}
    BY DEF Sockets, NoSocket, ServerSocket
  <2>2. written \in Seq(Values)
    BY DEF TunnelInit
  <2>3. /\ dropped \in 0 .. MaxDropped /\ session \in 0 .. MaxSessions
        /\ sent \in 0 .. MaxBytes /\ relayed \in 0 .. sent /\ hungUpWith \in 0 .. MaxBytes
        /\ lateSends \in Nat
    BY TunnelAssumption DEF TunnelInit
  <2>4. {rcv_callback, send_callback, isSet, ignoredReadable} \subseteq BOOLEAN
    BY DEF TunnelInit
  <2>5. open \subseteq Sockets \ {NoSocket} /\ failed \subseteq 1 .. MaxSessions
    BY DEF TunnelInit
  <2> QED
    BY <2>1, <2>2, <2>3, <2>4, <2>5 DEF TunnelInit, TunnelTypeOK
<1>3. NoStaleDescriptor /\ LeaksOnlyAfterFailure /\ HangUpInv /\ FewLateSends
  BY DEF TunnelInit, NoStaleDescriptor, LeaksOnlyAfterFailure, HangUpInv,
    FewLateSends, inTunnel
<1>4. PopInRound /\ WrittenOnceInOrder /\ CallbackInv
  BY DEF TunnelInit, Init, PopInRound, WrittenOnceInOrder, InHand, CallbackInv
<1> QED
  BY <1>1, <1>2, <1>3, <1>4 DEF TunnelInv

(* In every reachable state, on either side and for every number of         *)
(* sessions, bytes and messages: the queue's invariant, the types, which    *)
(* descriptors are open, what was written, and how many sends may follow a  *)
(* hang-up.                                                                 *)
THEOREM TunnelInvariant == TunnelSpec => []TunnelInv
<1>1. TunnelInv /\ [TunnelNext]_vars => TunnelInv'
  <2> SUFFICES ASSUME TunnelInv, [TunnelNext]_vars PROVE TunnelInv'
    OBVIOUS
  <2>1. QueueInv'
    BY QueueStepAllowed, QueueInvStep DEF TunnelInv
  <2> QED
    BY <2>1, TunnelTypeStep, DescriptorStep, WrittenStep, HangUpStep, CallbackStep
    DEF TunnelInv
<1> QED
  BY <1>1, TunnelInitInv, PTL DEF TunnelSpec

(* select(), recv() and send() are never given a descriptor that a session *)
(* before has closed: it is this session's and open, or, in the Windows     *)
(* build, no socket at all, as accept's failure goes unseen there.         *)
THEOREM DescriptorsAreFresh == TunnelSpec => []NoStaleDescriptor
<1>1. TunnelInv => NoStaleDescriptor
  BY DEF TunnelInv
<1> QED
  BY <1>1, TunnelInvariant, PTL

(* Only build_tunnel's failures and those of select() leak descriptors.     *)
THEOREM LeakFreedom == TunnelSpec => []LeaksOnlyAfterFailure
<1>1. TunnelInv => LeaksOnlyAfterFailure
  BY DEF TunnelInv
<1> QED
  BY <1>1, TunnelInvariant, PTL

(* Every value that leaves the queue is passed to send() once, in order.    *)
THEOREM ExactlyOnceWriting == TunnelSpec => []WrittenOnceInOrder
<1>1. TunnelInv => WrittenOnceInOrder
  BY DEF TunnelInv
<1> QED
  BY <1>1, TunnelInvariant, PTL

(* A client that hangs up costs at most one payload more than it has left   *)
(* bytes unread, however many are queued for it.                            *)
THEOREM LateSendsBounded == TunnelSpec => []FewLateSends
<1>1. TunnelInv => FewLateSends
  BY DEF TunnelInv
<1> QED
  BY <1>1, TunnelInvariant, PTL

(* The queue as the network thread's null call would find it, and the steps *)
(* of the tunnel thread that come after its start.                         *)
LEMMA StartQueueStep ==
  ASSUME StartInv, [TunnelNext]_vars, Side = "linux", ~send_callback', send_callback' = send_callback
  PROVE  pValuePointer' = <<>>
<1>1. CASE \E v \in Values : QueueBinData(v)
  BY <1>1 DEF QueueBinData
<1>2. CASE RunPush
  BY <1>2 DEF RunPush, PushStep, PushLink, PushSwing, IncrementLoad, IncrementStore,
    listVars, StartInv
<1>3. CASE SizePositive
  BY <1>3 DEF SizePositive, GetSizePositive, listVars, StartInv
<1>4. CASE RunPop
  BY <1>4 DEF RunPop, PopStep, PopEmpty, PopRead, PopValue, PopSwing, DecrementLoad,
    DecrementStore, PopDelete, listVars, StartInv
<1>5. CASE QueueIdle
  BY <1>5 DEF QueueIdle, queueVars, listVars, StartInv
<1> QED
  BY <1>1, <1>2, <1>3, <1>4, <1>5, QueueSteps

LEMMA StartStep ==
  ASSUME StartInv, [TunnelNext]_vars
  PROVE  StartInv'
<1>1. CASE QuietStep
  <2>1. UNCHANGED <<session, tunnelPc, send_callback>>
    BY <1>1, QuietFrame DEF socketVars, threadVars, QuietStep, BuildServerFails, RelayThrows,
      SendKills, RunPop, DropBinData, CallNull, DecodeThrows, QueueBinData, RunPush, PeerSends,
      PeerHangsUp, ResetFollows, IgnoredPeerActs, vars, tunnelVars, callbackVars
  <2>2. Side = "linux" /\ ~send_callback' => pValuePointer' = <<>>
    BY <2>1, StartQueueStep
  <2>3. NullCallOnlyAtStart'
    <3>1. CASE CallNull
      BY <3>1 DEF CallNull, StartInv, NullCallOnlyAtStart, socketVars, queueVars, listVars, threadVars
    <3>2. CASE process' = "nullcall" /\ ~CallNull
      <4>1. ~Running /\ UNCHANGED vars
        BY <1>1, <3>2 DEF QuietStep, BuildServerFails, RelayThrows, SendKills, RunPop, DropBinData,
          DecodeThrows, QueueBinData, RunPush, PeerSends, PeerHangsUp, ResetFollows, IgnoredPeerActs,
          vars, tunnelVars, Running
      <4> QED
        BY <4>1 DEF StartInv, NullCallOnlyAtStart, vars, tunnelVars, socketVars, queueVars, listVars
    <3> QED
      BY <3>1, <3>2 DEF NullCallOnlyAtStart
  <2> QED
    BY <2>1, <2>2, <2>3 DEF StartInv
<1>2. CASE RoundStep
  <2>1. UNCHANGED <<session, send_callback, process>> /\ inTunnel /\ inTunnel'
    BY <1>2, RoundFrame DEF socketVars, callbackVars
  <2>2. Running
    BY <1>2 DEF RoundStep, SelectReturns, SelectFailsUnseen, RecvSkipped, Relay,
      SizeNotPositive, SizePositive, Send
  <2> QED
    BY <2>1, <2>2, StartQueueStep DEF StartInv, NullCallOnlyAtStart, inTunnel, Running
<1>3. CASE SetRcvCallback
  BY <1>3 DEF SetRcvCallback, StartInv, NullCallOnlyAtStart,
    Running, socketVars, queueVars, listVars
<1>5. CASE SetSendCallback
  BY <1>5 DEF SetSendCallback, StartInv, NullCallOnlyAtStart,
    Running, socketVars, queueVars, listVars
<1>6. CASE BuildServer
  BY <1>6 DEF BuildServer, StartInv, NullCallOnlyAtStart,
    Running, callbackVars, queueVars, listVars
<1>4. CASE AcceptFails \/ AcceptFailsUnseen \/ AcceptRefused \/ Accept \/ BuildTunnel \/ BuildTunnelFails
           \/ SelectFails \/ RecvEnds
  BY <1>4 DEF AcceptFails, AcceptFailsUnseen, AcceptRefused, Accept, BuildTunnel, BuildTunnelFails, SelectFails,
    RecvEnds, NextRound, NewPeers, StartInv, NullCallOnlyAtStart, Running, callbackVars, queueVars, listVars
<1> QED
  BY <1>1, <1>2, <1>3, <1>4, <1>5, <1>6, StepKinds

(* The call of an unset send_callback is confined to the start of the      *)
(* process, however many clients come later and however long it runs.      *)
THEOREM NullCallConfined == TunnelSpec => []NullCallOnlyAtStart
<1>1. TunnelInit => StartInv
  BY DEF TunnelInit, Init, StartInv, NullCallOnlyAtStart
<1>2. StartInv /\ [TunnelNext]_vars => StartInv'
  BY StartStep
<1>3. StartInv => NullCallOnlyAtStart
  BY DEF StartInv
<1> QED
  BY <1>1, <1>2, <1>3, PTL DEF TunnelSpec

(* Messages that find no callback come before all that are queued.          *)
THEOREM StartupDrops == TunnelSpec => DropsPrecedePushes
<1>1. TunnelInv /\ [TunnelNext]_vars => [dropped' # dropped => pValuePointer = <<>>]_vars
  <2> SUFFICES ASSUME TunnelInv, [TunnelNext]_vars, dropped' # dropped
               PROVE  pValuePointer = <<>>
    OBVIOUS
  <2>1. DropBinData
    BY DEF TunnelNext, TunnelStep, TunnelFailure, CallFails, vars, tunnelVars, callbackVars,
      SetRcvCallback, SetSendCallback, BuildServer, BuildServerFails, AcceptFails, AcceptFailsUnseen, AcceptRefused,
      Accept, BuildTunnel, BuildTunnelFails, SelectReturns, SelectFails, SelectFailsUnseen,
      RecvSkipped, Relay, RelayThrows, RecvEnds, SizeNotPositive, SizePositive, RunPop, Send,
      SendKills, CallNull, DecodeThrows, QueueBinData, RunPush, PeerSends, PeerHangsUp, ResetFollows, IgnoredPeerActs
  <2> QED
    BY <2>1 DEF DropBinData, TunnelInv, CallbackInv
<1> QED
  BY <1>1, TunnelInvariant, PTL DEF TunnelSpec, DropsPrecedePushes
=============================================================================
