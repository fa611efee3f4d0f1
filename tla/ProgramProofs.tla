---------------------------- MODULE ProgramProofs ----------------------------
(* What is proved of the tunnel thread and of the server holds in the whole *)
(* process, whose steps are steps of each or leave it alone, and both       *)
(* together hand on what is received.                                      *)
EXTENDS Program, TcpTunnelProofs

(* Each step of the process is one of the tunnel thread, its callbacks and  *)
(* its peers, or changes nothing of theirs.                                *)
LEMMA TunnelSimulation == [ProgramNext]_programVars => [TunnelNext]_vars
<1> SUFFICES ASSUME [ProgramNext]_programVars
             PROVE  [TunnelNext]_vars
  OBVIOUS
<1>1. CASE Round(TunnelStep) \/ Round(Accept \/ AcceptRefused \/ CallFails)
  BY <1>1 DEF Round, TunnelNext, TunnelFailure
<1>2. CASE RelayBegins \/ RelaySends \/ RelayEnds
  BY <1>2 DEF RelayBegins, RelaySends, RelayEnds
<1>3. CASE NetworkingThread \/ Clients \/ MainThread \/ InputThread \/ InputLine
  BY <1>3 DEF NetworkingThread, Clients, MainThread, InputThread, InputLine, OfServer
<1>4. CASE OfServer(S!EchoThrows)
  BY <1>4 DEF OfServer
<1>5. CASE BinData \/ Pushes \/ Peers
  BY <1>5 DEF BinData, Pushes, Peers, TunnelNext
<1>6. CASE UNCHANGED programVars
  BY <1>6 DEF programVars
<1> QED
  BY <1>1, <1>2, <1>3, <1>4, <1>5, <1>6 DEF ProgramNext, TunnelThread

(* Composing leaves the tunnel's steps as they are.                        *)
LEMMA TunnelImplemented == ProgramSpec => TunnelSpec
<1>1. ProgramInit => TunnelInit
  BY DEF ProgramInit
<1> QED
  BY <1>1, TunnelSimulation, PTL DEF ProgramSpec, TunnelSpec

(* The tunnel thread's inductive invariant in the whole process: the queue's *)
(* invariant and the types, no descriptor of another session, no leak but   *)
(* after a failure, each popped value passed to send() once and in order,   *)
(* and few sends after a hang-up.                                           *)
THEOREM TunnelInvInProgram == ProgramSpec => []TunnelInv
BY TunnelImplemented, TunnelInvariant, PTL

(* Each step of the process is one of the server's threads and clients, or  *)
(* changes nothing of theirs.                                              *)
LEMMA ServerSimulation == [ProgramNext]_programVars => [S!Next]_(S!vars)
<1> SUFFICES ASSUME [ProgramNext]_programVars
             PROVE  [S!Next]_(S!vars)
  OBVIOUS
<1>1. UNCHANGED serverVars => UNCHANGED S!vars
  BY DEF serverVars, S!vars, S!connVars, S!listVars, S!handlerVars, S!mainVars, S!bcastVars
<1>2. CASE Round(TunnelStep) \/ Round(Accept \/ AcceptRefused \/ CallFails)
  BY <1>1, <1>2 DEF Round
<1>3. CASE RelayBegins \/ RelaySends \/ RelayEnds
  BY <1>3 DEF RelayBegins, RelaySends, RelayEnds, S!Next, S!BroadcastStep
<1>4. CASE NetworkingThread \/ Clients \/ MainThread
  BY <1>4 DEF NetworkingThread, Clients, MainThread, OfServer, S!Next
<1>5. CASE InputThread \/ InputLine
  BY <1>5 DEF InputThread, InputLine, OfServer, S!Next, S!BroadcastStep
<1>6. CASE OfServer(S!EchoThrows)
  BY <1>6 DEF OfServer, S!Next
<1>7. CASE BinData \/ Pushes \/ Peers
  BY <1>1, <1>7 DEF BinData, Pushes, Peers
<1>8. CASE UNCHANGED programVars
  BY <1>1, <1>8 DEF programVars, serverVars
<1> QED
  BY <1>2, <1>3, <1>4, <1>5, <1>6, <1>7, <1>8 DEF ProgramNext, TunnelThread

(* Composing leaves the server's steps as they are.                        *)
LEMMA ServerImplemented == ProgramSpec => S!Spec
<1>1. ProgramInit => S!Init
  BY DEF ProgramInit
<1> QED
  BY <1>1, ServerSimulation, PTL DEF ProgramSpec, S!Spec

-----------------------------------------------------------------------------
(* The server's theorems, for the process.  S and SP instantiate the same   *)
(* definitions for the same variables.                                     *)
SP == INSTANCE WebsocketServerProofs WITH process <- serverProcess, Broadcasters <- {"input", "tunnel"}

LEMMA ServerAssumptions == SP!BoundsAssumption /\ SP!NamesAssumption
BY ProgramAssumption DEF SP!BoundsAssumption, SP!NamesAssumption

LEMMA SameInit == S!Init <=> SP!Init
BY DEF S!Init, SP!Init, S!Never, SP!Never

LEMMA SameStutter == UNCHANGED S!vars <=> UNCHANGED SP!vars
BY DEF S!vars, SP!vars, S!connVars, SP!connVars, S!listVars, SP!listVars, S!handlerVars, SP!handlerVars, S!mainVars,
  SP!mainVars, S!bcastVars, SP!bcastVars

LEMMA SameNext == S!Next <=> SP!Next
<1> USE DEF S!Running, SP!Running, S!NetIdle, SP!NetIdle, S!Send, SP!Send, S!Invoke, SP!Invoke, S!Post,
        SP!Post, S!Close, SP!Close, S!Keep, SP!Keep, S!Never, SP!Never, S!connVars, SP!connVars, S!listVars,
        SP!listVars, S!handlerVars, SP!handlerVars, S!mainVars, SP!mainVars, S!bcastVars,
        SP!bcastVars
<1>1. S!Listens <=> SP!Listens
  BY DEF S!Listens, SP!Listens
<1>2. S!ListenThrows <=> SP!ListenThrows
  BY DEF S!ListenThrows, SP!ListenThrows
<1>3. S!Registers <=> SP!Registers
  BY DEF S!Registers, SP!Registers
<1>4. S!TakeTask <=> SP!TakeTask
  BY DEF S!TakeTask, SP!TakeTask
<1>5. S!SendReply <=> SP!SendReply
  BY DEF S!SendReply, SP!SendReply
<1>6. S!EchoThrows <=> SP!EchoThrows
  BY DEF S!EchoThrows, SP!EchoThrows
<1>7. ASSUME NEW c \in Conns PROVE S!onOpen(c) <=> SP!onOpen(c)
  BY DEF S!onOpen, SP!onOpen
<1>8. ASSUME NEW c \in Conns PROVE S!WriteFrame(c) <=> SP!WriteFrame(c)
  BY DEF S!WriteFrame, SP!WriteFrame
<1>9. ASSUME NEW c \in Conns PROVE S!HandleTerminate(c) <=> SP!HandleTerminate(c)
  BY DEF S!HandleTerminate, SP!HandleTerminate
<1>10. ASSUME NEW c \in Conns PROVE S!onClose(c) <=> SP!onClose(c)
  BY DEF S!onClose, SP!onClose
<1>11. ASSUME NEW c \in Conns PROVE S!Opens(c) <=> SP!Opens(c)
  BY DEF S!Opens, SP!Opens
<1>12. ASSUME NEW c \in Conns PROVE S!ReceivesClose(c) <=> SP!ReceivesClose(c)
  BY DEF S!ReceivesClose, SP!ReceivesClose
<1>13. ASSUME NEW c \in Conns PROVE S!ConnectionFails(c) <=> SP!ConnectionFails(c)
  BY DEF S!ConnectionFails, SP!ConnectionFails
<1>14. ASSUME NEW c \in Conns PROVE S!onMessage(c) <=> SP!onMessage(c)
  BY DEF S!onMessage, SP!onMessage
<1>15. ASSUME NEW c \in Conns PROVE S!onMessageThrows(c) <=> SP!onMessageThrows(c)
  BY DEF S!onMessageThrows, SP!onMessageThrows
<1>16. ASSUME NEW t \in {"input", "tunnel"} PROVE S!BroadcastBegins(t) <=> SP!BroadcastBegins(t)
  BY DEF S!BroadcastBegins, SP!BroadcastBegins
<1>17. ASSUME NEW t \in {"input", "tunnel"} PROVE S!BroadcastSends(t) <=> SP!BroadcastSends(t)
  BY DEF S!BroadcastSends, SP!BroadcastSends
<1>18. ASSUME NEW t \in {"input", "tunnel"} PROVE S!BroadcastEnds(t) <=> SP!BroadcastEnds(t)
  BY DEF S!BroadcastEnds, SP!BroadcastEnds
<1> QED
  BY <1>1, <1>2, <1>3, <1>4, <1>5, <1>6, <1>7, <1>8, <1>9, <1>10, <1>11, <1>12, <1>13, <1>14, <1>15, <1>16, <1>17, <1>18
     DEF S!Next, SP!Next, S!NetStep, SP!NetStep, S!ClientStep, SP!ClientStep, S!MainStep,
         SP!MainStep, S!BroadcastStep, SP!BroadcastStep

LEMMA SameGap == SP!BroadcastsWithoutGap <=> S!BroadcastsWithoutGap
BY DEF S!BroadcastsWithoutGap, SP!BroadcastsWithoutGap, S!Running, SP!Running, S!ListedConns,
       SP!ListedConns, S!Given, SP!Given, S!Newest, SP!Newest, S!Place, SP!Place, S!Keep, SP!Keep

(* Also in the process, each listed connection is given the broadcasts of   *)
(* the keyboard and those of the tunnel without a gap (broadcastMessage).  *)
THEOREM BroadcastsInProgram == ProgramSpec => []S!BroadcastsWithoutGap
<1>1. S!Init => SP!Init
  BY SameInit
<1>2. [S!Next]_(S!vars) => [SP!Next]_(SP!vars)
  BY SameNext, SameStutter
<1>3. SP!Spec => []SP!BroadcastsWithoutGap
  BY SP!BroadcastsInvariant, ServerAssumptions, PTL
<1>4. SP!BroadcastsWithoutGap => S!BroadcastsWithoutGap
  BY SameGap
<1> QED
  BY <1>1, <1>2, <1>3, <1>4, ServerImplemented, PTL DEF S!Spec, SP!Spec

-----------------------------------------------------------------------------
(* The frames of the tunnel and its broadcasts.                             *)

(* A broadcast of the tunnel has the number of the newest frame, and its    *)
(* thread has the lock while it is in one.                                 *)
RelayInv ==
  /\ frames \in Seq(Nat)
  /\ DOMAIN count = {"input", "tunnel"}
  /\ relaying \in {"no", "called", "broadcast"}
  /\ relaying = "broadcast" <=> connectionListMutex = "tunnel"
  /\ count["tunnel"] = IF relaying = "called" THEN Len(frames) - 1 ELSE Len(frames)

LEMMA RelayInit == ProgramInit => RelayInv
BY DEF ProgramInit, RelayInv, S!Init, S!Never

(* A step of the server in which the tunnel thread has no part. *)
LEMMA RelayApart ==
  ASSUME RelayInv, UNCHANGED relayVars, connectionListMutex # "tunnel" <=> connectionListMutex' # "tunnel",
         DOMAIN count' = DOMAIN count, count'["tunnel"] = count["tunnel"]
  PROVE  RelayInv'
BY DEF RelayInv, relayVars

LEMMA RelayStep == TunnelTypeOK' /\ RelayInv /\ [ProgramNext]_programVars => RelayInv'
<1> SUFFICES ASSUME TunnelTypeOK', RelayInv, [ProgramNext]_programVars PROVE RelayInv'
  OBVIOUS
<1>1. CASE Round(TunnelStep) \/ Round(Accept \/ AcceptRefused \/ CallFails)
  <2>1. /\ relaying = "no" /\ UNCHANGED <<count, connectionListMutex>>
        /\ \/ relaying' = "called" /\ frames' = Append(frames, relayed')
           \/ relaying' = "no" /\ frames' = frames
    BY <1>1 DEF Round, serverVars
  <2>2. relayed' \in Nat /\ frames \in Seq(Nat)
    BY TunnelAssumption DEF TunnelTypeOK, RelayInv
  <2>3. CASE relaying' = "called" /\ frames' = Append(frames, relayed')
    <3>1. frames' \in Seq(Nat) /\ Len(frames') = Len(frames) + 1
      BY <2>2, <2>3
    <3>2. Len(frames) = Len(frames') - 1
      BY <2>2, <3>1
    <3> QED
      BY <2>1, <2>3, <3>1, <3>2 DEF RelayInv
  <2> QED
    BY <2>1, <2>3 DEF RelayInv
<1>2. CASE RelayBegins
  <2>1. /\ relaying = "called" /\ relaying' = "broadcast" /\ frames' = frames
        /\ connectionListMutex' = "tunnel" /\ count' = [count EXCEPT !["tunnel"] = @ + 1]
    BY <1>2 DEF RelayBegins, S!BroadcastBegins
  <2> QED
    BY <2>1 DEF RelayInv
<1>3. CASE RelayEnds
  <2>1. /\ connectionListMutex = "tunnel" /\ connectionListMutex' = "free"
        /\ relaying' = "no" /\ frames' = frames /\ count' = count
    BY <1>3 DEF RelayEnds, S!BroadcastEnds, S!bcastVars
  <2> QED
    BY <2>1 DEF RelayInv
<1>4. CASE RelaySends \/ OfServer(S!EchoThrows) \/ MainThread
  <2>1. UNCHANGED <<relayVars, connectionListMutex, count>>
    BY <1>4 DEF RelaySends, OfServer, MainThread, S!MainStep, S!TakeTask, S!SendReply, S!EchoThrows,
      S!BroadcastSends, S!listVars, S!bcastVars
  <2> QED
    BY <2>1, RelayApart
<1>5. CASE NetworkingThread \/ Clients
  <2>1. UNCHANGED <<relayVars, connectionListMutex, count>>
    BY <1>5 DEF NetworkingThread, Clients, OfServer, S!NetStep, S!ClientStep, S!ListenThrows, S!Listens,
      S!Registers, S!onOpen, S!WriteFrame, S!HandleTerminate, S!onClose, S!Opens, S!ReceivesClose,
      S!ConnectionFails, S!onMessage, S!onMessageThrows, S!listVars, S!bcastVars
  <2> QED
    BY <2>1, RelayApart
<1>6. CASE InputThread \/ InputLine
  <2>1. /\ UNCHANGED relayVars
        /\ connectionListMutex # "tunnel" /\ connectionListMutex' # "tunnel"
        /\ count' = count \/ count' = [count EXCEPT !["input"] = @ + 1]
    BY <1>6 DEF InputThread, InputLine, OfServer, S!BroadcastBegins, S!BroadcastSends, S!BroadcastEnds,
      S!listVars, S!bcastVars
  <2>2. DOMAIN count' = DOMAIN count /\ count'["tunnel"] = count["tunnel"]
    BY <2>1 DEF RelayInv
  <2> QED
    BY <2>1, <2>2, RelayApart
<1>7. CASE BinData \/ Pushes \/ Peers \/ UNCHANGED programVars
  <2>1. UNCHANGED <<relayVars, connectionListMutex, count>>
    BY <1>7 DEF BinData, Pushes, Peers, programVars, serverVars
  <2> QED
    BY <2>1, RelayApart
<1> QED
  BY <1>1, <1>2, <1>3, <1>4, <1>5, <1>6, <1>7 DEF ProgramNext, TunnelThread

LEMMA GapIsHandedOn == RelayInv /\ S!BroadcastsWithoutGap => AllHandedOn
<1> SUFFICES ASSUME RelayInv, S!BroadcastsWithoutGap, S!Running, relaying = "no",
                    NEW c \in S!ListedConns
             PROVE  /\ Len(S!Given(c, "tunnel")) = Len(frames) - since[c]["tunnel"]
                    /\ \A i \in DOMAIN S!Given(c, "tunnel") :
                         S!Given(c, "tunnel")[i][2] = since[c]["tunnel"] + i
  BY DEF AllHandedOn, Alive
<1>1. S!Newest(c, "tunnel") = Len(frames)
  BY DEF RelayInv, S!Newest
<1> QED
  BY <1>1 DEF S!BroadcastsWithoutGap

(* A websocket client that is listed has been given, whenever the tunnel    *)
(* thread is in its round, exactly the frames of the bytes received since   *)
(* it was listed, in order and once, for both sides and any number of       *)
(* connections, sessions and bytes (use_tunnel, broadcastMessage).         *)
THEOREM HandedOn == ProgramSpec => []AllHandedOn
<1>1. TunnelInv => TunnelTypeOK
  BY DEF TunnelInv
<1> QED
  BY <1>1, RelayInit, RelayStep, GapIsHandedOn, TunnelInvInProgram, BroadcastsInProgram, PTL
     DEF ProgramSpec
=============================================================================
