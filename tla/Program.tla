------------------------------- MODULE Program -------------------------------
(***************************************************************************)
(* The whole process that server.cpp starts: TcpTunnel and WebsocketServer *)
(* composed.  Where each of them is open, the other closes it:             *)
(*                                                                         *)
(*   - what the tunnel thread receives it broadcasts, and is back in its   *)
(*     round only when broadcastMessage returns (relaying); the two        *)
(*     outcomes that TcpTunnel gives a broadcast are those of its loop;    *)
(*   - a BIN_DATA message comes from an open connection, and the one       *)
(*     networking thread is in its Push or in a handler, never in both;    *)
(*   - whatever ends the process ends all threads.                         *)
(***************************************************************************)
EXTENDS TcpTunnel

CONSTANTS
  Conns,          \* the connections that may be opened
  MaxBroadcasts,  \* bound: how often a thread broadcasts
  MaxInputs,      \* bound: how many lines the input thread reads
  MaxMessages     \* bound: how many JSON messages the clients send

ASSUME ProgramAssumption == {MaxBroadcasts, MaxInputs, MaxMessages} \subseteq Nat

VARIABLES
  relaying,       \* "no", or where the tunnel thread is in broadcastMessage
  frames,         \* history: what relayed was after each recv that was broadcast
  serverProcess, state, outbox, received, openConnections, connectionListMutex,
  eventLoop, handlers, netTask, mainQueue, mainTask, count, position, since, messages

S == INSTANCE WebsocketServer WITH process <- serverProcess, Broadcasters <- {"input", "tunnel"}

relayVars == <<relaying, frames>>
serverVars == <<serverProcess, state, outbox, received, openConnections, connectionListMutex,
                eventLoop, handlers, netTask, mainQueue, mainTask, count, position, since, messages>>
programVars == <<vars, relayVars, serverVars>>

ProgramInit ==
  /\ TunnelInit
  /\ S!Init
  /\ relaying = "no"
  /\ frames = <<>>

-----------------------------------------------------------------------------
(* The tunnel thread, in its round or in broadcastMessage.                  *)

Round(Steps) ==
  /\ S!Running /\ relaying = "no"
  /\ Steps
  /\ relaying' = IF relayed' > relayed THEN "called" ELSE "no"
  /\ frames' = IF relayed' > relayed THEN Append(frames, relayed') ELSE frames
  /\ UNCHANGED serverVars

\* variant: what is received while the list is locked is not broadcast
RelayBegins_TryLock ==
  /\ Running /\ relaying = "called"
  /\ \/ S!BroadcastBegins("tunnel") /\ relaying' = "broadcast"
     \/ connectionListMutex # "free" /\ S!Running /\ UNCHANGED serverVars /\ relaying' = "no"
  /\ UNCHANGED <<vars, frames>>

RelayBegins ==
  /\ Running /\ relaying = "called"
  /\ S!BroadcastBegins("tunnel")
  /\ relaying' = "broadcast"
  /\ UNCHANGED <<vars, frames>>

RelaySends ==
  /\ Running /\ S!BroadcastSends("tunnel")
  /\ UNCHANGED <<vars, relayVars>>

\* variant: the broadcast returns before it has reached the end of the list
RelayEnds_Early ==
  /\ Running /\ S!Running /\ relaying = "broadcast"
  /\ connectionListMutex' = "free"
  /\ relaying' = "no"
  /\ UNCHANGED <<vars, frames, serverProcess, state, outbox, received, openConnections,
                 eventLoop, handlers, netTask, mainQueue, mainTask, count, position, since, messages>>

RelayEnds ==
  /\ Running /\ S!BroadcastEnds("tunnel")
  /\ relaying' = "no"
  /\ UNCHANGED <<vars, frames>>

TunnelThread == Round(TunnelStep) \/ RelayBegins \/ RelaySends \/ RelayEnds

-----------------------------------------------------------------------------
(* The other threads.                                                       *)

OfServer(Steps) == Running /\ Steps /\ UNCHANGED <<vars, relayVars>>

NetworkingThread == pushPc = "idle" /\ OfServer(S!NetStep)

Clients == pushPc = "idle" /\ OfServer(S!ClientStep \/ S!ListenThrows)

MainThread == OfServer(S!MainStep)

InputThread == OfServer(S!BroadcastSends("input") \/ S!BroadcastEnds("input"))

InputLine == count["input"] < MaxInputs /\ OfServer(S!BroadcastBegins("input"))

\* messageParse on a BIN_DATA message of an open connection
BinData ==
  /\ S!NetIdle
  /\ \E c \in Conns : state[c] = "open"
  /\ DropBinData \/ CallNull \/ DecodeThrows \/ \E v \in Values : QueueBinData(v)
  /\ UNCHANGED <<relayVars, serverVars>>

Pushes == S!Running /\ RunPush /\ UNCHANGED <<relayVars, serverVars>>

Peers ==
  /\ S!Running
  /\ PeerSends \/ PeerHangsUp \/ ResetFollows \/ IgnoredPeerActs
  /\ UNCHANGED <<relayVars, serverVars>>

ProgramNext ==
  \/ TunnelThread \/ Round(Accept \/ AcceptRefused \/ CallFails)
  \/ NetworkingThread \/ Clients \/ BinData \/ Pushes
  \/ MainThread \/ OfServer(S!EchoThrows)
  \/ InputThread \/ InputLine
  \/ Peers

ProgramSpec == ProgramInit /\ [][ProgramNext]_programVars

(* Every thread keeps running, and each connection is served; clients,      *)
(* peers and the keyboard need not act, and no call has to fail.           *)
FairProgramSpec ==
  /\ ProgramSpec
  /\ WF_programVars(TunnelThread)
  /\ WF_programVars(Pushes)
  /\ WF_programVars(MainThread)
  /\ WF_programVars(InputThread)
  /\ WF_programVars(NetworkingThread)

-----------------------------------------------------------------------------
Alive == Running /\ S!Running

(* Whenever the tunnel thread is in its round, a websocket client that is   *)
(* connected has been given exactly the frames of the bytes received since *)
(* it was listed, all of them, in order and once, although other threads    *)
(* broadcast and connections come and go meanwhile (use_tunnel,            *)
(* broadcastMessage).                                                       *)
AllHandedOn ==
  Alive /\ relaying = "no" =>
    \A c \in S!ListedConns :
      LET given == S!Given(c, "tunnel")
          first == since[c]["tunnel"]
      IN  /\ Len(given) = Len(frames) - first
          /\ \A i \in DOMAIN given : given[i][2] = first + i

(* A peer that hangs up ends its session, unless the process ends: neither  *)
(* a full socket of the other peer nor a broadcast that waits for the list *)
(* keeps recv from seeing the end of file (use_tunnel).                    *)
HangUpEndsSession ==
  (inTunnel /\ peer # "open") ~> (~inTunnel \/ ~Alive)

(* Once the ignored socket is readable, select() keeps returning and all    *)
(* that is queued and counted is written, unless the session or the process *)
(* ends first (use_tunnel).                                                *)
IgnoredSocketDrainsQueue ==
  (inTunnel /\ ignoredReadable /\ Queued > 0)
    ~> (Queued = 0 \/ m_Size = 0 \/ ~inTunnel \/ ~Alive)

(* A byte that the TCP client has sent reaches every websocket client that  *)
(* is connected and stays, if select() does not fail and nothing thrown     *)
(* ends the process: neither the keyboard's broadcasts nor messages to the  *)
(* tunnel hold it up for ever.                                             *)
ByteReachesClients ==
  \A c \in Conns, n \in 1 .. MaxBytes :
    (inTunnel /\ relayed < n /\ n <= sent /\ c \in S!ListedConns /\ state[c] = "open") ~>
      \/ ~Alive \/ state[c] # "open" \/ session \in failed
      \/ \E i \in DOMAIN received[c] :
           received[c][i][1] = "tunnel" /\ frames[received[c][i][2]] >= n
=============================================================================
