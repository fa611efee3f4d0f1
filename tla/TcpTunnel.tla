------------------------------ MODULE TcpTunnel ------------------------------
(***************************************************************************)
(* The tunnel thread (tcptunnel_loop and what it calls in tcptunnel.cpp)   *)
(* with the queue that the network thread fills for it.                    *)
(*                                                                         *)
(* A program has two TCP connections, "client" and "remote", and uses one: *)
(* a Linux side receives from and sends to the client, a Windows side the  *)
(* remote host.  That socket is called the served one here.  The other is  *)
(* connected and watched by select(), but never read or written.  Payloads *)
(* of BIN_DATA messages are queued by the network thread (messageParse) in *)
(* the one queue the side uses: remote_socket_data on Linux and            *)
(* client_socket_data on Windows.                                          *)
(*                                                                         *)
(* A broadcast is modelled by its two outcomes for the caller: it returns, *)
(* or endpoint.send throws for one of the connections and nobody catches.  *)
(* Fork mode (never set by server.cpp) is left out, and so is a send() that *)
(* blocks because the peer does not read.                                  *)
(***************************************************************************)
EXTENDS MultiThreadSingleQueue, FiniteSets

CONSTANTS
  Side,             \* "linux" or "windows": the ServerType, and its build
  stay_alive,       \* settings.stay_alive, which server.cpp sets
  client_address,   \* settings.client_address, which server.cpp does not set
  BufferSize,       \* how many bytes one recv takes at most
  MaxSessions,      \* bound: how many clients connect
  MaxBytes,         \* bound: how many bytes the served peer sends in a session
  MaxDropped        \* bound: how many messages arrive before the callbacks are set

ASSUME TunnelAssumption ==
  /\ Side \in {"linux", "windows"}
  /\ stay_alive \in BOOLEAN
  /\ client_address \in BOOLEAN
  /\ BufferSize \in Nat \ {0}
  /\ {MaxSessions, MaxBytes, MaxDropped} \subseteq Nat

VARIABLES
  process,         \* "running", or how the whole process has ended
  rcv_callback,    \* whether WebsocketServer::rcv_callback is set
  send_callback,   \* whether WebsocketServer::send_callback is set
  dropped,         \* how many BIN_DATA messages found no callback
  tunnelPc,        \* where the tunnel thread is
  session,         \* how many times accept went on; the number of the last one
  client_socket,   \* rc.client_socket
  remote_socket,   \* rc.remote_socket
  open,            \* the descriptors the process holds
  failed,          \* history: sessions without a tunnel or that lost it to select()
  isSet,           \* FD_ISSET(served socket) after the last select()
  peer,            \* the served connection: "open", "closed" (FIN), "reset" (RST), "dead"
  sent,            \* how many bytes the served peer has sent in this session
  relayed,         \* how many of them were received and broadcast
  hungUpWith,      \* history: unread bytes when the served peer hung up
  lateSends,       \* history: calls of send() since then, counted on Linux
  ignoredReadable, \* the other socket has data or an end of file nobody reads
  written          \* history: the values passed to send(), of all sessions

callbackVars == <<rcv_callback, send_callback, dropped>>
socketVars == <<session, client_socket, remote_socket, open, failed>>
peerVars == <<peer, sent, hungUpWith, lateSends, ignoredReadable>>
threadVars == <<tunnelPc, isSet, relayed, written>>
tunnelVars == <<process, callbackVars, socketVars, peerVars, threadVars>>
vars == <<tunnelVars, queueVars>>

NoSocket == <<"none", 0>>
ServerSocket == <<"server", 0>>
Client(n) == <<"client", n>>      \* the descriptor of session n's client
Remote(n) == <<"remote", n>>      \* the descriptor of session n's remote connection
Sockets ==
  {NoSocket, ServerSocket} \cup ({"client", "remote"} \X (1 .. MaxSessions))

unread == sent - relayed          \* bytes in the receive buffer of the served socket
inTunnel == tunnelPc \in {"select", "recv", "size", "pop"}     \* inside use_tunnel
Readable == unread > 0 \/ peer # "open"

Running == process = "running"

\* nothing has been received, and nobody has hung up
NewPeers ==
  /\ peer' = "open" /\ ignoredReadable' = FALSE
  /\ sent' = 0 /\ relayed' = 0
  /\ hungUpWith' = 0 /\ lateSends' = 0

(* The tail of the do-while loop: another round, or the listening socket is *)
(* closed and the thread ends.  "kept" is what the round leaves open.  The  *)
(* peers of its session, if it had one, concern the program no more.       *)
NextRound(kept) ==
  /\ tunnelPc' = IF stay_alive THEN "accept" ELSE "returned"
  /\ open' = IF stay_alive THEN kept ELSE kept \ {ServerSocket}
  /\ NewPeers

TunnelInit ==
  /\ Init
  /\ process = "running"
  /\ rcv_callback = FALSE
  /\ send_callback = FALSE
  /\ dropped = 0
  /\ tunnelPc = "set_rcv"
  /\ session = 0
  /\ client_socket = NoSocket
  /\ remote_socket = NoSocket
  /\ open = {}
  /\ failed = {}
  /\ isSet = FALSE
  /\ peer = "open"
  /\ sent = 0
  /\ relayed = 0
  /\ hungUpWith = 0
  /\ lateSends = 0
  /\ ignoredReadable = FALSE
  /\ written = <<>>

-----------------------------------------------------------------------------
(* Defective variants of the steps below, which the mutants of PROJECT.json *)
(* substitute to show that a property notices.                             *)

\* serves one socket in each round: the served one only if the other is quiet
SelectReturns_OneSocket ==
  /\ Running /\ tunnelPc = "select"
  /\ Readable \/ ignoredReadable
  /\ isSet' = (Readable /\ ~ignoredReadable)
  /\ tunnelPc' = IF Side = "linux" THEN "recv" ELSE "size"
  /\ UNCHANGED <<process, callbackVars, socketVars, peerVars, relayed, written, queueVars>>

\* waits for the served socket only
SelectReturns_ServedOnly ==
  /\ Running /\ tunnelPc = "select"
  /\ Readable
  /\ isSet' = TRUE
  /\ tunnelPc' = IF Side = "linux" THEN "recv" ELSE "size"
  /\ UNCHANGED <<process, callbackVars, socketVars, peerVars, relayed, written, queueVars>>

\* takes the buffer for full, whatever recv returned
Relay_WholeBuffer(k) ==
  /\ Running /\ tunnelPc = "recv"
  /\ isSet
  /\ k = BufferSize
  /\ relayed' = relayed + k
  /\ tunnelPc' = IF Side = "linux" THEN "size" ELSE "select"
  /\ UNCHANGED <<process, callbackVars, socketVars, peerVars, isSet, written, queueVars>>

\* closes the sockets and stays in the loop
RecvEnds_StaysInLoop ==
  /\ Running /\ tunnelPc = "recv"
  /\ isSet /\ peer # "open" /\ unread = 0
  /\ open' = open \ {client_socket, remote_socket}
  /\ tunnelPc' = "select"
  /\ UNCHANGED <<process, callbackVars, session, client_socket, remote_socket, failed,
                 peerVars, isSet, relayed, written, queueVars>>

\* leaves the socket of the other peer open
RecvEnds_ClosesOne ==
  /\ Running /\ tunnelPc = "recv"
  /\ isSet /\ peer # "open" /\ unread = 0
  /\ NextRound(open \ {client_socket})
  /\ UNCHANGED <<process, callbackVars, session, client_socket, remote_socket, failed, isSet, written, queueVars>>

\* unregisters the callback with the session
RecvEnds_Unregisters ==
  /\ Running /\ tunnelPc = "recv"
  /\ isSet /\ peer # "open" /\ unread = 0
  /\ NextRound(open \ {client_socket, remote_socket})
  /\ rcv_callback' = FALSE
  /\ UNCHANGED <<process, send_callback, dropped, session, client_socket, remote_socket, failed, isSet, written, queueVars>>

\* unregisters the callback of the session, and not the one that is tested
RecvEnds_UnregistersSend ==
  /\ Running /\ tunnelPc = "recv"
  /\ isSet /\ peer # "open" /\ unread = 0
  /\ NextRound(open \ {client_socket, remote_socket})
  /\ send_callback' = FALSE
  /\ UNCHANGED <<process, rcv_callback, dropped, session, client_socket, remote_socket, failed, isSet, written, queueVars>>

-----------------------------------------------------------------------------
(* tcptunnel_loop: register the callbacks, listen, accept clients.          *)

SetRcvCallback ==
  /\ Running /\ tunnelPc = "set_rcv"
  /\ rcv_callback' = TRUE
  /\ tunnelPc' = "set_send"
  /\ UNCHANGED <<process, send_callback, dropped, socketVars, peerVars, isSet, relayed, written, queueVars>>

SetSendCallback ==
  /\ Running /\ tunnelPc = "set_send"
  /\ send_callback' = TRUE
  /\ tunnelPc' = "build_server"
  /\ UNCHANGED <<process, rcv_callback, dropped, socketVars, peerVars, isSet, relayed, written, queueVars>>

BuildServer ==
  /\ Running /\ tunnelPc = "build_server"
  /\ open' = open \cup {ServerSocket}
  /\ tunnelPc' = "accept"
  /\ UNCHANGED <<process, callbackVars, session, client_socket, remote_socket, failed,
                 peerVars, isSet, relayed, written, queueVars>>

\* exit(1) ends the network and the main thread as well
BuildServerFails ==
  /\ Running /\ tunnelPc = "build_server"
  /\ process' = "exit"
  /\ UNCHANGED <<callbackVars, socketVars, peerVars, threadVars, queueVars>>

\* the Windows build, whose sockets are unsigned, gets here only if the address
\* of the last client is not the one it accepts
AcceptFails ==
  /\ Running /\ tunnelPc = "accept"
  /\ Side = "windows" => client_address
  /\ client_socket' = NoSocket
  /\ NextRound(open)
  /\ UNCHANGED <<process, callbackVars, session, remote_socket, failed, isSet, written, queueVars>>

\* INVALID_SOCKET is not less than 0: there is a session without a client
AcceptFailsUnseen ==
  /\ Running /\ tunnelPc = "accept"
  /\ Side = "windows"
  /\ session < MaxSessions
  /\ session' = session + 1
  /\ client_socket' = NoSocket
  /\ tunnelPc' = "build_tunnel"
  /\ UNCHANGED <<process, callbackVars, remote_socket, open, failed,
                 peerVars, isSet, relayed, written, queueVars>>

\* a client from another address is disconnected
AcceptRefused ==
  /\ Running /\ tunnelPc = "accept"
  /\ client_address
  /\ session < MaxSessions
  /\ session' = session + 1
  /\ client_socket' = Client(session + 1)
  /\ NextRound(open)
  /\ UNCHANGED <<process, callbackVars, remote_socket, failed, isSet, written, queueVars>>

Accept ==
  /\ Running /\ tunnelPc = "accept"
  /\ session < MaxSessions
  /\ session' = session + 1
  /\ client_socket' = Client(session + 1)
  /\ open' = open \cup {Client(session + 1)}
  /\ tunnelPc' = "build_tunnel"
  /\ UNCHANGED <<process, callbackVars, remote_socket, failed,
                 peerVars, isSet, relayed, written, queueVars>>

-----------------------------------------------------------------------------
(* build_tunnel: the connection to the remote host.                         *)

BuildTunnel ==
  /\ Running /\ tunnelPc = "build_tunnel"
  /\ remote_socket' = Remote(session)
  /\ open' = open \cup {Remote(session)}
  /\ tunnelPc' = "select"
  /\ NewPeers
  /\ UNCHANGED <<process, callbackVars, session, client_socket, failed, isSet, written, queueVars>>

\* gethostbyname, socket or connect fails: nothing that is open gets closed
BuildTunnelFails ==
  /\ Running /\ tunnelPc = "build_tunnel"
  /\ \E s \in {remote_socket, NoSocket, Remote(session)} :
       /\ remote_socket' = s
       /\ NextRound(IF s = Remote(session) THEN open \cup {s} ELSE open)
  /\ failed' = failed \cup {session}
  /\ UNCHANGED <<process, callbackVars, session, client_socket, isSet, written, queueVars>>

-----------------------------------------------------------------------------
(* use_tunnel: select() on both sockets, without a time limit.  It fails    *)
(* at once for a socket that is none.                                      *)

SelectReturns ==
  /\ Running /\ tunnelPc = "select"
  /\ client_socket # NoSocket
  /\ Readable \/ ignoredReadable
  /\ isSet' = Readable
  /\ tunnelPc' = IF Side = "linux" THEN "recv" ELSE "size"
  /\ UNCHANGED <<process, callbackVars, socketVars, peerVars, relayed, written, queueVars>>

\* the loop is left and nothing is closed
SelectFails ==
  /\ Running /\ tunnelPc = "select"
  /\ Side = "linux"
  /\ failed' = failed \cup {session}
  /\ NextRound(open)
  /\ UNCHANGED <<process, callbackVars, session, client_socket, remote_socket, isSet, written, queueVars>>

\* SOCKET_ERROR is -1, which the test against 0 and WSABASEERR lets pass
SelectFailsUnseen ==
  /\ Running /\ tunnelPc = "select"
  /\ Side = "windows"
  /\ isSet' \in BOOLEAN
  /\ tunnelPc' = "size"
  /\ UNCHANGED <<process, callbackVars, socketVars, peerVars, relayed, written, queueVars>>

-----------------------------------------------------------------------------
(* use_tunnel: receive from the served socket and broadcast.  It comes      *)
(* before the queue on Linux and after it on Windows.                      *)

AfterRecv == IF Side = "linux" THEN "size" ELSE "select"
AfterQueue == IF Side = "linux" THEN "select" ELSE "recv"

RecvSkipped ==
  /\ Running /\ tunnelPc = "recv"
  /\ ~isSet
  /\ tunnelPc' = AfterRecv
  /\ UNCHANGED <<process, callbackVars, socketVars, peerVars, isSet, relayed, written, queueVars>>

Relay(k) ==
  /\ Running /\ tunnelPc = "recv"
  /\ isSet
  /\ k <= unread /\ k <= BufferSize
  /\ relayed' = relayed + k
  /\ tunnelPc' = AfterRecv
  /\ UNCHANGED <<process, callbackVars, socketVars, peerVars, isSet, written, queueVars>>

\* broadcastMessage throws in this thread, and nobody catches
RelayThrows ==
  /\ Running /\ tunnelPc = "recv"
  /\ isSet
  /\ unread > 0
  /\ process' = "uncaught"
  /\ UNCHANGED <<callbackVars, socketVars, peerVars, threadVars, queueVars>>

\* end of file or error: both sockets are closed.  When recv returns that is the
\* stack's: a Windows one discards the unread bytes of a connection that was
\* reset, a Linux one does not.
RecvEnds ==
  /\ Running /\ tunnelPc = "recv"
  /\ isSet
  /\ peer # "open"
  /\ unread = 0 \/ (Side = "windows" /\ peer \in {"reset", "dead"})
  /\ NextRound(open \ {client_socket, remote_socket})
  /\ UNCHANGED <<process, callbackVars, session, client_socket, remote_socket, failed, isSet, written, queueVars>>

-----------------------------------------------------------------------------
(* use_tunnel: GetSize, Pop and send, at most one value in each round.      *)

SizeNotPositive ==
  /\ Running /\ tunnelPc = "size"
  /\ m_Size <= 0
  /\ tunnelPc' = AfterQueue
  /\ UNCHANGED <<process, callbackVars, socketVars, peerVars, isSet, relayed, written, queueVars>>

SizePositive ==
  /\ Running /\ tunnelPc = "size"
  /\ GetSizePositive
  /\ tunnelPc' = "pop"
  /\ UNCHANGED <<process, callbackVars, socketVars, peerVars, isSet, relayed, written>>

RunPop ==
  /\ Running /\ tunnelPc = "pop"
  /\ PopStep
  /\ UNCHANGED tunnelVars

\* send() has been called, as many times as that after the client hung up
CountsLate ==
  lateSends' = IF Side = "linux" /\ peer # "open" THEN lateSends + 1 ELSE lateSends

\* The result of send() is ignored.  The first one after a reset reports it.
Send ==
  /\ Running /\ tunnelPc = "pop"
  /\ popPc = "idle"
  /\ peer = "dead" => Side = "windows"
  /\ written' = written \o pValue
  /\ peer' = IF peer = "reset" THEN "dead" ELSE peer
  /\ CountsLate
  /\ tunnelPc' = AfterQueue
  /\ UNCHANGED <<process, callbackVars, socketVars, sent, hungUpWith, ignoredReadable,
                 isSet, relayed, queueVars>>

\* no SIGPIPE handler, no MSG_NOSIGNAL: the whole process ends
SendKills ==
  /\ Running /\ tunnelPc = "pop"
  /\ popPc = "idle"
  /\ Side = "linux" /\ peer = "dead"
  /\ process' = "sigpipe"
  /\ CountsLate
  /\ UNCHANGED <<callbackVars, socketVars, peer, sent, hungUpWith, ignoredReadable,
                 threadVars, queueVars>>

\* what the thread does when its calls succeed
TunnelStep ==
  \/ SetRcvCallback \/ SetSendCallback \/ BuildServer \/ BuildTunnel \/ SelectReturns
  \/ RecvSkipped \/ (\E k \in 1 .. BufferSize : Relay(k)) \/ RecvEnds
  \/ SizeNotPositive \/ SizePositive \/ RunPop \/ Send \/ SendKills

\* what a call that fails makes it do instead
CallFails ==
  \/ BuildServerFails \/ AcceptFails \/ BuildTunnelFails
  \/ IF Side = "windows" THEN AcceptFailsUnseen \/ SelectFailsUnseen ELSE SelectFails

TunnelFailure == CallFails \/ RelayThrows

-----------------------------------------------------------------------------
(* The network thread: messageParse on a BIN_DATA message.                  *)

DropBinData ==
  /\ Running /\ pushPc = "idle"
  /\ ~rcv_callback
  /\ dropped < MaxDropped
  /\ dropped' = dropped + 1
  /\ UNCHANGED <<process, rcv_callback, send_callback, socketVars, peerVars, threadVars, queueVars>>

\* the Linux branch tests rcv_callback and calls send_callback
CallNull ==
  /\ Running /\ pushPc = "idle"
  /\ Side = "linux"
  /\ rcv_callback /\ ~send_callback
  /\ process' = "nullcall"
  /\ UNCHANGED <<callbackVars, socketVars, peerVars, threadVars, queueVars>>

\* the payload is no base64 text: base64_decode throws in this thread
DecodeThrows ==
  /\ Running /\ pushPc = "idle"
  /\ rcv_callback
  /\ Side = "linux" => send_callback
  /\ process' = "uncaught"
  /\ UNCHANGED <<callbackVars, socketVars, peerVars, threadVars, queueVars>>

QueueBinData(v) ==
  /\ Running
  /\ rcv_callback
  /\ Side = "linux" => send_callback
  /\ PushAllocate(v)
  /\ UNCHANGED tunnelVars

RunPush ==
  /\ Running
  /\ PushStep
  /\ UNCHANGED tunnelVars

(* The peers of the two connections, outside the program, and the TCP stack. *)
PeerSends ==
  /\ Running /\ inTunnel
  /\ peer = "open"
  /\ sent < MaxBytes
  /\ sent' = sent + 1
  /\ UNCHANGED <<process, callbackVars, socketVars, peer, hungUpWith, lateSends, ignoredReadable, threadVars, queueVars>>

PeerHangsUp ==
  /\ Running /\ inTunnel
  /\ peer = "open"
  /\ peer' \in {"closed", "reset"}
  /\ hungUpWith' = unread
  /\ UNCHANGED <<process, callbackVars, socketVars, sent, lateSends, ignoredReadable, threadVars, queueVars>>

\* A reset follows the FIN: what it answers was sent before the peer had closed,
\* or after, or was never read.  The next send() finds the connection broken.
ResetFollows ==
  /\ Running /\ inTunnel
  /\ peer = "closed"
  /\ peer' = "dead"
  /\ UNCHANGED <<process, callbackVars, socketVars, sent, hungUpWith, lateSends, ignoredReadable,
                 threadVars, queueVars>>

IgnoredPeerActs ==
  /\ Running /\ inTunnel
  /\ client_socket # NoSocket
  /\ ~ignoredReadable
  /\ ignoredReadable' = TRUE
  /\ UNCHANGED <<process, callbackVars, socketVars, peer, sent, hungUpWith, lateSends, threadVars, queueVars>>

TunnelNext ==
  \/ TunnelStep \/ TunnelFailure \/ AcceptRefused \/ Accept
  \/ DropBinData \/ CallNull \/ DecodeThrows \/ (\E v \in Values : QueueBinData(v)) \/ RunPush
  \/ PeerSends \/ PeerHangsUp \/ ResetFollows \/ IgnoredPeerActs

TunnelSpec == TunnelInit /\ [][TunnelNext]_vars

-----------------------------------------------------------------------------
TunnelTypeOK ==
  /\ process \in {"running", "exit", "uncaught", "sigpipe", "nullcall"}
  /\ {rcv_callback, send_callback, isSet, ignoredReadable} \subseteq BOOLEAN
  /\ dropped \in 0 .. MaxDropped
  /\ tunnelPc \in {"set_rcv", "set_send", "build_server", "accept", "build_tunnel",
                   "select", "recv", "size", "pop", "returned"}
  /\ session \in 0 .. MaxSessions
  /\ {client_socket, remote_socket} \subseteq Sockets \ {ServerSocket}
  /\ open \subseteq Sockets \ {NoSocket}
  /\ failed \subseteq 1 .. MaxSessions
  /\ peer \in {"open", "closed", "reset", "dead"}
  /\ sent \in 0 .. MaxBytes
  /\ relayed \in 0 .. sent
  /\ hungUpWith \in 0 .. MaxBytes
  /\ lateSends \in Nat
  /\ written \in Seq(Values)

(* The descriptors select(), recv() and send() are given are open ones of   *)
(* the session, although a session that ends leaves rc as it was.  Only the *)
(* Windows build comes there without a client, never with that of another  *)
(* session: accept has overwritten rc when its failure goes unseen.        *)
NoStaleDescriptor ==
  /\ inTunnel \/ tunnelPc = "build_tunnel" =>
       /\ session > 0
       /\ \/ client_socket = Client(session) /\ client_socket \in open
          \/ client_socket = NoSocket /\ Side = "windows"
  /\ inTunnel => remote_socket = Remote(session) /\ remote_socket \in open
  /\ inTunnel \/ tunnelPc \in {"accept", "build_tunnel"} => ServerSocket \in open

(* A session that build_tunnel did not fail and select() did not end leaves *)
(* no descriptor behind, whichever way its peers hang up: what is open is   *)
(* in use, or is left of a session that failed.                            *)
LeaksOnlyAfterFailure ==
  \A s \in open \ {ServerSocket} :
    \/ s[2] \in failed
    \/ s = client_socket /\ (inTunnel \/ tunnelPc = "build_tunnel")
    \/ s = remote_socket /\ inTunnel

(* Pop has returned a value, or nothing, that send() was not yet called with. *)
InHand == tunnelPc = "pop" /\ popPc \in {"load", "store", "delete", "idle"}

(* Each value that leaves the queue is passed to send() exactly once and in *)
(* order, over all sessions, also when the counter says that there is one  *)
(* and Pop finds none.                                                     *)
WrittenOnceInOrder == popped = IF InHand THEN written \o pValue ELSE written

(* After the client has hung up, send() is called at most once more than    *)
(* the client has left bytes unread, and each of these calls may throw away *)
(* a payload or end the process by SIGPIPE: every round tries recv before   *)
(* its one send, and recv takes a byte or ends the session (use_tunnel).   *)
FewLateSends == Side = "linux" /\ peer # "open" => lateSends <= hungUpWith + 1

(* Messages are lost to the unset callbacks before any is queued, never    *)
(* between two that are.                                                   *)
DropsPrecedePushes == [][dropped' # dropped => pValuePointer = <<>>]_vars

(* The test of the wrong callback can end the process only while the        *)
(* tunnel thread starts: before it accepts a client and before a message is *)
(* queued, and never again once the two callbacks are registered.          *)
NullCallOnlyAtStart == process = "nullcall" => session = 0 /\ pValuePointer = <<>>

(* Pop runs only inside the round of use_tunnel that called it, and fills  *)
(* in the variable that round has just declared.                           *)
PopInRound ==
  /\ popPc # "idle" => tunnelPc = "pop"
  /\ popPc \in {"read", "value"} => pValue = <<>>

(* A peer that hung up sends no more, and each send to it is followed by a  *)
(* recv that takes one of the bytes it has left, or closes its connection. *)
HangUpInv ==
  /\ peer = "open" => lateSends = 0
  /\ peer # "open" => unread <= hungUpWith
  /\ Running /\ inTunnel /\ Side = "linux" /\ peer # "open" =>
       lateSends + unread <=
         IF tunnelPc = "select" \/ (tunnelPc = "recv" /\ isSet) THEN hungUpWith + 1 ELSE hungUpWith

(* Nothing is queued before the first callback is registered.              *)
CallbackInv == ~rcv_callback => pValuePointer = <<>>

(* The inductive invariant of the tunnel thread and its queue.             *)
TunnelInv ==
  /\ QueueInv /\ TunnelTypeOK
  /\ NoStaleDescriptor /\ LeaksOnlyAfterFailure
  /\ PopInRound /\ WrittenOnceInOrder
  /\ HangUpInv /\ FewLateSends
  /\ CallbackInv

(* Until send_callback is registered no client is accepted and, on Linux,   *)
(* nothing is queued.                                                      *)
StartInv ==
  /\ tunnelPc \in {"set_rcv", "set_send", "build_server"} => session = 0
  /\ ~send_callback => tunnelPc \in {"set_rcv", "set_send"}
  /\ Side = "linux" /\ ~send_callback => pValuePointer = <<>>
  /\ NullCallOnlyAtStart
=============================================================================
