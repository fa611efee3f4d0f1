-------------------------- MODULE StandaloneTunnel --------------------------
(***************************************************************************)
(* The stand-alone program of tcptunnel.cpp (TCP_TUNNEL_STANDALONE) after  *)
(* its options: main accepts clients and serves each in a child process    *)
(* (--fork) or one after the other by itself.  There is no                 *)
(* WebsocketServer: pServer is NULL, both sockets of a session are read    *)
(* and what is read goes to the log only.                                  *)
(*                                                                         *)
(* Process 0 is the parent, process n the child for session n.  A          *)
(* connection is closed for its peer when no process holds a descriptor of *)
(* it.                                                                     *)
(***************************************************************************)
EXTENDS Integers

CONSTANT MaxSessions     \* bound: how many clients connect

ASSUME SessionsAssumption == MaxSessions \in Nat

VARIABLES
  fork,           \* settings.fork
  stay_alive,     \* settings.stay_alive
  pc,             \* where each process is
  fds,            \* the descriptors each process holds
  client,         \* the session of each process's rc
  accepted,       \* how many clients were accepted
  unread,         \* the sockets with data that was not read
  hungUp          \* the sockets whose peer has closed or reset its end

settings == <<fork, stay_alive>>
peers == <<unread, hungUp>>
vars == <<settings, pc, fds, client, accepted, peers>>

Parent == 0
Sessions == 1 .. MaxSessions
Processes == 0 .. MaxSessions
ServerSocket == <<"server", 0>>
Client(n) == <<"client", n>>
Remote(n) == <<"remote", n>>
SocketsOf(n) == {Client(n), Remote(n)}
Connections == UNION {SocketsOf(n) : n \in Sessions}

Holders(s) == {p \in Processes : s \in fds[p]}
Goto(p, label) == pc' = [pc EXCEPT ![p] = label]
Opens(p, s) == fds' = [fds EXCEPT ![p] = @ \cup {s}]
Closes(p, S) == fds' = [fds EXCEPT ![p] = @ \ S]

(* --fork implies --stay-alive (LastArgumentWins of SequentialCalls). *)
Init ==
  /\ fork \in BOOLEAN
  /\ stay_alive \in BOOLEAN
  /\ fork => stay_alive
  /\ pc = [p \in Processes |-> IF p = Parent THEN "build_server" ELSE "none"]
  /\ fds = [p \in Processes |-> {}]
  /\ client = [p \in Processes |-> 0]
  /\ accepted = 0
  /\ unread = {}
  /\ hungUp = {}

-----------------------------------------------------------------------------
(* main and wait_for_clients, in the parent.                                *)

BuildServer ==
  /\ pc[Parent] = "build_server"
  /\ \/ Goto(Parent, "accept") /\ Opens(Parent, ServerSocket)
     \/ Goto(Parent, "exited") /\ UNCHANGED fds
  /\ UNCHANGED <<client, accepted, settings, peers>>

(* The end of the do-while loop's body. *)
LoopEnds == Goto(Parent, IF stay_alive THEN "accept" ELSE "end")

Accept ==
  /\ pc[Parent] = "accept"
  /\ accepted < MaxSessions
  /\ accepted' = accepted + 1
  /\ client' = [client EXCEPT ![Parent] = accepted + 1]
  /\ Opens(Parent, Client(accepted + 1))
  /\ Goto(Parent, "handle_client")
  /\ UNCHANGED <<settings, peers>>

\* accept fails, or the client's address is not the one that is let in
AcceptFails ==
  /\ pc[Parent] = "accept"
  /\ \/ UNCHANGED accepted
     \/ accepted < MaxSessions /\ accepted' = accepted + 1
  /\ LoopEnds
  /\ UNCHANGED <<fds, client, settings, peers>>

Ends ==
  /\ pc[Parent] = "end"
  /\ Goto(Parent, "exited")
  /\ Closes(Parent, fds[Parent])
  /\ UNCHANGED <<client, accepted, settings, peers>>

-----------------------------------------------------------------------------
(* handle_client                                                            *)

Fork ==
  /\ pc[Parent] = "handle_client" /\ fork
  /\ LET child == client[Parent]
     IN  /\ pc' = [pc EXCEPT ![Parent] = "close_client", ![child] = "close_server"]
         /\ fds' = [fds EXCEPT ![child] = fds[Parent]]
         /\ client' = [client EXCEPT ![child] = client[Parent]]
  /\ UNCHANGED <<accepted, settings, peers>>

\* fork() returns -1, which is not 0: the client is dropped
ForkFails ==
  /\ pc[Parent] = "handle_client" /\ fork
  /\ Goto(Parent, "close_client")
  /\ UNCHANGED <<fds, client, accepted, settings, peers>>

HandleDirectly ==
  /\ pc[Parent] = "handle_client" /\ ~fork
  /\ Goto(Parent, "build_tunnel")
  /\ UNCHANGED <<fds, client, accepted, settings, peers>>

\* variant: the parent keeps the client's descriptor
ParentCloses_Nothing ==
  /\ pc[Parent] = "close_client"
  /\ LoopEnds
  /\ UNCHANGED <<fds, client, accepted, settings, peers>>

ParentCloses ==
  /\ pc[Parent] = "close_client"
  /\ Closes(Parent, {Client(client[Parent])})
  /\ LoopEnds
  /\ UNCHANGED <<client, accepted, settings, peers>>

ChildCloses(p) ==
  /\ pc[p] = "close_server"
  /\ Closes(p, {ServerSocket})
  /\ Goto(p, "build_tunnel")
  /\ UNCHANGED <<client, accepted, settings, peers>>

\* exit(0) closes what the tunnel has left open
ChildExits(p) ==
  /\ pc[p] = "exit"
  /\ Closes(p, fds[p])
  /\ Goto(p, "exited")
  /\ UNCHANGED <<client, accepted, settings, peers>>

-----------------------------------------------------------------------------
(* handle_tunnel, in a child or in the parent.                              *)

TunnelEnds(p) == IF p = Parent THEN LoopEnds ELSE Goto(p, "exit")

BuildTunnel(p) ==
  /\ pc[p] = "build_tunnel"
  /\ Opens(p, Remote(client[p]))
  /\ Goto(p, "select")
  /\ UNCHANGED <<client, accepted, settings, peers>>

\* gethostbyname or socket fails, or connect does with the socket left open
BuildTunnelFails(p) ==
  /\ pc[p] = "build_tunnel"
  /\ UNCHANGED fds \/ Opens(p, Remote(client[p]))
  /\ TunnelEnds(p)
  /\ UNCHANGED <<client, accepted, settings, peers>>

SelectFails(p) ==
  /\ pc[p] = "select"
  /\ TunnelEnds(p)
  /\ UNCHANGED <<fds, client, accepted, settings, peers>>

Reads(p, s) ==
  /\ pc[p] = "select"
  /\ s \in SocketsOf(client[p]) \cap unread
  /\ unread' = unread \ {s}
  /\ UNCHANGED <<settings, pc, fds, client, accepted, hungUp>>

ReadsEnd(p, s) ==
  /\ pc[p] = "select"
  /\ s \in (SocketsOf(client[p]) \cap hungUp) \ unread
  /\ Closes(p, SocketsOf(client[p]))
  /\ TunnelEnds(p)
  /\ UNCHANGED <<client, accepted, settings, peers>>

-----------------------------------------------------------------------------
(* The peers of the open connections. *)
PeerSends(s) ==
  /\ Holders(s) # {} /\ s \notin hungUp \cup unread
  /\ unread' = unread \cup {s}
  /\ UNCHANGED <<settings, pc, fds, client, accepted, hungUp>>

PeerHangsUp(s) ==
  /\ Holders(s) # {} /\ s \notin hungUp
  /\ hungUp' = hungUp \cup {s}
  /\ UNCHANGED <<settings, pc, fds, client, accepted, unread>>

ProcessStep(p) ==
  \/ ChildCloses(p) \/ ChildExits(p) \/ BuildTunnel(p)
  \/ p = Parent /\ (BuildServer \/ Fork \/ HandleDirectly \/ ParentCloses \/ Ends)

ServeStep(p, s) == Reads(p, s) \/ ReadsEnd(p, s)

Next ==
  \/ \E p \in Processes : ProcessStep(p) \/ BuildTunnelFails(p) \/ SelectFails(p)
  \/ Accept \/ AcceptFails \/ ForkFails
  \/ \E s \in Connections :
       PeerSends(s) \/ PeerHangsUp(s) \/ \E p \in Processes : ServeStep(p, s)

Spec == Init /\ [][Next]_vars

(* Each process runs, and each round of use_tunnel looks at both sockets;   *)
(* no peer has to act and no call to fail.                                 *)
FairSpec ==
  /\ Spec
  /\ \A p \in Processes : WF_vars(ProcessStep(p))
  /\ \A p \in Processes, s \in Connections : WF_vars(ServeStep(p, s))

-----------------------------------------------------------------------------
TypeOK ==
  /\ fork \in BOOLEAN /\ stay_alive \in BOOLEAN
  /\ fork => stay_alive
  /\ pc \in [Processes -> {"build_server", "accept", "handle_client", "close_client", "end", "none",
                          "close_server", "build_tunnel", "select", "exit", "exited"}]
  /\ fds \in [Processes -> SUBSET ({"server", "client", "remote"} \X Processes)]
  /\ client \in [Processes -> Processes]
  /\ accepted \in Processes

(* What the parent holds when it forks, and where it is then.               *)
ParentInv ==
  /\ pc[Parent] \in {"build_server", "accept", "handle_client", "close_client", "exited"}
  /\ pc[Parent] \in {"build_server", "exited"} => fds[Parent] = {}
  /\ pc[Parent] = "accept" => fds[Parent] = {ServerSocket}
  /\ pc[Parent] \in {"handle_client", "close_client"} =>
       /\ client[Parent] = accepted /\ accepted \in Sessions
       /\ fds[Parent] = {ServerSocket, Client(accepted)}
  /\ pc[Parent] = "handle_client" => pc[accepted] = "none"

(* What a child holds at each of its labels, from fork() to exit(0).        *)
ChildInv(p) ==
  /\ pc[p] \in {"none", "close_server", "build_tunnel", "select", "exit", "exited"}
  /\ pc[p] \in {"none", "exited"} => fds[p] = {}
  /\ pc[p] # "none" => client[p] = p /\ p <= accepted
  /\ pc[p] = "close_server" => fds[p] = {ServerSocket, Client(p)}
  /\ pc[p] = "build_tunnel" => fds[p] = {Client(p)}
  /\ pc[p] \in {"select", "exit"} => fds[p] \subseteq SocketsOf(p)

(* The inductive invariant: with --fork, no process ever has a descriptor   *)
(* that its label does not account for.                                    *)
ForkInv == TypeOK /\ (fork => ParentInv /\ \A p \in Sessions : ChildInv(p))

(* A connection is held by one process, but for the moment between fork()  *)
(* and the closing of the inherited copies: no child inherits the client of *)
(* another one, which would keep a session open that has ended, and what   *)
(* the parent holds when it accepts is its listening socket, whatever has  *)
(* failed in its children (handle_client).                                 *)
NothingInherited ==
  fork =>
    /\ pc[Parent] = "accept" => fds[Parent] = {ServerSocket}
    /\ \A p \in Sessions :
         /\ fds[p] \subseteq SocketsOf(p) \cup {ServerSocket}
         /\ ServerSocket \in fds[p] => pc[p] = "close_server"

(* With --fork, a peer that hangs up has its session closed on both sides,  *)
(* by all processes: the child sees it, however busy the other peer is, and *)
(* no other process holds a copy that keeps the connections open.          *)
HangUpReleases ==
  \A n \in Sessions, p \in Processes :
    (fork /\ pc[p] = "select" /\ client[p] = n /\ SocketsOf(n) \cap hungUp # {})
      ~> (\A s \in SocketsOf(n) : Holders(s) = {})
=============================================================================
