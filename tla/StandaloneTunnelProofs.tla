----------------------- MODULE StandaloneTunnelProofs -----------------------
(***************************************************************************)
(* Proofs about fork mode, for any number of clients: what each process     *)
(* holds at each of its labels, and so that no child inherits the client    *)
(* of another one and that a child that has ended has released its own.     *)
(***************************************************************************)
EXTENDS StandaloneTunnel, TLAPS

(* The descriptors of different sessions, and of the server, differ.        *)
LEMMA DistinctSockets ==
  ASSUME NEW m \in Processes, NEW n \in Processes
  PROVE  /\ Client(m) # Remote(n)
         /\ Client(m) # ServerSocket /\ Remote(m) # ServerSocket
         /\ m # n => Client(m) # Client(n) /\ Remote(m) # Remote(n)
BY SessionsAssumption DEF Client, Remote, ServerSocket, Processes

LEMMA SessionSockets ==
  ASSUME NEW n \in Sessions
  PROVE  /\ n \in Processes /\ n # Parent
         /\ Client(n) \in Connections /\ Remote(n) \in Connections
BY SessionsAssumption DEF Sessions, Processes, Parent, Connections, SocketsOf

LEMMA ForkInitInv == Init => ForkInv
<1> SUFFICES ASSUME Init PROVE ForkInv
  OBVIOUS
<1>1. Parent \in Processes /\ \A p \in Sessions : p \in Processes /\ p # Parent
  BY SessionSockets, SessionsAssumption DEF Processes, Parent
<1>2. TypeOK
  BY <1>1 DEF TypeOK, Init, Parent, Processes
<1>3. ParentInv
  BY <1>1 DEF ParentInv, Init
<1>4. \A p \in Sessions : ChildInv(p)
  BY <1>1 DEF ChildInv, Init
<1> QED
  BY <1>2, <1>3, <1>4 DEF ForkInv

LEMMA AcceptedType ==
  ASSUME accepted \in Processes, AcceptFails
  PROVE  accepted' \in Processes
BY SessionsAssumption DEF AcceptFails, Processes

(* The types, one step for the actions of each kind.                       *)
LEMMA TypeStep ==
  ASSUME TypeOK, [Next]_vars
  PROVE  TypeOK'
<1> USE DEF TypeOK, settings, peers, Goto, Opens, Closes, LoopEnds, TunnelEnds
<1> DEFINE Sockets == {"server", "client", "remote"} \X Processes
<1>1. Parent \in Processes /\ Sessions \subseteq Processes
  BY SessionsAssumption DEF Processes, Parent, Sessions
<1>2. CASE BuildServer \/ AcceptFails \/ Ends
  <2>1. ServerSocket \in Sockets
    BY <1>1 DEF ServerSocket, Parent
  <2>2. CASE BuildServer
    BY <1>1, <2>1, <2>2 DEF BuildServer
  <2>3. CASE AcceptFails
    <3>1. accepted' \in Processes
      BY <2>3, AcceptedType
    <3> QED
      BY <1>1, <2>3, <3>1 DEF AcceptFails
  <2>4. CASE Ends
    BY <1>1, <2>4 DEF Ends
  <2> QED
    BY <1>2, <2>2, <2>3, <2>4
<1>3. CASE Accept
  <2>1. accepted + 1 \in Sessions /\ accepted + 1 \in Processes
    BY <1>3, SessionsAssumption DEF Accept, Processes, Sessions
  <2>2. Client(accepted + 1) \in Sockets
    BY <2>1 DEF Client
  <2> QED
    BY <1>1, <1>3, <2>1, <2>2 DEF Accept
<1>4. CASE Fork
  BY <1>1, <1>4 DEF Fork
<1>5. CASE ForkFails \/ HandleDirectly \/ ParentCloses
  BY <1>1, <1>5 DEF ForkFails, HandleDirectly, ParentCloses
<1>6. ASSUME NEW p \in Processes, ChildCloses(p) \/ ChildExits(p) \/ SelectFails(p)
      PROVE  TypeOK'
  BY <1>1, <1>6 DEF ChildCloses, ChildExits, SelectFails
<1>7. ASSUME NEW p \in Processes, BuildTunnel(p) \/ BuildTunnelFails(p)
      PROVE  TypeOK'
  <2>1. Remote(client[p]) \in Sockets
    BY DEF Remote
  <2> QED
    BY <1>1, <1>7, <2>1 DEF BuildTunnel, BuildTunnelFails
<1>8. ASSUME NEW p \in Processes, NEW s \in Connections, ServeStep(p, s)
      PROVE  TypeOK'
  BY <1>1, <1>8 DEF ServeStep, Reads, ReadsEnd
<1>9. ASSUME NEW s \in Connections, PeerSends(s) \/ PeerHangsUp(s)
      PROVE  TypeOK'
  BY <1>9 DEF PeerSends, PeerHangsUp
<1>10. CASE UNCHANGED vars
  BY <1>10 DEF vars
<1> QED
  BY <1>2, <1>3, <1>4, <1>5, <1>6, <1>7, <1>8, <1>9, <1>10 DEF Next, ProcessStep

-----------------------------------------------------------------------------
(* What does not concern a process leaves what is known of it.              *)
LEMMA ChildFrame ==
  ASSUME NEW p \in Sessions, ChildInv(p), TypeOK, TypeOK',
         UNCHANGED <<pc[p], fds[p], client[p]>>, accepted <= accepted'
  PROVE  ChildInv(p)'
<1>1. p \in Nat /\ accepted \in Nat /\ accepted' \in Nat
  BY SessionsAssumption DEF Sessions, Processes, TypeOK
<1> QED
  BY <1>1 DEF ChildInv

LEMMA ParentFrame ==
  ASSUME ParentInv, UNCHANGED <<pc[Parent], fds[Parent], client[Parent], accepted>>,
         pc[Parent] = "handle_client" => UNCHANGED pc[accepted]
  PROVE  ParentInv'
BY DEF ParentInv

LEMMA StutterFork ==
  ASSUME ForkInv, UNCHANGED <<pc, fds, client, accepted, settings>>
  PROVE  ForkInv'
BY DEF ForkInv, TypeOK, ParentInv, ChildInv, settings

(* The parent, which takes every label of its own but those of a session.   *)
LEMMA ParentStep ==
  ASSUME ForkInv, TypeOK', fork, fork' = fork,
         \/ BuildServer \/ Accept \/ AcceptFails \/ Ends
         \/ Fork \/ ForkFails \/ HandleDirectly \/ ParentCloses
  PROVE  ParentInv' /\ \A p \in Sessions : ChildInv(p)'
<1> USE DEF ForkInv, Goto, Opens, Closes, LoopEnds
<1>1. /\ Parent \in Processes /\ accepted \in Nat /\ accepted \in Processes
      /\ \A p \in Sessions : p \in Processes /\ p # Parent
  BY SessionSockets, SessionsAssumption DEF TypeOK, Processes, Parent
<1>2. CASE BuildServer
  <2>1. ParentInv'
    BY <1>1, <1>2 DEF BuildServer, ParentInv, TypeOK
  <2>2. \A p \in Sessions : UNCHANGED <<pc[p], fds[p], client[p]>>
    BY <1>1, <1>2 DEF BuildServer, TypeOK
  <2> QED
    BY <1>1, <1>2, <2>1, <2>2, ChildFrame DEF BuildServer
<1>3. CASE Accept
  <2>1. accepted' = accepted + 1 /\ accepted' \in Sessions
    BY <1>1, <1>3, SessionsAssumption DEF Accept, Sessions
  <2>2. \A p \in Sessions : UNCHANGED <<pc[p], fds[p], client[p]>>
    BY <1>1, <1>3 DEF Accept, TypeOK
  <2>3. pc[accepted'] = "none"
    BY <1>1, <2>1 DEF ChildInv
  <2>4. ParentInv'
    BY <1>1, <1>3, <2>1, <2>2, <2>3 DEF Accept, ParentInv, TypeOK
  <2> QED
    BY <1>1, <2>1, <2>2, <2>4, ChildFrame
<1>4. CASE AcceptFails
  <2>1. ParentInv'
    BY <1>1, <1>4 DEF AcceptFails, ParentInv, TypeOK
  <2>2. \A p \in Sessions : UNCHANGED <<pc[p], fds[p], client[p]>>
    BY <1>1, <1>4 DEF AcceptFails, TypeOK
  <2>3. accepted <= accepted'
    BY <1>1, <1>4 DEF AcceptFails
  <2> QED
    BY <2>1, <2>2, <2>3, ChildFrame
<1>5. CASE Fork
  <2>1. /\ accepted \in Sessions /\ client[Parent] = accepted /\ pc[accepted] = "none"
        /\ fds[Parent] = {ServerSocket, Client(accepted)}
    BY <1>5 DEF Fork, ParentInv
  <2>2. ParentInv'
    BY <1>1, <1>5, <2>1 DEF Fork, ParentInv, TypeOK
  <2>3. ASSUME NEW p \in Sessions PROVE ChildInv(p)'
    <3>1. CASE p = accepted
      BY <1>1, <1>5, <2>1, <3>1 DEF Fork, ChildInv, TypeOK
    <3>2. CASE p # accepted
      <4>1. UNCHANGED <<pc[p], fds[p], client[p], accepted>>
        BY <1>1, <1>5, <2>1, <3>2 DEF Fork, TypeOK
      <4> QED
        BY <1>1, <4>1, ChildFrame
    <3> QED
      BY <3>1, <3>2
  <2> QED
    BY <2>2, <2>3
<1>6. CASE ForkFails
  <2>1. ParentInv'
    BY <1>1, <1>6 DEF ForkFails, ParentInv, TypeOK
  <2>2. \A p \in Sessions : UNCHANGED <<pc[p], fds[p], client[p]>>
    BY <1>1, <1>6 DEF ForkFails, TypeOK
  <2> QED
    BY <1>1, <1>6, <2>1, <2>2, ChildFrame DEF ForkFails
<1>7. CASE ParentCloses
  <2>1. /\ accepted \in Sessions /\ client[Parent] = accepted
        /\ fds[Parent] = {ServerSocket, Client(accepted)}
    BY <1>7 DEF ParentCloses, ParentInv
  <2>2. fds'[Parent] = {ServerSocket}
    BY <1>1, <1>7, <2>1, DistinctSockets DEF ParentCloses, TypeOK
  <2>3. ParentInv'
    BY <1>1, <1>7, <2>2 DEF ParentCloses, ParentInv, TypeOK
  <2>4. \A p \in Sessions : UNCHANGED <<pc[p], fds[p], client[p]>>
    BY <1>1, <1>7 DEF ParentCloses, TypeOK
  <2> QED
    BY <1>1, <1>7, <2>3, <2>4, ChildFrame DEF ParentCloses
<1>8. ~Ends /\ ~HandleDirectly
  BY DEF Ends, HandleDirectly, ParentInv
<1> QED
  BY <1>2, <1>3, <1>4, <1>5, <1>6, <1>7, <1>8

(* A child: what it closes is what it has inherited, and at last the rest.  *)
LEMMA ChildStep ==
  ASSUME ForkInv, TypeOK', fork, fork' = fork, NEW p \in Processes,
         \/ ChildCloses(p) \/ ChildExits(p) \/ BuildTunnel(p) \/ BuildTunnelFails(p)
         \/ SelectFails(p) \/ \E s \in Connections : ServeStep(p, s)
  PROVE  ParentInv' /\ \A q \in Sessions : ChildInv(q)'
<1> USE DEF ForkInv, Goto, Opens, Closes, TunnelEnds
<1>1. /\ Parent \in Processes /\ accepted \in Nat /\ accepted \in Processes
      /\ \A q \in Sessions : q \in Processes /\ q # Parent
  BY SessionSockets, SessionsAssumption DEF TypeOK, Processes, Parent
<1>2. pc[p] \in {"close_server", "exit", "build_tunnel", "select"}
  BY DEF ChildCloses, ChildExits, BuildTunnel, BuildTunnelFails, SelectFails, ServeStep, Reads, ReadsEnd
<1>3. p \in Sessions /\ p # Parent
  BY <1>2, SessionsAssumption DEF ParentInv, Sessions, Processes, Parent
<1>4. ChildInv(p) /\ client[p] = p /\ p <= accepted
  BY <1>2, <1>3 DEF ChildInv
<1>5. /\ accepted' = accepted /\ client' = client
      /\ \A q \in Processes \ {p} : UNCHANGED <<pc[q], fds[q]>>
  <2>1. CASE ChildCloses(p) \/ ChildExits(p) \/ SelectFails(p)
    BY <1>3, <2>1 DEF ChildCloses, ChildExits, SelectFails, TypeOK
  <2>2. CASE BuildTunnel(p) \/ BuildTunnelFails(p)
    BY <1>3, <2>2 DEF BuildTunnel, BuildTunnelFails, TypeOK
  <2>3. CASE \E s \in Connections : ServeStep(p, s)
    BY <1>3, <2>3 DEF ServeStep, Reads, ReadsEnd, TypeOK
  <2> QED
    BY <2>1, <2>2, <2>3
<1>6. ChildInv(p)'
  <2>1. CASE ChildCloses(p)
    <3>1. fds'[p] = {Client(p)}
      BY <1>4, <2>1, DistinctSockets DEF ChildCloses, ChildInv, TypeOK
    <3> QED
      BY <1>4, <1>5, <2>1, <3>1 DEF ChildCloses, ChildInv, TypeOK
  <2>2. CASE ChildExits(p)
    BY <1>4, <1>5, <2>2 DEF ChildExits, ChildInv, TypeOK
  <2>3. CASE BuildTunnel(p)
    BY <1>4, <1>5, <2>3 DEF BuildTunnel, ChildInv, SocketsOf, TypeOK
  <2>4. CASE BuildTunnelFails(p)
    BY <1>3, <1>4, <1>5, <2>4 DEF BuildTunnelFails, ChildInv, SocketsOf, TypeOK
  <2>5. CASE SelectFails(p)
    BY <1>3, <1>4, <1>5, <2>5 DEF SelectFails, ChildInv, TypeOK
  <2>6. CASE \E s \in Connections : ServeStep(p, s)
    BY <1>3, <1>4, <1>5, <2>6 DEF ServeStep, Reads, ReadsEnd, ChildInv, TypeOK
  <2> QED
    BY <2>1, <2>2, <2>3, <2>4, <2>5, <2>6
<1>7. ASSUME NEW q \in Sessions, q # p PROVE ChildInv(q)'
  <2> HIDE DEF ForkInv
  <2>1. UNCHANGED <<pc[q], fds[q], client[q]>> /\ accepted <= accepted'
    <3>1. q \in Processes \ {p}
      BY <1>1, <1>7
    <3>2. UNCHANGED <<pc[q], fds[q]>> /\ accepted' = accepted /\ client' = client
      BY <1>5, <3>1
    <3> QED
      BY <1>1, <3>2
  <2>2. ChildInv(q) /\ TypeOK
    BY <1>7 DEF ForkInv
  <2> QED
    BY <1>1, <2>1, <2>2, ChildFrame
<1>8. ParentInv'
  <2>1. pc[Parent] = "handle_client" => accepted # p
    BY <1>2 DEF ParentInv
  <2> QED
    BY <1>1, <1>3, <1>5, <2>1, ParentFrame
<1> QED
  BY <1>6, <1>7, <1>8

LEMMA ForkStep ==
  ASSUME ForkInv, [Next]_vars
  PROVE  ForkInv'
<1>1. TypeOK'
  BY TypeStep DEF ForkInv
<1>2. CASE \/ BuildServer \/ Accept \/ AcceptFails \/ Ends
           \/ Fork \/ ForkFails \/ HandleDirectly \/ ParentCloses
  <2>1. fork' = fork
    BY <1>2 DEF BuildServer, Accept, AcceptFails, Ends, Fork, ForkFails, HandleDirectly, ParentCloses,
                settings
  <2> QED
    BY <1>1, <1>2, <2>1, ParentStep DEF ForkInv
<1>3. ASSUME NEW p \in Processes,
             \/ ChildCloses(p) \/ ChildExits(p) \/ BuildTunnel(p) \/ BuildTunnelFails(p)
             \/ SelectFails(p) \/ \E s \in Connections : ServeStep(p, s)
      PROVE  ForkInv'
  <2>1. fork' = fork
    BY <1>3 DEF ChildCloses, ChildExits, BuildTunnel, BuildTunnelFails, SelectFails, ServeStep, Reads,
                ReadsEnd, settings
  <2> QED
    BY <1>1, <1>3, <2>1, ChildStep DEF ForkInv
<1>4. ASSUME \/ \E s \in Connections : PeerSends(s) \/ PeerHangsUp(s)
             \/ UNCHANGED vars
      PROVE  ForkInv'
  BY <1>4, StutterFork DEF PeerSends, PeerHangsUp, vars
<1> QED
  BY <1>2, <1>3, <1>4 DEF Next, ProcessStep

-----------------------------------------------------------------------------
(* With --fork, every process holds what its label accounts for, whichever  *)
(* calls have failed before and in whatever order the processes run.       *)
THEOREM ForkInvariant == Spec => []ForkInv
<1>1. Init => ForkInv
  BY ForkInitInv
<1>2. ForkInv /\ [Next]_vars => ForkInv'
  BY ForkStep
<1> QED
  BY <1>1, <1>2, PTL DEF Spec

(* No child inherits another one's client, and the parent that accepts      *)
(* holds its listening socket and nothing of an earlier session.           *)
THEOREM Inheritance == Spec => []NothingInherited
<1>1. ForkInv => NothingInherited
  <2> SUFFICES ASSUME ForkInv, fork
               PROVE  /\ pc[Parent] = "accept" => fds[Parent] = {ServerSocket}
                      /\ \A p \in Sessions :
                           /\ fds[p] \subseteq SocketsOf(p) \cup {ServerSocket}
                           /\ ServerSocket \in fds[p] => pc[p] = "close_server"
    BY DEF NothingInherited
  <2>1. pc[Parent] = "accept" => fds[Parent] = {ServerSocket}
    BY DEF ForkInv, ParentInv
  <2>2. ASSUME NEW p \in Sessions
        PROVE  /\ fds[p] \subseteq SocketsOf(p) \cup {ServerSocket}
               /\ ServerSocket \in fds[p] => pc[p] = "close_server"
    <3>1. ServerSocket \notin SocketsOf(p)
      BY DistinctSockets, SessionSockets DEF SocketsOf
    <3>2. Client(p) \in SocketsOf(p)
      BY DEF SocketsOf
    <3> QED
      BY <3>1, <3>2 DEF ForkInv, ChildInv
  <2> QED
    BY <2>1, <2>2
<1> QED
  BY <1>1, ForkInvariant, PTL

(* A child that has ended leaves no connection of its session open, unless  *)
(* the parent has yet to close the copy it forked it with.                 *)
EndedIsReleased ==
  \A n \in Sessions, s \in Connections :
    fork /\ pc[n] = "exited" /\ s \in SocketsOf(n) /\ Holders(s) # {} =>
      pc[Parent] = "close_client" /\ client[Parent] = n

(* The safety half of what HangUpReleases promises: nobody holds a copy of  *)
(* a connection whose session is over.                                     *)
THEOREM ReleasedAtExit == Spec => []EndedIsReleased
<1>1. ForkInv => EndedIsReleased
  <2> SUFFICES ASSUME ForkInv, fork, NEW n \in Sessions, NEW s \in SocketsOf(n), pc[n] = "exited",
                      NEW p \in Processes, s \in fds[p]
               PROVE  pc[Parent] = "close_client" /\ client[Parent] = n
    BY DEF EndedIsReleased, Holders
  <2> USE DEF ForkInv
  <2>1. s # ServerSocket /\ \A q \in Sessions : s \in SocketsOf(q) => q = n
    BY DistinctSockets, SessionSockets DEF SocketsOf
  <2>2. p \notin Sessions
    <3> SUFFICES ASSUME p \in Sessions PROVE FALSE
      OBVIOUS
    <3>1. fds[p] \subseteq SocketsOf(p) \cup {ServerSocket}
      BY DEF ChildInv, SocketsOf
    <3>2. p = n
      BY <2>1, <3>1
    <3> QED
      BY <3>2 DEF ChildInv
  <2>3. p = Parent
    BY <2>2, SessionsAssumption DEF Sessions, Processes, Parent
  <2>4. pc[Parent] \in {"handle_client", "close_client"} /\ accepted = n
    BY <2>1, <2>3 DEF ParentInv, SocketsOf
  <2> QED
    BY <2>4 DEF ParentInv
<1> QED
  BY <1>1, ForkInvariant, PTL
=============================================================================
