--------------------------- MODULE WebsocketServer ---------------------------
(***************************************************************************)
(* The connections of WebsocketServer (WebsocketServer.cpp) and the four   *)
(* threads server.cpp starts around them: the networking thread runs the   *)
(* open, close and message handlers, the main thread runs what those post  *)
(* to its event loop, and the input and the tunnel thread broadcast.       *)
(*                                                                         *)
(* A connection of websocketpp is its session state, the frames it still   *)
(* has to write and those its client has received.  A payload is the       *)
(* number of its broadcast, or the word for what it answers.  The frames   *)
(* are handed to the socket one by one: the library coalesces them, which  *)
(* no client can tell.  Messages with a command (BIN_DATA) are handled in  *)
(* the module TcpTunnel.                                                   *)
(***************************************************************************)
EXTENDS Integers, Sequences, Filter

CONSTANTS
  Conns,          \* the connections that may be opened
  Broadcasters,   \* the threads that broadcast: the input and the tunnel thread
  MaxBroadcasts,  \* bound: how often each of them broadcasts
  MaxMessages     \* bound: how many JSON messages the clients send

ASSUME BoundsAssumption == {MaxBroadcasts, MaxMessages} \subseteq Nat

(* The words that stand for a free mutex and for what is not broadcast.     *)
ASSUME NamesAssumption == Broadcasters \cap {"free", "hello", "message", "close"} = {}

VARIABLES
  process,          \* "running", or which exception nobody caught
  state,            \* the session state of each connection
  outbox,           \* m_send_queue of each connection
  received,         \* what the client of each connection has received
  openConnections,
  connectionListMutex,  \* the thread that holds it for a broadcast, or "free"
  eventLoop,        \* the registrations posted to the networking thread before it runs
  handlers,         \* the events a handler is registered for
  netTask,          \* what the networking thread is in: <<>>, <<"listen">> or <<handler, connection>>
  mainQueue,        \* what is posted to the main event loop
  mainTask,         \* the posted handler that is about to send: <<>> or <<which, connection>>
  count,            \* how many broadcasts each thread has begun
  position,         \* how many connections the broadcast has been sent to
  since,            \* history: count when each connection joined the list
  messages          \* how many JSON messages were received

connVars == <<state, outbox, received>>
listVars == <<openConnections, connectionListMutex>>
mainVars == <<mainQueue, mainTask>>
bcastVars == <<count, position, since>>
handlerVars == <<eventLoop, handlers>>
vars == <<process, connVars, listVars, handlerVars, netTask, mainVars, bcastVars, messages>>

Close == <<"close", 0>>     \* the close frame, after which a connection is terminated
Running == process = "running"
Never == [t \in Broadcasters |-> 0]
ListedConns == {openConnections[i] : i \in DOMAIN openConnections}

Init ==
  /\ process = "running"
  /\ state = [c \in Conns |-> "none"]
  /\ outbox = [c \in Conns |-> <<>>]
  /\ received = [c \in Conns |-> <<>>]
  /\ openConnections = <<>>
  /\ connectionListMutex = "free"
  /\ eventLoop = <<"connect", "disconnect", "message">>
  /\ handlers = {}
  /\ netTask = <<"listen">>
  /\ mainQueue = <<>>
  /\ mainTask = <<>>
  /\ count = Never
  /\ position = Never
  /\ since = [c \in Conns |-> Never]
  /\ messages = 0

(* endpoint.send on the calling thread: a message for an open connection is *)
(* queued; for any other it throws, and no caller catches.  The library     *)
(* tests the state and queues the message under two locks, one after the    *)
(* other; a close that comes between them only leaves the message behind    *)
(* the close frame, where it is not written.                                *)
Send(c, m) ==
  IF state[c] = "open"
  THEN /\ outbox' = [outbox EXCEPT ![c] = Append(@, m)]
       /\ process' = process
  ELSE /\ outbox' = outbox
       /\ process' = "bad_send"

Post(task) == mainQueue' = Append(mainQueue, task)

(* The handlers of server.cpp are called for an event, and post. *)
Invoke(event, task) == IF event \in handlers THEN Post(task) ELSE UNCHANGED mainQueue

-----------------------------------------------------------------------------
(* The networking thread, which is in one handler at a time.                *)

\* variant: the handlers are registered while connections are already served
NetIdle_Unregistered == Running /\ netTask = <<>>

NetIdle == Running /\ netTask = <<>> /\ eventLoop = <<>>

\* run: the port is taken, or the posted registrations run before any connection
Listens ==
  /\ Running /\ netTask = <<"listen">>
  /\ netTask' = <<>>
  /\ UNCHANGED <<process, connVars, listVars, handlerVars, mainVars, bcastVars, messages>>

ListenThrows ==
  /\ Running /\ netTask = <<"listen">>
  /\ process' = "bad_listen"
  /\ UNCHANGED <<connVars, listVars, handlerVars, netTask, mainVars, bcastVars, messages>>

Registers ==
  /\ Running /\ netTask = <<>>
  /\ eventLoop # <<>>
  /\ handlers' = handlers \cup {Head(eventLoop)}
  /\ eventLoop' = Tail(eventLoop)
  /\ UNCHANGED <<process, connVars, listVars, netTask, mainVars, bcastVars, messages>>

\* the handshake is answered: the session is open and the open handler runs
Opens(c) ==
  /\ NetIdle
  /\ state[c] = "none"
  /\ state' = [state EXCEPT ![c] = "open"]
  /\ netTask' = <<"open", c>>
  /\ UNCHANGED <<process, outbox, received, listVars, mainVars, bcastVars, messages, handlerVars>>

onOpen(c) ==
  /\ Running /\ netTask = <<"open", c>>
  /\ connectionListMutex = "free"
  /\ openConnections' = Append(openConnections, c)
  /\ Invoke("connect", <<"hello", c>>)
  /\ since' = [since EXCEPT ![c] = count]
  /\ netTask' = <<>>
  /\ UNCHANGED <<process, connVars, connectionListMutex, mainTask, count, position, messages, handlerVars>>

\* the client's close frame is answered with one
ReceivesClose(c) ==
  /\ NetIdle
  /\ state[c] = "open"
  /\ state' = [state EXCEPT ![c] = "closing"]
  /\ outbox' = [outbox EXCEPT ![c] = Append(@, Close)]
  /\ UNCHANGED <<process, received, listVars, netTask, mainVars, bcastVars, messages, handlerVars>>

WriteFrame(c) ==
  /\ NetIdle
  /\ state[c] \in {"open", "closing"}
  /\ outbox[c] # <<>>
  /\ received' = [received EXCEPT ![c] = Append(@, Head(outbox[c]))]
  /\ outbox' = [outbox EXCEPT ![c] = Tail(@)]
  /\ state' = IF Head(outbox[c]) = Close THEN [state EXCEPT ![c] = "closed"] ELSE state
  /\ UNCHANGED <<process, listVars, netTask, mainVars, bcastVars, messages, handlerVars>>

\* a read or write error, or the close handshake takes too long
ConnectionFails(c) ==
  /\ NetIdle
  /\ state[c] \in {"open", "closing"}
  /\ state' = [state EXCEPT ![c] = "closed"]
  /\ UNCHANGED <<process, outbox, received, listVars, netTask, mainVars, bcastVars, messages, handlerVars>>

\* the socket is shut down: the close handler runs
HandleTerminate(c) ==
  /\ NetIdle
  /\ state[c] = "closed"
  /\ netTask' = <<"close", c>>
  /\ UNCHANGED <<process, connVars, listVars, mainVars, bcastVars, messages, handlerVars>>

\* variant: the handles that remain are moved to the front, the vector is not resized
onClose_Unresized(c) ==
  /\ Running /\ netTask = <<"close", c>>
  /\ connectionListMutex = "free"
  /\ LET kept == Keep(openConnections, {e \in Conns : e # c /\ state[e] # "gone"})
     IN  openConnections' = kept \o SubSeq(openConnections, Len(kept) + 1, Len(openConnections))
  /\ state' = [state EXCEPT ![c] = "gone"]
  /\ outbox' = [outbox EXCEPT ![c] = <<>>]
  /\ received' = [received EXCEPT ![c] = <<>>]
  /\ since' = [since EXCEPT ![c] = Never]
  /\ Invoke("disconnect", <<"bye", c>>)
  /\ netTask' = <<>>
  /\ UNCHANGED <<process, connectionListMutex, mainTask, count, position, messages, handlerVars>>

\* variant: the list is changed without its lock
onClose_Unlocked(c) ==
  /\ Running /\ netTask = <<"close", c>>
  /\ openConnections' = Keep(openConnections, {e \in Conns : e # c /\ state[e] # "gone"})
  /\ state' = [state EXCEPT ![c] = "gone"]
  /\ outbox' = [outbox EXCEPT ![c] = <<>>]
  /\ received' = [received EXCEPT ![c] = <<>>]
  /\ since' = [since EXCEPT ![c] = Never]
  /\ Invoke("disconnect", <<"bye", c>>)
  /\ netTask' = <<>>
  /\ UNCHANGED <<process, connectionListMutex, mainTask, count, position, messages, handlerVars>>

\* the handles that are equal or expired are removed; then nothing holds the connection
onClose(c) ==
  /\ Running /\ netTask = <<"close", c>>
  /\ connectionListMutex = "free"
  /\ openConnections' = Keep(openConnections, {e \in Conns : e # c /\ state[e] # "gone"})
  /\ state' = [state EXCEPT ![c] = "gone"]
  /\ outbox' = [outbox EXCEPT ![c] = <<>>]
  /\ received' = [received EXCEPT ![c] = <<>>]
  /\ since' = [since EXCEPT ![c] = Never]
  /\ Invoke("disconnect", <<"bye", c>>)
  /\ netTask' = <<>>
  /\ UNCHANGED <<process, connectionListMutex, mainTask, count, position, messages, handlerVars>>

\* variant: the networking thread sends the echo itself
onMessage_EchoesDirectly(c) ==
  /\ NetIdle
  /\ state[c] = "open"
  /\ messages < MaxMessages
  /\ messages' = messages + 1
  /\ \/ Send(c, <<"message", 0>>)
     \/ UNCHANGED <<process, outbox>>
  /\ UNCHANGED <<state, received, listVars, netTask, mainVars, bcastVars, handlerVars>>

\* JSON with the type "message" is handled on the main thread, other types by no one
onMessage(c) ==
  /\ NetIdle
  /\ state[c] = "open"
  /\ messages < MaxMessages
  /\ messages' = messages + 1
  /\ \/ Invoke("message", <<"message", c>>)
     \/ UNCHANGED mainQueue
  /\ UNCHANGED <<process, connVars, listVars, netTask, mainTask, bcastVars, handlerVars>>

\* JSON that is no object, or a type asString cannot convert: nothing catches what is thrown
onMessageThrows(c) ==
  /\ NetIdle
  /\ state[c] = "open"
  /\ messages < MaxMessages
  /\ messages' = messages + 1
  /\ process' = "bad_message"
  /\ UNCHANGED <<connVars, listVars, netTask, mainVars, bcastVars, handlerVars>>

-----------------------------------------------------------------------------
(* The main thread: the handlers posted by server.cpp.                      *)

\* variant: the disconnect handler sends, too
TakeTask_Farewell ==
  /\ Running /\ mainTask = <<>>
  /\ mainQueue # <<>>
  /\ Head(mainQueue)[1] # "message" => connectionListMutex = "free"
  /\ mainTask' = Head(mainQueue)
  /\ mainQueue' = Tail(mainQueue)
  /\ UNCHANGED <<process, connVars, listVars, netTask, bcastVars, messages, handlerVars>>

\* numConnections takes the lock of the list; the message handler does not call it
TakeTask ==
  /\ Running /\ mainTask = <<>>
  /\ mainQueue # <<>>
  /\ Head(mainQueue)[1] # "message" => connectionListMutex = "free"
  /\ mainTask' = IF Head(mainQueue)[1] = "bye" THEN <<>> ELSE Head(mainQueue)
  /\ mainQueue' = Tail(mainQueue)
  /\ UNCHANGED <<process, connVars, listVars, netTask, bcastVars, messages, handlerVars>>

SendReply ==
  /\ Running /\ mainTask # <<>>
  /\ Send(mainTask[2], <<mainTask[1], 0>>)
  /\ mainTask' = <<>>
  /\ UNCHANGED <<state, received, listVars, netTask, mainQueue, bcastVars, messages, handlerVars>>

\* a member asString cannot convert: it throws before the echo is sent
EchoThrows ==
  /\ Running /\ mainTask # <<>>
  /\ mainTask[1] = "message"
  /\ process' = "bad_message"
  /\ UNCHANGED <<connVars, listVars, netTask, mainVars, bcastVars, messages, handlerVars>>

-----------------------------------------------------------------------------
(* broadcastMessage, on the input or the tunnel thread.                     *)

BroadcastBegins(t) ==
  /\ Running
  /\ connectionListMutex = "free"
  /\ count[t] < MaxBroadcasts
  /\ connectionListMutex' = t
  /\ count' = [count EXCEPT ![t] = @ + 1]
  /\ position' = [position EXCEPT ![t] = 0]
  /\ UNCHANGED <<process, connVars, openConnections, netTask, mainVars, since, messages, handlerVars>>

BroadcastSends(t) ==
  /\ Running
  /\ connectionListMutex = t
  /\ position[t] < Len(openConnections)
  /\ Send(openConnections[position[t] + 1], <<t, count[t]>>)
  /\ position' = [position EXCEPT ![t] = @ + 1]
  /\ UNCHANGED <<state, received, listVars, netTask, mainVars, count, since, messages, handlerVars>>

BroadcastEnds(t) ==
  /\ Running
  /\ connectionListMutex = t
  /\ position[t] >= Len(openConnections)
  /\ connectionListMutex' = "free"
  /\ UNCHANGED <<process, connVars, openConnections, netTask, mainVars, bcastVars, messages, handlerVars>>

-----------------------------------------------------------------------------
NetStep ==
  \/ Listens \/ Registers
  \/ \E c \in Conns : onOpen(c) \/ WriteFrame(c) \/ HandleTerminate(c) \/ onClose(c)
ClientStep ==
  \E c \in Conns : Opens(c) \/ ReceivesClose(c) \/ ConnectionFails(c) \/ onMessage(c) \/ onMessageThrows(c)
MainStep == TakeTask \/ SendReply
BroadcastStep == \E t \in Broadcasters : BroadcastSends(t) \/ BroadcastEnds(t)

Next ==
  \/ NetStep \/ ListenThrows \/ ClientStep \/ MainStep \/ EchoThrows \/ BroadcastStep
  \/ \E t \in Broadcasters : BroadcastBegins(t)

Spec == Init /\ [][Next]_vars

(* Every thread keeps running; clients, input and the tunnel need not act.  *)
(* The mutex is not fair, but it is free most of the time: MaxBroadcasts    *)
(* excludes only that broadcasts follow each other without a gap forever.   *)
FairSpec ==
  /\ Spec
  /\ WF_vars(Listens \/ Registers)
  /\ WF_vars(MainStep)
  /\ WF_vars(BroadcastStep)
  /\ \A c \in Conns : WF_vars(onOpen(c) \/ onClose(c)) /\ WF_vars(WriteFrame(c)) /\ WF_vars(HandleTerminate(c))

-----------------------------------------------------------------------------
Message == ({"hello", "message", "close"} \cup Broadcasters) \X (0 .. MaxBroadcasts)

TypeOK ==
  /\ process \in {"running", "bad_listen", "bad_send", "bad_message"}
  /\ state \in [Conns -> {"none", "open", "closing", "closed", "gone"}]
  /\ outbox \in [Conns -> Seq(Message)]
  /\ received \in [Conns -> Seq(Message)]
  /\ openConnections \in Seq(Conns)
  /\ connectionListMutex \in Broadcasters \cup {"free"}
  /\ eventLoop \in Seq({"connect", "disconnect", "message"})
  /\ handlers \subseteq {"connect", "disconnect", "message"}
  /\ netTask \in {<<>>, <<"listen">>} \cup ({"open", "close"} \X Conns)
  /\ mainQueue \in Seq({"hello", "bye", "message"} \X Conns)
  /\ mainTask \in {<<>>} \cup ({"hello", "message"} \X Conns)
  /\ count \in [Broadcasters -> 0 .. MaxBroadcasts]
  /\ position \in [Broadcasters -> Nat]
  /\ since \in [Conns -> [Broadcasters -> 0 .. MaxBroadcasts]]
  /\ messages \in 0 .. MaxMessages

(* The list holds each connection whose open handler has run and whose      *)
(* close handler has not, once (onOpen, onClose).                           *)
ListIsExact ==
  /\ \A c \in Conns : c \in ListedConns <=>
       state[c] \in {"open", "closing", "closed"} /\ netTask # <<"open", c>>
  /\ \A i, j \in DOMAIN openConnections : openConnections[i] = openConnections[j] => i = j

(* The broadcasts of thread t that connection c was given, in order.        *)
Given(c, t) == Keep(received[c] \o outbox[c], {t} \X Nat)

(* The place of c in the list.                                             *)
Place(c) == CHOOSE i \in DOMAIN openConnections : openConnections[i] = c

(* The number of the newest broadcast of t that must have been given to c:  *)
(* the one in progress is not, until the loop has reached the connection.   *)
Newest(c, t) ==
  IF connectionListMutex = t /\ Place(c) > position[t] THEN count[t] - 1 ELSE count[t]

(* While the process runs, a listed connection is given exactly the          *)
(* broadcasts of a thread that began since it was listed, once each and in  *)
(* order, up to the newest one that has reached it.                         *)
BroadcastsWithoutGap ==
  Running => \A c \in ListedConns, t \in Broadcasters :
    LET given == Given(c, t)
    IN  /\ Len(given) = Newest(c, t) - since[c][t]
        /\ \A i \in DOMAIN given : given[i][2] = since[c][t] + i

(* The replies of the main thread that connection c was given, in order.    *)
Replies(c) == Keep(received[c] \o outbox[c], {"hello", "message"} \X {0})

(* A client gets one hello, and no echo of a message before it: the         *)
(* networking thread posts the one after the other, the main thread keeps   *)
(* the order, although it may answer long after other frames were sent.     *)
HelloBeforeEchoes ==
  \A c \in Conns :
    \A i \in DOMAIN Replies(c) : Replies(c)[i][1] = "hello" <=> i = 1

(* A connection whose open handler has not run. *)
Unlisted(c) == state[c] = "none" \/ netTask = <<"open", c>>

Tasks == {mainQueue[i] : i \in DOMAIN mainQueue} \cup ({mainTask} \ {<<>>})

(* The handlers are registered before any connection is served. *)
RegisteredFirst ==
  /\ "connect" \in handlers \/ \E i \in DOMAIN eventLoop : eventLoop[i] = "connect"
  /\ \A c \in Conns : state[c] # "none" => eventLoop = <<>>

(* The session does not change while a handler runs. *)
InHandler ==
  \A c \in Conns :
    /\ netTask = <<"open", c>> => state[c] = "open"
    /\ netTask = <<"close", c>> => state[c] = "closed"

(* Nothing is sent to a connection, or posted for it, before it is listed.  *)
FreshUntilListed ==
  \A c \in Conns : Unlisted(c) =>
    outbox[c] = <<>> /\ received[c] = <<>> /\ \A task \in Tasks : task[2] # c

(* The one hello of a connection is in the queue, about to be sent or sent, *)
(* and what is posted later for the connection comes later.                 *)
HelloOnItsWay ==
  \A c \in Conns : state[c] # "gone" =>
    /\ \A i, j \in DOMAIN mainQueue :
         mainQueue[i] = <<"hello", c>> /\ mainQueue[j] = <<"hello", c>> => i = j
    /\ (\E i \in DOMAIN mainQueue : mainQueue[i] = <<"hello", c>>) =>
         Replies(c) = <<>> /\ mainTask \notin {<<"hello", c>>, <<"message", c>>}
    /\ mainTask = <<"hello", c>> => Replies(c) = <<>>
    /\ mainTask = <<"message", c>> => Replies(c) # <<>>
    /\ \A j \in DOMAIN mainQueue : mainQueue[j] = <<"message", c>> =>
         \/ Replies(c) # <<>>
         \/ mainTask = <<"hello", c>>
         \/ \E i \in 1 .. (j - 1) : mainQueue[i] = <<"hello", c>>
    /\ c \in ListedConns =>
         \/ Replies(c) # <<>>
         \/ mainTask = <<"hello", c>>
         \/ \E i \in DOMAIN mainQueue : mainQueue[i] = <<"hello", c>>

(* What every step preserves: the properties above, and why they last. *)
ServerInv ==
  /\ TypeOK /\ ListIsExact
  /\ RegisteredFirst /\ InHandler /\ FreshUntilListed
  /\ BroadcastsWithoutGap
  /\ HelloBeforeEchoes /\ (Running => HelloOnItsWay)

(* A client that stays gets its hello, unless something thrown ends the     *)
(* process: no broadcast keeps numConnections from its lock for ever.       *)
HelloArrives ==
  \A c \in Conns : state[c] = "open" ~>
    (~Running \/ state[c] # "open" \/ \E i \in DOMAIN received[c] : received[c][i] = <<"hello", 0>>)

(* A connection that is closed leaves the list, whatever is being broadcast. *)
ClosedIsForgotten ==
  \A c \in Conns : state[c] = "closed" ~> (~Running \/ c \notin ListedConns)

(* A broadcast reaches all connected clients: if it ended because a send    *)
(* threw, no other client that is connected was left out.  This is what     *)
(* the header says of broadcastMessage (WebsocketServer.h:116).             *)
BroadcastReachesAll ==
  process = "bad_send" /\ connectionListMutex # "free" =>
    LET t == connectionListMutex
    IN  \A c \in ListedConns : state[c] = "open" =>
          \E i \in DOMAIN Given(c, t) : Given(c, t)[i] = <<t, count[t]>>
=============================================================================
