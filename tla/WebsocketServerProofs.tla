------------------------ MODULE WebsocketServerProofs ------------------------
(***************************************************************************)
(* Proofs about the connections of the server, for any number of them, of  *)
(* threads that broadcast, and of broadcasts and messages.                 *)
(***************************************************************************)
EXTENDS WebsocketServer, SequenceLemmas

LEMMA Bounds == MaxBroadcasts \in Nat /\ MaxMessages \in Nat
BY BoundsAssumption

LEMMA CloseIsMessage == Close \in Message
BY Bounds DEF Close, Message

-----------------------------------------------------------------------------
(* Types. *)

LEMMA TypeInit == Init => TypeOK
BY Bounds DEF Init, Never, TypeOK

LEMMA SendTypes ==
  ASSUME TypeOK, NEW c \in Conns, NEW m \in Message, Send(c, m)
  PROVE  /\ process' \in {"running", "bad_listen", "bad_send", "bad_message"}
         /\ outbox' \in [Conns -> Seq(Message)]
<1>1. CASE state[c] = "open"
  <2>1. outbox[c] \in Seq(Message) /\ outbox \in [Conns -> Seq(Message)]
    BY DEF TypeOK
  <2>2. Append(outbox[c], m) \in Seq(Message)
    BY <2>1
  <2>3. outbox' = [outbox EXCEPT ![c] = Append(outbox[c], m)] /\ process' = process
    BY <1>1 DEF Send
  <2> QED
    BY <2>1, <2>2, <2>3 DEF TypeOK
<1>2. CASE state[c] # "open"
  BY <1>2 DEF TypeOK, Send
<1> QED
  BY <1>1, <1>2

LEMMA InvokeTypes ==
  ASSUME TypeOK, NEW c \in Conns, NEW word \in {"hello", "bye", "message"},
         NEW event, Invoke(event, <<word, c>>)
  PROVE  mainQueue' \in Seq({"hello", "bye", "message"} \X Conns)
<1> DEFINE task == <<word, c>>
           T == {"hello", "bye", "message"} \X Conns
<1>1. task \in T /\ mainQueue \in Seq(T)
  BY DEF TypeOK
<1>2. mainQueue' = Append(mainQueue, task) \/ mainQueue' = mainQueue
  BY DEF Invoke, Post
<1> HIDE DEF task, T
<1>3. mainQueue' \in Seq(T)
  BY <1>1, <1>2
<1> QED
  BY <1>3 DEF T

LEMMA TypeStep == TypeOK /\ [Next]_vars => TypeOK'
<1> SUFFICES ASSUME TypeOK, [Next]_vars PROVE TypeOK'
  OBVIOUS
<1> USE DEF connVars, listVars, mainVars, bcastVars, handlerVars
<1>1. CASE Listens \/ ListenThrows
  <2>1. CASE Listens
    BY <2>1 DEF Listens, TypeOK
  <2>2. CASE ListenThrows
    BY <2>2 DEF ListenThrows, TypeOK
  <2> QED
    BY <1>1, <2>1, <2>2
<1>2. CASE Registers
  <2>1. eventLoop \in Seq({"connect", "disconnect", "message"}) /\ eventLoop # <<>>
    BY <1>2 DEF Registers, TypeOK
  <2>2. /\ Head(eventLoop) \in {"connect", "disconnect", "message"}
        /\ Tail(eventLoop) \in Seq({"connect", "disconnect", "message"})
    BY <2>1
  <2> QED
    BY <1>2, <2>2 DEF Registers, TypeOK
<1>3. ASSUME NEW c \in Conns, onOpen(c) PROVE TypeOK'
  <2>1. mainQueue' \in Seq({"hello", "bye", "message"} \X Conns)
    BY <1>3, InvokeTypes DEF onOpen
  <2> QED
    BY <1>3, <2>1 DEF onOpen, TypeOK
<1>4. ASSUME NEW c \in Conns, WriteFrame(c) PROVE TypeOK'
  <2>1. received' \in [Conns -> Seq(Message)] /\ outbox' \in [Conns -> Seq(Message)]
    BY <1>4 DEF WriteFrame, TypeOK
  <2>2. state' \in [Conns -> {"none", "open", "closing", "closed", "gone"}]
    BY <1>4 DEF WriteFrame, TypeOK
  <2> QED
    BY <1>4, <2>1, <2>2 DEF WriteFrame, TypeOK
<1>5. ASSUME NEW c \in Conns, HandleTerminate(c) \/ Opens(c) \/ ConnectionFails(c) PROVE TypeOK'
  <2>1. CASE HandleTerminate(c)
    BY <2>1 DEF HandleTerminate, TypeOK
  <2>2. CASE Opens(c)
    BY <2>2 DEF Opens, TypeOK
  <2>3. CASE ConnectionFails(c)
    BY <2>3 DEF ConnectionFails, TypeOK
  <2> QED
    BY <1>5, <2>1, <2>2, <2>3
<1>6. ASSUME NEW c \in Conns, onClose(c) PROVE TypeOK'
  <2>1. openConnections' \in Seq(Conns)
    BY <1>6, KeepFacts DEF onClose, TypeOK
  <2>2. mainQueue' \in Seq({"hello", "bye", "message"} \X Conns)
    BY <1>6, InvokeTypes DEF onClose
  <2>4. since' \in [Conns -> [Broadcasters -> 0 .. MaxBroadcasts]]
    BY <1>6, Bounds DEF onClose, Never, TypeOK
  <2>3. /\ outbox' \in [Conns -> Seq(Message)] /\ received' \in [Conns -> Seq(Message)]
        /\ state' \in [Conns -> {"none", "open", "closing", "closed", "gone"}]
    BY <1>6 DEF onClose, TypeOK
  <2> QED
    BY <1>6, <2>1, <2>2, <2>3, <2>4 DEF onClose, TypeOK
<1>7. ASSUME NEW c \in Conns, ReceivesClose(c) PROVE TypeOK'
  BY <1>7, CloseIsMessage DEF ReceivesClose, TypeOK
<1>8. ASSUME NEW c \in Conns, onMessage(c) \/ onMessageThrows(c) PROVE TypeOK'
  <2>1. messages' \in 0 .. MaxMessages
    BY <1>8, Bounds DEF onMessage, onMessageThrows, TypeOK
  <2>2. CASE onMessage(c)
    <3>1. mainQueue' \in Seq({"hello", "bye", "message"} \X Conns)
      BY <2>2, InvokeTypes DEF onMessage, TypeOK
    <3> QED
      BY <2>1, <2>2, <3>1 DEF onMessage, TypeOK
  <2>3. CASE onMessageThrows(c)
    BY <2>1, <2>3 DEF onMessageThrows, TypeOK
  <2> QED
    BY <1>8, <2>2, <2>3
<1>9. CASE TakeTask
  <2> DEFINE T == {"hello", "bye", "message"} \X Conns
  <2>1. mainQueue \in Seq(T) /\ mainQueue # <<>>
    BY <1>9 DEF TakeTask, TypeOK
  <2>2. Head(mainQueue) \in T /\ Tail(mainQueue) \in Seq(T)
    <3> HIDE DEF T
    <3> QED
      BY <2>1
  <2>3. mainTask' \in {<<>>} \cup ({"hello", "message"} \X Conns)
    BY <1>9, <2>2 DEF TakeTask
  <2> QED
    BY <1>9, <2>2, <2>3 DEF TakeTask, TypeOK
<1>10. CASE SendReply
  <2>1. mainTask[2] \in Conns /\ <<mainTask[1], 0>> \in Message
    BY <1>10, Bounds DEF SendReply, TypeOK, Message
  <2>2. /\ process' \in {"running", "bad_listen", "bad_send", "bad_message"}
        /\ outbox' \in [Conns -> Seq(Message)]
    BY <1>10, <2>1, SendTypes DEF SendReply
  <2> QED
    BY <1>10, <2>2 DEF SendReply, TypeOK
<1>11. CASE EchoThrows
  BY <1>11 DEF EchoThrows, TypeOK
<1>12. ASSUME NEW t \in Broadcasters, BroadcastBegins(t) PROVE TypeOK'
  BY <1>12, Bounds DEF BroadcastBegins, TypeOK
<1>13. ASSUME NEW t \in Broadcasters, BroadcastSends(t) PROVE TypeOK'
  <2>1. openConnections[position[t] + 1] \in Conns
    <3>0. openConnections \in Seq(Conns) /\ position \in [Broadcasters -> Nat]
      BY DEF TypeOK
    <3>1. position[t] + 1 \in 1 .. Len(openConnections) /\ openConnections \in Seq(Conns)
      BY <1>13, <3>0 DEF BroadcastSends
    <3> QED
      BY <3>1
  <2>2. <<t, count[t]>> \in Message
    BY DEF TypeOK, Message
  <2>3. /\ process' \in {"running", "bad_listen", "bad_send", "bad_message"}
        /\ outbox' \in [Conns -> Seq(Message)]
    BY <1>13, <2>1, <2>2, SendTypes DEF BroadcastSends
  <2>4. position' \in [Broadcasters -> Nat]
    <3>1. position \in [Broadcasters -> Nat] /\ position' = [position EXCEPT ![t] = position[t] + 1]
      BY <1>13 DEF BroadcastSends, TypeOK
    <3>2. position[t] + 1 \in Nat
      BY <3>1
    <3> HIDE DEF TypeOK
    <3> QED
      BY <3>1, <3>2
  <2> QED
    BY <1>13, <2>3, <2>4 DEF BroadcastSends, TypeOK
<1>14. ASSUME NEW t \in Broadcasters, BroadcastEnds(t) PROVE TypeOK'
  BY <1>14 DEF BroadcastEnds, TypeOK
<1>15. CASE UNCHANGED vars
  BY <1>15 DEF vars, TypeOK
<1> QED
  BY <1>1, <1>2, <1>3, <1>4, <1>5, <1>6, <1>7, <1>8, <1>9, <1>10, <1>11, <1>12, <1>13, <1>14, <1>15
     DEF Next, NetStep, ClientStep, MainStep, BroadcastStep

(* All variables of the server keep their types. *)
THEOREM TypesHold == Spec => []TypeOK
BY TypeInit, TypeStep, PTL DEF Spec

-----------------------------------------------------------------------------
(* The list. *)

ListInv == ListIsExact /\ InHandler

LEMMA ListOfElements ==
  /\ ListedConns = Elements(openConnections)
  /\ ListedConns' = Elements(openConnections')
BY DEF ListedConns, Elements

LEMMA ListRepeats ==
  ASSUME NEW list
  PROVE  Repeated(list) = {} <=> \A i, j \in DOMAIN list : list[i] = list[j] => i = j
BY DEF Repeated

LEMMA ListInit == Init => ListInv
BY DEF Init, ListInv, ListIsExact, InHandler, ListedConns

(* What else changes does not matter to the list. *)
LEMMA ListStutter ==
  ListInv /\ UNCHANGED <<state, openConnections, netTask>> => ListInv'
BY DEF ListInv, ListIsExact, InHandler, ListedConns

(* What a connection that is served may become. *)
LEMMA ListServes ==
  ASSUME TypeOK, ListInv, netTask = <<>>, NEW c \in Conns,
         state[c] \in {"open", "closing", "closed"},
         NEW new \in {"open", "closing", "closed"},
         state' = [state EXCEPT ![c] = new],
         UNCHANGED <<openConnections, netTask>>
  PROVE  ListInv'
<1>1. \A d \in Conns : state'[d] \in {"open", "closing", "closed"} <=>
                         state[d] \in {"open", "closing", "closed"}
  BY DEF TypeOK
<1>2. ListIsExact'
  BY <1>1 DEF ListInv, ListIsExact, ListedConns
<1>3. InHandler'
  BY DEF InHandler
<1> QED
  BY <1>2, <1>3 DEF ListInv

LEMMA ListOpens == ASSUME TypeOK, ListInv, NEW c \in Conns, Opens(c) PROVE ListInv'
<1>1. /\ netTask = <<>> /\ netTask' = <<"open", c>> /\ state[c] = "none"
      /\ state' = [state EXCEPT ![c] = "open"] /\ openConnections' = openConnections
  BY DEF Opens, NetIdle, listVars
<1>2. state'[c] = "open" /\ \A d \in Conns : d # c => state'[d] = state[d]
  BY <1>1 DEF TypeOK
<1>3. ListIsExact'
  BY <1>1, <1>2 DEF ListInv, ListIsExact, ListedConns
<1>4. InHandler'
  BY <1>1, <1>2 DEF InHandler
<1> QED
  BY <1>3, <1>4 DEF ListInv

LEMMA ListTerminates ==
  ASSUME TypeOK, ListInv, NEW c \in Conns, HandleTerminate(c) PROVE ListInv'
<1>1. /\ netTask = <<>> /\ netTask' = <<"close", c>> /\ state[c] = "closed"
      /\ state' = state /\ openConnections' = openConnections
  BY DEF HandleTerminate, NetIdle, listVars, connVars
<1> QED
  BY <1>1 DEF ListInv, ListIsExact, ListedConns, InHandler

LEMMA ListOnOpen == ASSUME TypeOK, ListInv, NEW c \in Conns, onOpen(c) PROVE ListInv'
<1>1. /\ netTask = <<"open", c>> /\ netTask' = <<>> /\ state' = state
      /\ openConnections' = Append(openConnections, c) /\ openConnections \in Seq(Conns)
  BY DEF onOpen, connVars, TypeOK
<1>2. c \notin ListedConns /\ state[c] = "open"
  BY <1>1 DEF ListInv, ListIsExact, InHandler
<1>3. /\ ListedConns' = ListedConns \cup {c}
      /\ Repeated(openConnections') = {} <=> Repeated(openConnections) = {} /\ c \notin ListedConns
  BY <1>1, AppendFacts, ListOfElements
<1>4. ListIsExact'
  <2>1. \A d \in Conns : d \in ListedConns' <=>
          state'[d] \in {"open", "closing", "closed"} /\ netTask' # <<"open", d>>
    BY <1>1, <1>2, <1>3 DEF ListInv, ListIsExact
  <2>2. Repeated(openConnections) = {}
    BY ListRepeats DEF ListInv, ListIsExact
  <2> QED
    BY <1>2, <1>3, <2>1, <2>2, ListRepeats DEF ListIsExact
<1>5. InHandler'
  BY <1>1 DEF InHandler
<1> QED
  BY <1>4, <1>5 DEF ListInv

LEMMA ListOnClose == ASSUME TypeOK, ListInv, NEW c \in Conns, onClose(c) PROVE ListInv'
<1> DEFINE T == {e \in Conns : e # c /\ state[e] # "gone"}
<1>1. /\ netTask = <<"close", c>> /\ netTask' = <<>> /\ state' = [state EXCEPT ![c] = "gone"]
      /\ openConnections' = Keep(openConnections, T) /\ openConnections \in Seq(Conns)
  BY DEF onClose, TypeOK
<1>2. state'[c] = "gone" /\ \A d \in Conns : d # c => state'[d] = state[d]
  BY <1>1 DEF TypeOK
<1> HIDE DEF T
<1>3. /\ ListedConns' = ListedConns \cap T
      /\ Repeated(openConnections) = {} => Repeated(openConnections') = {}
  BY <1>1, KeepFacts, ListOfElements
<1>4. ListIsExact'
  <2>1. \A d \in Conns : d \in ListedConns' <=>
          state'[d] \in {"open", "closing", "closed"} /\ netTask' # <<"open", d>>
    BY <1>1, <1>2, <1>3 DEF T, ListInv, ListIsExact
  <2>2. Repeated(openConnections) = {}
    BY ListRepeats DEF ListInv, ListIsExact
  <2> QED
    BY <1>3, <2>1, <2>2, ListRepeats DEF ListIsExact
<1>5. InHandler'
  BY <1>1 DEF InHandler
<1> QED
  BY <1>4, <1>5 DEF ListInv

LEMMA ListStep == TypeOK /\ ListInv /\ [Next]_vars => ListInv'
<1> SUFFICES ASSUME TypeOK, ListInv, [Next]_vars PROVE ListInv'
  OBVIOUS
<1> USE DEF connVars, listVars
<1>1. CASE Listens
  BY <1>1 DEF Listens, ListInv, ListIsExact, InHandler, ListedConns
<1>2. CASE \/ Registers \/ ListenThrows \/ TakeTask \/ SendReply \/ EchoThrows \/ UNCHANGED vars
           \/ \E c \in Conns : onMessage(c) \/ onMessageThrows(c)
           \/ \E t \in Broadcasters : BroadcastBegins(t) \/ BroadcastSends(t) \/ BroadcastEnds(t)
  <2>1. UNCHANGED <<state, openConnections, netTask>>
    BY <1>2 DEF Registers, ListenThrows, TakeTask, SendReply, EchoThrows, onMessage, onMessageThrows,
      BroadcastBegins, BroadcastSends, BroadcastEnds, vars
  <2> QED
    BY <2>1, ListStutter
<1>3. ASSUME NEW c \in Conns, ReceivesClose(c) \/ WriteFrame(c) \/ ConnectionFails(c)
      PROVE  ListInv'
  <2>1. /\ netTask = <<>> /\ UNCHANGED <<openConnections, netTask>>
        /\ state[c] \in {"open", "closing", "closed"}
    BY <1>3 DEF ReceivesClose, WriteFrame, ConnectionFails, NetIdle
  <2>2. \E new \in {"open", "closing", "closed"} : state' = [state EXCEPT ![c] = new]
    <3>1. state = [state EXCEPT ![c] = state[c]]
      BY DEF TypeOK
    <3> QED
      BY <1>3, <2>1, <3>1 DEF ReceivesClose, WriteFrame, ConnectionFails
  <2> QED
    BY <2>1, <2>2, ListServes
<1>4. ASSUME NEW c \in Conns, Opens(c) \/ HandleTerminate(c) \/ onOpen(c) \/ onClose(c)
      PROVE  ListInv'
  BY <1>4, ListOpens, ListTerminates, ListOnOpen, ListOnClose
<1> QED
  BY <1>1, <1>2, <1>3, <1>4 DEF Next, NetStep, ClientStep, MainStep, BroadcastStep

(* The list holds the connections whose open handler has run and whose     *)
(* close handler has not, each once (onOpen, onClose).                     *)
THEOREM ListInvariant == Spec => []ListIsExact
<1>1. Init => TypeOK /\ ListInv
  BY TypeInit, ListInit
<1>2. TypeOK /\ ListInv /\ [Next]_vars => (TypeOK /\ ListInv)'
  BY TypeStep, ListStep
<1>3. ListInv => ListIsExact
  BY DEF ListInv
<1> QED
  BY <1>1, <1>2, <1>3, PTL DEF Spec

-----------------------------------------------------------------------------
(* What is known of a connection before it is listed. *)

LEMMA RegisteredInit == Init => RegisteredFirst
BY DEF Init, RegisteredFirst

LEMMA RegisteredStep == TypeOK /\ ListInv /\ RegisteredFirst /\ [Next]_vars => RegisteredFirst'
<1> SUFFICES ASSUME TypeOK, ListInv, RegisteredFirst, [Next]_vars PROVE RegisteredFirst'
  OBVIOUS
<1> USE DEF connVars, listVars, mainVars, bcastVars, handlerVars
<1>1. CASE Registers
  <2> DEFINE E == {"connect", "disconnect", "message"}
  <2>1. /\ eventLoop \in Seq(E) /\ eventLoop # <<>> /\ state' = state
        /\ handlers' = handlers \cup {Head(eventLoop)} /\ eventLoop' = Tail(eventLoop)
    BY <1>1 DEF Registers, TypeOK
  <2>2. \A i \in DOMAIN eventLoop : i = 1 \/ (i - 1 \in DOMAIN eventLoop' /\ eventLoop'[i - 1] = eventLoop[i])
    BY <2>1
  <2>3. \A c \in Conns : state[c] = "none"
    BY <2>1 DEF RegisteredFirst
  <2>4. Head(eventLoop) = eventLoop[1]
    BY <2>1
  <2> QED
    BY <2>1, <2>2, <2>3, <2>4 DEF RegisteredFirst
<1>2. ASSUME NEW c \in Conns, Opens(c) PROVE RegisteredFirst'
  BY <1>2 DEF Opens, NetIdle, RegisteredFirst
<1>3. ASSUME UNCHANGED <<eventLoop, handlers>>, \A d \in Conns : state'[d] # "none" => state[d] # "none"
      PROVE  RegisteredFirst'
  BY <1>3 DEF RegisteredFirst
<1>4. CASE \/ Listens \/ ListenThrows \/ TakeTask \/ SendReply \/ EchoThrows \/ UNCHANGED vars
           \/ \E c \in Conns : onMessage(c) \/ onMessageThrows(c) \/ HandleTerminate(c) \/ onOpen(c)
           \/ \E t \in Broadcasters : BroadcastBegins(t) \/ BroadcastSends(t) \/ BroadcastEnds(t)
  <2>1. UNCHANGED <<state, eventLoop, handlers>>
    BY <1>4 DEF Listens, ListenThrows, TakeTask, SendReply, EchoThrows, onMessage, onMessageThrows,
      HandleTerminate, onOpen, BroadcastBegins, BroadcastSends, BroadcastEnds, vars
  <2> QED
    BY <1>3, <2>1
<1>5. ASSUME NEW c \in Conns, ReceivesClose(c) \/ WriteFrame(c) \/ ConnectionFails(c) \/ onClose(c)
      PROVE  RegisteredFirst'
  <2>1. state[c] # "none" /\ UNCHANGED <<eventLoop, handlers>>
    BY <1>5 DEF ReceivesClose, WriteFrame, ConnectionFails, onClose, ListInv, InHandler
  <2>2. \A d \in Conns : d # c => state'[d] = state[d]
    BY <1>5 DEF ReceivesClose, WriteFrame, ConnectionFails, onClose, TypeOK
  <2> QED
    BY <1>3, <2>1, <2>2
<1> QED
  BY <1>1, <1>2, <1>4, <1>5 DEF Next, NetStep, ClientStep, MainStep, BroadcastStep

LEMMA FreshInit == Init => FreshUntilListed
BY DEF Init, FreshUntilListed, Tasks

(* What a step must not do to a connection that is not listed. *)
LEMMA FreshKept ==
  ASSUME FreshUntilListed,
         \A d \in Conns : Unlisted(d)' =>
           Unlisted(d) /\ outbox'[d] = outbox[d] /\ received'[d] = received[d],
         \A task \in Tasks' : task \in Tasks \/ ~Unlisted(task[2])'
  PROVE  FreshUntilListed'
BY DEF FreshUntilListed

LEMMA PostedTasks ==
  ASSUME TypeOK, NEW task, NEW event, Invoke(event, task), mainTask' = mainTask
  PROVE  Tasks' \subseteq Tasks \cup {task}
<1> DEFINE T == {"hello", "bye", "message"} \X Conns
<1>1. mainQueue \in Seq(T)
  BY DEF TypeOK
<1>2. mainQueue' = mainQueue \/ mainQueue' = Append(mainQueue, task)
  BY DEF Invoke, Post
<1>3. {mainQueue'[i] : i \in DOMAIN mainQueue'} \subseteq {mainQueue[i] : i \in DOMAIN mainQueue} \cup {task}
  BY <1>1, <1>2
<1> QED
  BY <1>3 DEF Tasks

LEMMA TakenTasks == ASSUME TypeOK, TakeTask PROVE Tasks' \subseteq Tasks
<1> DEFINE T == {"hello", "bye", "message"} \X Conns
<1>1. mainQueue \in Seq(T) /\ mainQueue # <<>>
  BY DEF TypeOK, TakeTask
<1>2. mainQueue' = Tail(mainQueue) /\ mainTask' \in {<<>>, Head(mainQueue)}
  BY DEF TakeTask
<1> HIDE DEF T
<1>3. /\ Head(mainQueue) \in {mainQueue[i] : i \in DOMAIN mainQueue}
      /\ {mainQueue'[i] : i \in DOMAIN mainQueue'} \subseteq {mainQueue[i] : i \in DOMAIN mainQueue}
  BY <1>1, <1>2
<1> QED
  BY <1>2, <1>3 DEF Tasks

(* A message goes to the end of the outbox of the connection it is sent to. *)
LEMMA SendEffect ==
  ASSUME TypeOK, NEW c \in Conns, NEW m \in Message, Send(c, m)
  PROVE  /\ \A d \in Conns : d # c => outbox'[d] = outbox[d]
         /\ process' = process => outbox'[c] = Append(outbox[c], m) \/ process = "bad_send"
         /\ process' # process => outbox' = outbox /\ process' = "bad_send"
BY DEF Send, TypeOK

LEMMA ReplyTarget ==
  ASSUME TypeOK, mainTask # <<>>
  PROVE  /\ mainTask[1] \in {"hello", "message"} /\ mainTask[2] \in Conns
         /\ mainTask = <<mainTask[1], mainTask[2]>>
         /\ <<mainTask[1], 0>> \in Message
         /\ mainTask \in Tasks
<1>1. mainTask \in {"hello", "message"} \X Conns
  BY DEF TypeOK
<1> QED
  BY <1>1, Bounds DEF Message, Tasks

LEMMA BroadcastTarget ==
  ASSUME TypeOK, NEW t \in Broadcasters, position[t] < Len(openConnections)
  PROVE  /\ openConnections[position[t] + 1] \in ListedConns
         /\ openConnections[position[t] + 1] \in Conns
         /\ position[t] + 1 \in DOMAIN openConnections
         /\ <<t, count[t]>> \in Message
<1>1. openConnections \in Seq(Conns) /\ position[t] \in Nat
  BY DEF TypeOK
<1>2. position[t] + 1 \in DOMAIN openConnections
  BY <1>1
<1>3. <<t, count[t]>> \in Message
  BY DEF TypeOK, Message
<1> QED
  BY <1>1, <1>2, <1>3 DEF ListedConns

LEMMA FreshStep ==
  TypeOK /\ ListInv /\ FreshUntilListed /\ [Next]_vars => FreshUntilListed'
<1> SUFFICES ASSUME TypeOK, ListInv, FreshUntilListed, [Next]_vars PROVE FreshUntilListed'
  OBVIOUS
<1> USE DEF connVars, listVars, mainVars, bcastVars
<1>1. CASE \/ Listens \/ Registers \/ ListenThrows \/ EchoThrows \/ UNCHANGED vars
           \/ \E c \in Conns : onMessageThrows(c) \/ Opens(c) \/ HandleTerminate(c)
           \/ \E t \in Broadcasters : BroadcastBegins(t) \/ BroadcastEnds(t)
  <2>1. UNCHANGED <<outbox, received, mainQueue, mainTask>>
    BY <1>1 DEF Listens, Registers, ListenThrows, EchoThrows, onMessageThrows, Opens,
      HandleTerminate, BroadcastBegins, BroadcastEnds, vars
  <2>2. \A d \in Conns : Unlisted(d)' => Unlisted(d)
    BY <1>1 DEF Listens, Registers, ListenThrows, EchoThrows, onMessageThrows, Opens,
      HandleTerminate, BroadcastBegins, BroadcastEnds, vars, Unlisted, TypeOK
  <2>3. Tasks' = Tasks
    BY <2>1 DEF Tasks
  <2> QED
    BY <2>1, <2>2, <2>3, FreshKept
<1>2. ASSUME NEW c \in Conns, onOpen(c) PROVE FreshUntilListed'
  <2>1. /\ netTask = <<"open", c>> /\ netTask' = <<>> /\ state[c] = "open"
        /\ UNCHANGED <<state, outbox, received, mainTask>>
    BY <1>2 DEF onOpen, ListInv, InHandler
  <2>2. Tasks' \subseteq Tasks \cup {<<"hello", c>>}
    BY <1>2, <2>1, PostedTasks DEF onOpen
  <2>3. ~Unlisted(c)' /\ \A d \in Conns : Unlisted(d)' => Unlisted(d)
    BY <2>1 DEF Unlisted
  <2> QED
    BY <2>1, <2>2, <2>3, FreshKept
<1>3. ASSUME NEW c \in Conns, ReceivesClose(c) \/ WriteFrame(c) \/ ConnectionFails(c)
      PROVE  FreshUntilListed'
  <2>1. /\ netTask' = <<>> /\ netTask = <<>> /\ state'[c] # "none" /\ UNCHANGED <<mainQueue, mainTask>>
        /\ \A d \in Conns : d # c =>
             state'[d] = state[d] /\ outbox'[d] = outbox[d] /\ received'[d] = received[d]
    BY <1>3 DEF ReceivesClose, WriteFrame, ConnectionFails, NetIdle, TypeOK
  <2>2. Tasks' = Tasks
    BY <2>1 DEF Tasks
  <2> QED
    BY <2>1, <2>2, FreshKept DEF Unlisted
<1>4. ASSUME NEW c \in Conns, onClose(c) PROVE FreshUntilListed'
  <2>1. /\ netTask' = <<>> /\ state'[c] # "none" /\ UNCHANGED mainTask
        /\ \A d \in Conns : d # c =>
             state'[d] = state[d] /\ outbox'[d] = outbox[d] /\ received'[d] = received[d]
    BY <1>4 DEF onClose, TypeOK
  <2>2. Tasks' \subseteq Tasks \cup {<<"bye", c>>}
    BY <1>4, <2>1, PostedTasks DEF onClose
  <2> QED
    BY <2>1, <2>2, FreshKept DEF Unlisted
<1>5. ASSUME NEW c \in Conns, onMessage(c) PROVE FreshUntilListed'
  <2>1. /\ netTask' = <<>> /\ netTask = <<>> /\ state[c] = "open"
        /\ UNCHANGED <<state, outbox, received, mainTask>>
    BY <1>5 DEF onMessage, NetIdle
  <2>2. Tasks' \subseteq Tasks \cup {<<"message", c>>}
    <3>1. CASE mainQueue' = mainQueue
      BY <2>1, <3>1 DEF Tasks
    <3>2. CASE Invoke("message", <<"message", c>>)
      BY <2>1, <3>2, PostedTasks
    <3> QED
      BY <1>5, <3>1, <3>2 DEF onMessage
  <2> QED
    BY <2>1, <2>2, FreshKept DEF Unlisted
<1>6. CASE TakeTask
  BY <1>6, TakenTasks, FreshKept DEF TakeTask, Unlisted
<1>7. CASE SendReply
  <2>1. mainTask # <<>> /\ mainTask' = <<>> /\ UNCHANGED <<state, netTask, received, mainQueue>>
    BY <1>7 DEF SendReply
  <2>2. ~Unlisted(mainTask[2])
    BY <2>1, ReplyTarget DEF FreshUntilListed
  <2>3. \A d \in Conns : d # mainTask[2] => outbox'[d] = outbox[d]
    BY <1>7, <2>1, ReplyTarget, SendEffect DEF SendReply
  <2>4. Tasks' \subseteq Tasks
    BY <2>1 DEF Tasks
  <2> QED
    BY <2>1, <2>2, <2>3, <2>4, FreshKept DEF Unlisted
<1>8. ASSUME NEW t \in Broadcasters, BroadcastSends(t) PROVE FreshUntilListed'
  <2> DEFINE c == openConnections[position[t] + 1]
  <2>1. UNCHANGED <<state, netTask, received, mainQueue, mainTask>>
    BY <1>8 DEF BroadcastSends
  <2>2. c \in Conns /\ c \in ListedConns /\ <<t, count[t]>> \in Message
    BY <1>8, BroadcastTarget DEF BroadcastSends
  <2>3. ~Unlisted(c)
    BY <2>2 DEF ListInv, ListIsExact, Unlisted
  <2>4. \A d \in Conns : d # c => outbox'[d] = outbox[d]
    BY <1>8, <2>2, SendEffect DEF BroadcastSends
  <2>5. Tasks' = Tasks
    BY <2>1 DEF Tasks
  <2> QED
    BY <2>1, <2>3, <2>4, <2>5, FreshKept DEF Unlisted
<1> QED
  BY <1>1, <1>2, <1>3, <1>4, <1>5, <1>6, <1>7, <1>8
     DEF Next, NetStep, ClientStep, MainStep, BroadcastStep

-----------------------------------------------------------------------------
(* What a connection is given: sent to its client, or about to be. *)

Stream(c) == received[c] \o outbox[c]

LEMMA StreamType == TypeOK => \A c \in Conns : Stream(c) \in Seq(Message)
BY DEF TypeOK, Stream

LEMMA StreamAppends ==
  ASSUME TypeOK, NEW c \in Conns, NEW m \in Message,
         received' = received, outbox'[c] = Append(outbox[c], m)
  PROVE  Stream(c)' = Append(Stream(c), m)
<1>1. received[c] \in Seq(Message) /\ outbox[c] \in Seq(Message)
  BY DEF TypeOK
<1>2. Stream(c)' = received[c] \o Append(outbox[c], m)
  BY DEF Stream
<1>3. received[c] \o Append(outbox[c], m) = Append(received[c] \o outbox[c], m)
  <2> DEFINE r == received[c]
             o == outbox[c]
  <2>1. r \in Seq(Message) /\ o \in Seq(Message)
    BY <1>1
  <2> HIDE DEF r, o
  <2>2. r \o Append(o, m) = Append(r \o o, m)
    BY <2>1, ConcatAppend
  <2> QED
    BY <2>2 DEF r, o
<1> QED
  BY <1>2, <1>3 DEF Stream

(* Writing a frame only moves it. *)
LEMMA StreamIsWritten ==
  ASSUME TypeOK, NEW c \in Conns, WriteFrame(c)
  PROVE  \A d \in Conns : Stream(d)' = Stream(d)
<1>1. received[c] \in Seq(Message) /\ outbox[c] \in Seq(Message) /\ outbox[c] # <<>>
  BY DEF TypeOK, WriteFrame
<1>2. /\ received'[c] = Append(received[c], Head(outbox[c])) /\ outbox'[c] = Tail(outbox[c])
      /\ \A d \in Conns : d # c => received'[d] = received[d] /\ outbox'[d] = outbox[d]
  BY DEF TypeOK, WriteFrame
<1>3. Stream(c)' = Stream(c)
  BY <1>1, <1>2, ConcatMoves DEF Stream
<1> QED
  BY <1>2, <1>3 DEF Stream

(* What a sent message adds to what is kept of a stream. *)
LEMMA KeepSent ==
  ASSUME TypeOK, NEW c \in Conns, NEW m \in Message, NEW T,
         received' = received, outbox'[c] = Append(outbox[c], m)
  PROVE  Keep(Stream(c)', T) =
           IF m \in T THEN Append(Keep(Stream(c), T), m) ELSE Keep(Stream(c), T)
<1>1. Stream(c)' = Append(Stream(c), m) /\ Stream(c) \in Seq(Message)
  BY StreamAppends, StreamType
<1>2. Keep(Append(Stream(c), m), T) =
        IF m \in T THEN Append(Keep(Stream(c), T), m) ELSE Keep(Stream(c), T)
  BY <1>1, KeepAppend
<1> QED
  BY <1>1, <1>2

LEMMA KeepType ==
  ASSUME TypeOK, NEW c \in Conns, NEW T
  PROVE  Keep(Stream(c), T) \in Seq(Message)
BY StreamType, KeepFacts

LEMMA KeepFresh ==
  ASSUME FreshUntilListed, NEW c \in Conns, Unlisted(c), NEW T
  PROVE  Keep(Stream(c), T) = <<>>
<1>1. Stream(c) = <<>>
  BY DEF FreshUntilListed, Stream
<1> QED
  BY <1>1, KeepEmpty

-----------------------------------------------------------------------------
(* Broadcasts. *)

Follows(given, first, newest) ==
  /\ Len(given) = newest - first
  /\ \A i \in DOMAIN given : given[i][2] = first + i

(* BroadcastsWithoutGap, of one connection and one thread. *)
GapFree(c, t) == Follows(Given(c, t), since[c][t], Newest(c, t))

LEMMA GapOfEach ==
  /\ BroadcastsWithoutGap <=>
       (Running => \A c \in ListedConns, t \in Broadcasters : GapFree(c, t))
  /\ BroadcastsWithoutGap' <=>
       (Running' => \A c \in ListedConns', t \in Broadcasters : GapFree(c, t)')
BY DEF BroadcastsWithoutGap, GapFree, Follows

LEMMA Names ==
  ASSUME NEW t \in Broadcasters
  PROVE  t # "free" /\ t # "hello" /\ t # "message" /\ t # "close"
BY NamesAssumption

LEMMA PlaceFacts ==
  ASSUME TypeOK, ListIsExact, NEW c \in ListedConns
  PROVE  /\ c \in Conns
         /\ Place(c) \in Nat /\ Place(c) >= 1 /\ Place(c) <= Len(openConnections)
         /\ \A i \in DOMAIN openConnections : openConnections[i] = c <=> i = Place(c)
<1>1. openConnections \in Seq(Conns)
  BY DEF TypeOK
<1>2. \E i \in DOMAIN openConnections : openConnections[i] = c
  BY DEF ListedConns
<1>3. Place(c) \in DOMAIN openConnections /\ openConnections[Place(c)] = c
  BY <1>2 DEF Place
<1> QED
  BY <1>1, <1>3 DEF ListIsExact

LEMMA GivenStays ==
  ASSUME NEW c \in Conns, NEW t, Stream(c)' = Stream(c)
  PROVE  Given(c, t)' = Given(c, t)
BY DEF Given, Stream

LEMMA GivenStaysAlso ==
  ASSUME TypeOK, NEW c \in Conns, NEW t \in Broadcasters, NEW m \in Message, m[1] # t,
         received' = received, outbox'[c] = Append(outbox[c], m)
  PROVE  Given(c, t)' = Given(c, t)
<1>1. m \notin {t} \X Nat
  OBVIOUS
<1>2. Keep(Stream(c)', {t} \X Nat) = Keep(Stream(c), {t} \X Nat)
  BY <1>1, KeepSent
<1> QED
  BY <1>2 DEF Given, Stream

(* A step that leaves the list and the broadcasts alone. *)
LEMMA GapStutter ==
  ASSUME NEW c, NEW t, GapFree(c, t), Given(c, t)' = Given(c, t),
         UNCHANGED <<openConnections, connectionListMutex, count, position, since>>
  PROVE  GapFree(c, t)'
<1>1. Newest(c, t)' = Newest(c, t) /\ Place(c)' = Place(c)
  BY DEF Newest, Place
<1> QED
  BY <1>1 DEF GapFree, Follows

(* While no one broadcasts. *)
LEMMA GapWhenFree ==
  ASSUME NEW c, NEW t, connectionListMutex # t
  PROVE  GapFree(c, t) <=> Follows(Given(c, t), since[c][t], count[t])
BY DEF GapFree, Newest

LEMMA GapWhenFreeAfter ==
  ASSUME NEW c, NEW t, connectionListMutex' # t
  PROVE  GapFree(c, t)' <=> Follows(Given(c, t)', since'[c][t], count'[t])
BY DEF GapFree, Newest

(* A broadcast begins: nobody has been given it yet. *)
LEMMA GapBegins ==
  ASSUME TypeOK, ListIsExact, NEW u \in Broadcasters, BroadcastBegins(u),
         NEW c \in ListedConns, NEW t \in Broadcasters, GapFree(c, t)
  PROVE  GapFree(c, t)'
<1>1. /\ connectionListMutex = "free" /\ connectionListMutex' = u
      /\ count' = [count EXCEPT ![u] = @ + 1] /\ position' = [position EXCEPT ![u] = 0]
      /\ openConnections' = openConnections
      /\ UNCHANGED <<outbox, received, since>>
  BY DEF BroadcastBegins, connVars
<1>2. c \in Conns /\ Place(c) \in Nat /\ Place(c) >= 1 /\ Place(c)' = Place(c)
  BY <1>1, PlaceFacts DEF Place
<1>3. Given(c, t)' = Given(c, t)
  BY <1>1 DEF Given
<1>4. count[t] \in Nat
  BY Bounds DEF TypeOK
<1>5. Follows(Given(c, t), since[c][t], count[t])
  BY <1>1, Names, GapWhenFree
<1>6. CASE u # t
  <2>1. count'[t] = count[t] /\ connectionListMutex' # t
    BY <1>1, <1>6 DEF TypeOK
  <2> QED
    BY <1>1, <1>3, <1>5, <2>1, GapWhenFreeAfter
<1>7. CASE u = t
  <2>1. count'[t] = count[t] + 1 /\ position'[t] = 0 /\ connectionListMutex' = t
    BY <1>1, <1>7 DEF TypeOK
  <2>2. Place(c)' > position'[t]
    BY <1>2, <2>1
  <2>3. Newest(c, t)' = count[t]
    BY <1>4, <2>1, <2>2 DEF Newest
  <2> QED
    BY <1>1, <1>3, <1>5, <2>3 DEF GapFree
<1> QED
  BY <1>6, <1>7

(* A broadcast ends: every listed connection has been given it. *)
LEMMA GapEnds ==
  ASSUME TypeOK, ListIsExact, NEW u \in Broadcasters, BroadcastEnds(u),
         NEW c \in ListedConns, NEW t \in Broadcasters, GapFree(c, t)
  PROVE  GapFree(c, t)'
<1>1. /\ connectionListMutex = u /\ connectionListMutex' = "free"
      /\ position[u] >= Len(openConnections)
      /\ UNCHANGED <<openConnections, count, position, since, outbox, received>>
  BY DEF BroadcastEnds, connVars, bcastVars
<1>2. Place(c) <= Len(openConnections) /\ Place(c) \in Nat /\ Len(openConnections) \in Nat
  <2>1. openConnections \in Seq(Conns)
    BY DEF TypeOK
  <2> QED
    BY <2>1, PlaceFacts
<1>3. Given(c, t)' = Given(c, t)
  BY <1>1 DEF Given
<1>4. Newest(c, t) = count[t]
  <2>1. CASE u # t
    BY <1>1, <2>1 DEF Newest
  <2>2. CASE u = t
    <3>1. position[t] \in Nat
      BY DEF TypeOK
    <3>2. ~(Place(c) > position[t])
      BY <1>1, <1>2, <2>2, <3>1
    <3> QED
      BY <3>2 DEF Newest
  <2> QED
    BY <2>1, <2>2
<1>5. Follows(Given(c, t), since[c][t], count[t])
  BY <1>4 DEF GapFree
<1> QED
  BY <1>1, <1>3, <1>5, Names, GapWhenFreeAfter

LEMMA FollowsAppend ==
  ASSUME NEW t, NEW given \in Seq(Message), NEW first \in Nat, NEW n \in Nat,
         Follows(given, first, n - 1)
  PROVE  Follows(Append(given, <<t, n>>), first, n)
<1> DEFINE longer == Append(given, <<t, n>>)
<1>1. /\ Len(given) \in Nat /\ Len(longer) = Len(given) + 1
      /\ DOMAIN longer = 1 .. (Len(given) + 1) /\ DOMAIN given = 1 .. Len(given)
      /\ longer[Len(given) + 1] = <<t, n>> /\ \A i \in 1 .. Len(given) : longer[i] = given[i]
  OBVIOUS
<1> HIDE DEF longer
<1>2. Len(given) = (n - 1) - first /\ Len(longer) = n - first
  BY <1>1 DEF Follows
<1>3. ASSUME NEW i \in DOMAIN longer PROVE longer[i][2] = first + i
  <2>1. CASE i = Len(given) + 1
    BY <1>1, <1>2, <2>1
  <2>2. CASE i \in 1 .. Len(given)
    BY <1>1, <2>2 DEF Follows
  <2> QED
    BY <1>1, <2>1, <2>2
<1> QED
  BY <1>2, <1>3 DEF Follows, longer

(* A broadcast reaches the next connection of the list. *)
LEMMA GapSends ==
  ASSUME TypeOK, ListIsExact, NEW u \in Broadcasters, BroadcastSends(u), Running, Running',
         NEW c \in ListedConns, NEW t \in Broadcasters, GapFree(c, t)
  PROVE  GapFree(c, t)'
<1> DEFINE e == openConnections[position[u] + 1]
<1>1. /\ connectionListMutex = u /\ connectionListMutex' = u
      /\ Send(e, <<u, count[u]>>) /\ position' = [position EXCEPT ![u] = @ + 1]
      /\ UNCHANGED <<received, openConnections, count, since>>
  BY DEF BroadcastSends, listVars
<1>2. e \in Conns /\ <<u, count[u]>> \in Message /\ position[u] + 1 \in DOMAIN openConnections
  BY BroadcastTarget DEF BroadcastSends
<1> HIDE DEF e
<1>3. /\ outbox'[e] = Append(outbox[e], <<u, count[u]>>)
      /\ \A d \in Conns : d # e => outbox'[d] = outbox[d]
  BY <1>1, <1>2, SendEffect DEF Running
<1>4. /\ c \in Conns /\ Place(c) \in Nat /\ Place(c)' = Place(c)
      /\ e = c <=> position[u] + 1 = Place(c)
  BY <1>1, <1>2, PlaceFacts DEF Place, e
<1>5. /\ position[u] \in Nat /\ position'[u] = position[u] + 1
      /\ \A v \in Broadcasters : v # u => position'[v] = position[v]
  BY <1>1 DEF TypeOK
<1>6. count[t] \in Nat /\ count'[t] = count[t] /\ since[c][t] \in Nat
  BY <1>1, <1>4, Bounds DEF TypeOK
<1>7. CASE u # t
  <2>1. Given(c, t)' = Given(c, t)
    <3>1. CASE c = e
      BY <1>1, <1>2, <1>3, <1>7, <3>1, GivenStaysAlso
    <3>2. CASE c # e
      BY <1>1, <1>3, <1>4, <3>2 DEF Given
    <3> QED
      BY <3>1, <3>2
  <2>2. Follows(Given(c, t), since[c][t], count[t])
    BY <1>1, <1>7, GapWhenFree
  <2> QED
    BY <1>1, <1>6, <1>7, <2>1, <2>2, GapWhenFreeAfter
<1>8. CASE u = t /\ c # e
  <2>1. Given(c, t)' = Given(c, t)
    BY <1>1, <1>3, <1>4, <1>8 DEF Given
  <2>2. Place(c)' > position'[t] <=> Place(c) > position[t]
    BY <1>4, <1>5, <1>8
  <2>3. Newest(c, t)' = Newest(c, t)
    BY <1>1, <1>6, <2>2 DEF Newest
  <2> QED
    BY <1>1, <2>1, <2>3 DEF GapFree
<1>9. CASE u = t /\ c = e
  <2>1. Newest(c, t) = count[t] - 1
    BY <1>1, <1>4, <1>5, <1>9 DEF Newest
  <2>2. Newest(c, t)' = count[t]
    BY <1>1, <1>4, <1>5, <1>6, <1>9 DEF Newest
  <2>3. Given(c, t)' = Append(Given(c, t), <<t, count[t]>>)
    <3>1. <<t, count[t]>> \in {t} \X Nat
      BY <1>6
    <3>2. Keep(Stream(c)', {t} \X Nat) = Append(Keep(Stream(c), {t} \X Nat), <<t, count[t]>>)
      BY <1>1, <1>2, <1>3, <1>9, <3>1, KeepSent
    <3> QED
      BY <3>2 DEF Given, Stream
  <2>4. Given(c, t) \in Seq(Message)
    BY <1>4, KeepType DEF Given, Stream
  <2>5. Follows(Given(c, t)', since[c][t], count[t])
    BY <1>6, <2>1, <2>3, <2>4, FollowsAppend DEF GapFree
  <2> QED
    BY <1>1, <2>2, <2>5 DEF GapFree
<1> QED
  BY <1>7, <1>8, <1>9

(* A step that sends nothing, or only one word that is no broadcast. *)
LEMMA GapOther ==
  ASSUME TypeOK, NEW c \in ListedConns, NEW d \in Conns, NEW m \in Message,
         m[1] \in {"hello", "message", "close"}, c \in Conns,
         received' = received, outbox'[d] = Append(outbox[d], m),
         \A e \in Conns : e # d => outbox'[e] = outbox[e],
         UNCHANGED <<openConnections, connectionListMutex, count, position, since>>,
         NEW t \in Broadcasters, GapFree(c, t)
  PROVE  GapFree(c, t)'
<1>1. Given(c, t)' = Given(c, t)
  <2>1. CASE c = d
    BY <2>1, Names, GivenStaysAlso
  <2>2. CASE c # d
    BY <2>2 DEF Given
  <2> QED
    BY <2>1, <2>2
<1> QED
  BY <1>1, GapStutter

LEMMA GapOnOpen ==
  ASSUME TypeOK, ListInv, FreshUntilListed, NEW d \in Conns, onOpen(d),
         \A c \in ListedConns, t \in Broadcasters : GapFree(c, t),
         NEW c \in ListedConns', NEW t \in Broadcasters
  PROVE  GapFree(c, t)'
<1>1. /\ netTask = <<"open", d>> /\ connectionListMutex = "free" /\ connectionListMutex' = "free"
      /\ openConnections' = Append(openConnections, d) /\ openConnections \in Seq(Conns)
      /\ UNCHANGED <<outbox, received, count>>
      /\ since' = [since EXCEPT ![d] = count] /\ since'[d] = count
      /\ \A e \in Conns : e # d => since'[e] = since[e]
  BY DEF onOpen, connVars, TypeOK
<1>2. ListedConns' = ListedConns \cup {d}
  BY <1>1, AppendFacts, ListOfElements
<1>3. Given(c, t)' = Given(c, t)
  BY <1>1 DEF Given
<1>4. Follows(Given(c, t), since'[c][t], count[t])
  <2>1. CASE c # d
    <3>1. c \in ListedConns /\ c \in Conns
      BY <1>1, <1>2, <2>1 DEF ListedConns
    <3> QED
      BY <1>1, <2>1, <3>1, Names, GapWhenFree
  <2>2. CASE c = d
    <3>1. Given(c, t) = <<>>
      BY <1>1, <2>2, KeepFresh DEF Unlisted, Given, Stream
    <3>2. since'[c][t] = count[t] /\ count[t] \in Nat
      BY <1>1, <2>2, Bounds DEF TypeOK
    <3> QED
      BY <3>1, <3>2 DEF Follows
  <2> QED
    BY <2>1, <2>2
<1> QED
  BY <1>1, <1>3, <1>4, Names, GapWhenFreeAfter

LEMMA GapOnClose ==
  ASSUME TypeOK, ListInv, NEW d \in Conns, onClose(d),
         \A c \in ListedConns, t \in Broadcasters : GapFree(c, t),
         NEW c \in ListedConns', NEW t \in Broadcasters
  PROVE  GapFree(c, t)'
<1> DEFINE T == {e \in Conns : e # d /\ state[e] # "gone"}
<1>1. /\ connectionListMutex = "free" /\ connectionListMutex' = "free"
      /\ openConnections' = Keep(openConnections, T) /\ openConnections \in Seq(Conns)
      /\ \A e \in Conns : e # d => outbox'[e] = outbox[e] /\ received'[e] = received[e] /\ since'[e] = since[e]
      /\ count' = count
  BY DEF onClose, TypeOK
<1> HIDE DEF T
<1>2. ListedConns' = ListedConns \cap T
  BY <1>1, KeepFacts, ListOfElements
<1>3. c \in ListedConns /\ c \in Conns /\ c # d
  BY <1>2 DEF T
<1>4. Given(c, t)' = Given(c, t)
  BY <1>1, <1>3 DEF Given
<1>5. Follows(Given(c, t), since[c][t], count[t])
  BY <1>1, <1>3, Names, GapWhenFree
<1> QED
  BY <1>1, <1>3, <1>4, <1>5, Names, GapWhenFreeAfter

LEMMA GapInit == Init => BroadcastsWithoutGap
<1> SUFFICES ASSUME Init PROVE BroadcastsWithoutGap
  OBVIOUS
<1>1. ListedConns = {}
  BY DEF Init, ListedConns
<1> QED
  BY <1>1 DEF BroadcastsWithoutGap

LEMMA GapStep ==
  TypeOK /\ ListInv /\ FreshUntilListed /\ BroadcastsWithoutGap /\ [Next]_vars
    => BroadcastsWithoutGap'
<1> SUFFICES ASSUME TypeOK, ListInv, FreshUntilListed, BroadcastsWithoutGap, [Next]_vars, Running'
             PROVE  \A c \in ListedConns', t \in Broadcasters : GapFree(c, t)'
  BY GapOfEach
<1> USE DEF connVars, listVars, bcastVars
<1>1. Running
  BY DEF Next, NetStep, ClientStep, MainStep, BroadcastStep, Listens, Registers, ListenThrows, Opens,
    onOpen, ReceivesClose, WriteFrame, ConnectionFails, HandleTerminate, onClose, onMessage,
    onMessageThrows, NetIdle, TakeTask, SendReply, EchoThrows, BroadcastBegins, BroadcastSends,
    BroadcastEnds, vars, Running
<1>2. \A c \in ListedConns, t \in Broadcasters : GapFree(c, t)
  BY <1>1, GapOfEach
<1>3. ListIsExact /\ \A c \in ListedConns : c \in Conns
  <2>1. openConnections \in Seq(Conns)
    BY DEF TypeOK
  <2> QED
    BY <2>1 DEF ListInv, ListedConns
<1>4. ASSUME NEW c \in Conns, onOpen(c) PROVE \A e \in ListedConns', t \in Broadcasters : GapFree(e, t)'
  BY <1>2, <1>4, GapOnOpen
<1>5. ASSUME NEW c \in Conns, onClose(c) PROVE \A e \in ListedConns', t \in Broadcasters : GapFree(e, t)'
  BY <1>2, <1>5, GapOnClose
<1>6. SUFFICES ASSUME openConnections' = openConnections, ~\E d \in Conns : onOpen(d) \/ onClose(d),
                      NEW c \in ListedConns, NEW t \in Broadcasters
               PROVE  GapFree(c, t)'
  <2>1. openConnections' = openConnections
        \/ \E d \in Conns : onOpen(d) \/ onClose(d)
    BY DEF Next, NetStep, ClientStep, MainStep, BroadcastStep, Listens, Registers, ListenThrows, Opens,
      ReceivesClose, WriteFrame, ConnectionFails, HandleTerminate, onMessage,
      onMessageThrows, TakeTask, SendReply, EchoThrows, BroadcastBegins, BroadcastSends,
      BroadcastEnds, vars
  <2>2. openConnections' = openConnections => ListedConns' = ListedConns
    BY DEF ListedConns
  <2> QED
    BY <1>4, <1>5, <2>1, <2>2
<1>7. c \in Conns /\ GapFree(c, t)
  BY <1>2, <1>3
<1>8. CASE \/ Listens \/ Registers \/ ListenThrows \/ EchoThrows \/ TakeTask \/ UNCHANGED vars
           \/ \E d \in Conns : Opens(d) \/ HandleTerminate(d) \/ ConnectionFails(d)
                               \/ onMessage(d) \/ onMessageThrows(d)
  <2>1. UNCHANGED <<outbox, received, connectionListMutex, count, position, since>>
    BY <1>8 DEF Listens, Registers, ListenThrows, EchoThrows, TakeTask, vars, Opens, HandleTerminate,
      ConnectionFails, onMessage, onMessageThrows
  <2>2. Given(c, t)' = Given(c, t)
    BY <2>1 DEF Given
  <2> QED
    BY <1>6, <1>7, <2>1, <2>2, GapStutter
<1>9. ASSUME NEW d \in Conns, WriteFrame(d) PROVE GapFree(c, t)'
  <2>1. Given(c, t)' = Given(c, t)
    BY <1>7, <1>9, StreamIsWritten, GivenStays
  <2> QED
    BY <1>6, <1>7, <1>9, <2>1, GapStutter DEF WriteFrame
<1>10. ASSUME NEW d \in Conns, ReceivesClose(d) PROVE GapFree(c, t)'
  <2>1. /\ outbox'[d] = Append(outbox[d], Close) /\ \A e \in Conns : e # d => outbox'[e] = outbox[e]
        /\ UNCHANGED <<received, openConnections, connectionListMutex, count, position, since>>
    BY <1>10 DEF ReceivesClose, TypeOK
  <2>2. Close[1] \in {"hello", "message", "close"}
    BY DEF Close
  <2> QED
    BY <1>7, <2>1, <2>2, CloseIsMessage, GapOther
<1>11. CASE SendReply
  <2> DEFINE d == mainTask[2]
             m == <<mainTask[1], 0>>
  <2>1. /\ d \in Conns /\ m \in Message /\ m[1] \in {"hello", "message"}
        /\ Send(d, m) /\ process' = process /\ process = "running"
        /\ UNCHANGED <<received, openConnections, connectionListMutex, count, position, since>>
    BY <1>1, <1>11, ReplyTarget DEF SendReply, Running
  <2> HIDE DEF d, m
  <2>2. outbox'[d] = Append(outbox[d], m) /\ \A e \in Conns : e # d => outbox'[e] = outbox[e]
    BY <2>1, SendEffect
  <2> QED
    BY <1>7, <2>1, <2>2, GapOther
<1>12. ASSUME NEW u \in Broadcasters, BroadcastBegins(u) \/ BroadcastSends(u) \/ BroadcastEnds(u)
       PROVE  GapFree(c, t)'
  BY <1>1, <1>3, <1>7, <1>12, GapBegins, GapSends, GapEnds
<1> QED
  BY <1>6, <1>8, <1>9, <1>10, <1>11, <1>12
     DEF Next, NetStep, ClientStep, MainStep, BroadcastStep

-----------------------------------------------------------------------------
(* The hello of a connection, from the queue to its client.                 *)

Hello(c) == <<"hello", c>>
Echo(c) == <<"message", c>>

LEMMA WordsDiffer ==
  ASSUME NEW c
  PROVE  Hello(c) # Echo(c) /\ <<>> # Hello(c) /\ <<>> # Echo(c)
BY DEF Hello, Echo

(* HelloOnItsWay of connection c, for a queue of n, a posted handler that   *)
(* is about to send, the replies so far and the connections of the list.    *)
OnItsWay(c, queue, n, task, replies, list) ==
  /\ \A i, j \in 1 .. n : queue[i] = Hello(c) /\ queue[j] = Hello(c) => i = j
  /\ (\E i \in 1 .. n : queue[i] = Hello(c)) =>
       replies = <<>> /\ task # Hello(c) /\ task # Echo(c)
  /\ task = Hello(c) => replies = <<>>
  /\ task = Echo(c) => replies # <<>>
  /\ \A j \in 1 .. n : queue[j] = Echo(c) =>
       replies # <<>> \/ task = Hello(c) \/ \E i \in 1 .. (j - 1) : queue[i] = Hello(c)
  /\ c \in list => replies # <<>> \/ task = Hello(c) \/ \E i \in 1 .. n : queue[i] = Hello(c)

(* Something is posted for another connection, or a farewell. *)
LEMMA WayPosted ==
  ASSUME NEW c, NEW queue, NEW longer, NEW n \in Nat,
         \A i \in 1 .. n : longer[i] = queue[i],
         longer[n + 1] # Hello(c), longer[n + 1] # Echo(c),
         NEW task, NEW replies, NEW list,
         OnItsWay(c, queue, n, task, replies, list)
  PROVE  OnItsWay(c, longer, n + 1, task, replies, list)
<1>1. \A i \in 1 .. (n + 1) : i = n + 1 \/ i \in 1 .. n
  OBVIOUS
<1>2. \A i \in 1 .. n : i \in 1 .. (n + 1) /\ \A k \in 1 .. (i - 1) : k \in 1 .. n
  OBVIOUS
<1> QED
  BY <1>1, <1>2, WordsDiffer DEF OnItsWay

(* The hello is posted for a connection nothing was posted for. *)
LEMMA WayBegins ==
  ASSUME NEW c, NEW queue, NEW longer, NEW n \in Nat,
         \A i \in 1 .. n : longer[i] = queue[i],
         longer[n + 1] = Hello(c),
         \A i \in 1 .. n : queue[i] # Hello(c) /\ queue[i] # Echo(c),
         NEW task, task # Hello(c), task # Echo(c), NEW list
  PROVE  OnItsWay(c, longer, n + 1, task, <<>>, list)
<1>1. \A i \in 1 .. (n + 1) : i = n + 1 \/ i \in 1 .. n
  OBVIOUS
<1>2. n + 1 \in 1 .. (n + 1)
  OBVIOUS
<1> QED
  BY <1>1, <1>2, WordsDiffer DEF OnItsWay

(* A message of a listed connection is posted. *)
LEMMA WayMessage ==
  ASSUME NEW c, NEW queue, NEW longer, NEW n \in Nat,
         \A i \in 1 .. n : longer[i] = queue[i],
         longer[n + 1] = Echo(c),
         NEW task, NEW replies, NEW list, c \in list,
         OnItsWay(c, queue, n, task, replies, list)
  PROVE  OnItsWay(c, longer, n + 1, task, replies, list)
<1>1. \A i \in 1 .. (n + 1) : i = n + 1 \/ i \in 1 .. n
  OBVIOUS
<1>2. \A i \in 1 .. n : i \in 1 .. (n + 1) /\ \A k \in 1 .. (i - 1) : k \in 1 .. n
  OBVIOUS
<1>3. (n + 1) - 1 = n
  OBVIOUS
<1> QED
  BY <1>1, <1>2, <1>3, WordsDiffer DEF OnItsWay

(* The main thread takes what was posted first. *)
LEMMA WayTaken ==
  ASSUME NEW c, NEW queue, NEW rest, NEW n \in Nat, n >= 1,
         \A i \in 1 .. (n - 1) : rest[i] = queue[i + 1],
         NEW task, task = queue[1] \/ (task = <<>> /\ queue[1] # Hello(c) /\ queue[1] # Echo(c)),
         NEW replies, NEW list,
         OnItsWay(c, queue, n, <<>>, replies, list)
  PROVE  OnItsWay(c, rest, n - 1, task, replies, list)
<1>1. /\ 1 \in 1 .. n
      /\ \A i \in 1 .. (n - 1) : i + 1 \in 1 .. n /\ i + 1 # 1
      /\ \A i \in 1 .. n : i # 1 => i - 1 \in 1 .. (n - 1) /\ rest[i - 1] = queue[i]
  OBVIOUS
<1>2. /\ \A i, j \in 1 .. n : queue[i] = Hello(c) /\ queue[j] = Hello(c) => i = j
      /\ (\E i \in 1 .. n : queue[i] = Hello(c)) => replies = <<>>
      /\ \A j \in 1 .. n : queue[j] = Echo(c) =>
           replies # <<>> \/ \E i \in 1 .. (j - 1) : queue[i] = Hello(c)
      /\ c \in list => replies # <<>> \/ \E i \in 1 .. n : queue[i] = Hello(c)
  BY WordsDiffer DEF OnItsWay
<1>3. \A i, j \in 1 .. (n - 1) : rest[i] = Hello(c) /\ rest[j] = Hello(c) => i = j
  <2> SUFFICES ASSUME NEW i \in 1 .. (n - 1), NEW j \in 1 .. (n - 1),
                      rest[i] = Hello(c), rest[j] = Hello(c)
               PROVE  i = j
    OBVIOUS
  <2>1. /\ i + 1 \in 1 .. n /\ queue[i + 1] = Hello(c)
        /\ j + 1 \in 1 .. n /\ queue[j + 1] = Hello(c)
    BY <1>1
  <2>2. i + 1 = j + 1
    BY <1>2, <2>1
  <2> QED
    BY <2>2
<1>4. (\E i \in 1 .. (n - 1) : rest[i] = Hello(c)) => replies = <<>> /\ queue[1] # Hello(c)
  <2> SUFFICES ASSUME NEW i \in 1 .. (n - 1), rest[i] = Hello(c)
               PROVE  replies = <<>> /\ queue[1] # Hello(c)
    OBVIOUS
  <2>1. 1 \in 1 .. n /\ i + 1 \in 1 .. n /\ i + 1 # 1 /\ queue[i + 1] = Hello(c)
    BY <1>1
  <2> QED
    BY <1>2, <2>1
<1>5. CASE queue[1] = Hello(c)
  <2>1. task = Hello(c) /\ replies = <<>>
    BY <1>1, <1>2, <1>5, WordsDiffer
  <2> QED
    BY <1>3, <1>4, <1>5, <2>1, WordsDiffer DEF OnItsWay
<1>6. CASE queue[1] = Echo(c)
  <2>1. task = Echo(c) /\ replies # <<>>
    BY <1>1, <1>2, <1>6, WordsDiffer
  <2> QED
    BY <1>3, <1>4, <2>1, WordsDiffer DEF OnItsWay
<1>7. CASE queue[1] # Hello(c) /\ queue[1] # Echo(c)
  <2>1. task # Hello(c) /\ task # Echo(c)
    BY <1>7, WordsDiffer
  <2>2. ASSUME NEW j \in 1 .. (n - 1), rest[j] = Echo(c), replies = <<>>
        PROVE  \E i \in 1 .. (j - 1) : rest[i] = Hello(c)
    <3>1. j + 1 \in 1 .. n /\ queue[j + 1] = Echo(c) /\ (j + 1) - 1 = j
      BY <1>1, <2>2
    <3>2. PICK i \in 1 .. j : queue[i] = Hello(c)
      BY <1>2, <2>2, <3>1
    <3>3. i # 1 /\ i \in 1 .. n
      BY <1>7, <3>2
    <3>4. i - 1 \in 1 .. (j - 1) /\ rest[i - 1] = Hello(c)
      BY <1>1, <3>2, <3>3
    <3> QED
      BY <3>4
  <2>3. c \in list => replies # <<>> \/ \E i \in 1 .. (n - 1) : rest[i] = Hello(c)
    BY <1>1, <1>2, <1>7
  <2> QED
    BY <1>3, <1>4, <2>1, <2>2, <2>3, WordsDiffer DEF OnItsWay
<1> QED
  BY <1>5, <1>6, <1>7

(* The main thread has sent a reply, to this connection or to another. *)
LEMMA WaySent ==
  ASSUME NEW c, NEW queue, NEW n, NEW task, NEW replies, NEW list, NEW more, more # <<>>,
         OnItsWay(c, queue, n, task, replies, list)
  PROVE  /\ task \in {Hello(c), Echo(c)} => OnItsWay(c, queue, n, <<>>, more, list)
         /\ task \notin {Hello(c), Echo(c)} => OnItsWay(c, queue, n, <<>>, replies, list)
BY WordsDiffer DEF OnItsWay

Posted == {"hello", "bye", "message"} \X Conns

(* HelloOnItsWay, of connection c. *)
Way(c) ==
  OnItsWay(c, mainQueue, Len(mainQueue), mainTask, Replies(c), ListedConns)

LEMMA WayOfEach ==
  ASSUME TypeOK
  PROVE  HelloOnItsWay <=> \A c \in Conns : state[c] # "gone" => Way(c)
<1>1. DOMAIN mainQueue = 1 .. Len(mainQueue)
  BY DEF TypeOK
<1> QED
  BY <1>1 DEF HelloOnItsWay, Way, OnItsWay, Hello, Echo

HelloFirst(replies) == \A i \in DOMAIN replies : replies[i][1] = "hello" <=> i = 1

(* What is shown of each connection. *)
HelloOf(c) ==
  /\ HelloFirst(Replies(c))
  /\ Running /\ state[c] # "gone" => Way(c)

HelloInv == \A c \in Conns : HelloOf(c)

LEMMA HelloOfEach ==
  ASSUME TypeOK
  PROVE  HelloInv <=> HelloBeforeEchoes /\ (Running => HelloOnItsWay)
BY WayOfEach DEF HelloInv, HelloOf, HelloBeforeEchoes, HelloFirst

LEMMA HelloInit == Init => HelloInv
<1> SUFFICES ASSUME Init, NEW c \in Conns PROVE HelloOf(c)
  BY DEF HelloInv
<1>1. Stream(c) = <<>> /\ mainQueue = <<>> /\ mainTask = <<>> /\ c \notin ListedConns
  BY DEF Init, Stream, ListedConns
<1>2. Replies(c) = <<>>
  BY <1>1, KeepEmpty DEF Replies, Stream
<1>3. Len(mainQueue) = 0
  BY <1>1
<1>4. mainTask # Hello(c) /\ mainTask # Echo(c)
  BY <1>1, WordsDiffer
<1> QED
  BY <1>1, <1>2, <1>3, <1>4 DEF HelloOf, HelloFirst, Way, OnItsWay

(* Words that are no replies. *)
LEMMA NoReply ==
  ASSUME TypeOK, NEW c \in Conns, NEW d \in Conns, NEW m \in Message,
         m[1] \notin {"hello", "message"}, received' = received,
         outbox' = outbox \/ outbox'[d] = Append(outbox[d], m),
         \A e \in Conns : e # d => outbox'[e] = outbox[e]
  PROVE  Replies(c)' = Replies(c)
<1>1. CASE outbox'[c] = outbox[c]
  BY <1>1 DEF Replies
<1>2. CASE c = d /\ outbox'[c] = Append(outbox[c], m)
  <2>1. m \notin {"hello", "message"} \X {0}
    OBVIOUS
  <2>2. Keep(Stream(c)', {"hello", "message"} \X {0}) = Keep(Stream(c), {"hello", "message"} \X {0})
    BY <1>2, <2>1, KeepSent
  <2> QED
    BY <2>2 DEF Replies, Stream
<1> QED
  BY <1>1, <1>2

LEMMA RepliesStay ==
  ASSUME TypeOK, NEW c \in Conns, [Next]_vars, ~SendReply, ~onClose(c)
  PROVE  Replies(c)' = Replies(c)
<1> USE DEF connVars
<1>1. CASE UNCHANGED <<outbox, received>>
  BY <1>1 DEF Replies
<1>2. ASSUME NEW d \in Conns, ReceivesClose(d) PROVE Replies(c)' = Replies(c)
  <2>1. /\ outbox'[d] = Append(outbox[d], Close) /\ received' = received
        /\ \A e \in Conns : e # d => outbox'[e] = outbox[e]
    BY <1>2 DEF ReceivesClose, TypeOK
  <2>2. Close[1] \notin {"hello", "message"}
    BY DEF Close
  <2> QED
    BY <2>1, <2>2, CloseIsMessage, NoReply
<1>3. ASSUME NEW d \in Conns, WriteFrame(d) PROVE Replies(c)' = Replies(c)
  <2>1. Stream(c)' = Stream(c)
    BY <1>3, StreamIsWritten
  <2> QED
    BY <2>1 DEF Replies, Stream
<1>4. ASSUME NEW d \in Conns, onClose(d), c # d PROVE Replies(c)' = Replies(c)
  <2>1. outbox'[c] = outbox[c] /\ received'[c] = received[c]
    BY <1>4 DEF onClose, TypeOK
  <2> QED
    BY <2>1 DEF Replies
<1>5. ASSUME NEW t \in Broadcasters, BroadcastSends(t) PROVE Replies(c)' = Replies(c)
  <2> DEFINE e == openConnections[position[t] + 1]
             m == <<t, count[t]>>
  <2>1. /\ e \in Conns /\ m \in Message /\ Send(e, m) /\ received' = received
        /\ m[1] \notin {"hello", "message"}
    BY <1>5, BroadcastTarget, Names DEF BroadcastSends
  <2> HIDE DEF e, m
  <2>2. /\ outbox' = outbox \/ outbox'[e] = Append(outbox[e], m)
        /\ \A d \in Conns : d # e => outbox'[d] = outbox[d]
    BY <2>1 DEF Send, TypeOK
  <2> QED
    BY <2>1, <2>2, NoReply
<1>6. \/ UNCHANGED <<outbox, received>>
      \/ \E d \in Conns : ReceivesClose(d) \/ WriteFrame(d) \/ onClose(d)
      \/ \E t \in Broadcasters : BroadcastSends(t)
  BY DEF Next, NetStep, ClientStep, MainStep, BroadcastStep, Listens, Registers, ListenThrows, Opens,
    onOpen, ConnectionFails, HandleTerminate, onMessage, onMessageThrows, TakeTask, EchoThrows,
    BroadcastBegins, BroadcastEnds, vars
<1> QED
  BY <1>1, <1>2, <1>3, <1>4, <1>5, <1>6

(* The hello is the first reply, what follows is none. *)
LEMMA FirstAppend ==
  ASSUME NEW replies \in Seq(Message), HelloFirst(replies), NEW word \in {"hello", "message"},
         word = "hello" <=> replies = <<>>
  PROVE  HelloFirst(Append(replies, <<word, 0>>)) /\ Append(replies, <<word, 0>>) # <<>>
<1> DEFINE longer == Append(replies, <<word, 0>>)
           n == Len(replies)
<1>1. /\ n \in Nat /\ DOMAIN longer = 1 .. (n + 1) /\ DOMAIN replies = 1 .. n
      /\ longer[n + 1] = <<word, 0>> /\ \A i \in 1 .. n : longer[i] = replies[i]
      /\ replies = <<>> <=> n = 0
  OBVIOUS
<1>2. longer # <<>>
  OBVIOUS
<1> HIDE DEF longer, n
<1>3. ASSUME NEW i \in DOMAIN longer PROVE longer[i][1] = "hello" <=> i = 1
  <2>1. CASE i = n + 1
    <3>1. longer[i][1] = word
      BY <1>1, <2>1
    <3> QED
      BY <1>1, <2>1, <3>1
  <2>2. CASE i \in 1 .. n
    BY <1>1, <2>2 DEF HelloFirst
  <2> QED
    BY <1>1, <1>3, <2>1, <2>2
<1> QED
  BY <1>2, <1>3 DEF HelloFirst, longer

(* A step that does not touch the registrations of a connection. *)
LEMMA WayStutter ==
  ASSUME NEW c, Way(c), UNCHANGED <<mainQueue, mainTask>>, Replies(c)' = Replies(c),
         c \in ListedConns' => c \in ListedConns
  PROVE  Way(c)'
BY DEF Way, OnItsWay

LEMMA QueueFacts ==
  ASSUME TypeOK
  PROVE  mainQueue \in Seq(Posted) /\ Len(mainQueue) \in Nat
BY DEF TypeOK, Posted

LEMMA QueueAppends ==
  ASSUME TypeOK, NEW task \in Posted, mainQueue' = Append(mainQueue, task)
  PROVE  /\ Len(mainQueue') = Len(mainQueue) + 1 /\ mainQueue'[Len(mainQueue) + 1] = task
         /\ \A i \in 1 .. Len(mainQueue) : mainQueue'[i] = mainQueue[i]
BY QueueFacts

(* What is on its way with other connections in the list. *)
LEMMA WayListed ==
  ASSUME NEW c, NEW queue, NEW n, NEW task, NEW replies, NEW list, NEW newList,
         c \in newList => c \in list, OnItsWay(c, queue, n, task, replies, list)
  PROVE  OnItsWay(c, queue, n, task, replies, newList)
BY DEF OnItsWay

(* Something is posted that is not for this connection. *)
LEMMA WayOther ==
  ASSUME TypeOK, NEW c, Way(c), NEW task \in Posted, mainQueue' = Append(mainQueue, task),
         task # Hello(c), task # Echo(c), mainTask' = mainTask,
         Replies(c)' = Replies(c), c \in ListedConns' => c \in ListedConns
  PROVE  Way(c)'
<1> DEFINE n == Len(mainQueue)
<1>1. /\ n \in Nat /\ Len(mainQueue') = n + 1 /\ mainQueue'[n + 1] = task
      /\ \A i \in 1 .. n : mainQueue'[i] = mainQueue[i]
  BY QueueFacts, QueueAppends
<1>2. OnItsWay(c, mainQueue, n, mainTask, Replies(c), ListedConns)
  BY DEF Way
<1> HIDE DEF n
<1>3. OnItsWay(c, mainQueue', n + 1, mainTask, Replies(c), ListedConns)
  BY <1>1, <1>2, WayPosted
<1>4. OnItsWay(c, mainQueue', n + 1, mainTask, Replies(c), ListedConns')
  BY <1>3, WayListed
<1> QED
  BY <1>1, <1>4 DEF Way

(* What becomes of a connection's way in each step, while the process runs. *)

LEMMA WayOnOpen ==
  ASSUME TypeOK, ListInv, RegisteredFirst, FreshUntilListed, NEW d \in Conns, onOpen(d),
         NEW c \in Conns, Way(c), Replies(c)' = Replies(c)
  PROVE  Way(c)'
<1> DEFINE n == Len(mainQueue)
<1>1. /\ netTask = <<"open", d>> /\ openConnections' = Append(openConnections, d)
      /\ openConnections \in Seq(Conns) /\ mainTask' = mainTask /\ state[d] # "none"
      /\ Invoke("connect", <<"hello", d>>)
  BY DEF onOpen, TypeOK, ListInv, InHandler
<1>2. "connect" \in handlers
  <2>1. eventLoop = <<>>
    BY <1>1 DEF RegisteredFirst
  <2> QED
    BY <2>1 DEF RegisteredFirst
<1>3. mainQueue' = Append(mainQueue, Hello(d)) /\ Hello(d) \in Posted
  BY <1>1, <1>2 DEF Invoke, Post, Hello, Posted
<1>4. ListedConns' = ListedConns \cup {d}
  BY <1>1, AppendFacts, ListOfElements
<1>5. CASE c # d
  <2>1. Hello(d) # Hello(c) /\ Hello(d) # Echo(c)
    BY <1>5 DEF Hello, Echo
  <2> QED
    BY <1>1, <1>3, <1>4, <1>5, <2>1, WayOther
<1>6. CASE c = d
  <2>1. Replies(c) = <<>>
    BY <1>1, <1>6, KeepFresh DEF Unlisted, Replies, Stream
  <2>2. \A task \in Tasks : task[2] # c
    BY <1>1, <1>6 DEF Unlisted, FreshUntilListed
  <2>3. \A i \in 1 .. n : mainQueue[i] \in Tasks
    BY QueueFacts DEF Tasks
  <2>4. Hello(c)[2] = c /\ Echo(c)[2] = c
    BY DEF Hello, Echo
  <2>5. \A i \in 1 .. n : mainQueue[i] # Hello(c) /\ mainQueue[i] # Echo(c)
    BY <2>2, <2>3, <2>4
  <2>6. mainTask # Hello(c) /\ mainTask # Echo(c)
    BY <2>2, <2>4, WordsDiffer DEF Tasks
  <2>7. /\ n \in Nat /\ Len(mainQueue') = n + 1 /\ mainQueue'[n + 1] = Hello(c)
        /\ \A i \in 1 .. n : mainQueue'[i] = mainQueue[i]
    BY <1>3, <1>6, QueueFacts, QueueAppends
  <2> HIDE DEF n
  <2>8. OnItsWay(c, mainQueue', n + 1, mainTask, <<>>, ListedConns')
    BY <2>5, <2>6, <2>7, WayBegins
  <2> QED
    BY <1>1, <2>1, <2>7, <2>8 DEF Way
<1> QED
  BY <1>5, <1>6

LEMMA WayOnClose ==
  ASSUME TypeOK, ListInv, NEW d \in Conns, onClose(d),
         NEW c \in Conns, c # d, Way(c), Replies(c)' = Replies(c)
  PROVE  Way(c)'
<1> DEFINE T == {e \in Conns : e # d /\ state[e] # "gone"}
           bye == <<"bye", d>>
<1>1. /\ openConnections' = Keep(openConnections, T) /\ openConnections \in Seq(Conns)
      /\ mainTask' = mainTask /\ Invoke("disconnect", bye)
  BY DEF onClose, TypeOK
<1>2. bye \in Posted /\ bye # Hello(c) /\ bye # Echo(c)
  BY DEF Posted, Hello, Echo
<1> HIDE DEF T, bye
<1>3. ListedConns' = ListedConns \cap T
  BY <1>1, KeepFacts, ListOfElements
<1>4. mainQueue' = mainQueue \/ mainQueue' = Append(mainQueue, bye)
  BY <1>1 DEF Invoke, Post
<1> QED
  BY <1>1, <1>2, <1>3, <1>4, WayOther, WayStutter

LEMMA WayOnMessage ==
  ASSUME TypeOK, ListInv, NEW d \in Conns, onMessage(d),
         NEW c \in Conns, Way(c), Replies(c)' = Replies(c)
  PROVE  Way(c)'
<1> DEFINE n == Len(mainQueue)
<1>1. /\ netTask = <<>> /\ state[d] = "open"
      /\ openConnections' = openConnections /\ mainTask' = mainTask
      /\ mainQueue' = mainQueue \/ mainQueue' = Append(mainQueue, Echo(d))
  BY DEF onMessage, NetIdle, listVars, Invoke, Post, Echo
<1>2. ListedConns' = ListedConns /\ Echo(d) \in Posted
  BY <1>1 DEF ListedConns, Echo, Posted
<1>3. CASE mainQueue' = mainQueue
  BY <1>1, <1>2, <1>3, WayStutter
<1>4. CASE c # d /\ mainQueue' = Append(mainQueue, Echo(d))
  <2>1. Echo(d) # Hello(c) /\ Echo(d) # Echo(c)
    BY <1>4 DEF Hello, Echo
  <2> QED
    BY <1>1, <1>2, <1>4, <2>1, WayOther
<1>5. CASE c = d /\ mainQueue' = Append(mainQueue, Echo(d))
  <2>1. c \in ListedConns
    BY <1>1, <1>5 DEF ListInv, ListIsExact
  <2>2. /\ n \in Nat /\ Len(mainQueue') = n + 1 /\ mainQueue'[n + 1] = Echo(c)
        /\ \A i \in 1 .. n : mainQueue'[i] = mainQueue[i]
    BY <1>2, <1>5, QueueFacts, QueueAppends
  <2>3. OnItsWay(c, mainQueue, n, mainTask, Replies(c), ListedConns)
    BY DEF Way
  <2> HIDE DEF n
  <2>4. OnItsWay(c, mainQueue', n + 1, mainTask, Replies(c), ListedConns)
    BY <2>1, <2>2, <2>3, WayMessage
  <2> QED
    BY <1>1, <1>2, <2>2, <2>4 DEF Way
<1> QED
  BY <1>1, <1>3, <1>4, <1>5

LEMMA WayTakes ==
  ASSUME TypeOK, TakeTask, NEW c \in Conns, Way(c), Replies(c)' = Replies(c)
  PROVE  Way(c)'
<1> DEFINE n == Len(mainQueue)
<1>1. /\ mainQueue \in Seq(Posted) /\ mainQueue # <<>> /\ mainTask = <<>>
      /\ mainQueue' = Tail(mainQueue)
      /\ mainTask' = IF Head(mainQueue)[1] = "bye" THEN <<>> ELSE Head(mainQueue)
      /\ ListedConns' = ListedConns
  BY QueueFacts DEF TakeTask, listVars, ListedConns
<1>2. /\ n \in Nat /\ n >= 1 /\ Len(mainQueue') = n - 1 /\ mainQueue[1] = Head(mainQueue)
      /\ \A i \in 1 .. (n - 1) : mainQueue'[i] = mainQueue[i + 1]
  BY <1>1
<1>3. Head(mainQueue)[1] = "bye" => mainQueue[1] # Hello(c) /\ mainQueue[1] # Echo(c)
  BY <1>2 DEF Hello, Echo
<1>4. mainTask' = mainQueue[1] \/ (mainTask' = <<>> /\ mainQueue[1] # Hello(c) /\ mainQueue[1] # Echo(c))
  BY <1>1, <1>2, <1>3
<1>5. OnItsWay(c, mainQueue, n, <<>>, Replies(c), ListedConns)
  BY <1>1 DEF Way
<1> HIDE DEF n
<1>6. OnItsWay(c, mainQueue', n - 1, mainTask', Replies(c), ListedConns)
  BY <1>2, <1>4, <1>5, WayTaken
<1> QED
  BY <1>1, <1>2, <1>6 DEF Way

LEMMA HelloSends ==
  ASSUME TypeOK, SendReply, NEW c \in Conns, HelloOf(c)
  PROVE  HelloOf(c)'
<1> DEFINE d == mainTask[2]
           word == mainTask[1]
           m == <<word, 0>>
<1>1. /\ Running /\ mainTask # <<>> /\ mainTask' = <<>> /\ Send(d, m)
      /\ UNCHANGED <<received, mainQueue, openConnections, state>>
  BY DEF SendReply, listVars
<1>2. d \in Conns /\ word \in {"hello", "message"} /\ m \in Message /\ mainTask = <<word, d>>
  BY <1>1, ReplyTarget
<1>3. ListedConns' = ListedConns
  BY <1>1 DEF ListedConns
<1> HIDE DEF d, word
<1>4. ASSUME Replies(c)' = Replies(c), Running' => d # c PROVE HelloOf(c)'
  <2>1. ASSUME Running', state'[c] # "gone" PROVE Way(c)'
    <3>1. OnItsWay(c, mainQueue, Len(mainQueue), mainTask, Replies(c), ListedConns)
      BY <1>1, <2>1 DEF HelloOf, Way
    <3>2. mainTask \notin {Hello(c), Echo(c)}
      BY <1>2, <1>4, <2>1 DEF Hello, Echo
    <3>3. Hello(c) \notin {<<>>}
      BY WordsDiffer
    <3>4. OnItsWay(c, mainQueue, Len(mainQueue), <<>>, Replies(c), ListedConns)
      BY <3>1, <3>2, <3>3, WaySent
    <3> QED
      BY <1>1, <1>3, <1>4, <3>4 DEF Way
  <2> QED
    BY <1>4, <2>1 DEF HelloOf
<1>5. CASE process' # process
  <2>1. outbox' = outbox /\ ~Running'
    BY <1>1, <1>2, <1>5, SendEffect DEF Running
  <2>2. Replies(c)' = Replies(c)
    BY <1>1, <2>1 DEF Replies
  <2> QED
    BY <1>4, <2>1, <2>2
<1>6. CASE process' = process /\ c # d
  <2>1. outbox'[c] = outbox[c]
    BY <1>1, <1>2, <1>6, SendEffect
  <2>2. Replies(c)' = Replies(c)
    BY <1>1, <2>1 DEF Replies
  <2> QED
    BY <1>4, <1>6, <2>2
<1>7. CASE process' = process /\ c = d
  <2>1. outbox'[c] = Append(outbox[c], m) /\ state[c] = "open"
    BY <1>1, <1>2, <1>7, SendEffect DEF Running, Send
  <2>2. OnItsWay(c, mainQueue, Len(mainQueue), mainTask, Replies(c), ListedConns)
    BY <1>1, <2>1 DEF HelloOf, Way
  <2>3. mainTask \in {Hello(c), Echo(c)} /\ (mainTask = Hello(c) <=> word = "hello")
    BY <1>2, <1>7 DEF Hello, Echo
  <2>4. word = "hello" <=> Replies(c) = <<>>
    BY <2>2, <2>3 DEF OnItsWay
  <2>5. Replies(c)' = Append(Replies(c), m)
    <3>1. m \in {"hello", "message"} \X {0}
      BY <1>2
    <3>2. Keep(Stream(c)', {"hello", "message"} \X {0}) =
            Append(Keep(Stream(c), {"hello", "message"} \X {0}), m)
      BY <1>1, <1>2, <2>1, <3>1, KeepSent
    <3> QED
      BY <3>2 DEF Replies, Stream
  <2>6. Replies(c) \in Seq(Message)
    BY KeepType DEF Replies, Stream
  <2>7. HelloFirst(Replies(c)') /\ Replies(c)' # <<>>
    BY <1>2, <2>4, <2>5, <2>6, FirstAppend DEF HelloOf
  <2>8. OnItsWay(c, mainQueue, Len(mainQueue), <<>>, Replies(c)', ListedConns)
    BY <2>2, <2>3, <2>7, WaySent
  <2>9. Way(c)'
    BY <1>1, <1>3, <2>8 DEF Way
  <2> QED
    BY <2>7, <2>9 DEF HelloOf
<1> QED
  BY <1>5, <1>6, <1>7

LEMMA HelloStep ==
  TypeOK /\ ListInv /\ RegisteredFirst /\ FreshUntilListed /\ HelloInv /\ [Next]_vars => HelloInv'
<1> SUFFICES ASSUME TypeOK, ListInv, RegisteredFirst, FreshUntilListed, HelloInv, [Next]_vars,
                    NEW c \in Conns
             PROVE  HelloOf(c)'
  BY DEF HelloInv
<1> USE DEF connVars, listVars, mainVars
<1>1. HelloOf(c)
  BY DEF HelloInv
<1>2. CASE SendReply
  BY <1>1, <1>2, HelloSends
<1>3. CASE onClose(c)
  <2>1. outbox'[c] = <<>> /\ received'[c] = <<>> /\ state'[c] = "gone"
    BY <1>3 DEF onClose, TypeOK
  <2>2. Stream(c)' = <<>>
    BY <2>1 DEF Stream
  <2>3. Replies(c)' = <<>>
    BY <2>2, KeepEmpty DEF Replies, Stream
  <2> QED
    BY <2>1, <2>3 DEF HelloOf, HelloFirst
<1>4. SUFFICES ASSUME ~SendReply, ~onClose(c), Running', state'[c] # "gone", Way(c),
                      Replies(c)' = Replies(c)
               PROVE  Way(c)'
  <2>1. CASE ~SendReply /\ ~onClose(c)
    <3>1. Replies(c)' = Replies(c)
      BY <2>1, RepliesStay
    <3>2. Running' => Running
      BY DEF Next, NetStep, ClientStep, MainStep, BroadcastStep, Listens, Registers, ListenThrows, Opens,
        onOpen, ReceivesClose, WriteFrame, ConnectionFails, HandleTerminate, onClose, onMessage,
        onMessageThrows, NetIdle, TakeTask, SendReply, EchoThrows, BroadcastBegins, BroadcastSends,
        BroadcastEnds, vars, Running
    <3>3. state'[c] # "gone" => state[c] # "gone"
      BY DEF Next, NetStep, ClientStep, MainStep, BroadcastStep, Listens, Registers, ListenThrows, Opens,
        onOpen, ReceivesClose, WriteFrame, ConnectionFails, HandleTerminate, onClose, onMessage,
        onMessageThrows, TakeTask, SendReply, EchoThrows, BroadcastBegins, BroadcastSends,
        BroadcastEnds, vars, TypeOK
    <3> QED
      BY <1>1, <1>4, <2>1, <3>1, <3>2, <3>3 DEF HelloOf
  <2> QED
    BY <1>2, <1>3, <2>1
<1>5. CASE \/ Listens \/ Registers \/ ListenThrows \/ EchoThrows \/ UNCHANGED vars
           \/ \E d \in Conns : \/ Opens(d) \/ HandleTerminate(d) \/ ConnectionFails(d)
                               \/ ReceivesClose(d) \/ WriteFrame(d) \/ onMessageThrows(d)
           \/ \E t \in Broadcasters : BroadcastBegins(t) \/ BroadcastSends(t) \/ BroadcastEnds(t)
  <2>1. UNCHANGED <<mainQueue, mainTask, openConnections>>
    BY <1>5 DEF Listens, Registers, ListenThrows, EchoThrows, Opens, HandleTerminate, ConnectionFails,
      ReceivesClose, WriteFrame, onMessageThrows, BroadcastBegins, BroadcastSends, BroadcastEnds, vars
  <2>2. ListedConns' = ListedConns
    BY <2>1 DEF ListedConns
  <2> QED
    BY <1>4, <2>1, <2>2, WayStutter
<1>6. ASSUME NEW d \in Conns, onOpen(d) \/ onClose(d) \/ onMessage(d) PROVE Way(c)'
  <2>1. onClose(d) => c # d
    BY <1>4
  <2> QED
    BY <1>4, <1>6, <2>1, WayOnOpen, WayOnClose, WayOnMessage
<1>7. CASE TakeTask
  BY <1>4, <1>7, WayTakes
<1> QED
  BY <1>4, <1>5, <1>6, <1>7 DEF Next, NetStep, ClientStep, MainStep, BroadcastStep

-----------------------------------------------------------------------------
IInv ==
  /\ TypeOK /\ ListInv /\ RegisteredFirst /\ FreshUntilListed /\ BroadcastsWithoutGap /\ HelloInv

LEMMA IInvInit == Init => IInv
BY TypeInit, ListInit, RegisteredInit, FreshInit, GapInit, HelloInit DEF IInv

LEMMA IInvStep == IInv /\ [Next]_vars => IInv'
BY TypeStep, ListStep, RegisteredStep, FreshStep, GapStep, HelloStep DEF IInv

LEMMA IInvIsServerInv == IInv => ServerInv
BY HelloOfEach DEF IInv, ListInv, ServerInv

(* Everything the invariant of the server says, in every reachable state.  *)
THEOREM ServerInvariant == Spec => []ServerInv
BY IInvInit, IInvStep, IInvIsServerInv, PTL DEF Spec

(* Each listed connection is given the broadcasts of each thread one after *)
(* the other, none twice and none left out (broadcastMessage).             *)
THEOREM BroadcastsInvariant == Spec => []BroadcastsWithoutGap
<1>1. ServerInv => BroadcastsWithoutGap
  BY DEF ServerInv
<1> QED
  BY <1>1, ServerInvariant, PTL

(* A client gets one hello, and no echo of a message before it.            *)
THEOREM HelloInvariant == Spec => []HelloBeforeEchoes
<1>1. ServerInv => HelloBeforeEchoes
  BY DEF ServerInv
<1> QED
  BY <1>1, ServerInvariant, PTL
=============================================================================
