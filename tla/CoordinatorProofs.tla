------------------------- MODULE CoordinatorProofs --------------------------
(***************************************************************************)
(* Proofs about the coordinator process: no handler outlives the governor, *)
(* and no more than max_connections of them run, for any number of clients *)
(* and whoever asks for the stop.                                          *)
(***************************************************************************)
EXTENDS Coordinator, FiniteSetTheorems, TLAPS

HandlerStates ==
  [pc : {"none", "hello", "check", "recv", "calling", "stop", "wake", "closing", "finished"},
   frames : 0..max_frames_per_connection,
   message : Messages \cup {None}]

\* The clients whose handler thread is between its first and its last step.
Live == {c \in Clients : handler[c].pc \notin {"none", "finished"}}

\* The self-connection is only made once the flag is up, so the accept loop
\* never takes it for a client while the flag is down.
WakeInv ==
  /\ main = "wake" => stop_requested
  /\ \A c \in Clients : handler[c].pc = "wake" => stop_requested
  /\ stop_requested \/ \A i \in 1..Len(backlog) : backlog[i] # Wake
  /\ acceptor = "accepted" =>
       incoming \in Clients \cup {Wake} /\ (incoming = Wake => stop_requested)

\* stop() waits for the accept loop, which is then gone for good and accepts no
\* more connections, and then for every handler it has an entry for: all of them.
JoinInv ==
  /\ IsFiniteSet(handlers)
  /\ Live \subseteq handlers
  /\ \A c \in Clients : conn[c] = "served" => c \in Live
  /\ main \in {"join_handlers", "stopped"} => acceptor = "exited"
  /\ acceptor = "exited" => ~running
  /\ main = "stopped" => handlers = {} /\ \A c \in Clients : conn[c] # "queued"

\* A handler that calls the governor has a frame to do it with.
CallInv ==
  \A c \in Clients : handler[c].pc = "calling" => handler[c].message \in Messages \ {"Oversized"}

IInv == TypeOK /\ WakeInv /\ CallInv /\ JoinInv
-----------------------------------------------------------------------------
(* Types                                                                   *)

\* A handler that moves on keeps its type.
LEMMA GotoType ==
  ASSUME TypeOK, NEW c \in Clients, NEW pc,
         pc \in {"hello", "check", "recv", "calling", "stop", "wake", "closing", "finished"}
  PROVE  [handler EXCEPT ![c].pc = pc] \in [Clients -> HandlerStates]
<1>1. handler \in [Clients -> HandlerStates]
  BY DEF TypeOK, HandlerStates
<1>2. handler[c] \in HandlerStates
  BY <1>1
<1>3. [handler[c] EXCEPT !.pc = pc] \in HandlerStates
  BY <1>2 DEF HandlerStates
<1> QED BY <1>1, <1>3

\* A connection that is closed keeps its type.
LEMMA ClosingType ==
  ASSUME TypeOK, NEW c, Closing(c)
  PROVE  conn' \in [Clients -> {"none", "queued", "served", "closed"}]
BY DEF TypeOK, Closing

\* What the owner's thread does.
LEMMA MainType ==
  ASSUME TypeOK, Start \/ StartFails \/ Stop(FALSE) \/ MainStep
  PROVE  TypeOK'
<1>1. CASE Start \/ StartFails \/ Stop(FALSE) \/ Stop(TRUE) \/ MainRequestsStop \/ JoinAcceptor
  BY <1>1 DEF TypeOK, Start, StartFails, Stop, MainRequestsStop, JoinAcceptor
<1>2. CASE MainWakes
  <2>1. backlog' \in Seq(Clients \cup {Wake})
    BY <1>2 DEF TypeOK, MainWakes, Woken
  <2> QED BY <1>2, <2>1 DEF TypeOK, MainWakes
<1>3. CASE JoinHandlers
  <2>1. conn' \in [Clients -> {"none", "queued", "served", "closed"}]
    BY <1>3 DEF TypeOK, JoinHandlers
  <2>2. backlog' \in Seq(Clients \cup {Wake})
    BY <1>3 DEF JoinHandlers
  <2> QED BY <1>3, <2>1, <2>2 DEF TypeOK, JoinHandlers
<1> QED BY <1>1, <1>2, <1>3 DEF MainStep

\* What the accept loop does.
LEMMA AcceptorType ==
  ASSUME TypeOK, WakeInv, AcceptorStep \/ Accept \/ AcceptFails
  PROVE  TypeOK'
<1>1. CASE CheckStop \/ LeaveAcceptLoop
  BY <1>1 DEF TypeOK, CheckStop, LeaveAcceptLoop
<1>2. CASE Accept
  <2>1. /\ Head(backlog) \in Clients \cup {Wake}
        /\ Tail(backlog) \in Seq(Clients \cup {Wake})
    BY <1>2 DEF TypeOK, Accept
  <2>2. 0 \in 0..accept_failures_allowed
    BY CoordinatorAssumption
  <2> QED BY <1>2, <2>1, <2>2 DEF TypeOK, Accept
<1>3. CASE AcceptFails
  <2>1. failures' \in 0..accept_failures_allowed
    BY <1>3, CoordinatorAssumption DEF TypeOK, AcceptFails
  <2>2. acceptor' \in {"leaving", "check"}
    BY <1>3 DEF AcceptFails
  <2> QED BY <1>3, <2>1, <2>2 DEF TypeOK, AcceptFails
<1>4. CASE AcceptStopped
  <2>1. conn' \in [Clients -> {"none", "queued", "served", "closed"}]
    BY <1>4, ClosingType DEF TypeOK, AcceptStopped
  <2> QED BY <1>4, <2>1 DEF TypeOK, AcceptStopped
<1>5. CASE AcceptBusy
  <2>1. conn' \in [Clients -> {"none", "queued", "served", "closed"}]
    BY <1>5, ClosingType DEF AcceptBusy
  <2>2. handlers' \subseteq Clients /\ awaiting' \subseteq Clients
    BY <1>5 DEF TypeOK, AcceptBusy, Unfinished
  <2> QED BY <1>5, <2>1, <2>2 DEF TypeOK, AcceptBusy
<1>6. CASE Spawn
  <2>1. incoming \in Clients
    BY <1>6 DEF Spawn, WakeInv
  <2>2. handler' \in [Clients -> HandlerStates]
    BY <1>6, <2>1, GotoType DEF Spawn
  <2>3. handlers' \subseteq Clients
    BY <1>6, <2>1 DEF TypeOK, Spawn, Unfinished
  <2>4. conn' \in [Clients -> {"none", "queued", "served", "closed"}]
    BY <1>6 DEF TypeOK, Spawn
  <2> QED BY <1>6, <2>2, <2>3, <2>4 DEF TypeOK, Spawn, HandlerStates
<1> QED BY <1>1, <1>2, <1>3, <1>4, <1>5, <1>6 DEF AcceptorStep

\* How a call of a handler ends.
LEMMA AnswerFacts ==
  ASSUME TypeOK, CallInv, NEW c \in Clients, Answer(c)
  PROVE  \E next \in {"check", "closing", "stop"} :
           /\ handler' = [handler EXCEPT ![c].pc = next, ![c].message = None]
           /\ awaiting' = Answered(c, next)
           /\ IF next = "stop" THEN Closing(c) ELSE UNCHANGED conn
<1>1. handler[c].message \in {"Hello", "Request", "Evaluate", "Shutdown", "Malformed"}
  BY DEF CallInv, Answer, Messages
<1>2. Outcomes(c) \subseteq {"check", "closing", "stop"}
  <2>1. CASE handler[c].frames > 0
    BY <1>1, <2>1 DEF Outcomes
  <2>2. CASE ~(handler[c].frames > 0)
    BY <1>1, <2>2 DEF Outcomes
  <2> QED BY <2>1, <2>2
<1> QED BY <1>2 DEF Answer

\* A call leaves the handler elsewhere, with no frame, and about to wake nobody.
LEMMA AnswerMoves ==
  ASSUME TypeOK, CallInv, NEW c \in Clients, Answer(c), NEW e \in Clients
  PROVE  /\ e # c => handler'[e] = handler[e]
         /\ e = c => handler'[e].pc \in {"check", "closing", "stop"}
<1>1. PICK next \in {"check", "closing", "stop"} :
        handler' = [handler EXCEPT ![c].pc = next, ![c].message = None]
  BY AnswerFacts
<1>2. handler \in [Clients -> HandlerStates] /\ handler[c] \in HandlerStates
  BY DEF TypeOK, HandlerStates
<1>3. handler'[c] = [handler[c] EXCEPT !.pc = next, !.message = None]
  BY <1>1, <1>2
<1>4. handler'[c].pc = next
  BY <1>2, <1>3 DEF HandlerStates
<1>5. e # c => handler'[e] = handler[e]
  BY <1>1, <1>2
<1> QED BY <1>4, <1>5

\* What a handler does.
LEMMA HandlerType ==
  ASSUME TypeOK, CallInv, NEW c \in Clients, HandlerStep(c)
  PROVE  TypeOK'
<1> USE DEF listening
<1>1. CASE RecvEnd(c)
  <2>1. handler' \in [Clients -> HandlerStates]
    BY <1>1, GotoType DEF RecvEnd, Goto
  <2> QED BY <1>1, <2>1 DEF TypeOK, RecvEnd, HandlerStates
<1>2. CASE RecvHello(c)
  <2>1. inbox[c] \in Messages /\ handler[c] \in HandlerStates
    BY <1>2 DEF TypeOK, RecvHello, Receives, HandlerStates
  <2>2. [handler[c] EXCEPT !.pc = "calling", !.message = inbox[c]] \in HandlerStates
    BY <2>1 DEF HandlerStates
  <2>3. handler' \in [Clients -> HandlerStates]
    BY <1>2, <2>2 DEF TypeOK, RecvHello, HandlerStates
  <2>4. inbox' \in [Clients -> Messages \cup {None}]
    BY <1>2 DEF TypeOK, RecvHello
  <2> QED BY <1>2, <2>3, <2>4 DEF TypeOK, RecvHello, HandlerStates
<1>3. CASE CheckStopBeforeRecv(c)
  <2>1. handler' \in [Clients -> HandlerStates]
    BY <1>3, GotoType DEF CheckStopBeforeRecv, Goto
  <2> QED BY <1>3, <2>1 DEF TypeOK, CheckStopBeforeRecv, HandlerStates
<1>4. CASE Recv(c)
  <2>1. inbox' \in [Clients -> Messages \cup {None}]
    BY <1>4 DEF TypeOK, Recv
  <2>2. CASE Spent(c)
    <3>1. Goto(c, "closing") /\ awaiting' = awaiting \ {c}
      BY <1>4, <2>2 DEF Recv
    <3>2. handler' = [handler EXCEPT ![c].pc = "closing"]
      BY <3>1 DEF Goto
    <3>3. handler' \in [Clients -> HandlerStates]
      BY <3>2, GotoType
    <3>4. awaiting' \subseteq Clients
      BY <3>1 DEF TypeOK
    <3> QED BY <1>4, <2>1, <3>3, <3>4 DEF TypeOK, Recv, HandlerStates
  <2>3. CASE ~Spent(c)
    <3>1. inbox[c] \in Messages /\ handler[c] \in HandlerStates
      BY <1>4 DEF TypeOK, Recv, Receives, HandlerStates
    <3>2. handler[c].frames + 1 \in 0..max_frames_per_connection
      BY <2>3, <3>1, CoordinatorAssumption DEF Spent, HandlerStates
    <3>3. [handler[c] EXCEPT !.pc = "calling", !.frames = @ + 1, !.message = inbox[c]]
            \in HandlerStates
      BY <3>1, <3>2 DEF HandlerStates
    <3>4. /\ handler' = [handler EXCEPT ![c].pc = "calling", ![c].frames = @ + 1,
                                        ![c].message = inbox[c]]
          /\ awaiting' = awaiting
      BY <1>4, <2>3 DEF Recv
    <3>5. handler \in [Clients -> HandlerStates]
      BY DEF TypeOK, HandlerStates
    <3>6. handler' \in [Clients -> HandlerStates]
      BY <3>3, <3>4, <3>5
    <3> QED BY <1>4, <2>1, <3>4, <3>6 DEF TypeOK, Recv, HandlerStates
  <2> QED BY <2>2, <2>3
<1>5. CASE Answer(c)
  <2>1. PICK next \in {"check", "closing", "stop"} :
          /\ handler' = [handler EXCEPT ![c].pc = next, ![c].message = None]
          /\ awaiting' = Answered(c, next)
          /\ IF next = "stop" THEN Closing(c) ELSE UNCHANGED conn
    BY <1>5, AnswerFacts
  <2>2. handler[c] \in HandlerStates
    BY DEF TypeOK, HandlerStates
  <2>3. [handler[c] EXCEPT !.pc = next, !.message = None] \in HandlerStates
    BY <2>2 DEF HandlerStates
  <2>4. handler' \in [Clients -> HandlerStates] /\ awaiting' \subseteq Clients
    BY <2>1, <2>3 DEF TypeOK, Answered, HandlerStates
  <2>5. conn' \in [Clients -> {"none", "queued", "served", "closed"}]
    BY <2>1, ClosingType DEF TypeOK
  <2> QED BY <1>5, <2>4, <2>5 DEF TypeOK, Answer, HandlerStates
<1>6. CASE HandlerRequestsStop(c)
  <2>1. handler' \in [Clients -> HandlerStates]
    BY <1>6, GotoType DEF HandlerRequestsStop, Goto
  <2> QED BY <1>6, <2>1 DEF TypeOK, HandlerRequestsStop, HandlerStates
<1>7. CASE HandlerWakes(c)
  <2>1. handler' \in [Clients -> HandlerStates]
    BY <1>7, GotoType DEF HandlerWakes, Goto
  <2>2. backlog' \in Seq(Clients \cup {Wake})
    BY <1>7 DEF TypeOK, HandlerWakes, Woken
  <2> QED BY <1>7, <2>1, <2>2 DEF TypeOK, HandlerWakes, HandlerStates
<1>8. CASE FinishHandler(c)
  <2>1. handler' \in [Clients -> HandlerStates]
    BY <1>8, GotoType DEF FinishHandler, Goto
  <2>2. conn' \in [Clients -> {"none", "queued", "served", "closed"}]
    BY <1>8, ClosingType DEF FinishHandler
  <2> QED BY <1>8, <2>1, <2>2 DEF TypeOK, FinishHandler, HandlerStates
<1> QED BY <1>1, <1>2, <1>3, <1>4, <1>5, <1>6, <1>7, <1>8 DEF HandlerStep

\* What a client does.
LEMMA ClientType ==
  ASSUME TypeOK, NEW c \in Clients, ClientStep(c)
  PROVE  TypeOK'
<1> USE DEF listening
<1>1. CASE Connect(c)
  <2>1. backlog' \in Seq(Clients \cup {Wake})
    BY <1>1 DEF TypeOK, Connect
  <2>2. conn' \in [Clients -> {"none", "queued", "served", "closed"}]
    BY <1>1 DEF TypeOK, Connect
  <2> QED BY <1>1, <2>1, <2>2 DEF TypeOK, Connect
<1>2. ASSUME NEW m \in Messages, Send(c, m) PROVE TypeOK'
  <2>1. inbox' \in [Clients -> Messages \cup {None}]
    BY <1>2 DEF TypeOK, Send
  <2> QED BY <1>2, <2>1 DEF TypeOK, Send
<1>3. CASE HangUp(c)
  BY <1>3 DEF TypeOK, HangUp
<1> QED BY <1>1, <1>2, <1>3 DEF ClientStep

\* Every step keeps the types.
LEMMA TypeStep ==
  ASSUME TypeOK, WakeInv, CallInv, [Next]_vars
  PROVE  TypeOK'
<1>1. CASE Finished \/ UNCHANGED vars
  BY <1>1 DEF TypeOK, Finished, vars
<1> QED BY <1>1, MainType, AcceptorType, HandlerType, ClientType DEF Next
-----------------------------------------------------------------------------
(* The wake connection and the calls                                       *)

\* A connection at the end of the backlog.
LEMMA AppendKeepsWake ==
  ASSUME TypeOK, WakeInv, NEW c, c = Wake => stop_requested,
         backlog' = Append(backlog, c), stop_requested' = stop_requested
  PROVE  stop_requested' \/ \A i \in 1..Len(backlog') : backlog'[i] # Wake
<1>1. backlog \in Seq(Clients \cup {Wake})
  BY DEF TypeOK
<1>2. CASE stop_requested
  BY <1>2
<1>3. CASE ~stop_requested
  <2>1. c # Wake /\ \A i \in 1..Len(backlog) : backlog[i] # Wake
    BY <1>3 DEF WakeInv
  <2>2. SUFFICES ASSUME NEW i \in 1..Len(backlog') PROVE backlog'[i] # Wake
    OBVIOUS
  <2>3. Len(backlog') = Len(backlog) + 1 /\ Len(backlog) \in Nat
    BY <1>1
  <2>4. CASE i \in 1..Len(backlog)
    BY <1>1, <2>1, <2>4
  <2>5. CASE i = Len(backlog) + 1
    BY <1>1, <2>1, <2>5
  <2> QED BY <2>3, <2>4, <2>5
<1> QED BY <1>2, <1>3

\* Every step keeps the wake connection behind the flag.
LEMMA WakeStep ==
  ASSUME TypeOK, WakeInv, CallInv, [Next]_vars
  PROVE  WakeInv'
<1> USE DEF listening
<1>1. CASE Finished \/ UNCHANGED vars
  BY <1>1 DEF WakeInv, Finished, vars
<1>2. CASE Start \/ StartFails \/ Stop(FALSE) \/ Stop(TRUE) \/ JoinAcceptor
  BY <1>2 DEF WakeInv, Start, StartFails, Stop, JoinAcceptor
<1>3. CASE MainRequestsStop
  BY <1>3 DEF WakeInv, MainRequestsStop
<1>4. CASE MainWakes
  <2>1. backlog' = Append(backlog, Wake) /\ stop_requested /\ stop_requested' = stop_requested
    BY <1>4 DEF MainWakes, Woken, WakeInv
  <2> QED BY <1>4, <2>1 DEF WakeInv, MainWakes
<1>5. CASE JoinHandlers
  <2>1. Len(backlog') = 0
    BY <1>5 DEF JoinHandlers
  <2> QED BY <1>5, <2>1 DEF WakeInv, JoinHandlers
<1>6. CASE CheckStop \/ LeaveAcceptLoop \/ AcceptFails \/ AcceptStopped \/ AcceptBusy
  BY <1>6 DEF WakeInv, CheckStop, LeaveAcceptLoop, AcceptFails, AcceptStopped, AcceptBusy
<1>7. CASE Accept
  <2>1. backlog \in Seq(Clients \cup {Wake}) /\ backlog # <<>>
    BY <1>7 DEF TypeOK, Accept
  <2>2. incoming' = backlog[1] /\ 1 \in 1..Len(backlog) /\ backlog[1] \in Clients \cup {Wake}
    BY <1>7, <2>1 DEF Accept
  <2>3. \A i \in 1..Len(backlog') : backlog'[i] = backlog[i + 1] /\ i + 1 \in 1..Len(backlog)
    BY <1>7, <2>1 DEF Accept
  <2> QED BY <1>7, <2>2, <2>3 DEF WakeInv, Accept
<1>8. CASE Spawn
  <2>1. incoming \in Clients
    BY <1>8 DEF Spawn, WakeInv
  <2>2. \A c \in Clients : handler'[c].pc = "wake" => handler[c].pc = "wake"
    BY <1>8, <2>1 DEF Spawn, TypeOK
  <2> QED BY <1>8, <2>2 DEF WakeInv, Spawn
<1>9. ASSUME NEW c \in Clients, HandlerStep(c) PROVE WakeInv'
  <2>1. ASSUME \A e \in Clients : handler'[e].pc = "wake" => handler[e].pc = "wake",
               UNCHANGED <<main, acceptor, incoming, backlog, stop_requested>>
        PROVE  WakeInv'
    BY <2>1 DEF WakeInv
  <2>2. CASE RecvEnd(c) \/ CheckStopBeforeRecv(c) \/ FinishHandler(c)
    <3>1. \A e \in Clients : handler'[e].pc = "wake" => handler[e].pc = "wake"
      BY <2>2 DEF RecvEnd, CheckStopBeforeRecv, FinishHandler, Goto, TypeOK
    <3> QED BY <2>1, <2>2, <3>1 DEF RecvEnd, CheckStopBeforeRecv, FinishHandler
  <2>3. CASE RecvHello(c) \/ Recv(c)
    <3>1. \A e \in Clients : handler'[e].pc = "wake" => handler[e].pc = "wake"
      BY <2>3 DEF RecvHello, Recv, Goto, TypeOK
    <3> QED BY <2>1, <2>3, <3>1 DEF RecvHello, Recv
  <2>4. CASE Answer(c)
    <3>1. \A e \in Clients : handler'[e].pc = "wake" => handler[e].pc = "wake"
      BY <2>4, AnswerMoves
    <3> QED BY <2>1, <2>4, <3>1 DEF Answer
  <2>5. CASE HandlerRequestsStop(c)
    BY <2>5 DEF WakeInv, HandlerRequestsStop
  <2>6. CASE HandlerWakes(c)
    <3>1. backlog' = Append(backlog, Wake) /\ stop_requested /\ stop_requested' = stop_requested
      BY <2>6 DEF HandlerWakes, Woken, WakeInv
    <3> QED BY <2>6, <3>1 DEF WakeInv, HandlerWakes
  <2> QED BY <1>9, <2>2, <2>3, <2>4, <2>5, <2>6 DEF HandlerStep
<1>10. ASSUME NEW c \in Clients, ClientStep(c) PROVE WakeInv'
  <2>1. CASE Connect(c)
    <3>1. c # Wake
      BY CoordinatorAssumption
    <3>2. stop_requested' \/ \A i \in 1..Len(backlog') : backlog'[i] # Wake
      BY <2>1, <3>1, AppendKeepsWake DEF Connect
    <3> QED BY <2>1, <3>2 DEF WakeInv, Connect
  <2>2. CASE \E m \in Messages : Send(c, m)
    BY <2>2 DEF WakeInv, Send
  <2>3. CASE HangUp(c)
    BY <2>3 DEF WakeInv, HangUp
  <2> QED BY <1>10, <2>1, <2>2, <2>3 DEF ClientStep
<1> QED BY <1>1, <1>2, <1>3, <1>4, <1>5, <1>6, <1>7, <1>8, <1>9, <1>10
     DEF Next, MainStep, AcceptorStep

\* A call only begins with the frame that was received.
LEMMA CallStep ==
  ASSUME TypeOK, CallInv, WakeInv, [Next]_vars
  PROVE  CallInv'
<1> USE DEF listening
<1>1. ASSUME NEW c \in Clients, HandlerStep(c) PROVE CallInv'
  <2>0. ASSUME NEW pc \in {"closing", "recv", "finished", "wake"}, Goto(c, pc)
        PROVE  CallInv'
    <3>1. handler \in [Clients -> HandlerStates] /\ handler[c] \in HandlerStates
      BY DEF TypeOK, HandlerStates
    <3>2. handler'[c] = [handler[c] EXCEPT !.pc = pc]
      BY <2>0, <3>1 DEF Goto
    <3>3. handler'[c].pc = pc
      BY <3>1, <3>2 DEF HandlerStates
    <3>4. \A e \in Clients : e # c => handler'[e] = handler[e]
      BY <2>0, <3>1 DEF Goto
    <3> QED BY <2>0, <3>3, <3>4 DEF CallInv
  <2>1. CASE RecvEnd(c) \/ CheckStopBeforeRecv(c) \/ FinishHandler(c)
    BY <2>0, <2>1 DEF RecvEnd, CheckStopBeforeRecv, FinishHandler
  <2>2. CASE HandlerRequestsStop(c) \/ HandlerWakes(c)
    BY <2>0, <2>2 DEF HandlerRequestsStop, HandlerWakes
  <2>3. CASE Answer(c)
    BY <2>3, AnswerMoves DEF CallInv
  <2>4. CASE RecvHello(c)
    <3>1. inbox[c] \in Messages \ {"Oversized"}
      BY <2>4 DEF TypeOK, RecvHello, Receives
    <3> QED BY <2>4, <3>1 DEF CallInv, TypeOK, RecvHello
  <2>5. CASE Recv(c)
    <3>1. inbox[c] \in Messages \ {"Oversized"}
      BY <2>5 DEF TypeOK, Recv, Receives
    <3>2. CASE Spent(c)
      BY <2>0, <2>5, <3>2 DEF Recv
    <3>3. CASE ~Spent(c)
      BY <2>5, <3>1, <3>3 DEF CallInv, TypeOK, Recv
    <3> QED BY <3>2, <3>3
  <2> QED BY <1>1, <2>1, <2>2, <2>3, <2>4, <2>5 DEF HandlerStep
<1>2. CASE Spawn
  <2>1. incoming \in Clients
    BY <1>2 DEF Spawn, WakeInv
  <2> QED BY <1>2, <2>1 DEF CallInv, TypeOK, Spawn
<1>3. ASSUME UNCHANGED handler PROVE CallInv'
  BY <1>3 DEF CallInv
<1>4. ASSUME NEW c \in Clients, ClientStep(c) PROVE UNCHANGED handler
  BY <1>4 DEF ClientStep, Connect, Send, HangUp
<1>5. CASE Start \/ StartFails \/ Stop(FALSE) \/ MainStep
  <2>1. UNCHANGED handler
    BY <1>5 DEF Start, StartFails, Stop, MainStep, MainRequestsStop, MainWakes, JoinAcceptor,
                JoinHandlers
  <2> QED BY <1>3, <2>1
<1>6. CASE CheckStop \/ AcceptStopped \/ AcceptBusy \/ LeaveAcceptLoop \/ Accept \/ AcceptFails
  <2>1. UNCHANGED handler
    BY <1>6 DEF CheckStop, AcceptStopped, AcceptBusy, LeaveAcceptLoop, Accept, AcceptFails
  <2> QED BY <1>3, <2>1
<1>7. CASE Finished \/ UNCHANGED vars
  <2>1. UNCHANGED handler
    BY <1>7 DEF Finished, vars
  <2> QED BY <1>3, <2>1
<1> QED BY <1>1, <1>2, <1>3, <1>4, <1>5, <1>6, <1>7 DEF Next, AcceptorStep
-----------------------------------------------------------------------------
(* The joins                                                               *)

\* A handler that takes a step was live; only its last step ends that, and
\* closes the connection.
LEMMA HandlerLives ==
  ASSUME TypeOK, CallInv, JoinInv, NEW c \in Clients, HandlerStep(c)
  PROVE  /\ UNCHANGED <<main, acceptor, running, handlers>>
         /\ Live' \subseteq Live
         /\ \A e \in Clients : conn'[e] = "served" => e \in Live'
         /\ \A e \in Clients : conn'[e] = "queued" => conn[e] = "queued"
<1> USE DEF listening
<1>1. UNCHANGED <<main, acceptor, running, handlers>>
  BY DEF HandlerStep, RecvEnd, RecvHello, CheckStopBeforeRecv, Recv, Answer, HandlerRequestsStop,
         HandlerWakes, FinishHandler
<1>2. ASSUME c \in Live, c \in Live' \/ conn'[c] # "served",
             \A e \in Clients \ {c} : handler'[e] = handler[e],
             UNCHANGED conn \/ Closing(c)
      PROVE  /\ Live' \subseteq Live
             /\ \A e \in Clients : conn'[e] = "served" => e \in Live'
             /\ \A e \in Clients : conn'[e] = "queued" => conn[e] = "queued"
  BY <1>2 DEF Live, Closing, TypeOK, JoinInv
<1>3. CASE RecvEnd(c) \/ RecvHello(c) \/ CheckStopBeforeRecv(c)
  BY <1>1, <1>2, <1>3 DEF RecvEnd, RecvHello, CheckStopBeforeRecv, Goto, Live, TypeOK
<1>4. CASE Recv(c)
  BY <1>1, <1>2, <1>4 DEF Recv, Goto, Live, TypeOK
<1>5. CASE Answer(c)
  <2>1. \A e \in Clients \ {c} : handler'[e] = handler[e]
    BY <1>5, AnswerMoves
  <2>2. c \in Live /\ c \in Live'
    BY <1>5, AnswerMoves DEF Live, Answer
  <2>3. UNCHANGED conn \/ Closing(c)
    BY <1>5 DEF Answer
  <2> QED BY <1>1, <1>2, <2>1, <2>2, <2>3
<1>6. CASE HandlerRequestsStop(c) \/ HandlerWakes(c)
  BY <1>1, <1>2, <1>6 DEF HandlerRequestsStop, HandlerWakes, Goto, Live, TypeOK
<1>7. CASE FinishHandler(c)
  BY <1>1, <1>2, <1>7 DEF FinishHandler, Goto, Closing, Live, TypeOK
<1> QED BY <1>3, <1>4, <1>5, <1>6, <1>7 DEF HandlerStep

\* Reaping forgets finished handlers only.
LEMMA ReapFacts ==
  ASSUME TypeOK, JoinInv
  PROVE  Live \subseteq Unfinished /\ IsFiniteSet(Unfinished)
BY FS_Subset DEF JoinInv, Live, Unfinished

\* Every step keeps what the joins rest on.
LEMMA JoinStep ==
  ASSUME IInv, [Next]_vars
  PROVE  JoinInv'
<1> USE DEF IInv
<1>1. CASE Finished \/ UNCHANGED vars
  BY <1>1 DEF JoinInv, Live, Finished, vars
<1>2. CASE Start \/ StartFails \/ Stop(FALSE) \/ Stop(TRUE) \/ MainRequestsStop \/ MainWakes
           \/ JoinAcceptor
  BY <1>2 DEF JoinInv, Live, Start, StartFails, Stop, MainRequestsStop, MainWakes, JoinAcceptor
<1>3. CASE JoinHandlers
  <2>1. Live = {}
    BY <1>3 DEF JoinHandlers, AllFinished, JoinInv, Live
  <2>2. Live' = {}
    BY <1>3, <2>1 DEF JoinHandlers, Live
  <2>3. \A c \in Clients : conn'[c] \notin {"served", "queued"}
    BY <1>3, <2>1 DEF JoinHandlers, JoinInv, TypeOK
  <2>4. IsFiniteSet(handlers') /\ handlers' = {}
    BY <1>3, FS_EmptySet DEF JoinHandlers
  <2> QED BY <1>3, <2>2, <2>3, <2>4 DEF JoinHandlers, JoinInv
<1>4. CASE CheckStop \/ Accept \/ AcceptFails \/ LeaveAcceptLoop
  BY <1>4 DEF JoinInv, Live, CheckStop, Accept, AcceptFails, LeaveAcceptLoop
<1>5. CASE AcceptStopped
  <2>1. \A c \in Clients : conn'[c] = "served" => conn[c] = "served"
    BY <1>5 DEF AcceptStopped, Closing, TypeOK
  <2> QED BY <1>5, <2>1 DEF JoinInv, Live, AcceptStopped
<1>6. CASE AcceptBusy
  <2>1. \A c \in Clients : conn'[c] = "served" => conn[c] = "served"
    BY <1>6 DEF AcceptBusy, Closing, TypeOK
  <2>2. Live' = Live /\ handlers' = Unfinished
    BY <1>6 DEF AcceptBusy, Live
  <2> QED BY <1>6, <2>1, <2>2, ReapFacts DEF JoinInv, AcceptBusy
<1>7. CASE Spawn
  <2>1. incoming \in Clients
    BY <1>7 DEF Spawn, WakeInv
  <2>2. Live' = Live \cup {incoming}
    BY <1>7, <2>1 DEF Spawn, Live, TypeOK
  <2>3. handlers' = Unfinished \cup {incoming} /\ IsFiniteSet(handlers')
    BY <1>7, ReapFacts, FS_AddElement DEF Spawn
  <2>4. \A c \in Clients : conn'[c] = "served" => conn[c] = "served" \/ c = incoming
    BY <1>7 DEF Spawn, TypeOK
  <2> QED BY <1>7, <2>2, <2>3, <2>4, ReapFacts DEF JoinInv, Spawn
<1>8. ASSUME NEW c \in Clients, HandlerStep(c) PROVE JoinInv'
  <2>1. /\ UNCHANGED <<main, acceptor, running, handlers>>
        /\ Live' \subseteq Live
        /\ \A e \in Clients : conn'[e] = "served" => e \in Live'
        /\ \A e \in Clients : conn'[e] = "queued" => conn[e] = "queued"
    BY <1>8, HandlerLives
  <2> QED BY <2>1 DEF JoinInv
<1>9. ASSUME NEW c \in Clients, ClientStep(c) PROVE JoinInv'
  <2>1. UNCHANGED <<main, acceptor, running, handlers, handler>>
    BY <1>9 DEF ClientStep, Connect, Send, HangUp, listening
  <2>2. \A e \in Clients : conn'[e] = "served" => conn[e] = "served"
    BY <1>9 DEF ClientStep, Connect, Send, HangUp, TypeOK
  <2>3. running \/ UNCHANGED conn
    BY <1>9 DEF ClientStep, Connect, Send, HangUp
  <2> QED BY <2>1, <2>2, <2>3 DEF JoinInv, Live
<1> QED BY <1>1, <1>2, <1>3, <1>4, <1>5, <1>6, <1>7, <1>8, <1>9 DEF Next, MainStep, AcceptorStep

\* Only a connection that is taken on adds a handler, and reaping made room.
LEMMA BoundStep ==
  ASSUME IInv, Cardinality(Live) <= max_connections, [Next]_vars
  PROVE  Cardinality(Live') <= max_connections
<1> USE DEF IInv
<1>1. IsFiniteSet(Live) /\ Cardinality(Live) \in Nat /\ max_connections \in Nat
  BY FS_Subset, FS_CardinalityType, CoordinatorAssumption DEF JoinInv
<1>2. CASE Spawn
  <2>1. incoming \in Clients
    BY <1>2 DEF Spawn, WakeInv
  <2>2. Live' = Live \cup {incoming}
    BY <1>2, <2>1 DEF Spawn, Live, TypeOK
  <2>3. /\ Cardinality(Live) <= Cardinality(Unfinished)
        /\ Cardinality(Unfinished) \in Nat
    BY ReapFacts, FS_Subset, FS_CardinalityType
  <2>4. Cardinality(Unfinished) < max_connections
    BY <1>2 DEF Spawn
  <2>5. Cardinality(Live') <= Cardinality(Live) + 1
    BY <1>1, <2>2, FS_AddElement
  <2>6. Cardinality(Live') \in Nat
    BY <1>1, <2>2, FS_AddElement, FS_CardinalityType
  <2> QED BY <1>1, <2>3, <2>4, <2>5, <2>6
<1>3. CASE ~Spawn
  <2>1. Live' \subseteq Live
    <3>1. ASSUME UNCHANGED handler PROVE Live' \subseteq Live
      BY <3>1 DEF Live
    <3>2. CASE Start \/ StartFails \/ Stop(FALSE) \/ MainStep
      BY <3>1, <3>2 DEF Start, StartFails, Stop, MainStep, MainRequestsStop, MainWakes,
                        JoinAcceptor, JoinHandlers
    <3>3. CASE AcceptorStep \/ Accept \/ AcceptFails
      BY <1>3, <3>1, <3>3 DEF AcceptorStep, CheckStop, AcceptStopped, AcceptBusy,
                              LeaveAcceptLoop, Accept, AcceptFails
    <3>4. ASSUME NEW c \in Clients, ClientStep(c) PROVE UNCHANGED handler
      BY <3>4 DEF ClientStep, Connect, Send, HangUp
    <3>5. CASE Finished \/ UNCHANGED vars
      BY <3>1, <3>5 DEF Finished, vars
    <3> QED BY <3>1, <3>2, <3>3, <3>4, <3>5, HandlerLives DEF Next
  <2> QED BY <1>1, <2>1, FS_Subset, FS_CardinalityType
<1> QED BY <1>2, <1>3
-----------------------------------------------------------------------------
(* The theorems                                                            *)

\* The invariant holds before the coordinator is started and after every step.
LEMMA Invariance == Spec => [](IInv /\ Cardinality(Live) <= max_connections)
<1>1. Init => IInv /\ Cardinality(Live) <= max_connections
  <2> SUFFICES ASSUME Init PROVE IInv /\ Cardinality(Live) <= max_connections
    OBVIOUS
  <2>1. TypeOK
    <3>1. handler \in [Clients -> HandlerStates]
      BY CoordinatorAssumption DEF Init, NoHandler, HandlerStates
    <3>2. failures \in 0..accept_failures_allowed
      BY CoordinatorAssumption DEF Init
    <3>3. backlog \in Seq(Clients \cup {Wake})
      BY DEF Init
    <3>4. /\ conn \in [Clients -> {"none", "queued", "served", "closed"}]
          /\ inbox \in [Clients -> Messages \cup {None}]
      BY DEF Init
    <3> QED BY <3>1, <3>2, <3>3, <3>4 DEF Init, TypeOK, HandlerStates
  <2>2. Live = {} /\ \A c \in Clients : handler[c].pc = "none"
    BY DEF Init, Live, NoHandler
  <2>3. WakeInv /\ CallInv
    BY <2>2 DEF Init, WakeInv, CallInv
  <2>4. JoinInv
    BY <2>2, FS_EmptySet DEF Init, JoinInv
  <2>5. Cardinality(Live) <= max_connections
    BY <2>2, FS_EmptySet, CoordinatorAssumption
  <2> QED BY <2>1, <2>3, <2>4, <2>5 DEF IInv
<1>2. IInv /\ Cardinality(Live) <= max_connections /\ [Next]_vars
        => IInv' /\ (Cardinality(Live) <= max_connections)'
  BY TypeStep, WakeStep, CallStep, JoinStep, BoundStep DEF IInv
<1> QED BY <1>1, <1>2, PTL DEF Spec

\* The variables keep their types, for any numbers of clients, connections,
\* frames and tolerated failures.
THEOREM TypeCorrect == Spec => []TypeOK
<1>1. IInv => TypeOK
  BY DEF IInv
<1> QED BY <1>1, Invariance, PTL

\* stop() leaves neither the accept loop nor a handler behind when it closes the
\* governor, although the accept loop starts handlers until the moment it sees
\* the flag and reaps entries on its own.
THEOREM GovernorOutlives == Spec => []GovernorOutlivesHandlers
<1>1. ASSUME IInv, main = "stopped"
      PROVE  /\ acceptor = "exited"
             /\ \A c \in Clients : /\ handler[c].pc \in {"none", "finished"}
                                 /\ conn[c] \in {"none", "closed"}
  <2>1. acceptor = "exited" /\ Live = {}
    <3>1. Live \subseteq handlers /\ handlers = {}
      BY <1>1 DEF IInv, JoinInv
    <3>2. acceptor = "exited"
      BY <1>1 DEF IInv, JoinInv
    <3> QED BY <3>1, <3>2
  <2>2. \A c \in Clients : handler[c].pc \in {"none", "finished"}
    BY <2>1 DEF Live
  <2>3. \A c \in Clients : conn[c] \notin {"served", "queued"}
    BY <1>1, <2>1 DEF IInv, JoinInv
  <2>4. conn \in [Clients -> {"none", "queued", "served", "closed"}]
    BY <1>1 DEF IInv, TypeOK
  <2> QED BY <2>1, <2>2, <2>3, <2>4
<1>2. IInv => GovernorOutlivesHandlers
  BY <1>1 DEF GovernorOutlivesHandlers
<1> QED BY <1>2, Invariance, PTL

\* At most max_connections handlers run, over any number of connections.
THEOREM Bounded == Spec => []HandlersBounded
<1>1. Cardinality(Live) <= max_connections => HandlersBounded
  BY DEF Live, HandlersBounded
<1> QED BY <1>1, Invariance, PTL
=============================================================================
