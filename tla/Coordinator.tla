----------------------------- MODULE Coordinator -----------------------------
(***************************************************************************)
(* The coordinator process: the thread that serves and stops, the accept   *)
(* loop, and one handler thread per connection, with clients that connect, *)
(* ask one thing at a time and hang up when they like.                     *)
(*                                                                         *)
(* What the governor answers is Governor's matter; here a call may succeed *)
(* or fail, and must find the governor open.                               *)
(***************************************************************************)
EXTENDS Naturals, Sequences, FiniteSets

CONSTANTS
  Clients,                   \* one connection each
  max_connections, max_frames_per_connection,
  accept_failures_allowed,   \* consecutive failures the accept loop survives
  None, Wake                 \* no message; the connection that wakes the accept loop

ASSUME CoordinatorAssumption ==
  /\ max_connections \in Nat \ {0} /\ max_frames_per_connection \in Nat \ {0}
  /\ accept_failures_allowed \in Nat
  /\ Wake \notin Clients

VARIABLES
  main,           \* where start(), wait_until_stopped() and stop() are
  acceptor,       \* where accept_loop() is
  incoming,       \* the connection it has accepted
  failures,       \* consecutive_failures
  stop_requested, \* stop_requested_
  running,        \* running_
  governor_open,
  backlog,        \* connections waiting to be accepted
  handlers,       \* clients with an entry in handlers_
  handler,        \* where each handler thread is: [pc, frames, message]
  conn,           \* each connection as the server has it
  hungup,         \* clients that closed their end
  inbox,          \* the message on its way to the server
  awaiting        \* clients that wait for an answer

vars == <<main, acceptor, incoming, failures, stop_requested, running, governor_open,
          backlog, handlers, handler, conn, hungup, inbox, awaiting>>

listening == <<main, acceptor, incoming, failures, running, governor_open, handlers>>

\* Request stands for PUBLISH, REVALIDATE and FENCE_PUBLISHER, whose answer tells
\* how they went; Malformed for any payload that a decoder refuses, or an
\* unknown type; Oversized for a frame that recv_frame() itself refuses.
Messages == {"Hello", "Request", "Evaluate", "Shutdown", "Malformed", "Oversized"}

NoHandler == [pc |-> "none", frames |-> 0, message |-> None]

TypeOK ==
  /\ main \in {"new", "waiting", "stop", "wake", "join_acceptor", "join_handlers",
               "stopped", "failed"}
  /\ acceptor \in {"none", "check", "accept", "accepted", "leaving", "exited"}
  /\ incoming \in Clients \cup {Wake, None} /\ failures \in 0..accept_failures_allowed
  /\ stop_requested \in BOOLEAN /\ running \in BOOLEAN /\ governor_open \in BOOLEAN
  /\ backlog \in Seq(Clients \cup {Wake})
  /\ handlers \subseteq Clients
  /\ handler \in [Clients -> [pc : {"none", "hello", "check", "recv", "calling", "stop",
                                    "wake", "closing", "finished"},
                              frames : 0..max_frames_per_connection,
                              message : Messages \cup {None}]]
  /\ conn \in [Clients -> {"none", "queued", "served", "closed"}]
  /\ hungup \subseteq Clients /\ awaiting \subseteq Clients
  /\ inbox \in [Clients -> Messages \cup {None}]

Init ==
  /\ main = "new" /\ acceptor = "none" /\ incoming = None /\ failures = 0
  /\ stop_requested = FALSE /\ running = FALSE /\ governor_open = FALSE
  /\ backlog = <<>> /\ handlers = {}
  /\ handler = [c \in Clients |-> NoHandler]
  /\ conn = [c \in Clients |-> "none"]
  /\ hungup = {} /\ awaiting = {}
  /\ inbox = [c \in Clients |-> None]
-----------------------------------------------------------------------------
(* The clients                                                             *)

Connect(c) ==
  /\ conn[c] = "none" /\ running
  /\ conn' = [conn EXCEPT ![c] = "queued"]
  /\ backlog' = Append(backlog, c)
  /\ UNCHANGED <<listening, stop_requested, handler, hungup, inbox, awaiting>>

\* The request goes into the connection, whether it has been accepted or not.
Send(c, m) ==
  /\ conn[c] \in {"queued", "served"} /\ c \notin hungup \cup awaiting
  /\ inbox' = [inbox EXCEPT ![c] = m]
  /\ awaiting' = awaiting \cup {c}
  /\ UNCHANGED <<listening, stop_requested, backlog, handler, conn, hungup>>

\* What was sent before may still be read.
HangUp(c) ==
  /\ conn[c] \in {"queued", "served"} /\ c \notin hungup
  /\ hungup' = hungup \cup {c}
  /\ awaiting' = awaiting \ {c}
  /\ UNCHANGED <<listening, stop_requested, backlog, handler, conn, inbox>>
-----------------------------------------------------------------------------
(* Starting and stopping                                                   *)

Start ==
  /\ main = "new"
  /\ main' = "waiting" /\ acceptor' = "check"
  /\ running' = TRUE /\ governor_open' = TRUE
  /\ UNCHANGED <<incoming, failures, stop_requested, backlog, handlers, handler, conn, hungup,
                 inbox, awaiting>>

\* open() or tcp_listen() fails; an open governor is closed again.
StartFails ==
  /\ main = "new"
  /\ main' = "failed"
  /\ UNCHANGED <<acceptor, incoming, failures, running, governor_open, stop_requested, backlog,
                 handlers, handler, conn, hungup, inbox, awaiting>>

\* wait_until_stopped() returns, or the owner calls stop() without it.
Stop(waited) ==
  /\ main = "waiting" /\ (waited => ~running)
  /\ main' = "stop"
  /\ UNCHANGED <<acceptor, incoming, failures, running, governor_open, stop_requested, backlog,
                 handlers, handler, conn, hungup, inbox, awaiting>>

\* request_stop(): only who finds the flag down wakes the accept loop.
MainRequestsStop ==
  /\ main = "stop"
  /\ main' = IF stop_requested THEN "join_acceptor" ELSE "wake"
  /\ stop_requested' = TRUE
  /\ UNCHANGED <<acceptor, incoming, failures, running, governor_open, backlog, handlers,
                 handler, conn, hungup, inbox, awaiting>>

\* Mutant: nobody connects to the listener.
WakeNobody == backlog

\* The self-connection of wake_listener().
Woken == Append(backlog, Wake)

MainWakes ==
  /\ main = "wake"
  /\ main' = "join_acceptor" /\ backlog' = Woken
  /\ UNCHANGED <<acceptor, incoming, failures, running, governor_open, stop_requested,
                 handlers, handler, conn, hungup, inbox, awaiting>>

JoinAcceptor ==
  /\ main = "join_acceptor" /\ acceptor = "exited"
  /\ main' = "join_handlers"
  /\ UNCHANGED <<acceptor, incoming, failures, running, governor_open, stop_requested, backlog,
                 handlers, handler, conn, hungup, inbox, awaiting>>

\* Mutant: the handlers' threads are detached, not joined.
Detached == TRUE

AllFinished == \A c \in handlers : handler[c].pc = "finished"

\* All handlers joined, the listener is closed with what it had not accepted,
\* and then the governor.
JoinHandlers ==
  /\ main = "join_handlers" /\ AllFinished
  /\ main' = "stopped"
  /\ handlers' = {} /\ backlog' = <<>> /\ governor_open' = FALSE
  /\ conn' = [c \in Clients |-> IF conn[c] = "queued" THEN "closed" ELSE conn[c]]
  /\ UNCHANGED <<acceptor, incoming, failures, running, stop_requested, handler, hungup,
                 inbox, awaiting>>
-----------------------------------------------------------------------------
(* The accept loop                                                         *)

CheckStop ==
  /\ acceptor = "check"
  /\ acceptor' = IF stop_requested THEN "leaving" ELSE "accept"
  /\ UNCHANGED <<main, incoming, failures, running, governor_open, stop_requested, backlog,
                 handlers, handler, conn, hungup, inbox, awaiting>>

Accept ==
  /\ acceptor = "accept" /\ backlog # <<>>
  /\ acceptor' = "accepted" /\ incoming' = Head(backlog) /\ failures' = 0
  /\ backlog' = Tail(backlog)
  /\ UNCHANGED <<main, running, governor_open, stop_requested, handlers, handler, conn, hungup,
                 inbox, awaiting>>

\* tcp_accept() fails, taking nothing from the backlog or one broken connection.
AcceptFails ==
  /\ acceptor = "accept"
  /\ LET out == stop_requested \/ failures = accept_failures_allowed
     IN  /\ acceptor' = IF out THEN "leaving" ELSE "check"
         /\ failures' = IF out THEN failures ELSE failures + 1
  /\ UNCHANGED <<main, incoming, running, governor_open, stop_requested, backlog, handlers,
                 handler, conn, hungup, inbox, awaiting>>

\* Close the connection of c, which drops what it sent and never read.
Closing(c) == conn' = [conn EXCEPT ![c] = "closed"]

\* Whoever connected after the flag was raised is taken for the wake connection.
AcceptStopped ==
  /\ acceptor = "accepted" /\ stop_requested
  /\ acceptor' = "leaving" /\ incoming' = None
  /\ IF incoming \in Clients THEN Closing(incoming) ELSE UNCHANGED conn
  /\ UNCHANGED <<main, failures, running, governor_open, stop_requested, backlog, handlers,
                 handler, hungup, inbox, awaiting>>

\* Mutant: entries are reaped whether or not their threads have finished.
ReapAll == {}

\* reap_handlers(): what remains of handlers_.
Unfinished == {c \in handlers : handler[c].pc # "finished"}

AcceptBusy ==
  /\ acceptor = "accepted" /\ ~stop_requested
  /\ Cardinality(Unfinished) >= max_connections
  /\ acceptor' = "check" /\ incoming' = None
  /\ handlers' = Unfinished
  /\ Closing(incoming)
  /\ awaiting' = awaiting \ {incoming}
  /\ UNCHANGED <<main, failures, running, governor_open, stop_requested, backlog, handler,
                 hungup, inbox>>

Spawn ==
  /\ acceptor = "accepted" /\ ~stop_requested
  /\ Cardinality(Unfinished) < max_connections
  /\ acceptor' = "check" /\ incoming' = None
  /\ handlers' = Unfinished \cup {incoming}
  /\ handler' = [handler EXCEPT ![incoming].pc = "hello"]
  /\ conn' = [conn EXCEPT ![incoming] = "served"]
  /\ UNCHANGED <<main, failures, running, governor_open, stop_requested, backlog, hungup,
                 inbox, awaiting>>

LeaveAcceptLoop ==
  /\ acceptor = "leaving"
  /\ acceptor' = "exited" /\ running' = FALSE
  /\ UNCHANGED <<main, incoming, failures, governor_open, stop_requested, backlog, handlers,
                 handler, conn, hungup, inbox, awaiting>>
-----------------------------------------------------------------------------
(* A connection handler                                                    *)

Goto(c, pc) == handler' = [handler EXCEPT ![c].pc = pc]

\* recv_frame() blocks until there is a frame or a reason to fail.  Hanging up
\* may or may not take with it what was not read.
Receives(c) == inbox[c] \notin {None, "Oversized"}

RecvFails(c) == inbox[c] = "Oversized" \/ c \in hungup

\* Before and after the handshake.
RecvEnd(c) ==
  /\ handler[c].pc \in {"hello", "recv"} /\ RecvFails(c)
  /\ Goto(c, "closing")
  /\ UNCHANGED <<listening, stop_requested, backlog, conn, hungup, inbox, awaiting>>

RecvHello(c) ==
  /\ handler[c].pc = "hello" /\ Receives(c)
  /\ handler' = [handler EXCEPT ![c].pc = "calling", ![c].message = inbox[c]]
  /\ inbox' = [inbox EXCEPT ![c] = None]
  /\ UNCHANGED <<listening, stop_requested, backlog, conn, hungup, awaiting>>

CheckStopBeforeRecv(c) ==
  /\ handler[c].pc = "check"
  /\ Goto(c, IF stop_requested THEN "closing" ELSE "recv")
  /\ UNCHANGED <<listening, stop_requested, backlog, conn, hungup, inbox, awaiting>>

\* Mutant: the frame beyond the budget is still handled.
SpentLate(c) == handler[c].frames > max_frames_per_connection

\* The frame in the inbox would be one too many.
Spent(c) == handler[c].frames = max_frames_per_connection

\* A frame of the session; one beyond the budget is refused unread.
Recv(c) ==
  /\ handler[c].pc = "recv" /\ Receives(c)
  /\ inbox' = [inbox EXCEPT ![c] = None]
  /\ IF Spent(c)
     THEN /\ Goto(c, "closing")
          /\ awaiting' = awaiting \ {c}
     ELSE /\ handler' = [handler EXCEPT ![c].pc = "calling", ![c].frames = @ + 1,
                                        ![c].message = inbox[c]]
          /\ UNCHANGED awaiting
  /\ UNCHANGED <<listening, stop_requested, backlog, conn, hungup>>

\* Mutant: a session that goes on does so without an answer.
AnsweredLastOnly(c, next) == IF next = "check" THEN awaiting ELSE awaiting \ {c}

\* Every branch sends a frame; a failed send changes nothing but the next state.
Answered(c, next) == awaiting \ {c}

\* How a call may end: with a session that goes on, or a reject that ends it.
\* The first frame has not been counted and must be a HELLO.
Outcomes(c) ==
  LET m == handler[c].message
      greeted == handler[c].frames > 0
  IN  CASE ~greeted /\ m = "Hello"                      -> {"check", "closing"}
        [] ~greeted /\ m # "Hello"                      -> {"closing"}
        [] greeted /\ m \in {"Hello", "Malformed"}      -> {"closing"}
        [] greeted /\ m = "Evaluate"                    -> {"check", "closing"}
        [] greeted /\ m = "Shutdown"                    -> {"stop"}
        [] greeted /\ m = "Request"                     -> {"check"}

\* The governor is called and the reply sent; the send may fail if the client
\* is gone.  A shutdown closes the connection before it asks for the stop.
Answer(c) ==
  /\ handler[c].pc = "calling"
  /\ \E next \in Outcomes(c) \cup {n \in {"closing"} : c \in hungup /\ "stop" \notin Outcomes(c)} :
       /\ handler' = [handler EXCEPT ![c].pc = next, ![c].message = None]
       /\ awaiting' = Answered(c, next)
       /\ IF next = "stop" THEN Closing(c) ELSE UNCHANGED conn
  /\ UNCHANGED <<listening, stop_requested, backlog, hungup, inbox>>

HandlerRequestsStop(c) ==
  /\ handler[c].pc = "stop"
  /\ Goto(c, IF stop_requested THEN "closing" ELSE "wake")
  /\ stop_requested' = TRUE
  /\ UNCHANGED <<listening, backlog, conn, hungup, inbox, awaiting>>

HandlerWakes(c) ==
  /\ handler[c].pc = "wake"
  /\ Goto(c, "closing")
  /\ backlog' = Woken
  /\ UNCHANGED <<listening, stop_requested, conn, hungup, inbox, awaiting>>

\* The connection goes out of scope, then the finished flag is set.
FinishHandler(c) ==
  /\ handler[c].pc = "closing"
  /\ Goto(c, "finished")
  /\ Closing(c)
  /\ UNCHANGED <<listening, stop_requested, backlog, hungup, inbox, awaiting>>
-----------------------------------------------------------------------------
MainStep ==
  \/ Stop(TRUE) \/ MainRequestsStop \/ MainWakes \/ JoinAcceptor \/ JoinHandlers

AcceptorStep ==
  CheckStop \/ AcceptStopped \/ AcceptBusy \/ Spawn \/ LeaveAcceptLoop

HandlerStep(c) ==
  \/ RecvEnd(c) \/ RecvHello(c) \/ CheckStopBeforeRecv(c) \/ Recv(c) \/ Answer(c)
  \/ HandlerRequestsStop(c) \/ HandlerWakes(c) \/ FinishHandler(c)

ClientStep(c) == Connect(c) \/ (\E m \in Messages : Send(c, m)) \/ HangUp(c)

Finished == main \in {"stopped", "failed"} /\ UNCHANGED vars

Next ==
  \/ Start \/ StartFails \/ Stop(FALSE) \/ MainStep
  \/ AcceptorStep \/ Accept \/ AcceptFails
  \/ \E c \in Clients : HandlerStep(c) \/ ClientStep(c)
  \/ Finished

\* Threads that can run do; clients owe nothing, and accept() need not fail.
Fairness ==
  /\ WF_vars(MainStep) /\ WF_vars(AcceptorStep) /\ WF_vars(Accept)
  /\ \A c \in Clients : WF_vars(HandlerStep(c))

Spec == Init /\ [][Next]_vars /\ Fairness
-----------------------------------------------------------------------------
(* Properties                                                              *)

\* stop() closes the governor while handlers call it from their own threads:
\* none of them, and no accept loop that could start one, may be left.
GovernorOutlivesHandlers ==
  main = "stopped" =>
    /\ acceptor = "exited"
    /\ \A c \in Clients : handler[c].pc \in {"none", "finished"} /\ conn[c] \in {"none", "closed"}

\* max_connections bounds the handler threads that run, over any number of
\* connections made, refused, finished and reaped by the accept loop.
HandlersBounded ==
  Cardinality({c \in Clients : handler[c].pc \notin {"none", "finished"}}) <= max_connections

\* A handler sits in recv_frame() on a client that owes the next word and neither
\* speaks nor hangs up.
Held(c) ==
  /\ handler[c].pc \in {"hello", "recv"} /\ inbox[c] = None
  /\ c \notin hungup \cup awaiting

\* A stop that was asked for, by the owner or by a SHUTDOWN, and the end of the
\* accept loop after repeated failures, all end with the coordinator stopped:
\* the self-connection wakes the accept loop whoever raised the flag first, and
\* every join returns.  The one way out is a silent client, which stop() waits
\* for without limit.
StopReturns ==
  \/ (stop_requested \/ (main = "waiting" /\ ~running)) ~> (main = "stopped")
  \/ \E c \in Clients : <>[]Held(c)

\* Whatever a client asks for is answered or its connection is closed, also when
\* it was still waiting to be accepted, was refused, spent its frames or met a
\* stop, unless a silent client holds up the stop.
RequestsAnswered ==
  \/ \A c \in Clients : (c \in awaiting) ~> (c \notin awaiting \/ conn[c] = "closed")
  \/ \E c \in Clients : <>[]Held(c)
=============================================================================
