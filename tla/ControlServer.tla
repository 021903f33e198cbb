----------------------------- MODULE ControlServer -----------------------------
(***************************************************************************)
(* The HTTP server of the controller and how it stops (app/server.py).  One   *)
(* thread accepts connections; each gets a thread of its own and a timer.     *)
(* The thread of the server leaves its loop at an interrupt, or when the watch *)
(* of the launcher asks it to, closes the controller to new calls, waits for   *)
(* the threads of connections, then for the calls that run, and closes the     *)
(* ledger.  An interrupt is an exception in that thread, wherever it is.       *)
(*                                                                         *)
(* A connection carries one request, what is left of it is closed.  What a    *)
(* command does is left to the other modules: here it may change the ledger   *)
(* and start a call.  Calls are counted as one: some run or none.            *)
(***************************************************************************)
EXTENDS Integers, FiniteSets

CONSTANTS
  Connection,     \* connections of clients, each used once
  MaxConnections, \* _Server.max_connections
  MaxInterrupts   \* bound: signals that are taken

VARIABLES
  (* Connections and their threads. *)
  phase,       \* what the thread of each connection is doing
  request,     \* what the client of each sends
  socket,      \* connections whose socket is open
  timer,       \* connections whose deadline is pending
  threads,     \* connections whose thread is known to server_close
  slots,       \* free slots of the bounded semaphore
  accepting,   \* the connection process_request is at, if any
  (* The server and the controller. *)
  server,      \* where the thread of the server is
  interrupts,  \* SIGINT, SIGTERM and SIGHUP taken so far
  shutdown,    \* server.shutdown() was called
  raised,      \* an exception is on its way out of serve_until_stopped
  closing,     \* Runtime.closing
  working,     \* a call runs
  unsettled,   \* a call ended without its tree being confirmed empty
  ledger,      \* the ledger is open
  code         \* the exit code, 9 for none yet

connections == <<phase, request, socket, timer, threads, slots, accepting>>
stopping == <<interrupts, shutdown, raised>>
controller == <<closing, working, unsettled>>
vars == <<connections, server, stopping, controller, ledger, code>>

\* What its gates look at: whether Host, Origin and token are right, and whether a body is framed and as long as told.
Request == {q \in [method : {"GET", "POST"}, allowed : BOOLEAN, whole : BOOLEAN] : q.method = "GET" => q.whole}

InThread == {"guarding", "reading", "acting", "replying", "ending"}

\* From acquire to release: the slot taken, the thread made and listed, the thread begun, and all it does.
HasSlot == {"taken", "listed", "started"} \union InThread

Init ==
  /\ phase = [c \in Connection |-> "new"]
  /\ request \in [Connection -> Request]
  /\ socket = {} /\ timer = {} /\ threads = {}
  /\ slots = MaxConnections
  /\ accepting = {}
  /\ server = "serving"
  /\ interrupts = 0 /\ shutdown = FALSE /\ raised = FALSE
  /\ closing = FALSE /\ working = FALSE /\ unsettled = FALSE
  /\ ledger = TRUE
  /\ code = 9

Go(c, where) == phase' = [phase EXCEPT ![c] = where]

-----------------------------------------------------------------------------
(* The thread that accepts (process_request, with what is around it in the     *)
(* standard library).                                                        *)

\* The loop is left between two connections only.
Idle == server = "serving" /\ accepting = {}

\* All slots are taken: the connection is closed unanswered.
TurnAway(c) ==
  /\ Idle
  /\ phase[c] = "new"
  /\ slots = 0
  /\ Go(c, "never")
  /\ UNCHANGED <<request, socket, timer, threads, slots, accepting, server, stopping, controller, ledger, code>>

Accept(c) ==
  /\ Idle
  /\ phase[c] = "new"
  /\ slots > 0
  /\ slots' = slots - 1
  /\ socket' = socket \union {c}
  /\ accepting' = {c}
  /\ Go(c, "taken")
  /\ UNCHANGED <<request, timer, threads, server, stopping, controller, ledger, code>>

\* The threads the list takes for alive: those that have said that they run.  (One that is over may still be, for a moment.)
Alive == {d \in Connection : phase[d] \in InThread}

\* A thread is made and put on the list; those that have ended are taken off it.
List(c) ==
  /\ server = "serving"
  /\ phase[c] = "taken"
  /\ threads' = (threads \intersect Alive) \union {c}
  /\ Go(c, "listed")
  /\ UNCHANGED <<request, socket, timer, slots, accepting, server, stopping, controller, ledger, code>>

\* The system begins the thread, which has not said so yet.
Start(c) ==
  /\ server = "serving"
  /\ phase[c] = "listed"
  /\ Go(c, "started")
  /\ UNCHANGED <<request, socket, timer, threads, slots, accepting, server, stopping, controller, ledger, code>>

\* No thread can be started.
StartFails(c) ==
  /\ server = "serving"
  /\ phase[c] = "listed"
  /\ server' = "failing"
  /\ UNCHANGED <<connections, stopping, controller, ledger, code>>

\* The thread has said that it runs.
Accepted(c) ==
  /\ server = "serving"
  /\ accepting = {c} /\ phase[c] \in InThread \union {"over"}
  /\ accepting' = {}
  /\ UNCHANGED <<phase, request, socket, timer, threads, slots, server, stopping, controller, ledger, code>>

\* process_request is left by an exception: the socket is shut, and a thread that was not begun never will be.
Leave(c) ==
  /\ accepting' = {}
  /\ socket' = socket \ {c}
  /\ Go(c, IF phase[c] \in {"taken", "listed"} THEN "never" ELSE phase[c])

\* Fault: the thread that was not started stays on the list.
ReleaseListed(c) ==
  /\ server \in {"failing", "unwinding"} /\ accepting = {c}
  /\ Leave(c)
  /\ slots' = IF slots < MaxConnections THEN slots + 1 ELSE slots
  /\ server' = IF server = "failing" \/ slots = MaxConnections THEN "serving" ELSE "stopping"
  /\ UNCHANGED <<request, timer, threads, stopping, controller, ledger, code>>

\* The branch of BaseException: the list is reaped and the slot given back, also where a thread does so itself.  If
\* all slots are free already that is an error of its own, which takes the place of the interrupt; the loop goes on.
Release(c) ==
  /\ server \in {"failing", "unwinding"} /\ accepting = {c}
  /\ Leave(c)
  /\ threads' = threads \intersect Alive
  /\ slots' = IF slots < MaxConnections THEN slots + 1 ELSE slots
  /\ server' = IF server = "failing" \/ slots = MaxConnections THEN "serving" ELSE "stopping"
  /\ UNCHANGED <<request, timer, stopping, controller, ledger, code>>

-----------------------------------------------------------------------------
(* The thread of a connection.                                               *)

\* The thread says that it runs, and starts its timer.
Begin(c) ==
  /\ phase[c] = "started"
  /\ timer' = timer \union {c}
  /\ Go(c, "guarding")
  /\ UNCHANGED <<request, socket, threads, slots, accepting, server, stopping, controller, ledger, code>>

\* The timer cannot be started.
NoTimer(c) ==
  /\ phase[c] = "started"
  /\ Go(c, "ending")
  /\ UNCHANGED <<request, socket, timer, threads, slots, accepting, server, stopping, controller, ledger, code>>

Guard(c) ==
  /\ phase[c] = "guarding"
  /\ Go(c, IF ~request[c].allowed THEN "replying" ELSE IF request[c].method = "GET" THEN "acting" ELSE "reading")
  /\ UNCHANGED <<request, socket, timer, threads, slots, accepting, server, stopping, controller, ledger, code>>

\* A body that stalls keeps the thread until the idle limit or the deadline.
Read(c) ==
  /\ phase[c] = "reading"
  /\ Go(c, IF request[c].whole THEN "acting" ELSE "replying")
  /\ UNCHANGED <<request, socket, timer, threads, slots, accepting, server, stopping, controller, ledger, code>>

\* Fault: a command is carried out as if the controller were not closing.
MayCall == TRUE

\* Commands that start a call are refused once the controller closes.
Calls == ~closing

\* A view or a command; one that finds the ledger closed fails, and the thread with it.
Act(c) ==
  /\ phase[c] = "acting"
  /\ \/ UNCHANGED working
     \/ ledger /\ request[c].method = "POST" /\ Calls /\ working' = TRUE
  /\ Go(c, IF ledger THEN "replying" ELSE "ending")
  /\ UNCHANGED <<request, socket, timer, threads, slots, accepting, server, stopping, closing, unsettled, ledger, code>>

\* The answer is written, or cannot be because the socket is shut.
Reply(c) ==
  /\ phase[c] = "replying"
  /\ Go(c, "ending")
  /\ UNCHANGED <<request, socket, timer, threads, slots, accepting, server, stopping, controller, ledger, code>>

\* The deadline: the socket is shut, so that no read or write waits any longer.
Expire(c) ==
  /\ c \in timer
  /\ timer' = timer \ {c}
  /\ socket' = socket \ {c}
  /\ UNCHANGED <<phase, request, threads, slots, accepting, server, stopping, controller, ledger, code>>

\* A read of a shut socket ends the thread.
CutOff(c) ==
  /\ phase[c] \in {"guarding", "reading"}
  /\ c \notin socket
  /\ Go(c, "ending")
  /\ UNCHANGED <<request, socket, timer, threads, slots, accepting, server, stopping, controller, ledger, code>>

\* A slot the thread of the server has given back as well may be one too many: an error nobody hears of.
Finish(c) ==
  /\ phase[c] = "ending"
  /\ timer' = timer \ {c}
  /\ socket' = socket \ {c}
  /\ slots' = IF slots < MaxConnections THEN slots + 1 ELSE slots
  /\ Go(c, "over")
  /\ UNCHANGED <<request, threads, accepting, server, stopping, controller, ledger, code>>

-----------------------------------------------------------------------------
(* Stopping (serve_until_stopped).                                           *)

\* _interrupt, wherever the thread of the server is.  In its loop it ends the loop; in process_request it takes the way of
\* an exception.  Before its try the slot is lost, after it only the socket is shut, in its branch of exceptions what is left
\* of that is not done.
InterruptServing ==
  /\ \/ Idle /\ server' = "stopping" /\ UNCHANGED connections
     \/ \E c \in accepting :
          \/ server = "serving" /\ phase[c] # "taken" /\ server' = "unwinding" /\ UNCHANGED connections
          \/ /\ \/ server = "serving" /\ phase[c] \notin {"listed", "started"} /\ UNCHANGED threads
                \/ server \in {"failing", "unwinding"} /\ threads' \in {threads, threads \intersect Alive}
             /\ Leave(c)
             /\ server' = "stopping"
             /\ UNCHANGED <<request, timer, slots>>
  /\ UNCHANGED <<raised, closing, ledger, code>>

\* On the way out: the next statement is the outer or the inner finally, or nothing any more.
InterruptStopping ==
  /\ raised' = TRUE
  /\ \/ /\ server = "stopping" /\ server' = "ended" /\ code' = 1
        /\ closing' \in {closing, TRUE} /\ UNCHANGED ledger
     \/ server = "joining" /\ server' = "settling" /\ UNCHANGED <<closing, ledger, code>>
     \/ /\ server \in {"settling", "leaving", "closing"} /\ server' = "ended" /\ code' = 1
        /\ ledger' \in {ledger, server # "closing"} /\ UNCHANGED closing
  /\ UNCHANGED connections

Interrupt ==
  /\ interrupts < MaxInterrupts
  /\ interrupts' = interrupts + 1
  /\ InterruptServing \/ InterruptStopping
  /\ UNCHANGED <<shutdown, working, unsettled>>

\* launch._watch: nothing runs, the loop shall end.
Watch ==
  /\ server \in {"serving", "failing", "unwinding"}
  /\ ~working /\ ~shutdown
  /\ shutdown' = TRUE
  /\ UNCHANGED <<connections, server, interrupts, raised, controller, ledger, code>>

LeaveLoop ==
  /\ Idle /\ shutdown
  /\ server' = "stopping"
  /\ UNCHANGED <<connections, stopping, controller, ledger, code>>

\* controller.shutdown(timeout=0)
CloseController ==
  /\ server = "stopping"
  /\ closing' = TRUE
  /\ server' = "joining"
  /\ UNCHANGED <<connections, stopping, working, unsettled, ledger, code>>

\* server_close
Join ==
  /\ server = "joining"
  /\ \A c \in threads : phase[c] = "over"
  /\ server' = "settling"
  /\ UNCHANGED <<connections, stopping, controller, ledger, code>>

\* A thread that was never started cannot be waited for; those after it on the list are not.
JoinFails ==
  /\ server = "joining"
  /\ \E c \in threads : phase[c] = "never"
  /\ server' = "settling"
  /\ raised' = TRUE
  /\ UNCHANGED <<connections, interrupts, shutdown, controller, ledger, code>>

\* A cancelled call ends, its tree confirmed empty or not.
CallEnds ==
  /\ working
  /\ working' = FALSE
  /\ unsettled' \in {unsettled, TRUE}
  /\ UNCHANGED <<connections, server, stopping, closing, ledger, code>>

\* The last wait is limited, so that a call may still run.
Settle ==
  /\ server = "settling"
  /\ server' = IF working THEN "leaving" ELSE "closing"
  /\ UNCHANGED <<connections, stopping, controller, ledger, code>>

\* A call that still runs keeps the ledger open; whatever was raised goes on.
End ==
  /\ server \in {"leaving", "closing"}
  /\ ledger' = (server = "leaving")
  /\ code' = IF server = "closing" /\ ~unsettled /\ ~raised THEN 0 ELSE 1
  /\ server' = "ended"
  /\ UNCHANGED <<connections, stopping, controller>>

Next ==
  \/ Interrupt \/ Watch \/ LeaveLoop \/ CloseController \/ Join \/ JoinFails \/ CallEnds \/ Settle \/ End
  \/ \E c \in Connection :
       \/ TurnAway(c) \/ Accept(c) \/ List(c) \/ Start(c) \/ StartFails(c) \/ Accepted(c) \/ Release(c)
       \/ Begin(c) \/ NoTimer(c) \/ Guard(c) \/ Read(c) \/ Act(c) \/ Reply(c) \/ Expire(c) \/ CutOff(c) \/ Finish(c)

Spec == Init /\ [][Next]_vars

-----------------------------------------------------------------------------
(* Properties.                                                               *)

\* The connections that hold a slot, and the threads of connections that run.
Served == {c \in Connection : phase[c] \in HasSlot}

Running == {c \in Connection : phase[c] \in {"started"} \union InThread}

(***************************************************************************)
(* As long as the server accepts, every slot is free or held by one            *)
(* connection, whatever fails and whatever interrupt it survives, and no        *)
(* thread that was never started is on the list server_close waits for; an      *)
(* interrupt that ends it may leave one slot too many or too few, which nobody *)
(* takes any more.  A connection that is over has neither socket nor deadline.  *)
(* The ledger is closed after its last use: no call runs and none starts any    *)
(* more and, unless an exception goes on, every thread of a connection is over, *)
(* but for the one an interrupt may have met while it was being started.  The   *)
(* server says 0 only after a whole end with nothing unsettled                 *)
(* (process_request, process_request_thread, serve_until_stopped).            *)
(***************************************************************************)
ServerEndsWhole ==
  /\ slots + Cardinality(Served) - MaxConnections \in (IF server = "serving" THEN {0} ELSE {-1, 0, 1})
  /\ \A c \in Connection : phase[c] \in {"never", "over"} => c \notin socket \union timer
  /\ server = "serving" => \A c \in threads : phase[c] # "never"
  /\ ~ledger => /\ ~working
                /\ ~raised => \A c, d \in Running : c = d
                /\ interrupts = 0 => Running = {}
  /\ code = 0 => ~ledger /\ ~unsettled /\ ~raised

=============================================================================
