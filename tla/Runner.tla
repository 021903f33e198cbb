-------------------------------- MODULE Runner --------------------------------
(***************************************************************************)
(* One call of a CLI (core/runner.py, _execute): the thread that runs it,   *)
(* its two reader threads and its writer thread, the processes that come of *)
(* the CLI, the cancel event and the deadline.                              *)
(*                                                                         *)
(* Time is abstract: a wait with a limit may give up whenever what it waits *)
(* for is not there.  A process is a member of the tracked unit ("inside")  *)
(* or not; signals reach the unit, and a signalled process ends when the    *)
(* system lets it.  A pipe is the set of processes that hold its other end. *)
(* What is read, its limit and the marks in it are left out; a pipe that    *)
(* fails while it is read is not modelled.  That the group of bubblewrap is *)
(* empty only when its PID namespace is, the code takes for granted         *)
(* (runner.py:58-60), and so does the module: Left stands for both.         *)
(***************************************************************************)
EXTENDS Naturals, FiniteSets

CONSTANTS
  Proc,         \* process identifiers, none used twice
  Cli,          \* the process Popen starts
  Units,        \* the units a call may be tracked by: a job on Windows, elsewhere
                \* a process group or, asked for by core/isolation.py, a PID namespace
  EarlyFork,    \* whether a process may start another one before it is put into its job
  HasInput,     \* stdin_text is given
  Chunks,       \* how many pieces the input is written in
  ThreadFaults  \* whether an I/O thread may fail to start

Tracked == {"job_object", "process_group", "pid_namespace"}

\* WHOLE_TREE
WholeTree == {"job_object", "pid_namespace"}

ASSUME RunnerAssumption ==
  /\ IsFiniteSet(Proc)
  /\ Cli \in Proc
  /\ Units \subseteq Tracked
  /\ EarlyFork \in BOOLEAN
  /\ HasInput \in BOOLEAN
  /\ Chunks \in Nat
  /\ ThreadFaults \in BOOLEAN

Readers == {"out", "err"}

Stream == Readers \union {"in"}

\* The streams that get a thread.
Piped == IF HasInput THEN Stream ELSE Readers

VARIABLES
  (* The calling thread. *)
  pc,         \* where it is
  reason,     \* why it cut the call off, "none" if it did not
  tracking,   \* _Tree.containment, "none" if the tree is not tracked
  confirmed,  \* unit_confirmed_empty: "yes", "no", or "none" for None
  delivery,   \* input_delivery
  state,      \* RunResult.state
  (* Its I/O threads. *)
  thread,     \* of every stream: not started, running or ended
  wrote,      \* what the writer has written, in chunks
  writing,    \* the writer has looked at the cancel event and is about to write
  failed,     \* _Writer.error is set
  lingering,  \* members of _LINGERING
  (* The processes and the caller's side. *)
  alive,      \* processes that run
  inside,     \* members of the tracked unit, ever
  doomed,     \* processes that were told to end
  known,      \* processes that ever ran
  holds,      \* of every stream: the processes that hold its other end
  cancel,     \* the cancel event
  expired,    \* the deadline has passed
  late        \* chunks written after the cancel event was set

caller == <<pc, reason, tracking, confirmed, delivery, state>>
threads == <<thread, wrote, writing, failed, lingering>>
world == <<alive, inside, doomed, known, holds>>
signals == <<cancel, expired>>
vars == <<caller, threads, world, signals, late>>

TypeOK ==
  /\ pc \in {"idle", "assign", "start", "poll", "look", "drain", "kill", "confirm", "out", "err", "in", "returned"}
  /\ reason \in {"none", "aborted", "cancelled", "timed_out"}
  /\ tracking \in Tracked \union {"none"}
  /\ confirmed \in {"yes", "no", "none"}
  /\ delivery \in {"none", "complete", "failed", "incomplete"}
  /\ state \in {"none", "exited", "timed_out", "cancelled", "unknown", "failed_to_start", "aborted"}
  /\ thread \in [Stream -> {"none", "running", "ended"}]
  /\ wrote \in 0..Chunks
  /\ writing \in BOOLEAN
  /\ failed \in BOOLEAN
  /\ lingering \subseteq Stream
  /\ alive \subseteq known
  /\ inside \subseteq known
  /\ doomed \subseteq known
  /\ known \subseteq Proc
  /\ holds \in [Stream -> SUBSET alive]
  /\ cancel \in BOOLEAN
  /\ expired \in BOOLEAN
  /\ late \in 0..Chunks

Init ==
  /\ pc = "idle"
  /\ reason = "none"
  /\ tracking = "none"
  /\ confirmed = "none"
  /\ delivery = "none"
  /\ state = "none"
  /\ thread = [s \in Stream |-> "none"]
  /\ wrote = 0
  /\ writing = FALSE
  /\ failed = FALSE
  /\ lingering = {}
  /\ alive = {}
  /\ inside = {}
  /\ doomed = {}
  /\ known = {}
  /\ holds = [s \in Stream |-> {}]
  /\ cancel = FALSE
  /\ expired = FALSE
  /\ late = 0

-----------------------------------------------------------------------------
(* Starting the process and its threads.                                     *)

\* A cancel that is already set, or a process that cannot be made.
NotStarted ==
  /\ pc = "idle"
  /\ pc' = "returned"
  /\ state' = "failed_to_start"
  /\ confirmed' = "yes"
  /\ UNCHANGED <<reason, tracking, delivery, threads, world, signals, late>>

\* A new session is the unit from the start; a job is not yet.
Spawn ==
  /\ pc = "idle" /\ ~cancel
  /\ alive' = {Cli} /\ known' = {Cli}
  /\ holds' = [s \in Stream |-> IF s \in Piped THEN {Cli} ELSE {}]
  /\ \/ "job_object" \in Units /\ pc' = "assign" /\ UNCHANGED <<tracking, inside>>
     \/ \E u \in Units \ {"job_object"} : pc' = "start" /\ tracking' = u /\ inside' = {Cli}
  /\ UNCHANGED <<reason, confirmed, delivery, state, threads, doomed, signals, late>>

\* The CLI is put into a job, or it cannot be and nothing is tracked.
Assign ==
  /\ pc = "assign"
  /\ pc' = "start"
  /\ \/ Cli \in alive /\ tracking' = "job_object" /\ inside' = {Cli}
     \/ UNCHANGED <<tracking, inside>>
  /\ UNCHANGED <<reason, confirmed, delivery, state, threads, alive, doomed, known, holds, signals, late>>

\* The threads are started in this order.
Before(s) == CASE s = "out" -> {} [] s = "err" -> {"out"} [] OTHER -> Readers

StartThread(s) ==
  /\ pc = "start"
  /\ s \in Piped /\ thread[s] = "none" /\ \A r \in Before(s) : thread[r] # "none"
  /\ thread' = [thread EXCEPT ![s] = "running"]
  /\ pc' = IF \A r \in Piped : thread'[r] # "none" THEN "poll" ELSE "start"
  /\ UNCHANGED <<reason, tracking, confirmed, delivery, state, wrote, writing, failed, lingering, world, signals, late>>

\* Fault: the call is told of as one that has not started.
StartFailsUnstarted ==
  /\ pc = "start" /\ ThreadFaults
  /\ pc' = "returned"
  /\ state' = "failed_to_start"
  /\ UNCHANGED <<reason, tracking, confirmed, delivery, threads, world, signals, late>>

StartFails ==
  /\ pc = "start" /\ ThreadFaults
  /\ pc' = "kill"
  /\ reason' = "aborted"
  /\ UNCHANGED <<tracking, confirmed, delivery, state, threads, world, signals, late>>

-----------------------------------------------------------------------------
(* Watching the CLI.                                                         *)

Poll ==
  /\ pc = "poll"
  /\ pc' = IF Cli \in alive THEN "look" ELSE "drain"
  /\ UNCHANGED <<reason, tracking, confirmed, delivery, state, threads, world, signals, late>>

Look ==
  /\ pc = "look"
  /\ reason' = IF cancel THEN "cancelled" ELSE IF expired THEN "timed_out" ELSE "none"
  /\ pc' = IF reason' = "none" THEN "poll" ELSE "kill"
  /\ UNCHANGED <<tracking, confirmed, delivery, state, threads, world, signals, late>>

-----------------------------------------------------------------------------
(* Ending the tree and confirming that it has ended.                         *)

Left == alive \intersect inside

\* _Tree.kill: the unit, or what taskkill reaches before it gives up.
Kill ==
  \E ps \in IF tracking # "none" THEN {Left} ELSE SUBSET alive : doomed' = doomed \union ps

\* Fault: what outlives the CLI is left to itself.
DrainOnly ==
  /\ pc = "drain"
  /\ pc' = "confirm"
  /\ UNCHANGED <<reason, tracking, confirmed, delivery, state, threads, world, signals, late>>

\* The CLI has ended by itself: what outlives it is ended too, if it can be seen.
Drain ==
  /\ pc = "drain"
  /\ pc' = "confirm"
  /\ IF tracking # "none" /\ Left # {} THEN Kill ELSE UNCHANGED doomed
  /\ UNCHANGED <<reason, tracking, confirmed, delivery, state, threads, alive, inside, known, holds, signals, late>>

CutOff ==
  /\ pc = "kill"
  /\ pc' = "confirm"
  /\ Kill
  /\ UNCHANGED <<reason, tracking, confirmed, delivery, state, threads, alive, inside, known, holds, signals, late>>

\* Fault: the end of the CLI is taken for the end of the unit.
UnitOfCli == IF tracking = "none" THEN "none" ELSE "yes"

\* _Tree.confirm_empty once its wait is over.
UnitEmpty == IF tracking = "none" THEN "none" ELSE IF Left = {} THEN "yes" ELSE "no"

\* Closing a job ends what is left in it.
Confirm ==
  /\ pc = "confirm"
  /\ pc' = "out"
  /\ confirmed' = IF Cli \in alive THEN "no" ELSE UnitEmpty
  /\ doomed' = IF tracking = "job_object" THEN doomed \union Left ELSE doomed
  /\ UNCHANGED <<reason, tracking, delivery, state, threads, alive, inside, known, holds, signals, late>>

-----------------------------------------------------------------------------
(* Joining the threads.                                                      *)

AfterJoin(s) == IF s = "out" THEN "err" ELSE "in"

Joined(s) ==
  /\ pc = s
  /\ pc' = AfterJoin(s)
  /\ thread[s] # "running"
  /\ UNCHANGED <<reason, tracking, confirmed, delivery, state, threads, world, signals, late>>

\* Fault: a reader left behind does not spoil the confirmation.
JoinTimesOutQuietly(s) ==
  /\ pc = s
  /\ pc' = AfterJoin(s)
  /\ thread[s] = "running"
  /\ lingering' = lingering \union {s}
  /\ UNCHANGED <<reason, tracking, confirmed, delivery, state, thread, wrote, writing, failed, world, signals, late>>

\* Fault: the call waits for its readers without a limit.
JoinForever(s) == FALSE

JoinTimesOut(s) ==
  /\ pc = s
  /\ pc' = AfterJoin(s)
  /\ thread[s] = "running"
  /\ confirmed' = "no"
  /\ lingering' = lingering \union {s}
  /\ UNCHANGED <<reason, tracking, delivery, state, thread, wrote, writing, failed, world, signals, late>>

\* Fault: only readers are counted as left behind.
LeftBehindReading == lingering

LeftBehind == lingering \union IF thread["in"] = "running" THEN {"in"} ELSE {}

\* The writer's account of the input, and the state of the result.
Return ==
  /\ pc = "in"
  /\ pc' = "returned"
  /\ delivery' = IF ~HasInput THEN "none"
                 ELSE IF thread["in"] = "running" THEN "incomplete"
                 ELSE IF thread["in"] = "ended" /\ ~failed /\ wrote = Chunks THEN "complete" ELSE "failed"
  /\ lingering' = LeftBehind
  /\ state' = IF confirmed # "yes" THEN "unknown" ELSE IF reason = "none" THEN "exited" ELSE reason
  /\ UNCHANGED <<reason, tracking, confirmed, thread, wrote, writing, failed, world, signals, late>>

-----------------------------------------------------------------------------
(* The I/O threads.                                                          *)

\* A reader reads until nothing holds the other end.
ReaderEnds(s) ==
  /\ s \in Readers
  /\ thread[s] = "running" /\ holds[s] = {}
  /\ thread' = [thread EXCEPT ![s] = "ended"]
  /\ UNCHANGED <<caller, wrote, writing, failed, lingering, world, signals, late>>

\* Fault: the writer goes on when all of its input is written.
WriterAsksAgain ==
  /\ thread["in"] = "running" /\ ~writing /\ wrote <= Chunks /\ ~cancel
  /\ writing' = TRUE
  /\ UNCHANGED <<caller, thread, wrote, failed, lingering, world, signals, late>>

\* Fault: the writer does not look at the cancel event.
WriterAsksBlind ==
  /\ thread["in"] = "running" /\ ~writing /\ wrote < Chunks
  /\ writing' = TRUE
  /\ UNCHANGED <<caller, thread, wrote, failed, lingering, world, signals, late>>

\* The next chunk is to be written unless the call is cancelled.
WriterAsks ==
  /\ thread["in"] = "running" /\ ~writing /\ wrote < Chunks /\ ~cancel
  /\ writing' = TRUE
  /\ UNCHANGED <<caller, thread, wrote, failed, lingering, world, signals, late>>

\* A chunk goes into the pipe, which nobody may read.
WriterWrites ==
  /\ writing /\ holds["in"] # {}
  /\ writing' = FALSE
  /\ wrote' = wrote + 1
  /\ late' = IF cancel THEN late + 1 ELSE late
  /\ UNCHANGED <<caller, thread, failed, lingering, world, signals>>

\* All is written, the call is cancelled, or the pipe is broken.
WriterEnds ==
  /\ thread["in"] = "running"
  /\ \/ ~writing /\ wrote = Chunks /\ UNCHANGED failed
     \/ ~writing /\ wrote < Chunks /\ cancel /\ failed' = TRUE
     \/ writing /\ holds["in"] = {} /\ failed' = TRUE
  /\ thread' = [thread EXCEPT !["in"] = "ended"]
  /\ writing' = FALSE
  /\ UNCHANGED <<caller, wrote, lingering, world, signals, late>>

-----------------------------------------------------------------------------
(* The processes and the caller's side.                                      *)

\* A process stays in the unit of its parent.
Fork(q, p) ==
  /\ pc = "assign" => EarlyFork
  /\ q \in alive \ doomed /\ p \in Proc \ known
  /\ alive' = alive \union {p} /\ known' = known \union {p}
  /\ inside' = IF q \in inside THEN inside \union {p} ELSE inside
  /\ holds' = [s \in Stream |-> IF q \in holds[s] THEN holds[s] \union {p} ELSE holds[s]]
  /\ UNCHANGED <<caller, threads, doomed, signals, late>>

\* A new session leaves the group; a job and a namespace cannot be left.
Leave(p) ==
  /\ tracking = "process_group"
  /\ p \in Left \ (doomed \union {Cli})
  /\ inside' = inside \ {p}
  /\ UNCHANGED <<caller, threads, alive, doomed, known, holds, signals, late>>

CloseStream(p, s) ==
  /\ p \in holds[s]
  /\ holds' = [holds EXCEPT ![s] = @ \ {p}]
  /\ UNCHANGED <<caller, threads, alive, inside, doomed, known, signals, late>>

Die(p) ==
  /\ p \in alive
  /\ alive' = alive \ {p}
  /\ holds' = [s \in Stream |-> holds[s] \ {p}]
  /\ UNCHANGED <<caller, threads, inside, doomed, known, signals, late>>

\* The controller cancels.
Cancel ==
  /\ ~cancel /\ cancel' = TRUE
  /\ UNCHANGED <<caller, threads, world, expired, late>>

\* The deadline passes.
Expire ==
  /\ ~expired /\ expired' = TRUE
  /\ UNCHANGED <<caller, threads, world, cancel, late>>

-----------------------------------------------------------------------------
CallStep ==
  \/ NotStarted \/ Spawn \/ Assign \/ StartFails \/ Poll \/ Look \/ Drain \/ CutOff \/ Confirm \/ Return
  \/ \E s \in Stream : StartThread(s)
  \/ \E s \in Readers : Joined(s) \/ JoinTimesOut(s)

ThreadStep == WriterAsks \/ WriterWrites \/ WriterEnds \/ \E s \in Readers : ReaderEnds(s)

ProcessStep ==
  \/ \E q, p \in Proc : Fork(q, p)
  \/ \E p \in Proc : Leave(p) \/ Die(p) \/ \E s \in Stream : CloseStream(p, s)

Next == CallStep \/ ThreadStep \/ ProcessStep \/ Cancel \/ Expire

Spec == Init /\ [][Next]_vars

-----------------------------------------------------------------------------
(* Properties.                                                               *)

\* RunResult.tree_confirmed_empty is True.
TreeConfirmed == state = "failed_to_start" \/ (confirmed = "yes" /\ tracking \in WholeTree)

\* What acceptance() (app/domain.py) and interpret() (core/adapters.py) ask of the
\* runner before an answer is looked at.
Acceptable == TreeConfirmed /\ state = "exited" /\ delivery = "complete"

\* A call whose tree is confirmed empty has no process left, in the unit or out
\* of it, however its CLI forked and ended (runner.py:22-26).
ConfirmedIsOver == pc = "returned" /\ TreeConfirmed => alive = {}

\* An answer that may be accepted is the whole output of a CLI that was sent
\* the whole input and ended by itself (runner.py:424-465).
AnswerIsWhole ==
  pc = "returned" /\ Acceptable =>
    /\ wrote = Chunks /\ ~failed
    /\ \A s \in Readers : thread[s] = "ended"
    /\ Cli \notin alive \union doomed

\* What is left of a tracked unit when the call returns has been told to end,
\* what outlived the CLI included (runner.py:410-419).
UnitEnded == pc = "returned" /\ tracking # "none" => Left \subseteq doomed

\* Every I/O thread that outlives its call is counted by lingering(), on which
\* the controller's hold depends (runner.py:227-235).
ThreadsCounted == pc = "returned" => {s \in Stream : thread[s] = "running"} \subseteq lingering

\* After a cancel at most the chunk that was being written is still sent
\* (runner.py:204-207).
CancelStopsInput == late <= 1

\* When a call returns, its answer is the whole one or none, its unit has been
\* told to end, its threads are over or counted, and a cancel was heard at once.
CallSound == TypeOK /\ AnswerIsWhole /\ UnitEnded /\ ThreadsCounted /\ CancelStopsInput

\* The abstract call: what the coordinator may conclude from an outcome.
tree == IF known = {} THEN "none" ELSE IF alive = {} THEN "gone" ELSE "alive"

answer == IF pc # "returned" THEN "pending" ELSE IF TreeConfirmed THEN "over" ELSE "unsure"

Outcome == INSTANCE CallOutcome

\* The call keeps the promise of CallOutcome.
KeepsPromise == Outcome!OSpec

\* The steps of the calling thread and the clock; nothing is asked of processes
\* or of the other threads.
Fairness == WF_vars(CallStep) /\ WF_vars(Expire)

FairSpec == Spec /\ Fairness

\* A call returns, even if nothing it started ever ends (runner.py:17, 72).
CallsReturn == <>(pc = "returned")

=============================================================================
