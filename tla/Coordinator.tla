----------------------------- MODULE Coordinator -----------------------------
(***************************************************************************)
(* The execution coordinator (app/execution/coordinator.py) with the parts  *)
(* it drives: the participant rows and their one transition path            *)
(* (repository.py), the reservation ledger and the slot count               *)
(* (execution/invocations.py), run creation (application/work.py) and the   *)
(* recovery done by a controller that opens an existing ledger              *)
(* (controller.py).                                                         *)
(*                                                                         *)
(* One process owns the ledger.  Inside it, request threads and one worker  *)
(* thread per attempt share the runtime lock; every handler below is one    *)
(* section of code that holds the lock, so an action is a whole handler.    *)
(* Three things are not atomic and are modelled as the steps they are:      *)
(*   - a command commits, releases the lock and only then calls pump(), so  *)
(*     other threads may take the lock in between ("owed" counts the pumps  *)
(*     still to come);                                                      *)
(*   - pump() starts several participants, each with a transaction followed *)
(*     by a thread start, and the process may die between any two of them   *)
(*     ("batch" and "taken" are its progress; the lock is held meanwhile);  *)
(*   - a worker thread runs the CLI without the lock, then stores the       *)
(*     result, and in a later lock section deregisters itself and pumps.    *)
(*                                                                         *)
(* The ledger survives a crash; the runtime does not.  The module speaks of *)
(* the calls that answer a run: model calls for planning, reviewing and     *)
(* synthesis share the same lock, slots and reservations and get modules of *)
(* their own, and with none of them in the ledger the review step of pump() *)
(* has nothing to do.                                                       *)
(***************************************************************************)
EXTENDS RunGate

CONSTANTS
  Row,             \* rowid of a participant: the order pump() serves a run's members in
  Adapter,         \* ParticipantSpec.adapter_id of the CLI participants
  Board,           \* the runs created from a role board
  RealCalls,       \* the executor makes real calls and the ledger has a call cap
  CallCap,         \* live_budget.cap
  ProviderCap,     \* live_budget.provider_caps: adapter -> cap, {} for none
  MaxParallel,     \* Runtime.max_parallel
  UnsettledLimit,  \* Runtime.unsettled_limit
  MaxRequests,     \* bound: request threads between their commit and their pump
  LingerPerCall,   \* bound: I/O threads a call may leave behind (at most three: stdin, stdout, stderr)
  StoreFaults      \* whether storing a result may fail twice in a row

ASSUME CoordinatorAssumption ==
  /\ Row \in [Part -> Nat]
  /\ \A p, q \in Part : RunOf[p] = RunOf[q] /\ Row[p] = Row[q] => p = q
  /\ Board \subseteq Run
  /\ \A r \in Run : Mode[r] = "general" => r \in Board
  /\ RealCalls \in BOOLEAN
  /\ StoreFaults \in BOOLEAN
  /\ CallCap \in Nat \ {0}
  /\ \A a \in DOMAIN ProviderCap : ProviderCap[a] \in Nat \ {0}
  /\ MaxParallel \in Nat \ {0}
  /\ UnsettledLimit \in Nat \ {0}
  /\ MaxRequests \in Nat \ {0}
  /\ LingerPerCall \in 0..3

VARIABLES
  (* The ledger: durable. *)
  phase,      \* runs.phase, "absent" before the run is created
  cancelled,  \* runs with cancel_requested
  approved,   \* runs with reduction_approved
  createdAt,  \* runs.created_at as a rank, 0 before the run is created
  state,      \* participants.state
  attempt,    \* participants.attempt: how many attempts the row has been given
  acked,      \* participants whose status is unknown_acknowledged
  drafts,     \* participants with a row in drafts
  reserved,   \* live_call_reserved events
  (* The process: lost in a crash. *)
  up,         \* a controller has the ledger open
  closing,    \* Runtime.closing
  paused,     \* Runtime.paused
  workers,    \* Runtime.workers and the place each thread has reached
  batch,      \* the queue snapshot pump() still has to serve; {} when no pump holds the lock
  taken,      \* what pump() has decided for the first of them
  owed,       \* commands that have committed and have not pumped yet
  lingering,  \* runner.lingering()
  (* History. *)
  calls,      \* CLI processes ever started for a participant
  tree,       \* what is true of the process tree of a participant, seen or not
  heldOver    \* participants queued when the controller opened the ledger, until resume

ledger == <<phase, cancelled, approved, createdAt, state, attempt, acked, drafts, reserved>>
runtime == <<up, closing, paused, workers, batch, taken, owed, lingering>>
history == <<calls, tree, heldOver>>
vars == <<ledger, runtime, history>>

Worker == [part : Part, attempt : Nat, pc : {"starting", "spawned", "settled"}, cancel : BOOLEAN]

Reservation == [part : Part, attempt : Nat]

TypeOK ==
  /\ phase \in [Run -> {"absent", "drafting", "revealed", "collected"}]
  /\ cancelled \subseteq Run
  /\ approved \subseteq Run
  /\ createdAt \in [Run -> Nat]
  /\ state \in [Part -> PartState]
  /\ attempt \in [Part -> Nat]
  /\ acked \subseteq Part
  /\ drafts \subseteq Part
  /\ reserved \subseteq Reservation
  /\ up \in BOOLEAN
  /\ closing \in BOOLEAN
  /\ paused \in BOOLEAN
  /\ workers \subseteq Worker
  /\ batch \subseteq Part
  /\ taken \in {"none", "ready", "refused"}
  /\ owed \in Nat
  /\ lingering \in Nat
  /\ calls \in [Part -> Nat]
  /\ tree \in [Part -> {"none", "alive", "gone"}]
  /\ heldOver \subseteq Part

Init ==
  /\ phase = [r \in Run |-> "absent"]
  /\ cancelled = {}
  /\ approved = {}
  /\ createdAt = [r \in Run |-> 0]
  /\ state = [p \in Part |-> "absent"]
  /\ attempt = [p \in Part |-> 0]
  /\ acked = {}
  /\ drafts = {}
  /\ reserved = {}
  /\ up = TRUE
  /\ closing = FALSE
  /\ paused = FALSE
  /\ workers = {}
  /\ batch = {}
  /\ taken = "none"
  /\ owed = 0
  /\ lingering = 0
  /\ calls = [p \in Part |-> 0]
  /\ tree = [p \in Part |-> "none"]
  /\ heldOver = {}

-----------------------------------------------------------------------------
(* Slots, budget and the places a pump is held (execution/invocations.py).   *)

\* Fault: an attempt that may still be running frees its slot.
SlotsRunning == {p \in Part : state[p] = "running"}

Slots == {p \in Part : state[p] \in {"running", "unknown"}}

Unknown == {p \in Part : state[p] = "unknown"}

\* Fault: the hold after a restart is not looked at.
HeldByUnsettled == Cardinality(Unknown) + lingering >= UnsettledLimit

Held == paused \/ Cardinality(Unknown) + lingering >= UnsettledLimit

UsedBy(a) == Cardinality({x \in reserved : Adapter[x.part] = a})

\* Fault: off by one at the cap of an adapter.
BudgetOverrun(a) ==
  \/ Cardinality(reserved) >= CallCap
  \/ /\ DOMAIN ProviderCap # {}
     /\ a \in DOMAIN ProviderCap => UsedBy(a) > ProviderCap[a]

BudgetExhausted(a) ==
  \/ Cardinality(reserved) >= CallCap
  \/ /\ DOMAIN ProviderCap # {}
     /\ a \in DOMAIN ProviderCap => UsedBy(a) >= ProviderCap[a]

Queue == {p \in Part : state[p] = "queued" /\ RunOf[p] \notin cancelled}

\* ORDER BY runs.created_at, participants.rowid
Before(p, q) ==
  \/ createdAt[RunOf[p]] < createdAt[RunOf[q]]
  \/ RunOf[p] = RunOf[q] /\ Row[p] < Row[q]

LockFree == up /\ batch = {}

\* Fault: a command that does not pump.
CommandWithoutPump == LockFree /\ owed < MaxRequests /\ UNCHANGED owed

\* A request thread takes the lock; it will call pump() after releasing it.
Command == LockFree /\ owed < MaxRequests /\ owed' = owed + 1

-----------------------------------------------------------------------------
(* Results: the acceptance gate and the transaction that stores its verdict. *)

\* What an executor can report.  "confirmed": the process tree is known to be
\* empty (never so when the executor raised); "usable": the answer passes every
\* later check of acceptance() and can be stored as it is.
Outcome == {o \in [confirmed : BOOLEAN, usable : BOOLEAN] : o.usable => o.confirmed}

NotStarted == [confirmed |-> TRUE, usable |-> FALSE]

\* Fault: a failed attempt is queued again.
AcceptanceRetries(o) == IF ~o.confirmed THEN "unknown" ELSE IF o.usable THEN "accepted" ELSE "queued"

Acceptance(o) == IF ~o.confirmed THEN "unknown" ELSE IF o.usable THEN "accepted" ELSE "rejected"

\* Fault: the reason is stored as the state.
DiscardedState(o) == IF o.confirmed THEN "discarded" ELSE "unknown"

\* Fault: an attempt whose answer is not wanted counts as ended.
DiscardedEnded(o) == "rejected"

Discarded(o) == IF o.confirmed THEN "rejected" ELSE "unknown"

Verdict(r, o) == IF Accepting(r, phase, cancelled) THEN Acceptance(o) ELSE Discarded(o)

\* Fault: every decided attempt leaves a draft.
StoreAnyAnswer(p, s) ==
  /\ state' = [state EXCEPT ![p] = s]
  /\ drafts' = IF s \in Done THEN drafts \union {p} ELSE drafts
  /\ phase' = [phase EXCEPT ![RunOf[p]] = PhaseAfter(RunOf[p], state', phase, cancelled, approved)]

\* Fault: the gate is looked at before the write.
StoreAfterLooking(p, s) ==
  /\ state' = [state EXCEPT ![p] = s]
  /\ drafts' = IF s = "accepted" THEN drafts \union {p} ELSE drafts
  /\ phase' = [phase EXCEPT ![RunOf[p]] = PhaseAfter(RunOf[p], state, phase, cancelled, approved)]

\* One participant moves to s, and the gate of its run is looked at again in
\* the same transaction.
Store(p, s) ==
  /\ state' = [state EXCEPT ![p] = s]
  /\ drafts' = IF s = "accepted" THEN drafts \union {p} ELSE drafts
  /\ phase' = [phase EXCEPT ![RunOf[p]] = PhaseAfter(RunOf[p], state', phase, cancelled, approved)]

\* Fault: the result of a cancelled run is dropped without closing its attempt.
SettleUnlessCancelled(p, n, s) ==
  IF state[p] = "running" /\ attempt[p] = n /\ RunOf[p] \notin cancelled
    THEN Store(p, s)
    ELSE UNCHANGED <<state, drafts, phase>>

\* The conditional UPDATE: only the attempt that is still running is settled,
\* anything later leaves an attempt_result_ignored event and no more.
Settle(p, n, s) ==
  IF state[p] = "running" /\ attempt[p] = n
    THEN Store(p, s)
    ELSE UNCHANGED <<state, drafts, phase>>

-----------------------------------------------------------------------------
(* pump(): under the lock from PumpEnter or WorkerExit until batch is empty. *)

EnterPump ==
  /\ batch' = IF closing \/ Held THEN {} ELSE Queue
  /\ UNCHANGED taken

PumpEnter ==
  /\ LockFree
  /\ owed > 0
  /\ owed' = owed - 1
  /\ EnterPump
  /\ UNCHANGED <<ledger, up, closing, paused, workers, lingering, history>>

PumpFull ==
  /\ up /\ batch # {} /\ taken = "none"
  /\ Cardinality(Slots) >= MaxParallel
  /\ batch' = {}
  /\ UNCHANGED <<ledger, up, closing, paused, workers, taken, owed, lingering, history>>

\* The start transaction of the first participant of the snapshot: the plan may
\* have been refused, a real call is reserved with the row's new attempt.
PumpTake(p) ==
  /\ up /\ batch # {} /\ taken = "none"
  /\ p \in batch /\ \A q \in batch \ {p} : Before(p, q)
  /\ Cardinality(Slots) < MaxParallel
  /\ \E planned \in BOOLEAN :
       LET ready == planned /\ ~(RealCalls /\ BudgetExhausted(Adapter[p])) IN
       IF Accepting(RunOf[p], phase, cancelled) /\ state[p] = "queued"
         THEN /\ state' = [state EXCEPT ![p] = "running"]
              /\ attempt' = [attempt EXCEPT ![p] = @ + 1]
              /\ reserved' = IF ready /\ RealCalls
                               THEN reserved \union {[part |-> p, attempt |-> attempt[p] + 1]}
                               ELSE reserved
              /\ taken' = IF ready THEN "ready" ELSE "refused"
              /\ UNCHANGED batch
         ELSE /\ batch' = batch \ {p}
              /\ UNCHANGED <<state, attempt, reserved, taken>>
  /\ UNCHANGED <<phase, cancelled, approved, createdAt, acked, drafts,
                 up, closing, paused, workers, owed, lingering, history>>

PumpDone(p) == batch' = batch \ {p} /\ taken' = "none"

PumpLaunch(p) ==
  /\ up /\ taken = "ready"
  /\ p \in batch /\ \A q \in batch \ {p} : Before(p, q)
  /\ workers' = workers \union {[part |-> p, attempt |-> attempt[p], pc |-> "starting", cancel |-> FALSE]}
  /\ PumpDone(p)
  /\ UNCHANGED <<ledger, up, closing, paused, owed, lingering, history>>

\* The plan was refused, or the thread did not start: nothing was called.
PumpGiveUp(p) ==
  /\ up /\ taken # "none"
  /\ p \in batch /\ \A q \in batch \ {p} : Before(p, q)
  /\ Settle(p, attempt[p], Verdict(RunOf[p], NotStarted))
  /\ PumpDone(p)
  /\ UNCHANGED <<cancelled, approved, createdAt, attempt, acked, reserved,
                 up, closing, paused, workers, owed, lingering, history>>

-----------------------------------------------------------------------------
(* The worker thread of one attempt.                                         *)

\* The executor creates the CLI process.
Spawn(w) ==
  /\ up /\ w \in workers /\ w.pc = "starting"
  /\ workers' = (workers \ {w}) \union {[w EXCEPT !.pc = "spawned"]}
  /\ calls' = [calls EXCEPT ![w.part] = @ + 1]
  /\ tree' = [tree EXCEPT ![w.part] = "alive"]
  /\ UNCHANGED <<ledger, up, closing, paused, batch, taken, owed, lingering, heldOver>>

\* executor.run returns o; the process may leave I/O threads behind.
Return(w, o) ==
  /\ w \in workers
  /\ w.pc = "starting" => ~o.usable
  /\ workers' = (workers \ {w}) \union {[w EXCEPT !.pc = "settled"]}
  /\ tree' = IF w.pc = "spawned" /\ o.confirmed THEN [tree EXCEPT ![w.part] = "gone"] ELSE tree
  /\ lingering' \in IF w.pc = "spawned" THEN lingering..(lingering + LingerPerCall) ELSE {lingering}

\* The result is stored; if storing it fails, the answer is dropped but the
\* attempt is still closed.
Finish(w) ==
  /\ LockFree /\ w.pc \in {"starting", "spawned"}
  /\ \E o \in Outcome :
       /\ Return(w, o)
       /\ \/ Settle(w.part, w.attempt, Verdict(RunOf[w.part], o))
          \/ Settle(w.part, w.attempt, Discarded(o))
  /\ UNCHANGED <<cancelled, approved, createdAt, attempt, acked, reserved,
                 up, closing, paused, batch, taken, owed, calls, heldOver>>

\* Closing the attempt fails as well: the thread ends and the row stays running.
FinishLost(w) ==
  /\ StoreFaults
  /\ LockFree /\ w.pc \in {"starting", "spawned"}
  /\ \E o \in Outcome : Return(w, o)
  /\ UNCHANGED <<ledger, up, closing, paused, batch, taken, owed, calls, heldOver>>

WorkerExit(w) ==
  /\ LockFree /\ w \in workers /\ w.pc = "settled"
  /\ workers' = workers \ {w}
  /\ EnterPump
  /\ UNCHANGED <<ledger, up, closing, paused, owed, lingering, history>>

-----------------------------------------------------------------------------
(* Commands of the user.                                                     *)

\* Fault: a worker without a process is not told.
StopSpawned(ws) == {IF w \in ws /\ w.pc = "spawned" THEN [w EXCEPT !.cancel = TRUE] ELSE w : w \in workers}

\* The cancel events of these workers are set.
Stop(ws) == {IF w \in ws THEN [w EXCEPT !.cancel = TRUE] ELSE w : w \in workers}

\* Fault: cancelling withdraws the answers that are in.
UnstartedOrAnswered == {"queued", "awaiting_user", "accepted"}

\* What cancelling a run closes at once.
Unstarted == {"queued", "awaiting_user"}

OpenRuns == {r \in Run : Accepting(r, phase, cancelled)}

CreateRun(r) ==
  /\ Command
  /\ ~closing
  /\ phase[r] = "absent"
  /\ r \in Board => OpenRuns = {} /\ Slots = {} /\ lingering = 0
  /\ phase' = [phase EXCEPT ![r] = "drafting"]
  /\ createdAt' = [createdAt EXCEPT ![r] = 1 + Cardinality({s \in Run : phase[s] # "absent"})]
  /\ state' = [p \in Part |-> IF RunOf[p] # r THEN state[p]
                              ELSE IF Transport[p] = "cli" THEN "queued" ELSE "awaiting_user"]
  /\ UNCHANGED <<cancelled, approved, attempt, acked, drafts, reserved,
                 up, closing, paused, workers, batch, taken, lingering, history>>

\* Pressing cancel again signals the workers again and changes no row.
CancelRun(r) ==
  /\ Command
  /\ Accepting(r, phase, cancelled) \/ r \in cancelled
  /\ cancelled' = cancelled \union {r}
  /\ state' = [p \in Part |-> IF RunOf[p] = r /\ state[p] \in Unstarted
                              THEN "rejected" ELSE state[p]]
  /\ workers' = Stop({w \in workers : /\ RunOf[w.part] = r
                                      /\ state[w.part] = "running" /\ attempt[w.part] = w.attempt})
  /\ UNCHANGED <<phase, approved, createdAt, attempt, acked, drafts, reserved,
                 up, closing, paused, batch, taken, lingering, history>>

\* A refused submission only leaves a manual_refused event.
SubmitManual(p) ==
  /\ Command
  /\ Transport[p] = "manual"
  /\ Accepting(RunOf[p], phase, cancelled)
  /\ state[p] = "awaiting_user"
  /\ Store(p, "accepted")
  /\ UNCHANGED <<cancelled, approved, createdAt, attempt, acked, reserved,
                 up, closing, paused, workers, batch, taken, lingering, history>>

WithdrawManual(p) ==
  /\ Command
  /\ Accepting(RunOf[p], phase, cancelled)
  /\ state[p] = "awaiting_user"
  /\ Store(p, "rejected")
  /\ UNCHANGED <<cancelled, approved, createdAt, attempt, acked, reserved,
                 up, closing, paused, workers, batch, taken, lingering, history>>

ApproveReduction(r) ==
  /\ Command
  /\ CanApproveReduction(r, state, phase, cancelled, approved)
  /\ approved' = approved \union {r}
  /\ phase' = [phase EXCEPT ![r] = PhaseAfter(r, state, phase, cancelled, approved')]
  /\ UNCHANGED <<cancelled, createdAt, state, attempt, acked, drafts, reserved,
                 up, closing, paused, workers, batch, taken, lingering, history>>

\* The user states that the attempt has ended; the slot is released, nothing else.
AcknowledgeUnknown(p) ==
  /\ Command
  /\ state[p] = "unknown"
  /\ Store(p, "rejected")
  /\ acked' = acked \union {p}
  /\ UNCHANGED <<cancelled, approved, createdAt, attempt, reserved,
                 up, closing, paused, workers, batch, taken, lingering, history>>

Resume ==
  /\ Command
  /\ ~closing
  /\ paused' = FALSE
  /\ heldOver' = {}
  /\ UNCHANGED <<ledger, up, closing, workers, batch, taken, lingering, calls, tree>>

\* shutdown(): no call is started any more and every worker is told to stop.
Shutdown ==
  /\ LockFree
  /\ ~closing
  /\ closing' = TRUE
  /\ paused' = TRUE
  /\ workers' = Stop(workers)
  /\ UNCHANGED <<ledger, up, batch, taken, owed, lingering, history>>

-----------------------------------------------------------------------------
(* The world around the controller.                                          *)

\* The process ends, after shutdown() or at any other point, also inside pump().
\* Its threads go with it; a process tree it started need not.
Crash ==
  /\ up
  /\ up' = FALSE
  /\ closing' = FALSE
  /\ paused' = FALSE
  /\ workers' = {}
  /\ batch' = {}
  /\ taken' = "none"
  /\ owed' = 0
  /\ lingering' = 0
  /\ UNCHANGED <<ledger, history>>

\* Controller.__init__ on the existing ledger.  Its transactions are repeatable:
\* a controller that dies among them leaves a ledger the next one recovers alike.
Restart ==
  /\ ~up
  /\ up' = TRUE
  /\ state' = [p \in Part |-> IF state[p] = "running" THEN "unknown" ELSE state[p]]
  /\ phase' = [r \in Run |-> IF phase[r] = "drafting"
                             THEN PhaseAfter(r, state', phase, cancelled, approved)
                             ELSE phase[r]]
  /\ paused' = (Queue # {})
  /\ heldOver' = Queue
  /\ UNCHANGED <<cancelled, approved, createdAt, attempt, acked, drafts, reserved,
                 closing, workers, batch, taken, owed, lingering, calls, tree>>

\* A process tree nobody could confirm empty ends by itself.
TreeEnds(p) ==
  /\ tree[p] = "alive"
  /\ \A w \in workers : w.part = p => w.pc = "settled"
  /\ tree' = [tree EXCEPT ![p] = "gone"]
  /\ UNCHANGED <<ledger, runtime, calls, heldOver>>

\* A leftover I/O thread ends; no part of the controller is told.
LingerEnds ==
  /\ lingering > 0
  /\ lingering' = lingering - 1
  /\ UNCHANGED <<ledger, up, closing, paused, workers, batch, taken, owed, history>>

-----------------------------------------------------------------------------
PumpStep == PumpFull \/ \E p \in Part : PumpTake(p) \/ PumpLaunch(p) \/ PumpGiveUp(p)

WorkerStep == \E w \in workers : Spawn(w) \/ Finish(w) \/ FinishLost(w) \/ WorkerExit(w)

UserStep ==
  \/ \E r \in Run : CreateRun(r) \/ CancelRun(r) \/ ApproveReduction(r)
  \/ \E p \in Part : SubmitManual(p) \/ WithdrawManual(p) \/ AcknowledgeUnknown(p)
  \/ Resume \/ Shutdown

WorldStep == Crash \/ Restart \/ LingerEnds \/ \E p \in Part : TreeEnds(p)

Next == PumpEnter \/ PumpStep \/ WorkerStep \/ UserStep \/ WorldStep

Spec == Init /\ [][Next]_vars

-----------------------------------------------------------------------------
(* Safety.                                                                   *)

\* An open run is complete: every member is decided, the answers that count
\* reach the quorum, a missing member was consented to, and nobody cancelled
\* it (_maybe_reveal, coordinator.py:192).
RevealSound ==
  \A r \in Run :
    /\ phase[r] \in {"revealed", "collected"} => Settled(r, state) /\ r \notin cancelled
    /\ phase[r] = "revealed" =>
         /\ Dropped(r, state) # {} => r \in approved
         /\ Cardinality({p \in drafts \intersect Members(r) : Policy[r] = "independent_only" => Confirmed(p)})
              >= MinIndependent[r]

\* A sealed draft exists exactly for the accepted participants, whatever late,
\* discarded, unstored or cancelled results there were (_finish, submit_manual).
DraftIffAccepted == drafts = {p \in Part : state[p] = "accepted"}

\* No transaction, and no crash between two of them, leaves a run sealed that
\* its gate would open (the comment of _recover, coordinator.py:329).
ReadyIsOpen ==
  \A r \in Run : PhaseAfter(r, state, phase, cancelled, approved) = phase[r]

\* A process tree that may still be running belongs to a participant that is
\* running or unknown, unless a user has vouched for its end: a result, a
\* cancellation or a restart never closes an attempt over a live process.
NoForgottenTree ==
  \A p \in Part : tree[p] = "alive" => state[p] \in {"running", "unknown"} \/ p \in acked

\* However calls end, crash or are lost, no more trees than max_parallel are
\* alive at once, those a user has vouched for aside (_slots_used).
ParallelBound == Cardinality({p \in Part \ acked : tree[p] = "alive"}) <= MaxParallel

\* A participant is called at most once in its life, over restarts too, and a
\* real call was reserved before it started (pump, coordinator.py:30).
CalledOnce ==
  \A p \in Part :
    /\ calls[p] <= 1
    /\ RealCalls /\ calls[p] > 0 => [part |-> p, attempt |-> attempt[p]] \in reserved

\* The reservations stay within the total cap and each adapter within its own;
\* with provider caps in force an adapter without one is never called.
BudgetRespected ==
  /\ Cardinality(reserved) <= CallCap
  /\ DOMAIN ProviderCap # {} =>
       \A x \in reserved : /\ Adapter[x.part] \in DOMAIN ProviderCap
                           /\ UsedBy(Adapter[x.part]) <= ProviderCap[Adapter[x.part]]

\* Every call in flight of a cancelled run, and every call in flight once the
\* controller is closing, has been told to stop (cancel_run, shutdown).
CancelReachesWorkers ==
  \A w \in workers :
    w.pc # "settled" /\ (closing \/ RunOf[w.part] \in cancelled) => w.cancel

\* While results can be stored, a running row is owned by a thread that will
\* settle it, or by the pump that is about to start or refuse it.
RunningIsOwned ==
  up /\ ~StoreFaults =>
    \A p \in Part : state[p] = "running" =>
      \/ p \in batch /\ taken # "none"
      \/ \E w \in workers : w.part = p /\ w.attempt = attempt[p] /\ w.pc # "settled"

\* What the ledger says of answers: no run is open that should be sealed, none
\* sealed that should be open, and the drafts are those that were accepted
\* (_finish, _maybe_reveal and submit_manual in one transaction each).
SealSound == TypeOK /\ RevealSound /\ DraftIffAccepted /\ ReadyIsOpen

\* What is called: no more trees at once than allowed, each participant once,
\* and nothing beyond the caps, however calls end, crash or are lost (pump).
CallsBounded == ParallelBound /\ CalledOnce /\ BudgetRespected

\* Who is in charge: every running row has a thread that will settle it, and
\* that thread has heard of every cancel and shutdown (cancel_run, shutdown).
WorkersInCharge == RunningIsOwned /\ CancelReachesWorkers

-----------------------------------------------------------------------------
(* What a step may never do.                                                 *)

\* Opening is irreversible: afterwards no late answer, acknowledgement, cancel
\* or recovery changes the phase, the roster or the drafts of the run.
OpenIsFrozen ==
  [][\A r \in Run : phase[r] \in {"revealed", "collected"} =>
       /\ phase'[r] = phase[r]
       /\ r \notin cancelled'
       /\ \A p \in Members(r) : state'[p] = state[p] /\ (p \in drafts' <=> p \in drafts)]_vars

\* Cancelling is irreversible and keeps the drafts sealed: no answer that was
\* under way when the user cancelled is accepted or shown (cancel_run).
CancelSeals ==
  [][\A r \in cancelled :
       /\ r \in cancelled'
       /\ phase'[r] = phase[r]
       /\ \A p \in Members(r) : p \in drafts' <=> p \in drafts]_vars

\* A consent to a reduced roster is for the roster the user saw: it never
\* changes afterwards (approve_reduction, coordinator.py:303).
ApprovalBindsRoster ==
  [][\A r \in approved :
       /\ r \in approved'
       /\ \A p \in Members(r) : state'[p] = state[p]]_vars

\* Reservations are never refunded, and a decided participant stays decided.
NothingRefunded ==
  [][/\ reserved \subseteq reserved'
     /\ \A p \in Part : state[p] \in Done => state'[p] = state[p]]_vars

\* A participant found queued when the ledger was opened is not started before
\* the user resumes (Controller.__init__, resume).
RestartWaitsForUser == [][\A p \in heldOver : attempt'[p] = attempt[p]]_vars

\* A participant could be started, and no thread is on its way to pump().
Stalled ==
  /\ LockFree /\ ~closing /\ ~Held
  /\ owed = 0
  /\ \A w \in workers : w.pc # "settled"
  /\ Cardinality(Slots) < MaxParallel
  /\ Queue # {}

\* No wake-up is lost: whatever frees a slot, lifts a hold or queues a
\* participant also brings a pump.  The one exception is a leftover I/O thread
\* that ends, which nobody observes.
NoLostWakeup == [][Stalled' /\ ~Stalled => lingering' < lingering]_vars

\* What moves the queue: it is never left standing, what a restart found in it
\* waits for the user, and nothing that was reserved or decided is taken back.
QueueMoves == NoLostWakeup /\ RestartWaitsForUser /\ NothingRefunded

-----------------------------------------------------------------------------
(* What the screen says of a run (queries/public.py and roles.py).           *)

HeldShown ==
  \/ Held
  \/ Unknown # {} /\ Cardinality(Unknown) >= MaxParallel

ShownWorking(r) ==
  /\ Accepting(r, phase, cancelled)
  /\ \A p \in Members(r) : state[p] \notin {"unknown", "awaiting_user"}
  /\ \E p \in Members(r) : state[p] \in {"running", "queued"}
  /\ (\E p \in Members(r) : state[p] = "queued") => ~HeldShown

\* "Working" is shown only of a run that moves by itself (app/README.md:88,
\* tests/test_review_state.py:6): a call is in flight or a pump is to come.
WorkingMovesByItself ==
  up => \A r \in Run : ShownWorking(r) => workers # {} \/ batch # {} \/ owed > 0

-----------------------------------------------------------------------------
(* Liveness.  Threads that have the lock to take get it sooner or later, a   *)
(* CLI call ends (its timeout sees to that), a pump runs to its end.         *)

Fairness ==
  /\ SF_vars(PumpEnter)
  /\ WF_vars(PumpStep)
  /\ \A p \in Part :
       /\ SF_vars(\E w \in workers : w.part = p /\ Finish(w))
       /\ SF_vars(\E w \in workers : w.part = p /\ WorkerExit(w))

FairSpec == Spec /\ Fairness

\* A started attempt does not stay running in a process that stays up.
AttemptsSettle ==
  \A p \in Part : (up /\ state[p] = "running") ~> (~up \/ state[p] # "running")

Unblocked == up /\ ~closing /\ ~Held /\ Cardinality(Unknown) < MaxParallel

\* With nothing left to hold the queue and no call that leaves threads behind,
\* every queued participant is started, refused or cancelled.
QueueDrains ==
  [](lingering = 0) /\ <>[]Unblocked =>
    \A p \in Part : (state[p] = "queued") ~> (state[p] # "queued")

=============================================================================
