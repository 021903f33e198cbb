------------------------------ MODULE UpperCalls ------------------------------
(***************************************************************************)
(* The calls the user makes around a run: refining a question, splitting a  *)
(* goal, proposing a next step, collating, cross-reviewing, revising,       *)
(* rechecking (app/application, one "seat" table each) and synthesis, with  *)
(* the gate they pass (execution/invocations.py), their life in the         *)
(* coordinator (_start_seat, _settle_seat, _synthesis_attempt, _recover)    *)
(* and the user's judgment, which the results of these calls outdate        *)
(* (repository.py).                                                         *)
(*                                                                         *)
(* They share slots, budget and pump() with the participants of a run.  The *)
(* participants' side is that of module Coordinator in larger steps: pump() *)
(* is one step, because no other thread can look while it holds the lock,   *)
(* and a thread is only known by the call it will settle.  A call is named  *)
(* by its purpose, what it is made for, and its number in the sequence.     *)
(*                                                                         *)
(* What a model is sent and what it answers is left out, and with it the    *)
(* checks of stored digests, the previews and their confirmation values.    *)
(* runner.lingering(), the caps per adapter and the plans refused to a       *)
(* participant are left to Coordinator.                                     *)
(***************************************************************************)
EXTENDS RunGate

CONSTANTS
  Row,            \* rowid of a participant: the order of the reviewers of a round
  Board,          \* the runs created from a role board
  Refinement,     \* refine_id
  Split,          \* split_id
  Supervised,     \* the runs whose role board has a supervisor card
  Orchestrated,   \* the runs whose role board has an orchestrator card
  MaxTurns,       \* refine.MAX_TURNS
  MaxPerRun,      \* next_step.MAX_PER_RUN, collate.MAX_PER_RUN
  MaxRevisions,   \* revisions.MAX_REVISIONS
  MaxChecks,      \* revisions.MAX_CHECKS
  CallCap,        \* live_budget.cap
  MaxParallel,    \* Runtime.max_parallel
  UnsettledLimit, \* Runtime.unsettled_limit
  MaxSyntheses,   \* bound: synthesis calls of a run
  MaxRequests,    \* bound: threads between their commit and their pump
  MaxPrepared,    \* bound: runs being prepared before the lock is taken
  StoreFaults,    \* whether storing a result may fail twice in a row
  StartFaults     \* whether the plan of an upper call may be refused or its thread not start

Id(purpose, of, n, i) == [purpose |-> purpose, of |-> of, n |-> n, i |-> i]

Cli == {p \in Part : Transport[p] = "cli"}

Reviews == {Id("cross_review", p, 0, 1) : p \in Cli}
Revisions == {Id("answer_revision", p, 0, i) : p \in Cli, i \in 1..MaxRevisions}
Rechecks == {Id("revision_recheck", p, j, i) : p \in Cli, j \in 1..MaxRevisions, i \in 1..MaxChecks}

\* The rows a seat table may come to hold.
Seat ==
  UNION {{Id("refine", q, 0, i) : q \in Refinement, i \in 1..MaxTurns},
         {Id("split", s, 0, 1) : s \in Split},
         {Id("next_step", r, 0, i) : r \in Supervised, i \in 1..MaxPerRun},
         {Id("collate", r, 0, i) : r \in {s \in Orchestrated : Mode[s] = "general"}, i \in 1..MaxPerRun},
         Reviews, Revisions, Rechecks}

\* A run's synthesis attempts; number 0 is the mock synthesis, which calls nobody.
Synthesis == {Id("synthesis", r, 0, i) : r \in Run, i \in 0..MaxSyntheses}

\* The answers a run can be created from.
Sources == {c \in Seat : c.purpose \in {"refine", "next_step", "split"}}

Draft == {Id("draft", p, 0, 1) : p \in Part}

DraftOf(p) == Id("draft", p, 0, 1)

Call == Seat \union Synthesis \union Draft

\* The run whose events tell of a call; {} for the calls made before a run.
RunsOf(c) ==
  CASE c.purpose \in {"refine", "split"} -> {}
    [] c.purpose \in {"next_step", "collate", "synthesis"} -> {c.of}
    [] OTHER -> {RunOf[c.of]}

\* The calls before c in its sequence.
Earlier(c) == {d \in Seat : d.purpose = c.purpose /\ d.of = c.of /\ d.n = c.n /\ d.i < c.i}

Round(r) == {c \in Reviews : RunOf[c.of] = r}

ReviewedBefore(c) == {d \in Reviews : RunOf[d.of] = RunOf[c.of] /\ Row[d.of] < Row[c.of]}

(***************************************************************************)
(* A board has cards for the seats it is asked about; only an isolated run   *)
(* has a supervisor, a general run always comes from a board (freeze).       *)
(***************************************************************************)
ASSUME UpperCallsAssumption ==
  /\ Row \in [Part -> Nat]
  /\ \A p, q \in Part : RunOf[p] = RunOf[q] /\ Row[p] = Row[q] => p = q
  /\ Board \subseteq Run
  /\ \A r \in Run : Mode[r] = "general" => r \in Board
  /\ Supervised \subseteq {r \in Board : Mode[r] = "isolated"}
  /\ Orchestrated \subseteq Board
  /\ {MaxTurns, MaxPerRun, MaxRevisions, MaxChecks, MaxSyntheses} \subseteq Nat
  /\ {CallCap, MaxParallel, UnsettledLimit, MaxRequests, MaxPrepared} \subseteq Nat \ {0}
  /\ {StoreFaults, StartFaults} \subseteq BOOLEAN

VARIABLES
  (* The ledger: durable. *)
  phase, cancelled, approved, state,  \* as in Coordinator
  seat,      \* state of the rows of the seat tables
  syn,       \* what the synthesis events of a run say of an attempt
  roundAt,   \* order of creation of the review rounds, 0 for none
  bound,     \* the refine turn, proposal or split a run was created from
  used,      \* live_call_reserved events
  judged,    \* runs whose last judgment is later than their last result event
  (* The process: lost in a crash. *)
  mode,      \* no process, a controller, or one that is closing
  paused,    \* Runtime.paused
  workers,   \* the threads in Runtime.workers, upper_workers and syntheses, by call
  settled,   \* those that have stored their result and have not deregistered yet
  prepared,  \* runs prepare_run has let through, waiting for the lock
  owed,      \* commands that have committed and have not pumped yet
  (* History. *)
  alive,     \* calls whose process tree may be alive and nobody vouched for
  begun,     \* calls a process may have been started for
  missed     \* calls that have ended, and how, behind a judgment that stayed current

drafting == <<phase, cancelled, approved, state>>
asking == <<seat, syn, roundAt, bound>>
ledger == <<drafting, asking, used, judged>>
runtime == <<mode, paused, workers, settled, prepared, owed>>
history == <<alive, begun, missed>>
vars == <<ledger, runtime, history>>

SeatState == {"absent", "queued", "running", "accepted", "rejected", "unknown", "skipped"}

Ending == {"completed", "failed", "unknown", "result_not_stored", "skipped"}

Request == [run : Run, uses : {{}} \union {{c} : c \in Sources}]

TypeOK ==
  /\ phase \in [Run -> {"absent", "drafting", "revealed", "collected"}]
  /\ cancelled \subseteq Run
  /\ approved \subseteq Run
  /\ state \in [Part -> PartState]
  /\ seat \in [Seat -> SeatState]
  /\ syn \in [Synthesis -> {"absent", "open", "unconfirmed", "completed", "failed", "acknowledged"}]
  /\ roundAt \in [Run -> Nat]
  /\ bound \subseteq Sources \X Run
  /\ used \in Nat
  /\ judged \subseteq Run
  /\ mode \in {"down", "up", "closing"}
  /\ paused \in BOOLEAN
  /\ workers \subseteq Call
  /\ settled \subseteq workers
  /\ prepared \subseteq Request
  /\ owed \in Nat
  /\ alive \subseteq Call
  /\ begun \subseteq Call
  /\ missed \subseteq Call \X Ending

Init ==
  /\ phase = [r \in Run |-> "absent"]
  /\ cancelled = {}
  /\ approved = {}
  /\ state = [p \in Part |-> "absent"]
  /\ seat = [c \in Seat |-> "absent"]
  /\ syn = [c \in Synthesis |-> "absent"]
  /\ roundAt = [r \in Run |-> 0]
  /\ bound = {}
  /\ used = 0
  /\ judged = {}
  /\ mode = "up"
  /\ paused = FALSE
  /\ workers = {}
  /\ settled = {}
  /\ prepared = {}
  /\ owed = 0
  /\ alive = {}
  /\ begun = {}
  /\ missed = {}

-----------------------------------------------------------------------------
(* Slots, holds and the gate of the upper calls (execution/invocations.py).  *)

Open(r) == phase[r] = IF Mode[r] = "general" THEN "collected" ELSE "revealed"

OpenRuns == {r \in Run : Accepting(r, phase, cancelled)}

Queue == {p \in Part : state[p] = "queued" /\ RunOf[p] \notin cancelled}

InFlight == {"running", "unknown"}

\* Fault: an attempt told of as failed has left its slot.
SynStatusTold(c, ws) ==
  IF c \in ws THEN "running" ELSE IF syn[c] = "open" THEN "unknown"
  ELSE IF syn[c] = "unconfirmed" THEN "failed" ELSE syn[c]

\* synthesis_attempts: an attempt the controller owns is running whatever its
\* events say; one without a result, or with an unconfirmed end, is unknown.
SynStatus(c, ws) ==
  IF c \in ws THEN "running" ELSE IF syn[c] \in {"open", "unconfirmed"} THEN "unknown" ELSE syn[c]

\* The calls in one of these states; ws are the threads still registered.
CallsIn(states, ws) ==
  {DraftOf(p) : p \in {q \in Part : state[q] \in states}}
    \union {c \in Seat : seat[c] \in states}
    \union {c \in Synthesis : SynStatus(c, ws) \in states}

SlotFree(ws) == Cardinality(CallsIn(InFlight, ws)) < MaxParallel

Held(ws) == paused \/ Cardinality(CallsIn({"unknown"}, ws)) >= UnsettledLimit

\* Fault: a call whose end is not confirmed no longer holds the seat.
BusyRunning == \E c \in Seat : seat[c] = "running"

Busy == \E c \in Seat : seat[c] \in InFlight

UpperGate == ~Busy /\ ~Held(workers) /\ SlotFree(workers) /\ OpenRuns = {}

Up == mode = "up"

Alive == mode # "down"

\* Fault: the cap is noticed one call late.
AffordableOnceMore == used <= CallCap

Affordable == used < CallCap

\* Fault: the thread that released the lock does not pump.
CommandUnpumped == Alive /\ UNCHANGED owed

\* A command of the user that pumps after it has released the lock.
Command == Alive /\ owed < MaxRequests /\ owed' = owed + 1

-----------------------------------------------------------------------------
(* Result events and the judgment they outdate (repository.py).              *)

\* Opening a run is a result event too, but no judgment precedes it.
ResultEvents ==
  {"synthesis"} \X {"completed", "failed"}
    \union {"next_step", "collate", "cross_review"} \X {"completed", "failed", "unknown"}
    \union {<<"cross_review", "skipped">>}
    \union {"answer_revision", "revision_recheck"} \X {"completed", "failed", "unknown", "result_not_stored"}

\* The calls E have ended, each in the way it is paired with.
News(E) ==
  /\ judged' = judged \ UNION {RunsOf(e[1]) : e \in {d \in E : <<d[1].purpose, d[2]>> \in ResultEvents}}
  /\ missed' = {e \in missed \union E : RunsOf(e[1]) \subseteq judged' /\ RunsOf(e[1]) # {}}

NoNews == UNCHANGED <<judged, missed>>

-----------------------------------------------------------------------------
(* Starting a call (_start_seat) and advancing the review rounds.            *)

\* The call c is reserved and its thread started, or it is not and the call
\* fails without one; s is the seat table before, ws the threads registered, E
\* what is told besides.
Launch(c, s, ws, E) ==
  /\ Affordable
  /\ used' = used + 1
  /\ \/ /\ seat' = [s EXCEPT ![c] = "running"]
        /\ workers' = ws \union {c}
        /\ alive' = alive \union {c}
        /\ begun' = begun \union {c}
        /\ News(E)
     \/ /\ StartFaults
        /\ seat' = [s EXCEPT ![c] = "rejected"]
        /\ News(E \union {<<c, "failed">>})
        /\ workers' = ws
        /\ UNCHANGED <<alive, begun>>

\* The rows of a round that still wait, in a seat table s.
Waiting(r, s) == {c \in Round(r) : s[c] = "queued"}

Running(r, s) == \E c \in Round(r) : s[c] = "running"

\* Fault: only a reviewer that did not end breaks the round.
BrokenByUnknown(r, s) == \E c \in Round(r) : s[c] = "unknown"

\* The last reviewer whose turn has been was not accepted.
Broken(r, s) ==
  \E c \in Round(r) :
    /\ s[c] \notin {"absent", "queued", "accepted"}
    /\ \A d \in Round(r) : s[d] \notin {"absent", "queued"} => Row[d.of] <= Row[c.of]

\* Fault: the next reviewer does not look for runs that still take answers.
ReviewGateAmongRuns(ws) == ~Busy /\ SlotFree(ws)

ReviewGate(ws) == ~Busy /\ SlotFree(ws) /\ OpenRuns = {}

\* _close_reviews for the runs R.
Skip(R, s) == [c \in Seat |-> IF \E r \in R : c \in Waiting(r, s) THEN "skipped" ELSE s[c]]

Skipped(R, s) == {<<c, "skipped">> : c \in UNION {Waiting(r, s) : r \in R}}

Idle(s) == {r \in Run : Waiting(r, s) # {} /\ ~Running(r, s)}

CloseRounds(R, s) == seat' = Skip(R, s) /\ News(Skipped(R, s))

\* _advance_reviews on the seat table s with rounds created at at: broken rounds
\* are closed, and where "start" and the gate allow it the first reviewer of the
\* oldest other round is called; the rounds behind that one are not looked at.
AdvanceReviews(start, s, at, ws) ==
  LET broken == {r \in Idle(s) : Broken(r, s)}
      first == {r \in Idle(s) \ broken : \A q \in Idle(s) \ broken : at[r] <= at[q]}
      behind == {r \in broken : \E q \in first : at[q] < at[r]}
  IN IF start /\ ReviewGate(ws) /\ first # {}
       THEN \E r \in first, c \in UNION {Waiting(q, s) : q \in first} :
              /\ \A d \in Waiting(r, s) : Row[c.of] <= Row[d.of]
              /\ LET closed == broken \ behind IN
                 \/ Launch(c, Skip(closed, s), ws, Skipped(closed, s))
                 \/ /\ ~Affordable \/ StartFaults
                    /\ CloseRounds(closed \union {r}, s)
                    /\ workers' = ws
                    /\ UNCHANGED <<used, alive, begun>>
       ELSE /\ CloseRounds(broken, s)
            /\ workers' = ws
            /\ UNCHANGED <<used, alive, begun>>

-----------------------------------------------------------------------------
(* pump(), one step under the lock; ws are the threads still registered.      *)

\* The queue is served as far as slots reach; what the budget no longer allows is
\* refused.  Which of the queue come first is left to Coordinator.
ServeQueue(ws) ==
  LET free == MaxParallel - Cardinality(CallsIn(InFlight, ws))
      calls == CallCap - used
      least(a, b) == IF a < b THEN a ELSE b
      reach == least(free, Cardinality(Queue))
  IN \E S \in SUBSET Queue :
       /\ Cardinality(S) = IF reach > 0 THEN least(calls, reach) ELSE 0
       /\ LET refused == IF calls < reach THEN Queue \ S ELSE {}
              started == {DraftOf(p) : p \in S} IN
          /\ state' = [p \in Part |-> IF p \in S THEN "running"
                                      ELSE IF p \in refused THEN "rejected" ELSE state[p]]
          /\ phase' = [r \in Run |-> IF \E p \in refused : RunOf[p] = r
                                     THEN PhaseAfter(r, state', phase, cancelled, approved) ELSE phase[r]]
          /\ used' = used + Cardinality(S)
          /\ workers' = ws \union started
          /\ alive' = alive \union started
          /\ begun' = begun \union started

\* Where a run is drafting no reviewer starts, and elsewhere nothing is queued.
PumpBody(ws) ==
  \/ /\ mode = "closing"
     /\ workers' = ws
     /\ UNCHANGED <<ledger, history>>
  \/ /\ Up /\ Held(ws)
     /\ AdvanceReviews(FALSE, seat, roundAt, ws)
     /\ UNCHANGED <<drafting, syn, roundAt, bound>>
  \/ /\ Up /\ ~Held(ws) /\ Queue = {}
     /\ AdvanceReviews(TRUE, seat, roundAt, ws)
     /\ UNCHANGED <<drafting, syn, roundAt, bound>>
  \/ /\ Up /\ ~Held(ws) /\ Queue # {}
     /\ CloseRounds({r \in Idle(seat) : Broken(r, seat)}, seat)
     /\ ServeQueue(ws)
     /\ UNCHANGED <<cancelled, approved, syn, roundAt, bound>>

Pump ==
  /\ owed > 0
  /\ owed' = owed - 1
  /\ PumpBody(workers)
  /\ UNCHANGED <<mode, paused, settled, prepared>>

\* Fault: the thread leaves without a pump.
ExitUnpumped(c) ==
  /\ c \in settled
  /\ settled' = settled \ {c}
  /\ workers' = workers \ {c}
  /\ UNCHANGED <<ledger, mode, paused, prepared, owed, history>>

\* A thread whose result is stored deregisters itself and pumps.
Exit(c) ==
  /\ c \in settled
  /\ settled' = settled \ {c}
  /\ PumpBody(workers \ {c})
  /\ UNCHANGED <<mode, paused, prepared, owed>>

-----------------------------------------------------------------------------
(* The upper calls a user can make (planning.py, reviews.py, revisions.py).   *)

\* c is the next of its sequence, and no earlier call of it is in such a state.
NextOf(c, states) == seat[c] = "absent" /\ \A d \in Earlier(c) : seat[d] \notin states \union {"absent"}

RunOfRefinement(q) == {b \in bound : b[1].purpose = "refine" /\ b[1].of = q}

CanRefine(c) == NextOf(c, InFlight) /\ RunOfRefinement(c.of) = {}

CanPropose(c) == NextOf(c, {"unknown"}) /\ phase[c.of] = "revealed"

CanCollate(c) == NextOf(c, {"unknown"}) /\ phase[c.of] = "collected"

AcceptedCli(r) == {p \in Members(r) : p \in Cli /\ state[p] = "accepted"}

\* Fault: a recheck that failed counts as one.
RecheckEnded(checks) == \E d \in checks : seat[d] \in Done

Rechecked(checks) ==
  /\ \A d \in checks : seat[d] \notin InFlight
  /\ \E d \in checks : seat[d] = "accepted"

\* The reviews of other members, and the rechecks of the last accepted revision,
\* are where the findings come from that a revision answers; that revision, if
\* any, has been rechecked.
CanRevise(c) ==
  LET r == RunOf[c.of]
      round == {d \in Round(r) : seat[d] # "absent"}
      accepted == {d \in Earlier(c) : seat[d] = "accepted"}
      parent == {d \in accepted : \A e \in accepted : e.i <= d.i}
      checks == {d \in Rechecks : \E e \in parent : d.of = e.of /\ d.n = e.i}
  IN /\ NextOf(c, InFlight)
     /\ Open(r) /\ r \notin cancelled
     /\ c.of \in AcceptedCli(r)
     /\ round # {} /\ \A d \in round : seat[d] \notin InFlight \union {"queued"}
     /\ parent # {} => Rechecked(checks)
     /\ \/ \E d \in round : d.of # c.of /\ seat[d] = "accepted"
        \/ \E d \in checks : seat[d] = "accepted"

CanRecheck(c) ==
  LET r == RunOf[c.of] IN
  /\ NextOf(c, InFlight)
  /\ seat[Id("answer_revision", c.of, 0, c.n)] = "accepted"
  /\ Open(r) /\ r \notin cancelled
  /\ AcceptedCli(r) \ {c.of} # {}

CanCall(c) ==
  CASE c.purpose = "refine" -> CanRefine(c)
    [] c.purpose = "split" -> seat[c] = "absent"
    [] c.purpose = "next_step" -> CanPropose(c)
    [] c.purpose = "collate" -> CanCollate(c)
    [] c.purpose = "answer_revision" -> CanRevise(c)
    [] c.purpose = "revision_recheck" -> CanRecheck(c)
    [] OTHER -> FALSE

\* refine, propose_next, propose_split, collate, revise, recheck.
Ask(c) ==
  /\ Up
  /\ CanCall(c)
  /\ UpperGate
  /\ Launch(c, seat, workers, {})
  /\ UNCHANGED <<drafting, syn, roundAt, bound, mode, paused, settled, prepared, owed>>

\* cross_review and _create_general_round: the reviewers are the members whose
\* answers were accepted; the first is called in the same section of the lock.
CrossReview(r) ==
  LET reviewers == {c \in Round(r) : c.of \in AcceptedCli(r)}
      s == [c \in Seat |-> IF c \in reviewers THEN "queued" ELSE seat[c]]
      at == [roundAt EXCEPT ![r] = 1 + Cardinality({q \in Run : roundAt[q] # 0})]
  IN /\ Up
     /\ Open(r) /\ r \notin cancelled
     /\ \A c \in Round(r) : seat[c] = "absent"
     /\ UpperGate
     /\ reviewers # {} /\ Cardinality({p \in Members(r) : state[p] = "accepted"}) >= 2
     /\ Affordable
     /\ roundAt' = at
     /\ AdvanceReviews(TRUE, s, at, workers)
     /\ UNCHANGED <<drafting, syn, bound, mode, paused, settled, prepared, owed>>

\* The seat thread of c has its result: it is stored, or storing it fails and
\* only the end is.
SeatEnds(c) ==
  /\ c \in workers \ settled /\ seat[c] = "running"
  /\ \E s \in {"accepted", "rejected", "unknown"} :
       /\ seat' = [seat EXCEPT ![c] = s]
       /\ alive' = IF s = "unknown" THEN alive ELSE alive \ {c}
       /\ \/ News({<<c, CASE s = "accepted" -> "completed" [] s = "rejected" -> "failed" [] OTHER -> s>>})
          \/ StoreFaults /\ s # "accepted" /\ News({<<c, "result_not_stored">>})
  /\ settled' = settled \union {c}
  /\ UNCHANGED <<drafting, syn, roundAt, bound, used, mode, paused, workers, prepared, owed, begun>>

\* Not even the end can be stored: the thread goes, the row stays running.
SeatLost(c) ==
  /\ StoreFaults
  /\ c \in workers \ settled /\ c \in Seat
  /\ alive' \in {alive, alive \ {c}}
  /\ settled' = settled \union {c}
  /\ UNCHANGED <<ledger, mode, paused, workers, prepared, owed, begun, missed>>

\* Fault: the call is closed as one of a participant is displayed.
AcknowledgeSeatNamed(c) ==
  /\ Command
  /\ seat[c] = "unknown"
  /\ seat' = [seat EXCEPT ![c] = "acknowledged"]
  /\ alive' = alive \ {c}
  /\ UNCHANGED <<drafting, syn, roundAt, bound, used, judged, mode, paused, workers, settled, prepared, begun, missed>>

AcknowledgeSeat(c) ==
  /\ Command
  /\ seat[c] = "unknown"
  /\ seat' = [seat EXCEPT ![c] = "rejected"]
  /\ alive' = alive \ {c}
  /\ UNCHANGED <<drafting, syn, roundAt, bound, used, judged, mode, paused, workers, settled, prepared, begun, missed>>

-----------------------------------------------------------------------------
(* Synthesis (application/synthesis.py and the synthesis thread).            *)

SynthesisOf(r) == {c \in Synthesis : c.of = r}

CanSynthesize(r) == phase[r] = "revealed" /\ (r \in Board => r \in Orchestrated)

\* synthesize_with_model: neither the seats nor drafting runs hold it up.
StartSynthesis(c) ==
  /\ Up
  /\ c.i > 0 /\ syn[c] = "absent"
  /\ \A d \in SynthesisOf(c.of) : d.i \in 1..(c.i - 1) => syn[d] # "absent"
  /\ CanSynthesize(c.of)
  /\ SynthesisOf(c.of) \intersect workers = {}
  /\ \A d \in SynthesisOf(c.of) : SynStatus(d, workers) # "unknown"
  /\ ~Held(workers) /\ SlotFree(workers)
  /\ Affordable
  /\ used' = used + 1
  /\ \/ /\ syn' = [syn EXCEPT ![c] = "open"]
        /\ workers' = workers \union {c}
        /\ alive' = alive \union {c}
        /\ begun' = begun \union {c}
        /\ NoNews
     \/ /\ StartFaults
        /\ syn' = [syn EXCEPT ![c] = "failed"]
        /\ News({<<c, "failed">>})
        /\ UNCHANGED <<workers, alive, begun>>
  /\ UNCHANGED <<drafting, seat, roundAt, bound, mode, paused, settled, prepared, owed>>

\* The thread has its result; a tree that was not confirmed empty is told of as
\* a failure and keeps the slot, a result that cannot be stored is not told of.
SynthesisEnds(c) ==
  /\ c \in (workers \ settled) \intersect Synthesis
  /\ \/ /\ \E s \in {"completed", "failed"} :
             syn' = [syn EXCEPT ![c] = s] /\ News({<<c, s>>})
        /\ alive' = alive \ {c}
     \/ /\ syn' = [syn EXCEPT ![c] = "unconfirmed"]
        /\ News({<<c, "failed">>})
        /\ UNCHANGED alive
     \/ /\ StoreFaults
        /\ alive' \in {alive, alive \ {c}}
        /\ News({<<c, "result_not_stored">>})
        /\ UNCHANGED syn
  /\ settled' = settled \union {c}
  /\ UNCHANGED <<drafting, seat, roundAt, bound, used, mode, paused, workers, prepared, owed, begun>>

AcknowledgeSynthesis(c) ==
  /\ Command
  /\ SynStatus(c, workers) = "unknown"
  /\ syn' = [syn EXCEPT ![c] = "acknowledged"]
  /\ alive' = alive \ {c}
  /\ UNCHANGED <<drafting, seat, roundAt, bound, used, judged, mode, paused, workers, settled, prepared, begun, missed>>

\* synthesize: once per run, and never beside a completed model synthesis.
MockSynthesis(r) ==
  LET c == Id("synthesis", r, 0, 0) IN
  /\ Alive
  /\ CanSynthesize(r)
  /\ \A d \in SynthesisOf(r) : syn[d] # "completed"
  /\ syn' = [syn EXCEPT ![c] = "completed"]
  /\ News({<<c, "completed">>})
  /\ UNCHANGED <<drafting, seat, roundAt, bound, used, runtime, alive, begun>>

-----------------------------------------------------------------------------
(* The user's judgment (mark_reviewed).                                      *)

\* Fault: a call whose end is not confirmed does not hold the judgment.
PendingRunning(r) ==
  {c \in SynthesisOf(r) : SynStatus(c, workers) = "running"}
    \union {c \in Seat : RunsOf(c) = {r} /\ seat[c] \in {"running", "queued"}}

\* The calls a judgment of the run waits for.
Pending(r) ==
  {c \in SynthesisOf(r) : SynStatus(c, workers) \in InFlight}
    \union {c \in Seat : RunsOf(c) = {r} /\ seat[c] \in InFlight \union {"queued"}}

\* The revision the button carries is the one the screen shows; a judgment of
\* what has been judged already leaves no event.
MarkReviewed(r) ==
  /\ Alive
  /\ Open(r)
  /\ Pending(r) = {}
  /\ judged' = judged \union {r}
  /\ missed' = IF r \in judged THEN missed ELSE {e \in missed : r \notin RunsOf(e[1])}
  /\ UNCHANGED <<drafting, asking, used, runtime, alive, begun>>

-----------------------------------------------------------------------------
(* Runs and their participants, in larger steps than in Coordinator.         *)

\* What a run may be created from (_approved_refinement, _approved_proposal,
\* _approved_split).
Usable(c, r) ==
  /\ seat[c] = "accepted"
  /\ \A b \in bound : b[1] # c
  /\ CASE c.purpose = "refine" -> /\ r \in Supervised
                                 /\ RunOfRefinement(c.of) = {}
                                 /\ \A d \in Seat : d.purpose = "refine" /\ d.of = c.of => seat[d] \notin InFlight
       [] c.purpose = "next_step" -> Mode[r] = "isolated"
       [] OTHER -> Mode[r] = "general" /\ r \in Orchestrated

\* prepare_run, before create_run takes the lock.
PrepareRun(q) ==
  /\ Alive
  /\ phase[q.run] = "absent"
  /\ Cardinality(prepared) < MaxPrepared
  /\ \A c \in q.uses : Usable(c, q.run)
  /\ prepared' = prepared \union {q}
  /\ UNCHANGED <<ledger, mode, paused, workers, settled, owed, history>>

\* Fault: an unconfirmed end does not hold a board run.
BoardFreeOfRunning == OpenRuns = {} /\ CallsIn({"running"}, workers) = {}

BoardFree == OpenRuns = {} /\ CallsIn(InFlight, workers) = {}

\* Fault: only the turn itself must be unused, not its refinement.
UnusedTurn(c) == \A b \in bound : b[1] # c

Unused(c) == IF c.purpose = "refine" THEN RunOfRefinement(c.of) = {} ELSE \A b \in bound : b[1] # c

\* The transaction of create_run: what was approved must still be unused.
CreateRun(q) ==
  /\ q \in prepared
  /\ Command
  /\ prepared' = prepared \ {q}
  /\ Up
  /\ phase[q.run] = "absent"
  /\ q.run \in Board => BoardFree
  /\ \A c \in q.uses : Unused(c)
  /\ phase' = [phase EXCEPT ![q.run] = "drafting"]
  /\ state' = [p \in Part |-> IF RunOf[p] # q.run THEN state[p]
                              ELSE IF p \in Cli THEN "queued" ELSE "awaiting_user"]
  /\ bound' = bound \union (q.uses \X {q.run})
  /\ UNCHANGED <<cancelled, approved, seat, syn, roundAt, used, judged, mode, paused, workers, settled, history>>

\* create_run refuses what it had prepared.
RefuseRun(q) ==
  /\ Alive
  /\ q \in prepared
  /\ \/ ~Up
     \/ phase[q.run] # "absent"
     \/ q.run \in Board /\ ~BoardFree
     \/ \E c \in q.uses : ~Unused(c)
  /\ prepared' = prepared \ {q}
  /\ UNCHANGED <<ledger, mode, paused, workers, settled, owed, history>>

\* One participant moves to s, and the gate of its run is looked at again.
Decide(p, s) ==
  /\ state' = [state EXCEPT ![p] = s]
  /\ phase' = [phase EXCEPT ![RunOf[p]] = PhaseAfter(RunOf[p], state', phase, cancelled, approved)]

\* A result, stored or not: only an accepting run takes an answer.
DraftEnds(p) ==
  LET c == DraftOf(p) IN
  /\ c \in workers \ settled /\ state[p] = "running"
  /\ \E s \in {"accepted", "rejected", "unknown"} :
       /\ s = "accepted" => Accepting(RunOf[p], phase, cancelled)
       /\ Decide(p, s)
       /\ alive' = IF s = "unknown" THEN alive ELSE alive \ {c}
  /\ settled' = settled \union {c}
  /\ UNCHANGED <<cancelled, approved, asking, used, judged, mode, paused, workers, prepared, owed, begun, missed>>

ManualEnds(p) ==
  /\ Command
  /\ state[p] = "awaiting_user" /\ Accepting(RunOf[p], phase, cancelled)
  /\ \E s \in Done : Decide(p, s)
  /\ UNCHANGED <<cancelled, approved, asking, used, judged, mode, paused, workers, settled, prepared, history>>

ApproveReduction(r) ==
  /\ Command
  /\ CanApproveReduction(r, state, phase, cancelled, approved)
  /\ approved' = approved \union {r}
  /\ phase' = [phase EXCEPT ![r] = PhaseAfter(r, state, phase, cancelled, approved')]
  /\ UNCHANGED <<cancelled, state, asking, used, judged, mode, paused, workers, settled, prepared, history>>

CancelRun(r) ==
  /\ Command
  /\ Accepting(r, phase, cancelled) \/ r \in cancelled
  /\ cancelled' = cancelled \union {r}
  /\ state' = [p \in Part |-> IF RunOf[p] = r /\ state[p] \in {"queued", "awaiting_user"}
                              THEN "rejected" ELSE state[p]]
  /\ UNCHANGED <<phase, approved, asking, used, judged, mode, paused, workers, settled, prepared, history>>

AcknowledgeUnknown(p) ==
  /\ Command
  /\ state[p] = "unknown"
  /\ Decide(p, "rejected")
  /\ alive' = alive \ {DraftOf(p)}
  /\ UNCHANGED <<cancelled, approved, asking, used, judged, mode, paused, workers, settled, prepared, begun, missed>>

Resume ==
  /\ Command
  /\ Up
  /\ paused' = FALSE
  /\ UNCHANGED <<ledger, mode, workers, settled, prepared, history>>

Shutdown ==
  /\ Up
  /\ mode' = "closing"
  /\ paused' = TRUE
  /\ UNCHANGED <<ledger, workers, settled, prepared, owed, history>>

Crash ==
  /\ Alive
  /\ mode' = "down"
  /\ paused' = FALSE
  /\ workers' = {}
  /\ settled' = {}
  /\ prepared' = {}
  /\ owed' = 0
  /\ UNCHANGED <<ledger, history>>

\* Fault: a call that was in flight is put back in the queue.
RecoveredToQueue(s) == IF s = "running" THEN "queued" ELSE s

Recovered(s) == IF s = "running" THEN "unknown" ELSE s

\* _recover, then the review rounds without starting one, then the pause.
Restart ==
  LET s == [c \in Seat |-> Recovered(seat[c])]
      lost == {<<c, "unknown">> : c \in {d \in Seat : seat[d] = "running"} \union {d \in Synthesis : syn[d] = "open"}}
      broken == {r \in Idle(s) : Broken(r, s)}
  IN /\ mode = "down"
     /\ mode' = "up"
     /\ state' = [p \in Part |-> Recovered(state[p])]
     /\ phase' = [r \in Run |-> IF phase[r] = "drafting"
                                THEN PhaseAfter(r, state', phase, cancelled, approved) ELSE phase[r]]
     /\ seat' = Skip(broken, s)
     /\ News(lost \union Skipped(broken, s))
     /\ paused' = (Queue # {} \/ \E c \in Reviews : seat'[c] = "queued")
     /\ UNCHANGED <<cancelled, approved, syn, roundAt, bound, used, workers, settled, prepared, owed, alive, begun>>

-----------------------------------------------------------------------------
AskStep == \E c \in Seat : Ask(c)

ReviewStep == \E r \in Run : CrossReview(r)

SeatStep == \E c \in Seat : SeatEnds(c) \/ SeatLost(c) \/ AcknowledgeSeat(c)

SynthesisStep ==
  \/ \E c \in Synthesis : StartSynthesis(c) \/ SynthesisEnds(c) \/ AcknowledgeSynthesis(c)
  \/ \E r \in Run : MockSynthesis(r)

RunStep ==
  \/ \E q \in Request : PrepareRun(q) \/ CreateRun(q) \/ RefuseRun(q)
  \/ \E p \in Part : DraftEnds(p) \/ ManualEnds(p) \/ AcknowledgeUnknown(p)
  \/ \E r \in Run : ApproveReduction(r) \/ CancelRun(r) \/ MarkReviewed(r)

PumpStep == Pump \/ \E c \in Call : Exit(c)

WorldStep == Resume \/ Shutdown \/ Crash \/ Restart

Next == AskStep \/ ReviewStep \/ SeatStep \/ SynthesisStep \/ RunStep \/ PumpStep \/ WorldStep

Spec == Init /\ [][Next]_vars

-----------------------------------------------------------------------------
(* Properties.                                                               *)

\* Over seven tables, review rounds advanced by pump(), crashes and unconfirmed
\* ends, at most one upper call may have a live process (_supervisor_busy,
\* invocations.py:154: "one at a time").
OneUpperCall == Cardinality(alive \intersect Seat) <= 1

\* Participants, upper calls and syntheses together never have more live
\* processes than max_parallel, those a user has vouched for aside (_slots_used).
SlotsBound == Cardinality(alive) <= MaxParallel

\* Every call that was ever begun has its reservation, and the reservations
\* of all kinds together stay within the cap (_start_seat, invocations.py:123).
EveryCallPaid == Cardinality(begun) <= used /\ used <= CallCap

\* Nothing is called a second time: not after a restart, an unconfirmed end, a
\* lost result or an acknowledgement (coordinator.py:329, 499, 509).
NeverCalledAgain == [][\A c \in workers' \ workers : c \notin begun]_vars

\* A reviewer is called only after every reviewer before it was accepted; one
\* that failed, was lost or acknowledged ends the round (reviews.py:397).
ReviewersInOrder ==
  \A c \in Reviews \intersect begun :
    \A d \in ReviewedBefore(c) : seat[d] \in {"absent", "accepted"}

\* No upper call starts beside a run that still takes answers, whichever path
\* starts it (_upper_call_gate, invocations.py:172).
UpperCallsAlone == [][(workers' \ workers) \intersect Seat # {} => OpenRuns = {}]_vars

\* A run from a role board starts with no process alive but those a user has
\* vouched for (create_run, work.py:44).
BoardStartsClean ==
  [][\A r \in Board : phase[r] = "absent" /\ phase'[r] # "absent" => alive = {}]_vars

\* What a run was created from was accepted and is used for no other run; a used
\* refinement has one used turn and no turn under way, though all of this was
\* looked at before the lock (work.py:60-80).
BindingHolds ==
  /\ \A b \in bound : seat[b[1]] = "accepted"
  /\ \A b, d \in bound :
       (b[1] = d[1] \/ (b[1].purpose = "refine" /\ d \in RunOfRefinement(b[1].of))) => b = d
  /\ \A c \in Seat : c.purpose = "refine" /\ seat[c] \in InFlight => RunOfRefinement(c.of) = {}

\* A further revision answers a recheck: where an earlier revision of the answer
\* was accepted, another member's recheck of the last such one was too
\* (revisions.py:73).
RevisionsRechecked ==
  \A c \in Revisions \intersect begun :
    LET accepted == {d \in Earlier(c) : seat[d] = "accepted"} IN
    \A d \in accepted :
      (\A e \in accepted : e.i <= d.i) =>
        \E k \in Rechecks : k.of = d.of /\ k.n = d.i /\ seat[k] = "accepted"

\* When the user closes the judgment of a run, no call of the run is alive but
\* those the user has vouched for (mark_reviewed, reviews.py:485-497).
JudgmentAfterCalls ==
  [][\A r \in judged' \ judged : \A c \in alive : r \notin RunsOf(c)]_vars

\* Every way a call ends is news to the judgment, an unconfirmed end included
\* (the comment of RESULT_EVENTS, repository.py:11).
EveryEndingIsNews == missed = {}

\* A round could move, and no thread is on its way to pump().
RoundStalled ==
  /\ Up
  /\ owed = 0 /\ settled = {}
  /\ \E r \in Idle(seat) :
       Broken(r, seat) \/ (~Held(workers) /\ ReviewGate(workers) /\ used < CallCap)

\* Whatever frees the seat or the slot of the next reviewer, or ends its round,
\* also brings a pump (reviews.py:397, coordinator.py:40).
NoForgottenRound == ~StartFaults => ~RoundStalled

\* What planning asks of the upper model: one call at a time, each paid within
\* the cap, and what they gave is used for one run (InvocationLedger, create_run).
PlanningSound == TypeOK /\ OneUpperCall /\ EveryCallPaid /\ BindingHolds

\* No step calls anything again or starts a board run beside a live process.
PlanningStarts == NeverCalledAgain /\ BoardStartsClean

\* A round stays within the slots, keeps its order and is never forgotten, beside
\* syntheses, pastes and results that cannot be stored (_advance_reviews).
RoundsSound == SlotsBound /\ ReviewersInOrder /\ NoForgottenRound

\* No step calls a reviewer beside an open run, or judges before a call is over.
RoundsInTurn == UpperCallsAlone /\ JudgmentAfterCalls

-----------------------------------------------------------------------------
(* Liveness: threads get the lock, calls end.  No step but a crash takes     *)
(* these steps away, so weak fairness of each kind is enough.                *)

Fairness ==
  /\ WF_vars(Pump)
  /\ \A c \in Call : WF_vars(Exit(c))
  /\ WF_vars(\E c \in Seat : SeatEnds(c))
  /\ WF_vars(\E c \in Synthesis : SynthesisEnds(c))
  /\ WF_vars(\E p \in Part : DraftEnds(p))

FairSpec == Spec /\ Fairness

\* Nothing is left that only the user or a restart can clear.
Unblocked ==
  /\ Up /\ ~paused
  /\ CallsIn({"unknown"}, workers) = {}
  /\ OpenRuns = {}
  /\ used < CallCap
  /\ \A c \in Seat : seat[c] = "running" => c \in workers

\* A round ends: with nothing left to clear for good, every reviewer that waits
\* is called or its turn is closed (reviews.py:397).
RoundsEnd ==
  <>[]Unblocked => \A c \in Reviews : (seat[c] = "queued") ~> (seat[c] # "queued")

=============================================================================
