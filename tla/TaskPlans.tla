------------------------------- MODULE TaskPlans -------------------------------
(***************************************************************************)
(* Tasks, their plans and the runs started under them (app/application/     *)
(* tasks.py, work.py, app/workflow.py, app/context/inputs.py).  A plan has  *)
(* a revision and prerequisites; a run freezes the plan it was prepared     *)
(* under and the results of the prerequisites the user was shown.           *)
(*                                                                         *)
(* The life of a run is that of module Coordinator in larger steps: a run   *)
(* has one participant, and of the upper calls about its result one at a     *)
(* time, which may wait for its turn as a review does.  A call for a task that belongs to no run yet (a split, or   *)
(* a refinement that read the task's memory) is `planning`.                 *)
(*                                                                         *)
(* Goals, sources, assignments and the memory that is packed into the input  *)
(* are left out, and with them the part of the confirmation that is about    *)
(* them; slots and the budget are module UpperCalls'.                       *)
(***************************************************************************)
EXTENDS Projection, FiniteSetsExt

CONSTANTS
  Task,           \* task_id
  Run,            \* run_id
  Mode,           \* runs.mode: "isolated" or "general"
  Transport,      \* how the participant of a run answers: "cli" or "manual"
  Board,          \* the runs created from a role board
  UnsettledLimit, \* Runtime.unsettled_limit
  MaxSaves,       \* bound: plans saved
  MaxPrepared,    \* bound: runs being prepared before the lock is taken
  OwnTask,        \* the task a run makes for itself if it is given none, "none" if it is always given one
  MaxResults      \* bound: calls about the result of a run

ASSUME TaskPlansAssumption ==
  /\ IsFiniteSet(Task)
  /\ IsFiniteSet(Run)
  /\ Mode \in [Run -> {"isolated", "general"}]
  /\ Transport \in [Run -> {"cli", "manual"}]
  /\ Board \subseteq Run
  /\ \A r \in Run : Mode[r] = "general" => r \in Board /\ Transport[r] = "cli"
  /\ UnsettledLimit \in Nat \ {0}
  /\ OwnTask \in [Run -> Task \union {"none"}]
  /\ \A r, q \in Run : OwnTask[r] = OwnTask[q] => r = q \/ OwnTask[r] = "none"
  /\ {MaxSaves, MaxPrepared, MaxResults} \subseteq Nat

VARIABLES
  (* The ledger: durable. *)
  tasks,     \* rows of the tasks table
  revision,  \* task_plans.revision, 0 for a task without a plan
  deps,      \* task_plans.depends_on
  run,       \* rows of the runs table with what hangs on them, NoRun for none
  last,      \* created_at: how many runs there were when the run was created
  planning,  \* state of the task's call that belongs to no run
  (* The process. *)
  paused,    \* Runtime.paused
  prepared   \* what prepare_run has let through, waiting for the lock

plans == <<tasks, revision, deps>>
runs == <<run, last>>
vars == <<plans, runs, planning, paused, prepared>>

NoRun == [task |-> "none"]

Nothing == [task |-> "none"]

NoPlan == [revision |-> 0, evidence |-> {}]

CallState == {"queued", "running", "accepted", "rejected", "unknown"}

(***************************************************************************)
(* What a ledger may hold of a run, with any number of calls: what comes     *)
(* after the answers needs them open, an open run was not cancelled, and a    *)
(* proposal or a synthesis needs an isolated run.                            *)
(***************************************************************************)
PossibleFacts ==
  {f \in [mode : {"isolated", "general"}, parts : SUBSET (CallState \union {"awaiting_user"}),
          checked : SUBSET (CallState \union {"skipped"}), asked : SUBSET (CallState \ {"queued"}),
          gathered : SUBSET (CallState \ {"queued"}), synth : {"none", "running", "unknown", "completed", "failed"},
          cancelled : BOOLEAN, open : BOOLEAN, consent : BOOLEAN, blocked : BOOLEAN, judged : BOOLEAN] :
     /\ f.open => f.parts \subseteq {"accepted", "rejected"} /\ ~f.cancelled
     /\ ~f.open => f.checked \union f.asked \union f.gathered = {} /\ f.synth = "none" /\ ~f.judged
     /\ f.mode = "general" => f.asked = {} /\ f.synth = "none"
     /\ f.mode = "isolated" => f.gathered = {}
     /\ f.consent \/ f.blocked => f.mode = "isolated" /\ ~f.open}

Exists(r) == run[r] # NoRun

Created == {r \in Run : Exists(r)}

\* What a run has frozen of its plan.
Frozen == [revision : Nat, evidence : SUBSET [dep : Task, revision : Nat, done : SUBSET (Run \X Nat)]]

RunRow ==
  [task : Task, policy : Frozen, part : CallState \union {"awaiting_user"}, cancelled : BOOLEAN, approved : BOOLEAN,
   open : BOOLEAN, review : CallState \union {"none"}, result : Nat, judged : BOOLEAN]

TypeOK ==
  /\ tasks \subseteq Task
  /\ revision \in [Task -> Nat]
  /\ deps \in [Task -> SUBSET Task]
  /\ DOMAIN run = Run
  /\ \A r \in Run : run[r] = NoRun \/ run[r] \in RunRow
  /\ last \in [Run -> Nat]
  /\ planning \in [Task -> {"none", "running", "unknown"}]
  /\ paused \in BOOLEAN
  /\ DOMAIN prepared = Run
  /\ \A r \in Run : prepared[r] = Nothing \/ prepared[r] \in [task : Task, policy : Frozen]

Init ==
  /\ tasks = {}
  /\ revision = [t \in Task |-> 0]
  /\ deps = [t \in Task |-> {}]
  /\ run = [r \in Run |-> NoRun]
  /\ last = [r \in Run |-> 0]
  /\ planning = [t \in Task |-> "none"]
  /\ paused = FALSE
  /\ prepared = [r \in Run |-> Nothing]

-----------------------------------------------------------------------------
(* What queries.view makes of the ledger.                                    *)

UnknownCalls ==
  Cardinality({r \in Created : run[r].part = "unknown"}) + Cardinality({r \in Created : run[r].review = "unknown"})
    + Cardinality({t \in Task : planning[t] = "unknown"})

Held == IF paused THEN "paused" ELSE IF UnknownCalls >= UnsettledLimit THEN "unsettled" ELSE "none"

Settled(c) == c.part \in {"accepted", "rejected"}

Accepting(c) == ~c.open /\ ~c.cancelled

Facts(r) ==
  LET c == run[r]
      short == Mode[r] = "isolated" /\ Accepting(c) /\ c.part = "rejected"
  IN  [mode |-> Mode[r], parts |-> {c.part}, checked |-> {c.review} \ {"none"}, asked |-> {}, gathered |-> {},
       synth |-> "none", cancelled |-> c.cancelled, open |-> c.open, consent |-> short /\ ~c.approved,
       blocked |-> short /\ c.approved, judged |-> c.judged]

Status(r) == RunStatus(Facts(r), Held)

RunsOf(t) == {r \in Created : run[r].task = t}

Planned(t) == revision[t] > 0

\* The runs that count for a task: those of its current plan.
Current(t) == {r \in RunsOf(t) : Planned(t) => run[r].policy.revision = revision[t]}

Latest(t) == CHOOSE r \in RunsOf(t) : \A q \in RunsOf(t) : last[q] <= last[r]

Fresh(t) == Planned(t) => RunsOf(t) # {} /\ run[Latest(t)].policy.revision = revision[t]

StatusOf(R) == IF R = {} THEN "my_turn" ELSE Worst({Status(r) : r \in R})

Complete(t) ==
  /\ Current(t) # {}
  /\ \A r \in Current(t) : Status(r) = "done"
  /\ Planned(t) => \A r \in RunsOf(t) : ~Active(Facts(r)) /\ ~Unsettled(Facts(r))
  /\ planning[t] = "none"

\* The tasks the view lists.
Listed == {t \in tasks : Planned(t) \/ RunsOf(t) # {}}

CompleteTasks == {t \in Listed : Complete(t)}

Done == Finished(Listed, deps, CompleteTasks)

OwnStatus(t) ==
  LET status == IF Planned(t) /\ \E r \in RunsOf(t) : Unsettled(Facts(r)) THEN "problem" ELSE StatusOf(Current(t))
  IN  IF planning[t] = "none" THEN status
      ELSE IF planning[t] = "unknown" \/ status = "problem" THEN "problem" ELSE "working"

TaskStatus(t) ==
  LET status == IF OwnStatus(t) = "done" /\ ~Fresh(t) THEN "my_turn" ELSE OwnStatus(t)
  IN  IF ~(deps[t] \subseteq Done) /\ status \notin {"working", "problem"} THEN "blocked" ELSE status

(***************************************************************************)
(* What the screen lists as waiting for the user (inbox, unattached_inputs). *)
(***************************************************************************)
NeedsPreparing(t) ==
  /\ RunsOf(t) = {} \/ ~Fresh(t)
  /\ deps[t] \subseteq Done
  /\ TaskStatus(t) \notin {"working", "problem"}

\* Fault: a run of an earlier plan is history, whatever it is still doing.
Historical(r) == Planned(run[r].task) /\ run[r].policy.revision # revision[run[r].task]

Past(r) ==
  /\ Planned(run[r].task)
  /\ run[r].policy.revision # revision[run[r].task]
  /\ ~Unsettled(Facts(r))
  /\ ~Active(Facts(r))

Inbox ==
  (UNION {{[kind |-> "dependency", task |-> t, about |-> d, why |-> Blocks(d, Listed, deps, CompleteTasks, {u \in Listed : Fresh(u)})] :
               d \in deps[t] \ Done} : t \in Listed})
    \union {[kind |-> "prepare", task |-> t, about |-> t, why |-> "none"] : t \in {u \in Listed : NeedsPreparing(u)}}
    \union {[kind |-> "attention", task |-> run[r].task, about |-> r, why |-> "none"] :
              r \in {q \in Created : ~Past(q) /\ Status(q) \in {"my_turn", "problem"}}}
    \union {[kind |-> "unattached", task |-> t, about |-> t, why |-> "none"] : t \in {u \in Task : planning[u] = "unknown"}}

(***************************************************************************)
(* What is frozen into a run of t (require_ready): of every prerequisite its *)
(* revision and its finished runs with their results.                        *)
(***************************************************************************)
Evidence(t) ==
  {[dep |-> d, revision |-> revision[d],
    done |-> {<<r, run[r].result>> : r \in {q \in Current(d) : Status(q) = "done"}}] : d \in deps[t]}

Ready(t) == Planned(t) => deps[t] \subseteq Done

Policy(t) == IF Planned(t) THEN [revision |-> revision[t], evidence |-> Evidence(t)] ELSE NoPlan

-----------------------------------------------------------------------------
(* Plans.                                                                    *)

\* All that can be reached from the tasks D.
Reach(D, graph) ==
  {u \in Task : \A C \in SUBSET Task : D \subseteq C /\ (\A v \in C : graph[v] \subseteq C) => u \in C}

\* Fault: the plans saved since the screen was drawn are not looked at.
CyclicBySelf(t, D) == t \in D

Cyclic(t, D) == t \in Reach(D, [deps EXCEPT ![t] = D])

\* Fault: an attempt that waits for its turn does not count.
BusyWhileRunning(t) ==
  \/ planning[t] # "none"
  \/ \E r \in RunsOf(t) : run[r].part \in {"running", "unknown"} \/ run[r].review \in {"running", "unknown"}

Busy(t) ==
  \/ planning[t] # "none"
  \/ \E r \in RunsOf(t) : \/ run[r].part \in {"running", "unknown"}
                          \/ ~run[r].cancelled /\ run[r].part \in {"queued", "awaiting_user"}
                          \/ Active(Facts(r))
                          \/ Unsettled(Facts(r))

\* How many plans have been saved, of all tasks.
Saves == FoldSet(LAMBDA t, n : n + revision[t], 0, Task)

\* seen is the revision the screen shows: the plan is refused unless it is the stored one.
SavePlan(t, seen, D) ==
  /\ t \in tasks \/ \A r \in Run : t # OwnTask[r]
  /\ seen = revision[t]
  /\ Saves < MaxSaves
  /\ t \notin D
  /\ D \subseteq tasks
  /\ ~Cyclic(t, D)
  /\ ~Busy(t)
  /\ tasks' = tasks \union {t}
  /\ revision' = [revision EXCEPT ![t] = @ + 1]
  /\ deps' = [deps EXCEPT ![t] = D]
  /\ UNCHANGED <<runs, planning, paused, prepared>>

-----------------------------------------------------------------------------
(* From the confirmation to the run.                                         *)

(***************************************************************************)
(* create_run up to the lock.  The input is made again and its digest must   *)
(* be that of the preview the user confirmed, so what is prepared is what    *)
(* the user has seen.                                                        *)
(***************************************************************************)
PrepareRun(r, t) ==
  /\ prepared[r] = Nothing
  /\ Cardinality({q \in Run : prepared[q] # Nothing}) < MaxPrepared
  /\ t \in tasks \/ t = OwnTask[r]
  /\ Ready(t)
  /\ prepared' = [prepared EXCEPT ![r] = [task |-> t, policy |-> Policy(t)]]
  /\ UNCHANGED <<plans, runs, planning, paused>>

BoardFree ==
  /\ \A r \in Created : run[r].open \/ run[r].cancelled
  /\ \A r \in Created : {run[r].part, run[r].review} \intersect {"running", "unknown"} = {}
  /\ \A t \in Task : planning[t] = "none"

NewRun(r, t, p) ==
  [task |-> t, policy |-> p, part |-> IF Transport[r] = "cli" THEN "queued" ELSE "awaiting_user",
   cancelled |-> FALSE, approved |-> FALSE, open |-> FALSE, review |-> "none", result |-> 0, judged |-> FALSE]

\* Fault: the plan is not looked at again under the lock.
CreateUnchecked(r) ==
  /\ prepared[r] # Nothing
  /\ ~Exists(r)
  /\ r \in Board => BoardFree
  /\ tasks' = tasks \union {prepared[r].task}
  /\ run' = [run EXCEPT ![r] = NewRun(r, prepared[r].task, prepared[r].policy)]
  /\ last' = [last EXCEPT ![r] = Cardinality(Created) + 1]
  /\ prepared' = [prepared EXCEPT ![r] = Nothing]
  /\ UNCHANGED <<revision, deps, planning, paused>>

CreateRun(r) ==
  /\ prepared[r] # Nothing
  /\ Ready(prepared[r].task)
  /\ prepared[r].policy = Policy(prepared[r].task)
  /\ ~Exists(r)
  /\ r \in Board => BoardFree
  /\ tasks' = tasks \union {prepared[r].task}
  /\ run' = [run EXCEPT ![r] = NewRun(r, prepared[r].task, prepared[r].policy)]
  /\ last' = [last EXCEPT ![r] = Cardinality(Created) + 1]
  /\ prepared' = [prepared EXCEPT ![r] = Nothing]
  /\ UNCHANGED <<revision, deps, planning, paused>>

\* create_run refuses what it has prepared.
Refuse(r) ==
  /\ prepared[r] # Nothing
  /\ prepared' = [prepared EXCEPT ![r] = Nothing]
  /\ UNCHANGED <<plans, runs, planning, paused>>

-----------------------------------------------------------------------------
(* The life of a run.                                                        *)

Change(r, c) ==
  /\ run' = [run EXCEPT ![r] = c]
  /\ UNCHANGED <<plans, last, planning, paused, prepared>>

\* _maybe_reveal, and collecting a general run, with the participant's new state.
Reveal(r, c) == [c EXCEPT !.open = \/ @
                                   \/ Accepting(c) /\ Settled(c) /\ (Mode[r] = "general" \/ c.part = "accepted")]

MayStart == Held = "none"

StartAttempt(r) ==
  /\ Exists(r)
  /\ MayStart
  /\ Accepting(run[r])
  /\ run[r].part = "queued"
  /\ Change(r, [run[r] EXCEPT !.part = "running"])

EndAttempt(r) ==
  /\ Exists(r)
  /\ run[r].part = "running"
  /\ \E s \in {"accepted", "rejected", "unknown"} :
       /\ s = "accepted" => Accepting(run[r])
       /\ Change(r, Reveal(r, [run[r] EXCEPT !.part = s]))

SubmitManual(r) ==
  /\ Exists(r)
  /\ Accepting(run[r])
  /\ run[r].part = "awaiting_user"
  /\ Change(r, Reveal(r, [run[r] EXCEPT !.part = "accepted"]))

WithdrawManual(r) ==
  /\ Exists(r)
  /\ Accepting(run[r])
  /\ run[r].part = "awaiting_user"
  /\ Change(r, Reveal(r, [run[r] EXCEPT !.part = "rejected"]))

AcknowledgeUnknown(r) ==
  /\ Exists(r)
  /\ run[r].part = "unknown"
  /\ Change(r, Reveal(r, [run[r] EXCEPT !.part = "rejected"]))

ApproveReduction(r) ==
  /\ Exists(r)
  /\ Facts(r).consent
  /\ Change(r, [run[r] EXCEPT !.approved = TRUE])

CancelRun(r) ==
  /\ Exists(r)
  /\ Accepting(run[r])
  /\ Change(r, [run[r] EXCEPT !.cancelled = TRUE,
                              !.part = IF @ \in {"queued", "awaiting_user"} THEN "rejected" ELSE @])

InFlight == {"running", "unknown"}

UpperFree ==
  /\ \A r \in Created : run[r].review \notin InFlight /\ ~Accepting(run[r])
  /\ \A t \in Task : planning[t] = "none"

AskReview(r) ==
  /\ Exists(r)
  /\ MayStart
  /\ UpperFree
  /\ run[r].open
  /\ run[r].review # "queued"
  /\ run[r].result < MaxResults
  /\ Change(r, [run[r] EXCEPT !.review = "queued"])

StartReview(r) ==
  /\ Exists(r)
  /\ MayStart
  /\ UpperFree
  /\ run[r].review = "queued"
  /\ Change(r, [run[r] EXCEPT !.review = "running"])

\* The end of a review is a new result: the judgment before it is outdated.
EndReview(r) ==
  /\ Exists(r)
  /\ run[r].review = "running"
  /\ \E s \in {"accepted", "rejected", "unknown"} :
       Change(r, [run[r] EXCEPT !.review = s, !.result = @ + 1, !.judged = FALSE])

AcknowledgeReview(r) ==
  /\ Exists(r)
  /\ run[r].review = "unknown"
  /\ Change(r, [run[r] EXCEPT !.review = "rejected"])

MarkReviewed(r, seen) ==
  /\ Exists(r)
  /\ run[r].open
  /\ run[r].review \notin {"queued", "running", "unknown"}
  /\ seen = run[r].result
  /\ ~run[r].judged
  /\ Change(r, [run[r] EXCEPT !.judged = TRUE])

-----------------------------------------------------------------------------
(* Calls that belong to no run yet, and the process.                         *)

StartPlanning(t) ==
  /\ t \in tasks
  /\ MayStart
  /\ UpperFree
  /\ planning' = [planning EXCEPT ![t] = "running"]
  /\ UNCHANGED <<plans, runs, paused, prepared>>

EndPlanning(t) ==
  /\ planning[t] = "running"
  /\ \E s \in {"none", "unknown"} : planning' = [planning EXCEPT ![t] = s]
  /\ UNCHANGED <<plans, runs, paused, prepared>>

AcknowledgePlanning(t) ==
  /\ planning[t] = "unknown"
  /\ planning' = [planning EXCEPT ![t] = "none"]
  /\ UNCHANGED <<plans, runs, paused, prepared>>

\* A new process after a shutdown or a crash: what ran is unknown.
Restart ==
  /\ paused' = (paused \/ \E r \in Created : "queued" \in {run[r].part, run[r].review} /\ ~run[r].cancelled)
  /\ run' = [r \in Run |-> IF Exists(r)
                           THEN [run[r] EXCEPT !.part = IF @ = "running" THEN "unknown" ELSE @,
                                               !.review = IF @ = "running" THEN "unknown" ELSE @]
                           ELSE NoRun]
  /\ planning' = [t \in Task |-> IF planning[t] = "running" THEN "unknown" ELSE planning[t]]
  /\ prepared' = [r \in Run |-> Nothing]
  /\ UNCHANGED <<plans, last>>

Resume ==
  /\ paused
  /\ paused' = FALSE
  /\ UNCHANGED <<plans, runs, planning, prepared>>

PlanStep == \E t \in Task : \E seen \in 0..MaxSaves, D \in SUBSET Task : SavePlan(t, seen, D)

RunStep ==
  \E r \in Run :
    \/ CreateRun(r) \/ Refuse(r) \/ StartAttempt(r) \/ EndAttempt(r) \/ SubmitManual(r)
    \/ WithdrawManual(r) \/ AcknowledgeUnknown(r) \/ ApproveReduction(r) \/ CancelRun(r) \/ AskReview(r) \/ StartReview(r)
    \/ EndReview(r) \/ AcknowledgeReview(r)
    \/ \E t \in Task : PrepareRun(r, t)
    \/ \E seen \in 0..MaxResults : MarkReviewed(r, seen)

PlanningStep == \E t \in Task : StartPlanning(t) \/ EndPlanning(t) \/ AcknowledgePlanning(t)

Next == PlanStep \/ RunStep \/ PlanningStep \/ Restart \/ Resume

Spec == Init /\ [][Next]_vars

-----------------------------------------------------------------------------
(* Properties.                                                               *)

(***************************************************************************)
(* Tasks never wait for each other: in every set of tasks there is one that  *)
(* depends on none of the set.  tasks.save looks for a cycle under the lock, *)
(* although the screen offered the prerequisites before another plan was     *)
(* saved.                                                                    *)
(***************************************************************************)
PlansAcyclic == \A S \in SUBSET Task : S # {} => \E t \in S : deps[t] \intersect S = {}

(***************************************************************************)
(* An attempt that has not ended drafts under the current plan of its task:  *)
(* a plan is not saved under it, and it is not created under a plan that     *)
(* was saved between its preview, its preparation and the lock.              *)
(***************************************************************************)
DraftsUnderCurrentPlan ==
  \A r \in Created : run[r].part \notin {"accepted", "rejected"} => run[r].policy.revision = revision[run[r].task]

(***************************************************************************)
(* A run starts on finished work: when it is created, all that its task      *)
(* rests on, near or far, has a judged result of its current plan and no call *)
(* that runs or may be running, and the run has frozen the results there are *)
(* then, although a plan, a judgment or a new review may have come between   *)
(* its preparation and the lock.                                             *)
(***************************************************************************)
StartsOnFinishedWork ==
  [][\A r \in Run : ~Exists(r) /\ run'[r] # NoRun =>
       LET new == run'[r] IN
       /\ new.policy.revision = revision[new.task]
       /\ \A u \in Under(new.task, deps) \ {new.task} :
            /\ planning[u] = "none"
            /\ \E q \in Current(u) : run[q].open /\ run[q].judged
            /\ \A q \in RunsOf(u) : {run[q].part, run[q].review} \intersect InFlight = {}
       /\ \A e \in new.policy.evidence : e.revision = revision[e.dep] /\ \A d \in e.done : d[2] = run[d[1]].result]_vars

(***************************************************************************)
(* Nothing waits for the user unseen: a task the list calls blocked, a       *)
(* problem or the user's turn, and every call that may still be running with  *)
(* nobody waiting for it, has an entry in the inbox (workflow.inbox leaves    *)
(* out the runs of earlier plans).  What it says of a prerequisite is        *)
(* something the user can act on: no saved plan names a missing task or a    *)
(* cycle.                                                                    *)
(***************************************************************************)
NobodyWaitsUnseen ==
  LET box == Inbox IN
  /\ \A t \in Listed : TaskStatus(t) \in {"blocked", "problem", "my_turn"} => \E i \in box : i.task = t
  /\ \A r \in Created : "unknown" \in {run[r].part, run[r].review} => \E i \in box : i.about = r
  /\ \A t \in Task : planning[t] = "unknown" => \E i \in box : i.about = t
  /\ \A i \in box : i.why \in {"none", "plan_changed", "not_completed"}

=============================================================================
