---------------------------- MODULE WorkbenchProofs ----------------------------
(***************************************************************************)
(* Theorems about the tasks and what is kept with their runs: that tasks never *)
(* wait for each other, what a run starts on and what the screen says of it,     *)
(* what a collation is given, the templates of work, what is told of a sealed    *)
(* run, and what can be sent of what an upper model proposed, each for every     *)
(* value of its constants.  Each part is proved about by itself; at the end      *)
(* what holds of a part is shown to hold of Workbench, in which one of them      *)
(* moves.                                                                   *)
(*                                                                         *)
(* The recursive functions of Projection are reasoned about by induction     *)
(* over the rounds (CountUp of Recursion), once Iterates has                 *)
(* shown that a function so defined exists.                                  *)
(***************************************************************************)
EXTENDS Workbench, Recursion, FunctionTheorems

-----------------------------------------------------------------------------
(* Tasks never wait for each other.                                          *)

Graphs == [Task -> SUBSET Task]

Acyclic(graph) == \A S \in SUBSET Task : S # {} => \E t \in S : graph[t] \intersect S = {}

(***************************************************************************)
(* What can be reached is closed, and holds where one starts.                *)
(***************************************************************************)
LEMMA ReachCloses ==
  ASSUME NEW graph \in Graphs, NEW D \in SUBSET Task
  PROVE  /\ D \subseteq Reach(D, graph)
         /\ \A u \in Reach(D, graph) : graph[u] \subseteq Reach(D, graph)
<1>1. D \subseteq Reach(D, graph)
  BY DEF Reach
<1>2. ASSUME NEW u \in Reach(D, graph), NEW v \in graph[u]
      PROVE  v \in Reach(D, graph)
  <2>1. u \in Task /\ v \in Task
    BY <1>2 DEF Reach, Graphs
  <2>2. ASSUME NEW C \in SUBSET Task, D \subseteq C, \A w \in C : graph[w] \subseteq C
        PROVE  v \in C
    <3>1. u \in C
      BY <2>2, <2>1, <1>2 DEF Reach
    <3>2. QED
      BY <3>1, <2>2, <1>2
  <2>3. QED
    BY <2>1, <2>2 DEF Reach
<1>3. QED
  BY <1>1, <1>2

(***************************************************************************)
(* A plan whose prerequisites do not lead back to its task keeps the plans   *)
(* acyclic: a set in which every task waits for another of the set would     *)
(* have one without t already before, what the new prerequisites reach of it. *)
(***************************************************************************)
LEMMA PlanKeepsAcyclic ==
  ASSUME NEW graph \in Graphs, Acyclic(graph),
         NEW t \in Task, NEW D \in SUBSET Task,
         t \notin Reach(D, [graph EXCEPT ![t] = D])
  PROVE  Acyclic([graph EXCEPT ![t] = D])
<1> DEFINE new == [graph EXCEPT ![t] = D]
           R == Reach(D, new)
<1>1. new \in Graphs /\ new[t] = D /\ \A u \in Task \ {t} : new[u] = graph[u]
  BY DEF Graphs
<1>2. R \subseteq Task /\ D \subseteq R /\ \A u \in R : new[u] \subseteq R
  <2>1. D \subseteq R /\ \A u \in R : new[u] \subseteq R
    BY <1>1, ReachCloses
  <2>2. R \subseteq Task
    BY DEF Reach
  <2>3. QED
    BY <2>1, <2>2
<1>3. SUFFICES ASSUME NEW S \in SUBSET Task, S # {}, \A u \in S : new[u] \intersect S # {}
               PROVE  FALSE
  BY DEF Acyclic
<1>4. CASE t \notin S
  <2>1. \A u \in S : graph[u] \intersect S # {}
    BY <1>1, <1>3, <1>4
  <2>2. QED
    BY <2>1, <1>3 DEF Acyclic
<1>5. CASE t \in S
  <2>1. PICK d \in D : d \in S
    BY <1>1, <1>3, <1>5
  <2>2. S \intersect R # {} /\ S \intersect R \in SUBSET Task
    BY <2>1, <1>2
  <2>3. ASSUME NEW u \in S \intersect R
        PROVE  graph[u] \intersect (S \intersect R) # {}
    <3>1. u # t /\ new[u] = graph[u]
      BY <1>1, <1>2, <2>3
    <3>2. PICK v \in new[u] : v \in S
      BY <1>3, <2>3
    <3>3. v \in R
      BY <3>2, <1>2, <2>3
    <3>4. QED
      BY <3>1, <3>2, <3>3
  <2>4. QED
    BY <2>2, <2>3 DEF Acyclic
<1>6. QED
  BY <1>4, <1>5

PlansInv == deps \in Graphs /\ PlansAcyclic

LEMMA PlansInvStep == PlansInv /\ [Next]_vars => PlansInv'
<1>1. SUFFICES ASSUME PlansInv, [Next]_vars
               PROVE  PlansInv'
  OBVIOUS
<1>2. ASSUME NEW t \in Task, NEW seen \in 0..MaxSaves, NEW D \in SUBSET Task, SavePlan(t, seen, D)
      PROVE  PlansInv'
  <2>1. deps' = [deps EXCEPT ![t] = D] /\ t \notin Reach(D, [deps EXCEPT ![t] = D])
    BY <1>2 DEF SavePlan, Cyclic
  <2>2. deps \in Graphs /\ Acyclic(deps)
    BY <1>1 DEF PlansInv, PlansAcyclic, Acyclic
  <2>3. Acyclic([deps EXCEPT ![t] = D])
    BY <2>1, <2>2, PlanKeepsAcyclic
  <2>4. deps' \in Graphs /\ Acyclic(deps')
    BY <2>1, <2>2, <2>3 DEF Graphs
  <2>5. QED
    BY <2>4 DEF PlansInv, PlansAcyclic, Acyclic
<1>3. ASSUME UNCHANGED deps
      PROVE  PlansInv'
  BY <1>1, <1>3 DEF PlansInv, PlansAcyclic
<1>4. CASE PlanStep
  BY <1>2, <1>4 DEF PlanStep
<1>5. CASE RunStep
  BY <1>3, <1>5 DEF RunStep, CreateRun, Refuse, StartAttempt, EndAttempt, SubmitManual, WithdrawManual,
       AcknowledgeUnknown,       ApproveReduction, CancelRun, AskReview, StartReview, EndReview, AcknowledgeReview, PrepareRun, MarkReviewed,
       Change, plans
<1>6. CASE PlanningStep
  BY <1>3, <1>6 DEF PlanningStep, StartPlanning, EndPlanning, AcknowledgePlanning, plans
<1>7. CASE Restart \/ Resume \/ UNCHANGED vars
  BY <1>3, <1>7 DEF Restart, Resume, vars, plans
<1>8. QED
  BY <1>1, <1>4, <1>5, <1>6, <1>7 DEF Next

(***************************************************************************)
(* Whatever is saved in whatever order, no tasks ever wait for each other.   *)
(***************************************************************************)
THEOREM NoMutualWait == Spec => []PlansAcyclic
<1>1. Init => PlansInv
  BY DEF Init, PlansInv, PlansAcyclic, Graphs
<1>2. PlansInv => PlansAcyclic
  BY DEF PlansInv
<1>3. QED
  BY <1>1, <1>2, PlansInvStep, PTL DEF Spec

-----------------------------------------------------------------------------
(* The types, and what an attempt drafts under.                              *)

LEMMA SavesTyped ==
  ASSUME TypeOK, NEW t \in Task
  PROVE  Policy(t) \in Frozen /\ Policy(t).revision = revision[t]
<1>1. revision[t] \in Nat /\ deps[t] \subseteq Task
  BY DEF TypeOK
<1>2. ASSUME NEW d \in deps[t]
      PROVE  [dep |-> d, revision |-> revision[d],
              done |-> {<<r, run[r].result>> : r \in {q \in Current(d) : Status(q) = "done"}}]
               \in [dep : Task, revision : Nat, done : SUBSET (Run \X Nat)]
  <2>1. d \in Task /\ revision[d] \in Nat
    BY <1>1, <1>2 DEF TypeOK
  <2>2. ASSUME NEW r \in {q \in Current(d) : Status(q) = "done"}
        PROVE  <<r, run[r].result>> \in Run \X Nat
    BY <2>2 DEF Current, RunsOf, Created, Exists, TypeOK, RunRow
  <2>3. QED
    BY <2>1, <2>2
<1>3. Evidence(t) \in SUBSET [dep : Task, revision : Nat, done : SUBSET (Run \X Nat)]
  BY <1>2 DEF Evidence
<1>4. QED
  BY <1>1, <1>3 DEF Policy, Planned, NoPlan, Frozen

\* What comes after the answers needs them open, and what is open has settled.
OpenFits(c) ==
  /\ c.open => c.part \in {"accepted", "rejected"} /\ ~c.cancelled
  /\ ~c.open => c.review = "none" /\ ~c.judged

\* What the steps of a run leave as it was.
RowChange(r, c) ==
  /\ Exists(r)
  /\ c \in RunRow
  /\ c.task = run[r].task
  /\ c.policy = run[r].policy
  /\ c.part \in {"accepted", "rejected"} \/ run[r].part \notin {"accepted", "rejected"}
  /\ c.cancelled => c.part \notin {"queued", "awaiting_user"} \/ (run[r].cancelled /\ c.part = run[r].part)
  /\ OpenFits(run[r]) => OpenFits(c)
  /\ Change(r, c)

LEMMA RunChanges ==
  ASSUME TypeOK, NEW r \in Run,
         \/ StartAttempt(r) \/ EndAttempt(r) \/ SubmitManual(r) \/ WithdrawManual(r) \/ AcknowledgeUnknown(r)
         \/ ApproveReduction(r) \/ CancelRun(r) \/ AskReview(r) \/ StartReview(r) \/ EndReview(r) \/ AcknowledgeReview(r)
         \/ \E seen \in 0..MaxResults : MarkReviewed(r, seen)
  PROVE  \E c : RowChange(r, c)
<1> DEFINE entry == run[r]
<1>1. Exists(r) => entry \in RunRow
  BY DEF TypeOK, Exists
<1>2. ASSUME NEW s \in {"accepted", "rejected", "unknown"}, Exists(r)
      PROVE  /\ Reveal(r, [entry EXCEPT !.part = s]) \in RunRow
             /\ Reveal(r, [entry EXCEPT !.part = s]).task = entry.task
             /\ Reveal(r, [entry EXCEPT !.part = s]).policy = entry.policy
             /\ Reveal(r, [entry EXCEPT !.part = s]).part = s
             /\ Reveal(r, [entry EXCEPT !.part = s]).cancelled = entry.cancelled
             /\ entry.part \notin {"accepted", "rejected"} /\ OpenFits(entry) => OpenFits(Reveal(r, [entry EXCEPT !.part = s]))
  BY <1>1, <1>2 DEF Reveal, RunRow, CallState, Accepting, Settled, OpenFits
<1>3. CASE StartAttempt(r)
  <2>1. RowChange(r, [entry EXCEPT !.part = "running"])
    BY <1>1, <1>3 DEF StartAttempt, Accepting, RowChange, RunRow, CallState, OpenFits
  <2>2. QED
    BY <2>1
<1>4. CASE EndAttempt(r)
  <2>1. PICK s \in {"accepted", "rejected", "unknown"} : Change(r, Reveal(r, [entry EXCEPT !.part = s]))
    BY <1>4 DEF EndAttempt
  <2>2. RowChange(r, Reveal(r, [entry EXCEPT !.part = s]))
    BY <1>2, <1>4, <2>1 DEF EndAttempt, RowChange
  <2>3. QED
    BY <2>2
<1>5. CASE SubmitManual(r) \/ WithdrawManual(r)
  <2>1. PICK s \in {"accepted", "rejected"} : Change(r, Reveal(r, [entry EXCEPT !.part = s]))
    BY <1>5 DEF SubmitManual, WithdrawManual
  <2>2. run[r].part = "awaiting_user" /\ Exists(r)
    BY <1>5 DEF SubmitManual, WithdrawManual
  <2>3. RowChange(r, Reveal(r, [entry EXCEPT !.part = s]))
    BY <1>2, <2>1, <2>2 DEF RowChange
  <2>4. QED
    BY <2>3
<1>6. CASE AcknowledgeUnknown(r)
  <2>1. RowChange(r, Reveal(r, [entry EXCEPT !.part = "rejected"]))
    BY <1>2, <1>6 DEF AcknowledgeUnknown, RowChange
  <2>2. QED
    BY <2>1
<1>7. CASE ApproveReduction(r)
  <2>1. RowChange(r, [entry EXCEPT !.approved = TRUE])
    BY <1>1, <1>7 DEF ApproveReduction, RowChange, RunRow, OpenFits
  <2>2. QED
    BY <2>1
<1>8. CASE CancelRun(r)
  <2> DEFINE c == [entry EXCEPT !.cancelled = TRUE, !.part = IF @ \in {"queued", "awaiting_user"} THEN "rejected" ELSE @]
  <2>1. c \in RunRow /\ c.task = entry.task /\ c.policy = entry.policy /\ c.part \notin {"queued", "awaiting_user"}
        /\ (c.part = "rejected" \/ c.part = entry.part) /\ (OpenFits(entry) => OpenFits(c))
    BY <1>1, <1>8 DEF CancelRun, RunRow, CallState, Accepting, OpenFits
  <2>2. RowChange(r, c)
    BY <2>1, <1>8 DEF CancelRun, RowChange
  <2>3. QED
    BY <2>2
<1>9. CASE AskReview(r)
  <2>1. RowChange(r, [entry EXCEPT !.review = "queued"])
    BY <1>1, <1>9 DEF AskReview, RowChange, RunRow, CallState, OpenFits
  <2>2. QED
    BY <2>1
<1>10. CASE StartReview(r)
  <2>1. RowChange(r, [entry EXCEPT !.review = "running"])
    BY <1>1, <1>10 DEF StartReview, RowChange, RunRow, CallState, OpenFits
  <2>2. QED
    BY <2>1
<1>11. CASE EndReview(r)
  <2>1. PICK s \in {"accepted", "rejected", "unknown"} :
          Change(r, [entry EXCEPT !.review = s, !.result = @ + 1, !.judged = FALSE])
    BY <1>11 DEF EndReview
  <2> DEFINE c == [entry EXCEPT !.review = s, !.result = @ + 1, !.judged = FALSE]
  <2>2. Exists(r) /\ entry \in RunRow
    BY <1>1, <1>11 DEF EndReview
  <2>3. /\ c \in RunRow /\ c.task = entry.task /\ c.policy = entry.policy
        /\ c.part = entry.part /\ c.cancelled = entry.cancelled /\ c.open = entry.open /\ ~c.judged
    <3>1. entry.result + 1 \in Nat
      BY <2>2 DEF RunRow
    <3>2. QED
      BY <2>2, <3>1 DEF RunRow, CallState
  <2>4. OpenFits(entry) => OpenFits(c)
    BY <1>11, <2>3 DEF EndReview, OpenFits
  <2>5. RowChange(r, c)
    BY <2>1, <2>2, <2>3, <2>4 DEF RowChange
  <2>6. QED
    BY <2>5
<1>12. CASE AcknowledgeReview(r)
  <2>1. RowChange(r, [entry EXCEPT !.review = "rejected"])
    BY <1>1, <1>12 DEF AcknowledgeReview, RowChange, RunRow, CallState, OpenFits
  <2>2. QED
    BY <2>1
<1>13. CASE \E seen \in 0..MaxResults : MarkReviewed(r, seen)
  <2>1. RowChange(r, [entry EXCEPT !.judged = TRUE])
    BY <1>1, <1>13 DEF MarkReviewed, RowChange, RunRow, OpenFits
  <2>2. QED
    BY <2>1
<1>14. QED
  BY <1>3, <1>4, <1>5, <1>6, <1>7, <1>8, <1>9, <1>10, <1>11, <1>12, <1>13

(***************************************************************************)
(* The invariant: besides the types, a cancelled run has no attempt that      *)
(* waits for its start.  Without it a plan could be saved under such an       *)
(* attempt, because the guard of tasks.save does not count it.                *)
(***************************************************************************)
Drafting(r) ==
  Exists(r) =>
    /\ run[r].cancelled => run[r].part \notin {"queued", "awaiting_user"}
    /\ run[r].part \notin {"accepted", "rejected"} => run[r].policy.revision = revision[run[r].task]

DraftingInv == TypeOK /\ \A r \in Run : Drafting(r)

LEMMA DraftingInvStep ==
  ASSUME DraftingInv, [Next]_vars
  PROVE  DraftingInv'
<1>1. TypeOK /\ \A r \in Run : Drafting(r)
  BY DEF DraftingInv
<1>2. ASSUME NEW r \in Run, \E c : RowChange(r, c)
      PROVE  DraftingInv'
  <2>1. PICK c : RowChange(r, c)
    BY <1>2
  <2>2. run' = [run EXCEPT ![r] = c] /\ UNCHANGED <<plans, last, planning, paused, prepared>>
    BY <2>1 DEF RowChange, Change
  <2>3. c \in RunRow /\ c.task = run[r].task /\ c.policy = run[r].policy /\ run[r] # NoRun
    BY <2>1 DEF RowChange, Exists
  <2>4. TypeOK'
    BY <1>1, <2>2, <2>3 DEF TypeOK, plans
  <2>5. ASSUME NEW q \in Run
        PROVE  Drafting(q)'
    <3>1. CASE q = r
      <4>1. run'[q] = c
        BY <1>1, <2>2, <3>1 DEF TypeOK
      <4>2. Drafting(r)
        BY <1>1
      <4>3. QED
        BY <4>1, <4>2, <2>1, <2>2, <2>3, <3>1 DEF Drafting, RowChange, plans, Exists
    <3>2. CASE q # r
      <4>1. run'[q] = run[q] /\ revision' = revision
        BY <1>1, <2>2, <3>2 DEF TypeOK, plans
      <4>2. QED
        BY <1>1, <4>1 DEF Drafting, Exists
    <3>3. QED
      BY <3>1, <3>2
  <2>6. QED
    BY <2>4, <2>5 DEF DraftingInv
<1>3. ASSUME NEW t \in Task, NEW seen \in 0..MaxSaves, NEW D \in SUBSET Task, SavePlan(t, seen, D)
      PROVE  DraftingInv'
  <2>1. /\ ~Busy(t)
        /\ tasks' = tasks \union {t}
        /\ revision' = [revision EXCEPT ![t] = @ + 1]
        /\ deps' = [deps EXCEPT ![t] = D]
        /\ run' = run /\ last' = last /\ planning' = planning /\ paused' = paused /\ prepared' = prepared
    BY <1>3 DEF SavePlan, runs
  <2>2. TypeOK'
    BY <1>1, <2>1 DEF TypeOK
  <2>3. ASSUME NEW r \in Run
        PROVE  Drafting(r)'
    <3>1. CASE run[r] # NoRun /\ run[r].task = t
      <4>1. r \in RunsOf(t)
        BY <3>1 DEF RunsOf, Created, Exists
      <4>2. run[r].part \notin {"running", "unknown"} /\ (run[r].cancelled \/ run[r].part \notin {"queued", "awaiting_user"})
        BY <2>1, <4>1 DEF Busy
      <4>3. run[r] \in RunRow
        BY <1>1, <3>1 DEF TypeOK
      <4>4. run[r].cancelled => run[r].part \notin {"queued", "awaiting_user"}
        BY <1>1, <3>1 DEF Drafting, Exists
      <4>5. run[r].part \in {"accepted", "rejected"}
        BY <4>2, <4>3, <4>4 DEF RunRow, CallState
      <4>6. QED
        BY <2>1, <4>4, <4>5 DEF Drafting, Exists
    <3>2. CASE run[r] # NoRun /\ run[r].task # t
      <4>1. run[r].task \in Task
        BY <1>1, <3>2 DEF TypeOK, RunRow
      <4>2. revision'[run[r].task] = revision[run[r].task]
        BY <1>1, <2>1, <3>2, <4>1 DEF TypeOK
      <4>3. QED
        BY <1>1, <2>1, <4>2 DEF Drafting, Exists
    <3>3. CASE run[r] = NoRun
      BY <2>1, <3>3 DEF Drafting, Exists
    <3>4. QED
      BY <3>1, <3>2, <3>3
  <2>4. QED
    BY <2>2, <2>3 DEF DraftingInv
<1>4. ASSUME NEW r \in Run, NEW t \in Task, PrepareRun(r, t)
      PROVE  DraftingInv'
  <2>1. /\ prepared' = [prepared EXCEPT ![r] = [task |-> t, policy |-> Policy(t)]]
        /\ UNCHANGED <<plans, runs, planning, paused>>
    BY <1>4 DEF PrepareRun
  <2>2. TypeOK'
    BY <1>1, <2>1, SavesTyped DEF TypeOK, plans, runs
  <2>3. QED
    BY <1>1, <2>1, <2>2 DEF DraftingInv, Drafting, Exists, plans, runs
<1>5. ASSUME NEW r \in Run, CreateRun(r)
      PROVE  DraftingInv'
  <2> DEFINE p == prepared[r]
  <2>1. p # Nothing /\ p.policy = Policy(p.task)
    BY <1>5 DEF CreateRun
  <2>2. p \in [task : Task, policy : Frozen]
    BY <1>1, <2>1 DEF TypeOK
  <2>3. /\ tasks' = tasks \union {p.task}
        /\ run' = [run EXCEPT ![r] = NewRun(r, p.task, p.policy)]
        /\ last' = [last EXCEPT ![r] = Cardinality(Created) + 1]
        /\ prepared' = [prepared EXCEPT ![r] = Nothing]
        /\ UNCHANGED <<revision, deps, planning, paused>>
    BY <1>5 DEF CreateRun
  <2>4. NewRun(r, p.task, p.policy) \in RunRow
    BY <2>2 DEF NewRun, RunRow, CallState
  <2>5. Cardinality(Created) \in Nat
    <3>1. Created \subseteq Run /\ IsFiniteSet(Run)
      BY TaskPlansAssumption DEF Created
    <3>2. QED
      BY <3>1, FS_Subset, FS_CardinalityType
  <2>6. TypeOK'
    BY <1>1, <2>2, <2>3, <2>4, <2>5 DEF TypeOK
  <2>7. ASSUME NEW q \in Run
        PROVE  Drafting(q)'
    <3>1. CASE q = r
      <4>1. run'[q] = NewRun(r, p.task, p.policy)
        BY <1>1, <2>3, <3>1 DEF TypeOK
      <4>2. p.policy.revision = revision[p.task]
        BY <1>1, <2>1, <2>2, SavesTyped
      <4>3. QED
        BY <4>1, <4>2, <2>3 DEF Drafting, NewRun
    <3>2. CASE q # r
      <4>1. run'[q] = run[q]
        BY <1>1, <2>3, <3>2 DEF TypeOK
      <4>2. QED
        BY <1>1, <2>3, <4>1 DEF Drafting, Exists
    <3>3. QED
      BY <3>1, <3>2
  <2>8. QED
    BY <2>6, <2>7 DEF DraftingInv
<1>6. ASSUME NEW r \in Run, Refuse(r)
      PROVE  DraftingInv'
  <2>1. prepared' = [prepared EXCEPT ![r] = Nothing] /\ UNCHANGED <<plans, runs, planning, paused>>
    BY <1>6 DEF Refuse
  <2>2. QED
    BY <1>1, <2>1 DEF DraftingInv, Drafting, Exists, TypeOK, plans, runs
<1>7. ASSUME NEW t \in Task, StartPlanning(t) \/ EndPlanning(t) \/ AcknowledgePlanning(t)
      PROVE  DraftingInv'
  <2>1. /\ UNCHANGED <<plans, runs, paused, prepared>>
        /\ \E s \in {"none", "running", "unknown"} : planning' = [planning EXCEPT ![t] = s]
    BY <1>7 DEF StartPlanning, EndPlanning, AcknowledgePlanning
  <2>2. QED
    BY <1>1, <2>1 DEF DraftingInv, Drafting, Exists, TypeOK, plans, runs
<1>8. CASE Restart
  <2>1. /\ paused' \in BOOLEAN
        /\ run' = [r \in Run |-> IF Exists(r)
                                 THEN [run[r] EXCEPT !.part = IF @ = "running" THEN "unknown" ELSE @,
                                                     !.review = IF @ = "running" THEN "unknown" ELSE @]
                                 ELSE NoRun]
        /\ planning' = [t \in Task |-> IF planning[t] = "running" THEN "unknown" ELSE planning[t]]
        /\ prepared' = [r \in Run |-> Nothing]
        /\ UNCHANGED <<plans, last>>
    BY <1>1, <1>8 DEF Restart, TypeOK
  <2>2. ASSUME NEW r \in Run, Exists(r)
        PROVE  /\ run'[r] \in RunRow
               /\ run'[r].task = run[r].task /\ run'[r].policy = run[r].policy /\ run'[r].cancelled = run[r].cancelled
               /\ run'[r].part = IF run[r].part = "running" THEN "unknown" ELSE run[r].part
    <3>1. run[r] \in RunRow
      BY <1>1, <2>2 DEF TypeOK, Exists
    <3>2. run'[r] = [run[r] EXCEPT !.part = IF @ = "running" THEN "unknown" ELSE @,
                                   !.review = IF @ = "running" THEN "unknown" ELSE @]
      BY <2>1, <2>2
    <3>3. QED
      BY <3>1, <3>2 DEF RunRow, CallState
  <2>3. \A r \in Run : ~Exists(r) => run'[r] = NoRun
    BY <2>1
  <2>4. planning' \in [Task -> {"none", "running", "unknown"}]
    BY <1>1, <2>1 DEF TypeOK
  <2>5. \A r \in Run : run'[r] = NoRun \/ run'[r] \in RunRow
    BY <2>2, <2>3
  <2>6. TypeOK'
    BY <1>1, <2>1, <2>4, <2>5 DEF TypeOK, plans
  <2>7. ASSUME NEW r \in Run
        PROVE  Drafting(r)'
    <3>1. CASE Exists(r)
      <4>1. Drafting(r) /\ revision' = revision
        BY <1>1, <2>1 DEF plans
      <4>2. QED
        BY <2>2, <3>1, <4>1 DEF Drafting, Exists
    <3>2. CASE ~Exists(r)
      BY <2>3, <3>2 DEF Drafting, Exists
    <3>3. QED
      BY <3>1, <3>2
  <2>8. QED
    BY <2>6, <2>7 DEF DraftingInv
<1>9. CASE Resume
  <2>1. paused' = FALSE /\ UNCHANGED <<plans, runs, planning, prepared>>
    BY <1>9 DEF Resume
  <2>2. QED
    BY <1>1, <2>1 DEF DraftingInv, Drafting, Exists, TypeOK, plans, runs
<1>10. CASE UNCHANGED vars
  BY <1>1, <1>10 DEF DraftingInv, Drafting, Exists, TypeOK, vars, plans, runs
<1>11. CASE RunStep
  <2>1. PICK r \in Run :
          \/ \E t \in Task : PrepareRun(r, t)
          \/ CreateRun(r) \/ Refuse(r)
          \/ \/ StartAttempt(r) \/ EndAttempt(r) \/ SubmitManual(r) \/ WithdrawManual(r) \/ AcknowledgeUnknown(r)
             \/ ApproveReduction(r) \/ CancelRun(r) \/ AskReview(r) \/ StartReview(r) \/ EndReview(r) \/ AcknowledgeReview(r)
             \/ \E seen \in 0..MaxResults : MarkReviewed(r, seen)
    BY <1>11 DEF RunStep
  <2>2. QED
    BY <1>1, <2>1, <1>2, <1>4, <1>5, <1>6, RunChanges
<1>12. QED
  BY <1>3, <1>7, <1>8, <1>9, <1>10, <1>11 DEF Next, PlanStep, PlanningStep

LEMMA DraftingInvInit == Init => DraftingInv
<1> SUFFICES ASSUME Init PROVE DraftingInv
  OBVIOUS
<1>1. DOMAIN run = Run /\ \A r \in Run : run[r] = NoRun
  BY DEF Init
<1>2. DOMAIN prepared = Run /\ \A r \in Run : prepared[r] = Nothing
  BY DEF Init
<1>3. /\ tasks \subseteq Task /\ paused \in BOOLEAN
      /\ revision \in [Task -> Nat] /\ deps \in [Task -> SUBSET Task]
      /\ last \in [Run -> Nat] /\ planning \in [Task -> {"none", "running", "unknown"}]
  BY DEF Init
<1>4. TypeOK
  BY <1>1, <1>2, <1>3 DEF TypeOK
<1>5. \A r \in Run : Drafting(r)
  BY <1>1 DEF Drafting, Exists
<1>6. QED
  BY <1>4, <1>5 DEF DraftingInv

(***************************************************************************)
(* The variables keep their types.                                           *)
(***************************************************************************)
THEOREM PlansTypeCorrect == Spec => []TypeOK
<1>1. DraftingInv => TypeOK
  BY DEF DraftingInv
<1>2. QED
  BY <1>1, DraftingInvInit, DraftingInvStep, PTL DEF Spec

(***************************************************************************)
(* No attempt drafts under an outdated plan, whatever is saved, prepared and  *)
(* created in whatever order.                                                 *)
(***************************************************************************)
THEOREM DraftsStayCurrent == Spec => []DraftsUnderCurrentPlan
<1>1. DraftingInv => DraftsUnderCurrentPlan
  BY DEF DraftingInv, Drafting, DraftsUnderCurrentPlan, Created
<1>2. QED
  BY <1>1, DraftingInvInit, DraftingInvStep, PTL DEF Spec

-----------------------------------------------------------------------------
(* Recursive functions over the first natural numbers, and the rounds of        *)
(* Projection.                                                               *)

\* g tells what comes of x when F is applied up to N times.
Iterated(g, N, S, x, F) ==
  /\ g \in [0..N -> S]
  /\ g[0] = x
  /\ \A n \in 1..N : g[n] = F[g[n - 1]]

\* A recursive function over 0..N exists.
LEMMA Iterates ==
  ASSUME NEW N \in Nat, NEW S, NEW x \in S, NEW F \in [S -> S]
  PROVE  \E g : Iterated(g, N, S, x, F)
<1> DEFINE T == {n \in 0..N : \E g \in [0..n -> S] : g[0] = x /\ \A i \in 1..n : g[i] = F[g[i - 1]]}
<1>1. 0 \in T
  <2>1. [i \in 0..0 |-> x] \in [0..0 -> S] /\ [i \in 0..0 |-> x][0] = x /\ 1..0 = {} /\ 0 \in 0..N
    OBVIOUS
  <2>2. QED
    BY <2>1
<1>2. ASSUME NEW n \in 0..N, n \in T, n < N PROVE n + 1 \in T
  <2>1. PICK g \in [0..n -> S] : g[0] = x /\ \A i \in 1..n : g[i] = F[g[i - 1]]
    BY <1>2
  <2> DEFINE h == [i \in 0..(n + 1) |-> IF i = n + 1 THEN F[g[n]] ELSE g[i]]
  <2>2. h \in [0..(n + 1) -> S]
    OBVIOUS
  <2>3. h[0] = x
    BY <2>1
  <2>4. ASSUME NEW i \in 1..(n + 1) PROVE h[i] = F[h[i - 1]]
    <3>1. i - 1 \in 0..n /\ h[i - 1] = g[i - 1]
      OBVIOUS
    <3>2. CASE i = n + 1
      BY <3>1, <3>2
    <3>3. CASE i # n + 1
      <4>1. i \in 1..n /\ i \in 0..(n + 1)
        BY <3>3
      <4>2. h[i] = g[i]
        BY <4>1, <3>3
      <4>3. QED
        BY <2>1, <3>1, <4>1, <4>2
    <3>4. QED
      BY <3>2, <3>3
  <2> HIDE DEF h
  <2>5. n + 1 \in 0..N
    BY <1>2
  <2>6. QED
    BY <2>2, <2>3, <2>4, <2>5
<1> HIDE DEF T
<1>3. N \in T
  BY <1>1, <1>2, CountUp
<1>4. QED
  BY <1>3 DEF T, Iterated

\* g tells what is settled and finished after each round of project_tasks.
Traced(g, known, graph, complete) ==
  /\ g \in [0..Cardinality(known) -> [settled : SUBSET known, finished : SUBSET known]]
  /\ Rounds(known, graph, complete) = g[Cardinality(known)]
  /\ g[0] = [settled |-> {}, finished |-> {}]
  /\ \A n \in 1..Cardinality(known) :
       LET before == g[n - 1]
           ready == {t \in known \ before.settled : graph[t] \intersect (known \ before.settled) = {}}
       IN  g[n] = [settled |-> before.settled \union ready,
                   finished |-> before.finished \union {t \in ready : t \in complete /\ graph[t] \subseteq before.finished}]

LEMMA RoundsTraced ==
  ASSUME NEW known, IsFiniteSet(known), NEW graph, NEW complete
  PROVE  \E g : Traced(g, known, graph, complete)
<1> DEFINE N == Cardinality(known)
           S == [settled : SUBSET known, finished : SUBSET known]
           x == [settled |-> {}, finished |-> {}]
           ready(r) == {t \in known \ r.settled : graph[t] \intersect (known \ r.settled) = {}}
           next(r) == [settled |-> r.settled \union ready(r),
                       finished |-> r.finished \union {t \in ready(r) : t \in complete /\ graph[t] \subseteq r.finished}]
           F == [r \in S |-> next(r)]
           Def(g) == [n \in 0..N |-> IF n = 0 THEN x ELSE next(g[n - 1])]
           round == CHOOSE g : g = Def(g)
<1>1. N \in Nat
  BY FS_CardinalityType
<1>2. x \in S /\ F \in [S -> S]
  OBVIOUS
<1>3. PICK g : Iterated(g, N, S, x, F)
  <2> HIDE DEF N, S, x, F
  <2>1. QED
    BY <1>1, <1>2, Iterates
<1>4. \A n \in 1..N : g[n - 1] \in S /\ g[n] = next(g[n - 1])
  <2> SUFFICES ASSUME NEW n \in 1..N PROVE g[n - 1] \in S /\ g[n] = next(g[n - 1])
    OBVIOUS
  <2>1. n - 1 \in 0..N
    BY <1>1
  <2> HIDE DEF N, S, next
  <2>2. QED
    BY <2>1, <1>3 DEF Iterated
<1>5. \A h : (h = Def(h) => h = g)
  <2> SUFFICES ASSUME NEW h, h = Def(h) PROVE h = g
    OBVIOUS
  <2> DEFINE T == {n \in 0..N : h[n] = g[n]}
  <2> HIDE DEF N, S, x, next
  <2>1. 0 \in T
    BY <1>1, <1>3 DEF Iterated
  <2>2. ASSUME NEW n \in 0..N, n \in T, n < N PROVE n + 1 \in T
    <3>1. n + 1 \in 0..N /\ n + 1 \in 1..N /\ n + 1 # 0 /\ (n + 1) - 1 = n
      BY <1>1, <2>2
    <3>2. Def(h)[n + 1] = next(h[n])
      BY <3>1
    <3>3. g[n + 1] = next(g[n])
      BY <3>1, <1>4
    <3>4. QED
      BY <3>1, <3>2, <3>3, <2>2
  <2> HIDE DEF T
  <2>3. 0..N \subseteq T
    BY <1>1, <2>1, <2>2, CountUp
  <2>4. \A n \in 0..N : h[n] = g[n]
    BY <2>3 DEF T
  <2>5. h = [n \in 0..N |-> h[n]] /\ g = [n \in 0..N |-> g[n]]
    BY <1>3 DEF Iterated
  <2>6. QED
    BY <2>4, <2>5
<1>6. g = Def(g)
  <2> HIDE DEF N, S, x, next
  <2>1. ASSUME NEW n \in 0..N PROVE g[n] = IF n = 0 THEN x ELSE next(g[n - 1])
    <3>1. n # 0 => n \in 1..N
      BY <1>1
    <3>2. QED
      BY <3>1, <1>3, <1>4 DEF Iterated
  <2>2. g = [n \in 0..N |-> g[n]]
    BY <1>3 DEF Iterated
  <2>3. QED
    BY <2>1, <2>2
<1>7. round = g
  <2> HIDE DEF Def
  <2>1. round = Def(round)
    BY <1>6
  <2> HIDE DEF round
  <2>2. QED
    BY <1>5, <2>1
<1>8. Rounds(known, graph, complete) = round[N]
  BY DEF Rounds
<1>9. Traced(g, known, graph, complete)
  BY <1>3, <1>4, <1>7, <1>8 DEF Traced, Iterated
<1>10. QED
  BY <1>9

\* What can be said of the tasks settled and finished after some rounds: the
\* prerequisites of a finished task were finished in a round before.
Ranked(graph, complete, r) ==
  /\ r.finished \subseteq r.settled \intersect complete
  /\ \A t \in r.finished :
       \E A \in SUBSET r.finished : t \notin A /\ graph[t] \subseteq A /\ \A u \in A : graph[u] \subseteq A

LEMMA RoundsAreRanked ==
  ASSUME NEW known, IsFiniteSet(known), NEW graph, NEW complete
  PROVE  Ranked(graph, complete, Rounds(known, graph, complete)) /\ Rounds(known, graph, complete).settled \subseteq known
<1> DEFINE N == Cardinality(known)
<1>0. PICK g : Traced(g, known, graph, complete)
  BY RoundsTraced
<1>1. /\ g \in [0..N -> [settled : SUBSET known, finished : SUBSET known]]
      /\ Rounds(known, graph, complete) = g[N]
      /\ g[0] = [settled |-> {}, finished |-> {}]
      /\ \A n \in 1..N :
           LET before == g[n - 1]
               ready == {t \in known \ before.settled : graph[t] \intersect (known \ before.settled) = {}}
           IN  g[n] = [settled |-> before.settled \union ready,
                       finished |-> before.finished \union {t \in ready : t \in complete /\ graph[t] \subseteq before.finished}]
  BY <1>0 DEF Traced
<1>2. N \in Nat
  BY FS_CardinalityType
<1> HIDE DEF N
<1> DEFINE T == {n \in 0..N : Ranked(graph, complete, g[n])}
<1>3. 0 \in T
  BY <1>1, <1>2 DEF Ranked
<1>4. ASSUME NEW n \in 0..N, n \in T, n < N PROVE n + 1 \in T
  <2> DEFINE r == g[n]
             ready == {t \in known \ r.settled : graph[t] \intersect (known \ r.settled) = {}}
             new == {t \in ready : t \in complete /\ graph[t] \subseteq r.finished}
  <2>1. n + 1 \in 0..N /\ n + 1 \in 1..N /\ (n + 1) - 1 = n
    BY <1>2, <1>4
  <2>2. g[n + 1] = [settled |-> r.settled \union ready, finished |-> r.finished \union new]
    BY <1>1, <2>1
  <2>3. Ranked(graph, complete, r)
    BY <1>4
  <2>4. \A t \in new : t \notin r.settled /\ t \in ready /\ t \in complete /\ graph[t] \subseteq r.finished
    OBVIOUS
  <2> HIDE DEF ready, new
  <2>5. g[n + 1].settled = r.settled \union ready /\ g[n + 1].finished = r.finished \union new
    BY <2>2
  <2>6. g[n + 1].finished \subseteq g[n + 1].settled \intersect complete
    BY <2>3, <2>4, <2>5 DEF Ranked
  <2>7. \A u \in r.finished : graph[u] \subseteq r.finished
    BY <2>3 DEF Ranked
  <2>8. ASSUME NEW t \in g[n + 1].finished
        PROVE  \E A \in SUBSET g[n + 1].finished : t \notin A /\ graph[t] \subseteq A /\ \A u \in A : graph[u] \subseteq A
    <3>1. CASE t \in r.finished
      BY <3>1, <2>3, <2>5 DEF Ranked
    <3>2. CASE t \in new
      <4>1. t \notin r.finished /\ graph[t] \subseteq r.finished
        BY <3>2, <2>3, <2>4 DEF Ranked
      <4>2. r.finished \in SUBSET g[n + 1].finished
        BY <2>5
      <4>3. QED
        BY <4>1, <4>2, <2>7
    <3>3. QED
      BY <2>5, <2>8, <3>1, <3>2
  <2>9. QED
    BY <2>1, <2>6, <2>8 DEF Ranked
<1> HIDE DEF T
<1>5. N \in T
  <2>1. 0..N \subseteq T
    BY <1>2, <1>3, <1>4, CountUp
  <2>2. QED
    BY <1>2, <2>1
<1>6. g[N] \in [settled : SUBSET known, finished : SUBSET known]
  BY <1>1, <1>2
<1>7. QED
  BY <1>1, <1>5, <1>6 DEF T

\* If no tasks wait for each other, all are settled at the end.
LEMMA AllSettle ==
  ASSUME NEW known, IsFiniteSet(known), NEW graph, NEW complete,
         \A S \in SUBSET known : S # {} => \E t \in S : graph[t] \intersect S = {}
  PROVE  Rounds(known, graph, complete).settled = known
<1> DEFINE N == Cardinality(known)
<1>0. PICK g : Traced(g, known, graph, complete)
  BY RoundsTraced
<1>1. /\ g \in [0..N -> [settled : SUBSET known, finished : SUBSET known]]
      /\ Rounds(known, graph, complete) = g[N]
      /\ g[0] = [settled |-> {}, finished |-> {}]
      /\ \A n \in 1..N :
           LET before == g[n - 1]
               ready == {t \in known \ before.settled : graph[t] \intersect (known \ before.settled) = {}}
           IN  g[n] = [settled |-> before.settled \union ready,
                       finished |-> before.finished \union {t \in ready : t \in complete /\ graph[t] \subseteq before.finished}]
  BY <1>0 DEF Traced
<1>2. N \in Nat
  BY FS_CardinalityType
<1>3. \A A \in SUBSET known : IsFiniteSet(A) /\ Cardinality(A) \in Nat /\ Cardinality(A) <= N /\ (Cardinality(A) = N => A = known)
  BY FS_Subset, FS_CardinalityType
<1> HIDE DEF N
<1> DEFINE T == {n \in 0..N : g[n].settled = known \/ Cardinality(g[n].settled) >= n}
<1>4. 0 \in T
  BY <1>1, <1>2, <1>3, FS_EmptySet
<1>5. ASSUME NEW n \in 0..N, n \in T, n < N PROVE n + 1 \in T
  <2> DEFINE old == g[n].settled
             ready == {t \in known \ old : graph[t] \intersect (known \ old) = {}}
  <2>1. n + 1 \in 0..N /\ n + 1 \in 1..N /\ (n + 1) - 1 = n
    BY <1>2, <1>5
  <2> DEFINE done == g[n].finished \union {t \in ready : t \in complete /\ graph[t] \subseteq g[n].finished}
  <2>2. g[n + 1].settled = old \union ready /\ ready \subseteq known /\ old \subseteq known
    <3>1. g[n + 1] = [settled |-> old \union ready, finished |-> done]
      BY <1>1, <2>1
    <3>2. old \subseteq known
      BY <1>1
    <3> HIDE DEF done
    <3>3. QED
      BY <3>1, <3>2
  <2>3. CASE old = known
    BY <2>1, <2>2, <2>3
  <2>4. CASE old # known
    <3>1. known \ old \in SUBSET known /\ known \ old # {}
      BY <2>2, <2>4
    <3>2. PICK t \in known \ old : graph[t] \intersect (known \ old) = {}
      BY <3>1
    <3>3. t \in ready /\ t \notin old
      BY <3>2
    <3>4. old \union {t} \subseteq g[n + 1].settled /\ g[n + 1].settled \subseteq known
      BY <2>2, <3>3
    <3>5. IsFiniteSet(old) /\ IsFiniteSet(g[n + 1].settled)
      BY <1>3, <2>2, <3>4
    <3>6. Cardinality(old \union {t}) = Cardinality(old) + 1 /\ IsFiniteSet(old \union {t})
      BY <3>3, <3>5, FS_AddElement
    <3>7. Cardinality(old \union {t}) <= Cardinality(g[n + 1].settled)
      BY <3>4, <3>5, FS_Subset
    <3>8. Cardinality(old) >= n
      BY <1>5, <2>4
    <3>9. Cardinality(old) \in Nat /\ Cardinality(g[n + 1].settled) \in Nat
      BY <3>5, FS_CardinalityType
    <3>10. Cardinality(g[n + 1].settled) >= n + 1
      BY <3>6, <3>7, <3>8, <3>9
    <3>11. QED
      BY <2>1, <3>10
  <2>5. QED
    BY <2>3, <2>4
<1> HIDE DEF T
<1>6. N \in T
  <2>1. 0..N \subseteq T
    BY <1>2, <1>4, <1>5, CountUp
  <2>2. QED
    BY <1>2, <2>1
<1>7. g[N].settled \in SUBSET known
  BY <1>1, <1>2
<1>8. Cardinality(g[N].settled) >= N => g[N].settled = known
  BY <1>2, <1>3, <1>7
<1>9. QED
  BY <1>1, <1>6, <1>8 DEF T

\* What a task rests on lies in every set that holds it and is closed under prerequisites.
LEMMA UnderStays ==
  ASSUME NEW graph, IsFiniteSet(DOMAIN graph), NEW A, NEW t \in A,
         \A u \in A \intersect DOMAIN graph : graph[u] \subseteq A
  PROVE  Under(t, graph) \subseteq A
<1> DEFINE N == Cardinality(DOMAIN graph)
           S == SUBSET A
           next(U) == U \union UNION {graph[u] : u \in U \intersect DOMAIN graph}
           F == [U \in S |-> next(U)]
           Def(g) == [n \in 0..N |-> IF n = 0 THEN {t} ELSE next(g[n - 1])]
           steps == CHOOSE g : g = Def(g)
<1>1. N \in Nat
  BY FS_CardinalityType
<1>2. {t} \in S /\ F \in [S -> S]
  OBVIOUS
<1>3. PICK g : Iterated(g, N, S, {t}, F)
  <2> HIDE DEF N, S, F
  <2>1. QED
    BY <1>1, <1>2, Iterates
<1>4. g = Def(g)
  <2> HIDE DEF N
  <2>1. ASSUME NEW n \in 0..N PROVE g[n] = IF n = 0 THEN {t} ELSE next(g[n - 1])
    <3>1. n # 0 => n \in 1..N /\ n - 1 \in 0..N
      BY <1>1
    <3> HIDE DEF S, next
    <3>2. QED
      BY <3>1, <1>3 DEF Iterated
  <2> HIDE DEF S, next
  <2>2. g = [n \in 0..N |-> g[n]]
    BY <1>3 DEF Iterated
  <2>3. QED
    BY <2>1, <2>2
<1>5. steps = Def(steps)
  <2> HIDE DEF Def
  <2>1. QED
    BY <1>4
<1>6. Under(t, graph) = steps[N]
  BY DEF Under
<1> HIDE DEF steps
<1> DEFINE T == {n \in 0..N : steps[n] \subseteq A}
<1>7. 0 \in T
  BY <1>1, <1>5
<1>8. ASSUME NEW n \in 0..N, n \in T, n < N PROVE n + 1 \in T
  <2> HIDE DEF N
  <2>1. n + 1 \in 0..N /\ n + 1 # 0 /\ (n + 1) - 1 = n
    BY <1>1, <1>8
  <2>2. steps[n + 1] = next(steps[n])
    BY <1>5, <2>1
  <2>3. next(steps[n]) \subseteq A
    BY <1>8
  <2>4. QED
    BY <2>1, <2>2, <2>3
<1> HIDE DEF T, N
<1>9. N \in T
  <2>1. 0..N \subseteq T
    BY <1>1, <1>7, <1>8, CountUp
  <2>2. QED
    BY <1>1, <2>1
<1>10. QED
  BY <1>6, <1>9 DEF T

\* A finished task rests on nothing unfinished, whatever references a ledger holds
\* (workflow.project_tasks).
THEOREM FinishedFailsClosed ==
  ASSUME NEW known, IsFiniteSet(known), NEW graph, IsFiniteSet(DOMAIN graph), NEW complete
  PROVE  FailsClosed(known, graph, complete)
<1> DEFINE r == Rounds(known, graph, complete)
<1>1. Ranked(graph, complete, r) /\ r.settled \subseteq known
  BY RoundsAreRanked
<1>2. Finished(known, graph, complete) = r.finished
  BY DEF Finished
<1> HIDE DEF r
<1>3. \A u \in r.finished : graph[u] \subseteq r.finished /\ u \in known /\ u \in complete
  BY <1>1 DEF Ranked
<1>4. ASSUME NEW t \in r.finished, NEW u \in Under(t, graph)
      PROVE  u \in r.finished
  BY <1>3, <1>4, UnderStays
<1>5. ASSUME NEW u \in r.finished
      PROVE  u \notin Below(u, graph)
  <2>1. PICK A \in SUBSET r.finished : u \notin A /\ graph[u] \subseteq A /\ \A v \in A : graph[v] \subseteq A
    BY <1>1 DEF Ranked
  <2>2. \A d \in graph[u] : Under(d, graph) \subseteq A
    BY <2>1, UnderStays
  <2>3. QED
    BY <2>1, <2>2 DEF Below
<1>6. QED
  BY <1>2, <1>3, <1>4, <1>5 DEF FailsClosed

-----------------------------------------------------------------------------
(* What the screen says of a run.                                            *)

Decides(i, n, rules) ==
  /\ i \in 1..n
  /\ rules[i][1]
  /\ \A j \in 1..(i - 1) : ~rules[j][1]
  /\ FirstOf(rules) = rules[i][2]

\* The first rule that applies decides; the last one always does.
LEMMA FirstDecides ==
  ASSUME NEW n \in Nat \ {0}, NEW rules, DOMAIN rules = 1..n, rules[n][1]
  PROVE  \E i : Decides(i, n, rules)
<1> DEFINE T == {i \in 1..n : rules[i][1]}
           P(i) == i \in DOMAIN rules /\ rules[i][1] /\ \A j \in 1..(i - 1) : ~rules[j][1]
<1>1. IsWellFoundedOn(OpToRel(<, Nat), Nat)
  BY NatLessThanWellFounded
<1>2. T \subseteq Nat /\ n \in T
  OBVIOUS
<1>3. PICK m \in T : \A k \in T : <<k, m>> \notin OpToRel(<, Nat)
  <2> HIDE DEF T
  <2>1. QED
    BY <1>1, <1>2, WFMin
<1>4. \A j \in 1..(m - 1) : ~rules[j][1]
  <2> SUFFICES ASSUME NEW j \in 1..(m - 1), rules[j][1] PROVE FALSE
    OBVIOUS
  <2>1. j \in T /\ j < m /\ j \in Nat /\ m \in Nat
    OBVIOUS
  <2>2. <<j, m>> \in OpToRel(<, Nat)
    BY <2>1 DEF OpToRel
  <2>3. QED
    BY <1>3, <2>1, <2>2
<1>5. P(m)
  BY <1>4
<1> DEFINE i == CHOOSE x : P(x)
<1>6. FirstOf(rules) = rules[i][2]
  <2>1. (CHOOSE x \in DOMAIN rules : rules[x][1] /\ \A j \in 1..(x - 1) : ~rules[j][1]) = i
    OBVIOUS
  <2>2. QED
    BY <2>1 DEF FirstOf
<1>7. P(i)
  <2> HIDE DEF P
  <2>1. QED
    BY <1>5
<1>8. Decides(i, n, rules)
  BY <1>6, <1>7 DEF Decides
<1>9. QED
  BY <1>8

\* What follows from the facts of an isolated run, and from what it is called.
LEMMA IsolatedSays ==
  ASSUME NEW f, NEW held
  PROVE  LET s == IsolatedStatus(f, held)
             lost == "unknown" \in f.parts \union f.asked \union f.checked \union {f.synth}
             stuck == (f.synth = "failed" /\ ~f.judged) \/ f.cancelled \/ f.blocked
             underway == f.synth = "running" \/ "running" \in f.asked \/ {"running", "queued"} \intersect f.checked # {}
             drafts == Pending(f) /\ {"running", "queued"} \intersect f.parts # {}
         IN  /\ s \in {"problem", "my_turn", "working", "done"}
             /\ lost \/ stuck => s = "problem"
             /\ s = "done" => ~lost /\ ~stuck /\ ~underway /\ f.open /\ f.judged
             /\ ~lost /\ ~stuck /\ ~underway /\ ~f.consent /\ f.open /\ f.judged => s = "done"
             /\ s = "working" => underway \/ drafts
             /\ f.open /\ ~f.judged /\ ~underway => s \in {"problem", "my_turn"}
             /\ "queued" \in f.checked /\ held \in {"paused", "unsettled"} => s \in {"problem", "my_turn"}
             /\ ~f.open /\ ~underway /\ "queued" \in f.parts /\ held \in {"paused", "unsettled"} => s \in {"problem", "my_turn"}
<1> DEFINE lost == "unknown" \in f.parts \union f.asked \union f.checked \union {f.synth}
           failed == f.synth = "failed" /\ ~f.judged
           over == f.cancelled \/ f.blocked
           barred == "queued" \in f.checked /\ held = "unsettled"
           held2 == "queued" \in f.checked /\ held = "paused"
           underway == f.synth = "running" \/ "running" \in f.asked \/ {"running", "queued"} \intersect f.checked # {}
           pastes == ~f.open /\ "awaiting_user" \in f.parts
           waits == "queued" \in f.parts /\ held = "paused"
           stops == "queued" \in f.parts /\ held = "unsettled"
           drafts == Pending(f) /\ {"running", "queued"} \intersect f.parts # {}
           result == IF f.judged THEN "done" ELSE "my_turn"
           rules == << <<lost, "problem">>, <<failed, "problem">>, <<over, "problem">>, <<barred, "problem">>, <<held2, "my_turn">>,
                       <<underway, "working">>, <<pastes, "my_turn">>, <<f.consent, "my_turn">>, <<f.open, result>>, <<waits, "my_turn">>,
                       <<stops, "problem">>, <<drafts, "working">>, <<TRUE, "problem">> >>
           s == FirstOf(rules)
<1>1. IsolatedStatus(f, held) = s
  BY DEF IsolatedStatus
<1>2. result \in {"done", "my_turn"} /\ (result = "done" <=> f.judged)
  OBVIOUS
<1>3. pastes => ~f.open
  OBVIOUS
<1> HIDE DEF lost, failed, over, underway, barred, held2, pastes, waits, stops, drafts, result
<1>4. DOMAIN rules = 1..13 /\ rules[13][1]
  OBVIOUS
<1>5. PICK i : Decides(i, 13, rules)
  <2>1. 13 \in Nat \ {0}
    OBVIOUS
  <2> HIDE DEF rules
  <2>2. QED
    BY <1>4, <2>1, FirstDecides
<1>6. i \in 1..13 /\ rules[i][1] /\ (\A j \in 1..(i - 1) : ~rules[j][1]) /\ s = rules[i][2]
  BY <1>5 DEF Decides
<1>7. s \in {"problem", "my_turn", "working", "done"}
  BY <1>2, <1>6
<1>8. /\ i # 1 => ~lost
      /\ i \notin 1..2 => ~failed
      /\ i \notin 1..3 => ~over
      /\ i \notin 1..4 => ~barred
      /\ i \notin 1..5 => ~held2
      /\ i \notin 1..6 => ~underway
      /\ i \notin 1..9 => ~f.open
      /\ i \notin 1..10 => ~waits
      /\ i \notin 1..11 => ~stops
  BY <1>6
<1>9. /\ s = "done" => i = 9 /\ f.open /\ f.judged
      /\ s = "working" => i \in {6, 12}
      /\ i = 6 => underway
      /\ i = 12 => drafts
      /\ i = 9 => f.open /\ s = result
  BY <1>2, <1>6
<1>10. i \in 1..3 => s = "problem"
  BY <1>6
<1>11. /\ i \in 1..3 => lost \/ failed \/ over
       /\ i \in {4, 5} => barred \/ held2
       /\ i = 7 => pastes
       /\ i = 8 => f.consent
  BY <1>6
<1>12. ASSUME ~lost, ~failed, ~over, ~underway, ~barred, ~held2, ~f.consent, f.open, f.judged
       PROVE  s = "done"
  <2>1. i = 9
    BY <1>3, <1>6, <1>8, <1>9, <1>11, <1>12
  <2>2. QED
    BY <1>2, <1>9, <1>12, <2>1
<1>13. ASSUME f.open, ~f.judged, ~underway PROVE s \in {"problem", "my_turn"}
  <2>1. i \notin {6, 12}
    BY <1>8, <1>9, <1>13
  <2>2. s # "done" /\ s # "working"
    BY <1>9, <1>13, <2>1
  <2>3. QED
    BY <1>7, <2>2
<1>14. ASSUME barred \/ held2 PROVE s \in {"problem", "my_turn"}
  <2>1. i \in 1..5
    BY <1>6, <1>8, <1>14
  <2>2. QED
    BY <1>7, <1>9, <2>1
<1>15. ASSUME ~f.open, ~underway, waits \/ stops PROVE s \in {"problem", "my_turn"}
  <2>1. i \in 1..11 /\ i # 6
    BY <1>6, <1>8, <1>9, <1>15
  <2>2. QED
    BY <1>7, <1>9, <1>15, <2>1
<1>16. lost \/ failed \/ over => s = "problem"
  <2>1. lost \/ failed \/ over => i \in 1..3
    BY <1>8
  <2>2. QED
    BY <1>10, <2>1
<1>17. s = "done" => ~lost /\ ~failed /\ ~over /\ ~underway /\ f.open /\ f.judged
  BY <1>8, <1>9
<1>18. s = "working" => underway \/ drafts
  BY <1>9
<1> HIDE DEF s
<1>19. QED
  BY <1>1, <1>7, <1>12, <1>13, <1>14, <1>15, <1>16, <1>17, <1>18
     DEF lost, failed, over, underway, barred, held2, waits, stops, drafts

\* The same for a general run.
LEMMA GeneralSays ==
  ASSUME NEW f, NEW held
  PROVE  LET s == GeneralStatus(f, held)
             lost == "unknown" \in f.parts \union f.gathered \union f.checked
             underway == "running" \in f.gathered \/ {"running", "queued"} \intersect f.checked # {}
             drafts == Pending(f) /\ {"running", "queued"} \intersect f.parts # {}
         IN  /\ s \in {"problem", "my_turn", "working", "done"}
             /\ lost \/ f.cancelled => s = "problem"
             /\ s = "done" => ~lost /\ ~f.cancelled /\ ~underway /\ f.open /\ f.judged
             /\ ~lost /\ ~f.cancelled /\ ~underway /\ f.open /\ f.judged => s = "done"
             /\ s = "working" => underway \/ drafts
             /\ f.open /\ ~f.judged /\ ~underway => s \in {"problem", "my_turn"}
             /\ "queued" \in f.checked /\ held \in {"paused", "unsettled"} => s \in {"problem", "my_turn"}
             /\ ~f.open /\ ~underway /\ "queued" \in f.parts /\ held \in {"paused", "unsettled"} => s \in {"problem", "my_turn"}
<1> DEFINE lost == "unknown" \in f.parts \union f.gathered \union f.checked
           barred == "queued" \in f.checked /\ held = "unsettled"
           held2 == "queued" \in f.checked /\ held = "paused"
           underway == "running" \in f.gathered \/ {"running", "queued"} \intersect f.checked # {}
           waits == "queued" \in f.parts /\ held = "paused"
           stops == "queued" \in f.parts /\ held = "unsettled"
           drafts == Pending(f) /\ {"running", "queued"} \intersect f.parts # {}
           result == IF f.judged THEN "done" ELSE "my_turn"
           rules == << <<lost, "problem">>, <<f.cancelled, "problem">>, <<barred, "problem">>, <<held2, "my_turn">>,
                       <<underway, "working">>, <<f.open, result>>, <<waits, "my_turn">>,
                       <<stops, "problem">>, <<drafts, "working">>, <<TRUE, "problem">> >>
           s == FirstOf(rules)
<1>1. GeneralStatus(f, held) = s
  BY DEF GeneralStatus
<1>2. result \in {"done", "my_turn"} /\ (result = "done" <=> f.judged)
  OBVIOUS
<1> HIDE DEF lost, underway, barred, held2, waits, stops, drafts, result
<1>4. DOMAIN rules = 1..10 /\ rules[10][1]
  OBVIOUS
<1>5. PICK i : Decides(i, 10, rules)
  <2>1. 10 \in Nat \ {0}
    OBVIOUS
  <2> HIDE DEF rules
  <2>2. QED
    BY <1>4, <2>1, FirstDecides
<1>6. i \in 1..10 /\ rules[i][1] /\ (\A j \in 1..(i - 1) : ~rules[j][1]) /\ s = rules[i][2]
  BY <1>5 DEF Decides
<1>7. s \in {"problem", "my_turn", "working", "done"}
  BY <1>2, <1>6
<1>8. /\ i # 1 => ~lost
      /\ i \notin 1..2 => ~f.cancelled
      /\ i \notin 1..3 => ~barred
      /\ i \notin 1..4 => ~held2
      /\ i \notin 1..5 => ~underway
      /\ i \notin 1..6 => ~f.open
      /\ i \notin 1..7 => ~waits
      /\ i \notin 1..8 => ~stops
  BY <1>6
<1>9. /\ s = "done" => i = 6 /\ f.open /\ f.judged
      /\ s = "working" => i \in {5, 9}
      /\ i = 5 => underway
      /\ i = 9 => drafts
      /\ i = 6 => f.open /\ s = result
  BY <1>2, <1>6
<1>10. i \in 1..2 => s = "problem"
  BY <1>6
<1>11. /\ i \in 1..2 => lost \/ f.cancelled
       /\ i \in {3, 4} => barred \/ held2
  BY <1>6
<1>12. ASSUME ~lost, ~f.cancelled, ~underway, ~barred, ~held2, f.open, f.judged
       PROVE  s = "done"
  <2>1. i = 6
    BY <1>6, <1>8, <1>9, <1>11, <1>12
  <2>2. QED
    BY <1>2, <1>9, <1>12, <2>1
<1>13. ASSUME f.open, ~f.judged, ~underway PROVE s \in {"problem", "my_turn"}
  <2>1. i \notin {5, 9}
    BY <1>8, <1>9, <1>13
  <2>2. s # "done" /\ s # "working"
    BY <1>9, <1>13, <2>1
  <2>3. QED
    BY <1>7, <2>2
<1>14. ASSUME barred \/ held2 PROVE s \in {"problem", "my_turn"}
  <2>1. i \in 1..4
    BY <1>6, <1>8, <1>14
  <2>2. QED
    BY <1>7, <1>9, <2>1
<1>15. ASSUME ~f.open, ~underway, waits \/ stops PROVE s \in {"problem", "my_turn"}
  <2>1. i \in 1..8 /\ i # 5
    BY <1>6, <1>8, <1>9, <1>15
  <2>2. QED
    BY <1>7, <1>9, <1>15, <2>1
<1>16. lost \/ f.cancelled => s = "problem"
  <2>1. lost \/ f.cancelled => i \in 1..2
    BY <1>8
  <2>2. QED
    BY <1>10, <2>1
<1>17. s = "done" => ~lost /\ ~f.cancelled /\ ~underway /\ f.open /\ f.judged
  BY <1>8, <1>9
<1>18. s = "working" => underway \/ drafts
  BY <1>9
<1> HIDE DEF s
<1>19. QED
  BY <1>1, <1>7, <1>12, <1>13, <1>14, <1>15, <1>16, <1>17, <1>18
     DEF lost, underway, barred, held2, waits, stops, drafts

\* What both kinds of runs are called, from the facts there may be.
LEMMA StatusSays ==
  ASSUME NEW f \in PossibleFacts, NEW held \in {"none", "paused", "unsettled"}
  PROVE  LET s == RunStatus(f, held)
             underway == f.synth = "running" \/ "running" \in f.asked \union f.gathered \/ {"running", "queued"} \intersect f.checked # {}
         IN  /\ s \in {"problem", "my_turn", "working", "done"}
             /\ Unsettled(f) \/ f.cancelled \/ f.blocked => s = "problem"
             /\ s = "done" => ~Unsettled(f) /\ ~f.cancelled /\ ~underway /\ f.open /\ f.judged
             /\ ~Unsettled(f) /\ ~underway /\ f.open /\ f.judged => s = "done"
             /\ s = "working" => underway \/ (Pending(f) /\ {"running", "queued"} \intersect f.parts # {})
             /\ f.open /\ ~f.judged /\ ~underway => s \in {"problem", "my_turn"}
             /\ "queued" \in f.checked /\ held # "none" => s \in {"problem", "my_turn"}
             /\ ~f.open /\ "queued" \in f.parts /\ held # "none" => s \in {"problem", "my_turn"}
<1>1. held # "none" <=> held \in {"paused", "unsettled"}
  OBVIOUS
<1>2. /\ f.open => ~f.cancelled /\ ~f.consent /\ ~f.blocked
      /\ ~f.open => f.checked = {} /\ f.asked = {} /\ f.gathered = {} /\ f.synth = "none"
      /\ f.mode \in {"isolated", "general"}
      /\ f.mode = "general" => f.asked = {} /\ f.synth = "none" /\ ~f.blocked
      /\ f.mode = "isolated" => f.gathered = {}
  BY DEF PossibleFacts
<1>3. CASE f.mode = "isolated"
  <2>1. Unsettled(f) <=> "unknown" \in f.parts \union f.asked \union f.checked \union {f.synth}
    BY <1>2, <1>3 DEF Unsettled
  <2>2. RunStatus(f, held) = IsolatedStatus(f, held)
    BY <1>3 DEF RunStatus
  <2>3. f.judged => ~(f.synth = "failed" /\ ~f.judged)
    OBVIOUS
  <2>4. QED
    BY <1>1, <1>2, <1>3, <2>1, <2>2, <2>3, IsolatedSays
<1>4. CASE f.mode = "general"
  <2>1. Unsettled(f) <=> "unknown" \in f.parts \union f.gathered \union f.checked
    BY <1>2, <1>4 DEF Unsettled
  <2>2. RunStatus(f, held) = GeneralStatus(f, held)
    BY <1>4 DEF RunStatus
  <2>3. QED
    BY <1>1, <1>2, <1>4, <2>1, <2>2, GeneralSays
<1>5. QED
  BY <1>2, <1>3, <1>4

\* The list and the steps of a run never contradict each other, whatever calls a run has
\* and whatever holds the queue (roles.py, workflow.steps).
THEOREM ListStaysWithSteps ==
  ASSUME NEW f \in PossibleFacts, NEW held \in {"none", "paused", "unsettled"}
  PROVE  ListAgreesWithSteps(f, held)
<1> DEFINE s == RunStatus(f, held)
           underway == f.synth = "running" \/ "running" \in f.asked \union f.gathered \/ {"running", "queued"} \intersect f.checked # {}
           free == ReviewStep(f, held) \in {"done", "optional"}
<1>1. /\ f.open \in BOOLEAN /\ f.judged \in BOOLEAN /\ f.cancelled \in BOOLEAN /\ f.blocked \in BOOLEAN
      /\ f.open => f.parts \subseteq {"accepted", "rejected"} /\ ~f.cancelled /\ ~f.blocked
      /\ ~f.open => f.checked = {} /\ f.asked = {} /\ f.gathered = {} /\ f.synth = "none" /\ ~f.judged
      /\ "queued" \notin f.asked /\ "queued" \notin f.gathered
      /\ f.synth \in {"none", "running", "unknown", "completed", "failed"}
  BY DEF PossibleFacts
<1>2. /\ "unknown" \in Reviewing(f) <=> "unknown" \in f.asked \union f.checked \union f.gathered \union {f.synth}
      /\ "queued" \in Reviewing(f) <=> "queued" \in f.checked
      /\ {"running", "queued"} \intersect Reviewing(f) # {} <=> underway
  BY <1>1 DEF Reviewing
<1>3. /\ free => "unknown" \notin Reviewing(f) /\ ~underway
      /\ "unknown" \notin Reviewing(f) /\ ~underway => free
      /\ ReviewStep(f, held) = "blocked" => "unknown" \in Reviewing(f) \/ ("queued" \in Reviewing(f) /\ held # "none")
  <2>1. Reviewing(f) = {} => "unknown" \notin Reviewing(f) /\ {"running", "queued"} \intersect Reviewing(f) = {}
    OBVIOUS
  <2>2. "queued" \in Reviewing(f) => {"running", "queued"} \intersect Reviewing(f) # {}
    OBVIOUS
  <2> HIDE DEF underway
  <2>3. QED
    BY <1>2, <2>1, <2>2 DEF ReviewStep
<1>4. Unsettled(f) <=> "unknown" \in f.parts \/ "unknown" \in Reviewing(f)
  BY <1>2 DEF Unsettled
<1>5. f.open => "unknown" \notin f.parts
  BY <1>1
<1>6. /\ s \in {"problem", "my_turn", "working", "done"}
      /\ Unsettled(f) \/ f.cancelled \/ f.blocked => s = "problem"
      /\ s = "done" => ~Unsettled(f) /\ ~f.cancelled /\ ~underway /\ f.open /\ f.judged
      /\ ~Unsettled(f) /\ ~underway /\ f.open /\ f.judged => s = "done"
      /\ s = "working" => underway \/ (Pending(f) /\ {"running", "queued"} \intersect f.parts # {})
      /\ f.open /\ ~f.judged /\ ~underway => s \in {"problem", "my_turn"}
      /\ "queued" \in f.checked /\ held # "none" => s \in {"problem", "my_turn"}
      /\ ~f.open /\ "queued" \in f.parts /\ held # "none" => s \in {"problem", "my_turn"}
  BY StatusSays
<1>7. Active(f) <=> (~f.cancelled /\ {"running", "queued", "awaiting_user"} \intersect f.parts # {}) \/ underway
  BY <1>1 DEF Active
<1>8. Pending(f) => ~f.cancelled
  BY <1>1 DEF Pending
<1>9. f.open => {"running", "queued", "awaiting_user"} \intersect f.parts = {}
  BY <1>1
<1>10. {"running", "queued"} \intersect f.parts # {} => {"running", "queued", "awaiting_user"} \intersect f.parts # {}
  OBVIOUS
<1>11. /\ DecisionStep(f, held) = "done" <=> f.open /\ free /\ f.judged
       /\ DecisionStep(f, held) = "ready" <=> f.open /\ free /\ ~f.judged
  BY <1>1 DEF DecisionStep
<1>12. CollectStep(f, held) = "blocked" =>
         ~f.open /\ ("unknown" \in f.parts \/ f.cancelled \/ f.blocked \/ ("queued" \in f.parts /\ held # "none"))
  BY DEF CollectStep
<1> HIDE DEF s, underway, free
<1>13. s = "done" <=> DecisionStep(f, held) = "done"
  BY <1>3, <1>4, <1>5, <1>6, <1>11
<1>14. s = "done" => ~Active(f) /\ ~Unsettled(f)
  BY <1>6, <1>7, <1>9
<1>15. s = "working" => Active(f)
  BY <1>6, <1>7, <1>8, <1>10
<1>16. DecisionStep(f, held) = "ready" => s \in {"my_turn", "problem"}
  BY <1>3, <1>6, <1>11
<1>17. "blocked" \in {CollectStep(f, held), ReviewStep(f, held)} => s \in {"my_turn", "problem"}
  BY <1>2, <1>3, <1>4, <1>6, <1>12
<1>18. QED
  BY <1>13, <1>14, <1>15, <1>16, <1>17 DEF s, ListAgreesWithSteps

\* What is said of a closed ledger is what will be said once it is open
\* (ledgers._unsettled, coordinator._recover).
THEOREM ClosedLedgersToldTrue ==
  ASSUME NEW f \in PossibleFacts
  PROVE  ReopensAsTold(f)
<1> DEFINE lost(states) == {IF x = "running" THEN "unknown" ELSE x : x \in states}
           g == Reopened(f)
<1>1. \A S : "unknown" \in lost(S) <=> "unknown" \in S \/ "running" \in S
  OBVIOUS
<1>2. /\ g.parts = lost(f.parts) /\ g.checked = lost(f.checked) /\ g.asked = lost(f.asked) /\ g.gathered = lost(f.gathered)
      /\ g.synth = IF f.synth = "running" THEN "unknown" ELSE f.synth
      /\ g.mode = f.mode
  BY DEF Reopened, PossibleFacts
<1>3. /\ f.mode \in {"isolated", "general"}
      /\ f.mode = "general" => f.asked = {} /\ f.synth = "none"
      /\ f.mode = "isolated" => f.gathered = {}
      /\ f.synth \in {"none", "running", "unknown", "completed", "failed"}
  BY DEF PossibleFacts
<1>4. g.synth = "unknown" <=> f.synth \in {"running", "unknown"}
  BY <1>2, <1>3
<1> HIDE DEF g
<1>5. Unsettled(g) <=> \/ "unknown" \in lost(f.parts) \/ "unknown" \in lost(f.asked) \/ "unknown" \in lost(f.checked)
                       \/ "unknown" \in lost(f.gathered) \/ f.synth \in {"running", "unknown"}
  <2> HIDE DEF lost
  <2>1. QED
    BY <1>2, <1>4 DEF Unsettled
<1> HIDE DEF lost
<1>6. UnsettledWhenClosed(f) <=> Unsettled(g)
  BY <1>1, <1>5 DEF UnsettledWhenClosed
<1>7. ASSUME Unsettled(g), NEW held PROVE RunStatus(g, held) = "problem"
  <2>1. CASE f.mode = "isolated"
    <3>1. "unknown" \in g.parts \union g.asked \union g.checked \union {g.synth}
      <4>1. lost(f.gathered) = {}
        BY <1>3, <2>1 DEF lost
      <4>2. QED
        BY <1>2, <1>4, <1>5, <1>7, <4>1
    <3>2. RunStatus(g, held) = IsolatedStatus(g, held)
      BY <1>2, <2>1 DEF RunStatus
    <3>3. QED
      BY <3>1, <3>2, IsolatedSays
  <2>2. CASE f.mode = "general"
    <3>1. "unknown" \in g.parts \union g.gathered \union g.checked
      <4>1. lost(f.asked) = {} /\ f.synth = "none"
        BY <1>3, <2>2 DEF lost
      <4>2. QED
        BY <1>2, <1>5, <1>7, <4>1
    <3>2. RunStatus(g, held) = GeneralStatus(g, held)
      BY <1>2, <2>2 DEF RunStatus
    <3>3. QED
      BY <3>1, <3>2, GeneralSays
  <2>3. QED
    BY <1>3, <2>1, <2>2
<1>8. QED
  BY <1>6, <1>7 DEF ReopensAsTold, g

-----------------------------------------------------------------------------
(* What tasks and runs say of each other.                                    *)

LEMMA StepShapes ==
  ASSUME TypeOK, [Next]_vars
  PROVE  \/ \E r \in Run : \E c : RowChange(r, c)
         \/ \E t \in Task : \E seen \in 0..MaxSaves, D \in SUBSET Task : SavePlan(t, seen, D)
         \/ \E r \in Run : CreateRun(r)
         \/ Restart
         \/ UNCHANGED <<plans, runs>>
<1>1. CASE PlanStep
  BY <1>1 DEF PlanStep
<1>2. CASE RunStep
  <2>1. PICK r \in Run :
          \/ CreateRun(r)
          \/ Refuse(r) \/ \E t \in Task : PrepareRun(r, t)
          \/ \/ StartAttempt(r) \/ EndAttempt(r) \/ SubmitManual(r) \/ WithdrawManual(r) \/ AcknowledgeUnknown(r)
             \/ ApproveReduction(r) \/ CancelRun(r) \/ AskReview(r) \/ StartReview(r) \/ EndReview(r) \/ AcknowledgeReview(r)
             \/ \E seen \in 0..MaxResults : MarkReviewed(r, seen)
    BY <1>2 DEF RunStep
  <2>2. Refuse(r) \/ (\E t \in Task : PrepareRun(r, t)) => UNCHANGED <<plans, runs>>
    BY DEF Refuse, PrepareRun
  <2>3. QED
    BY <2>1, <2>2, RunChanges
<1>3. CASE PlanningStep
  BY <1>3 DEF PlanningStep, StartPlanning, EndPlanning, AcknowledgePlanning
<1>4. CASE Restart
  BY <1>4
<1>5. CASE Resume \/ UNCHANGED vars
  BY <1>5 DEF Resume, vars
<1>6. QED
  BY <1>1, <1>2, <1>3, <1>4, <1>5 DEF Next

\* A stored plan names stored tasks, a task without a plan names none, and a stored
\* task has a plan or a run.
PlansFit ==
  \A t \in Task :
    /\ deps[t] \subseteq tasks
    /\ ~Planned(t) => deps[t] = {}
    /\ t \in tasks => Planned(t) \/ RunsOf(t) # {}

RunsFit == \A r \in Created : OpenFits(run[r])

ScreenInv == DraftingInv /\ PlansInv /\ PlansFit /\ RunsFit

LEMMA ScreenInvInit == Init => ScreenInv
<1> SUFFICES ASSUME Init PROVE ScreenInv
  OBVIOUS
<1>1. PlansInv
  BY DEF Init, PlansInv, PlansAcyclic, Graphs
<1>2. PlansFit
  BY DEF Init, PlansFit
<1>3. RunsFit
  BY DEF Init, RunsFit, Created, Exists
<1>4. QED
  BY <1>1, <1>2, <1>3, DraftingInvInit DEF ScreenInv

\* No run disappears or changes its task.
LEMMA RunsRemain ==
  ASSUME TypeOK, [Next]_vars, NEW r \in Run, Exists(r)
  PROVE  Exists(r)' /\ run'[r].task = run[r].task
<1>0. DOMAIN run = Run
  BY DEF TypeOK
<1>1. ASSUME NEW q \in Run, NEW c, RowChange(q, c) PROVE Exists(r)' /\ run'[r].task = run[r].task
  <2>1. run' = [run EXCEPT ![q] = c] /\ c \in RunRow /\ c.task = run[q].task
    BY <1>1 DEF RowChange, Change
  <2>2. c # NoRun
    BY <2>1 DEF RunRow, NoRun
  <2>3. CASE r = q
    BY <1>0, <2>1, <2>2, <2>3 DEF Exists
  <2>4. CASE r # q
    BY <1>0, <2>1, <2>4 DEF Exists
  <2>5. QED
    BY <2>3, <2>4
<1>2. ASSUME NEW q \in Run, CreateRun(q) PROVE Exists(r)' /\ run'[r].task = run[r].task
  <2>1. run' = [run EXCEPT ![q] = NewRun(q, prepared[q].task, prepared[q].policy)] /\ ~Exists(q)
    BY <1>2 DEF CreateRun
  <2>2. run'[r] = run[r]
    BY <1>0, <2>1
  <2>3. QED
    BY <2>2 DEF Exists
<1>3. CASE Restart
  <2>1. run[r] \in RunRow
    BY DEF TypeOK, Exists
  <2>2. run'[r] = [run[r] EXCEPT !.part = IF @ = "running" THEN "unknown" ELSE @,
                                 !.review = IF @ = "running" THEN "unknown" ELSE @]
    BY <1>3 DEF Restart
  <2>3. run'[r].task = run[r].task /\ DOMAIN run'[r] = DOMAIN run[r]
    BY <2>1, <2>2 DEF RunRow
  <2>4. DOMAIN NoRun = {"task"} /\ "part" \in DOMAIN run[r]
    BY <2>1 DEF RunRow, NoRun
  <2>5. QED
    BY <2>3, <2>4 DEF Exists
<1>4. CASE UNCHANGED <<plans, runs>> \/ \E t \in Task : \E seen \in 0..MaxSaves, D \in SUBSET Task : SavePlan(t, seen, D)
  BY <1>4 DEF runs, SavePlan, Exists
<1>5. QED
  BY <1>1, <1>2, <1>3, <1>4, StepShapes

LEMMA PlansFitStep ==
  ASSUME ScreenInv, [Next]_vars
  PROVE  PlansFit'
<1>1. TypeOK /\ PlansFit
  BY DEF ScreenInv, DraftingInv
<1>2. ASSUME NEW t \in Task, RunsOf(t) # {} PROVE RunsOf(t)' # {}
  <2>1. PICK r \in Run : Exists(r) /\ run[r].task = t
    BY <1>2 DEF RunsOf, Created
  <2>2. Exists(r)' /\ run'[r].task = t
    BY <1>1, <2>1, RunsRemain
  <2>3. QED
    BY <2>2 DEF RunsOf, Created
<1>3. ASSUME UNCHANGED plans PROVE PlansFit'
  BY <1>1, <1>2, <1>3 DEF PlansFit, plans, Planned
<1>4. ASSUME NEW t \in Task, NEW seen \in 0..MaxSaves, NEW D \in SUBSET Task, SavePlan(t, seen, D) PROVE PlansFit'
  <2>1. /\ D \subseteq tasks /\ tasks' = tasks \union {t}
        /\ revision' = [revision EXCEPT ![t] = @ + 1]
        /\ deps' = [deps EXCEPT ![t] = D]
    BY <1>4 DEF SavePlan
  <2>2. ASSUME NEW u \in Task
        PROVE  /\ deps'[u] \subseteq tasks'
               /\ ~Planned(u)' => deps'[u] = {}
               /\ u \in tasks' => Planned(u)' \/ RunsOf(u)' # {}
    <3>1. CASE u = t
      <4>1. deps'[u] = D /\ revision'[u] = revision[t] + 1 /\ revision[t] \in Nat
        BY <1>1, <2>1, <3>1 DEF TypeOK
      <4>2. Planned(u)'
        BY <4>1 DEF Planned
      <4>3. QED
        BY <2>1, <4>1, <4>2
    <3>2. CASE u # t
      <4>1. deps'[u] = deps[u] /\ revision'[u] = revision[u] /\ (u \in tasks' => u \in tasks)
        BY <1>1, <2>1, <3>2 DEF TypeOK
      <4>2. Planned(u)' <=> Planned(u)
        BY <4>1 DEF Planned
      <4>3. QED
        BY <1>1, <1>2, <2>1, <4>1, <4>2 DEF PlansFit
    <3>3. QED
      BY <3>1, <3>2
  <2>3. QED
    BY <2>2 DEF PlansFit
<1>5. ASSUME NEW r \in Run, CreateRun(r) PROVE PlansFit'
  <2> DEFINE p == prepared[r]
  <2>1. /\ p # Nothing /\ tasks' = tasks \union {p.task} /\ deps' = deps /\ revision' = revision
        /\ run' = [run EXCEPT ![r] = NewRun(r, p.task, p.policy)]
    BY <1>5 DEF CreateRun
  <2>2. run'[r] = NewRun(r, p.task, p.policy)
    BY <1>1, <2>1 DEF TypeOK
  <2>3. run'[r].task = p.task /\ Exists(r)'
    <3>1. "part" \in DOMAIN run'[r] /\ DOMAIN NoRun = {"task"}
      BY <2>2 DEF NewRun, NoRun
    <3>2. QED
      BY <2>2, <3>1 DEF NewRun, Exists
  <2>0. PICK t : t = p.task
    OBVIOUS
  <2>4. r \in RunsOf(t)'
    BY <2>0, <2>3 DEF RunsOf, Created
  <2> HIDE DEF p
  <2>5. ASSUME NEW u \in Task
        PROVE  /\ deps'[u] \subseteq tasks'
               /\ ~Planned(u)' => deps'[u] = {}
               /\ u \in tasks' => Planned(u)' \/ RunsOf(u)' # {}
    <3>1. Planned(u)' <=> Planned(u)
      BY <2>1 DEF Planned
    <3>2. u \in tasks' => u \in tasks \/ u = t
      BY <2>0, <2>1
    <3>3. QED
      BY <1>1, <1>2, <2>1, <2>4, <3>1, <3>2 DEF PlansFit
  <2>6. QED
    BY <2>5 DEF PlansFit
<1>6. QED
  BY <1>1, <1>3, <1>4, <1>5, StepShapes DEF RowChange, Change, Restart

LEMMA RunsFitStep ==
  ASSUME ScreenInv, [Next]_vars
  PROVE  RunsFit'
<1>1. TypeOK /\ \A r \in Run : Exists(r) => OpenFits(run[r])
  BY DEF ScreenInv, DraftingInv, RunsFit, Created
<1>2. DOMAIN run = Run
  BY <1>1 DEF TypeOK
<1>3. ASSUME NEW q \in Run, NEW c, RowChange(q, c), NEW r \in Run, Exists(r)' PROVE OpenFits(run'[r])
  <2>1. run' = [run EXCEPT ![q] = c] /\ Exists(q) /\ (OpenFits(run[q]) => OpenFits(c))
    BY <1>3 DEF RowChange, Change
  <2>2. CASE r = q
    BY <1>1, <1>2, <2>1, <2>2
  <2>3. CASE r # q
    BY <1>1, <1>2, <1>3, <2>1, <2>3 DEF Exists
  <2>4. QED
    BY <2>2, <2>3
<1>4. ASSUME NEW q \in Run, CreateRun(q), NEW r \in Run, Exists(r)' PROVE OpenFits(run'[r])
  <2>1. run' = [run EXCEPT ![q] = NewRun(q, prepared[q].task, prepared[q].policy)]
    BY <1>4 DEF CreateRun
  <2>2. CASE r = q
    BY <1>2, <2>1, <2>2 DEF NewRun, OpenFits
  <2>3. CASE r # q
    BY <1>1, <1>2, <1>4, <2>1, <2>3 DEF Exists
  <2>4. QED
    BY <2>2, <2>3
<1>5. ASSUME Restart, NEW r \in Run, Exists(r)' PROVE OpenFits(run'[r])
  <2>1. Exists(r)
    BY <1>5 DEF Restart, Exists
  <2>2. run[r] \in RunRow /\ OpenFits(run[r])
    BY <1>1, <2>1 DEF TypeOK, Exists
  <2>3. run'[r] = [run[r] EXCEPT !.part = IF @ = "running" THEN "unknown" ELSE @,
                                 !.review = IF @ = "running" THEN "unknown" ELSE @]
    BY <1>5, <2>1 DEF Restart
  <2>4. QED
    BY <2>2, <2>3 DEF OpenFits, RunRow
<1>6. ASSUME UNCHANGED run PROVE RunsFit'
  BY <1>1, <1>6 DEF RunsFit, Created, Exists
<1>7. (\A r \in Run : Exists(r)' => OpenFits(run'[r])) => RunsFit'
  BY DEF RunsFit, Created
<1>8. CASE \E q \in Run : \E c : RowChange(q, c)
  BY <1>3, <1>7, <1>8
<1>9. CASE (\E q \in Run : CreateRun(q)) \/ Restart
  BY <1>4, <1>5, <1>7, <1>9
<1>10. QED
  BY <1>1, <1>6, <1>8, <1>9, StepShapes DEF SavePlan, runs

LEMMA ScreenInvStep == ScreenInv /\ [Next]_vars => ScreenInv'
BY DraftingInvStep, PlansInvStep, PlansFitStep, RunsFitStep DEF ScreenInv

(***************************************************************************)
(* The types, the plans and the runs fit each other in every reachable state: *)
(* what tasks.save, work.create_run and the end of a call keep.              *)
(***************************************************************************)
THEOREM ScreenInvariant == Spec => []ScreenInv
BY ScreenInvInit, ScreenInvStep, PTL DEF Spec

-----------------------------------------------------------------------------
(* What is said of the runs there are.                                       *)

LEMMA HeldValues == Held \in {"none", "paused", "unsettled"}
BY DEF Held

LEMMA FactsArePossible ==
  ASSUME ScreenInv, NEW r \in Created
  PROVE  /\ Facts(r) \in PossibleFacts
         /\ Facts(r).parts = {run[r].part} /\ Facts(r).checked = {run[r].review} \ {"none"}
         /\ Facts(r).open = run[r].open /\ Facts(r).judged = run[r].judged /\ Facts(r).cancelled = run[r].cancelled
         /\ Facts(r).asked = {} /\ Facts(r).gathered = {} /\ Facts(r).synth = "none"
<1> DEFINE c == run[r]
           f == Facts(r)
           short == Mode[r] = "isolated" /\ Accepting(c) /\ c.part = "rejected"
<1>1. c \in RunRow /\ OpenFits(c) /\ r \in Run
  BY DEF ScreenInv, DraftingInv, RunsFit, Created, Exists, TypeOK
<1>2. Mode[r] \in {"isolated", "general"}
  BY <1>1, TaskPlansAssumption
<1>3. f = [mode |-> Mode[r], parts |-> {c.part}, checked |-> {c.review} \ {"none"}, asked |-> {}, gathered |-> {},
           synth |-> "none", cancelled |-> c.cancelled, open |-> c.open, consent |-> short /\ ~c.approved,
           blocked |-> short /\ c.approved, judged |-> c.judged]
  BY DEF Facts
<1>4. /\ c.part \in CallState \union {"awaiting_user"} /\ c.review \in CallState \union {"none"}
      /\ c.cancelled \in BOOLEAN /\ c.open \in BOOLEAN /\ c.judged \in BOOLEAN /\ c.approved \in BOOLEAN
  BY <1>1 DEF RunRow
<1>5. /\ c.open => c.part \in {"accepted", "rejected"} /\ ~c.cancelled
      /\ ~c.open => c.review = "none" /\ ~c.judged
  BY <1>1 DEF OpenFits
<1>6. short => Mode[r] = "isolated" /\ ~c.open
  BY DEF Accepting
<1> DEFINE consent == short /\ ~c.approved
           blocked == short /\ c.approved
<1>7. consent \in BOOLEAN /\ blocked \in BOOLEAN /\ (consent \/ blocked => short)
  OBVIOUS
<1> HIDE DEF c, short, f
<1>8. f = [mode |-> Mode[r], parts |-> {c.part}, checked |-> {c.review} \ {"none"}, asked |-> {}, gathered |-> {},
           synth |-> "none", cancelled |-> c.cancelled, open |-> c.open, consent |-> consent,
           blocked |-> blocked, judged |-> c.judged]
  BY <1>3
<1> HIDE DEF consent, blocked
<1>9. {c.part} \in SUBSET (CallState \union {"awaiting_user"}) /\ {c.review} \ {"none"} \in SUBSET (CallState \union {"skipped"})
  BY <1>4
<1>10. f \in [mode : {"isolated", "general"}, parts : SUBSET (CallState \union {"awaiting_user"}),
          checked : SUBSET (CallState \union {"skipped"}), asked : SUBSET (CallState \ {"queued"}),
          gathered : SUBSET (CallState \ {"queued"}), synth : {"none", "running", "unknown", "completed", "failed"},
          cancelled : BOOLEAN, open : BOOLEAN, consent : BOOLEAN, blocked : BOOLEAN, judged : BOOLEAN]
  BY <1>2, <1>4, <1>7, <1>8, <1>9
<1>11. /\ f.mode = Mode[r] /\ f.parts = {c.part} /\ f.checked = {c.review} \ {"none"} /\ f.asked = {} /\ f.gathered = {}
       /\ f.synth = "none" /\ f.cancelled = c.cancelled /\ f.open = c.open /\ f.consent = consent /\ f.blocked = blocked
       /\ f.judged = c.judged
  BY <1>8
<1>12. f \in PossibleFacts
  BY <1>5, <1>6, <1>7, <1>10, <1>11 DEF PossibleFacts
<1>13. QED
  BY <1>11, <1>12 DEF f, c

\* The statuses of a run there is.
LEMMA RunSays ==
  ASSUME ScreenInv, NEW r \in Created
  PROVE  /\ Status(r) \in {"problem", "my_turn", "working", "done"}
         /\ Unsettled(Facts(r)) <=> "unknown" \in {run[r].part, run[r].review}
         /\ Unsettled(Facts(r)) => Status(r) = "problem"
         /\ Status(r) = "done" => /\ run[r].open /\ run[r].judged /\ ~run[r].cancelled
                                  /\ run[r].part \in {"accepted", "rejected"}
                                  /\ run[r].review \notin {"running", "unknown", "queued"}
         /\ run[r].review \in {"running", "queued"} => Active(Facts(r))
<1> DEFINE f == Facts(r)
<1>1. /\ f \in PossibleFacts
      /\ f.parts = {run[r].part} /\ f.checked = {run[r].review} \ {"none"}
      /\ f.open = run[r].open /\ f.judged = run[r].judged /\ f.cancelled = run[r].cancelled
      /\ f.asked = {} /\ f.gathered = {} /\ f.synth = "none"
  BY FactsArePossible
<1>2. Status(r) = RunStatus(f, Held) /\ Held \in {"none", "paused", "unsettled"}
  BY HeldValues DEF Status
<1> HIDE DEF f
<1>3. Unsettled(f) <=> "unknown" \in {run[r].part, run[r].review}
  BY <1>1 DEF Unsettled
<1>4. run[r].open => run[r].part \in {"accepted", "rejected"}
  BY DEF ScreenInv, RunsFit, OpenFits
<1>5. /\ RunStatus(f, Held) \in {"problem", "my_turn", "working", "done"}
      /\ Unsettled(f) => RunStatus(f, Held) = "problem"
      /\ RunStatus(f, Held) = "done" => ~Unsettled(f) /\ ~f.cancelled /\ {"running", "queued"} \intersect f.checked = {} /\ f.open /\ f.judged
  BY <1>1, <1>2, StatusSays
<1>6. {"running", "queued"} \intersect f.checked = {} => run[r].review \notin {"running", "queued"}
  BY <1>1
<1>7. run[r].review \in {"running", "queued"} => Active(f)
  BY <1>1 DEF Active
<1>8. QED
  BY <1>1, <1>2, <1>3, <1>4, <1>5, <1>6, <1>7 DEF f

LEMMA DoneIsClosed ==
  ASSUME TypeOK
  PROVE  /\ Listed \subseteq Task /\ IsFiniteSet(Listed)
         /\ Done \subseteq CompleteTasks
         /\ \A u \in Done : deps[u] \subseteq Done
<1>1. Listed \subseteq Task /\ IsFiniteSet(Listed)
  BY TaskPlansAssumption, FS_Subset DEF Listed, TypeOK
<1>2. Ranked(deps, CompleteTasks, Rounds(Listed, deps, CompleteTasks))
  BY <1>1, RoundsAreRanked
<1>3. QED
  BY <1>1, <1>2 DEF Done, Finished, Ranked

\* A finished task has a judged result and nothing that runs or may be running.
LEMMA FinishedIsQuiet ==
  ASSUME ScreenInv, NEW u \in Done
  PROVE  /\ planning[u] = "none"
         /\ \E q \in Current(u) : run[q].open /\ run[q].judged
         /\ \A q \in RunsOf(u) : {run[q].part, run[q].review} \intersect InFlight = {}
<1>1. TypeOK /\ \A q \in Run : Drafting(q)
  BY DEF ScreenInv, DraftingInv
<1>2. Complete(u) /\ u \in Task
  BY <1>1, DoneIsClosed DEF CompleteTasks
<1>3. /\ Current(u) # {} /\ \A q \in Current(u) : Status(q) = "done"
      /\ Planned(u) => \A q \in RunsOf(u) : ~Active(Facts(q)) /\ ~Unsettled(Facts(q))
      /\ planning[u] = "none"
  BY <1>2 DEF Complete
<1>4. Current(u) \subseteq RunsOf(u) /\ RunsOf(u) \subseteq Created
  BY DEF Current, RunsOf
<1>5. PICK q \in Current(u) : TRUE
  BY <1>3
<1>6. run[q].open /\ run[q].judged
  BY <1>3, <1>4, RunSays
<1>7. ASSUME NEW p \in RunsOf(u) PROVE {run[p].part, run[p].review} \intersect InFlight = {}
  <2>1. p \in Created /\ p \in Run /\ run[p].task = u
    BY <1>7 DEF RunsOf, Created
  <2>2. CASE p \in Current(u)
    BY <1>3, <2>1, <2>2, RunSays DEF InFlight
  <2>3. CASE p \notin Current(u)
    <3>1. Planned(u) /\ run[p].policy.revision # revision[u]
      BY <1>7, <2>3 DEF Current
    <3>2. run[p].part \in {"accepted", "rejected"}
      BY <1>1, <2>1, <3>1 DEF Drafting, Created
    <3>3. ~Active(Facts(p)) /\ ~Unsettled(Facts(p))
      BY <1>3, <1>7, <3>1
    <3>4. run[p].review \notin {"running", "unknown"}
      BY <2>1, <3>3, RunSays
    <3>5. QED
      BY <3>2, <3>4 DEF InFlight
  <2>4. QED
    BY <2>2, <2>3
<1>8. QED
  BY <1>3, <1>6, <1>7

LEMMA OnlyCreateMakesRuns ==
  ASSUME TypeOK, [Next]_vars, NEW r \in Run, ~Exists(r), run'[r] # NoRun
  PROVE  CreateRun(r)
<1>1. DOMAIN run = Run /\ run[r] = NoRun
  BY DEF TypeOK, Exists
<1>2. ASSUME NEW q \in Run, NEW c, RowChange(q, c) PROVE FALSE
  <2>1. run' = [run EXCEPT ![q] = c] /\ Exists(q)
    BY <1>2 DEF RowChange, Change
  <2>2. q # r
    BY <2>1
  <2>3. QED
    BY <1>1, <2>1, <2>2
<1>3. ASSUME NEW q \in Run, CreateRun(q) PROVE CreateRun(r)
  <2>1. run' = [run EXCEPT ![q] = NewRun(q, prepared[q].task, prepared[q].policy)]
    BY <1>3 DEF CreateRun
  <2>2. q = r
    BY <1>1, <2>1
  <2>3. QED
    BY <1>3, <2>2
<1>4. ~Restart
  BY <1>1 DEF Restart
<1>5. UNCHANGED run => FALSE
  BY <1>1
<1>6. QED
  BY <1>2, <1>3, <1>4, <1>5, StepShapes DEF SavePlan, runs

(***************************************************************************)
(* A run starts on finished work, whatever is saved, judged, reviewed or      *)
(* started between its preparation and the lock (work.create_run,            *)
(* workflow.require_ready).                                                  *)
(***************************************************************************)
THEOREM RunsStartOnFinishedWork == Spec => StartsOnFinishedWork
<1> DEFINE Starts ==
      \A r \in Run : ~Exists(r) /\ run'[r] # NoRun =>
       LET new == run'[r] IN
       /\ new.policy.revision = revision[new.task]
       /\ \A u \in Under(new.task, deps) \ {new.task} :
            /\ planning[u] = "none"
            /\ \E q \in Current(u) : run[q].open /\ run[q].judged
            /\ \A q \in RunsOf(u) : {run[q].part, run[q].review} \intersect InFlight = {}
       /\ \A e \in new.policy.evidence : e.revision = revision[e.dep] /\ \A d \in e.done : d[2] = run[d[1]].result
<1>1. ScreenInv /\ [Next]_vars => Starts
  <2> SUFFICES ASSUME ScreenInv, [Next]_vars, NEW r \in Run, ~Exists(r), run'[r] # NoRun
               PROVE  LET new == run'[r] IN
                      /\ new.policy.revision = revision[new.task]
                      /\ \A u \in Under(new.task, deps) \ {new.task} :
                           /\ planning[u] = "none"
                           /\ \E q \in Current(u) : run[q].open /\ run[q].judged
                           /\ \A q \in RunsOf(u) : {run[q].part, run[q].review} \intersect InFlight = {}
                      /\ \A e \in new.policy.evidence : e.revision = revision[e.dep] /\ \A d \in e.done : d[2] = run[d[1]].result
    OBVIOUS
  <2>1. TypeOK /\ PlansFit
    BY DEF ScreenInv, DraftingInv
  <2>2. CreateRun(r)
    BY <2>1, OnlyCreateMakesRuns
  <2> DEFINE t == prepared[r].task
  <2>3. /\ prepared[r] # Nothing /\ prepared[r].policy = Policy(t) /\ Ready(t)
        /\ run' = [run EXCEPT ![r] = NewRun(r, t, prepared[r].policy)]
    BY <2>2 DEF CreateRun
  <2>4. t \in Task
    BY <2>1, <2>3 DEF TypeOK
  <2>5. run'[r].task = t /\ run'[r].policy = Policy(t)
    BY <2>1, <2>3 DEF TypeOK, NewRun
  <2> HIDE DEF t
  <2>6. deps[t] \subseteq Done
    BY <2>1, <2>3, <2>4 DEF Ready, PlansFit
  <2>7. DOMAIN deps = Task /\ IsFiniteSet(Task)
    BY <2>1, TaskPlansAssumption DEF TypeOK
  <2>8. Under(t, deps) \subseteq {t} \union Done
    <3>1. \A u \in ({t} \union Done) \intersect DOMAIN deps : deps[u] \subseteq {t} \union Done
      BY <2>1, <2>6, DoneIsClosed
    <3>2. t \in {t} \union Done
      OBVIOUS
    <3>3. QED
      BY <2>7, <3>1, <3>2, UnderStays
  <2>9. \A u \in Under(t, deps) \ {t} :
          /\ planning[u] = "none"
          /\ \E q \in Current(u) : run[q].open /\ run[q].judged
          /\ \A q \in RunsOf(u) : {run[q].part, run[q].review} \intersect InFlight = {}
    BY <2>8, FinishedIsQuiet
  <2>10. Policy(t).revision = revision[t]
    BY <2>1, <2>4, SavesTyped
  <2>11. \A e \in Policy(t).evidence : e.revision = revision[e.dep] /\ \A d \in e.done : d[2] = run[d[1]].result
    BY DEF Policy, Evidence, NoPlan
  <2>12. QED
    BY <2>5, <2>9, <2>10, <2>11
<1>2. ScreenInv /\ [Next]_vars => [Starts]_vars
  BY <1>1
<1>3. Spec => [][Starts]_vars
  <2> HIDE DEF Starts
  <2>1. QED
    BY <1>2, ScreenInvInit, ScreenInvStep, PTL DEF Spec
<1>4. QED
  BY <1>3 DEF StartsOnFinishedWork

-----------------------------------------------------------------------------
(* What the inbox shows.                                                     *)

WhyNot(d) == Blocks(d, Listed, deps, CompleteTasks, {u \in Listed : Fresh(u)})

DependencyEntries ==
  UNION {{[kind |-> "dependency", task |-> t, about |-> d, why |-> WhyNot(d)] : d \in deps[t] \ Done} : t \in Listed}

PrepareEntries == {[kind |-> "prepare", task |-> t, about |-> t, why |-> "none"] : t \in {u \in Listed : NeedsPreparing(u)}}

AttentionEntries ==
  {[kind |-> "attention", task |-> run[r].task, about |-> r, why |-> "none"] :
     r \in {q \in Created : ~Past(q) /\ Status(q) \in {"my_turn", "problem"}}}

UnattachedEntries ==
  {[kind |-> "unattached", task |-> t, about |-> t, why |-> "none"] : t \in {u \in Task : planning[u] = "unknown"}}

LEMMA InboxParts == Inbox = DependencyEntries \union PrepareEntries \union AttentionEntries \union UnattachedEntries
BY DEF Inbox, DependencyEntries, PrepareEntries, AttentionEntries, UnattachedEntries, WhyNot

SeenOf(t) == \E i \in Inbox : i.task = t

SeenAbout(x) == \E i \in Inbox : i.about = x

\* The entries there are.
LEMMA InboxHolds ==
  /\ \A t \in Listed : ~(deps[t] \subseteq Done) => SeenOf(t)
  /\ \A t \in Listed : NeedsPreparing(t) => SeenOf(t)
  /\ \A r \in Created : ~Past(r) /\ Status(r) \in {"my_turn", "problem"} => SeenOf(run[r].task) /\ SeenAbout(r)
  /\ \A t \in Task : planning[t] = "unknown" => SeenOf(t) /\ SeenAbout(t)
<1>1. ASSUME NEW t \in Listed, ~(deps[t] \subseteq Done) PROVE SeenOf(t)
  <2>1. PICK d : d \in deps[t] \ Done
    BY <1>1
  <2>2. [kind |-> "dependency", task |-> t, about |-> d, why |-> WhyNot(d)] \in DependencyEntries
    BY <2>1 DEF DependencyEntries
  <2>3. QED
    BY <2>2, InboxParts DEF SeenOf
<1>2. ASSUME NEW t \in Listed, NeedsPreparing(t) PROVE SeenOf(t)
  <2>1. [kind |-> "prepare", task |-> t, about |-> t, why |-> "none"] \in PrepareEntries
    BY <1>2 DEF PrepareEntries
  <2>2. QED
    BY <2>1, InboxParts DEF SeenOf
<1>3. ASSUME NEW r \in Created, ~Past(r), Status(r) \in {"my_turn", "problem"}
      PROVE  SeenOf(run[r].task) /\ SeenAbout(r)
  <2>1. [kind |-> "attention", task |-> run[r].task, about |-> r, why |-> "none"] \in AttentionEntries
    BY <1>3 DEF AttentionEntries
  <2>2. QED
    BY <2>1, InboxParts DEF SeenOf, SeenAbout
<1>4. ASSUME NEW t \in Task, planning[t] = "unknown" PROVE SeenOf(t) /\ SeenAbout(t)
  <2>1. [kind |-> "unattached", task |-> t, about |-> t, why |-> "none"] \in UnattachedEntries
    BY <1>4 DEF UnattachedEntries
  <2>2. QED
    BY <2>1, InboxParts DEF SeenOf, SeenAbout
<1>5. QED
  BY <1>1, <1>2, <1>3, <1>4

\* Of a prerequisite it says that it is not done, or that its plan has changed.
LEMMA InboxSays ==
  ASSUME ScreenInv, NEW i \in Inbox
  PROVE  i.why \in {"none", "plan_changed", "not_completed"}
<1>1. TypeOK /\ PlansFit /\ PlansAcyclic
  BY DEF ScreenInv, DraftingInv, PlansInv
<1>2. Listed \subseteq Task /\ IsFiniteSet(Listed) /\ tasks \subseteq Listed
  <2>1. tasks \subseteq Listed
    BY <1>1 DEF PlansFit, Listed, TypeOK
  <2>2. QED
    BY <1>1, <2>1, DoneIsClosed
<1>3. Rounds(Listed, deps, CompleteTasks).settled = Listed
  <2>1. \A S \in SUBSET Listed : S # {} => \E t \in S : deps[t] \intersect S = {}
    BY <1>1, <1>2 DEF PlansAcyclic
  <2>2. QED
    BY <1>2, <2>1, AllSettle
<1>4. ASSUME NEW t \in Listed, NEW d \in deps[t], d \notin Done
      PROVE  WhyNot(d) \in {"plan_changed", "not_completed"}
  <2>1. d \in Listed
    BY <1>1, <1>2 DEF PlansFit
  <2>2. d \notin Finished(Listed, deps, CompleteTasks)
    BY <1>4 DEF Done
  <2>3. QED
    BY <1>3, <2>1, <2>2 DEF Blocks, WhyNot
<1>5. CASE \E t \in Listed : \E d \in deps[t] \ Done : i.why = WhyNot(d)
  BY <1>4, <1>5
<1>6. CASE i.why = "none"
  BY <1>6
<1>7. (\E t \in Listed : \E d \in deps[t] \ Done : i.why = WhyNot(d)) \/ i.why = "none"
  <2>1. CASE i \in DependencyEntries
    BY <2>1 DEF DependencyEntries
  <2>2. CASE i \in PrepareEntries \union AttentionEntries \union UnattachedEntries
    BY <2>2 DEF PrepareEntries, AttentionEntries, UnattachedEntries
  <2>3. QED
    BY <2>1, <2>2, InboxParts
<1>8. QED
  BY <1>5, <1>6, <1>7

\* The worst status of some runs is the status of one of them.
LEMMA WorstSays ==
  ASSUME NEW S
  PROVE  /\ Worst(S) \in {"problem", "my_turn", "working", "done"}
         /\ Worst(S) = "problem" => "problem" \in S
         /\ Worst(S) = "my_turn" => "my_turn" \in S
<1> DEFINE problem == "problem" \in S
           mine == "my_turn" \in S
           works == "working" \in S
           rules == << <<problem, "problem">>, <<mine, "my_turn">>, <<works, "working">>, <<TRUE, "done">> >>
           s == FirstOf(rules)
<1>1. Worst(S) = s
  BY DEF Worst
<1> HIDE DEF problem, mine, works
<1>2. DOMAIN rules = 1..4 /\ rules[4][1]
  OBVIOUS
<1>3. PICK i : Decides(i, 4, rules)
  <2>1. 4 \in Nat \ {0}
    OBVIOUS
  <2> HIDE DEF rules
  <2>2. QED
    BY <1>2, <2>1, FirstDecides
<1>4. i \in 1..4 /\ rules[i][1] /\ s = rules[i][2]
  BY <1>3 DEF Decides
<1>5. /\ s \in {"problem", "my_turn", "working", "done"}
      /\ s = "problem" => problem
      /\ s = "my_turn" => mine
  BY <1>4
<1> HIDE DEF s
<1>6. QED
  BY <1>1, <1>5 DEF problem, mine

\* Finitely many runs have a latest.
LEMMA NewestExists ==
  ASSUME NEW S, IsFiniteSet(S), S # {}, NEW at, \A r \in S : at[r] \in Nat
  PROVE  \E r \in S : \A q \in S : at[q] <= at[r]
<1> DEFINE above(r) == {q \in S : at[r] < at[q]}
           T == {above(r) : r \in S}
<1>1. IsWellFoundedOn(StrictSubsetOrdering(S), FiniteSubsetsOf(S)) /\ FiniteSubsetsOf(S) = SUBSET S
  BY FS_StrictSubsetOrderingWellFounded, FS_FiniteSubsetsOfFinite
<1>2. T \subseteq SUBSET S /\ T # {}
  OBVIOUS
<1> HIDE DEF T
<1>3. PICK m \in T : \A y \in T : <<y, m>> \notin StrictSubsetOrdering(S)
  BY <1>1, <1>2, WFMin
<1>4. PICK r \in S : m = above(r)
  BY DEF T
<1>5. ASSUME NEW q \in S, at[r] < at[q]
      PROVE  FALSE
  <2>1. above(q) \in T /\ above(q) \subseteq above(r) /\ q \in above(r) /\ q \notin above(q)
    BY <1>5 DEF T
  <2>2. above(q) # above(r) /\ above(q) \subseteq S /\ above(r) \subseteq S
    BY <2>1
  <2> HIDE DEF above
  <2>3. <<above(q), above(r)>> \in StrictSubsetOrdering(S)
    BY <2>1, <2>2 DEF StrictSubsetOrdering
  <2>4. QED
    BY <1>3, <1>4, <2>1, <2>3
<1>6. QED
  BY <1>5

\* The latest run of a task with runs is one of them.
LEMMA LatestIsOne ==
  ASSUME TypeOK, NEW t, RunsOf(t) # {}
  PROVE  Latest(t) \in RunsOf(t)
<1>1. RunsOf(t) \subseteq Run /\ IsFiniteSet(RunsOf(t)) /\ \A r \in RunsOf(t) : last[r] \in Nat
  BY TaskPlansAssumption, FS_Subset DEF RunsOf, Created, TypeOK
<1>2. \E r \in RunsOf(t) : \A q \in RunsOf(t) : last[q] <= last[r]
  BY <1>1, NewestExists
<1>3. QED
  BY <1>2 DEF Latest

\* A listed task waits for the user in the inbox.
LEMMA TaskIsSeen ==
  ASSUME ScreenInv, NEW t \in Listed, TaskStatus(t) \in {"blocked", "problem", "my_turn"}
  PROVE  SeenOf(t)
<1>1. TypeOK /\ t \in Task
  BY DoneIsClosed DEF ScreenInv, DraftingInv
<1> DEFINE of == StatusOf(Current(t))
           lost == Planned(t) /\ \E r \in RunsOf(t) : Unsettled(Facts(r))
           status == IF lost THEN "problem" ELSE of
<1>2. Current(t) \subseteq RunsOf(t) /\ RunsOf(t) \subseteq Created /\ \A r \in RunsOf(t) : run[r].task = t
  BY DEF Current, RunsOf
<1>3. /\ of \in {"problem", "my_turn", "working", "done"}
      /\ of = "problem" => \E r \in Current(t) : Status(r) = "problem"
      /\ of = "my_turn" => Current(t) = {} \/ \E r \in Current(t) : Status(r) = "my_turn"
  BY WorstSays DEF StatusOf
<1>4. ASSUME NEW r \in Current(t), Status(r) \in {"problem", "my_turn"} PROVE SeenOf(t)
  <2>1. ~Past(r)
    BY <1>2, <1>4 DEF Past, Current
  <2>2. QED
    BY <1>2, <1>4, <2>1, InboxHolds
<1>5. ASSUME lost PROVE SeenOf(t)
  <2>1. PICK r \in RunsOf(t) : Unsettled(Facts(r))
    BY <1>5
  <2>2. Status(r) = "problem" /\ ~Past(r)
    BY <1>2, <2>1, RunSays DEF Past
  <2>3. QED
    BY <1>2, <2>2, InboxHolds
<1> HIDE DEF of, lost
<1>6. OwnStatus(t) = IF planning[t] = "none" THEN status
                     ELSE IF planning[t] = "unknown" \/ status = "problem" THEN "problem" ELSE "working"
  BY DEF OwnStatus, of, lost
<1>7. status \in {"problem", "my_turn", "working", "done"} /\ OwnStatus(t) \in {"problem", "my_turn", "working", "done"}
  BY <1>3, <1>6
<1>8. status = "problem" => SeenOf(t)
  BY <1>3, <1>4, <1>5
<1>9. CASE TaskStatus(t) = "blocked"
  <2>1. ~(deps[t] \subseteq Done)
    BY <1>7, <1>9 DEF TaskStatus
  <2>2. QED
    BY <2>1, InboxHolds
<1>10. CASE TaskStatus(t) = "problem"
  <2>1. OwnStatus(t) = "problem"
    BY <1>10 DEF TaskStatus
  <2>2. CASE planning[t] = "unknown"
    BY <1>1, <2>2, InboxHolds
  <2>3. CASE planning[t] # "unknown"
    BY <1>6, <1>8, <2>1, <2>3
  <2>4. QED
    BY <2>2, <2>3
<1>11. CASE TaskStatus(t) = "my_turn"
  <2>1. deps[t] \subseteq Done /\ (OwnStatus(t) = "my_turn" \/ ~Fresh(t))
    BY <1>11 DEF TaskStatus
  <2>2. CASE ~Fresh(t) \/ RunsOf(t) = {}
    <3>1. NeedsPreparing(t)
      BY <1>11, <2>1, <2>2 DEF NeedsPreparing
    <3>2. QED
      BY <3>1, InboxHolds
  <2>3. CASE Fresh(t) /\ RunsOf(t) # {}
    <3>1. Latest(t) \in RunsOf(t)
      BY <1>1, <2>3, LatestIsOne
    <3>2. Latest(t) \in Current(t)
      BY <2>3, <3>1 DEF Fresh, Current
    <3>3. status = "my_turn"
      BY <1>6, <2>1, <2>3
    <3>4. of = "my_turn"
      BY <3>3
    <3>5. QED
      BY <1>3, <1>4, <3>2, <3>4
  <2>4. QED
    BY <2>2, <2>3
<1>12. QED
  BY <1>9, <1>10, <1>11

(***************************************************************************)
(* Nothing waits for the user unseen, and what the inbox says of a            *)
(* prerequisite is something the user can act on (workflow.inbox,            *)
(* workflow.project_tasks).                                                  *)
(***************************************************************************)
THEOREM WaitingIsSeen == Spec => []NobodyWaitsUnseen
<1>1. ScreenInv => NobodyWaitsUnseen
  <2> SUFFICES ASSUME ScreenInv PROVE NobodyWaitsUnseen
    OBVIOUS
  <2>1. \A t \in Listed : TaskStatus(t) \in {"blocked", "problem", "my_turn"} => SeenOf(t)
    BY TaskIsSeen
  <2>2. ASSUME NEW r \in Created, "unknown" \in {run[r].part, run[r].review} PROVE SeenAbout(r)
    <3>1. Unsettled(Facts(r)) /\ Status(r) = "problem"
      BY <2>2, RunSays
    <3>2. ~Past(r)
      BY <3>1 DEF Past
    <3>3. QED
      BY <3>1, <3>2, InboxHolds
  <2>3. \A t \in Task : planning[t] = "unknown" => SeenAbout(t)
    BY InboxHolds
  <2>4. \A i \in Inbox : i.why \in {"none", "plan_changed", "not_completed"}
    BY InboxSays
  <2>5. QED
    BY <2>1, <2>2, <2>3, <2>4 DEF NobodyWaitsUnseen, SeenOf, SeenAbout
<1>2. QED
  BY <1>1, ScreenInvInit, ScreenInvStep, PTL DEF Spec

-----------------------------------------------------------------------------
(* What a collation is given.                                                *)

\* A set of numbers has a least one.
LEMMA LeastExists ==
  ASSUME NEW S, S \subseteq Nat, S # {}
  PROVE  \E x \in S : \A y \in S : x =< y
<1> DEFINE R == {s \in Nat \X Nat : s[1] < s[2]}
<1>1. IsWellFoundedOn(R, Nat)
  BY NatLessThanWellFounded DEF OpToRel
<1>2. \A x, y \in Nat : ~(<<y, x>> \in R) => x =< y
  OBVIOUS
<1> HIDE DEF R
<1>3. \E x \in S : \A y \in S : ~(<<y, x>> \in R)
  BY <1>1, WFMin, Zenon
<1>4. QED
  BY <1>2, <1>3

\* Min takes it.
LEMMA MinIsIn ==
  ASSUME NEW S, S \subseteq Nat, S # {}
  PROVE  Min(S) \in S
BY LeastExists DEF Min

\* What Versions takes from the library is what the theorems of the library are about.
LEMMA SameLibrary ==
  ASSUME NEW S
  PROVE  Round!Cardinality(S) = Cardinality(S) /\ Round!IsFiniteSet(S) = IsFiniteSet(S) /\ Round!Min(S) = Min(S) /\ Round!Max(S) = Max(S)
BY DEF Cardinality, IsFiniteSet, Min, Max, Round!Cardinality, Round!IsFiniteSet, Round!Min, Round!Max

AllFound == UNION {calls[n].found : n \in DOMAIN calls}

CallFields == {"kind", "by", "of", "given", "left", "found", "state"}

Underway == {"queued", "running"}

\* What a call was given when it was made, and what it may have answered.
ReviewOK(n) ==
  /\ calls[n].of \subseteq {Round!Original(m) : m \in answered}
  /\ calls[n].left = {}
  /\ calls[n].found \subseteq {[call |-> n, about |-> v] : v \in calls[n].of}

\* A revision is given all that was found about the texts it is written from; nothing older is still to be answered.
RevisionOK(n) ==
  \E m \in answered :
    /\ calls[n].by = m
    /\ calls[n].found = {}
    /\ calls[n].of \subseteq Round!VersionsOf(m)
    /\ calls[n].left \subseteq Round!Asks(calls[n])
    /\ Round!Asks(calls[n]) = {f \in AllFound : f.about.pid = m /\ f.call < n}
    /\ \A k \in DOMAIN calls : k < n => calls[k].state \notin Underway

RecheckOK(n) ==
  \E r \in Round!CallsOf("revision", {"accepted"}) :
    /\ r < n
    /\ calls[n].of = {Round!RowOf(r)}
    /\ calls[n].given = calls[r].given
    /\ calls[n].left \subseteq Round!Asks(calls[n])
    /\ calls[n].found \subseteq {[call |-> n, about |-> v] : v \in calls[n].of}

CollationOK(n) ==
  /\ calls[n].of \subseteq UNION {Round!VersionsOf(m) : m \in answered}
  /\ calls[n].found = {} /\ calls[n].left = {}

CallOK(n) ==
  /\ DOMAIN calls[n] = CallFields
  /\ calls[n].state \in Underway \union {"accepted", "rejected", "skipped"}
  /\ calls[n].kind \in {"review", "revision", "recheck", "collation"}
  /\ calls[n].found # {} => calls[n].state = "accepted"
  /\ calls[n].state = "queued" => calls[n].kind = "review"
  /\ calls[n].kind = "review" => ReviewOK(n)
  /\ calls[n].kind = "revision" => RevisionOK(n)
  /\ calls[n].kind = "recheck" => RecheckOK(n)
  /\ calls[n].kind = "collation" => CollationOK(n)

\* One version of each member that answered.
IsPick(of) == \E f \in [answered -> UNION {Round!VersionsOf(m) : m \in answered}] : (\A m \in answered : f[m] \in Round!VersionsOf(m))
          /\ of = {f[m] : m \in answered}

VersionsInv ==
  /\ answered \subseteq Member
  /\ \E S : calls \in Seq(S)
  /\ \A n \in DOMAIN calls : CallOK(n)
  /\ shown.kind = "collation" => IsPick(shown.of)
  /\ \A f \in DOMAIN chosen : chosen[f] \in Disposition

-----------------------------------------------------------------------------
\* Calls are numbered from 1.
LEMMA CallNumbers ==
  ASSUME VersionsInv
  PROVE  DOMAIN calls = 1..Len(calls) /\ Len(calls) \in Nat
BY DEF VersionsInv

\* What a version is told by.
LEMMA VersionNames ==
  ASSUME VersionsInv, NEW m, NEW v \in Round!VersionsOf(m)
  PROVE  /\ v.pid = m
         /\ (v = Round!Original(m) /\ v.n = 0) \/ \E r \in Round!CallsOf("revision", {"accepted"}) : v = Round!RowOf(r) /\ v.n = r /\ r # 0
                   /\ calls[r].by = m
BY CallNumbers DEF Round!VersionsOf, Round!Original, Round!RowOf, Round!RevisionsOf, Round!CallsOf

\* The row of a call is no answer of the run, nor the row of another call.
LEMMA RowsDiffer ==
  ASSUME VersionsInv, NEW m, NEW n \in DOMAIN calls
  PROVE  Round!RowOf(n) # Round!Original(m) /\ \A k : Round!RowOf(n) = Round!RowOf(k) => n = k
<1>1. n # 0
  BY CallNumbers
<1>2. Round!RowOf(n).n = n /\ Round!Original(m).n = 0 /\ \A k : Round!RowOf(k).n = k
  BY DEF Round!RowOf, Round!Original
<1>3. QED
  BY <1>1, <1>2

\* Who found what: reviewers about the answers, rechecks about their revision.
LEMMA Finders ==
  ASSUME VersionsInv, NEW f \in AllFound
  PROVE  \E n \in DOMAIN calls :
           /\ f \in calls[n].found /\ f.call = n /\ calls[n].state = "accepted"
           /\ \/ calls[n].kind = "review" /\ f.about \in calls[n].of /\ \E m \in answered : f.about = Round!Original(m)
              \/ /\ calls[n].kind = "recheck"
                 /\ \E r \in Round!CallsOf("revision", {"accepted"}) : r < n /\ f.about = Round!RowOf(r) /\ n \in Round!ChecksOf(r, {"accepted"})
<1>1. PICK n \in DOMAIN calls : f \in calls[n].found
  BY DEF AllFound
<1>2. CallOK(n) /\ calls[n].state = "accepted"
  BY <1>1 DEF VersionsInv, CallOK
<1>3. CASE calls[n].kind = "review"
  <2>1. f.call = n /\ f.about \in calls[n].of /\ calls[n].of \subseteq {Round!Original(m) : m \in answered}
    BY <1>1, <1>2, <1>3 DEF CallOK, ReviewOK
  <2>2. QED
    BY <1>1, <1>2, <1>3, <2>1
<1>4. CASE calls[n].kind = "recheck"
  <2>1. PICK r \in Round!CallsOf("revision", {"accepted"}) :
          r < n /\ calls[n].of = {Round!RowOf(r)} /\ calls[n].found \subseteq {[call |-> n, about |-> v] : v \in calls[n].of}
    BY <1>2, <1>4 DEF CallOK, RecheckOK
  <2>2. f.call = n /\ f.about = Round!RowOf(r)
    BY <1>1, <2>1
  <2>3. n \in Round!ChecksOf(r, {"accepted"})
    BY <1>2, <1>4, <2>1 DEF Round!ChecksOf, Round!CallsOf
  <2>4. QED
    BY <1>1, <1>2, <1>4, <2>1, <2>2, <2>3
<1>5. CASE calls[n].kind \in {"revision", "collation"}
  BY <1>1, <1>2, <1>5 DEF CallOK, RevisionOK, CollationOK
<1>6. QED
  BY <1>2, <1>3, <1>4, <1>5 DEF CallOK

\* Findings about an answer are those of the round.
LEMMA FoundOfAnswers ==
  ASSUME VersionsInv, NEW m
  PROVE  {f \in AllFound : f.about = Round!Original(m)} = {f \in Round!Findings : f.about = Round!Original(m)}
<1>1. Round!Findings \subseteq AllFound
  BY DEF Round!Findings, AllFound, Round!CallsOf
<1>2. ASSUME NEW f \in AllFound, f.about = Round!Original(m) PROVE f \in Round!Findings
  <2>1. PICK n \in DOMAIN calls : f \in calls[n].found /\ calls[n].state = "accepted"
           /\ \/ calls[n].kind = "review"
              \/ \E r \in Round!CallsOf("revision", {"accepted"}) : f.about = Round!RowOf(r)
    BY Finders
  <2>2. calls[n].kind = "review"
    BY <1>2, <2>1, RowsDiffer DEF Round!CallsOf
  <2>3. QED
    BY <2>1, <2>2 DEF Round!Findings, Round!CallsOf
<1>3. QED
  BY <1>1, <1>2

-----------------------------------------------------------------------------
\* The findings about a version that are not settled, and no other, are open about it.
LEMMA OpenIsUnsettled ==
  ASSUME VersionsInv, NEW m \in answered, NEW v \in Round!VersionsOf(m)
  PROVE  {item.finding : item \in Round!OpenOf(v)} = {f \in Round!About(v) : ~Round!Settled(f, v)}
<1>1. CASE v = Round!Original(m)
  <2>1. v.n = 0 /\ v.pid = m
    BY <1>1 DEF Round!Original
  <2>2. {item.finding : item \in Round!OpenOf(v)} = {g \in Round!Findings : g.about = v /\ Round!Status(g) # "rejected"}
    <3> DEFINE still == {g \in Round!Findings : g.about = v /\ Round!Status(g) # "rejected"}
    <3>1. Round!OpenOf(v) = {Round!Item(f, "review", Round!Status(f)) : f \in still}
      BY <1>1, <2>1 DEF Round!OpenOf, Round!OpenOfAnswer
    <3> HIDE DEF still
    <3>2. \A f, from, status : Round!Item(f, from, status).finding = f
      BY DEF Round!Item
    <3>3. ASSUME NEW f \in still PROVE \E item \in Round!OpenOf(v) : item.finding = f
      BY <3>1, <3>2, <3>3
    <3>4. ASSUME NEW item \in Round!OpenOf(v) PROVE item.finding \in still
      BY <3>1, <3>2, <3>4
    <3>5. {item.finding : item \in Round!OpenOf(v)} = still
      BY <3>3, <3>4
    <3>6. QED
      BY <3>5 DEF still
  <2>3. Round!About(v) = {f \in AllFound : f.about = v}
    BY <2>1 DEF Round!About, AllFound
  <2>4. Round!About(v) = {f \in Round!Findings : f.about = v}
    BY <1>1, <2>3, FoundOfAnswers
  <2>5. \A f : Round!Settled(f, v) <=> Round!Status(f) = "rejected"
    BY <2>1 DEF Round!Settled
  <2>6. QED
    BY <2>2, <2>4, <2>5
<1>2. CASE \E r \in Round!CallsOf("revision", {"accepted"}) : v = Round!RowOf(r) /\ v.n = r /\ r # 0 /\ calls[r].by = m
  <2>1. PICK r \in Round!CallsOf("revision", {"accepted"}) : v = Round!RowOf(r) /\ v.n = r /\ r # 0 /\ calls[r].by = m
    BY <1>2
  <2> DEFINE checks == Round!ChecksOf(r, {"accepted"})
             open   == calls[r].left \union UNION {calls[k].left \union calls[k].found : k \in checks}
  <2>2. {item.finding : item \in Round!OpenOf(v)} = open
    <3>1. Round!OpenOf(v) = {Round!Item(f, "revision", "open") : f \in calls[r].left}
             \union UNION {{Round!Item(f, "recheck", "open") : f \in calls[k].left \union calls[k].found} : k \in checks}
      BY <2>1 DEF Round!OpenOf, Round!OpenOfRevision
    <3>2. \A f, from, status : Round!Item(f, from, status).finding = f
      BY DEF Round!Item
    <3> HIDE DEF checks
    <3>3. ASSUME NEW f \in open PROVE \E item \in Round!OpenOf(v) : item.finding = f
      BY <3>1, <3>2, <3>3
    <3>4. ASSUME NEW item \in Round!OpenOf(v) PROVE item.finding \in open
      BY <3>1, <3>2, <3>4
    <3>5. QED
      BY <3>3, <3>4
  <2>3. r \in DOMAIN calls /\ RevisionOK(r) /\ v.pid = m
    BY <2>1 DEF Round!CallsOf, VersionsInv, CallOK, Round!RowOf
  <2>4. Round!Asks(calls[r]) = {f \in AllFound : f.about.pid = m /\ f.call < r} /\ calls[r].left \subseteq Round!Asks(calls[r])
    BY <2>1, <2>3 DEF RevisionOK
  <2>5. \A f : f \in Round!About(v) <=> f \in AllFound /\ (f.about = v \/ f \in Round!Asks(calls[r]))
    BY <2>1, <2>3, <2>4 DEF Round!About, AllFound
  <2>6. \A f : Round!Settled(f, v) <=> f \in Round!Asks(calls[r]) \ calls[r].left /\ \A k \in checks : f \notin calls[k].left
    BY <2>1 DEF Round!Settled
  <2>7. ASSUME NEW k \in checks
        PROVE  calls[k].left \subseteq Round!Asks(calls[r]) /\ \A f \in calls[k].found : f.about = v /\ f \in AllFound
                  /\ f \notin Round!Asks(calls[r])
    <3>1. k \in DOMAIN calls /\ RecheckOK(k) /\ calls[k].of = {Round!RowOf(r)}
      BY DEF Round!ChecksOf, Round!CallsOf, VersionsInv, CallOK
    <3>2. PICK q \in Round!CallsOf("revision", {"accepted"}) :
            /\ q < k /\ calls[k].of = {Round!RowOf(q)} /\ calls[k].given = calls[q].given /\ calls[k].left \subseteq Round!Asks(calls[k])
            /\ calls[k].found \subseteq {[call |-> k, about |-> w] : w \in calls[k].of}
      BY <3>1 DEF RecheckOK
    <3>3. q = r
      BY <2>3, <3>1, <3>2, RowsDiffer
    <3>4. Round!Asks(calls[k]) = Round!Asks(calls[r])
      BY <3>2, <3>3 DEF Round!Asks
    <3>5. ASSUME NEW f \in calls[k].found PROVE f.about = v /\ f.call = k /\ f \in AllFound
      BY <2>1, <3>1, <3>2 DEF AllFound
    <3>6. \A f \in Round!Asks(calls[r]) : f.call < r
      BY <2>4
    <3>7. ~(k < r) /\ k \in Nat /\ r \in Nat
      BY <2>3, <3>1, <3>2, <3>3, CallNumbers
    <3>8. QED
      BY <3>2, <3>4, <3>5, <3>6, <3>7
  <2>8. ASSUME NEW f \in open PROVE f \in Round!About(v) /\ ~Round!Settled(f, v)
    BY <2>4, <2>5, <2>6, <2>7
  <2>9. ASSUME NEW f \in Round!About(v), ~Round!Settled(f, v) PROVE f \in open
    <3>1. CASE f.about = v
      <4>1. PICK n \in DOMAIN calls : f \in calls[n].found
               /\ \/ \E w \in answered : f.about = Round!Original(w)
                  \/ \E q \in Round!CallsOf("revision", {"accepted"}) : f.about = Round!RowOf(q) /\ n \in Round!ChecksOf(q, {"accepted"})
        BY <2>5, <2>9, Finders
      <4>2. n \in checks
        BY <2>1, <2>3, <3>1, <4>1, RowsDiffer
      <4>3. QED
        BY <4>1, <4>2
    <3>2. CASE f \in Round!Asks(calls[r])
      BY <2>6, <2>9, <3>2
    <3>3. QED
      BY <2>5, <2>9, <3>1, <3>2
  <2>10. QED
    BY <2>2, <2>8, <2>9
<1>3. QED
  BY <1>1, <1>2, VersionNames

-----------------------------------------------------------------------------
\* Nobody was called yet.
LEMMA VersionsBegin == ASSUME Round!RevisionRules, Round!Init PROVE VersionsInv
<1>1. calls \in Seq({}) /\ DOMAIN calls = {}
  BY DEF Round!Init
<1>2. DOMAIN chosen = {} /\ shown.kind # "collation" /\ answered \subseteq Member
  BY DEF Round!Init, Round!Nothing
<1>3. QED
  BY <1>1, <1>2 DEF VersionsInv

\* Calls stay, and those that have ended stay as they are.
Grows ==
  /\ answered' = answered
  /\ DOMAIN calls \subseteq DOMAIN calls'
  /\ \A n \in DOMAIN calls :
       /\ calls'[n].kind = calls[n].kind /\ calls'[n].by = calls[n].by
       /\ calls'[n].of = calls[n].of /\ calls'[n].given = calls[n].given
       /\ calls[n].state \notin Underway => calls'[n] = calls[n]

\* Versions stay versions, and calls keep what they are given.
LEMMA VersionsStay ==
  ASSUME Grows
  PROVE  /\ \A m : Round!VersionsOf(m) \subseteq Round!VersionsOf(m)'
         /\ \A n \in DOMAIN calls : Round!RowOf(n)' = Round!RowOf(n) /\ Round!Asks(calls'[n]) = Round!Asks(calls[n])
         /\ \A n \in Round!CallsOf("revision", {"accepted"}) : n \in Round!CallsOf("revision", {"accepted"})'
         /\ \A m : Round!Original(m)' = Round!Original(m)
<1>1. \A n \in DOMAIN calls : Round!RowOf(n)' = Round!RowOf(n) /\ Round!Asks(calls'[n]) = Round!Asks(calls[n])
  BY DEF Grows, Round!RowOf, Round!Asks
<1>2. \A n \in Round!CallsOf("revision", {"accepted"}) : n \in Round!CallsOf("revision", {"accepted"})' /\ n \in DOMAIN calls
          /\ calls'[n] = calls[n]
  BY DEF Grows, Round!CallsOf, Underway
<1>3. \A m : \A n \in Round!RevisionsOf(m, {"accepted"}) : n \in Round!RevisionsOf(m, {"accepted"})' /\ Round!RowOf(n)' = Round!RowOf(n)
  BY <1>1, <1>2 DEF Round!RevisionsOf
<1>4. \A m : Round!VersionsOf(m) \subseteq Round!VersionsOf(m)'
  BY <1>3 DEF Round!VersionsOf, Round!Original
<1>5. QED
  BY <1>1, <1>2, <1>4 DEF Round!Original

\* What can be picked stays so.
LEMMA PicksStay ==
  ASSUME Grows, NEW of, IsPick(of)
  PROVE  IsPick(of)'
<1>1. PICK f \in [answered -> UNION {Round!VersionsOf(m) : m \in answered}] : (\A m \in answered : f[m] \in Round!VersionsOf(m))
          /\ of = {f[m] : m \in answered}
  BY DEF IsPick
<1>2. answered' = answered /\ \A m \in answered : f[m] \in Round!VersionsOf(m)'
  BY <1>1, VersionsStay DEF Grows
<1>3. f \in [answered -> UNION {Round!VersionsOf(m)' : m \in answered}]
  BY <1>1, <1>2
<1>4. QED
  BY <1>1, <1>2, <1>3 DEF IsPick

\* What may become of a call that has not ended.
Settles(n) ==
  /\ DOMAIN calls'[n] = CallFields
  /\ calls'[n].state \in Underway \union {"accepted", "rejected", "skipped"}
  /\ calls'[n].found # {} => calls'[n].state = "accepted"
  /\ calls'[n].state = "queued" => calls[n].state = "queued"
  /\ calls'[n].left \subseteq Round!Asks(calls[n])
  /\ calls'[n].found \subseteq {[call |-> n, about |-> v] : v \in calls[n].of}
  /\ calls[n].kind \in {"review", "collation"} => calls'[n].left = {}
  /\ calls[n].kind \in {"revision", "collation"} => calls'[n].found = {}

\* Old calls keep what is known of them, however one of them ends.
LEMMA OldCalls ==
  ASSUME VersionsInv, Grows, DOMAIN calls' = 1..Len(calls'), Len(calls') \in Nat,
         \A n \in DOMAIN calls : calls'[n] = calls[n] \/ Settles(n),
         \A n \in DOMAIN calls' \ DOMAIN calls : calls'[n].found = {}
  PROVE  /\ \A n \in DOMAIN calls : CallOK(n)'
         /\ \A n \in DOMAIN calls : calls[n].found \subseteq calls'[n].found
         /\ \A f \in AllFound' : \E k \in DOMAIN calls : f \in calls'[k].found /\ f.call = k
<1>1. \A n \in DOMAIN calls : CallOK(n) /\ n \in Nat
  BY CallNumbers DEF VersionsInv
<1>2. \A n \in DOMAIN calls : calls[n].found # {} => calls'[n] = calls[n]
  BY <1>1 DEF CallOK, Grows, Underway
<1>3. \A n \in DOMAIN calls : calls'[n].found \subseteq {[call |-> n, about |-> v] : v \in calls[n].of}
  BY <1>1 DEF Settles, CallOK, ReviewOK, RevisionOK, RecheckOK, CollationOK
<1>4. \A f \in AllFound' : \E k \in DOMAIN calls : f \in calls'[k].found /\ f.call = k
  BY <1>3 DEF AllFound
<1>5. ASSUME NEW n \in DOMAIN calls PROVE CallOK(n)'
  <2>1. /\ calls'[n].kind = calls[n].kind /\ calls'[n].by = calls[n].by /\ calls'[n].of = calls[n].of
        /\ calls'[n].given = calls[n].given /\ Round!Asks(calls'[n]) = Round!Asks(calls[n]) /\ answered' = answered
    BY VersionsStay DEF Grows
  <2>2. /\ DOMAIN calls'[n] = CallFields
        /\ calls'[n].state \in Underway \union {"accepted", "rejected", "skipped"}
        /\ calls'[n].kind \in {"review", "revision", "recheck", "collation"}
        /\ calls'[n].found # {} => calls'[n].state = "accepted"
        /\ calls'[n].state = "queued" => calls'[n].kind = "review"
    BY <1>1, <2>1 DEF Settles, CallOK
  <2>3. CASE calls[n].kind = "review"
    <3>1. calls'[n].left = {} /\ calls'[n].of \subseteq {Round!Original(m) : m \in answered}
      BY <1>1, <2>1, <2>3 DEF CallOK, ReviewOK, Settles
    <3>2. ReviewOK(n)'
      BY <1>3, <2>1, <3>1 DEF ReviewOK, Round!Original
    <3>3. QED
      BY <2>1, <2>2, <2>3, <3>2 DEF CallOK, CallFields, Underway
  <2>4. CASE calls[n].kind = "revision"
    <3>1. PICK m \in answered :
            /\ calls[n].by = m /\ calls[n].found = {} /\ calls[n].of \subseteq Round!VersionsOf(m)
                      /\ calls[n].left \subseteq Round!Asks(calls[n])
            /\ Round!Asks(calls[n]) = {f \in AllFound : f.about.pid = m /\ f.call < n}
            /\ \A k \in DOMAIN calls : k < n => calls[k].state \notin Underway
      BY <1>1, <2>4 DEF CallOK, RevisionOK
    <3>2. \A k \in DOMAIN calls' : k < n => k \in DOMAIN calls /\ calls[k].state \notin Underway /\ calls'[k] = calls[k]
      BY <1>1, <3>1, CallNumbers DEF Grows
    <3>3. calls'[n].found = {} /\ calls'[n].left \subseteq Round!Asks(calls'[n])
      BY <2>1, <2>4, <3>1 DEF Settles
    <3>4. {f \in AllFound' : f.about.pid = m /\ f.call < n} = {f \in AllFound : f.about.pid = m /\ f.call < n}
      <4>1. ASSUME NEW f \in AllFound', f.call < n PROVE f \in AllFound
        <5>1. PICK k \in DOMAIN calls : f \in calls'[k].found /\ f.call = k
          BY <1>4, <4>1
        <5>2. calls'[k] = calls[k]
          BY <3>2, <4>1, <5>1 DEF Grows
        <5>3. QED
          BY <5>1, <5>2 DEF AllFound
      <4>2. AllFound \subseteq AllFound'
        BY <1>2 DEF AllFound, Grows
      <4>3. QED
        BY <4>1, <4>2
    <3>5. Round!VersionsOf(m) \subseteq Round!VersionsOf(m)' /\ calls'[n].of \subseteq Round!VersionsOf(m)'
      BY <2>1, <3>1, VersionsStay
    <3>6. Round!Asks(calls'[n]) = {f \in AllFound' : f.about.pid = m /\ f.call < n}
      BY <2>1, <3>1, <3>4
    <3>8. RevisionOK(n)'
      BY <2>1, <3>1, <3>2, <3>3, <3>5, <3>6 DEF RevisionOK, Round!Asks, Underway
    <3>9. QED
      BY <2>1, <2>2, <2>4, <3>8 DEF CallOK, CallFields, Underway
  <2>5. CASE calls[n].kind = "recheck"
    <3>1. PICK r \in Round!CallsOf("revision", {"accepted"}) :
            r < n /\ calls[n].of = {Round!RowOf(r)} /\ calls[n].given = calls[r].given /\ calls[n].left \subseteq Round!Asks(calls[n])
      BY <1>1, <2>5 DEF CallOK, RecheckOK
    <3>2. r \in Round!CallsOf("revision", {"accepted"})' /\ Round!RowOf(r)' = Round!RowOf(r) /\ calls'[r].given = calls[r].given
      BY VersionsStay DEF Round!CallsOf, Grows
    <3>3. calls'[n].left \subseteq Round!Asks(calls[n])
      BY <3>1 DEF Settles
    <3>4. RecheckOK(n)'
      BY <1>3, <2>1, <3>1, <3>2, <3>3 DEF RecheckOK, Round!Asks
    <3>5. QED
      BY <2>1, <2>2, <2>5, <3>4 DEF CallOK, CallFields, Underway
  <2>6. CASE calls[n].kind = "collation"
    <3>1. calls[n].of \subseteq UNION {Round!VersionsOf(m) : m \in answered} /\ calls'[n].found = {} /\ calls'[n].left = {}
      BY <1>1, <2>6 DEF CallOK, CollationOK, Settles
    <3>2. calls'[n].of \subseteq UNION {Round!VersionsOf(m)' : m \in answered}
      BY <2>1, <3>1, VersionsStay
    <3>3. CollationOK(n)'
      BY <2>1, <3>1, <3>2 DEF CollationOK
    <3>4. QED
      BY <2>1, <2>2, <2>6, <3>3 DEF CallOK, CallFields, Underway
  <2>7. QED
    BY <1>1, <2>3, <2>4, <2>5, <2>6 DEF CallOK
<1>6. \A n \in DOMAIN calls : calls[n].found \subseteq calls'[n].found
  BY <1>2
<1>7. QED
  BY <1>4, <1>5, <1>6

-----------------------------------------------------------------------------
\* A row is added behind the others.
LEMMA AppendIs ==
  ASSUME NEW s, NEW S, s \in Seq(S), NEW e
  PROVE  /\ Append(s, e) \in Seq(S \union {e})
         /\ DOMAIN Append(s, e) = 1..Len(s) + 1 /\ Len(Append(s, e)) = Len(s) + 1
         /\ \A n \in DOMAIN s : Append(s, e)[n] = s[n]
         /\ Append(s, e)[Len(s) + 1] = e
         /\ DOMAIN s = 1..Len(s) /\ Len(s) \in Nat
<1>1. s \in Seq(S \union {e})
  OBVIOUS
<1>2. QED
  BY <1>1

\* Rows are added behind the others.
LEMMA ConcatIs ==
  ASSUME NEW S, NEW s \in Seq(S), NEW t \in Seq(S)
  PROVE  /\ s \o t \in Seq(S) /\ Len(s \o t) = Len(s) + Len(t) /\ DOMAIN (s \o t) = 1..(Len(s) + Len(t))
         /\ \A n \in 1..Len(s) : (s \o t)[n] = s[n]
         /\ \A n \in (Len(s) + 1)..(Len(s) + Len(t)) : (s \o t)[n] = t[n - Len(s)]
         /\ DOMAIN s = 1..Len(s) /\ Len(s) \in Nat /\ Len(t) \in Nat
OBVIOUS

\* Where the added rows are.
LEMMA PastTheEnd ==
  ASSUME NEW x \in Nat, NEW y \in Nat, NEW n \in (1..(x + y)) \ (1..x)
  PROVE  n \in (x + 1)..(x + y) /\ n - x \in 1..y
OBVIOUS

\* A call is made: it is given what a call of its kind is given now.
LEMMA CallMade ==
  ASSUME VersionsInv, NEW e, calls' = Append(calls, e), answered' = answered,
         DOMAIN e = CallFields, e.state = "running", e.found = {}, e.left = {},
         e.kind \in {"revision", "recheck", "collation"},
         e.kind = "revision" =>
           \E m \in answered : /\ e.by = m /\ e.of \subseteq Round!VersionsOf(m) /\ Round!Asks(e) = {f \in AllFound : f.about.pid = m}
                               /\ \A k \in DOMAIN calls : calls[k].state \notin Underway,
         e.kind = "recheck" => \E r \in Round!CallsOf("revision", {"accepted"}) : e.of = {Round!RowOf(r)} /\ e.given = calls[r].given,
         e.kind = "collation" => e.of \subseteq UNION {Round!VersionsOf(m) : m \in answered}
  PROVE  /\ Grows /\ \E S : calls' \in Seq(S)
         /\ \A n \in DOMAIN calls' : CallOK(n)'
         /\ DOMAIN calls' \ DOMAIN calls = {Len(calls) + 1} /\ calls'[Len(calls) + 1] = e
<1>0. PICK final : final = Len(calls) + 1
  OBVIOUS
<1>1. PICK S : calls \in Seq(S)
  BY DEF VersionsInv
<1>2. /\ calls' \in Seq(S \union {e})
      /\ DOMAIN calls' = 1..final /\ Len(calls') = final
      /\ \A n \in DOMAIN calls : calls'[n] = calls[n]
      /\ calls'[final] = e
      /\ DOMAIN calls = 1..Len(calls) /\ Len(calls) \in Nat
  BY <1>0, <1>1, AppendIs
<1>3. DOMAIN calls' \ DOMAIN calls = {final} /\ DOMAIN calls' = DOMAIN calls \union {final} /\ \A k \in DOMAIN calls : k < final
  BY <1>2
<1>4. Grows
  BY <1>2, <1>3 DEF Grows
<1>5. /\ \A n \in DOMAIN calls : CallOK(n)'
      /\ \A n \in DOMAIN calls : calls[n].found \subseteq calls'[n].found
      /\ \A f \in AllFound' : \E k \in DOMAIN calls : f \in calls'[k].found /\ f.call = k
  <2>1. Len(calls') \in Nat /\ DOMAIN calls' = 1..Len(calls')
    BY <1>0, <1>2
  <2>2. QED
    BY <1>2, <1>3, <1>4, <2>1, OldCalls
<1>6. AllFound' = AllFound /\ \A f \in AllFound : f.call < final
  <2>1. \A f \in AllFound' : f \in AllFound /\ f.call < final
    BY <1>2, <1>3, <1>5 DEF AllFound
  <2>2. AllFound \subseteq AllFound'
    BY <1>2, <1>3 DEF AllFound
  <2>3. QED
    BY <2>1, <2>2
<1>7. CallOK(final)'
  <2>1. CASE e.kind = "revision"
    <3>1. PICK m \in answered : /\ e.by = m /\ e.of \subseteq Round!VersionsOf(m) /\ Round!Asks(e) = {f \in AllFound : f.about.pid = m}
                                /\ \A k \in DOMAIN calls : calls[k].state \notin Underway
      BY <2>1
    <3>2. e.of \subseteq Round!VersionsOf(m)'
      BY <1>4, <3>1, VersionsStay
    <3>3. \A k \in DOMAIN calls' : k < final => calls'[k].state \notin Underway
      BY <1>2, <1>3, <3>1
    <3>4. Round!Asks(calls'[final]) = {f \in AllFound' : f.about.pid = m /\ f.call < final}
      BY <1>2, <1>6, <3>1
    <3>5. RevisionOK(final)'
      BY <1>2, <3>1, <3>2, <3>3, <3>4 DEF RevisionOK, Round!Asks, Underway
    <3>6. QED
      BY <1>2, <2>1, <3>5 DEF CallOK, CallFields, Underway
  <2>2. CASE e.kind = "recheck"
    <3>1. PICK r \in Round!CallsOf("revision", {"accepted"}) : e.of = {Round!RowOf(r)} /\ e.given = calls[r].given
      BY <2>2
    <3>2. r \in DOMAIN calls /\ r < final /\ r \in Round!CallsOf("revision", {"accepted"})' /\ Round!RowOf(r)' = Round!RowOf(r)
              /\ calls'[r] = calls[r]
      BY <1>2, <1>3, <1>4, VersionsStay DEF Round!CallsOf
    <3>3. RecheckOK(final)'
      BY <1>2, <3>1, <3>2 DEF RecheckOK, Round!Asks
    <3>4. QED
      BY <1>2, <2>2, <3>3 DEF CallOK, CallFields, Underway
  <2>3. CASE e.kind = "collation"
    <3>1. e.of \subseteq UNION {Round!VersionsOf(m)' : m \in answered}
      BY <1>4, <2>3, VersionsStay
    <3>2. CollationOK(final)'
      BY <1>2, <3>1 DEF CollationOK
    <3>3. QED
      BY <1>2, <2>3, <3>2 DEF CallOK, CallFields, Underway
  <2>4. QED
    BY <2>1, <2>2, <2>3
<1>8. QED
  BY <1>0, <1>2, <1>3, <1>4, <1>5, <1>7

\* The reviewers of a round are called one after the other.
LEMMA RoundMade ==
  ASSUME Round!RevisionRules, VersionsInv, Round!StartRound
  PROVE  VersionsInv' /\ \A k \in DOMAIN calls' \ DOMAIN calls : calls'[k].kind = "review"
<1> DEFINE by    == answered \cap Cli
           more  == Cardinality(by)
           asked(i) == LET m == Round!SetToSeq(by)[i]
                      IN [Round!Called("review", m, {Round!Original(k) : k \in answered} \ {Round!Original(m)}, {}) EXCEPT !.state = "queued"]
           round == [i \in 1..more |-> asked(i)]
<1>1. more \in Nat
  <2>1. IsFiniteSet(by)
    BY FS_Subset, SameLibrary DEF Round!RevisionRules, VersionsInv
  <2>2. QED
    BY <2>1, FS_CardinalityType
<1>2. calls' = calls \o round /\ answered' = answered /\ shown' = Round!Nothing /\ chosen' = chosen
  <2>1. shown.by = by /\ shown.of = {Round!Original(k) : k \in answered}
    BY DEF Round!StartRound, Round!Round
  <2>2. Round!Cardinality(shown.by) = more
    BY <2>1, SameLibrary
  <2>3. QED
    BY <2>1, <2>2 DEF Round!StartRound
<1>3. \A i : /\ asked(i).kind = "review" /\ asked(i).state = "queued" /\ asked(i).found = {} /\ asked(i).left = {}
             /\ asked(i).of \subseteq {Round!Original(k) : k \in answered} /\ DOMAIN asked(i) = CallFields
  BY DEF Round!Called, CallFields
<1> HIDE DEF by, asked
<1>4. PICK S : calls \in Seq(S)
  BY DEF VersionsInv
<1> DEFINE T == S \union {asked(i) : i \in 1..more}
<1>5. calls \in Seq(T) /\ round \in Seq(T) /\ Len(round) = more
  BY <1>1, <1>4
<1>6. /\ calls' \in Seq(T) /\ Len(calls') = Len(calls) + more
      /\ \A n \in 1..Len(calls) : calls'[n] = calls[n]
      /\ \A n \in (Len(calls) + 1)..(Len(calls) + more) : calls'[n] = round[n - Len(calls)]
      /\ DOMAIN calls' = 1..Len(calls') /\ DOMAIN calls = 1..Len(calls) /\ Len(calls) \in Nat
  <2> HIDE DEF T, round, more
  <2>1. QED
    BY <1>2, <1>5, ConcatIs
<1>7. \A n \in DOMAIN calls' \ DOMAIN calls : \E i : calls'[n] = asked(i)
  <2>1. ASSUME NEW n \in DOMAIN calls' \ DOMAIN calls PROVE n - Len(calls) \in 1..more /\ calls'[n] = round[n - Len(calls)]
    <3> HIDE DEF T, round, more
    <3>1. n \in (Len(calls) + 1)..(Len(calls) + more) /\ n - Len(calls) \in 1..more
      BY <1>1, <1>6, PastTheEnd
    <3>2. QED
      BY <1>6, <3>1
  <2>2. \A i \in 1..more : round[i] = asked(i)
    OBVIOUS
  <2> HIDE DEF round
  <2>3. QED
    BY <2>1, <2>2
<1> HIDE DEF round, T, more
<1>8. /\ DOMAIN calls \subseteq DOMAIN calls' /\ \A n \in DOMAIN calls : calls'[n] = calls[n]
      /\ DOMAIN calls' = 1..Len(calls') /\ Len(calls') \in Nat
  BY <1>1, <1>6
<1>9. Grows
  BY <1>2, <1>8 DEF Grows
<1>10. \A n \in DOMAIN calls : CallOK(n)'
  BY <1>3, <1>7, <1>8, <1>9, OldCalls
<1>11. ASSUME NEW n \in DOMAIN calls' \ DOMAIN calls PROVE CallOK(n)'
  <2>1. PICK i : calls'[n] = asked(i)
    BY <1>7
  <2>2. ReviewOK(n)'
    BY <1>2, <1>3, <2>1 DEF ReviewOK, Round!Original
  <2>3. QED
    BY <1>3, <2>1, <2>2 DEF CallOK, CallFields, Underway
<1>12. VersionsInv'
  BY <1>2, <1>6, <1>10, <1>11 DEF VersionsInv, Round!Nothing
<1>13. QED
  BY <1>3, <1>7, <1>12

\* Calls that have not ended go on or end.
LEMMA CallsSettle ==
  ASSUME VersionsInv, UNCHANGED <<answered, chosen, shown>>,
         calls' = [n \in DOMAIN calls |-> calls'[n]],
         \A n \in DOMAIN calls :
           \/ calls'[n] = calls[n]
           \/ /\ calls[n].state \in Underway /\ Settles(n)
              /\ calls'[n].kind = calls[n].kind /\ calls'[n].by = calls[n].by
              /\ calls'[n].of = calls[n].of /\ calls'[n].given = calls[n].given
  PROVE  VersionsInv' /\ DOMAIN calls' = DOMAIN calls
<1>1. DOMAIN calls' = DOMAIN calls /\ DOMAIN calls = 1..Len(calls) /\ Len(calls) \in Nat
  BY CallNumbers
<1>2. PICK T : calls' \in Seq(T)
  <2>1. calls' \in [1..Len(calls) -> {calls'[n] : n \in DOMAIN calls}]
    BY <1>1
  <2>2. QED
    BY <1>1, <2>1, SeqDef
<1>3. DOMAIN calls' = 1..Len(calls') /\ Len(calls') \in Nat
  BY <1>2
<1>4. Grows
  BY <1>1 DEF Grows
<1>5. \A n \in DOMAIN calls : CallOK(n)'
  BY <1>1, <1>3, <1>4, OldCalls
<1>6. (shown.kind = "collation" => IsPick(shown.of))'
  <2> SUFFICES ASSUME shown.kind = "collation" PROVE IsPick(shown.of)'
    OBVIOUS
  <2>1. PICK of : of = shown.of
    OBVIOUS
  <2>2. IsPick(of)'
    BY <1>4, <2>1, PicksStay DEF VersionsInv
  <2>3. QED
    BY <2>1, <2>2 DEF IsPick
<1>7. QED
  BY <1>1, <1>2, <1>5, <1>6 DEF VersionsInv

\* The next review starts, or the round is closed.
LEMMA NextReviewKeeps ==
  ASSUME VersionsInv, Round!NextReview
  PROVE  VersionsInv' /\ DOMAIN calls' = DOMAIN calls
<1>1. UNCHANGED <<answered, chosen, shown>> /\ \A n \in DOMAIN calls : CallOK(n)
  BY DEF Round!NextReview, VersionsInv
<1>2. ASSUME NEW n \in DOMAIN calls, calls[n].state = "queued", NEW s \in {"running", "skipped"},
             calls'[n] = [calls[n] EXCEPT !.state = s]
      PROVE  /\ Settles(n) /\ calls[n].state \in Underway
             /\ calls'[n].kind = calls[n].kind /\ calls'[n].by = calls[n].by
             /\ calls'[n].of = calls[n].of /\ calls'[n].given = calls[n].given
  <2>1. ReviewOK(n) /\ calls[n].kind = "review" /\ calls[n].found = {} /\ DOMAIN calls[n] = CallFields
    BY <1>1, <1>2 DEF CallOK
  <2>2. /\ DOMAIN calls'[n] = CallFields /\ calls'[n].state = s /\ calls'[n].left = calls[n].left
            /\ calls'[n].found = calls[n].found
        /\ calls'[n].kind = calls[n].kind /\ calls'[n].by = calls[n].by
        /\ calls'[n].of = calls[n].of /\ calls'[n].given = calls[n].given
    BY <1>2, <2>1 DEF CallFields
  <2>3. QED
    BY <1>2, <2>1, <2>2 DEF Settles, ReviewOK, Underway
<1> DEFINE first == Round!Min(Round!CallsOf("review", {"queued"}))
<1>3. CASE calls' = [n \in DOMAIN calls |-> IF calls[n].state = "queued" THEN [calls[n] EXCEPT !.state = "skipped"] ELSE calls[n]]
  BY <1>1, <1>2, <1>3, CallsSettle
<1>4. CASE calls' = [calls EXCEPT ![first].state = "running"]
  <2>1. Round!CallsOf("review", {"queued"}) \subseteq Nat /\ Round!CallsOf("review", {"queued"}) # {}
    BY CallNumbers DEF Round!NextReview, Round!CallsOf
  <2>2. first \in Round!CallsOf("review", {"queued"})
    BY <2>1, MinIsIn, SameLibrary
  <2>3. first \in DOMAIN calls /\ calls[first].state = "queued"
    BY <2>2 DEF Round!CallsOf
  <2> HIDE DEF first
  <2>4. calls' = [n \in DOMAIN calls |-> calls'[n]] /\ \A n \in DOMAIN calls : n # first => calls'[n] = calls[n]
    BY <1>4, CallNumbers DEF VersionsInv
  <2>5. calls'[first] = [calls[first] EXCEPT !.state = "running"]
    BY <1>4, <2>3
  <2>6. QED
    BY <1>1, <1>2, <2>3, <2>4, <2>5, CallsSettle
<1>5. QED
  BY <1>3, <1>4 DEF Round!NextReview

\* A call ends, with an answer or without.
LEMMA AnswerKeeps ==
  ASSUME VersionsInv, NEW n \in DOMAIN calls, Round!Answer(n) \/ Round!Fail(n)
  PROVE  VersionsInv' /\ DOMAIN calls' = DOMAIN calls
<1>1. UNCHANGED <<answered, chosen, shown>> /\ CallOK(n) /\ calls[n].state = "running"
  BY DEF Round!Answer, Round!Fail, VersionsInv
<1>2. calls[n].found = {} /\ DOMAIN calls[n] = CallFields
  BY <1>1 DEF CallOK
<1>3. CASE Round!Fail(n)
  <2>1. calls' = [calls EXCEPT ![n].state = "rejected"]
    BY <1>3 DEF Round!Fail
  <2>2. calls' = [k \in DOMAIN calls |-> calls'[k]] /\ \A k \in DOMAIN calls : k # n => calls'[k] = calls[k]
    BY <2>1
  <2>3. calls'[n] = [calls[n] EXCEPT !.state = "rejected"]
    BY <2>1
  <2>4. /\ DOMAIN calls'[n] = CallFields /\ calls'[n].state = "rejected" /\ calls'[n].left = calls[n].left /\ calls'[n].found = {}
        /\ calls'[n].kind = calls[n].kind /\ calls'[n].by = calls[n].by
        /\ calls'[n].of = calls[n].of /\ calls'[n].given = calls[n].given
    BY <1>2, <2>3 DEF CallFields
  <2>5. calls[n].kind # "collation" => calls[n].left \subseteq Round!Asks(calls[n])
    BY <1>1 DEF CallOK, ReviewOK, RevisionOK, RecheckOK
  <2>6. calls[n].kind \in {"review", "collation"} => calls[n].left = {}
    BY <1>1 DEF CallOK, ReviewOK, CollationOK
  <2>7. calls[n].left \subseteq Round!Asks(calls[n])
    BY <1>1, <2>5, <2>6 DEF CallOK
  <2>8. Settles(n)
    BY <2>4, <2>6, <2>7 DEF Settles, Underway
  <2>9. QED
    BY <1>1, <2>2, <2>4, <2>8, CallsSettle DEF Underway
<1>4. CASE Round!Answer(n)
  <2>1. PICK left \in IF calls[n].kind \in {"revision", "recheck"} THEN SUBSET Round!Asks(calls[n]) ELSE {{}},
             about \in IF calls[n].kind \in {"review", "recheck"} THEN SUBSET calls[n].of ELSE {{}} :
          calls' = [calls EXCEPT ![n].state = "accepted", ![n].left = left, ![n].found = {[call |-> n, about |-> v] : v \in about}]
    BY <1>4 DEF Round!Answer
  <2> DEFINE found == {[call |-> n, about |-> v] : v \in about}
  <2>2. found \subseteq {[call |-> n, about |-> v] : v \in calls[n].of}
            /\ (calls[n].kind \in {"revision", "collation"} => found = {})
    BY <2>1
  <2>3. left \subseteq Round!Asks(calls[n]) /\ (calls[n].kind \in {"review", "collation"} => left = {})
    BY <2>1
  <2> HIDE DEF found
  <2>4. calls' = [calls EXCEPT ![n] = [calls[n] EXCEPT !.state = "accepted", !.left = left, !.found = found]]
    BY <2>1 DEF found
  <2>5. calls' = [k \in DOMAIN calls |-> calls'[k]] /\ \A k \in DOMAIN calls : k # n => calls'[k] = calls[k]
    BY <2>4
  <2>6. calls'[n] = [calls[n] EXCEPT !.state = "accepted", !.left = left, !.found = found]
    BY <2>4
  <2>7. /\ DOMAIN calls'[n] = CallFields /\ calls'[n].state = "accepted" /\ calls'[n].left = left /\ calls'[n].found = found
        /\ calls'[n].kind = calls[n].kind /\ calls'[n].by = calls[n].by
        /\ calls'[n].of = calls[n].of /\ calls'[n].given = calls[n].given
    BY <1>2, <2>6 DEF CallFields
  <2>8. Settles(n)
    BY <2>2, <2>3, <2>7 DEF Settles, Underway
  <2>9. QED
    BY <1>1, <2>5, <2>7, <2>8, CallsSettle DEF Underway
<1>5. QED
  BY <1>3, <1>4

-----------------------------------------------------------------------------
\* Of two revisions one was made of the other; before the second there is one.
LEMMA OneBefore ==
  ASSUME Round!RevisionRules, VersionsInv, NEW m, Round!CanRevise(m), NEW q \in Round!RevisionsOf(m, {"accepted"}), NEW r \in Round!RevisionsOf(m,
         {"accepted"})
  PROVE  q = r
<1> DEFINE R == Round!RevisionsOf(m, {"running", "accepted", "rejected"})
<1>1. q \in R /\ r \in R /\ R \subseteq 1..Len(calls) /\ Len(calls) \in Nat
  BY CallNumbers DEF Round!RevisionsOf, Round!CallsOf
<1>2. IsFiniteSet(R) /\ Cardinality(R) \in Nat
  <2>1. IsFiniteSet(1..Len(calls))
    BY <1>1, FS_Interval
  <2> HIDE DEF R
  <2>2. IsFiniteSet(R)
    BY <1>1, <2>1, FS_Subset
  <2>3. QED
    BY <2>2, FS_CardinalityType
<1>3. Cardinality(R) < MaxRevisions /\ MaxRevisions \in 0..2
  BY SameLibrary DEF Round!CanRevise, Round!RevisionRules
<1> HIDE DEF R
<1>4. SUFFICES ASSUME q # r PROVE FALSE
  OBVIOUS
<1>5. IsFiniteSet({q, r}) /\ Cardinality({q, r}) = 2
  <2>1. IsFiniteSet({q}) /\ Cardinality({q}) = 1
    BY FS_Singleton
  <2>2. {q, r} = {q} \union {r}
    OBVIOUS
  <2>3. QED
    BY <1>4, <2>1, <2>2, FS_AddElement
<1>6. Cardinality({q, r}) <= Cardinality(R)
  BY <1>1, <1>2, FS_Subset
<1>7. QED
  BY <1>2, <1>3, <1>5, <1>6

\* A revision is written from the revision there is, or else from the answer.
LEMMA BaseIsVersion ==
  ASSUME Round!RevisionRules, VersionsInv, NEW m, Round!CanRevise(m)
  PROVE  /\ Round!Base(m) \in Round!VersionsOf(m)
         /\ \A r \in Round!RevisionsOf(m, {"accepted"}) : Round!Base(m) = Round!RowOf(r)
         /\ Round!RevisionsOf(m, {"accepted"}) = {} => Round!Base(m) = Round!Original(m)
<1>1. CASE Round!RevisionsOf(m, {"accepted"}) = {}
  BY <1>1 DEF Round!Base, Round!VersionsOf
<1>2. ASSUME NEW r \in Round!RevisionsOf(m, {"accepted"}) PROVE Round!Base(m) = Round!RowOf(r) /\ Round!Base(m) \in Round!VersionsOf(m)
  <2>1. Round!RevisionsOf(m, {"accepted"}) = {r}
    BY OneBefore
  <2>2. r \in Nat
    BY CallNumbers DEF Round!RevisionsOf, Round!CallsOf
  <2>3. Round!Max({r}) = r
    BY <2>2 DEF Round!Max
  <2>4. QED
    BY <2>1, <2>3 DEF Round!Base, Round!VersionsOf
<1>3. QED
  BY <1>1, <1>2

\* A revision is asked to answer all that was found about the texts of its member.
LEMMA AskedIsAll ==
  ASSUME Round!RevisionRules, VersionsInv, NEW m \in answered, Round!CanRevise(m)
  PROVE  {item.finding : item \in Round!Asked(m)} = {f \in AllFound : f.about.pid = m}
<1> DEFINE checked == Round!Accepted(Round!ChecksOfBase(m))
           reviewed == {f \in Round!Findings : f.about = Round!Original(m)}
           all == reviewed \union UNION {calls[n].found : n \in checked}
<1>1. {item.finding : item \in Round!Asked(m)} = all
  <2>1. Round!Asked(m) = {[finding |-> f, status |-> Round!Status(f)] : f \in reviewed}
                     \union {[finding |-> f, status |-> "unresolved"] : f \in UNION {calls[n].found : n \in checked}}
    BY DEF Round!Asked
  <2> HIDE DEF checked, reviewed
  <2>2. ASSUME NEW item \in Round!Asked(m) PROVE item.finding \in all
    BY <2>1, <2>2
  <2>3. ASSUME NEW f \in all PROVE \E item \in Round!Asked(m) : item.finding = f
    <3>1. CASE f \in reviewed
      <4>1. [finding |-> f, status |-> Round!Status(f)] \in Round!Asked(m)
        BY <2>1, <3>1
      <4>2. QED
        BY <4>1
    <3>2. CASE f \in UNION {calls[n].found : n \in checked}
      <4>1. [finding |-> f, status |-> "unresolved"] \in Round!Asked(m)
        BY <2>1, <3>2
      <4>2. QED
        BY <4>1
    <3>3. QED
      BY <2>3, <3>1, <3>2
  <2>4. QED
    BY <2>2, <2>3
<1>2. ASSUME NEW f \in all PROVE f \in AllFound /\ f.about.pid = m
  <2>1. CASE f \in reviewed
    BY <2>1, FoundOfAnswers DEF Round!Original
  <2>2. ASSUME NEW n \in checked, f \in calls[n].found PROVE f \in AllFound /\ f.about.pid = m
    <3>1. /\ n \in DOMAIN calls /\ calls[n].kind = "recheck" /\ Round!Base(m).n # 0
          /\ calls[n].of = {Round!RowOf(Round!Base(m).n)}
      BY DEF Round!Accepted, Round!ChecksOfBase, Round!ChecksOf, Round!CallsOf
    <3>2. PICK r \in Round!CallsOf("revision", {"accepted"}) : Round!Base(m) = Round!RowOf(r) /\ Round!Base(m).n = r /\ calls[r].by = m
      BY <3>1, BaseIsVersion, VersionNames DEF Round!Original
    <3>3. calls[n].found \subseteq {[call |-> n, about |-> v] : v \in calls[n].of}
      BY <3>1 DEF VersionsInv, CallOK, RecheckOK
    <3>4. f.about = Round!RowOf(r)
      BY <2>2, <3>1, <3>2, <3>3
    <3>5. QED
      BY <2>2, <3>1, <3>2, <3>4 DEF AllFound, Round!RowOf
  <2>3. QED
    BY <1>2, <2>1, <2>2
<1>3. ASSUME NEW f \in AllFound, f.about.pid = m PROVE f \in all
  <2>1. PICK n \in DOMAIN calls :
           /\ f \in calls[n].found /\ calls[n].state = "accepted"
           /\ \/ \E k \in answered : f.about = Round!Original(k)
              \/ \E r \in Round!CallsOf("revision", {"accepted"}) : f.about = Round!RowOf(r) /\ n \in Round!ChecksOf(r, {"accepted"})
    BY Finders
  <2>2. CASE \E k \in answered : f.about = Round!Original(k)
    <3>1. f.about = Round!Original(m)
      BY <1>3, <2>2 DEF Round!Original
    <3>2. QED
      BY <3>1, FoundOfAnswers
  <2>3. ASSUME NEW r \in Round!CallsOf("revision", {"accepted"}), f.about = Round!RowOf(r), n \in Round!ChecksOf(r, {"accepted"}) PROVE f \in all
    <3>1. r \in Round!RevisionsOf(m, {"accepted"}) /\ r # 0
      BY <1>3, <2>3, CallNumbers DEF Round!RevisionsOf, Round!RowOf, Round!CallsOf
    <3>2. Round!Base(m) = Round!RowOf(r)
      BY <3>1, BaseIsVersion
    <3>3. Round!Base(m).n = r
      BY <3>2 DEF Round!RowOf
    <3>4. n \in checked
      BY <2>1, <2>3, <3>1, <3>3 DEF Round!Accepted, Round!ChecksOfBase, Round!ChecksOf, Round!CallsOf
    <3>5. QED
      BY <2>1, <3>4
  <2>4. QED
    BY <2>1, <2>2, <2>3
<1> HIDE DEF all
<1>4. QED
  BY <1>1, <1>2, <1>3

\* The user has an answer revised.
LEMMA ReviseKeeps ==
  ASSUME Round!RevisionRules, VersionsInv, NEW m, Round!Revise(m)
  PROVE  VersionsInv' /\ \A k \in DOMAIN calls' \ DOMAIN calls : calls'[k].kind # "collation"
<1> DEFINE e == Round!Called("revision", m, {Round!Base(m)}, Round!Asked(m))
<1>1. /\ Round!CanRevise(m) /\ ~Round!Busy /\ m \in answered /\ shown' = Round!Nothing /\ UNCHANGED <<answered, chosen>>
          /\ calls' = Append(calls, e)
  BY DEF Round!Revise, Round!Snapshot, Round!CanRevise
<1>2. /\ DOMAIN e = CallFields /\ e.state = "running" /\ e.found = {} /\ e.left = {} /\ e.kind = "revision"
      /\ e.by = m /\ e.of = {Round!Base(m)} /\ e.given = Round!Asked(m)
  BY DEF Round!Called, CallFields
<1> HIDE DEF e
<1>3. Round!Asks(e) = {f \in AllFound : f.about.pid = m}
  BY <1>1, <1>2, AskedIsAll DEF Round!Asks
<1>4. \A k \in DOMAIN calls : calls[k].state \notin Underway
  BY <1>1 DEF Round!Busy, Round!CanRevise, Round!CallsOf, VersionsInv, CallOK, Underway
<1>5. e.of \subseteq Round!VersionsOf(m)
  BY <1>1, <1>2, BaseIsVersion
<1>6. /\ \E S : calls' \in Seq(S)
      /\ \A n \in DOMAIN calls' : CallOK(n)'
      /\ DOMAIN calls' \ DOMAIN calls = {Len(calls) + 1} /\ calls'[Len(calls) + 1] = e
  BY <1>1, <1>2, <1>3, <1>4, <1>5, CallMade
<1>7. VersionsInv'
  BY <1>1, <1>6 DEF VersionsInv, Round!Nothing
<1>8. QED
  BY <1>2, <1>6, <1>7

\* What is shown for a collation can still be picked.
LEMMA ShownStays ==
  ASSUME VersionsInv, Grows, shown' = shown
  PROVE  (shown.kind = "collation" => IsPick(shown.of))'
<1> SUFFICES ASSUME shown.kind = "collation" PROVE IsPick(shown.of)'
  OBVIOUS
<1>1. PICK of : of = shown.of
  OBVIOUS
<1>2. IsPick(of)'
  BY <1>1, PicksStay DEF VersionsInv
<1>3. QED
  BY <1>1, <1>2 DEF IsPick

\* The user has a revision rechecked.
LEMMA RecheckKeeps ==
  ASSUME VersionsInv, NEW n, NEW m, Round!Recheck(n, m)
  PROVE  VersionsInv' /\ \A k \in DOMAIN calls' \ DOMAIN calls : calls'[k].kind # "collation"
<1> DEFINE e == Round!Called("recheck", m, {Round!RowOf(n)}, calls[n].given)
<1>1. n \in Round!CallsOf("revision", {"accepted"}) /\ UNCHANGED <<answered, chosen, shown>> /\ calls' = Append(calls, e)
  BY DEF Round!Recheck
<1>2. /\ DOMAIN e = CallFields /\ e.state = "running" /\ e.found = {} /\ e.left = {} /\ e.kind = "recheck"
      /\ e.of = {Round!RowOf(n)} /\ e.given = calls[n].given
  BY DEF Round!Called, CallFields
<1> HIDE DEF e
<1>3. /\ Grows /\ \E S : calls' \in Seq(S)
      /\ \A k \in DOMAIN calls' : CallOK(k)'
      /\ DOMAIN calls' \ DOMAIN calls = {Len(calls) + 1} /\ calls'[Len(calls) + 1] = e
  BY <1>1, <1>2, CallMade
<1>4. VersionsInv'
  BY <1>1, <1>3, ShownStays DEF VersionsInv
<1>5. QED
  BY <1>2, <1>3, <1>4

-----------------------------------------------------------------------------
\* What FindingsGoAlong says of whoever is called for a collation.
GoesAlong(sent) ==
  /\ {v.pid : v \in sent.of} = answered /\ Cardinality(sent.of) = Cardinality(answered)
  /\ sent.of \cap altered = {}
  /\ Round!Asks(sent) = UNION {{f \in Round!About(v) : ~Round!Settled(f, v)} : v \in sent.of}
  /\ Round!ShownAsSent(sent)

\* The screen tells of every finding as it is collated.
LEMMA ScreenAgrees ==
  ASSUME VersionsInv, NEW sent, IsPick(sent.of), sent.given = UNION {Round!OpenOf(v) : v \in sent.of}
  PROVE  Round!ShownAsSent(sent)
<1> DEFINE status == Disposition \union {"unresolved"}
<1>1. \A f : Round!Status(f) \in status
  BY DEF VersionsInv, Round!Status
<1>2. Round!ShownRound.findings = {[finding |-> f, disposition |-> Round!Status(f)] : f \in Round!Findings}
          /\ Round!ShownRound.reviewed = Round!Pairs({"accepted"})
  BY DEF Round!ShownRound
<1>3. ASSUME NEW s \in Round!ShownRound.findings PROVE <<s.finding.call, s.finding.about>> \in Round!ShownRound.reviewed
  <2>1. PICK f \in Round!Findings : s = [finding |-> f, disposition |-> Round!Status(f)]
    BY <1>2
  <2>2. PICK n \in Round!CallsOf("review", {"accepted"}) : f \in calls[n].found
    BY DEF Round!Findings
  <2>3. n \in DOMAIN calls /\ calls[n].kind = "review"
    BY <2>2 DEF Round!CallsOf
  <2>4. f.call = n /\ f.about \in calls[n].of
    BY <2>2, <2>3 DEF VersionsInv, CallOK, ReviewOK
  <2>5. QED
    BY <1>2, <2>1, <2>2, <2>4 DEF Round!Pairs
<1>4. ASSUME NEW v \in sent.of, v.n = 0
      PROVE  sent.given \cap {Round!Item(f, "review", d) : f \in {g \in Round!Findings : g.about = v}, d \in status}
               = {Round!Item(s.finding, "review", s.disposition) :
                    s \in {t \in Round!ShownRound.findings : t.finding.about = v /\ t.disposition # "rejected"}}
  <2>1. v = Round!Original(v.pid) /\ Round!OpenOf(v) = Round!OpenOfAnswer(v.pid)
    BY <1>4, VersionNames DEF IsPick, Round!OpenOf
  <2> DEFINE told == {t \in Round!ShownRound.findings : t.finding.about = v /\ t.disposition # "rejected"}
  <2>2. ASSUME NEW item \in sent.given, NEW f \in Round!Findings, NEW d \in status, f.about = v, item = Round!Item(f, "review", d)
        PROVE  \E s \in told : item = Round!Item(s.finding, "review", s.disposition)
    <3>1. PICK u \in sent.of : item \in Round!OpenOf(u)
      BY <2>2
    <3>2. u.n = 0 /\ item \in Round!OpenOfAnswer(u.pid)
      <4>1. item.from = "review"
        BY <2>2 DEF Round!Item
      <4>2. CASE u.n # 0
        BY <3>1, <4>1, <4>2 DEF Round!OpenOf, Round!OpenOfRevision, Round!Item
      <4>3. QED
        BY <3>1, <4>2 DEF Round!OpenOf
    <3>3. PICK g \in Round!Findings : item = Round!Item(g, "review", Round!Status(g)) /\ Round!Status(g) # "rejected"
      BY <3>2 DEF Round!OpenOfAnswer
    <3>4. g = f /\ d = Round!Status(f)
      BY <2>2, <3>3 DEF Round!Item
    <3>5. [finding |-> f, disposition |-> Round!Status(f)] \in told
      BY <1>2, <2>2, <3>3, <3>4
    <3>6. QED
      BY <2>2, <3>4, <3>5
  <2>3. ASSUME NEW s \in told
        PROVE  /\ Round!Item(s.finding, "review", s.disposition) \in sent.given
               /\ \E f \in {g \in Round!Findings : g.about = v}, d \in status : Round!Item(s.finding, "review", s.disposition) = Round!Item(f, "review", d)
    <3>1. PICK f \in Round!Findings : s = [finding |-> f, disposition |-> Round!Status(f)] /\ f.about = v /\ Round!Status(f) # "rejected"
      BY <1>2
    <3>2. s.finding = f /\ s.disposition = Round!Status(f)
      BY <3>1
    <3>3. Round!Item(f, "review", Round!Status(f)) \in Round!OpenOf(v)
      BY <2>1, <3>1 DEF Round!OpenOfAnswer
    <3>4. QED
      BY <1>1, <1>4, <3>1, <3>2, <3>3
  <2> HIDE DEF told, status
  <2>4. QED
    BY <2>2, <2>3 DEF told
<1>5. QED
  BY <1>3, <1>4 DEF Round!ShownAsSent

\* Whoever collates is given one version of each member, and all that is open about these.
LEMMA CollatedGoesAlong ==
  ASSUME Round!RevisionRules, VersionsInv, NEW pick, IsPick(pick), Round!CanCollate(pick), NEW sent, sent.of = pick,
         sent.given = Round!Prepared(pick).given
  PROVE  GoesAlong(sent)
<1>1. PICK f \in [answered -> UNION {Round!VersionsOf(m) : m \in answered}] : (\A m \in answered : f[m] \in Round!VersionsOf(m))
          /\ pick = {f[m] : m \in answered}
  BY DEF IsPick
<1>2. \A m \in answered : f[m].pid = m
  BY <1>1, VersionNames
<1>3. {v.pid : v \in pick} = answered
  BY <1>1, <1>2
<1>4. Cardinality(pick) = Cardinality(answered)
  <2>1. IsFiniteSet(answered)
    BY FS_Subset, SameLibrary DEF Round!RevisionRules, VersionsInv
  <2>2. ExistsBijection(answered, pick)
    <3>1. f \in [answered -> pick]
      BY <1>1
    <3>2. \A m, k \in answered : f[m] = f[k] => m = k
      BY <1>2
    <3>3. \A v \in pick : \E m \in answered : f[m] = v
      BY <1>1
    <3>4. f \in Bijection(answered, pick)
      BY <3>1, <3>2, <3>3, Fun_IsBij
    <3>5. QED
      BY <3>4 DEF ExistsBijection
  <2>3. QED
    BY <2>1, <2>2, FS_Bijection
<1>5. pick \cap altered = {}
  BY DEF Round!CanCollate
<1>6. sent.given = UNION {Round!OpenOf(v) : v \in pick}
  BY DEF Round!Prepared
<1>7. Round!Asks(sent) = UNION {{g \in Round!About(v) : ~Round!Settled(g, v)} : v \in pick}
  <2>1. \A v \in pick : {item.finding : item \in Round!OpenOf(v)} = {g \in Round!About(v) : ~Round!Settled(g, v)}
    BY <1>1, OpenIsUnsettled
  <2>2. ASSUME NEW v \in pick, NEW item \in Round!OpenOf(v) PROVE item.finding \in {g \in Round!About(v) : ~Round!Settled(g, v)}
    BY <2>1, <2>2
  <2>3. ASSUME NEW v \in pick, NEW g \in {h \in Round!About(v) : ~Round!Settled(h, v)} PROVE \E item \in Round!OpenOf(v) : item.finding = g
    BY <2>1, <2>3
  <2>4. Round!Asks(sent) = {item.finding : item \in UNION {Round!OpenOf(v) : v \in pick}}
    BY <1>6 DEF Round!Asks
  <2>5. \A g : g \in Round!Asks(sent) <=> \E v \in pick : g \in {h \in Round!About(v) : ~Round!Settled(h, v)}
    BY <2>2, <2>3, <2>4
  <2>6. QED
    BY <2>5
<1>8. QED
  BY <1>3, <1>4, <1>5, <1>6, <1>7, ScreenAgrees DEF GoesAlong

\* The report is given only where every version of it could be collated, and it knows all that were.
LEMMA ReportsStand ==
  ASSUME VersionsInv
  PROVE  Round!ReportStands
<1> SUFFICES ASSUME Round!AnswersFit, Round!VariantsFit
    PROVE  /\ Round!Cardinality(DOMAIN Round!Collated) < MaxCollations => \A pick \in Round!Picks : Round!CanCollate(pick)
           /\ \A n \in DOMAIN Round!Collated : Round!Collated[n] \subseteq UNION {Round!VersionsOf(m) : m \in answered}
           /\ \A n \in Round!CallsOf("revision", {"accepted"}) : calls[n].of \subseteq UNION {Round!VersionsOf(m) : m \in answered}
  BY DEF Round!ReportStands, Round!Report
<1>1. ASSUME NEW n \in Round!CallsOf("revision", {"accepted"}) PROVE calls[n].of \subseteq UNION {Round!VersionsOf(m) : m \in answered}
  BY DEF Round!CallsOf, VersionsInv, CallOK, RevisionOK
<1>2. ASSUME NEW n \in DOMAIN Round!Collated PROVE Round!Collated[n] \subseteq UNION {Round!VersionsOf(m) : m \in answered}
  BY DEF Round!Collated, Round!CallsOf, VersionsInv, CallOK, CollationOK
<1>3. ASSUME Round!Cardinality(DOMAIN Round!Collated) < MaxCollations, NEW pick \in Round!Picks PROVE Round!CanCollate(pick)
  <2>1. Round!Cardinality(Round!CallsOf("collation", {"running", "accepted", "rejected"})) < MaxCollations
    BY <1>3 DEF Round!Collated
  <2>2. ASSUME NEW v \in pick PROVE v \notin altered /\ (v.n # 0 => \A k \in Round!ChecksOf(v.n, {"accepted"}) : Round!RowOf(k) \notin altered)
    <3>1. PICK m \in answered : v \in Round!VersionsOf(m)
      BY <2>2 DEF Round!Picks
    <3>2. CASE v = Round!Original(m) /\ v.n = 0
      BY <3>2 DEF Round!AnswersFit
    <3>3. ASSUME NEW r \in Round!CallsOf("revision", {"accepted"}), v = Round!RowOf(r),
                 v.n = r PROVE v \notin altered /\ \A k \in Round!ChecksOf(v.n, {"accepted"}) : Round!RowOf(k) \notin altered
      <4>1. r \in Round!CallsOf("revision", {"running", "accepted", "rejected"})
        BY DEF Round!CallsOf
      <4>2. \A k \in Round!ChecksOf(r, {"accepted"}) : k \in Round!ChecksOf(r, {"running", "accepted", "rejected"})
        BY DEF Round!ChecksOf, Round!CallsOf
      <4>3. Round!RowOf(r) \notin altered /\ \A k \in Round!ChecksOf(r, {"running", "accepted", "rejected"}) : Round!RowOf(k) \notin altered
        BY <4>1 DEF Round!VariantsFit
      <4>4. QED
        BY <3>3, <4>2, <4>3
    <3>4. QED
      BY <3>1, <3>2, <3>3, VersionNames
  <2>3. QED
    BY <2>1, <2>2 DEF Round!CanCollate
<1>4. QED
  BY <1>1, <1>2, <1>3

-----------------------------------------------------------------------------
\* A collation is called with what was shown, or with the answers.
LEMMA CollateKeeps ==
  ASSUME Round!RevisionRules, VersionsInv, Round!CollateShown \/ Round!CollateAnswers
  PROVE  VersionsInv' /\ \A k \in DOMAIN calls' \ DOMAIN calls : GoesAlong(calls'[k])
<1>1. PICK pick : /\ IsPick(pick) /\ Round!CanCollate(pick) /\ UNCHANGED <<answered, chosen>> /\ shown' \in {shown, Round!Nothing}
                  /\ calls' = Append(calls, Round!Called("collation", "orchestrator", pick, Round!Prepared(pick).given))
  <2>1. CASE Round!CollateShown
    <3>1. IsPick(shown.of)
      BY <2>1 DEF Round!CollateShown, VersionsInv
    <3>2. shown.given = Round!Prepared(shown.of).given
      BY <2>1 DEF Round!CollateShown
    <3>3. QED
      BY <2>1, <3>1, <3>2 DEF Round!CollateShown
  <2>2. CASE Round!CollateAnswers
    <3> DEFINE pick == {Round!Original(m) : m \in answered}
               f    == [m \in answered |-> Round!Original(m)]
    <3>1. \A m \in answered : Round!Original(m) \in Round!VersionsOf(m)
      BY DEF Round!VersionsOf
    <3>2. f \in [answered -> UNION {Round!VersionsOf(m) : m \in answered}] /\ pick = {f[m] : m \in answered}
              /\ \A m \in answered : f[m] \in Round!VersionsOf(m)
      BY <3>1
    <3>3. IsPick(pick)
      BY <3>2 DEF IsPick
    <3>4. QED
      BY <2>2, <3>3 DEF Round!CollateAnswers
  <2>3. QED
    BY <2>1, <2>2
<1> DEFINE e == Round!Called("collation", "orchestrator", pick, Round!Prepared(pick).given)
<1>2. /\ DOMAIN e = CallFields /\ e.state = "running" /\ e.found = {} /\ e.left = {} /\ e.kind = "collation"
      /\ e.of = pick /\ e.given = Round!Prepared(pick).given /\ calls' = Append(calls, e)
  BY <1>1 DEF Round!Called, CallFields
<1> HIDE DEF e
<1>3. e.of \subseteq UNION {Round!VersionsOf(m) : m \in answered}
  BY <1>1, <1>2 DEF IsPick
<1>4. /\ Grows /\ \E S : calls' \in Seq(S)
      /\ \A k \in DOMAIN calls' : CallOK(k)'
      /\ DOMAIN calls' \ DOMAIN calls = {Len(calls) + 1} /\ calls'[Len(calls) + 1] = e
  BY <1>1, <1>2, <1>3, CallMade
<1>5. (shown.kind = "collation" => IsPick(shown.of))'
  BY <1>1, <1>4, ShownStays DEF Round!Nothing
<1>6. VersionsInv'
  BY <1>1, <1>4, <1>5 DEF VersionsInv
<1>7. GoesAlong(e)
  BY <1>1, <1>2, CollatedGoesAlong
<1>8. QED
  BY <1>4, <1>6, <1>7

\* Every step keeps the rows in order and calls nobody for a collation without what is open.
LEMMA VersionsStep ==
  ASSUME Round!RevisionRules, VersionsInv, [Round!Next]_(Round!vars)
  PROVE  /\ VersionsInv'
         /\ UNCHANGED <<calls, altered>> \/ \A k \in DOMAIN calls' \ DOMAIN calls : calls'[k].kind = "collation" => GoesAlong(calls'[k])
<1> DEFINE Shows == UNCHANGED <<calls, answered, chosen>> /\ (shown'.kind = "collation" => IsPick(shown'.of))
<1>1. ASSUME Shows PROVE VersionsInv'
  <2>1. \A n \in DOMAIN calls : CallOK(n)' = CallOK(n)
    BY <1>1 DEF CallOK, ReviewOK, RevisionOK, RecheckOK, CollationOK, Round!VersionsOf, Round!RevisionsOf, Round!CallsOf, Round!RowOf, Round!Original,
       AllFound, Round!Asks, Underway, CallFields
  <2>2. \A of : IsPick(of) = IsPick(of)'
    BY <1>1 DEF IsPick, Round!VersionsOf, Round!RevisionsOf, Round!CallsOf, Round!RowOf, Round!Original
  <2>3. (shown.kind = "collation" => IsPick(shown.of))'
    <3>1. PICK of : of = shown'.of
      OBVIOUS
    <3>2. IsPick(shown.of)' = IsPick(of)'
      BY <3>1 DEF IsPick
    <3>3. QED
      BY <1>1, <2>2, <3>1, <3>2
  <2>4. QED
    BY <1>1, <2>1, <2>3 DEF VersionsInv
<1>2. CASE UNCHANGED Round!vars
  BY <1>1, <1>2 DEF Round!vars, VersionsInv
<1>3. CASE Round!PreviewRound
  BY <1>1, <1>3 DEF Round!PreviewRound, Round!Round
<1>4. CASE Round!StartRound
  BY <1>4, RoundMade
<1>5. CASE Round!NextReview
  BY <1>5, NextReviewKeeps
<1>6. ASSUME NEW f \in Round!Findings, NEW d \in Disposition, Round!Dispose(f, d) PROVE VersionsInv' /\ UNCHANGED <<calls, altered>>
  <2>1. UNCHANGED <<answered, calls, shown, altered>>
            /\ chosen' = [g \in DOMAIN chosen \union {f} |-> IF g = f THEN d ELSE chosen[g]]
    BY <1>6 DEF Round!Dispose
  <2>2. \A g \in DOMAIN chosen' : chosen'[g] \in Disposition
    BY <2>1 DEF VersionsInv
  <2>3. \A n \in DOMAIN calls : CallOK(n)' = CallOK(n)
    BY <2>1 DEF CallOK, ReviewOK, RevisionOK, RecheckOK, CollationOK, Round!VersionsOf, Round!RevisionsOf, Round!CallsOf, Round!RowOf, Round!Original,
       AllFound, Round!Asks, Underway, CallFields
  <2>4. IsPick(shown.of)' = IsPick(shown.of)
    BY <2>1 DEF IsPick, Round!VersionsOf, Round!RevisionsOf, Round!CallsOf, Round!RowOf, Round!Original
  <2>5. QED
    BY <2>1, <2>2, <2>3, <2>4 DEF VersionsInv
<1>7. ASSUME NEW m \in Author, Round!PreviewRevision(m) PROVE VersionsInv' /\ UNCHANGED <<calls, altered>>
  BY <1>1, <1>7 DEF Round!PreviewRevision, Round!Snapshot
<1>8. ASSUME NEW m \in Author,
             Round!Revise(m) PROVE VersionsInv' /\ \A k \in DOMAIN calls' \ DOMAIN calls : calls'[k].kind # "collation"
  BY <1>8, ReviseKeeps
<1>9. ASSUME NEW n \in DOMAIN calls, NEW m \in Member, Round!Recheck(n, m)
      PROVE  VersionsInv' /\ \A k \in DOMAIN calls' \ DOMAIN calls : calls'[k].kind # "collation"
  BY <1>9, RecheckKeeps
<1>10. ASSUME NEW pick \in Round!Picks, Round!PreviewCollation(pick) PROVE VersionsInv' /\ UNCHANGED <<calls, altered>>
  <2>1. shown' = Round!Prepared(pick) /\ UNCHANGED <<answered, calls, chosen, altered>>
    BY <1>10 DEF Round!PreviewCollation
  <2>2. IsPick(pick) /\ shown'.of = pick
    BY <2>1 DEF Round!Picks, IsPick, Round!Prepared
  <2>3. QED
    BY <1>1, <2>1, <2>2
<1>11. CASE Round!CollateShown \/ Round!CollateAnswers
  BY <1>11, CollateKeeps
<1>12. ASSUME NEW n \in DOMAIN calls, Round!Answer(n) \/ Round!Fail(n) PROVE VersionsInv' /\ DOMAIN calls' = DOMAIN calls
  BY <1>12, AnswerKeeps
<1>13. ASSUME NEW r, Round!Spoil(r) PROVE VersionsInv' /\ calls' = calls
  BY <1>1, <1>13 DEF Round!Spoil, VersionsInv
<1>14. QED
  BY <1>2, <1>3, <1>4, <1>5, <1>6, <1>7, <1>8, <1>9, <1>10, <1>11, <1>12, <1>13 DEF Round!Next, Round!vars

\* For any members, findings and calls, with at most two revisions of an answer: a collation is given one unchanged
\* version of each member with every finding open about it and no other, told as the screen tells it, and the report is
\* given only where every version may be collated (reviews.collate, _collation, _revision_open; report._variants).
THEOREM FindingsStayAlong ==
  ASSUME Round!RevisionRules
  PROVE  Round!Spec => Round!FindingsGoAlong
<1>1. Round!Init => VersionsInv
  BY VersionsBegin
<1>2. VersionsInv /\ [Round!Next]_(Round!vars) => VersionsInv'
  BY VersionsStep
<1>3. VersionsInv /\ [Round!Next]_(Round!vars)
        => [/\ UNCHANGED <<calls, altered>> \/ Round!ReportStands
            /\ \A k \in DOMAIN calls' \ DOMAIN calls :
                 calls'[k].kind = "collation" =>
                   LET sent == calls'[k] IN
                   /\ {v.pid : v \in sent.of} = answered /\ Round!Cardinality(sent.of) = Round!Cardinality(answered)
                   /\ sent.of \cap altered = {}
                   /\ Round!Asks(sent) = UNION {{f \in Round!About(v) : ~Round!Settled(f, v)} : v \in sent.of}
                   /\ Round!ShownAsSent(sent)]_(Round!vars)
  BY VersionsStep, ReportsStand, SameLibrary DEF GoesAlong
<1>4. QED
  BY <1>1, <1>2, <1>3, PTL DEF Round!Spec, Round!FindingsGoAlong

-----------------------------------------------------------------------------
(* What an attempt starts on.                                                *)

\* The operators of an instance are those of this module.
LEMMA LeastName == ASSUME NEW S, S \subseteq Nat, S # {} PROVE Input!Min(S) \in S
BY MinIsIn DEF Min, Input!Min

\* The rows of a run as it was created.
RowMade == [question |-> 0, memory |-> 0, prompt |-> Input!Fixed(CHOOSE m \in Participant : TRUE), bundle |-> [m \in Participant |-> Input!Fixed(m)]]

WorkMade == [m \in Participant |-> [task |-> 0, list |-> Input!AsMade(given[m]), prompt |-> Input!Fixed(m), digest |-> Input!Fixed(m)]]

SourceMade == [n \in UNION {given[m] : m \in Participant} |-> [content |-> 0, told |-> 0]]

InputMade ==
  /\ mode \in {"isolated", "general"}
  /\ given \in [Participant -> SUBSET Name]
  /\ mode = "isolated" => \A m, k \in Participant : given[m] = given[k]

\* What another hand can have changed, at most: an assignment or the digests bundled of it; a prompt or what it is made of.
OneHand ==
  /\ mode = "general" => work = WorkMade \/ row.bundle = RowMade.bundle
  /\ mode = "isolated" => row.prompt = RowMade.prompt \/ (row.question = 0 /\ source = SourceMade)
  /\ ~touched => row = RowMade /\ work = WorkMade /\ source = SourceMade

\* An attempt goes on only while its rows agree; files are read as they were made.
UnderWay ==
  /\ DOMAIN attempt = {"step", "member", "files"}
  /\ attempt.step \in {"idle", "write", "list", "read"}
  /\ attempt.step # "idle" => attempt.member \in Participant /\ Input!Agrees(attempt.member)
  /\ attempt.step = "read" => /\ DOMAIN attempt.files \subseteq given[attempt.member]
                              /\ attempt.files = Input!AsMade(DOMAIN attempt.files)

\* Where nothing was changed the folders are whole, and an attempt that reads has one.
Clean ==
  ~touched =>
    /\ ~refused
    /\ DOMAIN folder = Participant \union {"all"}
    /\ \A m \in Participant : folder[Input!Folder(m)].made => folder[Input!Folder(m)].files = Input!AsMade(given[m])
    /\ attempt.step = "write" => /\ DOMAIN attempt.files \subseteq given[attempt.member]
                                 /\ attempt.files = Input!AsMade(DOMAIN attempt.files)
    /\ attempt.step \in {"list", "read"} => folder[Input!Folder(attempt.member)].made

CallFixed == call # Input!NoCall => call.prompt = Input!Fixed(call.member) /\ call.files = Input!AsMade(given[call.member])

SourcesInv == InputMade /\ OneHand /\ UnderWay /\ Clean /\ CallFixed

-----------------------------------------------------------------------------
\* Rows that agree make the input and the list of sources that were fixed.
LEMMA AgreedIsFixed ==
  ASSUME InputMade, OneHand, NEW m \in Participant, Input!Agrees(m)
  PROVE  Input!Names(m) = given[m] /\ Input!Input(m) = Input!Fixed(m) /\ \A n \in given[m] : source[n].told = 0
<1>1. CASE mode = "general"
  <2>1. Input!WorkAgrees(m) /\ Input!ListAgrees(m) /\ Input!Names(m) = DOMAIN work[m].list /\ Input!Input(m) = work[m].prompt
    BY <1>1 DEF Input!Agrees, Input!Names, Input!Input
  <2>2. work[m].prompt = Input!Fixed(m) /\ work[m].list = Input!AsMade(given[m])
    <3>1. CASE work = WorkMade
      BY <3>1 DEF WorkMade
    <3>2. CASE row.bundle = RowMade.bundle
      <4>1. work[m].digest = Input!Fixed(m)
        <5>1. row.bundle[m] = work[m].digest
          BY <2>1 DEF Input!WorkAgrees
        <5>2. row.bundle[m] = Input!Fixed(m)
          BY <3>2 DEF RowMade
        <5>3. QED
          BY <5>1, <5>2
      <4>2. Input!Fixed(m) = Input!Prompt(row.question, work[m].task, work[m].list, row.memory) /\ work[m].prompt = Input!Fixed(m)
        BY <2>1, <4>1 DEF Input!WorkAgrees
      <4>3. Input!Fixed(m).list = work[m].list
        BY <4>2 DEF Input!Prompt
      <4>4. QED
        BY <4>2, <4>3 DEF Input!Fixed, Input!Prompt
    <3>3. QED
      BY <1>1, <3>1, <3>2 DEF OneHand
  <2>3. \A n \in given[m] : source[n].told = 0
    BY <2>1, <2>2 DEF Input!ListAgrees, Input!AsMade
  <2>4. QED
    BY <2>1, <2>2, <2>3 DEF Input!AsMade
<1>2. CASE mode = "isolated"
  <2> DEFINE told == [n \in DOMAIN source |-> source[n].told]
             one  == CHOOSE k \in Participant : TRUE
  <2>1. row.prompt = Input!Prompt(row.question, 0, told, 0) /\ Input!Names(m) = DOMAIN source /\ Input!Input(m) = row.prompt
    BY <1>2 DEF Input!Agrees, Input!PromptAgrees, Input!Names, Input!Input
  <2>2. one \in Participant /\ given[one] = given[m] /\ RowMade.prompt = Input!Fixed(m)
    <3>1. one \in Participant
      OBVIOUS
    <3>2. given[one] = given[m]
      BY <1>2, <3>1 DEF InputMade
    <3>3. RowMade.prompt = Input!Fixed(one)
      BY DEF RowMade
    <3>4. QED
      BY <3>1, <3>2, <3>3 DEF Input!Fixed
  <2>3. told = Input!AsMade(given[m]) /\ row.prompt = Input!Fixed(m)
    <3>1. CASE row.prompt = RowMade.prompt
      <4>1. Input!Prompt(row.question, 0, told, 0) = Input!Fixed(m)
        BY <2>1, <2>2, <3>1
      <4>2. Input!Prompt(row.question, 0, told, 0).list = told /\ Input!Fixed(m).list = Input!AsMade(given[m])
        BY DEF Input!Prompt, Input!Fixed
      <4>3. QED
        BY <2>2, <3>1, <4>1, <4>2
    <3>2. CASE row.question = 0 /\ source = SourceMade
      <4>1. UNION {given[k] : k \in Participant} = given[m]
        BY <1>2 DEF InputMade
      <4>2. DOMAIN source = given[m] /\ \A n \in DOMAIN source : source[n].told = 0
        BY <3>2, <4>1 DEF SourceMade
      <4>3. told = Input!AsMade(given[m])
        BY <4>2 DEF Input!AsMade
      <4>4. QED
        BY <2>1, <3>2, <4>3 DEF Input!Fixed
    <3>3. QED
      BY <1>2, <3>1, <3>2 DEF OneHand
  <2>4. DOMAIN source = given[m] /\ \A n \in DOMAIN source : source[n].told = 0
    <3>1. DOMAIN told = DOMAIN source /\ DOMAIN Input!AsMade(given[m]) = given[m]
              /\ \A n \in given[m] : Input!AsMade(given[m])[n] = 0
      BY DEF Input!AsMade
    <3>2. \A n \in DOMAIN source : told[n] = source[n].told
      OBVIOUS
    <3> HIDE DEF told
    <3>3. QED
      BY <2>3, <3>1, <3>2
  <2>5. QED
    BY <2>1, <2>3, <2>4
<1>3. QED
  BY <1>1, <1>2 DEF InputMade

\* The rows of a run agree as they were made, and give what was read.
LEMMA MadeAgrees ==
  ASSUME InputMade, row = RowMade, work = WorkMade, source = SourceMade, NEW m \in Participant
  PROVE  Input!Agrees(m) /\ \A n \in given[m] : source[n].content = 0 /\ source[n].told = 0
<1>1. given[m] \subseteq DOMAIN source /\ \A n \in DOMAIN source : source[n].content = 0 /\ source[n].told = 0
  BY DEF SourceMade
<1>2. CASE mode = "general"
  <2>1. /\ work[m].prompt = Input!Fixed(m) /\ work[m].digest = Input!Fixed(m) /\ work[m].task = 0
            /\ work[m].list = Input!AsMade(given[m])
        /\ \A k \in Participant : work[k].digest = Input!Fixed(k)
    BY DEF WorkMade
  <2>2. row.question = 0 /\ row.memory = 0 /\ row.bundle = [k \in Participant |-> Input!Fixed(k)]
    BY DEF RowMade
  <2>3. Input!WorkAgrees(m)
    BY <2>1, <2>2 DEF Input!WorkAgrees, Input!Fixed
  <2>4. Input!ListAgrees(m)
    BY <1>1, <2>1 DEF Input!ListAgrees, Input!AsMade
  <2>5. QED
    BY <1>1, <1>2, <2>3, <2>4 DEF Input!Agrees
<1>3. CASE mode = "isolated"
  <2> DEFINE one == CHOOSE k \in Participant : TRUE
  <2>1. one \in Participant
    OBVIOUS
  <2>2. given[one] = given[m] /\ UNION {given[k] : k \in Participant} = given[m]
    BY <1>3, <2>1 DEF InputMade
  <2>3. row.prompt = Input!Fixed(one) /\ row.question = 0
    BY DEF RowMade
  <2>4. [n \in DOMAIN source |-> source[n].told] = Input!AsMade(given[m])
    BY <2>2 DEF SourceMade, Input!AsMade
  <2>5. Input!Fixed(one) = Input!Fixed(m)
    BY <2>2 DEF Input!Fixed
  <2>6. Input!PromptAgrees
    BY <2>3, <2>4, <2>5 DEF Input!PromptAgrees, Input!Fixed
  <2>7. QED
    BY <1>1, <1>3, <2>6 DEF Input!Agrees
<1>4. QED
  BY <1>2, <1>3 DEF InputMade

\* The run is as it was created.
LEMMA SourcesBegin == ASSUME Input!Init PROVE SourcesInv
<1>1. InputMade /\ row = RowMade /\ work = WorkMade /\ source = SourceMade
  BY DEF Input!Init, InputMade, RowMade, WorkMade, SourceMade
<1>2. OneHand
  BY <1>1 DEF Input!Init, OneHand, RowMade
<1>3. UnderWay
  BY DEF Input!Init, UnderWay, Input!Idle
<1>4. \A f \in DOMAIN folder : ~folder[f].made
  BY DEF Input!Init, Input!NoFolder
<1>5. \A m \in Participant : Input!Folder(m) \in DOMAIN folder /\ DOMAIN folder = Participant \union {"all"}
  BY DEF Input!Init, Input!Folder
<1>6. Clean
  BY <1>4, <1>5 DEF Input!Init, Clean, Input!Idle
<1>7. QED
  BY <1>1, <1>2, <1>3, <1>6 DEF Input!Init, SourcesInv, CallFixed

\* What was read for the run stays.
LEMMA MadeStays ==
  ASSUME UNCHANGED <<mode, given>>
  PROVE  /\ InputMade' = InputMade /\ RowMade' = RowMade /\ WorkMade' = WorkMade /\ SourceMade' = SourceMade
         /\ \A m : Input!Folder(m)' = Input!Folder(m) /\ Input!Fixed(m)' = Input!Fixed(m)
BY DEF InputMade, RowMade, WorkMade, SourceMade, Input!Folder, Input!Fixed

\* Where the rows stay, what is read from them stays.
LEMMA RowsStay ==
  ASSUME UNCHANGED Input!rows
  PROVE  /\ InputMade' = InputMade
         /\ \A m : Input!Agrees(m)' = Input!Agrees(m) /\ Input!Names(m)' = Input!Names(m)
                   /\ Input!Folder(m)' = Input!Folder(m) /\ Input!Fixed(m)' = Input!Fixed(m)
BY MadeStays DEF Input!rows, Input!Agrees, Input!WorkAgrees, Input!ListAgrees, Input!PromptAgrees, Input!Names

\* Where the rows stay, so does what another hand has left of them.
LEMMA RowsAsBefore ==
  ASSUME UNCHANGED <<Input!rows, touched>>, InputMade, OneHand
  PROVE  InputMade' /\ OneHand'
BY MadeStays DEF Input!rows, OneHand

\* An attempt goes on with the member it has.
LEMMA Goes ==
  ASSUME UnderWay, NEW step, NEW done, Input!Go(step, done)
  PROVE  /\ attempt'.step = step /\ attempt'.member = attempt.member /\ attempt'.files = done
         /\ DOMAIN attempt' = {"step", "member", "files"}
BY DEF UnderWay, Input!Go

\* The next file is one of the member's that was not yet dealt with.
LEMMA FirstIsGiven ==
  ASSUME Input!NameRules, SourcesInv, attempt.step # "idle", ~Input!AllDone, DOMAIN attempt.files \subseteq given[attempt.member]
  PROVE  Input!First \in given[attempt.member] \ DOMAIN attempt.files
<1>1. attempt.member \in Participant /\ Input!Agrees(attempt.member)
  BY DEF SourcesInv, UnderWay
<1>2. Input!Names(attempt.member) = given[attempt.member]
  BY <1>1, AgreedIsFixed DEF SourcesInv
<1>3. Input!Names(attempt.member) \ DOMAIN attempt.files # {} /\ Input!Names(attempt.member) \ DOMAIN attempt.files \subseteq Nat
  BY <1>1, <1>2 DEF Input!AllDone, Input!NameRules, SourcesInv, InputMade
<1>4. QED
  BY <1>2, <1>3, LeastName DEF Input!First

\* The files read so far and one more.
LEMMA AndOneMore ==
  ASSUME attempt.files = Input!AsMade(DOMAIN attempt.files)
  PROVE  Input!AndFirst(0) = Input!AsMade(DOMAIN attempt.files \union {Input!First})
            /\ DOMAIN Input!AndFirst(0) = DOMAIN attempt.files \union {Input!First}
BY DEF Input!AndFirst, Input!AsMade

-----------------------------------------------------------------------------
\* An attempt begins, or is refused for its rows.
LEMMA AskKeeps ==
  ASSUME SourcesInv, NEW m \in Participant, Input!Ask(m)
  PROVE  SourcesInv'
<1>1. /\ UNCHANGED <<Input!rows, touched, folder>> /\ InputMade' /\ OneHand'
      /\ \A k : Input!Agrees(k)' = Input!Agrees(k) /\ Input!Folder(k)' = Input!Folder(k)
                /\ Input!Fixed(k)' = Input!Fixed(k) /\ given' = given
  BY RowsStay, RowsAsBefore DEF Input!Ask, Input!At, SourcesInv, Input!rows
<1>2. CASE ~Input!Agrees(m)
  <2>1. attempt' = Input!Idle /\ refused' = TRUE /\ call' = call /\ touched
    BY <1>2, MadeAgrees DEF Input!Ask, Input!Refuse, SourcesInv, OneHand
  <2>2. QED
    BY <1>1, <2>1 DEF SourcesInv, UnderWay, Clean, CallFixed, Input!Idle
<1>3. CASE Input!Agrees(m) /\ Input!Names(m) = {}
  <2>1. attempt' = Input!Idle /\ refused' = refused /\ call' = [member |-> m, prompt |-> Input!Input(m), files |-> Input!NoFiles]
    BY <1>3 DEF Input!Ask, Input!Begin
  <2>2. Input!Input(m) = Input!Fixed(m) /\ Input!NoFiles = Input!AsMade(given[m])
    BY <1>3, AgreedIsFixed DEF SourcesInv, Input!NoFiles, Input!AsMade
  <2>3. CallFixed'
    BY <1>1, <2>1, <2>2 DEF CallFixed, Input!AsMade
  <2>4. QED
    BY <1>1, <2>1, <2>3 DEF SourcesInv, UnderWay, Clean, Input!Idle
<1>4. CASE Input!Agrees(m) /\ Input!Names(m) # {}
  <2>1. /\ attempt' = [step |-> IF folder[Input!Folder(m)].made THEN "list" ELSE "write", member |-> m, files |-> Input!NoFiles]
        /\ UNCHANGED <<call, refused>>
    BY <1>4 DEF Input!Ask
  <2>2. DOMAIN Input!NoFiles = {} /\ Input!NoFiles = Input!AsMade({})
    BY DEF Input!NoFiles, Input!AsMade
  <2>3. UnderWay'
    BY <1>1, <1>4, <2>1 DEF UnderWay
  <2>4. Clean'
    BY <1>1, <2>1, <2>2 DEF SourcesInv, Clean, Input!AsMade
  <2>5. QED
    BY <1>1, <2>1, <2>3, <2>4 DEF SourcesInv, CallFixed, Input!AsMade
<1>5. QED
  BY <1>2, <1>3, <1>4

\* A file is written into the staging folder.
LEMMA WriteKeeps ==
  ASSUME Input!NameRules, SourcesInv, Input!Write
  PROVE  SourcesInv'
<1> DEFINE m == attempt.member
<1>1. /\ UNCHANGED <<Input!rows, touched, folder, call, refused>> /\ InputMade' /\ OneHand'
      /\ \A k : Input!Agrees(k)' = Input!Agrees(k) /\ Input!Folder(k)' = Input!Folder(k)
                /\ Input!Fixed(k)' = Input!Fixed(k) /\ given' = given
  BY RowsStay, RowsAsBefore DEF Input!Write, Input!Go, Input!At, SourcesInv, Input!rows
<1>2. /\ attempt.step = "write" /\ ~Input!AllDone /\ attempt'.step = "write" /\ attempt'.member = m
      /\ attempt'.files = Input!AndFirst(source[Input!First].content) /\ DOMAIN attempt' = {"step", "member", "files"}
      /\ m \in Participant /\ Input!Agrees(m)
  BY Goes DEF Input!Write, Input!At, SourcesInv, UnderWay
<1>3. UnderWay'
  BY <1>1, <1>2 DEF UnderWay
<1>4. ASSUME ~touched
      PROVE  DOMAIN attempt'.files \subseteq given[m] /\ attempt'.files = Input!AsMade(DOMAIN attempt'.files)
  <2>1. DOMAIN attempt.files \subseteq given[m] /\ attempt.files = Input!AsMade(DOMAIN attempt.files)
    BY <1>2, <1>4 DEF SourcesInv, Clean
  <2>2. Input!First \in given[m]
    BY <1>2, <2>1, FirstIsGiven
  <2>3. source[Input!First].content = 0
    BY <1>2, <1>4, <2>2, MadeAgrees DEF SourcesInv, OneHand
  <2>4. QED
    BY <1>2, <2>1, <2>2, <2>3, AndOneMore
<1>5. Clean'
  BY <1>1, <1>2, <1>4 DEF SourcesInv, Clean, Input!AsMade
<1>6. QED
  BY <1>1, <1>3, <1>5 DEF SourcesInv, CallFixed, Input!AsMade

\* The staging folder takes its place.
LEMMA RenameKeeps ==
  ASSUME SourcesInv, Input!Rename
  PROVE  SourcesInv'
<1> DEFINE m == attempt.member
<1>1. /\ UNCHANGED <<Input!rows, touched, call, refused>> /\ InputMade' /\ OneHand'
      /\ \A k : Input!Agrees(k)' = Input!Agrees(k) /\ Input!Folder(k)' = Input!Folder(k)
                /\ Input!Fixed(k)' = Input!Fixed(k) /\ given' = given
  BY RowsStay, RowsAsBefore DEF Input!Rename, Input!Go, Input!At, SourcesInv, Input!rows
<1>2. /\ attempt.step = "write" /\ Input!AllDone /\ attempt'.step = "list" /\ attempt'.member = m
      /\ DOMAIN attempt' = {"step", "member", "files"} /\ m \in Participant /\ Input!Agrees(m)
      /\ folder' = [folder EXCEPT ![Input!Folder(m)] = [made |-> TRUE, files |-> attempt.files]]
  BY Goes DEF Input!Rename, Input!At, SourcesInv, UnderWay
<1>3. UnderWay'
  BY <1>1, <1>2 DEF UnderWay
<1>4. ASSUME ~touched
      PROVE  /\ ~refused' /\ DOMAIN folder' = Participant \union {"all"} /\ folder'[Input!Folder(m)].made
             /\ \A k \in Participant : folder'[Input!Folder(k)].made => folder'[Input!Folder(k)].files = Input!AsMade(given[k])
  <2>1. attempt.files = Input!AsMade(given[m])
    <3>1. attempt.files = Input!AsMade(DOMAIN attempt.files) /\ DOMAIN attempt.files = Input!Names(m)
      BY <1>2, <1>4 DEF SourcesInv, Clean, Input!AllDone
    <3>2. Input!Names(m) = given[m]
      BY <1>2, AgreedIsFixed DEF SourcesInv
    <3>3. QED
      BY <3>1, <3>2
  <2>2. ~refused /\ DOMAIN folder = Participant \union {"all"} /\ \A k \in Participant : Input!Folder(k) \in DOMAIN folder
    BY <1>4 DEF SourcesInv, Clean, Input!Folder
  <2>3. folder'[Input!Folder(m)] = [made |-> TRUE, files |-> Input!AsMade(given[m])]
    BY <1>2, <2>1, <2>2
  <2>4. ASSUME NEW k \in Participant, folder'[Input!Folder(k)].made
        PROVE  folder'[Input!Folder(k)].files = Input!AsMade(given[k])
    <3>1. CASE Input!Folder(k) = Input!Folder(m)
      <4>1. given[k] = given[m]
        BY <1>2, <3>1 DEF SourcesInv, InputMade, Input!Folder
      <4>2. QED
        BY <2>3, <3>1, <4>1
    <3>2. CASE Input!Folder(k) # Input!Folder(m)
      <4>1. folder'[Input!Folder(k)] = folder[Input!Folder(k)]
        BY <1>2, <2>2, <3>2
      <4>2. QED
        BY <1>4, <2>4, <4>1 DEF SourcesInv, Clean
    <3>3. QED
      BY <3>1, <3>2
  <2>5. QED
    BY <1>1, <1>2, <2>2, <2>3, <2>4
<1>5. Clean'
  BY <1>1, <1>2, <1>4 DEF Clean, Input!AsMade
<1>6. QED
  BY <1>1, <1>3, <1>5 DEF SourcesInv, CallFixed, Input!AsMade

\* The folder is looked at.
LEMMA ListKeeps ==
  ASSUME SourcesInv, Input!List
  PROVE  SourcesInv'
<1> DEFINE m == attempt.member
<1>1. /\ UNCHANGED <<Input!rows, touched, folder, call>> /\ InputMade' /\ OneHand'
      /\ \A k : Input!Agrees(k)' = Input!Agrees(k) /\ Input!Folder(k)' = Input!Folder(k)
                /\ Input!Fixed(k)' = Input!Fixed(k) /\ given' = given
  BY RowsStay, RowsAsBefore DEF Input!List, Input!Go, Input!Refuse, Input!At, SourcesInv, Input!rows
<1>2. attempt.step = "list" /\ m \in Participant /\ Input!Agrees(m) /\ Input!Names(m) = given[m]
  BY AgreedIsFixed DEF Input!List, Input!At, SourcesInv, UnderWay
<1>3. CASE DOMAIN folder[Input!Folder(m)].files = Input!Names(m)
  <2>1. /\ attempt'.step = "read" /\ attempt'.member = m /\ attempt'.files = Input!NoFiles /\ refused' = refused
        /\ DOMAIN attempt' = {"step", "member", "files"}
    BY <1>3, Goes DEF Input!List, SourcesInv, Input!Go
  <2>2. Input!NoFiles = Input!AsMade(DOMAIN Input!NoFiles) /\ DOMAIN Input!NoFiles = {}
    BY DEF Input!NoFiles, Input!AsMade
  <2>3. UnderWay'
    BY <1>1, <1>2, <2>1, <2>2 DEF UnderWay, Input!AsMade
  <2>4. Clean'
    BY <1>1, <1>2, <2>1 DEF SourcesInv, Clean, Input!AsMade
  <2>5. QED
    BY <1>1, <2>3, <2>4 DEF SourcesInv, CallFixed, Input!AsMade
<1>4. CASE DOMAIN folder[Input!Folder(m)].files # Input!Names(m)
  <2>1. attempt' = Input!Idle
    BY <1>4 DEF Input!List, Input!Refuse
  <2>2. touched
    BY <1>2, <1>4 DEF SourcesInv, Clean, Input!AsMade
  <2>3. QED
    BY <1>1, <2>1, <2>2 DEF SourcesInv, UnderWay, Clean, CallFixed, Input!AsMade, Input!Idle
<1>5. QED
  BY <1>3, <1>4

\* A file is read.
LEMMA ReadKeeps ==
  ASSUME Input!NameRules, SourcesInv, Input!Read
  PROVE  SourcesInv'
<1> DEFINE m    == attempt.member
           kept == folder[Input!Folder(m)].files
<1>1. /\ UNCHANGED <<Input!rows, touched, folder, call>> /\ InputMade' /\ OneHand'
      /\ \A k : Input!Agrees(k)' = Input!Agrees(k) /\ Input!Folder(k)' = Input!Folder(k)
                /\ Input!Fixed(k)' = Input!Fixed(k) /\ given' = given
  BY RowsStay, RowsAsBefore DEF Input!Read, Input!Go, Input!Refuse, Input!At, SourcesInv, Input!rows
<1>2. /\ attempt.step = "read" /\ ~Input!AllDone /\ m \in Participant /\ Input!Agrees(m)
      /\ DOMAIN attempt.files \subseteq given[m] /\ attempt.files = Input!AsMade(DOMAIN attempt.files)
  BY DEF Input!Read, Input!At, SourcesInv, UnderWay
<1>3. Input!First \in given[m] /\ source[Input!First].told = 0
  BY <1>2, FirstIsGiven, AgreedIsFixed DEF SourcesInv
<1>4. CASE Input!First \in DOMAIN kept /\ kept[Input!First] = source[Input!First].told
  <2>1. /\ attempt'.step = "read" /\ attempt'.member = m /\ attempt'.files = Input!AndFirst(0) /\ refused' = refused
        /\ DOMAIN attempt' = {"step", "member", "files"}
    BY <1>3, <1>4, Goes DEF Input!Read, SourcesInv, Input!Go
  <2>2. DOMAIN attempt'.files \subseteq given[m] /\ attempt'.files = Input!AsMade(DOMAIN attempt'.files)
    BY <1>2, <1>3, <2>1, AndOneMore
  <2>3. UnderWay'
    BY <1>1, <1>2, <2>1, <2>2 DEF UnderWay, Input!AsMade
  <2>4. Clean'
    BY <1>1, <1>2, <2>1 DEF SourcesInv, Clean, Input!AsMade
  <2>5. QED
    BY <1>1, <2>3, <2>4 DEF SourcesInv, CallFixed, Input!AsMade
<1>5. CASE ~(Input!First \in DOMAIN kept /\ kept[Input!First] = source[Input!First].told)
  <2>1. attempt' = Input!Idle
    BY <1>5 DEF Input!Read, Input!Refuse
  <2>2. touched
    <3> SUFFICES ASSUME ~touched PROVE FALSE
      OBVIOUS
    <3>1. kept = Input!AsMade(given[m])
      BY <1>2 DEF SourcesInv, Clean
    <3>2. Input!First \in DOMAIN kept /\ kept[Input!First] = 0
      BY <1>3, <3>1 DEF Input!AsMade
    <3>3. QED
      BY <1>3, <1>5, <3>2
  <2>3. QED
    BY <1>1, <2>1, <2>2 DEF SourcesInv, UnderWay, Clean, CallFixed, Input!AsMade, Input!Idle
<1>6. QED
  BY <1>4, <1>5

\* The call starts on what was read.
LEMMA StartKeeps ==
  ASSUME SourcesInv, Input!Start
  PROVE  SourcesInv'
<1> DEFINE m == attempt.member
<1>1. /\ UNCHANGED <<Input!rows, touched, folder, refused>> /\ attempt' = Input!Idle /\ InputMade' /\ OneHand'
      /\ \A k : Input!Agrees(k)' = Input!Agrees(k) /\ Input!Folder(k)' = Input!Folder(k)
                /\ Input!Fixed(k)' = Input!Fixed(k) /\ given' = given
  BY RowsStay, RowsAsBefore DEF Input!Start, Input!Begin, Input!At, SourcesInv, Input!rows
<1>2. /\ attempt.step = "read" /\ Input!AllDone /\ m \in Participant /\ Input!Agrees(m)
          /\ attempt.files = Input!AsMade(DOMAIN attempt.files)
      /\ call' = [member |-> m, prompt |-> Input!Input(m), files |-> attempt.files]
  BY DEF Input!Start, Input!Begin, Input!At, SourcesInv, UnderWay
<1>3. Input!Input(m) = Input!Fixed(m) /\ attempt.files = Input!AsMade(given[m])
  BY <1>2, AgreedIsFixed DEF SourcesInv, Input!AllDone
<1>4. CallFixed'
  BY <1>1, <1>2, <1>3 DEF CallFixed, Input!AsMade
<1>5. QED
  BY <1>1, <1>4 DEF SourcesInv, UnderWay, Clean, Input!AsMade, Input!Idle

\* The process ends.
LEMMA CrashKeeps ==
  ASSUME SourcesInv, Input!Crash
  PROVE  SourcesInv'
<1>1. /\ UNCHANGED <<Input!rows, touched, folder, call, refused>> /\ attempt' = Input!Idle /\ InputMade' /\ OneHand'
      /\ \A k : Input!Folder(k)' = Input!Folder(k) /\ Input!Fixed(k)' = Input!Fixed(k) /\ given' = given
  BY RowsStay, RowsAsBefore DEF Input!Crash, SourcesInv, Input!rows
<1>2. QED
  BY <1>1 DEF SourcesInv, UnderWay, Clean, CallFixed, Input!AsMade, Input!Idle

-----------------------------------------------------------------------------
\* Once something was changed nothing need be clean; the rest does not ask what the rows are.
LEMMA TouchedKeeps ==
  ASSUME SourcesInv, Input!Touch, OneHand', attempt # Input!Idle => UNCHANGED Input!rows
  PROVE  SourcesInv'
<1>1. UNCHANGED <<mode, given, attempt, call, refused>> /\ touched'
  BY DEF Input!Touch
<1>2. InputMade' /\ \A k : Input!Fixed(k)' = Input!Fixed(k)
  BY <1>1, MadeStays DEF SourcesInv
<1>3. attempt.step # "idle" => \A k : Input!Agrees(k)' = Input!Agrees(k)
  BY RowsStay DEF Input!Idle
<1>4. QED
  BY <1>1, <1>2, <1>3 DEF SourcesInv, UnderWay, Clean, CallFixed, Input!AsMade

\* Another hand changes the row of the run.
LEMMA AlterRunKeeps ==
  ASSUME SourcesInv, Input!AlterRun
  PROVE  SourcesInv'
<1>1. /\ Input!Touch /\ attempt = Input!Idle /\ UNCHANGED <<mode, given, work, source>> /\ ~touched /\ touched'
      /\ row = RowMade /\ work = WorkMade /\ source = SourceMade
  BY DEF Input!AlterRun, Input!Touch, SourcesInv, OneHand
<1>2. row'.prompt = row.prompt \/ row'.question = row.question
  <2>1. DOMAIN row = {"question", "memory", "prompt", "bundle"}
    BY <1>1 DEF RowMade
  <2>2. QED
    BY <2>1 DEF Input!AlterRun
<1>3. row.question = 0
  BY <1>1 DEF RowMade
<1>4. OneHand'
  BY <1>1, <1>2, <1>3, MadeStays DEF OneHand
<1>5. QED
  BY <1>1, <1>4, TouchedKeeps

\* Another hand changes an assignment.
LEMMA AlterWorkKeeps ==
  ASSUME SourcesInv, Input!AlterWork
  PROVE  SourcesInv'
<1>1. /\ Input!Touch /\ attempt = Input!Idle /\ UNCHANGED <<mode, given, row, source>> /\ mode = "general" /\ ~touched /\ touched'
      /\ row = RowMade
  BY DEF Input!AlterWork, Input!Touch, SourcesInv, OneHand
<1>2. OneHand'
  BY <1>1, MadeStays DEF OneHand
<1>3. QED
  BY <1>1, <1>2, TouchedKeeps

\* Another hand changes a source.
LEMMA AlterSourceKeeps ==
  ASSUME SourcesInv, Input!AlterSource
  PROVE  SourcesInv'
<1>1. /\ Input!Touch /\ attempt = Input!Idle /\ UNCHANGED <<mode, given, row, work>> /\ ~touched /\ touched'
      /\ row = RowMade
  BY DEF Input!AlterSource, Input!Touch, SourcesInv, OneHand
<1>2. OneHand'
  BY <1>1, MadeStays DEF OneHand
<1>3. QED
  BY <1>1, <1>2, TouchedKeeps

\* Another hand changes a folder.
LEMMA AlterFolderKeeps ==
  ASSUME SourcesInv, Input!AlterFolder
  PROVE  SourcesInv'
<1>1. Input!Touch /\ UNCHANGED Input!rows /\ ~touched /\ touched' /\ row = RowMade /\ work = WorkMade /\ source = SourceMade
  BY DEF Input!AlterFolder, Input!Touch, SourcesInv, OneHand, Input!rows
<1>2. OneHand'
  BY <1>1, MadeStays DEF OneHand, Input!rows, SourcesInv
<1>3. QED
  BY <1>1, <1>2, TouchedKeeps

\* Every step keeps the attempt on what was fixed.
LEMMA SourcesStep ==
  ASSUME Input!NameRules, SourcesInv, [Input!Next]_(Input!vars)
  PROVE  SourcesInv'
<1>1. CASE UNCHANGED Input!vars
  <2>1. UNCHANGED Input!rows /\ UNCHANGED <<folder, attempt, call, refused, touched>>
    BY <1>1 DEF Input!vars
  <2>2. /\ InputMade' /\ OneHand'
        /\ \A k : Input!Agrees(k)' = Input!Agrees(k) /\ Input!Folder(k)' = Input!Folder(k)
                  /\ Input!Fixed(k)' = Input!Fixed(k) /\ given' = given
    BY <2>1, RowsStay, RowsAsBefore DEF SourcesInv, Input!rows
  <2>3. QED
    BY <2>1, <2>2 DEF SourcesInv, UnderWay, Clean, CallFixed, Input!AsMade
<1>2. ASSUME NEW m \in Participant, Input!Ask(m) PROVE SourcesInv'
  BY <1>2, AskKeeps
<1>3. CASE Input!Write
  BY <1>3, WriteKeeps
<1>4. CASE Input!Rename
  BY <1>4, RenameKeeps
<1>5. CASE Input!List
  BY <1>5, ListKeeps
<1>6. CASE Input!Read
  BY <1>6, ReadKeeps
<1>7. CASE Input!Start
  BY <1>7, StartKeeps
<1>8. CASE Input!Crash
  BY <1>8, CrashKeeps
<1>9. CASE Input!AlterRun
  BY <1>9, AlterRunKeeps
<1>10. CASE Input!AlterWork
  BY <1>10, AlterWorkKeeps
<1>11. CASE Input!AlterSource
  BY <1>11, AlterSourceKeeps
<1>12. CASE Input!AlterFolder
  BY <1>12, AlterFolderKeeps
<1>13. QED
  BY <1>1, <1>2, <1>3, <1>4, <1>5, <1>6, <1>7, <1>8, <1>9, <1>10, <1>11, <1>12 DEF Input!Next

\* For any members and sources: a call is given the prompt and the files fixed when the run was created, and without
\* another hand no attempt is refused (InputBuilder.fixed, general, _snapshot, _check).
THEOREM StartsAsFixed ==
  ASSUME Input!NameRules
  PROVE  Input!Spec => []Input!StartsOnWhatWasFixed
<1>1. SourcesInv => Input!StartsOnWhatWasFixed
  BY DEF SourcesInv, Clean, CallFixed, Input!StartsOnWhatWasFixed
<1>2. QED
  BY <1>1, SourcesBegin, SourcesStep, PTL DEF Input!Spec

-----------------------------------------------------------------------------
(* The templates of work.                                                    *)

\* The cardinality of the instance is the one of this module.
LEMMA CountOfTemplates == \A S : Kept!Cardinality(S) = Cardinality(S)
BY DEF Cardinality, Kept!Cardinality

\* All copies of templates, with a row, in a file or on their way.
Copies == templates \union files \union saving

\* A row or a file that nobody has changed is whole, and its models belong to cards of its board.
Untouched(i) == Kept!Whole(i) /\ DOMAIN i.draft.models \subseteq i.draft.cards

TemplatesInv ==
  /\ \A i \in Copies : {"key", "draft", "models", "sha256"} = DOMAIN i
  /\ \A i \in Copies : i.sha256 \in fixed
  /\ \A i \in Copies : i.key \notin spoilt => Untouched(i)
  /\ IsFiniteSet(templates)
  /\ offered \subseteq fixed /\ Cardinality(templates) <= MaxTemplates /\ declined = {}

\* A set that takes one more element is finite, and larger by one at most.
LEMMA OneMore ==
  ASSUME NEW S, IsFiniteSet(S), NEW x
  PROVE  /\ IsFiniteSet(S \union {x}) /\ Cardinality(S) \in Nat /\ Cardinality(S \union {x}) \in Nat
         /\ Cardinality(S \union {x}) <= Cardinality(S) + 1
<1>1. IsFiniteSet(S \union {x}) /\ Cardinality(S) \in Nat /\ Cardinality(S \union {x}) \in Nat
  BY FS_AddElement, FS_CardinalityType
<1>2. CASE x \in S
  BY <1>1, <1>2, FS_AddElement
<1>3. CASE x \notin S
  BY <1>1, <1>3, FS_AddElement
<1>4. QED
  BY <1>1, <1>2, <1>3

\* What another hand makes of a template keeps its key and its digest.
LEMMA OtherHand ==
  ASSUME NEW i, {"key", "draft", "models", "sha256"} = DOMAIN i, NEW d, NEW m, NEW other, other = [i EXCEPT !.draft = d,
         !.models = m]
  PROVE  /\ {"key", "draft", "models", "sha256"} = DOMAIN other
         /\ other.key = i.key /\ other.draft = d /\ other.models = m /\ other.sha256 = i.sha256
OBVIOUS

\* Nothing was saved yet.
LEMMA TemplatesBegin == ASSUME Kept!LimitRules, Kept!Init PROVE TemplatesInv
BY FS_EmptySet DEF Kept!LimitRules, Kept!Init, TemplatesInv, Copies

\* A save that is begun keeps the digest of what it was begun with.
LEMMA SaveBegins ==
  ASSUME TemplatesInv, NEW draft, Kept!BeginSave(draft), UNCHANGED <<templates, files, offered, spoilt, declined>>,
         fixed \subseteq fixed', Kept!Payload(draft, Kept!Actual(draft)) \in fixed', DOMAIN draft.models \subseteq draft.cards
  PROVE  TemplatesInv'
<1> DEFINE new == [key |-> saves, draft |-> draft, models |-> Kept!Actual(draft), sha256 |-> Kept!Payload(draft, Kept!Actual(draft))]
<1>1. Copies' = Copies \union {new}
  BY DEF Kept!BeginSave, Copies
<1>2. /\ new.key = saves /\ new.draft = draft /\ new.models = Kept!Actual(draft)
          /\ new.sha256 = Kept!Payload(draft, Kept!Actual(draft))
      /\ {"key", "draft", "models", "sha256"} = DOMAIN new
  OBVIOUS
<1>3. Untouched(new)
  BY <1>2 DEF Untouched, Kept!Whole
<1> HIDE DEF new
<1>4. \A i : Untouched(i)' = Untouched(i)
  BY DEF Untouched, Kept!Whole, Kept!Payload
<1>5. QED
  BY <1>1, <1>2, <1>3, <1>4 DEF TemplatesInv

\* Every step keeps the templates and what is offered of them.
LEMMA TemplatesStep ==
  ASSUME Kept!LimitRules, TemplatesInv, [Kept!Next]_(Kept!vars)
  PROVE  TemplatesInv'
<1> USE DEF TemplatesInv, Kept!LimitRules
<1>0. \A i : Untouched(i)' = Untouched(i)
  BY DEF Untouched, Kept!Whole, Kept!Payload
<1>1. CASE UNCHANGED Kept!vars
  BY <1>0, <1>1 DEF Kept!vars, Copies
<1>2. ASSUME NEW d \in Draft, Kept!Save(d) PROVE TemplatesInv'
  BY <1>2, SaveBegins DEF Kept!Save, Kept!Validates
<1>3. ASSUME NEW f \in files, Kept!Import(f) PROVE TemplatesInv'
  <2>1. Kept!Payload(f.draft, Kept!Actual(f.draft)) = f.sha256 /\ DOMAIN f.draft.models \subseteq f.draft.cards
    BY <1>3 DEF Kept!Import, Kept!Whole, Kept!ValidatesWith, Kept!Validates
  <2>2. QED
    BY <1>3, <2>1, SaveBegins DEF Kept!Import, Copies
<1>4. ASSUME NEW i \in saving, Kept!Insert(i) PROVE TemplatesInv'
  <2>1. Copies' \subseteq Copies /\ UNCHANGED <<fixed, spoilt, offered, declined>>
    BY <1>4 DEF Kept!Insert, Kept!Kept, Copies
  <2>2. IsFiniteSet(templates') /\ Cardinality(templates') <= MaxTemplates
    <3>1. CASE Cardinality(templates) < MaxTemplates
      <4>1. templates' = templates \union {i}
        BY <1>4, <3>1, CountOfTemplates DEF Kept!Insert
      <4>2. IsFiniteSet(templates') /\ Cardinality(templates') <= Cardinality(templates) + 1 /\ Cardinality(templates) \in Nat
        BY <4>1, OneMore
      <4>3. Cardinality(templates') \in Nat
        BY <4>2, FS_CardinalityType
      <4>4. QED
        BY <3>1, <4>2, <4>3
    <3>2. CASE ~(Cardinality(templates) < MaxTemplates)
      BY <1>4, <3>2, CountOfTemplates DEF Kept!Insert
    <3>3. QED
      BY <3>1, <3>2
  <2>3. QED
    BY <1>0, <2>1, <2>2
<1>5. ASSUME NEW i \in templates, Kept!Load(i) PROVE TemplatesInv'
  <2>1. UNCHANGED <<saving, templates, files, fixed, spoilt>> /\ i \in Copies
    BY <1>5 DEF Kept!Load, Copies
  <2>2. CASE Kept!Whole(i) /\ Kept!ValidatesWith(i.draft, i.models)
    <3>1. offered' = {i.sha256} /\ declined' = declined
      BY <1>5, <2>2 DEF Kept!Load, Kept!Whole, Kept!ValidatesWith
    <3>2. QED
      BY <1>0, <2>1, <3>1 DEF Copies
  <2>3. CASE ~(Kept!Whole(i) /\ Kept!ValidatesWith(i.draft, i.models))
    <3>1. ~(i.key \notin spoilt /\ Kept!CanStart(i.draft) /\ Kept!Actual(i.draft) = i.models)
      BY <2>1, <2>3 DEF Untouched, Kept!ValidatesWith, Kept!Validates
    <3>2. offered' = offered /\ declined' = declined
      BY <1>5, <2>3, <3>1 DEF Kept!Load
    <3>3. QED
      BY <1>0, <2>1, <3>2 DEF Copies
  <2>4. QED
    BY <2>2, <2>3
<1>6. ASSUME NEW i \in templates, Kept!Export(i) PROVE TemplatesInv'
  BY <1>0, <1>6 DEF Kept!Export, Copies
<1>7. ASSUME NEW i \in templates, Kept!Delete(i) PROVE TemplatesInv'
  <2>1. Copies' \subseteq Copies /\ UNCHANGED <<fixed, spoilt, offered, declined>> /\ templates' \subseteq templates
    BY <1>7 DEF Kept!Delete, Copies
  <2>2. IsFiniteSet(templates') /\ Cardinality(templates') <= Cardinality(templates)
    BY <2>1, FS_Subset
  <2>3. Cardinality(templates) \in Nat /\ Cardinality(templates') \in Nat
    BY <2>2, FS_CardinalityType
  <2>4. QED
    BY <1>0, <2>1, <2>2, <2>3
<1>8. CASE Kept!Restart
  BY <1>0, <1>8 DEF Kept!Restart, Copies
<1>9. ASSUME NEW i \in templates \union files, NEW d \in Draft, NEW models \in [d.cards -> Model], Kept!Spoil(i, d, models)
      PROVE  TemplatesInv'
  <2> DEFINE new == [i EXCEPT !.draft = d, !.models = models]
  <2>2. /\ new.key = i.key /\ new.draft = d /\ new.models = models /\ new.sha256 = i.sha256
        /\ {"key", "draft", "models", "sha256"} = DOMAIN new
    <3>1. {"key", "draft", "models", "sha256"} = DOMAIN i
      BY DEF Copies
    <3>2. QED
      BY <3>1, OtherHand, Zenon
  <2>3. /\ UNCHANGED <<saving, offered, fixed, declined>> /\ spoilt' = {i.key} /\ spoilt = {}
        /\ \/ i \in templates /\ templates' = (templates \ {i}) \union {new} /\ files' = files
           \/ templates' = templates /\ files' = (files \ {i}) \union {new}
    BY <1>9 DEF Kept!Spoil
  <2> HIDE DEF new
  <2>4. Copies' \subseteq Copies \union {new} /\ i \in Copies
    BY <2>3 DEF Copies
  <2>5. IsFiniteSet(templates') /\ Cardinality(templates') <= MaxTemplates
    <3>1. CASE i \in templates /\ templates' = (templates \ {i}) \union {new}
      <4>1. IsFiniteSet(templates \ {i}) /\ Cardinality(templates \ {i}) = Cardinality(templates) - 1
        BY <3>1, FS_RemoveElement
      <4>2. /\ IsFiniteSet(templates') /\ Cardinality(templates') <= Cardinality(templates \ {i}) + 1
            /\ Cardinality(templates \ {i}) \in Nat /\ Cardinality(templates') \in Nat
        BY <3>1, <4>1, OneMore, Zenon
      <4>3. Cardinality(templates) \in Nat
        BY FS_CardinalityType
      <4>4. QED
        BY <4>1, <4>2, <4>3
    <3>2. CASE templates' = templates
      BY <3>2
    <3>3. QED
      BY <2>3, <3>1, <3>2
  <2>6. QED
    BY <1>0, <2>2, <2>3, <2>4, <2>5
<1>10. QED
  BY <1>1, <1>2, <1>3, <1>4, <1>5, <1>6, <1>7, <1>8, <1>9 DEF Kept!Next

\* For any rosters, drafts and limit: no more templates are kept than the limit, what is offered was saved by hand as it
\* is offered, and a template nobody has changed is refused only where the server cannot start it as it was saved (templates.save, load, import_copy).
THEOREM TemplatesStayKept ==
  ASSUME Kept!LimitRules
  PROVE  Kept!Spec => []Kept!TemplatesAreKept
<1>1. TemplatesInv => Kept!TemplatesAreKept
  BY CountOfTemplates DEF TemplatesInv, Kept!TemplatesAreKept
<1>2. QED
  BY <1>1, TemplatesBegin, TemplatesStep, PTL DEF Kept!Spec

-----------------------------------------------------------------------------
(* What the screen tells of a sealed run.                                    *)

\* A set of places in a sequence has a last one.
LEMMA MaxIsIn ==
  ASSUME NEW n \in Nat, NEW S, S \subseteq 1..n, S # {}
  PROVE  Screen!Max(S) \in S
<1> DEFINE T == {n - x : x \in S}
<1>1. T \subseteq Nat /\ T # {}
  <2>1. \A x \in S : n - x \in Nat
    OBVIOUS
  <2>2. QED
    BY <2>1
<1> HIDE DEF T
<1>2. Min(T) \in T
  BY <1>1, MinIsIn
<1>3. \A y \in T : Min(T) <= y
  BY <1>1, LeastExists DEF Min
<1> USE DEF T
<1>4. PICK x \in S : Min(T) = n - x
  BY <1>2
<1>5. ASSUME NEW y \in S PROVE x >= y
  <2>1. n - y \in T /\ n - x <= n - y
    BY <1>3, <1>4
  <2>2. x \in 1..n /\ y \in 1..n
    OBVIOUS
  <2>3. QED
    BY <2>1, <2>2
<1>6. QED
  BY <1>5 DEF Screen!Max

RunFields == {"mode", "phase", "cancelled", "judged", "parts", "before", "after"}

PartFields == {"transport", "provider", "state", "started", "kind", "answer", "measure", "words"}

\* The row of a run, and those of its participants.
IsRun(this) == RunFields \subseteq DOMAIN this /\ \A i \in DOMAIN this.parts : PartFields \subseteq DOMAIN this.parts[i]

\* They are complete.
LEMMA RunsAre == ASSUME NEW these, Screen!AreRuns(these), NEW r \in DOMAIN these PROVE IsRun(these[r])
<1>1. these[r] \in Screen!RunRow
  BY DEF Screen!AreRuns
<1>2. PICK parts \in Seq(Screen!PartRow) : these[r].parts = parts
  BY <1>1 DEF Screen!RunRow
<1>3. \A i \in DOMAIN parts : parts[i] \in Screen!PartRow
  OBVIOUS
<1>4. RunFields \subseteq DOMAIN these[r]
  BY <1>1 DEF Screen!RunRow, RunFields
<1>5. \A p \in Screen!PartRow : PartFields \subseteq DOMAIN p
  BY DEF Screen!PartRow, PartFields
<1>6. QED
  BY <1>2, <1>3, <1>4, <1>5 DEF IsRun

\* So are the ends, each of one of the runs.
LEMMA EndsAre ==
  ASSUME NEW these, NEW ends, Screen!AreEnds(these, ends)
  PROVE  /\ DOMAIN ends = 1..Len(ends) /\ Len(ends) \in Nat
         /\ \A i \in DOMAIN ends : {"run", "part", "real", "limit"} \subseteq DOMAIN ends[i] /\ ends[i].run \in DOMAIN these
<1>1. PICK S : S = [run : DOMAIN these, part : Nat, real : BOOLEAN, limit : Nat]
  OBVIOUS
<1>2. ends \in Seq(S)
  BY <1>1 DEF Screen!AreEnds
<1>3. \A i \in DOMAIN ends : ends[i] \in S
  BY <1>2
<1>4. QED
  BY <1>1, <1>2, <1>3

\* What the blanked run has in common with the run.
SameButBlank(b, this) ==
  /\ b.mode = this.mode /\ b.phase = this.phase /\ b.cancelled = this.cancelled /\ b.judged = this.judged
  /\ b.before = this.before /\ b.after = this.after
  /\ DOMAIN b.parts = DOMAIN this.parts
  /\ \A i \in DOMAIN this.parts :
       /\ b.parts[i].transport = this.parts[i].transport /\ b.parts[i].provider = this.parts[i].provider
       /\ b.parts[i].state = this.parts[i].state /\ b.parts[i].started = this.parts[i].started
       /\ b.parts[i].kind = this.parts[i].kind
       /\ Screen!PartsSettled(this) => b.parts[i].words = this.parts[i].words

\* Blanking leaves the rest.
LEMMA BlankedRun ==
  ASSUME NEW this, IsRun(this), Screen!Sealed(this)
  PROVE  SameButBlank(Screen!Blank(this), this)
<1> DEFINE parts == [i \in DOMAIN this.parts |-> Screen!BlankPart(this, this.parts[i])]
<1>1. Screen!Blank(this) = [this EXCEPT !.parts = parts]
  BY DEF Screen!Blank
<1>2. \A p : PartFields \subseteq DOMAIN p =>
        LET q == Screen!BlankPart(this, p) IN
        /\ q.transport = p.transport /\ q.provider = p.provider /\ q.state = p.state /\ q.started = p.started /\ q.kind = p.kind
        /\ Screen!PartsSettled(this) => q.words = p.words
  BY DEF PartFields, Screen!BlankPart
<1>3. Screen!Blank(this).parts = parts
  BY <1>1 DEF IsRun, RunFields
<1>4. /\ Screen!Blank(this).mode = this.mode /\ Screen!Blank(this).phase = this.phase /\ Screen!Blank(this).cancelled = this.cancelled
      /\ Screen!Blank(this).judged = this.judged /\ Screen!Blank(this).before = this.before /\ Screen!Blank(this).after = this.after
  BY <1>1 DEF IsRun, RunFields
<1>5. QED
  BY <1>2, <1>3, <1>4 DEF SameButBlank, IsRun

\* The calls about the answers are listed as before.
LEMMA SameListed ==
  ASSUME NEW this, NEW b, SameButBlank(b, this)
  PROVE  Screen!Listed(b) = Screen!Listed(this)
<1>1. Screen!Revealed(b) = Screen!Revealed(this) /\ Screen!Collected(b) = Screen!Collected(this)
          /\ Screen!Judgeable(b) = Screen!Judgeable(this) /\ b.after = this.after
  BY DEF SameButBlank, Screen!Revealed, Screen!Collected, Screen!Judgeable, Screen!General
<1>2. QED
  BY <1>1 DEF Screen!Listed

\* Whether all have ended is as before.
LEMMA SameSettled ==
  ASSUME NEW this, NEW b, SameButBlank(b, this)
  PROVE  Screen!PartsSettled(b) = Screen!PartsSettled(this)
BY DEF SameButBlank, Screen!PartsSettled, Screen!Done

\* So are the counts of calls.
LEMMA SameBudget ==
  ASSUME NEW this, NEW b, SameButBlank(b, this)
  PROVE  Screen!Budget(b) = Screen!Budget(this)
<1>1. \A i \in DOMAIN this.parts : /\ Screen!Called(b.parts[i]) = Screen!Called(this.parts[i])
          /\ b.parts[i].state = this.parts[i].state
                                  /\ b.parts[i].transport = this.parts[i].transport /\ b.parts[i].started = this.parts[i].started
  BY DEF SameButBlank, Screen!Called
<1>2. DOMAIN b.parts = DOMAIN this.parts
  BY DEF SameButBlank
<1>3. {i \in DOMAIN b.parts : Screen!Called(b.parts[i]) \/ b.parts[i].state = "running"} = {i \in DOMAIN this.parts : Screen!Called(this.parts[i]) \/ this.parts[i].state = "running"}
  BY <1>1, <1>2
<1>4. \A s : {i \in DOMAIN b.parts : Screen!Called(b.parts[i])
          /\ b.parts[i].state = s} = {i \in DOMAIN this.parts : Screen!Called(this.parts[i]) /\ this.parts[i].state = s}
  BY <1>1, <1>2
<1>5. {i \in DOMAIN b.parts : b.parts[i].transport = "cli"
          /\ ~b.parts[i].started} = {i \in DOMAIN this.parts : this.parts[i].transport = "cli" /\ ~this.parts[i].started}
  BY <1>1, <1>2
<1>6. QED
  BY <1>3, <1>4, <1>5 DEF Screen!Budget, Screen!Count

\* So is all that is told of the run itself.
LEMMA SameView ==
  ASSUME NEW this, Screen!Sealed(this), NEW b, SameButBlank(b, this)
  PROVE  Screen!RunView(b) = Screen!RunView(this)
<1>1. /\ ~Screen!Revealed(b) /\ ~Screen!Revealed(this) /\ ~Screen!General(b) /\ ~Screen!General(this)
          /\ ~Screen!Collected(b) /\ ~Screen!Collected(this)
      /\ b.phase = this.phase /\ b.cancelled = this.cancelled /\ b.before = this.before
  BY DEF Screen!Sealed, SameButBlank, Screen!Revealed, Screen!General, Screen!Collected
<1>2. ~Screen!AnswersShown(b) /\ ~Screen!AnswersShown(this) /\ ~Screen!Judgeable(b) /\ ~Screen!Judgeable(this)
          /\ ~Screen!Remembered(b) /\ ~Screen!Remembered(this)
  BY <1>1 DEF Screen!AnswersShown, Screen!Judgeable, Screen!Remembered, Screen!Sealed, Screen!Revealed, Screen!Collected,
     Screen!General
<1>3. \A i \in DOMAIN this.parts : Screen!ShownPart(b, b.parts[i]) = Screen!ShownPart(this, this.parts[i])
  <2>1. Screen!WordsShown(b) = Screen!PartsSettled(this) /\ Screen!WordsShown(this) = Screen!PartsSettled(this)
    <3>1. Screen!PartsSettled(b) = Screen!PartsSettled(this)
      BY SameSettled
    <3>2. Screen!PartsSettled(b) \in BOOLEAN /\ Screen!PartsSettled(this) \in BOOLEAN
      BY DEF Screen!PartsSettled
    <3>3. QED
      BY <1>2, <3>1, <3>2 DEF Screen!WordsShown
  <2>2. ASSUME NEW i \in DOMAIN this.parts PROVE Screen!Flags(b.parts[i]) = Screen!Flags(this.parts[i])
    BY DEF SameButBlank, Screen!Flags
  <2>3. ASSUME NEW i \in DOMAIN this.parts PROVE Screen!IfShown(Screen!WordsShown(b),
               b.parts[i].words) = Screen!IfShown(Screen!WordsShown(this), this.parts[i].words)
    BY <2>1 DEF SameButBlank, Screen!IfShown
  <2>4. QED
    BY <1>1, <1>2, <2>2, <2>3 DEF Screen!ShownPart, Screen!IfShown, SameButBlank
<1>4. [i \in DOMAIN b.parts |-> Screen!ShownPart(b, b.parts[i])] = [i \in DOMAIN this.parts |-> Screen!ShownPart(this, this.parts[i])]
  BY <1>3 DEF SameButBlank
<1>5. Screen!RunUsage(b) = Screen!RunUsage(this)
  BY <1>2 DEF Screen!RunUsage
<1>6. Screen!MemoryOf(b) = Screen!MemoryOf(this)
  BY <1>2 DEF Screen!MemoryOf
<1>7. Screen!Reports(b) = Screen!Reports(this)
  BY <1>1 DEF Screen!Reports, Screen!DraftReport, Screen!DecisionReport, Screen!RevisionReport
<1>8. Screen!Activity(b) = Screen!Activity(this)
  BY DEF Screen!Activity, SameButBlank
<1>9. QED
  BY <1>1, <1>2, <1>4, <1>5, <1>6, <1>7, <1>8, SameListed, SameBudget DEF Screen!RunView

\* Nor does a search find it.
LEMMA SameHits ==
  ASSUME NEW this, Screen!Sealed(this), NEW b, SameButBlank(b, this), NEW needle
  PROVE  Screen!RunHits(b, needle) = Screen!RunHits(this, needle)
<1>1. ~Screen!Judgeable(b) /\ ~Screen!Judgeable(this) /\ ~Screen!AnswersShown(b) /\ ~Screen!AnswersShown(this)
  BY DEF Screen!Sealed, SameButBlank, Screen!Revealed, Screen!General, Screen!Collected, Screen!Judgeable, Screen!AnswersShown
<1>2. \A i \in DOMAIN this.parts : Screen!ShownPart(b, b.parts[i]).draft = Screen!ShownPart(this, this.parts[i]).draft
  BY <1>1 DEF Screen!ShownPart, Screen!IfShown
<1>3. [i \in DOMAIN b.parts |-> IF Screen!ShownPart(b, b.parts[i]).draft = needle THEN <<[kind |-> "answer", ref |-> i]>> ELSE <<>>]
        = [i \in DOMAIN this.parts |-> IF Screen!ShownPart(this, this.parts[i]).draft = needle THEN <<[kind |-> "answer", ref |-> i]>> ELSE <<>>]
  BY <1>2 DEF SameButBlank
<1>4. Screen!Listed(b) = Screen!Listed(this)
  BY SameListed
<1>5. QED
  BY <1>1, <1>3, <1>4 DEF Screen!RunHits

\* The limit of the account is that of the same end.
LEMMA SameLimit ==
  ASSUME NEW these, Screen!AreRuns(these), NEW ends, Screen!AreEnds(these, ends),
         NEW bs, DOMAIN bs = DOMAIN these, \A r \in DOMAIN these : bs[r] = Screen!Blank(these[r]),
         NEW es, DOMAIN es = DOMAIN ends, \A i \in DOMAIN ends : es[i] = Screen!BlankEnd(these, ends[i])
  PROVE  Screen!AccountLimit(bs, es) = Screen!AccountLimit(these, ends)
<1>1. ASSUME NEW i \in DOMAIN ends
      PROVE  /\ Screen!TellsLimit(bs[es[i].run], es[i]) <=> Screen!TellsLimit(these[ends[i].run], ends[i])
             /\ Screen!TellsLimit(these[ends[i].run], ends[i]) => es[i] = ends[i]
  <2> DEFINE e == ends[i]
             this == these[e.run]
             b == bs[e.run]
  <2>1. IsRun(this) /\ b = Screen!Blank(this) /\ {"run", "part", "real", "limit"} \subseteq DOMAIN e
    BY RunsAre, EndsAre
  <2>2. Screen!PartsSettled(b) = Screen!PartsSettled(this) /\ Screen!Revealed(b) = Screen!Revealed(this)
    <3>1. CASE Screen!Sealed(this)
      <4>1. SameButBlank(b, this)
        BY <2>1, <3>1, BlankedRun
      <4>2. Screen!Revealed(b) = Screen!Revealed(this)
        BY <4>1 DEF SameButBlank, Screen!Revealed, Screen!General
      <4>3. QED
        BY <4>1, <4>2, SameSettled
    <3>2. CASE ~Screen!Sealed(this)
      BY <2>1, <3>2 DEF Screen!Blank
    <3>3. QED
      BY <3>1, <3>2
  <2>3. CASE Screen!Sealed(this) /\ ~Screen!PartsSettled(this) /\ e.part # 0
    <3>1. es[i] = [e EXCEPT !.limit = 0]
      BY <2>3 DEF Screen!BlankEnd
    <3>2. es[i].limit = 0
      BY <2>1, <3>1
    <3>3. ~Screen!TellsLimit(bs[es[i].run], es[i])
      BY <3>2 DEF Screen!TellsLimit
    <3>4. ~Screen!Revealed(this)
      BY <2>3 DEF Screen!Sealed, Screen!Revealed
    <3>5. ~Screen!TellsLimit(this, e)
      BY <2>3, <3>4 DEF Screen!TellsLimit
    <3>6. QED
      BY <3>3, <3>5
  <2>4. CASE ~(Screen!Sealed(this) /\ ~Screen!PartsSettled(this) /\ e.part # 0)
    <3>1. es[i] = e
      BY <2>4 DEF Screen!BlankEnd
    <3>2. Screen!TellsLimit(b, e) <=> Screen!TellsLimit(this, e)
      BY <2>2 DEF Screen!TellsLimit
    <3>3. QED
      BY <3>1, <3>2
  <2>5. QED
    BY <2>3, <2>4
<1>2. {i \in DOMAIN es : Screen!TellsLimit(bs[es[i].run], es[i])} = {i \in DOMAIN ends : Screen!TellsLimit(these[ends[i].run], ends[i])}
  BY <1>1
<1>3. PICK tells : tells = {i \in DOMAIN ends : Screen!TellsLimit(these[ends[i].run], ends[i])}
  OBVIOUS
<1>4. CASE tells = {}
  BY <1>2, <1>3, <1>4 DEF Screen!AccountLimit
<1>5. CASE tells # {}
  <2>1. Screen!Max(tells) \in tells
    <3>1. DOMAIN ends = 1..Len(ends) /\ Len(ends) \in Nat
      BY EndsAre
    <3>2. tells \subseteq 1..Len(ends)
      BY <1>3, <3>1
    <3>3. QED
      BY <1>5, <3>1, <3>2, MaxIsIn
  <2>2. es[Screen!Max(tells)] = ends[Screen!Max(tells)]
    BY <1>1, <1>3, <2>1
  <2>3. QED
    BY <1>2, <1>3, <1>5, <2>2 DEF Screen!AccountLimit
<1>6. QED
  BY <1>4, <1>5

\* So it is for each run.
LEMMA SameForAll ==
  ASSUME NEW these, Screen!AreRuns(these), NEW r \in DOMAIN these
  PROVE  /\ Screen!RunView(Screen!Blank(these[r])) = Screen!RunView(these[r])
            /\ Screen!RunUsage(Screen!Blank(these[r])) = Screen!RunUsage(these[r])
         /\ Screen!AnswersShown(Screen!Blank(these[r])) = Screen!AnswersShown(these[r])
         /\ \A needle : Screen!RunHits(Screen!Blank(these[r]), needle) = Screen!RunHits(these[r], needle)
<1>1. CASE Screen!Sealed(these[r])
  <2>1. SameButBlank(Screen!Blank(these[r]), these[r])
    BY <1>1, BlankedRun, RunsAre
  <2>2. Screen!AnswersShown(Screen!Blank(these[r])) = Screen!AnswersShown(these[r])
    BY <2>1 DEF SameButBlank, Screen!AnswersShown, Screen!Revealed, Screen!General
  <2>3. ~Screen!AnswersShown(these[r]) /\ ~Screen!AnswersShown(Screen!Blank(these[r]))
    BY <1>1, <2>2 DEF Screen!Sealed, Screen!AnswersShown, Screen!Revealed, Screen!General
  <2>4. Screen!RunUsage(Screen!Blank(these[r])) = Screen!RunUsage(these[r])
    BY <2>3 DEF Screen!RunUsage
  <2>5. QED
    BY <1>1, <2>1, <2>2, <2>4, SameView, SameHits
<1>2. CASE ~Screen!Sealed(these[r])
  BY <1>2 DEF Screen!Blank
<1>3. QED
  BY <1>1, <1>2

\* The tokens of the task are as before.
LEMMA SameTask ==
  ASSUME NEW these, Screen!AreRuns(these), NEW bs, bs = [r \in DOMAIN these |-> Screen!Blank(these[r])]
  PROVE  Screen!Combine(bs) = Screen!Combine(these)
<1>1. DOMAIN bs = DOMAIN these /\ \A r \in DOMAIN these : Screen!RunUsage(bs[r]) = Screen!RunUsage(these[r])
          /\ Screen!AnswersShown(bs[r]) = Screen!AnswersShown(these[r])
  BY SameForAll
<1>2. {r \in DOMAIN bs : ~Screen!AnswersShown(bs[r])} = {r \in DOMAIN these : ~Screen!AnswersShown(these[r])}
  BY <1>1
<1>3. QED
  BY <1>1, <1>2 DEF Screen!Combine

\* What is searched for is found as before.
LEMMA SameFound ==
  ASSUME NEW these, Screen!AreRuns(these), NEW bs, bs = [r \in DOMAIN these |-> Screen!Blank(these[r])], NEW needles
  PROVE  Screen!Found(bs, needles) = Screen!Found(these, needles)
<1>1. DOMAIN bs = DOMAIN these /\ \A r \in DOMAIN these : \A n : Screen!RunHits(bs[r], n) = Screen!RunHits(these[r], n)
  BY SameForAll
<1>2. ASSUME NEW n PROVE Screen!Search(bs, n, "any", 1) = Screen!Search(these, n, "any", 1)
  <2> DEFINE asked(h) == "any" \in {"any", h.kind}
  <2>1. \A r \in DOMAIN these : Screen!SelectSeq(Screen!RunHits(bs[r], n), asked) = Screen!SelectSeq(Screen!RunHits(these[r], n), asked)
    BY <1>1
  <2>2. QED
    BY <1>1, <2>1 DEF Screen!Search
<1>3. QED
  BY <1>1, <1>2 DEF Screen!Found

\* For any number of runs, participants, calls and ends, and whatever is searched for: all that can be asked for is what it
\* would be if the answers of the sealed runs, their measures and words were blank (public.view, search, usage, report, memory).
THEOREM SealedRunsTellNothing ==
  ASSUME NEW these, Screen!AreRuns(these), NEW ends, Screen!AreEnds(these, ends), NEW needles
  PROVE  Screen!View(these, ends, needles)
           = Screen!View([r \in DOMAIN these |-> Screen!Blank(these[r])], [i \in DOMAIN ends |-> Screen!BlankEnd(these, ends[i])], needles)
<1> DEFINE bs == [r \in DOMAIN these |-> Screen!Blank(these[r])]
           es == [i \in DOMAIN ends |-> Screen!BlankEnd(these, ends[i])]
<1>1. [r \in DOMAIN bs |-> Screen!RunView(bs[r])] = [r \in DOMAIN these |-> Screen!RunView(these[r])]
  BY SameForAll
<1>2. Screen!Combine(bs) = Screen!Combine(these) /\ Screen!Found(bs, needles) = Screen!Found(these, needles)
  BY SameTask, SameFound
<1>3. Screen!AccountLimit(bs, es) = Screen!AccountLimit(these, ends)
  <2>1. DOMAIN bs = DOMAIN these /\ \A r \in DOMAIN these : bs[r] = Screen!Blank(these[r])
    OBVIOUS
  <2>2. DOMAIN es = DOMAIN ends /\ \A i \in DOMAIN ends : es[i] = Screen!BlankEnd(these, ends[i])
    OBVIOUS
  <2> HIDE DEF bs, es
  <2>3. QED
    BY <2>1, <2>2, SameLimit
<1>4. QED
  BY <1>1, <1>2, <1>3 DEF Screen!View

-----------------------------------------------------------------------------
(* What the screen tells of an open run.                                     *)

\* The join of lists is the same operator in every module.
LEMMA SameJoin == ASSUME NEW seqs PROVE Screen!FlattenSeq(seqs) = FlattenSeq(seqs)
BY DEF Screen!FlattenSeq, FlattenSeq

\* The elements of a list that are in K, and no others.
Picked(list, K) == Screen!FlattenSeq([i \in DOMAIN list |-> IF list[i] \in K THEN <<list[i]>> ELSE <<>>])

LEMMA PickedAre ==
  ASSUME NEW T, NEW list \in Seq(T), NEW K
  PROVE  /\ Picked(list, K) \in Seq(T)
         /\ \A i \in DOMAIN list : list[i] \in K => \E n \in DOMAIN Picked(list, K) : Picked(list, K)[n] = list[i]
<1> DEFINE seqs == [i \in DOMAIN list |-> IF list[i] \in K THEN <<list[i]>> ELSE <<>>]
<1>1. PICK N \in Nat : N = Len(list) /\ DOMAIN list = 1..N
  OBVIOUS
<1>2. \A i \in 1..N : seqs[i] \in Seq(T)
  BY <1>1
<1>3. seqs \in Seq(Seq(T)) /\ Len(seqs) = N /\ DOMAIN seqs = 1..N
  <2>1. PICK Ts : Ts = Seq(T)
    OBVIOUS
  <2>2. seqs \in [1..N -> Ts]
    BY <1>1, <1>2, <2>1
  <2> HIDE DEF seqs
  <2>3. QED
    BY <2>1, <2>2
<1>4. Picked(list, K) = FlattenSeq(seqs)
  BY SameJoin DEF Picked
<1>5. ASSUME NEW i \in DOMAIN list, list[i] \in K
      PROVE  i \in 1..N /\ 1 \in 1..Len(seqs[i]) /\ seqs[i][1] = list[i]
  BY <1>1, <1>5
<1> HIDE DEF seqs
<1>6. FlattenSeq(seqs) \in Seq(T)
  BY <1>3, FlattenHasAll
<1>7. \A k \in 1..N : \A j \in 1..Len(seqs[k]) : \E n \in 1..Len(FlattenSeq(seqs)) : FlattenSeq(seqs)[n] = seqs[k][j]
  BY <1>3, FlattenHasAll
<1>8. DOMAIN FlattenSeq(seqs) = 1..Len(FlattenSeq(seqs))
  BY <1>6
<1>9. ASSUME NEW i \in DOMAIN list, list[i] \in K PROVE \E n \in DOMAIN FlattenSeq(seqs) : FlattenSeq(seqs)[n] = list[i]
  <2>1. i \in 1..N /\ 1 \in 1..Len(seqs[i]) /\ seqs[i][1] = list[i]
    BY <1>5, <1>9
  <2>2. \E n \in 1..Len(FlattenSeq(seqs)) : FlattenSeq(seqs)[n] = seqs[i][1]
    BY <1>7, <2>1
  <2>3. QED
    BY <1>8, <2>1, <2>2
<1>10. QED
  BY <1>4, <1>6, <1>9

\* The calls about the answers that are listed are calls.
LEMMA ListedAre ==
  ASSUME NEW this, this.after \in Seq(Screen!CallRow)
  PROVE  Screen!Listed(this) \in Seq(Screen!CallRow)
<1> DEFINE T == Screen!CallRow
           P(c) == IF c.about \in {"proposal", "synthesis"} THEN Screen!Revealed(this)
                   ELSE IF c.about = "collation" THEN Screen!Collected(this) ELSE Screen!Judgeable(this)
           K == {c \in T : P(c)}
           list == this.after
<1>1. \A i \in DOMAIN list : list[i] \in T
  OBVIOUS
<1>2. \A i \in DOMAIN list : (IF P(list[i]) THEN <<list[i]>> ELSE <<>>) = (IF list[i] \in K THEN <<list[i]>> ELSE <<>>)
  BY <1>1
<1>3. [i \in DOMAIN list |-> IF P(list[i]) THEN <<list[i]>> ELSE <<>>] = [i \in DOMAIN list |-> IF list[i] \in K THEN <<list[i]>> ELSE <<>>]
  BY <1>2
<1>4. Screen!Listed(this) = Screen!FlattenSeq([i \in DOMAIN list |-> IF P(list[i]) THEN <<list[i]>> ELSE <<>>])
  BY DEF Screen!Listed, Screen!Those
<1>5. Screen!Listed(this) = Picked(list, K)
  BY <1>3, <1>4 DEF Picked
<1> HIDE DEF K, T
<1>6. QED
  BY <1>5, PickedAre DEF T

\* What a search may find in a run.
Hit == [kind : {"answer", "review", "synthesis", "decision"}, ref : Nat]

OneHit(k, n) == [kind |-> k, ref |-> n]

\* A hit of any kind is one.
LEMMA OneHitIs == ASSUME NEW k \in {"answer", "review", "synthesis", "decision"}, NEW n \in Nat PROVE OneHit(k, n) \in Hit
BY DEF OneHit, Hit

\* What is found in a run, and that an answer which is shown is.
LEMMA HitsAre ==
  ASSUME NEW this, this.parts \in Seq(Screen!PartRow), this.after \in Seq(Screen!CallRow), NEW needle
  PROVE  /\ Screen!RunHits(this, needle) \in Seq(Hit)
         /\ (\E i \in DOMAIN this.parts : Screen!ShownPart(this, this.parts[i]).draft = needle)
              => \E n \in DOMAIN Screen!RunHits(this, needle) : Screen!RunHits(this, needle)[n].kind = "answer"
<1> DEFINE answers == [k \in DOMAIN this.parts |->
                         IF Screen!ShownPart(this, this.parts[k]).draft = needle THEN <<[kind |-> "answer", ref |-> k]>> ELSE <<>>]
           of(c) == IF c.about \in {"collation", "synthesis"} THEN "synthesis" ELSE "review"
           told == [k \in DOMAIN Screen!Listed(this) |->
                       IF Screen!Listed(this)[k].reply = needle THEN <<[kind |-> of(Screen!Listed(this)[k]), ref |-> k]>> ELSE <<>>]
           memo == IF Screen!Judgeable(this) /\ this.judged /\ needle = "memo" THEN <<[kind |-> "decision", ref |-> 0]>> ELSE <<>>
<1>1. Screen!RunHits(this, needle) = Screen!FlattenSeq(answers) \o Screen!FlattenSeq(told) \o memo
  BY DEF Screen!RunHits
<1>2. PICK N \in Nat : N = Len(this.parts) /\ DOMAIN this.parts = 1..N
  OBVIOUS
<1>3. PICK M \in Nat : M = Len(Screen!Listed(this)) /\ DOMAIN Screen!Listed(this) = 1..M
  BY ListedAre
<1>4. PICK Hits : Hits = Seq(Hit)
  OBVIOUS
<1>0. /\ <<>> \in Hits
      /\ \A h \in Hit : <<h>> \in Hits
  <2>1. \A h \in Hit : <<h>> \in Seq(Hit)
    OBVIOUS
  <2>2. QED
    BY <1>4, <2>1
<1>5. ASSUME NEW k \in 1..N PROVE answers[k] \in Hits
  <2>1. k \in Nat
    BY <1>2
  <2>2. PICK h \in Hit : h = OneHit("answer", k)
    BY <2>1, OneHitIs
  <2>3. answers[k] = <<h>> \/ answers[k] = <<>>
    BY <1>2, <2>2 DEF OneHit
  <2>4. QED
    BY <1>0, <2>3
<1>6. ASSUME NEW k \in 1..M PROVE told[k] \in Hits
  <2>1. PICK c : c = Screen!Listed(this)[k]
    OBVIOUS
  <2>2. k \in Nat
    BY <1>3
  <2>3. PICK h \in Hit : h = OneHit(of(c), k)
    BY <2>2, OneHitIs
  <2>4. told[k] = <<h>> \/ told[k] = <<>>
    <3>1. told[k] = IF c.reply = needle THEN <<[kind |-> of(c), ref |-> k]>> ELSE <<>>
      BY <1>3, <2>1
    <3>2. QED
      BY <2>3, <3>1 DEF OneHit
  <2>5. QED
    BY <1>0, <2>4
<1>7. memo \in Hits
  <2>1. PICK h \in Hit : h = OneHit("decision", 0)
    BY OneHitIs
  <2>2. memo = <<h>> \/ memo = <<>>
    BY <2>1 DEF OneHit
  <2>3. QED
    BY <1>0, <2>2
<1>8. answers \in [1..N -> Hits] /\ told \in [1..M -> Hits]
  BY <1>2, <1>3, <1>5, <1>6
<1>9. \A i \in DOMAIN this.parts : Screen!ShownPart(this, this.parts[i]).draft = needle =>
        1 \in 1..Len(answers[i]) /\ answers[i][1].kind = "answer" /\ i \in 1..N
  BY <1>2
<1> HIDE DEF answers, told, memo
<1>10. answers \in Seq(Seq(Hit)) /\ Len(answers) = N /\ told \in Seq(Seq(Hit))
  BY <1>4, <1>8
<1>11. PICK a \in Seq(Hit), c \in Seq(Hit), d \in Seq(Hit) :
         a = Screen!FlattenSeq(answers) /\ c = Screen!FlattenSeq(told) /\ d = memo
  BY <1>4, <1>7, <1>10, SameJoin, FlattenHasAll
<1>12. a \o c \o d \in Seq(Hit)
  OBVIOUS
<1>13. ASSUME NEW i \in DOMAIN this.parts, Screen!ShownPart(this, this.parts[i]).draft = needle
       PROVE  \E n \in DOMAIN (a \o c \o d) : (a \o c \o d)[n].kind = "answer"
  <2>1. PICK n \in 1..Len(a) : a[n] = answers[i][1]
    <3>1. \A k \in 1..Len(answers) : \A j \in 1..Len(answers[k]) : \E n \in 1..Len(FlattenSeq(answers)) : FlattenSeq(answers)[n] = answers[k][j]
      BY <1>10, FlattenHasAll
    <3>2. a = FlattenSeq(answers)
      BY <1>11, SameJoin
    <3>3. i \in 1..Len(answers) /\ 1 \in 1..Len(answers[i])
      BY <1>9, <1>10, <1>13
    <3>4. QED
      BY <3>1, <3>2, <3>3
  <2>2. n \in DOMAIN (a \o c \o d) /\ (a \o c \o d)[n] = a[n]
    OBVIOUS
  <2>3. QED
    BY <1>9, <1>13, <2>1, <2>2
<1>14. QED
  BY <1>1, <1>11, <1>12, <1>13

(***************************************************************************)
(* An open run tells all of it, for any runs: its accepted answers are shown,  *)
(* found and remembered (the second part of SealedTellsNothing; public.view,   *)
(* search, memory).                                                         *)
(***************************************************************************)
THEOREM OpenRunsTellAll ==
  ASSUME NEW these, Screen!AreRuns(these), NEW r \in DOMAIN these, ~Screen!Sealed(these[r]),
         NEW i \in DOMAIN these[r].parts, these[r].parts[i].state = "accepted"
  PROVE  LET answer == these[r].parts[i].answer IN
         /\ Screen!ShownPart(these[r], these[r].parts[i]).draft = answer
         /\ Screen!Search(these, answer, "answer", 1).total > 0
         /\ Screen!Remembered(these[r]) => \E k \in DOMAIN Screen!MemoryOf(these[r]) : Screen!MemoryOf(these[r])[k] = answer
<1> DEFINE this == these[r]
           seat == this.parts[i]
           answer == seat.answer
<1>1. these \in Seq(Screen!RunRow) /\ (this.mode = "isolated" => this.phase # "collected")
  BY DEF Screen!AreRuns
<1>2. \A q \in DOMAIN these : these[q] \in Screen!RunRow
  BY <1>1
<1>3. \A x \in Screen!RunRow : /\ x.parts \in Seq(Screen!PartRow) /\ x.after \in Seq(Screen!CallRow)
                               /\ x.mode \in {"isolated", "general"} /\ x.phase \in {"drafting", "revealed", "collected"}
  BY DEF Screen!RunRow
<1>4. Screen!AnswersShown(this)
  BY <1>1, <1>2, <1>3 DEF Screen!Sealed, Screen!AnswersShown, Screen!Revealed, Screen!General
<1>5. Screen!ShownPart(this, seat).draft = answer
  BY <1>4 DEF Screen!ShownPart, Screen!IfShown
<1>6. Screen!Search(these, answer, "answer", 1).total > 0
  <2> DEFINE hits(q) == Screen!RunHits(these[q], answer)
             K == {h \in Hit : "answer" \in {"any", h.kind}}
             found(q) == Picked(hits(q), K)
             told(q) == [n \in DOMAIN found(q) |-> [run |-> q, kind |-> found(q)[n].kind, ref |-> found(q)[n].ref]]
             Told == [run : Nat, kind : {"answer", "review", "synthesis", "decision"}, ref : Nat]
             all == [q \in DOMAIN these |-> told(q)]
  <2>1. PICK R \in Nat : R = Len(these) /\ DOMAIN these = 1..R
    BY <1>1
  <2>2. ASSUME NEW q \in 1..R PROVE hits(q) \in Seq(Hit)
    BY <1>2, <1>3, <2>1, HitsAre
  <2>3. ASSUME NEW q \in 1..R PROVE found(q) \in Seq(Hit)
    BY <2>2, PickedAre
  <2>4. ASSUME NEW q \in 1..R PROVE told(q) \in Seq(Told) /\ DOMAIN told(q) = DOMAIN found(q)
    <3>1. PICK f \in Seq(Hit) : f = found(q)
      BY <2>3
    <3>2. PICK n \in Nat : n = Len(f) /\ DOMAIN f = 1..n
      OBVIOUS
    <3>3. \A k \in 1..n : [run |-> q, kind |-> f[k].kind, ref |-> f[k].ref] \in Told
      <4>1. \A k \in 1..n : f[k] \in Hit
        BY <3>2
      <4>2. QED
        BY <4>1 DEF Hit
    <3>4. told(q) = [k \in 1..n |-> [run |-> q, kind |-> f[k].kind, ref |-> f[k].ref]]
      BY <3>1, <3>2
    <3> HIDE DEF Told, told, found
    <3>5. QED
      BY <3>1, <3>2, <3>3, <3>4
  <2>5. Screen!Search(these, answer, "answer", 1).total = Len(Screen!FlattenSeq(all))
    <3>1. ASSUME NEW q \in 1..R
          PROVE  Screen!Those(hits(q), LAMBDA h : "answer" \in {"any", h.kind}) = found(q)
      <4>1. PICK l \in Seq(Hit) : l = hits(q)
        BY <2>2
      <4>2. \A k \in DOMAIN l : l[k] \in Hit
        OBVIOUS
      <4>3. [k \in DOMAIN l |-> IF "answer" \in {"any", l[k].kind} THEN <<l[k]>> ELSE <<>>]
              = [k \in DOMAIN l |-> IF l[k] \in K THEN <<l[k]>> ELSE <<>>]
        BY <4>2
      <4>4. QED
        BY <4>1, <4>3 DEF Screen!Those, Picked
    <3> DEFINE those(q) == Screen!Those(Screen!RunHits(these[q], answer), LAMBDA h : "answer" \in {"any", h.kind})
               list == [q \in DOMAIN these |-> [n \in DOMAIN those(q) |-> [run |-> q, kind |-> those(q)[n].kind, ref |-> those(q)[n].ref]]]
    <3>2. list = all
      BY <2>1, <3>1
    <3>3. Screen!Search(these, answer, "answer", 1).total = Len(Screen!FlattenSeq(list))
      BY DEF Screen!Search
    <3> HIDE DEF list, all
    <3>4. QED
      BY <3>2, <3>3
  <2>6. all \in Seq(Seq(Told)) /\ Len(all) = R
    <3>1. PICK Tolds : Tolds = Seq(Told)
      OBVIOUS
    <3>2. all \in [1..R -> Tolds]
      BY <2>1, <2>4, <3>1
    <3> HIDE DEF all, Told
    <3>3. QED
      BY <3>1, <3>2
  <2>7. r \in 1..R /\ \E n \in 1..Len(told(r)) : TRUE
    <3>1. r \in 1..R
      BY <2>1
    <3>2. PICK n \in DOMAIN hits(r) : hits(r)[n].kind = "answer"
      <4>1. this.parts \in Seq(Screen!PartRow) /\ this.after \in Seq(Screen!CallRow)
        BY <1>2, <1>3
      <4>2. \E k \in DOMAIN this.parts : Screen!ShownPart(this, this.parts[k]).draft = answer
        BY <1>5
      <4> HIDE DEF answer
      <4>3. QED
        BY <4>1, <4>2, HitsAre
    <3>3. hits(r)[n] \in K
      <4>1. hits(r)[n] \in Hit
        BY <2>2, <3>1
      <4>2. QED
        BY <3>2, <4>1
    <3>4. DOMAIN found(r) # {}
      <4> HIDE DEF K
      <4>1. QED
        BY <2>2, <3>1, <3>3, PickedAre
    <3> HIDE DEF told, found, Told
    <3>5. DOMAIN told(r) = 1..Len(told(r))
      BY <2>4, <3>1
    <3>6. QED
      BY <2>4, <3>1, <3>4, <3>5
  <2>8. all[r] = told(r)
    BY <2>1, <2>7
  <2> HIDE DEF all, told, found, Told
  <2>9. \A j \in 1..Len(all[r]) : \E n \in 1..Len(FlattenSeq(all)) : FlattenSeq(all)[n] = all[r][j]
    BY <2>6, <2>7, FlattenHasAll
  <2>10. FlattenSeq(all) \in Seq(Told)
    BY <2>6, FlattenHasAll
  <2>11. Len(FlattenSeq(all)) > 0
    <3>1. PICK l \in Nat : l = Len(FlattenSeq(all))
      BY <2>10
    <3>2. PICK n \in 1..l : TRUE
      BY <2>7, <2>8, <2>9, <3>1
    <3>3. QED
      BY <3>1, <3>2
  <2>12. QED
    BY <2>5, <2>11, SameJoin
<1>7. Screen!Remembered(this) => \E k \in DOMAIN Screen!MemoryOf(this) : Screen!MemoryOf(this)[k] = answer
  <2> DEFINE T == Screen!PartRow
             K == {p \in T : p.state = "accepted"}
             list == this.parts
  <2>1. list \in Seq(T) /\ \A k \in DOMAIN list : list[k] \in T
    BY <1>2, <1>3
  <2>2. [k \in DOMAIN list |-> IF list[k].state = "accepted" THEN <<list[k]>> ELSE <<>>]
          = [k \in DOMAIN list |-> IF list[k] \in K THEN <<list[k]>> ELSE <<>>]
    BY <2>1
  <2>3. Screen!Accepted(this) = Screen!FlattenSeq([k \in DOMAIN list |-> IF list[k].state = "accepted" THEN <<list[k]>> ELSE <<>>])
    BY DEF Screen!Accepted, Screen!Those
  <2>4. Screen!Accepted(this) = Picked(list, K)
    BY <2>2, <2>3 DEF Picked
  <2>5. seat \in K
    BY <2>1
  <2>6. PICK n \in DOMAIN Screen!Accepted(this) : Screen!Accepted(this)[n] = seat
    <3> HIDE DEF K, T
    <3>1. QED
      BY <2>1, <2>4, <2>5, PickedAre
  <2>7. QED
    BY <2>6 DEF Screen!MemoryOf
<1>8. QED
  BY <1>5, <1>6, <1>7

-----------------------------------------------------------------------------
(* From a proposal to a run.                                                 *)

\* Approvals counts as FiniteSets does.
LEMMA CountOfCards == ASSUME NEW S PROVE Approval!Cardinality(S) = Cardinality(S)
BY DEF Cardinality, Approval!Cardinality

\* Cards of as many providers as there are cards: no two of one provider.
LEMMA OneOfEach ==
  ASSUME NEW Cards, NEW cards \in Seq(Cards), Approval!OneEach(cards), NEW i \in 1..Len(cards), NEW k \in 1..Len(cards),
         CardProvider[cards[i]] = CardProvider[cards[k]]
  PROVE  i = k
<1> DEFINE S == 1..Len(cards)
           T == {CardProvider[cards[x]] : x \in S}
           f == [x \in S |-> CardProvider[cards[x]]]
<1>1. IsFiniteSet(S) /\ Cardinality(S) = Len(cards)
  <2>1. PICK n \in Nat : n = Len(cards)
    OBVIOUS
  <2>2. IsFiniteSet(1..n) /\ Cardinality(1..n) = IF 1 > n THEN 0 ELSE n - 1 + 1
    <3>1. 1 \in Int /\ n \in Int
      BY <2>1
    <3>2. QED
      BY <3>1, FS_Interval, Zenon
  <2>3. (IF 1 > n THEN 0 ELSE n - 1 + 1) = n
    OBVIOUS
  <2>4. QED
    BY <2>1, <2>2, <2>3, Zenon
<1>2. f \in Surjection(S, T)
  BY DEF Surjection
<1>3. DOMAIN cards = S
  OBVIOUS
<1>4. Cardinality(T) = Cardinality(S)
  <2>1. Approval!Cardinality({CardProvider[cards[x]] : x \in DOMAIN cards}) = Len(cards)
    BY DEF Approval!OneEach
  <2>2. {CardProvider[cards[x]] : x \in DOMAIN cards} = T
    BY <1>3
  <2>3. Approval!Cardinality(T) = Len(cards)
    BY <2>1, <2>2, Zenon
  <2>4. QED
    BY <1>1, <2>3, CountOfCards, Zenon
<1>5. f \in Injection(S, T)
  BY <1>1, <1>2, <1>4, FS_Surjection, Zenon
<1>6. f[i] = f[k]
  OBVIOUS
<1>7. \A x, y \in S : f[x] = f[y] => x = y
  <2>1. DOMAIN f = S
    OBVIOUS
  <2> HIDE DEF f
  <2>2. QED
    BY <1>5, <2>1 DEF Injection, IsInjective
<1>8. QED
  BY <1>6, <1>7

Boards(Cards) ==
  [mode : {"original", "refine"}, supervisor : Seq(Cards), orchestrator : Seq(Cards), isolated : Seq(Cards), general : Seq(Cards)]

(* A board that freezes, of any cards: among those who answer no two are of one  *)
(* provider, in an isolated run the one who puts the answers together is of      *)
(* another, and the board freezes without the refined question too (roles.      *)
(* freeze 12-55, _freeze_general 58-73).                                     *)
THEOREM BoardsAreFair ==
  ASSUME NEW Cards, NEW board \in Boards(Cards), NEW participants \in Seq(Cards)
  PROVE  Approval!BoardIsFair(board, participants)
<1>1. SUFFICES ASSUME Approval!Freezes(board, participants)
      PROVE  /\ \A c, d \in Approval!Range(participants) : CardProvider[c] = CardProvider[d] => c = d
             /\ board.general = <<>> => \A c \in Approval!Range(participants), d \in Approval!Range(board.orchestrator) : CardProvider[c] # CardProvider[d]
             /\ Approval!Freezes([board EXCEPT !.mode = "original"], participants)
  BY DEF Approval!BoardIsFair
<1>2. board.isolated \in Seq(Cards) /\ board.orchestrator \in Seq(Cards)
  BY DEF Boards
<1>3. PICK all \in Seq(Cards) : all = board.isolated \o board.orchestrator
  BY <1>2, ConcatProperties
<1>4. CASE board.general # <<>>
  <2>1. Approval!OneEach(participants)
    BY <1>1, <1>4 DEF Approval!Freezes, Approval!FreezesGeneral
  <2>2. \A c, d \in Approval!Range(participants) : CardProvider[c] = CardProvider[d] => c = d
    <3> SUFFICES ASSUME NEW i \in DOMAIN participants, NEW k \in DOMAIN participants,
                        CardProvider[participants[i]] = CardProvider[participants[k]]
                 PROVE  participants[i] = participants[k]
      BY DEF Approval!Range
    <3>1. i = k
      BY <2>1, OneOfEach
    <3>2. QED
      BY <3>1
  <2>3. QED
    BY <1>1, <1>4, <2>2 DEF Approval!Freezes, Approval!FreezesGeneral, Boards, Approval!Slot
<1>5. CASE board.general = <<>>
  <2>1. board.isolated = participants /\ Approval!OneEach(all)
    BY <1>1, <1>3, <1>5 DEF Approval!Freezes
  <2>2. /\ Len(all) = Len(participants) + Len(board.orchestrator)
        /\ \A i \in 1..Len(participants) : all[i] = participants[i]
        /\ \A i \in 1..Len(board.orchestrator) : all[Len(participants) + i] = board.orchestrator[i]
    BY <1>2, <1>3, <2>1
  <2>3. \A c, d \in Approval!Range(participants) : CardProvider[c] = CardProvider[d] => c = d
    <3> SUFFICES ASSUME NEW i \in 1..Len(participants), NEW k \in 1..Len(participants),
                        CardProvider[participants[i]] = CardProvider[participants[k]]
                 PROVE  participants[i] = participants[k]
      <4>1. Approval!Range(participants) = {participants[x] : x \in 1..Len(participants)}
        BY DEF Approval!Range
      <4>2. QED
        BY <4>1
    <3>1. i \in 1..Len(all) /\ k \in 1..Len(all) /\ CardProvider[all[i]] = CardProvider[all[k]]
      BY <1>2, <2>2
    <3>2. i = k
      BY <2>1, <3>1, OneOfEach
    <3>3. QED
      BY <3>2
  <2>4. \A c \in Approval!Range(participants), d \in Approval!Range(board.orchestrator) : CardProvider[c] # CardProvider[d]
    <3> SUFFICES ASSUME NEW i \in 1..Len(participants), NEW k \in 1..Len(board.orchestrator),
                        CardProvider[participants[i]] = CardProvider[board.orchestrator[k]]
                 PROVE  FALSE
      <4>1. DOMAIN participants = 1..Len(participants) /\ DOMAIN board.orchestrator = 1..Len(board.orchestrator)
        BY <1>2
      <4>2. QED
        BY <4>1, Zenon DEF Approval!Range
    <3> DEFINE n == Len(participants) + k
    <3>1. i \in 1..Len(all) /\ n \in 1..Len(all) /\ i # n
      BY <1>2, <2>2
    <3>2. CardProvider[all[i]] = CardProvider[all[n]]
      BY <2>2
    <3> HIDE DEF n
    <3>3. QED
      BY <2>1, <3>1, <3>2, OneOfEach
  <2>5. QED
    BY <1>1, <1>5, <2>3, <2>4 DEF Approval!Freezes, Approval!FreezesGeneral, Boards, Approval!Slot
<1>6. QED
  BY <1>4, <1>5

\* Texts of the same parts are the same.
LEMMA SameText ==
  ASSUME NEW s \in Approval!Text, NEW t \in Approval!Text, s.is = t.is, s.length = t.length, s.edge = t.edge, s.clean = t.clean
  PROVE  s = t
BY DEF Approval!Text

\* What is left of a text without the blanks at its edges.
LEMMA Stripped ==
  ASSUME NEW text \in Approval!Text
  PROVE  /\ Approval!Strip(text) \in Approval!Text /\ ~Approval!Strip(text).edge
         /\ Approval!Strip(text).is = text.is /\ Approval!Strip(text).length = text.length /\ Approval!Strip(text).clean = text.clean
BY DEF Approval!Text, Approval!Strip

\* A text that was accepted goes through as it is, or with blanks at its edges, and no longer one does.
LEMMA TextsGoThrough ==
  ASSUME NEW text \in Approval!Text, Approval!Fits(text, MaxTask), NEW q, q = Approval!Strip(text)
  PROVE  /\ Approval!SentAs(q, q) /\ Approval!SentAs([q EXCEPT !.edge = TRUE], q)
         /\ ~Approval!SentAs([q EXCEPT !.length = @ + 1], q)
<1>1. q \in Approval!Text /\ ~q.edge /\ q.is = "value" /\ q.length > 0 /\ q.clean
  BY Stripped DEF Approval!Fits
<1>2. Approval!Strip(q) = q
  BY <1>1, Stripped, SameText DEF Approval!Text
<1>3. PICK b : b = [q EXCEPT !.edge = TRUE]
  OBVIOUS
<1>4. b \in Approval!Text /\ b.is = q.is /\ b.length = q.length /\ b.clean = q.clean
  BY <1>1, <1>3 DEF Approval!Text
<1>5. Approval!Strip(b) = q
  <2>1. /\ Approval!Strip(b) \in Approval!Text /\ ~Approval!Strip(b).edge
        /\ Approval!Strip(b).is = q.is /\ Approval!Strip(b).length = q.length /\ Approval!Strip(b).clean = q.clean
    BY <1>4, Stripped
  <2>2. Approval!Strip(b).edge = q.edge
    BY <1>1, <2>1 DEF Approval!Text
  <2>3. QED
    BY <1>1, <2>1, <2>2, SameText
<1>6. PICK l : l = [q EXCEPT !.length = q.length + 1]
  OBVIOUS
<1>7. l \in Approval!Text /\ l.length = q.length + 1
  BY <1>1, <1>6 DEF Approval!Text
<1>8. Approval!Strip(l) # q
  <2>1. Approval!Strip(l).length = q.length + 1 /\ q.length \in Nat
    BY <1>1, <1>7, Stripped DEF Approval!Text
  <2>2. QED
    BY <2>1
<1>9. Approval!SentAs(q, q) /\ Approval!SentAs(b, q)
  BY <1>1, <1>2, <1>4, <1>5 DEF Approval!SentAs
<1>10. QED
  BY <1>3, <1>6, <1>8, <1>9 DEF Approval!SentAs

(* A question that was accepted, of any text: it can be sent as it is or with     *)
(* blanks at its edges and in no longer form, and there is one exactly if one    *)
(* was asked for (next_step.check 51-73, refine.check 57-71, prepare_run 107-111).  *)
THEOREM QuestionsCanBeSent ==
  ASSUME NEW reply, reply.question \in Approval!Text
  PROVE  Approval!QuestionCanBeSent(reply)
<1>1. ASSUME NEW q, q = Approval!Strip(reply.question), Approval!Fits(reply.question, MaxTask)
      PROVE  /\ Approval!SentAs(q, q) /\ Approval!SentAs([q EXCEPT !.edge = TRUE], q)
             /\ ~Approval!SentAs([q EXCEPT !.length = @ + 1], q)
  BY <1>1, TextsGoThrough
<1>2. ASSUME Approval!NextStep(reply).ok PROVE (reply.next = "again") = (Approval!NextStep(reply).questions # {})
  BY <1>2 DEF Approval!NextStep, Approval!Refused
<1>3. ASSUME Approval!NextStep(reply).ok, NEW q \in Approval!NextStep(reply).questions PROVE q = Approval!Strip(reply.question) /\ Approval!Fits(reply.question, MaxTask)
  BY <1>3 DEF Approval!NextStep, Approval!Refused
<1>4. ASSUME Approval!Refine(reply).ok, NEW q \in Approval!Refine(reply).questions PROVE q = Approval!Strip(reply.question) /\ Approval!Fits(reply.question, MaxTask)
  BY <1>4 DEF Approval!Refine, Approval!Refused
<1>5. ASSUME NEW q, q = Approval!Strip(reply.question), Approval!Fits(reply.question, MaxTask)
      PROVE  /\ Approval!SentAs(q, q) /\ Approval!SentAs([q EXCEPT !.edge = TRUE], q)
             /\ ~Approval!SentAs([q EXCEPT !.length = @ + 1], q)
  BY <1>1, <1>5
<1>6. QED
  BY <1>2, <1>3, <1>4, <1>5, Zenon DEF Approval!QuestionCanBeSent

\* What is sent takes every source along, and nothing else.
LEMMA ManifestCarries ==
  ASSUME NEW participants, NEW sent, NEW sources, Approval!Manifest(participants, sent, sources).ok
  PROVE  Approval!Carried(Approval!Manifest(participants, sent, sources).members) = Approval!Names(sources)
<1>1. /\ \A m \in DOMAIN sent : Approval!Range(sent[m].sources) \subseteq Approval!Names(sources)
      /\ Approval!Names(sources) \subseteq UNION {Approval!Range(sent[m].sources) : m \in DOMAIN sent}
      /\ Approval!Manifest(participants, sent, sources).members = Approval!Stored(sent)
  BY DEF Approval!Manifest, Approval!Chooses, Approval!Refused
<1>2. DOMAIN Approval!Stored(sent) = DOMAIN sent /\ \A m \in DOMAIN sent : Approval!Stored(sent)[m].sources = Approval!Range(sent[m].sources)
  BY DEF Approval!Stored
<1>3. QED
  BY <1>1, <1>2 DEF Approval!Carried

\* What is sent passes if it fits, member by member.
LEMMA ManifestPasses ==
  ASSUME NEW participants, NEW sent, NEW sources, Approval!SourcesFit(sources), DOMAIN sent = Approval!Range(participants),
         \A m \in DOMAIN sent : Approval!TaskFits(sent[m].task) /\ Approval!Chooses(sent[m].sources, Approval!Names(sources)),
         Approval!Names(sources) \subseteq UNION {Approval!Range(sent[m].sources) : m \in DOMAIN sent}
  PROVE  Approval!Manifest(participants, sent, sources).ok
BY DEF Approval!Manifest

AnyItem(Labels, Named) == [member : Labels, task : Approval!Text, sources : Seq(Named)]

Items(Labels, Named) == Seq(AnyItem(Labels, Named))

\* Turned round, a list has the same members, each once.
LEMMA TurnedRound ==
  ASSUME NEW Named, NEW s \in Seq(Named)
  PROVE  Approval!Range(Approval!Reverse(s)) = Approval!Range(s) /\ (Approval!IsInjective(s) => Approval!IsInjective(Approval!Reverse(s)))
<1>1. PICK n \in Nat : n = Len(s)
  OBVIOUS
<1>2. PICK r : r = Approval!Reverse(s)
  OBVIOUS
<1>3. DOMAIN r = 1..n /\ DOMAIN s = 1..n /\ \A i \in 1..n : r[i] = s[(n - i) + 1]
  BY <1>1, <1>2 DEF Approval!Reverse
<1>4. \A i \in 1..n : (n - i) + 1 \in 1..n /\ (n - ((n - i) + 1)) + 1 = i
  BY <1>1
<1>5. Approval!Range(r) = Approval!Range(s)
  <2>1. ASSUME NEW x \in Approval!Range(r) PROVE x \in Approval!Range(s)
    BY <1>3, <1>4 DEF Approval!Range
  <2>2. ASSUME NEW x \in Approval!Range(s) PROVE x \in Approval!Range(r)
    <3>1. PICK i \in 1..n : x = s[i]
      BY <1>3 DEF Approval!Range
    <3>2. r[(n - i) + 1] = s[i] /\ (n - i) + 1 \in 1..n
      <4>1. PICK k \in 1..n : k = (n - i) + 1 /\ (n - k) + 1 = i
        BY <1>4
      <4>2. r[k] = s[i]
        BY <1>3, <4>1
      <4>3. QED
        BY <4>1, <4>2
    <3>3. QED
      BY <1>3, <3>1, <3>2 DEF Approval!Range
  <2>3. QED
    BY <2>1, <2>2
<1>6. ASSUME Approval!IsInjective(s), NEW i \in 1..n, NEW k \in 1..n, r[i] = r[k] PROVE i = k
  <2>1. (n - i) + 1 = (n - k) + 1
    BY <1>3, <1>4, <1>6 DEF Approval!IsInjective
  <2>2. QED
    BY <2>1
<1>7. QED
  BY <1>2, <1>3, <1>5, <1>6 DEF Approval!IsInjective

\* Every member is given one of the assignments, and every assignment to a member.
LEMMA EveryMemberHasOne ==
  ASSUME NEW Cards, NEW members \in Seq(Cards), NEW Labels, NEW Named, NEW items \in Items(Labels, Named),
         Approval!OneEach(members), Len(items) = Len(members), \A i \in DOMAIN items : items[i].member \in DOMAIN members,
         \A i, k \in DOMAIN items : items[i].member = items[k].member => i = k
  PROVE  /\ \A m \in Approval!Range(members) : \E it \in Approval!Range(items) : members[it.member] = m
         /\ \A it, jt \in Approval!Range(items) : members[it.member] = members[jt.member] => it = jt
<1>1. PICK n \in Nat : n = Len(members)
  OBVIOUS
<1>2. DOMAIN items = 1..n /\ DOMAIN members = 1..n
  BY <1>1 DEF Items
<1>3. IsFiniteSet(1..n)
  <2>1. 1 \in Int /\ n \in Int
    OBVIOUS
  <2>2. QED
    BY <2>1, FS_Interval, Zenon
<1>4. PICK f : f = [i \in 1..n |-> items[i].member]
  OBVIOUS
<1>5. f \in Injection(1..n, 1..n)
  BY <1>2, <1>4 DEF Injection, IsInjective
<1>6. f \in Surjection(1..n, 1..n)
  BY <1>3, <1>5, FS_Injection, Zenon
<1>7. ASSUME NEW k \in 1..n PROVE \E i \in 1..n : items[i].member = k
  BY <1>4, <1>6 DEF Surjection
<1>8. ASSUME NEW m \in Approval!Range(members) PROVE \E it \in Approval!Range(items) : members[it.member] = m
  <2>1. PICK k \in 1..n : m = members[k]
    BY <1>2 DEF Approval!Range
  <2>2. PICK i \in 1..n : items[i].member = k
    BY <1>7
  <2>3. items[i] \in Approval!Range(items)
    BY <1>2 DEF Approval!Range
  <2>4. QED
    BY <2>1, <2>2, <2>3
<1>9. ASSUME NEW i \in 1..n, NEW k \in 1..n, members[items[i].member] = members[items[k].member] PROVE items[i] = items[k]
  <2>1. items[i].member = items[k].member
    BY <1>1, <1>2, <1>9, OneOfEach
  <2>2. QED
    BY <1>2, <2>1
<1>10. QED
  BY <1>2, <1>8, <1>9 DEF Approval!Range

\* What a person leaves of an assignment that was accepted.
LEMMA EditedFits ==
  ASSUME NEW Labels, NEW Named, NEW item \in AnyItem(Labels, Named),
         NEW names, Approval!Chooses(item.sources, names), Approval!Fits(item.task, MaxTask), Approval!ApprovalRules,
         NEW edit \in {"none", "blanks", "order"}
  PROVE  /\ Approval!TaskFits(Approval!Edited(item, edit).task) /\ Approval!Chooses(Approval!Edited(item, edit).sources, names)
         /\ Approval!Range(Approval!Edited(item, edit).sources) = Approval!Range(item.sources)
         /\ Approval!Strip(Approval!Edited(item, edit).task) = Approval!Strip(item.task)
<1>1. item.task \in Approval!Text /\ item.sources \in Seq(Named) /\ MaxTask \in Nat
  BY DEF Approval!ApprovalRules, AnyItem
<1>2. Approval!TaskFits(item.task)
  BY <1>1 DEF Approval!Fits, Approval!TaskFits, Approval!Text
<1>3. PICK b : b = [item.task EXCEPT !.edge = TRUE]
  OBVIOUS
<1>4. b \in Approval!Text /\ b.is = item.task.is /\ b.length = item.task.length /\ b.clean = item.task.clean
  BY <1>1, <1>3 DEF Approval!Text
<1>5. Approval!TaskFits(b)
  BY <1>2, <1>4 DEF Approval!TaskFits
<1>6. Approval!Strip(b) = Approval!Strip(item.task)
  <2>1. /\ Approval!Strip(b) \in Approval!Text /\ Approval!Strip(b).is = b.is /\ Approval!Strip(b).length = b.length /\ Approval!Strip(b).clean = b.clean /\ ~Approval!Strip(b).edge
    BY <1>4, Stripped
  <2>2. /\ Approval!Strip(item.task) \in Approval!Text /\ Approval!Strip(item.task).is = item.task.is /\ Approval!Strip(item.task).length = item.task.length
        /\ Approval!Strip(item.task).clean = item.task.clean /\ ~Approval!Strip(item.task).edge
    BY <1>1, Stripped
  <2>3. Approval!Strip(b).edge = Approval!Strip(item.task).edge
    BY <2>1, <2>2 DEF Approval!Text
  <2>4. QED
    BY <1>4, <2>1, <2>2, <2>3, SameText
<1>7. CASE edit = "none"
  BY <1>2, <1>7 DEF Approval!Edited
<1>8. CASE edit = "blanks"
  <2>1. Approval!Edited(item, edit).task = b /\ Approval!Edited(item, edit).sources = item.sources
    BY <1>3, <1>8 DEF Approval!Edited
  <2>2. QED
    BY <1>5, <1>6, <2>1
<1>9. CASE edit = "order"
  <2>1. Approval!Edited(item, edit).task = item.task /\ Approval!Edited(item, edit).sources = Approval!Reverse(item.sources)
    BY <1>9 DEF Approval!Edited
  <2>2. Approval!Range(Approval!Reverse(item.sources)) = Approval!Range(item.sources) /\ Approval!IsInjective(Approval!Reverse(item.sources))
    BY <1>1, TurnedRound DEF Approval!Chooses
  <2>3. QED
    BY <1>2, <2>1, <2>2 DEF Approval!Chooses
<1>10. QED
  BY <1>7, <1>8, <1>9

\* One more word is a change.
LEMMA WordsAreChange ==
  ASSUME NEW item, item.task \in Approval!Text, Approval!Fits(item.task, MaxTask)
  PROVE  Approval!Strip(Approval!Edited(item, "words").task) # Approval!Strip(item.task)
<1>1. PICK l : l = [item.task EXCEPT !.length = item.task.length - 1]
  OBVIOUS
<1>2. item.task.length > 0 /\ item.task.length \in Nat
  BY DEF Approval!Fits, Approval!Text
<1>3. l \in Approval!Text /\ l.length = item.task.length - 1
  BY <1>1, <1>2 DEF Approval!Text
<1>4. Approval!Strip(l).length = item.task.length - 1 /\ Approval!Strip(item.task).length = item.task.length
  BY <1>3, Stripped
<1>5. Approval!Edited(item, "words").task = l
  BY <1>1 DEF Approval!Edited
<1>6. QED
  BY <1>2, <1>4, <1>5

\* Assignments that were accepted for these members.
AllFit(item, members, names, Labels, Named) ==
  /\ \A m \in members : /\ item[m] \in AnyItem(Labels, Named)
                        /\ Approval!Chooses(item[m].sources, names) /\ Approval!Fits(item[m].task, MaxTask)
  /\ names \subseteq UNION {Approval!Range(item[m].sources) : m \in members}

\* The assignments of a split that was accepted: one of each member, and no source with nobody.
LEMMA AcceptedSplit ==
  ASSUME NEW Cards, NEW members \in Seq(Cards), NEW Labels, NEW Named, NEW reply, reply.items \in Items(Labels, Named),
         NEW names, Approval!OneEach(members), Approval!Split(reply, members, names).ok,
         NEW item, item = Approval!ItemOf(members, reply.items)
  PROVE  /\ AllFit(item, Approval!Range(members), names, Labels, Named)
         /\ Approval!Split(reply, members, names).assignments = Approval!Stored(item)
<1>1. PICK items \in Items(Labels, Named) : items = reply.items
  OBVIOUS
<1>2. /\ names \subseteq UNION {Approval!Range(items[i].sources) : i \in DOMAIN items}
      /\ Len(items) = Len(members)
      /\ \A i \in DOMAIN items :
           /\ items[i].member \in DOMAIN members
           /\ Approval!Chooses(items[i].sources, names) /\ Approval!Fits(items[i].task, MaxTask)
      /\ \A i, k \in DOMAIN items : items[i].member = items[k].member => i = k
  BY <1>1 DEF Approval!Split, Approval!SplitOf, Approval!Refused
<1>3. Approval!Split(reply, members, names).assignments = Approval!Stored(item)
  BY DEF Approval!Split, Approval!SplitOf, Approval!Refused
<1>4. /\ \A m \in Approval!Range(members) : \E it \in Approval!Range(items) : members[it.member] = m
      /\ \A it, jt \in Approval!Range(items) : members[it.member] = members[jt.member] => it = jt
  <2>1. \A i \in DOMAIN items : items[i].member \in DOMAIN members
    BY <1>2
  <2>2. \A i, k \in DOMAIN items : items[i].member = items[k].member => i = k
    BY <1>2
  <2>3. Len(items) = Len(members)
    BY <1>2
  <2>4. QED
    BY <2>1, <2>2, <2>3, EveryMemberHasOne
<1>5. \A m \in Approval!Range(members) : item[m] = CHOOSE it \in Approval!Range(items) : members[it.member] = m
  BY <1>1 DEF Approval!ItemOf
<1>6. \A m \in Approval!Range(members) : item[m] \in Approval!Range(items) /\ members[item[m].member] = m
  BY <1>4, <1>5
<1>7. ASSUME NEW m \in Approval!Range(members)
      PROVE  item[m] \in AnyItem(Labels, Named) /\ Approval!Chooses(item[m].sources, names) /\ Approval!Fits(item[m].task, MaxTask)
  <2>1. PICK i \in DOMAIN items : item[m] = items[i]
    BY <1>6 DEF Approval!Range
  <2>2. items \in Seq(AnyItem(Labels, Named))
    BY Zenon DEF Items, AnyItem
  <2>3. items[i] \in AnyItem(Labels, Named)
    <3>1. PICK A : A = AnyItem(Labels, Named)
      OBVIOUS
    <3>2. items \in Seq(A)
      BY <2>2, <3>1
    <3>3. items[i] \in A
      BY <3>2
    <3>4. QED
      BY <3>1, <3>3
  <2>4. QED
    BY <1>2, <2>1, <2>3
<1>8. ASSUME NEW i \in DOMAIN items PROVE \E m \in Approval!Range(members) : item[m] = items[i]
  <2>1. PICK m : m = members[items[i].member]
    OBVIOUS
  <2>2. m \in Approval!Range(members) /\ items[i] \in Approval!Range(items)
    BY <1>2, <2>1 DEF Approval!Range
  <2>3. QED
    BY <1>4, <1>6, <2>1, <2>2
<1>9. ASSUME NEW x \in names PROVE \E m \in Approval!Range(members) : x \in Approval!Range(item[m].sources)
  BY <1>2, <1>8
<1>10. names \subseteq UNION {Approval!Range(item[m].sources) : m \in Approval!Range(members)}
  BY <1>9
<1>11. QED
  BY <1>3, <1>7, <1>10 DEF AllFit

\* What becomes of them when they are sent.
LEMMA EditsTold ==
  ASSUME Approval!ApprovalRules, NEW Labels, NEW Named, NEW members, NEW Files, NEW sources \in Seq(Files), Approval!SourcesFit(sources),
         Approval!Range(members) # {}, NEW item, DOMAIN item = Approval!Range(members),
         AllFit(item, Approval!Range(members), Approval!Names(sources), Labels, Named),
         NEW split, split.assignments = Approval!Stored(item),
         NEW edit \in Approval!Edit, NEW sent, sent = [m \in DOMAIN item |-> Approval!Edited(item[m], edit)]
  PROVE  Approval!EditIsTold(members, sources, split, sent, edit)
<1> DEFINE names == Approval!Names(sources)
           D == Approval!Range(members)
<1>9. /\ \A m \in D : /\ item[m] \in AnyItem(Labels, Named)
                      /\ Approval!Chooses(item[m].sources, names) /\ Approval!Fits(item[m].task, MaxTask)
      /\ names \subseteq UNION {Approval!Range(item[m].sources) : m \in D}
  BY DEF AllFit
<1>1. DOMAIN sent = D /\ \A m \in D : sent[m] = Approval!Edited(item[m], edit)
  OBVIOUS
<1>0. Approval!Manifest(members, sent, sources).ok => Approval!Carried(Approval!Manifest(members, sent, sources).members) = names
  BY ManifestCarries
<1>2. CASE edit \in {"none", "blanks", "order"}
  <2>1. \A m \in D : /\ Approval!TaskFits(sent[m].task) /\ Approval!Chooses(sent[m].sources, names)
                     /\ Approval!Range(sent[m].sources) = Approval!Range(item[m].sources)
                     /\ Approval!Strip(sent[m].task) = Approval!Strip(item[m].task)
    <3> SUFFICES ASSUME NEW m \in D
                 PROVE  /\ Approval!TaskFits(sent[m].task) /\ Approval!Chooses(sent[m].sources, names)
                        /\ Approval!Range(sent[m].sources) = Approval!Range(item[m].sources)
                        /\ Approval!Strip(sent[m].task) = Approval!Strip(item[m].task)
      OBVIOUS
    <3>1. PICK it : it = item[m]
      OBVIOUS
    <3>2. it \in AnyItem(Labels, Named) /\ Approval!Chooses(it.sources, names) /\ Approval!Fits(it.task, MaxTask)
      BY <1>9, <3>1
    <3>3. sent[m] = Approval!Edited(it, edit)
      BY <1>1, <3>1
    <3>4. /\ Approval!TaskFits(Approval!Edited(it, edit).task) /\ Approval!Chooses(Approval!Edited(it, edit).sources, names)
          /\ Approval!Range(Approval!Edited(it, edit).sources) = Approval!Range(it.sources)
          /\ Approval!Strip(Approval!Edited(it, edit).task) = Approval!Strip(it.task)
      <4>1. edit \in {"none", "blanks", "order"}
        BY <1>2
      <4>2. QED
        BY <3>2, <4>1, EditedFits
    <3>5. QED
      BY <3>1, <3>3, <3>4
  <2>2. names \subseteq UNION {Approval!Range(sent[m].sources) : m \in DOMAIN sent}
    BY <1>1, <1>9, <2>1
  <2>3. Approval!Manifest(members, sent, sources).ok
    BY <1>1, <2>1, <2>2, ManifestPasses
  <2>4. Approval!AsProposed(split, sent)
    BY <1>1, <2>1 DEF Approval!AsProposed, Approval!Stored
  <2>5. QED
    BY <1>2, <1>0, <2>3, <2>4 DEF Approval!EditIsTold
<1>3. CASE edit = "words"
  <2>1. PICK m \in D : TRUE
    OBVIOUS
  <2>2. Approval!Strip(sent[m].task) # Approval!Strip(item[m].task)
    <3>1. item[m].task \in Approval!Text /\ Approval!Fits(item[m].task, MaxTask)
      BY <1>9 DEF AnyItem
    <3>2. QED
      BY <1>1, <1>3, <3>1, WordsAreChange
  <2>3. Approval!Stored(sent) # Approval!Stored(item)
    <3>1. Approval!Stored(sent)[m].task = Approval!Strip(sent[m].task) /\ Approval!Stored(item)[m].task = Approval!Strip(item[m].task)
      BY <1>1 DEF Approval!Stored
    <3>2. QED
      BY <2>2, <3>1
  <2>4. ~Approval!AsProposed(split, sent)
    BY <2>3 DEF Approval!AsProposed
  <2>5. QED
    BY <1>3, <1>0, <2>4 DEF Approval!EditIsTold
<1>4. CASE edit = "fewer"
  <2>1. \A x \in D : sent[x].task = item[x].task /\ sent[x].sources = <<>>
    BY <1>1, <1>4 DEF Approval!Edited
  <2>2. Approval!Range(<<>>) = {}
    BY DEF Approval!Range
  <2>3. ASSUME sources = <<>> PROVE Approval!Manifest(members, sent, sources).ok
    <3>1. names = {}
      BY <2>3 DEF Approval!Names
    <3>2. ASSUME NEW x \in D PROVE Approval!TaskFits(item[x].task)
      <4>1. item[x].task \in Approval!Text /\ MaxTask \in Nat /\ Approval!Fits(item[x].task, MaxTask)
        BY <1>9 DEF AnyItem, Approval!ApprovalRules
      <4>2. QED
        BY <4>1 DEF Approval!Fits, Approval!TaskFits, Approval!Text
    <3>3. Approval!Chooses(<<>>, names)
      BY <2>2 DEF Approval!Chooses, Approval!IsInjective
    <3>4. \A x \in DOMAIN sent : Approval!TaskFits(sent[x].task) /\ Approval!Chooses(sent[x].sources, names)
      BY <1>1, <2>1, <3>2, <3>3
    <3>5. names \subseteq UNION {Approval!Range(sent[x].sources) : x \in DOMAIN sent}
      BY <3>1
    <3>6. QED
      BY <1>1, <3>4, <3>5, ManifestPasses
  <2>4. ASSUME sources # <<>> PROVE ~Approval!Manifest(members, sent, sources).ok
    <3>1. 1 \in DOMAIN sources
      BY <2>4
    <3>2. names # {}
      BY <3>1 DEF Approval!Names
    <3>3. UNION {Approval!Range(sent[x].sources) : x \in DOMAIN sent} = {}
      BY <1>1, <2>1, <2>2
    <3>4. QED
      BY <3>2, <3>3 DEF Approval!Manifest, Approval!Refused
  <2>5. Approval!Manifest(members, sent, sources).ok \in BOOLEAN
    BY DEF Approval!Manifest, Approval!Refused
  <2>6. QED
    BY <1>4, <2>3, <2>4, <1>0, <2>5 DEF Approval!EditIsTold
<1>5. QED
  BY <1>2, <1>3, <1>4 DEF Approval!Edit

(* A split that was accepted, of any members, assignments and sources: it can be  *)
(* sent as it is, blanks and the order of sources make no difference, any other  *)
(* change is told, and no source is left with nobody (split.check 45-69,         *)
(* InputBuilder._general_manifest 194-224, _approved_split 408-410).           *)
THEOREM SplitsCanBeSent ==
  ASSUME Approval!ApprovalRules, NEW Cards, NEW Files, NEW Labels, NEW Named, NEW request, NEW reply,
         request.members \in Seq(Cards), request.orchestrator \in Seq(Cards), request.sources \in Seq(Files),
         reply.items \in Items(Labels, Named)
  PROVE  Approval!SplitCanBeSent(request, reply)
<1>1. PICK members \in Seq(Cards), sources \in Seq(Files), orchestrator \in Seq(Cards), items \in Items(Labels, Named) :
        members = request.members /\ sources = request.sources /\ orchestrator = request.orchestrator /\ items = reply.items
  OBVIOUS
<1>2. PICK item, split, board :
        /\ item = Approval!ItemOf(members, items) /\ split = Approval!Split(reply, members, Approval!Names(sources))
        /\ board = [mode |-> "original", supervisor |-> <<>>, orchestrator |-> orchestrator, isolated |-> <<>>, general |-> members]
  OBVIOUS
<1>3. SUFFICES
        ASSUME members # <<>>, Approval!OneEach(members), Approval!Range(members) \subseteq CliCard,
               Len(orchestrator) = 1, Approval!Range(orchestrator) \subseteq CliCard, Approval!SourcesFit(sources), split.ok
        PROVE  /\ Approval!Freezes(board, members)
               /\ \A edit \in Approval!Edit : Approval!EditIsTold(members, sources, split, [m \in DOMAIN item |-> Approval!Edited(item[m], edit)], edit)
  BY <1>1, <1>2, Zenon DEF Approval!SplitCanBeSent
<1>4. Approval!Freezes(board, members)
  <2>1. CliCard \subseteq Card
    BY DEF Approval!ApprovalRules
  <2>2. Approval!Range(<<>>) = {}
    BY DEF Approval!Range
  <2>3. /\ board.mode = "original" /\ board.supervisor = <<>> /\ board.isolated = <<>>
        /\ board.orchestrator = orchestrator /\ board.general = members
    BY <1>2
  <2>4. Approval!FreezesGeneral(board, members)
    BY <1>3, <2>3 DEF Approval!FreezesGeneral
  <2>5. ASSUME NEW slot \in Approval!Slot PROVE Approval!Range(board[slot]) \subseteq Card
    <3>1. slot \in {"supervisor", "isolated"} \/ slot = "orchestrator" \/ slot = "general"
      BY DEF Approval!Slot
    <3>2. CASE slot \in {"supervisor", "isolated"}
      <4>1. board[slot] = <<>>
        BY <2>3, <3>2
      <4>2. QED
        BY <2>2, <4>1
    <3>3. CASE slot = "orchestrator"
      <4>1. board[slot] = orchestrator
        BY <2>3, <3>3
      <4>2. QED
        BY <1>3, <2>1, <4>1
    <3>4. CASE slot = "general"
      <4>1. board[slot] = members
        BY <2>3, <3>4
      <4>2. QED
        BY <1>3, <2>1, <4>1
    <3>5. QED
      BY <3>1, <3>2, <3>3, <3>4
  <2>6. Len(board.supervisor) <= 1 /\ Len(board.orchestrator) <= 1 /\ Approval!Range(board.supervisor) \subseteq CliCard
    <3>1. Len(<<>>) <= 1 /\ Approval!Range(<<>>) \subseteq CliCard
      BY <2>2
    <3>2. Len(orchestrator) <= 1
      BY <1>3
    <3>3. QED
      BY <2>3, <3>1, <3>2, Zenon
  <2>7. QED
    BY <1>3, <2>3, <2>4, <2>5, <2>6 DEF Approval!Freezes
<1>5. AllFit(item, Approval!Range(members), Approval!Names(sources), Labels, Named) /\ split.assignments = Approval!Stored(item)
  BY <1>1, <1>2, <1>3, AcceptedSplit
<1>6. Approval!Range(members) # {} /\ DOMAIN item = Approval!Range(members)
  <2>1. 1 \in DOMAIN members
    BY <1>3
  <2>2. QED
    BY <1>2, <2>1 DEF Approval!Range, Approval!ItemOf
<1>7. ASSUME NEW edit \in Approval!Edit, NEW sent, sent = [m \in DOMAIN item |-> Approval!Edited(item[m], edit)]
      PROVE  Approval!EditIsTold(members, sources, split, sent, edit)
  BY <1>3, <1>5, <1>6, <1>7, EditsTold
<1>8. QED
  BY <1>4, <1>7

-----------------------------------------------------------------------------
(* The parts together.                                                       *)

\* One part moves, and to the others nothing happens.
LEMMA PlansRun == WorkSpec => Spec
<1>1. WorkInit => Init
  BY DEF WorkInit
<1>2. [WorkNext]_workVars => [Next]_vars
  <2> SUFFICES ASSUME [WorkNext]_workVars PROVE [Next]_vars
    OBVIOUS
  <2>1. CASE PlanNext
    BY <2>1 DEF PlanNext
  <2>2. CASE SourceNext
    BY <2>2 DEF SourceNext, vars
  <2>3. CASE TemplateNext
    BY <2>3 DEF TemplateNext, vars
  <2>4. CASE VersionNext
    BY <2>4 DEF VersionNext, vars
  <2>5. CASE UNCHANGED workVars
    BY <2>5 DEF workVars, vars
  <2> QED
    BY <2>1, <2>2, <2>3, <2>4, <2>5 DEF WorkNext
<1> QED
  BY <1>1, <1>2, PTL DEF WorkSpec, Spec

LEMMA SourcesRun == WorkSpec => Input!Spec
<1>1. WorkInit => Input!Init
  BY DEF WorkInit
<1>2. [WorkNext]_workVars => [Input!Next]_(Input!vars)
  <2> SUFFICES ASSUME [WorkNext]_workVars PROVE [Input!Next]_(Input!vars)
    OBVIOUS
  <2>1. CASE PlanNext
    BY <2>1 DEF PlanNext, Input!vars, Input!rows, sourceVars
  <2>2. CASE SourceNext
    BY <2>2 DEF SourceNext
  <2>3. CASE TemplateNext
    BY <2>3 DEF TemplateNext, Input!vars, Input!rows, sourceVars
  <2>4. CASE VersionNext
    BY <2>4 DEF VersionNext, Input!vars, Input!rows, sourceVars
  <2>5. CASE UNCHANGED workVars
    BY <2>5 DEF workVars, Input!vars, Input!rows, sourceVars
  <2> QED
    BY <2>1, <2>2, <2>3, <2>4, <2>5 DEF WorkNext
<1> QED
  BY <1>1, <1>2, PTL DEF WorkSpec, Input!Spec

LEMMA TemplatesRun == WorkSpec => Kept!Spec
<1>1. WorkInit => Kept!Init
  BY DEF WorkInit
<1>2. [WorkNext]_workVars => [Kept!Next]_(Kept!vars)
  <2> SUFFICES ASSUME [WorkNext]_workVars PROVE [Kept!Next]_(Kept!vars)
    OBVIOUS
  <2>1. CASE PlanNext
    BY <2>1 DEF PlanNext, Kept!vars, templateVars
  <2>2. CASE SourceNext
    BY <2>2 DEF SourceNext, Kept!vars, templateVars
  <2>3. CASE TemplateNext
    BY <2>3 DEF TemplateNext
  <2>4. CASE VersionNext
    BY <2>4 DEF VersionNext, Kept!vars, templateVars
  <2>5. CASE UNCHANGED workVars
    BY <2>5 DEF workVars, Kept!vars, templateVars
  <2> QED
    BY <2>1, <2>2, <2>3, <2>4, <2>5 DEF WorkNext
<1> QED
  BY <1>1, <1>2, PTL DEF WorkSpec, Kept!Spec

LEMMA VersionsRun == WorkSpec => Round!Spec
<1>1. WorkInit => Round!Init
  BY DEF WorkInit
<1>2. [WorkNext]_workVars => [Round!Next]_(Round!vars)
  <2> SUFFICES ASSUME [WorkNext]_workVars PROVE [Round!Next]_(Round!vars)
    OBVIOUS
  <2>1. CASE PlanNext
    BY <2>1 DEF PlanNext, Round!vars, versionVars
  <2>2. CASE SourceNext
    BY <2>2 DEF SourceNext, Round!vars, versionVars
  <2>3. CASE TemplateNext
    BY <2>3 DEF TemplateNext, Round!vars, versionVars
  <2>4. CASE VersionNext
    BY <2>4 DEF VersionNext
  <2>5. CASE UNCHANGED workVars
    BY <2>5 DEF workVars, Round!vars, versionVars
  <2> QED
    BY <2>1, <2>2, <2>3, <2>4, <2>5 DEF WorkNext
<1> QED
  BY <1>1, <1>2, PTL DEF WorkSpec, Round!Spec

\* A part that computes something is given what Init chose for it.
LEMMA InputStays == WorkSpec => [](input \in Inputs)
<1>1. WorkInit => input \in Inputs
  BY DEF WorkInit
<1>2. input \in Inputs /\ [WorkNext]_workVars => (input \in Inputs)'
  <2> SUFFICES ASSUME input \in Inputs, [WorkNext]_workVars PROVE (input \in Inputs)'
    OBVIOUS
  <2>1. UNCHANGED <<part, input>>
    BY DEF WorkNext, PlanNext, SourceNext, TemplateNext, VersionNext, workVars
  <2> QED
    BY <2>1 DEF Inputs
<1> QED
  BY <1>1, <1>2, PTL DEF WorkSpec

\* A call is given the prompt and the files that were fixed when its run was created, and without another hand no attempt
\* is refused (inputs._checked_assignment, _snapshot).
THEOREM AttemptsStartAsFixed == WorkSpec => []StartsOnWhatWasFixed
<1>1. StartsOnWhatWasFixed <=> Input!StartsOnWhatWasFixed
  BY DEF StartsOnWhatWasFixed
<1>2. Input!Spec => []Input!StartsOnWhatWasFixed
  BY StartsAsFixed, WorkbenchAssumption
<1> QED
  BY <1>1, <1>2, SourcesRun, PTL

\* What is offered was saved by hand as it is offered; a template nobody has changed is refused only where the server lacks its
\* cards or models, or cannot confirm the answers it needs (templates.save, load, import_copy; inputs.prepare_run).
THEOREM TemplatesAreOfferedAsSaved == WorkSpec => []TemplatesAreKept
<1>1. TemplatesAreKept <=> Kept!TemplatesAreKept
  BY DEF TemplatesAreKept
<1>2. Kept!Spec => []Kept!TemplatesAreKept
  BY TemplatesStayKept, WorkbenchAssumption
<1> QED
  BY <1>1, <1>2, TemplatesRun, PTL

\* A version is collated with what is still open about it, and with nothing else (reviews._collation, _review_open,
\* _revision_open).
THEOREM CollationsKnowWhatIsOpen == WorkSpec => FindingsGoAlong
BY VersionsRun, FindingsStayAlong, WorkbenchAssumption DEF FindingsGoAlong

\* What the screen says of tasks and runs agrees, whatever a ledger holds (workflow.project_tasks, workflow.steps,
\* roles.task_projection, ledgers._unsettled).
THEOREM ProjectionsStayAgreed == WorkSpec => []ProjectionsAgree
<1>1. input \in Inputs => ProjectionsAgree
  <2> SUFFICES ASSUME input \in Inputs PROVE ProjectionsAgree
    OBVIOUS
  <2>1. ASSUME part = "graphs" PROVE FailsClosed(input.known, input.deps, input.complete)
    <3>1. IsFiniteSet(input.known) /\ IsFiniteSet(DOMAIN input.deps)
      BY <2>1, InputsAllowed DEF Inputs, GraphsAllowed
    <3> QED
      BY <3>1, FinishedFailsClosed
  <2>2. ASSUME part = "facts"
        PROVE  ReopensAsTold(input) /\ \A held \in {"none", "paused", "unsettled"} : ListAgreesWithSteps(input, held)
    <3>1. input \in PossibleFacts
      BY <2>2, InputsAllowed DEF Inputs
    <3> QED
      BY <3>1, ClosedLedgersToldTrue, ListStaysWithSteps
  <2> QED
    BY <2>1, <2>2 DEF ProjectionsAgree
<1> QED
  BY <1>1, InputStays, PTL

\* What was checked can be sent, and tells what was approved (roles.freeze, split.check, next_step.check, refine.check).
THEOREM WhatIsApprovedHolds == WorkSpec => []ApprovalsHold
<1>1. input \in Inputs => ApprovalsHold
  <2> SUFFICES ASSUME part = "approvals", input \in Proposal
               PROVE  CASE input.kind = "board" -> Approval!BoardIsFair(input.board, input.participants)
                        [] input.kind = "split" -> Approval!SplitCanBeSent(input.request, input.reply)
                        [] input.kind = "question" -> Approval!QuestionCanBeSent(input.reply)
    BY InputsAllowed DEF ApprovalsHold, Inputs
  <2>1. ASSUME input.kind = "board" PROVE Approval!BoardIsFair(input.board, input.participants)
    <3>1. input.board \in Boards(STRING) /\ input.participants \in Seq(STRING)
      BY <2>1 DEF Proposal, Approval!RoleBoard, Boards
    <3> QED
      BY <3>1, BoardsAreFair
  <2>2. ASSUME input.kind = "split" PROVE Approval!SplitCanBeSent(input.request, input.reply)
    <3>1. PICK request \in Approval!Request, reply \in [extra : BOOLEAN, items : Seq(Approval!Item)] :
            input.request = request /\ input.reply = reply
      BY <2>2 DEF Proposal
    <3>2. request.members \in Seq(STRING) /\ request.orchestrator \in Seq(STRING) /\ request.sources \in Seq(STRING \X STRING \X Nat)
      BY DEF Approval!Request
    <3>3. reply.items \in Items(Nat, STRING \X STRING)
      BY DEF Items, AnyItem, Approval!Item
    <3> QED
      BY <3>1, <3>2, <3>3, SplitsCanBeSent, WorkbenchAssumption
  <2>3. ASSUME input.kind = "question" PROVE Approval!QuestionCanBeSent(input.reply)
    <3>1. input.reply.question \in Approval!Text
      BY <2>3 DEF Proposal
    <3> QED
      BY <3>1, QuestionsCanBeSent
  <2>4. input.kind \in {"board", "split", "question"}
    BY DEF Proposal
  <2> QED
    BY <2>1, <2>2, <2>3, <2>4
<1> QED
  BY <1>1, InputStays, PTL

(***************************************************************************)
(* What can be asked for tells nothing of a sealed run and all of an open one, *)
(* for every ledger (SealIsKept; public.view, search, usage, report, memory). *)
(***************************************************************************)
THEOREM ScreensStaySealed == WorkSpec => []SealIsKept
<1>1. input \in Inputs => SealIsKept
  <2> SUFFICES ASSUME input \in Inputs, part = "sealed" PROVE Screen!SealedTellsNothing(input.runs, input.ends, input.needles)
    BY DEF SealIsKept
  <2>1. Screen!AreRuns(input.runs) /\ Screen!AreEnds(input.runs, input.ends)
    BY InputsAllowed DEF Inputs, ScreensAllowed
  <2>2. QED
    BY <2>1, SealedRunsTellNothing, OpenRunsTellAll DEF Screen!SealedTellsNothing
<1>2. QED
  BY <1>1, InputStays, PTL

=============================================================================
