-------------------------- MODULE CoordinatorProofs --------------------------
(***************************************************************************)
(* Theorems of the coordinator for every roster, cap and bound: its ledger,  *)
(* that it implements the blind barrier, and then, of its threads and        *)
(* processes, who is called, who may be alive, who has to settle what, and   *)
(* that the queue is not forgotten.  Those last relate rows of the ledger to  *)
(* threads and trees; what ties them together is the place an attempt has    *)
(* reached, from the start transaction of pump() to the end of its thread.   *)
(***************************************************************************)
EXTENDS CoordinatorBarrier, FiniteSetTheorems, TLAPS

PhaseSet == {"absent", "drafting", "revealed", "collected"}

-----------------------------------------------------------------------------
(* The gate.                                                                 *)

\* A look at the gate yields a phase, and moves only an accepting run.
LEMMA PhaseAfterType ==
  ASSUME NEW r \in Run, NEW st, NEW ph \in [Run -> PhaseSet], NEW can, NEW app
  PROVE  /\ PhaseAfter(r, st, ph, can, app) \in PhaseSet
         /\ PhaseAfter(r, st, ph, can, app) # ph[r] =>
              /\ Accepting(r, ph, can)
              /\ Settled(r, st)
              /\ PhaseAfter(r, st, ph, can, app) \in {"revealed", "collected"}
BY DEF PhaseAfter, CanReveal, CanCollect, PhaseSet

-----------------------------------------------------------------------------
(* Type correctness.                                                         *)

LEMMA InitTypeOK == Init => TypeOK
<1> SUFFICES ASSUME Init PROVE TypeOK
  OBVIOUS
<1>1. /\ phase \in [Run -> PhaseSet]
      /\ createdAt \in [Run -> Nat]
      /\ state \in [Part -> PartState]
  BY DEF Init, PhaseSet, PartState
<1>2. /\ attempt \in [Part -> Nat]
      /\ calls \in [Part -> Nat]
      /\ tree \in [Part -> {"none", "alive", "gone"}]
  BY DEF Init
<1>3. QED
  BY <1>1, <1>2 DEF Init, TypeOK, PhaseSet

\* Storing a verdict keeps the types, whether or not the row was still running.
LEMMA SettleType ==
  ASSUME TypeOK, NEW p \in Part, NEW n, NEW s \in {"accepted", "rejected", "unknown"},
         Settle(p, n, s) \/ Store(p, s)
  PROVE  state' \in [Part -> PartState] /\ drafts' \subseteq Part /\ phase' \in [Run -> PhaseSet]
<1>1. CASE UNCHANGED <<state, drafts, phase>>
  BY <1>1 DEF TypeOK, PhaseSet
<1>2. CASE Store(p, s)
  <2>1. state' \in [Part -> PartState]
    BY <1>2 DEF Store, TypeOK, PartState
  <2>2. PhaseAfter(RunOf[p], state', phase, cancelled, approved) \in PhaseSet
    BY PhaseAfterType, RosterAssumption DEF TypeOK, PhaseSet
  <2>3. QED
    BY <1>2, <2>1, <2>2 DEF Store, TypeOK, PhaseSet
<1>3. QED
  BY <1>1, <1>2 DEF Settle

LEMMA OutcomeVerdicts ==
  ASSUME NEW r, NEW o \in Outcome
  PROVE  /\ Verdict(r, o) \in {"accepted", "rejected", "unknown"}
         /\ Discarded(o) \in {"rejected", "unknown"}
         /\ Verdict(r, o) = "accepted" => Accepting(r, phase, cancelled)
BY DEF Outcome, Verdict, Discarded, Acceptance

LEMMA NotStartedVerdict ==
  ASSUME NEW r
  PROVE  Verdict(r, NotStarted) = "rejected"
BY DEF NotStarted, Verdict, Discarded, Acceptance

LEMMA ReturnType ==
  ASSUME TypeOK, NEW w \in workers, NEW o \in Outcome, Return(w, o)
  PROVE  workers' \subseteq Worker /\ tree' \in [Part -> {"none", "alive", "gone"}] /\ lingering' \in Nat
<1>1. w \in Worker /\ w.part \in Part
  BY DEF TypeOK, Worker
<1>2. workers' \subseteq Worker
  BY <1>1 DEF Return, TypeOK, Worker
<1>3. tree' \in [Part -> {"none", "alive", "gone"}]
  BY <1>1 DEF Return, TypeOK
<1>4. lingering' \in Nat
  <2>1. LingerPerCall \in Nat
    BY CoordinatorAssumption
  <2>2. QED
    BY <2>1 DEF Return, TypeOK
<1>5. QED
  BY <1>2, <1>3, <1>4

LEMMA StopType ==
  ASSUME TypeOK, NEW ws
  PROVE  Stop(ws) \subseteq Worker
<1>1. ASSUME NEW w \in workers PROVE [w EXCEPT !.cancel = TRUE] \in Worker
  BY DEF TypeOK, Worker
<1>2. QED
  BY <1>1 DEF Stop, TypeOK

LEMMA NextTypeOK == TypeOK /\ [Next]_vars => TypeOK'
<1> SUFFICES ASSUME TypeOK, [Next]_vars PROVE TypeOK'
  OBVIOUS
<1>1. CASE UNCHANGED vars
  BY <1>1 DEF vars, ledger, runtime, history, TypeOK
<1>2. CASE PumpEnter
  BY <1>2 DEF PumpEnter, EnterPump, Queue, LockFree, ledger, history, TypeOK
<1>3. CASE PumpFull
  BY <1>3 DEF PumpFull, ledger, history, TypeOK
<1>4. ASSUME NEW p \in Part, PumpTake(p) PROVE TypeOK'
  BY <1>4 DEF PumpTake, history, TypeOK, PartState, Reservation
<1>5. ASSUME NEW p \in Part, PumpLaunch(p) PROVE TypeOK'
  <2>1. [part |-> p, attempt |-> attempt[p], pc |-> "starting", cancel |-> FALSE] \in Worker
    BY DEF TypeOK, Worker
  <2>2. workers' \subseteq Worker
    BY <1>5, <2>1 DEF PumpLaunch, TypeOK
  <2>3. batch' \subseteq Part /\ taken' = "none"
    BY <1>5 DEF PumpLaunch, PumpDone, TypeOK
  <2>4. QED
    BY <1>5, <2>2, <2>3 DEF PumpLaunch, ledger, history, TypeOK
<1>6. ASSUME NEW p \in Part, PumpGiveUp(p) PROVE TypeOK'
  <2>1. Settle(p, attempt[p], "rejected")
    BY <1>6, NotStartedVerdict DEF PumpGiveUp
  <2>2. QED
    BY <1>6, <2>1, SettleType DEF PumpGiveUp, PumpDone, history, TypeOK, PhaseSet
<1>7. ASSUME NEW w \in workers, Spawn(w) PROVE TypeOK'
  BY <1>7 DEF Spawn, ledger, TypeOK, Worker
<1>8. ASSUME NEW w \in workers, Finish(w) PROVE TypeOK'
  <2>1. PICK o \in Outcome : /\ Return(w, o)
                             /\ \/ Settle(w.part, w.attempt, Verdict(RunOf[w.part], o))
                                \/ Settle(w.part, w.attempt, Discarded(o))
    BY <1>8 DEF Finish
  <2>2. w.part \in Part
    BY DEF TypeOK, Worker
  <2>3. state' \in [Part -> PartState] /\ drafts' \subseteq Part /\ phase' \in [Run -> PhaseSet]
    BY <2>1, <2>2, OutcomeVerdicts, SettleType
  <2>4. QED
    BY <1>8, <2>1, <2>3, ReturnType DEF Finish, TypeOK, PhaseSet
<1>9. ASSUME NEW w \in workers, FinishLost(w) PROVE TypeOK'
  BY <1>9, ReturnType DEF FinishLost, ledger, TypeOK
<1>10. ASSUME NEW w \in workers, WorkerExit(w) PROVE TypeOK'
  BY <1>10 DEF WorkerExit, EnterPump, Queue, ledger, history, TypeOK
<1>11. ASSUME NEW r \in Run, CreateRun(r) PROVE TypeOK'
  <2>1. Cardinality({s \in Run : phase[s] # "absent"}) \in Nat
    BY RosterAssumption, FS_Subset, FS_CardinalityType
  <2>2. QED
    BY <1>11, <2>1, RosterAssumption DEF CreateRun, Command, LockFree, history, TypeOK, PartState
<1>12. ASSUME NEW r \in Run, CancelRun(r) PROVE TypeOK'
  <2>1. workers' \subseteq Worker
    BY <1>12, StopType DEF CancelRun
  <2>2. state' \in [Part -> PartState]
    BY <1>12 DEF CancelRun, TypeOK, PartState
  <2>3. QED
    BY <1>12, <2>1, <2>2 DEF CancelRun, Command, history, TypeOK
<1>13. ASSUME NEW r \in Run, ApproveReduction(r) PROVE TypeOK'
  BY <1>13, PhaseAfterType DEF ApproveReduction, Command, history, TypeOK, PhaseSet
<1>14. ASSUME NEW p \in Part, SubmitManual(p) PROVE TypeOK'
  BY <1>14, SettleType DEF SubmitManual, Command, history, TypeOK, PhaseSet
<1>15. ASSUME NEW p \in Part, WithdrawManual(p) PROVE TypeOK'
  BY <1>15, SettleType DEF WithdrawManual, Command, history, TypeOK, PhaseSet
<1>16. ASSUME NEW p \in Part, AcknowledgeUnknown(p) PROVE TypeOK'
  BY <1>16, SettleType DEF AcknowledgeUnknown, Command, history, TypeOK, PhaseSet
<1>17. CASE Resume
  <2>1. owed' \in Nat
    BY <1>17 DEF Resume, Command, TypeOK
  <2>2. QED
    BY <1>17, <2>1 DEF Resume, ledger, TypeOK
<1>18. CASE Shutdown
  <2>1. workers' \subseteq Worker
    BY <1>18, StopType DEF Shutdown
  <2>2. QED
    BY <1>18, <2>1 DEF Shutdown, ledger, history, TypeOK
<1>19. CASE Crash
  BY <1>19 DEF Crash, ledger, history, TypeOK
<1>20. CASE Restart
  <2>1. state' \in [Part -> PartState]
    BY <1>20 DEF Restart, TypeOK, PartState
  <2>2. phase' \in [Run -> PhaseSet]
    BY <1>20, PhaseAfterType DEF Restart, TypeOK, PhaseSet
  <2>3. QED
    BY <1>20, <2>1, <2>2 DEF Restart, Queue, TypeOK, PhaseSet
<1>21. CASE LingerEnds
  BY <1>21 DEF LingerEnds, ledger, history, TypeOK
<1>22. ASSUME NEW p \in Part, TreeEnds(p) PROVE TypeOK'
  BY <1>22 DEF TreeEnds, ledger, runtime, TypeOK
<1>23. QED
  BY <1>1, <1>2, <1>3, <1>4, <1>5, <1>6, <1>7, <1>8, <1>9, <1>10, <1>11, <1>12, <1>13,
     <1>14, <1>15, <1>16, <1>17, <1>18, <1>19, <1>20, <1>21, <1>22
     DEF Next, PumpStep, WorkerStep, UserStep, WorldStep

\* The variables of the coordinator keep their types, in every step of every
\* handler (coordinator.py, work.py, controller.py).
THEOREM TypeCorrect == Spec => []TypeOK
<1>1. Init => TypeOK
  BY InitTypeOK
<1>2. TypeOK /\ [Next]_vars => TypeOK'
  BY NextTypeOK
<1>3. QED
  BY <1>1, <1>2, PTL DEF Spec

-----------------------------------------------------------------------------
(* The ledger.  Whether a run may open is decided by its own members and its *)
(* own columns only; the steps of the coordinator touch those in six ways.   *)

SameRuns == UNCHANGED <<phase, cancelled, approved, state, drafts>>

\* pump() moves an accepting run's participant from queued to running.
TakeStep(p) ==
  /\ Accepting(RunOf[p], phase, cancelled)
  /\ state[p] = "queued"
  /\ state' = [state EXCEPT ![p] = "running"]
  /\ UNCHANGED <<phase, cancelled, approved, drafts>>

\* A participant still undecided is decided or becomes unknown.
StoreStep(p, s) ==
  /\ state[p] \in {"running", "awaiting_user", "unknown"}
  /\ s = "accepted" => Accepting(RunOf[p], phase, cancelled)
  /\ Store(p, s)
  /\ UNCHANGED <<cancelled, approved>>

Decisions == {"accepted", "rejected", "unknown"}

LedgerStep ==
  \/ SameRuns
  \/ \E p \in Part : TakeStep(p)
  \/ \E p \in Part, s \in Decisions : StoreStep(p, s)
  \/ \E r \in Run : CreateRun(r) \/ CancelRun(r) \/ ApproveReduction(r)
  \/ Restart

\* A settling that is no accepted answer of a run that no longer takes any.
LEMMA SettleSteps ==
  ASSUME NEW p \in Part, NEW n, NEW s \in Decisions, Settle(p, n, s),
         s = "accepted" => Accepting(RunOf[p], phase, cancelled),
         UNCHANGED <<cancelled, approved>>
  PROVE  SameRuns \/ StoreStep(p, s)
BY DEF Settle, SameRuns, StoreStep

\* Every handler of the coordinator is one of the ledger steps.
LEMMA NextLedgerStep == TypeOK /\ [Next]_vars => LedgerStep
<1> SUFFICES ASSUME TypeOK, [Next]_vars PROVE LedgerStep
  OBVIOUS
<1>1. CASE UNCHANGED vars
  BY <1>1 DEF vars, ledger, LedgerStep, SameRuns
<1>2. CASE PumpEnter \/ PumpFull \/ Resume \/ Shutdown \/ Crash \/ LingerEnds
  BY <1>2 DEF PumpEnter, PumpFull, Resume, Shutdown, Crash, LingerEnds, ledger, LedgerStep, SameRuns
<1>3. ASSUME NEW p \in Part, PumpLaunch(p) \/ TreeEnds(p) PROVE LedgerStep
  BY <1>3 DEF PumpLaunch, TreeEnds, ledger, LedgerStep, SameRuns
<1>4. ASSUME NEW w \in workers, Spawn(w) \/ FinishLost(w) \/ WorkerExit(w) PROVE LedgerStep
  BY <1>4 DEF Spawn, FinishLost, WorkerExit, ledger, LedgerStep, SameRuns
<1>5. ASSUME NEW p \in Part, PumpTake(p) PROVE LedgerStep
  <2>1. TakeStep(p) \/ SameRuns
    BY <1>5 DEF PumpTake, TakeStep, SameRuns
  <2>2. QED
    BY <2>1 DEF LedgerStep
<1>6. ASSUME NEW p \in Part, PumpGiveUp(p) PROVE LedgerStep
  <2>1. Settle(p, attempt[p], "rejected") /\ UNCHANGED <<cancelled, approved>>
    BY <1>6, NotStartedVerdict DEF PumpGiveUp
  <2>2. SameRuns \/ StoreStep(p, "rejected")
    BY <2>1, SettleSteps DEF Decisions
  <2>3. QED
    BY <2>2 DEF LedgerStep, Decisions
<1>7. ASSUME NEW w \in workers, Finish(w) PROVE LedgerStep
  <2>1. w.part \in Part
    BY DEF TypeOK, Worker
  <2>2. PICK o \in Outcome : \/ Settle(w.part, w.attempt, Verdict(RunOf[w.part], o))
                             \/ Settle(w.part, w.attempt, Discarded(o))
    BY <1>7 DEF Finish
  <2>3. UNCHANGED <<cancelled, approved>>
    BY <1>7 DEF Finish
  <2>4. SameRuns \/ \E s \in Decisions : StoreStep(w.part, s)
    BY <2>1, <2>2, <2>3, OutcomeVerdicts, SettleSteps DEF Decisions
  <2>5. QED
    BY <2>1, <2>4 DEF LedgerStep
<1>8. ASSUME NEW p \in Part, SubmitManual(p) PROVE LedgerStep
  <2>1. StoreStep(p, "accepted")
    BY <1>8 DEF SubmitManual, StoreStep
  <2>2. QED
    BY <2>1 DEF LedgerStep, Decisions
<1>9. ASSUME NEW p \in Part, WithdrawManual(p) PROVE LedgerStep
  <2>1. StoreStep(p, "rejected")
    BY <1>9 DEF WithdrawManual, StoreStep
  <2>2. QED
    BY <2>1 DEF LedgerStep, Decisions
<1>10. ASSUME NEW p \in Part, AcknowledgeUnknown(p) PROVE LedgerStep
  <2>1. StoreStep(p, "rejected")
    BY <1>10 DEF AcknowledgeUnknown, StoreStep
  <2>2. QED
    BY <2>1 DEF LedgerStep, Decisions
<1>11. ASSUME NEW r \in Run, CreateRun(r) \/ CancelRun(r) \/ ApproveReduction(r) PROVE LedgerStep
  BY <1>11 DEF LedgerStep
<1>12. CASE Restart
  BY <1>12 DEF LedgerStep
<1>13. QED
  BY <1>1, <1>2, <1>3, <1>4, <1>5, <1>6, <1>7, <1>8, <1>9, <1>10, <1>11, <1>12
     DEF Next, PumpStep, WorkerStep, UserStep, WorldStep

\* Snapshots that agree on the members of r agree on everything the gate asks.
LEMMA GateLocal ==
  ASSUME NEW r \in Run, NEW st, NEW sn, \A p \in Members(r) : sn[p] = st[p]
  PROVE  /\ Settled(r, sn) <=> Settled(r, st)
         /\ Dropped(r, sn) = Dropped(r, st)
         /\ Counted(r, sn) = Counted(r, st)
         /\ QuorumMet(r, sn) <=> QuorumMet(r, st)
<1>1. /\ Settled(r, sn) <=> Settled(r, st)
      /\ Dropped(r, sn) = Dropped(r, st)
  BY DEF Settled, Dropped
<1>2. Counted(r, sn) = Counted(r, st)
  BY DEF Counted
<1>3. QED
  BY <1>1, <1>2 DEF QuorumMet

\* ... and the gate moves the run to the same phase.
LEMMA PhaseLocal ==
  ASSUME NEW r \in Run, NEW st, NEW sn, \A p \in Members(r) : sn[p] = st[p],
         NEW ph, NEW pn, pn[r] = ph[r], NEW can, NEW cn, r \in cn <=> r \in can,
         NEW app, NEW an, r \in an <=> r \in app
  PROVE  PhaseAfter(r, sn, pn, cn, an) = PhaseAfter(r, st, ph, can, app)
BY GateLocal DEF PhaseAfter, CanReveal, CanCollect, Accepting

\* Looking at the gate a second time changes nothing.
LEMMA PhaseStable ==
  ASSUME NEW r \in Run, NEW st, NEW ph, NEW pn, NEW can, NEW app,
         pn[r] = PhaseAfter(r, st, ph, can, app)
  PROVE  PhaseAfter(r, st, pn, can, app) = pn[r]
BY DEF PhaseAfter, CanReveal, CanCollect, Accepting

LEMMA NotAcceptingStays ==
  ASSUME NEW r \in Run, NEW st, NEW ph, NEW can, NEW app, ~Accepting(r, ph, can)
  PROVE  PhaseAfter(r, st, ph, can, app) = ph[r]
BY DEF PhaseAfter, CanReveal, CanCollect

LEMMA UnsettledStays ==
  ASSUME NEW r \in Run, NEW st, NEW ph, NEW can, NEW app, ~Settled(r, st)
  PROVE  PhaseAfter(r, st, ph, can, app) = ph[r]
BY DEF PhaseAfter, CanReveal, CanCollect

-----------------------------------------------------------------------------
(* The inductive invariant of the ledger.                                    *)

\* A run and its participants are created in one transaction; only a created
\* run is cancelled, it is never an open one, and nobody in it waits to be asked.
CreatedTogether ==
  /\ \A p \in Part : state[p] = "absent" <=> phase[RunOf[p]] = "absent"
  /\ \A r \in cancelled : phase[r] = "drafting"
  /\ \A p \in Part : RunOf[p] \in cancelled => state[p] \notin {"queued", "awaiting_user"}

\* What the gate had seen when it opened a run is still true.
OpenedByGate(r) ==
  /\ phase[r] \in {"revealed", "collected"} => Settled(r, state) /\ r \notin cancelled
  /\ phase[r] = "revealed" => /\ Mode[r] = "isolated"
                              /\ Dropped(r, state) = {} \/ r \in approved
                              /\ QuorumMet(r, state)
  /\ phase[r] = "collected" => Mode[r] = "general"

ConsentIsSettled == \A r \in approved : Settled(r, state) /\ phase[r] # "absent"

LedgerInv ==
  /\ TypeOK
  /\ DraftIffAccepted
  /\ CreatedTogether
  /\ \A r \in Run : OpenedByGate(r)
  /\ ConsentIsSettled
  /\ ReadyIsOpen

LEMMA InitLedger == Init => LedgerInv
<1> SUFFICES ASSUME Init PROVE LedgerInv
  OBVIOUS
<1>1. TypeOK
  BY InitTypeOK
<1>2. DraftIffAccepted
  BY DEF Init, DraftIffAccepted
<1>3. CreatedTogether
  BY RosterAssumption DEF Init, CreatedTogether
<1>4. \A r \in Run : phase[r] = "absent"
  BY DEF Init
<1>5. \A r \in Run : OpenedByGate(r)
  BY <1>4 DEF OpenedByGate
<1>6. ConsentIsSettled
  BY DEF Init, ConsentIsSettled
<1>7. ReadyIsOpen
  BY <1>4, NotAcceptingStays DEF ReadyIsOpen, Accepting
<1>8. QED
  BY <1>1, <1>2, <1>3, <1>5, <1>6, <1>7 DEF LedgerInv

\* What the rest of the invariant says of one run.
RunInv(r) ==
  /\ OpenedByGate(r)
  /\ r \in approved => Settled(r, state) /\ phase[r] # "absent"
  /\ PhaseAfter(r, state, phase, cancelled, approved) = phase[r]

LEMMA RunByRun ==
  LedgerInv <=> TypeOK /\ DraftIffAccepted /\ CreatedTogether /\ \A r \in Run : RunInv(r)
BY DEF LedgerInv, RunInv, ConsentIsSettled, ReadyIsOpen, TypeOK

\* A step that leaves the members and the columns of a run alone.
LEMMA OtherRun ==
  ASSUME NEW r \in Run, RunInv(r),
         \A p \in Members(r) : state'[p] = state[p],
         phase'[r] = phase[r], r \in cancelled' <=> r \in cancelled, r \in approved' <=> r \in approved
  PROVE  RunInv(r)'
<1>1. /\ Settled(r, state') <=> Settled(r, state)
      /\ Dropped(r, state') = Dropped(r, state)
      /\ QuorumMet(r, state') <=> QuorumMet(r, state)
  BY GateLocal
<1>2. PhaseAfter(r, state', phase', cancelled', approved') = PhaseAfter(r, state, phase, cancelled, approved)
  BY PhaseLocal
<1>3. OpenedByGate(r)'
  BY <1>1 DEF RunInv, OpenedByGate
<1>4. QED
  BY <1>1, <1>2, <1>3 DEF RunInv

\* A run that was still drafting and has just been looked at by its gate.
LEMMA Opening ==
  ASSUME NEW r \in Run, phase[r] = "drafting",
         phase'[r] = PhaseAfter(r, state', phase, cancelled, approved'),
         cancelled' = cancelled,
         r \in approved' => Settled(r, state')
  PROVE  RunInv(r)'
<1>1. PhaseAfter(r, state', phase', cancelled', approved') = phase'[r]
  BY PhaseStable
<1>2. phase'[r] \in {"drafting", "revealed", "collected"}
  BY DEF PhaseAfter
<1>3. phase'[r] = "revealed" => CanReveal(r, state', phase, cancelled, approved')
  BY DEF PhaseAfter
<1>4. phase'[r] = "collected" => CanCollect(r, state', phase, cancelled)
  BY DEF PhaseAfter
<1>5. OpenedByGate(r)'
  BY <1>3, <1>4 DEF OpenedByGate, CanReveal, CanCollect, Accepting
<1>6. QED
  BY <1>1, <1>2, <1>5 DEF RunInv

LEMMA TakeKeeps ==
  ASSUME LedgerInv, NEW p \in Part, TakeStep(p)
  PROVE  DraftIffAccepted' /\ CreatedTogether' /\ \A r \in Run : RunInv(r)'
<1>1. p \in Members(RunOf[p]) /\ RunOf[p] \in Run
  BY RosterAssumption DEF Members
<1>2. DraftIffAccepted'
  BY DEF LedgerInv, DraftIffAccepted, TakeStep, TypeOK
<1>3. CreatedTogether'
  BY DEF LedgerInv, CreatedTogether, TakeStep, TypeOK
<1>4. ASSUME NEW r \in Run PROVE RunInv(r)'
  <2>1. RunInv(r)
    BY RunByRun
  <2>2. CASE r # RunOf[p]
    BY <2>1, <2>2, OtherRun DEF TakeStep, Members, LedgerInv, TypeOK
  <2>3. CASE r = RunOf[p]
    <3>1. ~Settled(r, state) /\ ~Settled(r, state')
      BY <1>1, <2>3 DEF TakeStep, Settled, Done, LedgerInv, TypeOK
    <3>2. PhaseAfter(r, state', phase', cancelled', approved') = phase'[r]
      BY <3>1, UnsettledStays
    <3>3. r \notin approved' /\ phase'[r] \notin {"revealed", "collected"}
      BY <2>1, <3>1 DEF TakeStep, RunInv, OpenedByGate
    <3>4. QED
      BY <3>2, <3>3 DEF RunInv, OpenedByGate
  <2>4. QED
    BY <2>2, <2>3
<1>5. QED
  BY <1>2, <1>3, <1>4

\* An undecided member keeps its run drafting and unapproved.
LEMMA UndecidedKeepsDrafting ==
  ASSUME LedgerInv, NEW p \in Part, state[p] \notin Done, state[p] # "absent"
  PROVE  /\ p \in Members(RunOf[p]) /\ RunOf[p] \in Run
         /\ phase[RunOf[p]] = "drafting"
         /\ RunOf[p] \notin approved
<1>1. p \in Members(RunOf[p]) /\ RunOf[p] \in Run
  BY RosterAssumption DEF Members
<1>2. ~Settled(RunOf[p], state)
  BY <1>1 DEF Settled
<1>3. phase[RunOf[p]] \notin {"revealed", "collected"} /\ RunOf[p] \notin approved
  BY <1>1, <1>2 DEF LedgerInv, OpenedByGate, ConsentIsSettled
<1>4. phase[RunOf[p]] # "absent"
  BY DEF LedgerInv, CreatedTogether
<1>5. QED
  BY <1>1, <1>3, <1>4 DEF LedgerInv, TypeOK

LEMMA StoreKeeps ==
  ASSUME LedgerInv, NEW p \in Part, NEW s \in Decisions, StoreStep(p, s)
  PROVE  DraftIffAccepted' /\ CreatedTogether' /\ \A r \in Run : RunInv(r)'
<1>1. /\ p \in Members(RunOf[p]) /\ RunOf[p] \in Run
      /\ phase[RunOf[p]] = "drafting" /\ RunOf[p] \notin approved
  BY UndecidedKeepsDrafting DEF StoreStep, Done
<1>2. /\ state' = [state EXCEPT ![p] = s]
      /\ drafts' = IF s = "accepted" THEN drafts \union {p} ELSE drafts
      /\ phase' = [phase EXCEPT ![RunOf[p]] = PhaseAfter(RunOf[p], state', phase, cancelled, approved)]
      /\ cancelled' = cancelled /\ approved' = approved
  BY DEF StoreStep, Store
<1>3. DraftIffAccepted'
  <2>1. state[p] # "accepted"
    BY DEF StoreStep
  <2>2. QED
    BY <1>2, <2>1 DEF LedgerInv, DraftIffAccepted, TypeOK, Decisions
<1>4. phase'[RunOf[p]] \in {"drafting", "revealed", "collected"}
  BY <1>1, <1>2 DEF PhaseAfter, LedgerInv, TypeOK
<1>5. CreatedTogether'
  <2>1. \A q \in Part : state'[q] = "absent" <=> phase'[RunOf[q]] = "absent"
    BY <1>1, <1>2, <1>4, RosterAssumption DEF LedgerInv, CreatedTogether, TypeOK, Decisions
  <2>2. ASSUME NEW r \in cancelled PROVE phase'[r] = "drafting"
    <3>1. r \in Run /\ phase[r] = "drafting"
      BY DEF LedgerInv, CreatedTogether, TypeOK
    <3>2. CASE r = RunOf[p]
      <4>1. ~Accepting(r, phase, cancelled)
        BY DEF Accepting
      <4>2. QED
        BY <1>2, <3>1, <3>2, <4>1, NotAcceptingStays DEF LedgerInv, TypeOK
    <3>3. QED
      BY <1>2, <3>1, <3>2 DEF LedgerInv, TypeOK
  <2>3. \A q \in Part : RunOf[q] \in cancelled => state'[q] \notin {"queued", "awaiting_user"}
    BY <1>2 DEF LedgerInv, CreatedTogether, TypeOK, Decisions
  <2>4. QED
    BY <1>2, <2>1, <2>2, <2>3 DEF CreatedTogether
<1>6. ASSUME NEW r \in Run PROVE RunInv(r)'
  <2>1. RunInv(r)
    BY RunByRun
  <2>2. CASE r # RunOf[p]
    BY <1>2, <2>1, <2>2, OtherRun DEF Members, LedgerInv, TypeOK
  <2>3. CASE r = RunOf[p]
    BY <1>1, <1>2, <2>3, Opening DEF LedgerInv, TypeOK
  <2>4. QED
    BY <2>2, <2>3
<1>7. QED
  BY <1>3, <1>5, <1>6

LEMMA CreateKeeps ==
  ASSUME LedgerInv, NEW c \in Run, CreateRun(c)
  PROVE  DraftIffAccepted' /\ CreatedTogether' /\ \A r \in Run : RunInv(r)'
<1>1. \A p \in Members(c) : state[p] = "absent"
  BY DEF CreateRun, Members, LedgerInv, CreatedTogether
<1>2. /\ phase' = [phase EXCEPT ![c] = "drafting"]
      /\ \A p \in Part : state'[p] = IF RunOf[p] # c THEN state[p]
                                     ELSE IF Transport[p] = "cli" THEN "queued" ELSE "awaiting_user"
      /\ UNCHANGED <<cancelled, approved, drafts>>
  BY DEF CreateRun
<1>3. DraftIffAccepted'
  BY <1>1, <1>2 DEF LedgerInv, DraftIffAccepted, Members
<1>4. CreatedTogether'
  BY <1>2, RosterAssumption DEF CreateRun, LedgerInv, CreatedTogether, TypeOK
<1>5. ASSUME NEW r \in Run PROVE RunInv(r)'
  <2>1. RunInv(r)
    BY RunByRun
  <2>2. CASE r # c
    BY <1>2, <2>1, <2>2, OtherRun DEF Members, LedgerInv, TypeOK
  <2>3. CASE r = c
    <3>1. PICK p \in Part : RunOf[p] = c
      BY RosterAssumption
    <3>2. ~Settled(r, state')
      BY <1>2, <2>3, <3>1 DEF Settled, Members, Done
    <3>3. PhaseAfter(r, state', phase', cancelled', approved') = phase'[r]
      BY <3>2, UnsettledStays
    <3>4. phase[r] = "absent" /\ phase'[r] = "drafting" /\ r \notin approved'
      BY <1>2, <2>1, <2>3 DEF CreateRun, RunInv, LedgerInv, TypeOK
    <3>5. QED
      BY <3>3, <3>4 DEF RunInv, OpenedByGate
  <2>4. QED
    BY <2>2, <2>3
<1>6. QED
  BY <1>3, <1>4, <1>5

LEMMA CancelKeeps ==
  ASSUME LedgerInv, NEW c \in Run, CancelRun(c)
  PROVE  DraftIffAccepted' /\ CreatedTogether' /\ \A r \in Run : RunInv(r)'
<1>1. /\ cancelled' = cancelled \union {c}
      /\ \A p \in Part : state'[p] = IF RunOf[p] = c /\ state[p] \in {"queued", "awaiting_user"}
                                     THEN "rejected" ELSE state[p]
      /\ UNCHANGED <<phase, approved, drafts>>
  BY DEF CancelRun, Unstarted
<1>2. phase[c] = "drafting"
  BY DEF CancelRun, Accepting, LedgerInv, CreatedTogether
<1>3. DraftIffAccepted'
  BY <1>1 DEF LedgerInv, DraftIffAccepted
<1>4. CreatedTogether'
  BY <1>1, <1>2 DEF LedgerInv, CreatedTogether
<1>5. ASSUME NEW r \in Run PROVE RunInv(r)'
  <2>1. RunInv(r)
    BY RunByRun
  <2>2. CASE r # c
    BY <1>1, <2>1, <2>2, OtherRun DEF Members
  <2>3. CASE r = c
    <3>1. PhaseAfter(r, state', phase', cancelled', approved') = phase'[r]
      BY <1>1, <2>3, NotAcceptingStays DEF Accepting
    <3>2. r \in approved => Settled(r, state')
      BY <1>1, <2>1 DEF RunInv, Settled, Done, Members
    <3>3. QED
      BY <1>1, <1>2, <2>3, <3>1, <3>2 DEF RunInv, OpenedByGate
  <2>4. QED
    BY <2>2, <2>3
<1>6. QED
  BY <1>3, <1>4, <1>5

LEMMA ApproveKeeps ==
  ASSUME LedgerInv, NEW c \in Run, ApproveReduction(c)
  PROVE  DraftIffAccepted' /\ CreatedTogether' /\ \A r \in Run : RunInv(r)'
<1>1. /\ approved' = approved \union {c}
      /\ phase' = [phase EXCEPT ![c] = PhaseAfter(c, state', phase, cancelled, approved')]
      /\ UNCHANGED <<cancelled, state, drafts>>
  BY DEF ApproveReduction
<1>2. phase[c] = "drafting" /\ c \notin cancelled /\ Settled(c, state)
  BY DEF ApproveReduction, CanApproveReduction, Accepting
<1>3. phase'[c] \in {"drafting", "revealed", "collected"}
  BY <1>1, <1>2 DEF PhaseAfter, LedgerInv, TypeOK
<1>4. DraftIffAccepted'
  BY <1>1 DEF LedgerInv, DraftIffAccepted
<1>5. CreatedTogether'
  BY <1>1, <1>2, <1>3, RosterAssumption DEF LedgerInv, CreatedTogether, TypeOK
<1>6. ASSUME NEW r \in Run PROVE RunInv(r)'
  <2>1. RunInv(r)
    BY RunByRun
  <2>2. CASE r # c
    BY <1>1, <2>1, <2>2, OtherRun DEF LedgerInv, TypeOK
  <2>3. CASE r = c
    BY <1>1, <1>2, <2>3, Opening DEF LedgerInv, TypeOK
  <2>4. QED
    BY <2>2, <2>3
<1>7. QED
  BY <1>4, <1>5, <1>6

LEMMA RestartKeeps ==
  ASSUME LedgerInv, Restart
  PROVE  DraftIffAccepted' /\ CreatedTogether' /\ \A r \in Run : RunInv(r)'
<1>1. /\ \A p \in Part : state'[p] = IF state[p] = "running" THEN "unknown" ELSE state[p]
      /\ \A r \in Run : phase'[r] = IF phase[r] = "drafting"
                                    THEN PhaseAfter(r, state', phase, cancelled, approved)
                                    ELSE phase[r]
      /\ UNCHANGED <<cancelled, approved, drafts>>
  BY DEF Restart
<1>2. DraftIffAccepted'
  BY <1>1 DEF LedgerInv, DraftIffAccepted
<1>3. CreatedTogether'
  <2>1. \A r \in Run : phase'[r] = "absent" <=> phase[r] = "absent"
    BY <1>1 DEF PhaseAfter
  <2>2. \A r \in cancelled : phase'[r] = "drafting"
    BY <1>1, NotAcceptingStays DEF LedgerInv, CreatedTogether, TypeOK, Accepting
  <2>3. QED
    BY <1>1, <2>1, <2>2, RosterAssumption DEF LedgerInv, CreatedTogether
<1>4. ASSUME NEW r \in Run PROVE RunInv(r)'
  <2>1. RunInv(r)
    BY RunByRun
  <2>2. Settled(r, state) => \A p \in Members(r) : state'[p] = state[p]
    BY <1>1 DEF Settled, Done, Members
  <2>3. r \in approved => Settled(r, state')
    BY <2>1, <2>2, GateLocal DEF RunInv
  <2>4. CASE phase[r] = "drafting"
    BY <1>1, <2>3, <2>4, Opening
  <2>5. CASE phase[r] \in {"revealed", "collected"}
    BY <1>1, <2>1, <2>2, <2>5, OtherRun DEF RunInv, OpenedByGate
  <2>6. CASE phase[r] = "absent"
    <3>1. phase'[r] = "absent" /\ r \notin approved'
      BY <1>1, <2>1, <2>6 DEF RunInv
    <3>2. PhaseAfter(r, state', phase', cancelled', approved') = phase'[r]
      BY <3>1, NotAcceptingStays DEF Accepting
    <3>3. QED
      BY <3>1, <3>2 DEF RunInv, OpenedByGate
  <2>7. QED
    BY <2>4, <2>5, <2>6 DEF LedgerInv, TypeOK
<1>5. QED
  BY <1>2, <1>3, <1>4

LEMMA NextLedger == LedgerInv /\ [Next]_vars => LedgerInv'
<1> SUFFICES ASSUME LedgerInv, [Next]_vars PROVE LedgerInv'
  OBVIOUS
<1>1. TypeOK'
  BY NextTypeOK DEF LedgerInv
<1>2. LedgerStep
  BY NextLedgerStep DEF LedgerInv
<1>3. DraftIffAccepted' /\ CreatedTogether' /\ \A r \in Run : RunInv(r)'
  <2>1. CASE SameRuns
    <3>1. DraftIffAccepted' /\ CreatedTogether'
      BY <2>1 DEF SameRuns, LedgerInv, DraftIffAccepted, CreatedTogether
    <3>2. \A r \in Run : RunInv(r)'
      BY <2>1, RunByRun, OtherRun DEF SameRuns
    <3>3. QED
      BY <3>1, <3>2
  <2>2. QED
    BY <1>2, <2>1, TakeKeeps, StoreKeeps, CreateKeeps, CancelKeeps, ApproveKeeps, RestartKeeps
       DEF LedgerStep
<1>4. \A r \in Run : /\ OpenedByGate(r)'
                     /\ r \in approved' => Settled(r, state') /\ phase'[r] # "absent"
                     /\ PhaseAfter(r, state', phase', cancelled', approved') = phase'[r]
  BY <1>3 DEF RunInv
<1>5. ConsentIsSettled' /\ ReadyIsOpen'
  BY <1>1, <1>4 DEF ConsentIsSettled, ReadyIsOpen, TypeOK
<1>6. QED
  BY <1>1, <1>3, <1>4, <1>5 DEF LedgerInv

\* The drafts that count towards the quorum of an opened run.
LEMMA OpenedIsSound == LedgerInv => RevealSound
<1> SUFFICES ASSUME LedgerInv, NEW r \in Run
             PROVE  /\ phase[r] \in {"revealed", "collected"} => Settled(r, state) /\ r \notin cancelled
                    /\ phase[r] = "revealed" =>
                         /\ Dropped(r, state) # {} => r \in approved
                         /\ Cardinality({p \in drafts \intersect Members(r) :
                                           Policy[r] = "independent_only" => Confirmed(p)}) >= MinIndependent[r]
  BY DEF RevealSound
<1>1. OpenedByGate(r)
  BY DEF LedgerInv
<1>2. ASSUME Settled(r, state)
      PROVE  {p \in drafts \intersect Members(r) : Policy[r] = "independent_only" => Confirmed(p)}
               = Counted(r, state)
  BY <1>2 DEF LedgerInv, DraftIffAccepted, Counted, Settled, Done, Members
<1>3. QED
  BY <1>1, <1>2 DEF OpenedByGate, QuorumMet

\* The ledger invariant holds in every state of the coordinator, crashes and
\* recoveries included (_finish, cancel_run, approve_reduction, _recover).
THEOREM LedgerSafe == Spec => []LedgerInv
<1>1. Init => LedgerInv
  BY InitLedger
<1>2. LedgerInv /\ [Next]_vars => LedgerInv'
  BY NextLedger
<1>3. QED
  BY <1>1, <1>2, PTL DEF Spec

\* No run is ever open with a member undecided, below its quorum, with an
\* absence nobody consented to, or after it was cancelled (_maybe_reveal).
THEOREM OpensOnlyWhenSound == Spec => []RevealSound
<1>1. LedgerInv => RevealSound
  BY OpenedIsSound
<1>2. QED
  BY <1>1, LedgerSafe, PTL

\* A sealed draft exists exactly for the accepted participants (_finish).
THEOREM DraftsAreAnswers == Spec => []DraftIffAccepted
<1>1. LedgerInv => DraftIffAccepted
  BY DEF LedgerInv
<1>2. QED
  BY <1>1, LedgerSafe, PTL

\* No state, one left by a crash included, holds back a run its gate would
\* open (_maybe_reveal, _recover).
THEOREM NothingHeldBack == Spec => []ReadyIsOpen
<1>1. LedgerInv => ReadyIsOpen
  BY DEF LedgerInv
<1>2. QED
  BY <1>1, LedgerSafe, PTL

\* What the ledger says of answers is sound in every state (_finish,
\* _maybe_reveal and submit_manual, each in one transaction).
THEOREM SealStaysSound == Spec => []SealSound
BY TypeCorrect, OpensOnlyWhenSound, DraftsAreAnswers, NothingHeldBack, PTL DEF SealSound

-----------------------------------------------------------------------------
(* What no step does, and the refinement.                                    *)

\* A run that is open or consented to has only decided members, and no ledger
\* step moves a decided member.
LEMMA SettledStays ==
  ASSUME LedgerInv, LedgerStep, NEW r \in Run, Settled(r, state), phase[r] # "absent"
  PROVE  \A p \in Members(r) : state'[p] = state[p] /\ (p \in drafts' <=> p \in drafts)
<1> SUFFICES ASSUME NEW p \in Members(r)
             PROVE  state'[p] = state[p] /\ (p \in drafts' <=> p \in drafts)
  OBVIOUS
<1>1. p \in Part /\ RunOf[p] = r /\ state[p] \in Done
  BY DEF Members, Settled
<1>2. CASE SameRuns
  BY <1>2 DEF SameRuns
<1>3. ASSUME NEW q \in Part, TakeStep(q) PROVE state'[p] = state[p] /\ (p \in drafts' <=> p \in drafts)
  BY <1>1, <1>3 DEF TakeStep, Done, LedgerInv, TypeOK
<1>4. ASSUME NEW q \in Part, NEW s \in Decisions, StoreStep(q, s)
      PROVE  state'[p] = state[p] /\ (p \in drafts' <=> p \in drafts)
  BY <1>1, <1>4 DEF StoreStep, Store, Done, LedgerInv, TypeOK
<1>5. ASSUME NEW c \in Run, CreateRun(c) \/ CancelRun(c) \/ ApproveReduction(c)
      PROVE  state'[p] = state[p] /\ (p \in drafts' <=> p \in drafts)
  BY <1>1, <1>5 DEF CreateRun, CancelRun, Unstarted, ApproveReduction, Done
<1>6. CASE Restart
  BY <1>1, <1>6 DEF Restart, Done
<1>7. QED
  BY <1>2, <1>3, <1>4, <1>5, <1>6 DEF LedgerStep

\* The columns of a run: which step may move them.
LEMMA ColumnsMove ==
  ASSUME LedgerInv, LedgerStep, NEW r \in Run
  PROVE  /\ phase'[r] # phase[r] => phase[r] = "absent" \/ Accepting(r, phase, cancelled)
         /\ r \in cancelled => r \in cancelled'
         /\ r \in approved => r \in approved'
         /\ r \in cancelled' /\ r \notin cancelled => Accepting(r, phase, cancelled)
<1>1. CASE SameRuns
  BY <1>1 DEF SameRuns
<1>2. ASSUME NEW q \in Part, TakeStep(q)
      PROVE  phase' = phase /\ cancelled' = cancelled /\ approved' = approved
  BY <1>2 DEF TakeStep
<1>3. ASSUME NEW q \in Part, NEW s \in Decisions, StoreStep(q, s)
      PROVE  /\ cancelled' = cancelled /\ approved' = approved
             /\ phase'[r] # phase[r] => Accepting(r, phase, cancelled)
  BY <1>3, NotAcceptingStays DEF StoreStep, Store, LedgerInv, TypeOK
<1>4. ASSUME NEW c \in Run, CreateRun(c)
      PROVE  /\ cancelled' = cancelled /\ approved' = approved
             /\ phase'[r] # phase[r] => phase[r] = "absent"
  BY <1>4 DEF CreateRun, LedgerInv, TypeOK
<1>5. ASSUME NEW c \in Run, CancelRun(c)
      PROVE  /\ phase' = phase /\ approved' = approved
             /\ cancelled' = cancelled \union {c}
             /\ Accepting(c, phase, cancelled) \/ c \in cancelled
  BY <1>5 DEF CancelRun
<1>6. ASSUME NEW c \in Run, ApproveReduction(c)
      PROVE  /\ cancelled' = cancelled /\ approved' = approved \union {c}
             /\ phase'[r] # phase[r] => Accepting(r, phase, cancelled)
  BY <1>6 DEF ApproveReduction, CanApproveReduction, LedgerInv, TypeOK
<1>7. CASE Restart
  <2>1. cancelled' = cancelled /\ approved' = approved
    BY <1>7 DEF Restart
  <2>2. phase'[r] # phase[r] => Accepting(r, phase, cancelled)
    BY <1>7, NotAcceptingStays DEF Restart
  <2>3. QED
    BY <2>1, <2>2
<1>8. QED
  BY <1>1, <1>2, <1>3, <1>4, <1>5, <1>6, <1>7 DEF LedgerStep

\* Opening a run is irreversible: no late answer, acknowledgement, cancel or
\* recovery changes its phase, its roster or its drafts.
THEOREM OpenStaysFrozen == Spec => OpenIsFrozen
<1>1. LedgerInv /\ [Next]_vars =>
        [\A r \in Run : phase[r] \in {"revealed", "collected"} =>
           /\ phase'[r] = phase[r]
           /\ r \notin cancelled'
           /\ \A p \in Members(r) : state'[p] = state[p] /\ (p \in drafts' <=> p \in drafts)]_vars
  <2> SUFFICES ASSUME LedgerInv, [Next]_vars, NEW r \in Run, phase[r] \in {"revealed", "collected"}
               PROVE  /\ phase'[r] = phase[r]
                      /\ r \notin cancelled'
                      /\ \A p \in Members(r) : state'[p] = state[p] /\ (p \in drafts' <=> p \in drafts)
    OBVIOUS
  <2>1. LedgerStep
    BY NextLedgerStep DEF LedgerInv
  <2>2. Settled(r, state) /\ r \notin cancelled /\ ~Accepting(r, phase, cancelled)
    BY DEF LedgerInv, OpenedByGate, Accepting
  <2>3. QED
    BY <2>1, <2>2, SettledStays, ColumnsMove
<1>2. QED
  BY <1>1, LedgerSafe, PTL DEF Spec, OpenIsFrozen

\* Cancelling is irreversible: the phase stays and no draft is added.
THEOREM CancelledStaysSealed == Spec => CancelSeals
<1>1. LedgerInv /\ [Next]_vars =>
        [\A r \in cancelled :
           /\ r \in cancelled'
           /\ phase'[r] = phase[r]
           /\ \A p \in Members(r) : p \in drafts' <=> p \in drafts]_vars
  <2> SUFFICES ASSUME LedgerInv, [Next]_vars, NEW r \in cancelled
               PROVE  /\ r \in cancelled'
                      /\ phase'[r] = phase[r]
                      /\ \A p \in Members(r) : p \in drafts' <=> p \in drafts
    OBVIOUS
  <2>1. LedgerStep
    BY NextLedgerStep DEF LedgerInv
  <2>2. r \in Run /\ phase[r] = "drafting" /\ ~Accepting(r, phase, cancelled)
    BY DEF LedgerInv, CreatedTogether, TypeOK, Accepting
  <2>3. ASSUME NEW p \in Members(r) PROVE p \in drafts' <=> p \in drafts
    <3>1. ASSUME NEW q \in Part, NEW s \in Decisions, StoreStep(q, s) PROVE p \in drafts' <=> p \in drafts
      BY <2>2, <3>1 DEF StoreStep, Store, Members
    <3>2. QED
      BY <2>1, <3>1 DEF LedgerStep, SameRuns, TakeStep, CreateRun, CancelRun, ApproveReduction, Restart
  <2>4. QED
    BY <2>1, <2>2, <2>3, ColumnsMove
<1>2. QED
  BY <1>1, LedgerSafe, PTL DEF Spec, CancelSeals

\* A consent stays bound to the roster the user saw (approve_reduction).
THEOREM ConsentStaysBound == Spec => ApprovalBindsRoster
<1>1. LedgerInv /\ [Next]_vars =>
        [\A r \in approved : /\ r \in approved'
                             /\ \A p \in Members(r) : state'[p] = state[p]]_vars
  <2> SUFFICES ASSUME LedgerInv, [Next]_vars, NEW r \in approved
               PROVE  r \in approved' /\ \A p \in Members(r) : state'[p] = state[p]
    OBVIOUS
  <2>1. LedgerStep
    BY NextLedgerStep DEF LedgerInv
  <2>2. r \in Run /\ Settled(r, state) /\ phase[r] # "absent"
    BY DEF LedgerInv, ConsentIsSettled, TypeOK
  <2>3. QED
    BY <2>1, <2>2, SettledStays, ColumnsMove
<1>2. QED
  BY <1>1, LedgerSafe, PTL DEF Spec, ApprovalBindsRoster

-----------------------------------------------------------------------------
(* The blind barrier.  LedgerInv says when the gate lets a run open, and the *)
(* six ledger steps map to Ask, Decide, Consent, Void, DropOut or a stutter. *)

\* A created run that nobody cancelled is open exactly if the barrier would
\* open it for the outcomes and consents there are.
OpenAsPromised ==
  \A r \in Run : phase[r] # "absent" /\ r \notin cancelled =>
    (Barrier!Opens(r, outcomeOf, approved) <=> phase[r] # "drafting")

LEMMA OpenMeansOpens == LedgerInv => OpenAsPromised
<1> SUFFICES ASSUME LedgerInv, NEW r \in Run, phase[r] # "absent", r \notin cancelled
             PROVE  Barrier!Opens(r, outcomeOf, approved) <=> phase[r] # "drafting"
  BY DEF OpenAsPromised
<1>1. Barrier!Of(r) = Members(r)
  BY DEF Barrier!Of, Members
<1>2. \A p \in Part : /\ outcomeOf[p] = "answered" <=> state[p] = "accepted"
                      /\ outcomeOf[p] = "absent" <=> state[p] = "rejected"
                      /\ outcomeOf[p] = "pending" <=> state[p] \notin Done
  BY DEF outcomeOf, LedgerInv, DraftIffAccepted, Done
<1>3. /\ Barrier!Complete(r, outcomeOf) <=> Settled(r, state)
      /\ Barrier!Absences(r, outcomeOf) = Dropped(r, state)
  BY <1>1, <1>2 DEF Barrier!Complete, Barrier!Absences, Settled, Dropped, Members
<1>4. ASSUME Settled(r, state)
      PROVE  Barrier!Answered(r, outcomeOf) \in [x \in Run |->
                {A \in SUBSET Members(x) :
                   Cardinality({p \in A : Policy[x] = "independent_only" => Confirmed(p)}) >= MinIndependent[x]}][r]
               <=> QuorumMet(r, state)
  <2>1. Barrier!Answered(r, outcomeOf) \in SUBSET Members(r)
    BY <1>1 DEF Barrier!Answered
  <2>2. {p \in Barrier!Answered(r, outcomeOf) : Policy[r] = "independent_only" => Confirmed(p)}
          = Counted(r, state)
    BY <1>1, <1>2, <1>4 DEF Barrier!Answered, Counted, Settled, Done, Members
  <2>3. QED
    BY <2>1, <2>2 DEF QuorumMet
<1>5. PhaseAfter(r, state, phase, cancelled, approved) = phase[r]
  BY DEF LedgerInv, ReadyIsOpen
<1>6. phase[r] \in {"drafting", "revealed", "collected"}
  BY DEF LedgerInv, TypeOK
<1>7. phase[r] = "drafting" => /\ ~CanReveal(r, state, phase, cancelled, approved)
                               /\ ~CanCollect(r, state, phase, cancelled)
  BY <1>5 DEF PhaseAfter
<1>8. OpenedByGate(r)
  BY DEF LedgerInv
<1>9. Mode[r] \in {"isolated", "general"}
  BY RosterAssumption
<1>10. ASSUME phase[r] # "drafting" PROVE Barrier!Opens(r, outcomeOf, approved)
  BY <1>3, <1>4, <1>6, <1>8, <1>10 DEF Barrier!Opens, OpenedByGate
<1>11. ASSUME phase[r] = "drafting" PROVE ~Barrier!Opens(r, outcomeOf, approved)
  BY <1>3, <1>4, <1>7, <1>9, <1>11 DEF Barrier!Opens, CanReveal, CanCollect, Accepting
<1>12. QED
  BY <1>10, <1>11

\* The barrier's view of the columns a ledger step touches.
LEMMA ViewTypes ==
  LedgerInv =>
    /\ \A r \in Run : /\ r \in cancelled => stageOf[r] = "void"
                      /\ r \notin cancelled /\ phase[r] = "absent" => stageOf[r] = "unasked"
                      /\ r \notin cancelled /\ phase[r] = "drafting" => stageOf[r] = "asking"
                      /\ r \notin cancelled /\ phase[r] \in {"revealed", "collected"} => stageOf[r] = "open"
    /\ \A p \in Part : outcomeOf[p] = IF state[p] = "accepted" THEN "answered"
                                      ELSE IF state[p] = "rejected" THEN "absent" ELSE "pending"
BY DEF LedgerInv, stageOf, outcomeOf, DraftIffAccepted

LEMMA InitBarrier == Init => Barrier!BInit
BY DEF Init, Barrier!BInit, stageOf, outcomeOf

\* The barrier sees nothing of a step that keeps its runs.
LEMMA SameView ==
  ASSUME SameRuns
  PROVE  UNCHANGED <<stageOf, outcomeOf, approved>>
BY DEF SameRuns, stageOf, outcomeOf

LEMMA StoreBarrier ==
  ASSUME LedgerInv, LedgerInv', NEW p \in Part, NEW s \in Decisions, StoreStep(p, s)
  PROVE  Barrier!BNext \/ UNCHANGED <<stageOf, outcomeOf, approved>>
<1> DEFINE r == RunOf[p]
<1>1. /\ p \in Members(r) /\ r \in Run /\ phase[r] = "drafting" /\ r \notin approved
  BY UndecidedKeepsDrafting DEF StoreStep, Done
<1>2. /\ state' = [state EXCEPT ![p] = s]
      /\ drafts' = IF s = "accepted" THEN drafts \union {p} ELSE drafts
      /\ phase' = [phase EXCEPT ![r] = PhaseAfter(r, state', phase, cancelled, approved)]
      /\ cancelled' = cancelled /\ approved' = approved
      /\ state[p] \in {"running", "awaiting_user", "unknown"}
      /\ s = "accepted" => r \notin cancelled
  BY DEF StoreStep, Store, Accepting
<1>3. /\ state'[p] = s
      /\ \A q \in Part \ {p} : state'[q] = state[q]
      /\ \A x \in Run \ {r} : phase'[x] = phase[x]
      /\ phase'[r] \in {"drafting", "revealed", "collected"}
  BY <1>1, <1>2 DEF LedgerInv, TypeOK, PhaseAfter
<1>4. p \notin drafts /\ outcomeOf[p] = "pending"
  BY <1>2, ViewTypes DEF LedgerInv, DraftIffAccepted
<1>5. CASE s = "unknown"
  <2>1. ~Settled(r, state')
    BY <1>1, <1>3, <1>5 DEF Settled, Done
  <2>2. phase' = phase
    BY <1>1, <1>2, <2>1, UnsettledStays DEF LedgerInv, TypeOK
  <2>3. stageOf' = stageOf
    BY <1>2, <2>2 DEF stageOf
  <2>4. outcomeOf' = outcomeOf
    BY <1>2, <1>3, <1>5 DEF outcomeOf
  <2>5. QED
    BY <1>2, <2>3, <2>4
<1>6. CASE s \in {"accepted", "rejected"}
  <2> DEFINE o == IF s = "accepted" THEN "answered" ELSE "absent"
  <2>1. outcomeOf' = [outcomeOf EXCEPT ![p] = o]
    BY <1>2, <1>3, <1>4, <1>6 DEF outcomeOf
  <2>2. CASE r \in cancelled
    <3>1. s = "rejected"
      BY <1>2, <1>6, <2>2
    <3>2. phase' = phase
      BY <1>1, <1>2, <2>2, NotAcceptingStays DEF LedgerInv, TypeOK, Accepting
    <3>3. stageOf' = stageOf /\ stageOf[r] = "void"
      BY <1>1, <1>2, <2>2, <3>2 DEF stageOf
    <3>4. Barrier!DropOut(p)
      BY <1>2, <1>4, <2>1, <3>1, <3>3 DEF Barrier!DropOut
    <3>5. QED
      BY <3>4 DEF Barrier!BNext
  <2>3. CASE r \notin cancelled
    <3>1. Barrier!Opens(r, outcomeOf', approved) <=> phase'[r] # "drafting"
      <4>1. OpenAsPromised'
        BY OpenMeansOpens, PTL
      <4>2. QED
        BY <1>1, <1>2, <1>3, <2>3, <4>1 DEF OpenAsPromised
    <3>2. stageOf' = [stageOf EXCEPT ![r] = IF Barrier!Opens(r, outcomeOf', approved) THEN "open" ELSE "asking"]
      BY <1>1, <1>2, <1>3, <2>3, <3>1 DEF stageOf
    <3>3. stageOf[r] = "asking"
      BY <1>1, <2>3 DEF stageOf
    <3>4. Barrier!Decide(p, o)
      BY <1>2, <1>4, <2>1, <3>2, <3>3 DEF Barrier!Decide
    <3>5. QED
      BY <3>4 DEF Barrier!BNext
  <2>4. QED
    BY <2>2, <2>3
<1>7. QED
  BY <1>5, <1>6 DEF Decisions

LEMMA CreateBarrier ==
  ASSUME LedgerInv, NEW c \in Run, CreateRun(c)
  PROVE  Barrier!Ask(c)
<1>1. phase[c] = "absent" /\ c \notin cancelled /\ \A p \in Members(c) : state[p] = "absent"
  BY DEF CreateRun, LedgerInv, CreatedTogether, Members
<1>2. /\ phase' = [phase EXCEPT ![c] = "drafting"]
      /\ \A p \in Part : state'[p] = IF RunOf[p] # c THEN state[p]
                                     ELSE IF Transport[p] = "cli" THEN "queued" ELSE "awaiting_user"
      /\ UNCHANGED <<cancelled, approved, drafts>>
  BY DEF CreateRun
<1>3. stageOf[c] = "unasked" /\ stageOf' = [stageOf EXCEPT ![c] = "asking"]
  BY <1>1, <1>2 DEF stageOf, LedgerInv, TypeOK
<1>4. outcomeOf' = outcomeOf
  BY <1>1, <1>2 DEF outcomeOf, Members
<1>5. QED
  BY <1>2, <1>3, <1>4 DEF Barrier!Ask

LEMMA CancelBarrier ==
  ASSUME LedgerInv, NEW c \in Run, CancelRun(c)
  PROVE  Barrier!Void(c) \/ UNCHANGED <<stageOf, outcomeOf, approved>>
<1>1. /\ cancelled' = cancelled \union {c}
      /\ \A p \in Part : state'[p] = IF RunOf[p] = c /\ state[p] \in {"queued", "awaiting_user"}
                                     THEN "rejected" ELSE state[p]
      /\ UNCHANGED <<phase, approved, drafts>>
  BY DEF CancelRun, Unstarted
<1>2. CASE c \in cancelled
  <2>1. \A p \in Part : state'[p] = state[p]
    BY <1>1, <1>2 DEF LedgerInv, CreatedTogether
  <2>2. QED
    BY <1>1, <1>2, <2>1 DEF stageOf, outcomeOf
<1>3. CASE c \notin cancelled
  <2> DEFINE gone == {p \in Part : RunOf[p] = c /\ state[p] \in {"queued", "awaiting_user"}}
  <2>1. stageOf[c] = "asking" /\ stageOf' = [stageOf EXCEPT ![c] = "void"]
    BY <1>1, <1>3 DEF CancelRun, Accepting, stageOf
  <2>2. \A p \in gone : p \notin drafts
    BY DEF LedgerInv, DraftIffAccepted
  <2>3. gone \in SUBSET {p \in Barrier!Of(c) : outcomeOf[p] = "pending"}
    BY <2>2 DEF Barrier!Of, outcomeOf
  <2>4. outcomeOf' = [p \in Part |-> IF p \in gone THEN "absent" ELSE outcomeOf[p]]
    BY <1>1, <2>2 DEF outcomeOf
  <2>5. Barrier!Void(c)
    BY <1>1, <2>1, <2>3, <2>4 DEF Barrier!Void
  <2>6. QED
    BY <2>5
<1>4. QED
  BY <1>2, <1>3

LEMMA ApproveBarrier ==
  ASSUME LedgerInv, LedgerInv', NEW c \in Run, ApproveReduction(c)
  PROVE  Barrier!Consent(c)
<1>1. /\ approved' = approved \union {c}
      /\ phase' = [phase EXCEPT ![c] = PhaseAfter(c, state, phase, cancelled, approved')]
      /\ UNCHANGED <<cancelled, state, drafts>>
      /\ Mode[c] = "isolated" /\ phase[c] = "drafting" /\ c \notin cancelled /\ c \notin approved
      /\ Settled(c, state) /\ Dropped(c, state) # {}
  BY DEF ApproveReduction, CanApproveReduction, Accepting
<1>2. outcomeOf' = outcomeOf
  BY <1>1 DEF outcomeOf
<1>3. /\ Barrier!Complete(c, outcomeOf)
      /\ Barrier!Absences(c, outcomeOf) # {}
  BY <1>1, ViewTypes DEF Barrier!Complete, Barrier!Absences, Barrier!Of, Settled, Dropped, Members, Done
<1>4. phase'[c] \in {"drafting", "revealed", "collected"}
  BY <1>1 DEF PhaseAfter, LedgerInv, TypeOK
<1>5. Barrier!Opens(c, outcomeOf, approved') <=> phase'[c] # "drafting"
  <2>1. OpenAsPromised'
    BY OpenMeansOpens, PTL
  <2>2. QED
    BY <1>1, <1>2, <1>4, <2>1 DEF OpenAsPromised
<1>6. /\ stageOf[c] = "asking"
      /\ stageOf' = [stageOf EXCEPT ![c] = IF Barrier!Opens(c, outcomeOf, approved') THEN "open" ELSE "asking"]
  BY <1>1, <1>4, <1>5 DEF stageOf, LedgerInv, TypeOK
<1>7. QED
  BY <1>1, <1>2, <1>3, <1>6 DEF Barrier!Consent

LEMMA RestartBarrier ==
  ASSUME LedgerInv, Restart
  PROVE  UNCHANGED <<stageOf, outcomeOf, approved>>
<1>1. /\ \A p \in Part : state'[p] = IF state[p] = "running" THEN "unknown" ELSE state[p]
      /\ \A r \in Run : phase'[r] = IF phase[r] = "drafting"
                                    THEN PhaseAfter(r, state', phase, cancelled, approved)
                                    ELSE phase[r]
      /\ UNCHANGED <<cancelled, approved, drafts>>
  BY DEF Restart
<1>2. ASSUME NEW r \in Run PROVE phase'[r] = phase[r]
  <2>1. CASE Settled(r, state)
    <3>1. \A p \in Members(r) : state'[p] = state[p]
      BY <1>1, <2>1 DEF Settled, Done, Members
    <3>2. PhaseAfter(r, state', phase, cancelled, approved) = PhaseAfter(r, state, phase, cancelled, approved)
      BY <3>1, GateLocal DEF PhaseAfter, CanReveal, CanCollect
    <3>3. QED
      BY <1>1, <3>2 DEF LedgerInv, ReadyIsOpen
  <2>2. CASE ~Settled(r, state)
    <3>1. ~Settled(r, state')
      BY <1>1, <2>2 DEF Settled, Done, Members
    <3>2. QED
      BY <1>1, <3>1, UnsettledStays
  <2>3. QED
    BY <2>1, <2>2
<1>3. stageOf' = stageOf
  BY <1>1, <1>2 DEF stageOf
<1>4. outcomeOf' = outcomeOf
  BY <1>1 DEF outcomeOf
<1>5. QED
  BY <1>1, <1>3, <1>4

LEMMA NextBarrier == LedgerInv /\ LedgerInv' /\ [Next]_vars => [Barrier!BNext]_(Barrier!bvars)
<1> SUFFICES ASSUME LedgerInv, LedgerInv', [Next]_vars
             PROVE  Barrier!BNext \/ UNCHANGED <<stageOf, outcomeOf, approved>>
  BY DEF Barrier!bvars
<1>1. LedgerStep
  BY NextLedgerStep DEF LedgerInv
<1>2. CASE SameRuns
  BY <1>2, SameView
<1>3. ASSUME NEW p \in Part, TakeStep(p) PROVE UNCHANGED <<stageOf, outcomeOf, approved>>
  <2>1. stageOf' = stageOf
    BY <1>3 DEF TakeStep, stageOf
  <2>2. outcomeOf' = outcomeOf
    BY <1>3 DEF TakeStep, outcomeOf, LedgerInv, TypeOK
  <2>3. QED
    BY <1>3, <2>1, <2>2 DEF TakeStep
<1>4. ASSUME NEW c \in Run, CreateRun(c) \/ CancelRun(c) \/ ApproveReduction(c)
      PROVE  Barrier!BNext \/ UNCHANGED <<stageOf, outcomeOf, approved>>
  BY <1>4, CreateBarrier, CancelBarrier, ApproveBarrier DEF Barrier!BNext
<1>5. QED
  BY <1>1, <1>2, <1>3, <1>4, StoreBarrier, RestartBarrier DEF LedgerStep

\* The coordinator, with its threads, slots, crashes and recoveries, keeps the
\* promise of the blind barrier for every roster (coordinator.py as a whole).
THEOREM BarrierKept == Spec => ImplementsBarrier
<1>1. Init => Barrier!BInit
  BY InitBarrier
<1>2. LedgerInv /\ LedgerInv' /\ [Next]_vars => [Barrier!BNext]_(Barrier!bvars)
  BY NextBarrier
<1>3. QED
  BY <1>1, <1>2, LedgerSafe, PTL DEF Spec, ImplementsBarrier, Barrier!BSpec

-----------------------------------------------------------------------------
(* Threads, calls and processes.                                             *)

\* Rows that no attempt has been started for.
Waiting == {"absent", "queued", "awaiting_user"}

\* The participant pump() is at.
First(p) == p \in batch /\ \A q \in batch \ {p} : Before(p, q)

\* The row pump() has taken and not started yet.
Fresh(p) ==
  /\ state[p] = "running" /\ calls[p] = 0 /\ tree[p] = "none"
  /\ RunOf[p] \notin cancelled
  /\ \A w \in workers : w.part # p
  /\ taken = "ready" /\ RealCalls => [part |-> p, attempt |-> attempt[p]] \in reserved

\* A thread and the row it works for.
Own(w) ==
  /\ w.attempt = attempt[w.part]
  /\ w.pc # "settled" => state[w.part] = "running"
  /\ w.pc = "starting" => calls[w.part] = 0 /\ tree[w.part] = "none"
  /\ RealCalls => [part |-> w.part, attempt |-> w.attempt] \in reserved
  /\ \A v \in workers : v.part = w.part => v = w

\* A row, its calls and its tree.
Called(p) ==
  /\ calls[p] <= 1
  /\ RealCalls /\ calls[p] > 0 => [part |-> p, attempt |-> attempt[p]] \in reserved
  /\ tree[p] = "alive" => state[p] \in {"running", "unknown"} \/ p \in acked
  /\ state[p] \in Waiting => calls[p] = 0 /\ tree[p] = "none" /\ \A w \in workers : w.part # p

\* While results can be stored, somebody will settle a running row.
Owned(p) ==
  up /\ ~StoreFaults /\ state[p] = "running" =>
    \/ taken # "none" /\ First(p)
    \/ \E w \in workers : w.part = p /\ w.pc # "settled"

\* pump() serves what it found in the queue, and only while it may.
PumpInv ==
  /\ ~up => workers = {} /\ batch = {}
  /\ batch = {} => taken = "none"
  /\ batch # {} => up /\ ~closing /\ Queue \subseteq batch /\ heldOver = {}
  /\ up /\ heldOver # {} => paused

AttemptInv ==
  /\ taken # "none" => \A p \in Part : First(p) => Fresh(p)
  /\ \A w \in workers : Own(w)
  /\ \A p \in Part : Called(p)
  /\ \A p \in Part : Owned(p)
  /\ CancelReachesWorkers

SlotsKept == Cardinality(Slots) <= MaxParallel

CallInv == PumpInv /\ AttemptInv /\ SlotsKept /\ BudgetRespected /\ IsFiniteSet(reserved)

-----------------------------------------------------------------------------
(* What a step may do to rows and threads.                                   *)

\* The order of the queue is total, so pump() is at one participant at a time.
LEMMA FirstIsOne ==
  ASSUME TypeOK, NEW p \in Part, NEW q \in Part, First(p), First(q)
  PROVE  p = q
<1> SUFFICES ASSUME p # q PROVE FALSE
  OBVIOUS
<1>1. Before(p, q) /\ Before(q, p)
  BY DEF First
<1>2. /\ Row[p] \in Nat /\ Row[q] \in Nat
      /\ createdAt[RunOf[p]] \in Nat /\ createdAt[RunOf[q]] \in Nat
  BY CoordinatorAssumption, RosterAssumption DEF TypeOK
<1>3. QED
  BY <1>1, <1>2 DEF Before

\* A running row is taken up again or settled by its own thread; what else moves
\* a row is the user, who decides what nobody was called for or vouches for an end.
RowMoves ==
  /\ acked \subseteq acked'
  /\ \A p \in Part : \/ state'[p] = state[p]
                     \/ state[p] \in Waiting /\ state'[p] \in Waiting \union Done
                     \/ state[p] = "unknown" /\ state'[p] = "rejected" /\ p \in acked'

\* The same threads, some of them told to stop.
SameThreads ==
  /\ \A v \in workers' : \E w \in workers : v.part = w.part /\ v.attempt = w.attempt /\ v.pc = w.pc /\ (w.cancel => v.cancel)
  /\ \A w \in workers : \E v \in workers' : v.part = w.part /\ v.attempt = w.attempt /\ v.pc = w.pc
  /\ (\A w, v \in workers : v.part = w.part => v = w) => \A w, v \in workers' : v.part = w.part => v = w

LEMMA StopKeepsThreads ==
  ASSUME TypeOK, NEW ws, workers' = Stop(ws)
  PROVE  SameThreads
<1> DEFINE Told(w) == IF w \in ws THEN [w EXCEPT !.cancel = TRUE] ELSE w
<1>1. ASSUME NEW w \in workers
      PROVE  Told(w).part = w.part /\ Told(w).attempt = w.attempt /\ Told(w).pc = w.pc /\ (w.cancel => Told(w).cancel)
  BY DEF TypeOK, Worker
<1>2. workers' = {Told(w) : w \in workers}
  BY DEF Stop
<1> HIDE DEF Told
<1>3. QED
  BY <1>1, <1>2 DEF SameThreads

LEMMA UnchangedThreads == workers' = workers => SameThreads
BY DEF SameThreads

\* Under the lock a command keeps what ties rows to threads, trees and slots.
LEMMA CommandKeeps ==
  ASSUME TypeOK, CallInv, LockFree, RowMoves, SameThreads, UNCHANGED <<up, batch, taken, attempt, reserved, calls, tree>>
  PROVE  /\ \A w \in workers' : Own(w)'
         /\ \A p \in Part : Called(p)' /\ Owned(p)'
         /\ taken' = "none"
<1>1. batch = {} /\ taken = "none" /\ batch' = {} /\ taken' = "none"
  BY DEF LockFree, CallInv, PumpInv
<1>2. ASSUME NEW v \in workers' PROVE Own(v)'
  <2>1. PICK w \in workers : v.part = w.part /\ v.attempt = w.attempt /\ v.pc = w.pc
    BY DEF SameThreads
  <2>2. Own(w) /\ w.part \in Part
    BY DEF CallInv, AttemptInv, TypeOK, Worker
  <2>3. \A x \in workers' : x.part = v.part => x = v
    BY DEF SameThreads, CallInv, AttemptInv, Own
  <2>4. v.pc # "settled" => state'[v.part] = "running"
    BY <2>1, <2>2 DEF Own, RowMoves, Waiting
  <2>5. QED
    BY <2>1, <2>2, <2>3, <2>4 DEF Own
<1>3. ASSUME NEW p \in Part PROVE Called(p)'
  <2>1. Called(p)
    BY DEF CallInv, AttemptInv
  <2>2. state'[p] \in Waiting => state[p] \in Waiting
    BY DEF RowMoves, Waiting
  <2>3. (\A w \in workers : w.part # p) => \A w \in workers' : w.part # p
    BY DEF SameThreads
  <2>4. tree[p] = "alive" => state'[p] \in {"running", "unknown"} \/ p \in acked'
    BY <2>1 DEF Called, RowMoves, Waiting
  <2>5. QED
    BY <2>1, <2>2, <2>3, <2>4 DEF Called
<1>4. ASSUME NEW p \in Part PROVE Owned(p)'
  <2> SUFFICES ASSUME up, ~StoreFaults, state'[p] = "running" PROVE \E w \in workers' : w.part = p /\ w.pc # "settled"
    BY DEF Owned
  <2>1. state[p] = "running"
    BY DEF RowMoves, Waiting, Done
  <2>2. PICK w \in workers : w.part = p /\ w.pc # "settled"
    BY <1>1, <2>1 DEF CallInv, AttemptInv, Owned
  <2>3. QED
    BY <2>2 DEF SameThreads
<1>5. QED
  BY <1>1, <1>2, <1>3, <1>4

LEMMA UserIsCommand ==
  ASSUME LedgerInv, CallInv, UserStep
  PROVE  /\ LockFree /\ RowMoves /\ SameThreads
         /\ UNCHANGED <<up, batch, taken, attempt, reserved, calls, tree>>
         /\ CancelReachesWorkers'
<1>0. TypeOK /\ CancelReachesWorkers
  BY DEF LedgerInv, CallInv, AttemptInv
<1>1. ASSUME NEW r \in Run, CreateRun(r)
      PROVE  /\ LockFree /\ RowMoves /\ UNCHANGED <<workers, up, batch, taken, attempt, reserved, calls, tree, closing, cancelled>>
  <2>1. \A p \in Part : RunOf[p] = r => state[p] = "absent"
    BY <1>1 DEF CreateRun, LedgerInv, CreatedTogether
  <2>2. RowMoves
    BY <1>1, <2>1 DEF CreateRun, RowMoves, Waiting
  <2>3. QED
    BY <1>1, <2>2 DEF CreateRun, Command, history
<1>2. ASSUME NEW r \in Run, CancelRun(r)
      PROVE  /\ LockFree /\ RowMoves /\ SameThreads
             /\ UNCHANGED <<up, batch, taken, attempt, reserved, calls, tree>>
             /\ CancelReachesWorkers'
  <2> DEFINE ws == {w \in workers : RunOf[w.part] = r /\ state[w.part] = "running" /\ attempt[w.part] = w.attempt}
  <2>1. workers' = Stop(ws) /\ cancelled' = cancelled \union {r} /\ closing' = closing
    BY <1>2 DEF CancelRun
  <2>2. RowMoves
    BY <1>2 DEF CancelRun, Unstarted, RowMoves, Waiting, Done
  <2>3. ASSUME NEW w \in workers, w.pc # "settled", closing \/ RunOf[w.part] \in cancelled \union {r}
        PROVE  w.cancel \/ w \in ws
    BY <1>0, <2>3 DEF CancelReachesWorkers, CallInv, AttemptInv, Own
  <2>4. CancelReachesWorkers'
    <3> SUFFICES ASSUME NEW v \in workers', v.pc # "settled", closing' \/ RunOf[v.part] \in cancelled'
                 PROVE  v.cancel
      BY DEF CancelReachesWorkers
    <3>1. PICK w \in workers : v = IF w \in ws THEN [w EXCEPT !.cancel = TRUE] ELSE w
      BY <2>1 DEF Stop
    <3>2. w \in Worker
      BY <1>0 DEF TypeOK
    <3>3. v.pc = w.pc /\ v.part = w.part /\ (w \in ws => v.cancel) /\ (w.cancel => v.cancel)
      BY <3>1, <3>2 DEF Worker
    <3> HIDE DEF ws
    <3>4. QED
      BY <2>1, <2>3, <3>3
  <2>5. QED
    BY <1>0, <1>2, <2>1, <2>2, <2>4, StopKeepsThreads DEF CancelRun, Command, history
<1>3. ASSUME NEW r \in Run, ApproveReduction(r)
      PROVE  /\ LockFree /\ RowMoves /\ UNCHANGED <<workers, up, batch, taken, attempt, reserved, calls, tree, closing, cancelled>>
  BY <1>3 DEF ApproveReduction, Command, history, RowMoves
<1>4. ASSUME NEW p \in Part, SubmitManual(p) \/ WithdrawManual(p) \/ AcknowledgeUnknown(p)
      PROVE  /\ LockFree /\ RowMoves /\ UNCHANGED <<workers, up, batch, taken, attempt, reserved, calls, tree, closing, cancelled>>
  <2>1. RowMoves
    BY <1>0, <1>4 DEF SubmitManual, WithdrawManual, AcknowledgeUnknown, Store, RowMoves, Waiting, Done, TypeOK
  <2>2. QED
    BY <1>4, <2>1 DEF SubmitManual, WithdrawManual, AcknowledgeUnknown, Command, history
<1>5. ASSUME Resume
      PROVE  /\ LockFree /\ RowMoves /\ UNCHANGED <<workers, up, batch, taken, attempt, reserved, calls, tree, closing, cancelled>>
  BY <1>5 DEF Resume, Command, ledger, RowMoves
<1>6. ASSUME Shutdown
      PROVE  /\ LockFree /\ RowMoves /\ SameThreads
             /\ UNCHANGED <<up, batch, taken, attempt, reserved, calls, tree>>
             /\ CancelReachesWorkers'
  <2>1. workers' = Stop(workers)
    BY <1>6 DEF Shutdown
  <2>2. \A v \in workers' : v.cancel
    BY <1>0, <2>1 DEF Stop, TypeOK, Worker
  <2>3. QED
    BY <1>0, <1>6, <2>1, <2>2, StopKeepsThreads DEF Shutdown, ledger, history, RowMoves, CancelReachesWorkers
<1>7. UNCHANGED <<workers, closing, cancelled>> => SameThreads /\ CancelReachesWorkers'
  BY <1>0, UnchangedThreads DEF CancelReachesWorkers
<1>8. QED
  BY <1>1, <1>2, <1>3, <1>4, <1>5, <1>6, <1>7 DEF UserStep

-----------------------------------------------------------------------------
(* The pump.                                                                 *)

LEMMA CallsBegin == Init => CallInv
<1> SUFFICES ASSUME Init PROVE CallInv
  OBVIOUS
<1>1. PumpInv
  BY DEF Init, PumpInv
<1>2. AttemptInv
  BY DEF Init, AttemptInv, Called, Owned, CancelReachesWorkers
<1>3. Slots = {} /\ reserved = {}
  BY DEF Init, Slots
<1>4. SlotsKept /\ BudgetRespected /\ IsFiniteSet(reserved)
  BY <1>3, FS_EmptySet, CoordinatorAssumption DEF SlotsKept, BudgetRespected
<1>5. QED
  BY <1>1, <1>2, <1>4 DEF CallInv

\* Entering pump(), by a command or by a thread that ends.
LEMMA EnterKeeps ==
  ASSUME PumpInv, LockFree, EnterPump, UNCHANGED <<ledger, up, closing, paused, heldOver>>, workers' \subseteq workers
  PROVE  /\ PumpInv' /\ taken' = "none"
         /\ closing \/ Held \/ batch' = Queue
<1>1. batch = {} /\ taken = "none" /\ taken' = "none" /\ up
  BY DEF LockFree, EnterPump, PumpInv
<1>2. Queue' = Queue
  BY DEF ledger, Queue
<1>3. batch' # {} => ~closing /\ ~paused /\ batch' = Queue
  BY DEF EnterPump, Held
<1>4. QED
  BY <1>1, <1>2, <1>3 DEF PumpInv, EnterPump

\* Whom pump() passes over is not in the queue any more, and neither is whom it takes.
LEMMA PassedOver ==
  ASSUME LedgerInv, NEW p \in Queue
  PROVE  Accepting(RunOf[p], phase, cancelled) /\ state[p] = "queued" /\ p \in Part
<1>1. p \in Part /\ state[p] = "queued" /\ RunOf[p] \notin cancelled /\ RunOf[p] \in Run
  BY RosterAssumption DEF Queue
<1>2. phase[RunOf[p]] # "absent"
  BY <1>1 DEF LedgerInv, CreatedTogether
<1>3. ~Settled(RunOf[p], state)
  BY <1>1 DEF Settled, Members, Done
<1>4. phase[RunOf[p]] \notin {"revealed", "collected"}
  BY <1>1, <1>3 DEF LedgerInv, OpenedByGate
<1>5. phase[RunOf[p]] = "drafting"
  BY <1>1, <1>2, <1>4 DEF LedgerInv, TypeOK
<1>6. QED
  BY <1>1, <1>5 DEF Accepting

LEMMA GivenUp ==
  ASSUME LedgerInv, CallInv, NEW p \in Part, PumpGiveUp(p)
  PROVE  /\ First(p) /\ Fresh(p)
         /\ state' = [state EXCEPT ![p] = "rejected"]
<1>1. First(p) /\ Fresh(p)
  BY DEF PumpGiveUp, First, CallInv, AttemptInv
<1>2. Settle(p, attempt[p], "rejected")
  BY NotStartedVerdict DEF PumpGiveUp
<1>3. QED
  BY <1>1, <1>2 DEF Settle, Store, Fresh

LEMMA PumpStays ==
  ASSUME LedgerInv, CallInv, [Next]_vars
  PROVE  PumpInv'
<1>0. PumpInv /\ TypeOK
  BY DEF CallInv, LedgerInv
<1>1. CASE PumpEnter
  BY <1>0, <1>1, EnterKeeps DEF PumpEnter, history
<1>2. ASSUME NEW w \in workers, WorkerExit(w) PROVE PumpInv'
  BY <1>0, <1>2, EnterKeeps DEF WorkerExit, history
<1>3. CASE PumpFull
  BY <1>0, <1>3 DEF PumpFull, PumpInv, history
<1>4. ASSUME NEW p \in Part, PumpTake(p) PROVE PumpInv'
  <2>1. batch # {} /\ p \in batch /\ taken = "none" /\ UNCHANGED <<up, closing, paused, workers, heldOver, cancelled>>
    BY <1>4 DEF PumpTake, history
  <2>2. CASE Accepting(RunOf[p], phase, cancelled) /\ state[p] = "queued"
    <3>1. batch' = batch /\ state' = [state EXCEPT ![p] = "running"]
      BY <1>4, <2>2 DEF PumpTake
    <3>2. Queue' \subseteq Queue
      BY <1>0, <2>1, <3>1 DEF Queue, TypeOK
    <3>3. QED
      BY <1>0, <2>1, <3>1, <3>2 DEF PumpInv
  <2>3. CASE ~(Accepting(RunOf[p], phase, cancelled) /\ state[p] = "queued")
    <3>1. batch' = batch \ {p} /\ UNCHANGED <<state, taken>>
      BY <1>4, <2>3 DEF PumpTake
    <3>2. p \notin Queue
      BY <2>3, PassedOver
    <3>3. Queue' = Queue
      BY <2>1, <3>1 DEF Queue
    <3>4. QED
      BY <1>0, <2>1, <3>1, <3>2, <3>3 DEF PumpInv
  <2>4. QED
    BY <2>2, <2>3
<1>5. ASSUME NEW p \in Part, PumpLaunch(p) \/ PumpGiveUp(p) PROVE PumpInv'
  <2>1. /\ up /\ batch # {} /\ First(p) /\ batch' = batch \ {p} /\ taken' = "none"
        /\ UNCHANGED <<up, closing, paused, heldOver, cancelled>>
    BY <1>5 DEF PumpLaunch, PumpGiveUp, PumpDone, First, history, ledger
  <2>2. Fresh(p)
    BY <1>5, <2>1 DEF PumpLaunch, PumpGiveUp, CallInv, AttemptInv
  <2>3. state' = state \/ state' = [state EXCEPT ![p] = "rejected"]
    BY <1>5, GivenUp DEF PumpLaunch, ledger
  <2>4. Queue' \subseteq Queue \ {p}
    BY <1>0, <2>1, <2>2, <2>3 DEF Queue, Fresh, TypeOK
  <2>5. QED
    BY <1>0, <2>1, <2>4 DEF PumpInv
<1>6. ASSUME NEW w \in workers, Spawn(w) PROVE PumpInv'
  BY <1>0, <1>6 DEF Spawn, PumpInv, ledger, Queue
<1>7. ASSUME NEW w \in workers, Finish(w) \/ FinishLost(w) PROVE PumpInv'
  BY <1>0, <1>7 DEF Finish, FinishLost, LockFree, PumpInv
<1>8. CASE UserStep
  <2>1. batch = {} /\ up /\ UNCHANGED <<up, batch, taken>>
    BY <1>8, UserIsCommand DEF LockFree
  <2>2. heldOver' = {} \/ (heldOver' = heldOver /\ (paused => paused'))
    BY <1>8 DEF UserStep, CreateRun, CancelRun, ApproveReduction, SubmitManual, WithdrawManual, AcknowledgeUnknown, Resume,
                Shutdown, history
  <2>3. QED
    BY <1>0, <2>1, <2>2 DEF PumpInv
<1>9. CASE Crash
  BY <1>9 DEF Crash, PumpInv
<1>10. CASE Restart
  BY <1>0, <1>10 DEF Restart, PumpInv
<1>11. ASSUME NEW p \in Part, TreeEnds(p) PROVE PumpInv'
  BY <1>0, <1>11 DEF TreeEnds, runtime, ledger, history, PumpInv, Queue
<1>12. CASE LingerEnds
  BY <1>0, <1>12 DEF LingerEnds, ledger, history, PumpInv, Queue
<1>13. CASE UNCHANGED vars
  BY <1>0, <1>13 DEF vars, runtime, ledger, history, PumpInv, Queue
<1>14. QED
  BY <1>1, <1>2, <1>3, <1>4, <1>5, <1>6, <1>7, <1>8, <1>9, <1>10, <1>11, <1>12, <1>13
     DEF Next, PumpStep, WorkerStep, WorldStep

-----------------------------------------------------------------------------
(* Slots and reservations.                                                   *)

LEMMA AddOne ==
  ASSUME NEW S, NEW x, NEW T, T = S \union {x}, IsFiniteSet(S)
  PROVE  IsFiniteSet(T) /\ Cardinality(S) \in Nat /\ Cardinality(T) \in Nat /\ Cardinality(T) <= Cardinality(S) + 1
<1>1. Cardinality(S) \in Nat
  BY FS_CardinalityType
<1>2. IsFiniteSet(T) /\ Cardinality(T) = IF x \in S THEN Cardinality(S) ELSE Cardinality(S) + 1
  BY FS_AddElement
<1>3. QED
  BY <1>1, <1>2

LEMMA FewerSlots ==
  ASSUME SlotsKept, Slots' \subseteq Slots
  PROVE  SlotsKept'
<1>1. IsFiniteSet(Slots)
  BY RosterAssumption, FS_Subset DEF Slots
<1>2. Cardinality(Slots') <= Cardinality(Slots) /\ Cardinality(Slots') \in Nat /\ Cardinality(Slots) \in Nat
  BY <1>1, FS_Subset, FS_CardinalityType
<1>3. QED
  BY <1>2, CoordinatorAssumption DEF SlotsKept

LEMMA OneMoreSlot ==
  ASSUME TypeOK, NEW p \in Part, Cardinality(Slots) < MaxParallel, state' = [state EXCEPT ![p] = "running"]
  PROVE  SlotsKept'
<1>1. IsFiniteSet(Slots)
  BY RosterAssumption, FS_Subset DEF Slots
<1>2. Slots' = Slots \union {p}
  BY DEF Slots, TypeOK
<1>3. Cardinality(Slots') <= Cardinality(Slots) + 1 /\ Cardinality(Slots) \in Nat /\ Cardinality(Slots') \in Nat
  BY <1>1, <1>2, AddOne
<1>4. QED
  BY <1>3, CoordinatorAssumption DEF SlotsKept

\* What a settled attempt moves.
LEMMA SettledOne ==
  ASSUME TypeOK, NEW p \in Part, NEW n, NEW s \in Decisions, Settle(p, n, s)
  PROVE  \/ state' = state /\ ~(state[p] = "running" /\ attempt[p] = n)
         \/ state[p] = "running" /\ state' = [state EXCEPT ![p] = s]
BY DEF Settle, Store

\* The end of a thread: the tree is gone, or the row says that it may not be.
LEMMA FinishedOne ==
  ASSUME TypeOK, NEW w \in workers, Finish(w)
  PROVE  \E o \in Outcome, s \in Decisions :
           /\ Return(w, o)
           /\ ~o.confirmed => s = "unknown"
           /\ \/ state' = state /\ ~(state[w.part] = "running" /\ attempt[w.part] = w.attempt)
              \/ state[w.part] = "running" /\ state' = [state EXCEPT ![w.part] = s]
<1>1. w.part \in Part
  BY DEF TypeOK, Worker
<1>2. PICK o \in Outcome : /\ Return(w, o)
                           /\ \/ Settle(w.part, w.attempt, Verdict(RunOf[w.part], o))
                              \/ Settle(w.part, w.attempt, Discarded(o))
  BY DEF Finish
<1>3. /\ Verdict(RunOf[w.part], o) \in Decisions /\ Discarded(o) \in Decisions
      /\ ~o.confirmed => Verdict(RunOf[w.part], o) = "unknown" /\ Discarded(o) = "unknown"
  BY OutcomeVerdicts DEF Verdict, Discarded, Acceptance, Decisions
<1>4. PICK s \in Decisions : Settle(w.part, w.attempt, s) /\ (~o.confirmed => s = "unknown")
  BY <1>2, <1>3
<1>5. QED
  BY <1>1, <1>2, <1>4, SettledOne

LEMMA SlotsStay ==
  ASSUME LedgerInv, CallInv, [Next]_vars
  PROVE  SlotsKept'
<1>0. SlotsKept /\ TypeOK
  BY DEF CallInv, LedgerInv
<1>1. UNCHANGED state => SlotsKept'
  BY <1>0, FewerSlots DEF Slots
<1>2. CASE PumpEnter \/ PumpFull \/ Crash \/ LingerEnds \/ UNCHANGED vars
  BY <1>1, <1>2 DEF PumpEnter, PumpFull, Crash, LingerEnds, vars, ledger
<1>3. ASSUME NEW p \in Part, PumpTake(p) PROVE SlotsKept'
  BY <1>0, <1>1, <1>3, OneMoreSlot DEF PumpTake
<1>4. ASSUME NEW p \in Part, PumpGiveUp(p) PROVE SlotsKept'
  <2>1. Slots' \subseteq Slots
    BY <1>0, <1>4, GivenUp DEF Slots, TypeOK
  <2>2. QED
    BY <1>0, <2>1, FewerSlots
<1>5. ASSUME NEW p \in Part, PumpLaunch(p) \/ TreeEnds(p) PROVE SlotsKept'
  BY <1>1, <1>5 DEF PumpLaunch, TreeEnds, ledger
<1>6. ASSUME NEW w \in workers, Spawn(w) \/ FinishLost(w) \/ WorkerExit(w) PROVE SlotsKept'
  BY <1>1, <1>6 DEF Spawn, FinishLost, WorkerExit, ledger
<1>7. ASSUME NEW w \in workers, Finish(w) PROVE SlotsKept'
  <2>1. w.part \in Part
    BY <1>0 DEF TypeOK, Worker
  <2>2. state' = state \/ (state[w.part] = "running" /\ \E s \in Decisions : state' = [state EXCEPT ![w.part] = s])
    BY <1>0, <1>7, FinishedOne
  <2>3. Slots' \subseteq Slots
    BY <1>0, <2>1, <2>2 DEF Slots, TypeOK
  <2>4. QED
    BY <1>0, <2>3, FewerSlots
<1>8. CASE UserStep
  <2>1. RowMoves
    BY <1>8, UserIsCommand
  <2>2. Slots' \subseteq Slots
    BY <2>1 DEF RowMoves, Slots, Waiting, Done
  <2>3. QED
    BY <1>0, <2>2, FewerSlots
<1>9. CASE Restart
  <2>1. Slots' \subseteq Slots
    BY <1>9 DEF Restart, Slots
  <2>2. QED
    BY <1>0, <2>1, FewerSlots
<1>10. QED
  BY <1>2, <1>3, <1>4, <1>5, <1>6, <1>7, <1>8, <1>9 DEF Next, PumpStep, WorkerStep, WorldStep

\* A reservation more, with room for it.
LEMMA OneMoreCall ==
  ASSUME TypeOK, BudgetRespected, IsFiniteSet(reserved), NEW p \in Part, NEW x, x.part = p,
         reserved' = reserved \union {x}, ~BudgetExhausted(Adapter[p])
  PROVE  BudgetRespected'
<1>1. Cardinality(reserved) \in Nat /\ Cardinality(reserved') \in Nat /\ Cardinality(reserved') <= Cardinality(reserved) + 1
  BY AddOne
<1>2. Cardinality(reserved) < CallCap
  BY <1>1, CoordinatorAssumption DEF BudgetExhausted
<1>3. Cardinality(reserved') <= CallCap
  BY <1>1, <1>2, CoordinatorAssumption
<1>4. ASSUME DOMAIN ProviderCap # {}, NEW y \in reserved'
      PROVE  Adapter[y.part] \in DOMAIN ProviderCap /\ UsedBy(Adapter[y.part])' <= ProviderCap[Adapter[y.part]]
  <2> DEFINE a == Adapter[y.part]
             old == {z \in reserved : Adapter[z.part] = a}
             new == {z \in reserved' : Adapter[z.part] = a}
  <2>1. IsFiniteSet(old) /\ Cardinality(old) \in Nat
    BY FS_Subset, FS_CardinalityType
  <2>2. CASE a = Adapter[p]
    <3>1. new = old \union {x}
      BY <2>2
    <3>2. IsFiniteSet(new) /\ Cardinality(new) \in Nat /\ Cardinality(new) <= Cardinality(old) + 1
      BY <2>1, <3>1, AddOne
    <3>3. a \in DOMAIN ProviderCap /\ ~(Cardinality(old) >= ProviderCap[a])
      BY <1>4, <2>2 DEF BudgetExhausted, UsedBy
    <3>4. ProviderCap[a] \in Nat
      BY <3>3, CoordinatorAssumption
    <3>5. Cardinality(new) <= ProviderCap[a]
      BY <2>1, <3>2, <3>3, <3>4
    <3>6. QED
      BY <3>3, <3>5 DEF UsedBy
  <2>3. CASE a # Adapter[p]
    <3>1. new = old /\ y \in reserved
      BY <1>4, <2>3
    <3>2. a \in DOMAIN ProviderCap /\ Cardinality(old) <= ProviderCap[a]
      BY <1>4, <3>1 DEF BudgetRespected, UsedBy
    <3>3. QED
      BY <3>1, <3>2 DEF UsedBy
  <2>4. QED
    BY <2>2, <2>3
<1>5. QED
  BY <1>3, <1>4 DEF BudgetRespected

\* Only what pump() takes is reserved.
LEMMA ReservesInPump ==
  ASSUME Next
  PROVE  reserved' = reserved \/ \E p \in Part : PumpTake(p)
<1>1. ASSUME NEW p \in Part, PumpLaunch(p) \/ PumpGiveUp(p) \/ TreeEnds(p) PROVE reserved' = reserved
  BY <1>1 DEF PumpLaunch, PumpGiveUp, TreeEnds, ledger
<1>2. ASSUME WorkerStep PROVE reserved' = reserved
  BY <1>2 DEF WorkerStep, Spawn, Finish, FinishLost, WorkerExit, ledger
<1>3. ASSUME UserStep PROVE reserved' = reserved
  BY <1>3 DEF UserStep, CreateRun, CancelRun, ApproveReduction, SubmitManual, WithdrawManual, AcknowledgeUnknown, Resume,
              Shutdown, ledger
<1>4. ASSUME PumpEnter \/ PumpFull \/ Crash \/ Restart \/ LingerEnds PROVE reserved' = reserved
  BY <1>4 DEF PumpEnter, PumpFull, Crash, Restart, LingerEnds, ledger
<1>5. QED
  BY <1>1, <1>2, <1>3, <1>4 DEF Next, PumpStep, WorldStep

LEMMA BudgetStays ==
  ASSUME LedgerInv, BudgetRespected, IsFiniteSet(reserved), [Next]_vars
  PROVE  BudgetRespected' /\ IsFiniteSet(reserved')
<1>1. ASSUME reserved' = reserved PROVE BudgetRespected' /\ IsFiniteSet(reserved')
  BY <1>1 DEF BudgetRespected, UsedBy
<1>2. ASSUME NEW p \in Part, PumpTake(p), reserved' # reserved PROVE BudgetRespected' /\ IsFiniteSet(reserved')
  <2>1. /\ ~BudgetExhausted(Adapter[p])
        /\ reserved' = reserved \union {[part |-> p, attempt |-> attempt[p] + 1]}
    BY <1>2 DEF PumpTake
  <2>2. QED
    BY <2>1, OneMoreCall, FS_AddElement DEF LedgerInv
<1>3. CASE UNCHANGED vars
  BY <1>1, <1>3 DEF vars, ledger
<1>4. QED
  BY <1>1, <1>2, <1>3, ReservesInPump

-----------------------------------------------------------------------------
(* Attempts, from the start transaction to the end of the thread.            *)

\* Steps that look at the queue only.
LEMMA LookKeeps ==
  ASSUME AttemptInv, taken = "none", taken' = "none",
         UNCHANGED <<state, attempt, acked, reserved, calls, tree, cancelled, closing, up, workers>>
  PROVE  AttemptInv'
<1>1. \A w \in workers' : Own(w)'
  BY DEF AttemptInv, Own
<1>2. \A p \in Part : Called(p)'
  BY DEF AttemptInv, Called
<1>3. \A p \in Part : Owned(p)'
  BY DEF AttemptInv, Owned
<1>4. CancelReachesWorkers'
  BY DEF AttemptInv, CancelReachesWorkers
<1>5. QED
  BY <1>1, <1>2, <1>3, <1>4 DEF AttemptInv

\* A thread that has settled leaves nothing that is still to be settled.
LEMMA ExitKeeps ==
  ASSUME CallInv, NEW w \in workers, WorkerExit(w)
  PROVE  AttemptInv'
<1>1. /\ w.pc = "settled" /\ workers' = workers \ {w} /\ taken = "none" /\ taken' = "none"
      /\ UNCHANGED <<state, attempt, acked, reserved, calls, tree, cancelled, closing, up>>
  BY DEF WorkerExit, EnterPump, LockFree, CallInv, PumpInv, ledger, history
<1>2. \A v \in workers' : Own(v)'
  BY <1>1 DEF CallInv, AttemptInv, Own
<1>3. \A p \in Part : Called(p)'
  BY <1>1 DEF CallInv, AttemptInv, Called
<1>4. \A p \in Part : Owned(p)'
  BY <1>1 DEF CallInv, AttemptInv, Owned
<1>5. CancelReachesWorkers'
  BY <1>1 DEF CallInv, AttemptInv, CancelReachesWorkers
<1>6. QED
  BY <1>1, <1>2, <1>3, <1>4, <1>5 DEF AttemptInv

\* The start transaction: the row had no attempt before.
LEMMA TakenKeeps ==
  ASSUME TypeOK, CallInv, NEW p \in Part, PumpTake(p)
  PROVE  AttemptInv'
<1>1. /\ First(p) /\ taken = "none"
      /\ UNCHANGED <<acked, calls, tree, cancelled, closing, up, workers, createdAt>>
  BY DEF PumpTake, First, history
<1>2. CASE Accepting(RunOf[p], phase, cancelled) /\ state[p] = "queued"
  <2> DEFINE x == [part |-> p, attempt |-> attempt[p] + 1]
  <2>1. /\ state' = [state EXCEPT ![p] = "running"] /\ attempt' = [attempt EXCEPT ![p] = @ + 1]
        /\ taken' \in {"ready", "refused"} /\ batch' = batch /\ reserved \subseteq reserved'
        /\ taken' = "ready" /\ RealCalls => x \in reserved'
    BY <1>2 DEF PumpTake
  <2>2. Called(p) /\ state[p] \in Waiting
    BY <1>2 DEF CallInv, AttemptInv, Waiting
  <2>3. /\ state'[p] = "running" /\ attempt'[p] = attempt[p] + 1 /\ calls[p] = 0 /\ tree[p] = "none"
        /\ \A w \in workers : w.part # p
        /\ \A q \in Part : q # p => state'[q] = state[q] /\ attempt'[q] = attempt[q]
    BY <2>1, <2>2 DEF Called, TypeOK
  <2>4. First(p)' /\ \A q \in Part : First(q)' => q = p
    <3>1. \A q \in Part : First(q)' <=> First(q)
      BY <1>1, <2>1 DEF First, Before
    <3>2. QED
      BY <1>1, <3>1, FirstIsOne
  <2>5. Fresh(p)'
    BY <1>1, <1>2, <2>1, <2>3 DEF Fresh, Accepting
  <2>6. ASSUME NEW w \in workers' PROVE Own(w)'
    <3>1. w \in workers /\ w.part # p /\ w.part \in Part /\ Own(w)
      BY <1>1, <2>3 DEF CallInv, AttemptInv, TypeOK, Worker
    <3>2. state'[w.part] = state[w.part] /\ attempt'[w.part] = attempt[w.part]
      BY <2>3, <3>1
    <3>3. QED
      BY <1>1, <2>1, <3>1, <3>2 DEF Own
  <2>7. ASSUME NEW q \in Part PROVE Called(q)' /\ Owned(q)'
    <3>1. Called(q) /\ Owned(q)
      BY DEF CallInv, AttemptInv
    <3>2. CASE q = p
      BY <1>1, <2>1, <2>3, <2>4, <3>2 DEF Called, Owned, Waiting
    <3>3. CASE q # p
      <4>1. state'[q] = state[q] /\ attempt'[q] = attempt[q]
        BY <2>3, <3>3
      <4>2. QED
        BY <1>1, <2>1, <3>1, <4>1 DEF Called, Owned
    <3>4. QED
      BY <3>2, <3>3
  <2>8. CancelReachesWorkers'
    BY <1>1 DEF CallInv, AttemptInv, CancelReachesWorkers
  <2>9. QED
    BY <2>4, <2>5, <2>6, <2>7, <2>8 DEF AttemptInv
<1>3. CASE ~(Accepting(RunOf[p], phase, cancelled) /\ state[p] = "queued")
  <2>1. UNCHANGED <<state, attempt, reserved, taken>>
    BY <1>3 DEF PumpTake
  <2>2. QED
    BY <1>1, <2>1, LookKeeps DEF CallInv
<1>4. QED
  BY <1>2, <1>3

\* The thread of the row that was taken is its only one.
LEMMA LaunchKeeps ==
  ASSUME TypeOK, CallInv, NEW p \in Part, PumpLaunch(p)
  PROVE  AttemptInv'
<1> DEFINE n == [part |-> p, attempt |-> attempt[p], pc |-> "starting", cancel |-> FALSE]
<1>1. /\ First(p) /\ taken = "ready" /\ taken' = "none" /\ workers' = workers \union {n}
      /\ UNCHANGED <<state, attempt, acked, reserved, calls, tree, cancelled, closing, up>>
  BY DEF PumpLaunch, PumpDone, First, ledger, history
<1>2. Fresh(p)
  BY <1>1 DEF CallInv, AttemptInv
<1>3. n.part = p /\ n.attempt = attempt[p] /\ n.pc = "starting"
  OBVIOUS
<1> HIDE DEF n
<1>4. ASSUME NEW w \in workers' PROVE Own(w)'
  <2>1. CASE w \in workers
    <3>1. Own(w) /\ w.part # p
      BY <1>2, <2>1 DEF CallInv, AttemptInv, Fresh
    <3>2. QED
      BY <1>1, <1>3, <3>1 DEF Own
  <2>2. CASE w = n
    <3>1. /\ w.attempt = attempt'[w.part] /\ state'[w.part] = "running" /\ calls'[w.part] = 0 /\ tree'[w.part] = "none"
          /\ RealCalls => [part |-> w.part, attempt |-> w.attempt] \in reserved'
      BY <1>1, <1>2, <1>3, <2>2 DEF Fresh
    <3>2. \A v \in workers' : v.part = w.part => v = w
      BY <1>1, <1>2, <1>3, <2>2 DEF Fresh
    <3>3. QED
      BY <3>1, <3>2 DEF Own
  <2>3. QED
    BY <1>1, <2>1, <2>2
<1>5. ASSUME NEW q \in Part PROVE Called(q)' /\ Owned(q)'
  <2>1. Called(q) /\ Owned(q)
    BY DEF CallInv, AttemptInv
  <2>2. Called(q)'
    BY <1>1, <1>2, <1>3, <2>1 DEF Called, Fresh, Waiting
  <2>3. q = p \/ ~First(q)
    BY <1>1, FirstIsOne
  <2>4. Owned(q)'
    BY <1>1, <1>3, <2>1, <2>3 DEF Owned
  <2>5. QED
    BY <2>2, <2>4
<1>6. CancelReachesWorkers'
  <2>1. ~closing /\ RunOf[p] \notin cancelled
    BY <1>1, <1>2 DEF First, Fresh, CallInv, PumpInv
  <2>2. QED
    BY <1>1, <1>3, <2>1 DEF CallInv, AttemptInv, CancelReachesWorkers
<1>7. QED
  BY <1>1, <1>4, <1>5, <1>6 DEF AttemptInv

LEMMA GiveUpKeeps ==
  ASSUME LedgerInv, CallInv, NEW p \in Part, PumpGiveUp(p)
  PROVE  AttemptInv'
<1>1. /\ First(p) /\ Fresh(p) /\ state' = [state EXCEPT ![p] = "rejected"]
      /\ taken' = "none" /\ UNCHANGED <<attempt, acked, reserved, calls, tree, cancelled, closing, up, workers>>
  BY GivenUp DEF PumpGiveUp, PumpDone, history
<1>2. state'[p] = "rejected" /\ \A q \in Part : q # p => state'[q] = state[q] /\ ~First(q)
  BY <1>1, FirstIsOne DEF LedgerInv, TypeOK
<1>3. ASSUME NEW w \in workers' PROVE Own(w)'
  <2>1. w \in workers /\ w.part # p /\ w.part \in Part /\ Own(w)
    BY <1>1 DEF Fresh, CallInv, AttemptInv, LedgerInv, TypeOK, Worker
  <2>2. QED
    BY <1>1, <1>2, <2>1 DEF Own
<1>4. ASSUME NEW q \in Part PROVE Called(q)' /\ Owned(q)'
  <2>1. Called(q) /\ Owned(q)
    BY DEF CallInv, AttemptInv
  <2>2. CASE q = p
    BY <1>1, <1>2, <2>1, <2>2 DEF Called, Owned, Fresh, Waiting
  <2>3. CASE q # p
    BY <1>1, <1>2, <2>1, <2>3 DEF Called, Owned
  <2>4. QED
    BY <2>2, <2>3
<1>5. CancelReachesWorkers'
  BY <1>1 DEF CallInv, AttemptInv, CancelReachesWorkers
<1>6. QED
  BY <1>1, <1>3, <1>4, <1>5 DEF AttemptInv

\* A process is started by the only thread of its row, and only once.
LEMMA SpawnKeeps ==
  ASSUME TypeOK, CallInv, NEW w \in workers, Spawn(w)
  PROVE  AttemptInv'
<1> DEFINE v == [w EXCEPT !.pc = "spawned"]
           p == w.part
<1>1. /\ w.pc = "starting" /\ up /\ workers' = (workers \ {w}) \union {v}
      /\ calls' = [calls EXCEPT ![p] = @ + 1] /\ tree' = [tree EXCEPT ![p] = "alive"]
      /\ UNCHANGED <<state, attempt, acked, reserved, cancelled, createdAt, closing, up, batch, taken>>
  BY DEF Spawn, ledger
<1>2. v.part = p /\ v.attempt = w.attempt /\ v.pc = "spawned" /\ v.cancel = w.cancel /\ p \in Part
  BY DEF TypeOK, Worker
<1>3. Own(w) /\ state[p] = "running" /\ calls[p] = 0
  BY <1>1 DEF CallInv, AttemptInv, Own
<1> HIDE DEF v, p
<1>4. calls'[p] = 1 /\ tree'[p] = "alive" /\ \A q \in Part : q # p => calls'[q] = calls[q] /\ tree'[q] = tree[q]
  BY <1>1, <1>2, <1>3 DEF TypeOK
<1>5. \A x \in workers : x.part = p => x = w
  BY <1>3 DEF Own, p
<1>6. ASSUME NEW q \in Part, taken' # "none", First(q)' PROVE Fresh(q)'
  <2>1. Fresh(q) /\ q # p
    BY <1>1, <1>6 DEF First, Before, Fresh, CallInv, AttemptInv, p
  <2>2. QED
    BY <1>1, <1>2, <1>4, <2>1 DEF Fresh
<1>7. ASSUME NEW x \in workers' PROVE Own(x)'
  <2>1. CASE x = v
    BY <1>1, <1>2, <1>3, <1>5, <2>1 DEF Own, p
  <2>2. CASE x # v
    <3>1. x \in workers /\ x.part # p /\ x.part \in Part /\ Own(x)
      BY <1>1, <1>5, <2>2 DEF CallInv, AttemptInv, TypeOK, Worker
    <3>2. QED
      BY <1>1, <1>2, <1>4, <3>1 DEF Own
  <2>3. QED
    BY <2>1, <2>2
<1>8. ASSUME NEW q \in Part PROVE Called(q)' /\ Owned(q)'
  <2>1. Called(q) /\ Owned(q)
    BY DEF CallInv, AttemptInv
  <2>2. CASE q = p
    <3>1. RealCalls => [part |-> q, attempt |-> attempt[q]] \in reserved
      BY <1>3, <2>2 DEF Own, p
    <3>2. v \in workers' /\ v.part = q /\ v.pc # "settled"
      BY <1>1, <1>2, <2>2
    <3>3. QED
      BY <1>1, <1>3, <1>4, <2>2, <3>1, <3>2 DEF Called, Owned, Waiting
  <2>3. CASE q # p
    <3>1. Called(q)'
      BY <1>1, <1>2, <1>4, <2>1, <2>3 DEF Called
    <3>2. Owned(q)'
      BY <1>1, <1>5, <2>1, <2>3 DEF Owned, First, Before, p
    <3>3. QED
      BY <3>1, <3>2
  <2>4. QED
    BY <2>2, <2>3
<1>9. CancelReachesWorkers'
  BY <1>1, <1>2 DEF CallInv, AttemptInv, CancelReachesWorkers, p
<1>10. QED
  BY <1>6, <1>7, <1>8, <1>9 DEF AttemptInv

\* The thread has its result: its row is settled by it or, if nothing can be
\* stored, stays running; the tree is gone unless the row says it may not be.
LEMMA ReturnKeeps ==
  ASSUME TypeOK, CallInv, LockFree, NEW w \in workers, w.pc # "settled", NEW o \in Outcome, Return(w, o),
         UNCHANGED <<attempt, acked, reserved, calls, cancelled, closing, up, batch, taken>>,
         \/ state' = state /\ StoreFaults
         \/ \E s \in Decisions : state' = [state EXCEPT ![w.part] = s] /\ (~o.confirmed => s = "unknown")
  PROVE  AttemptInv'
<1> DEFINE v == [w EXCEPT !.pc = "settled"]
           p == w.part
<1>1. /\ workers' = (workers \ {w}) \union {v} /\ taken = "none" /\ taken' = "none"
      /\ tree' = IF w.pc = "spawned" /\ o.confirmed THEN [tree EXCEPT ![p] = "gone"] ELSE tree
  BY DEF Return, LockFree, CallInv, PumpInv
<1>2. v.part = p /\ v.attempt = w.attempt /\ v.pc = "settled" /\ p \in Part
  BY DEF TypeOK, Worker
<1>3. Own(w) /\ Called(p) /\ state[p] = "running" /\ w.pc \in {"starting", "spawned"}
  BY DEF CallInv, AttemptInv, Own, TypeOK, Worker
<1>4. \A x \in workers : x.part = p => x = w
  BY <1>3 DEF Own, p
<1>5. \A q \in Part : q # p => state'[q] = state[q] /\ tree'[q] = tree[q]
  BY <1>1 DEF TypeOK, p
<1>6. /\ tree'[p] = "alive" => state'[p] \in {"running", "unknown"}
      /\ state'[p] \notin Waiting
  <2>1. CASE state' = state
    BY <1>3, <2>1 DEF Waiting
  <2>2. ASSUME NEW s \in Decisions, state' = [state EXCEPT ![p] = s], ~o.confirmed => s = "unknown"
        PROVE  state'[p] \notin Waiting /\ (tree'[p] = "alive" => state'[p] = "unknown")
    <3>1. state'[p] = s
      BY <1>2, <2>2 DEF TypeOK
    <3>2. CASE ~o.confirmed
      BY <2>2, <3>1, <3>2 DEF Waiting
    <3>3. CASE o.confirmed
      <4>1. tree'[p] # "alive"
        BY <1>1, <1>2, <1>3, <3>3 DEF Own, TypeOK, p
      <4>2. QED
        BY <3>1, <4>1 DEF Waiting, Decisions
    <3>4. QED
      BY <3>2, <3>3
  <2>3. QED
    BY <2>1, <2>2 DEF p
<1>7. ~StoreFaults => state'[p] # "running"
  BY <1>2 DEF TypeOK, Decisions, p
<1> HIDE DEF v
<1>8. ASSUME NEW x \in workers' PROVE Own(x)'
  <2>1. CASE x = v
    BY <1>1, <1>2, <1>3, <1>4, <2>1 DEF Own
  <2>2. CASE x # v
    <3>1. x \in workers /\ x.part # p /\ x.part \in Part /\ Own(x)
      BY <1>1, <1>4, <2>2 DEF CallInv, AttemptInv, TypeOK, Worker
    <3>2. QED
      BY <1>1, <1>2, <1>5, <3>1 DEF Own
  <2>3. QED
    BY <2>1, <2>2
<1>9. ASSUME NEW q \in Part PROVE Called(q)' /\ Owned(q)'
  <2>1. Called(q) /\ Owned(q)
    BY DEF CallInv, AttemptInv
  <2>2. CASE q = p
    BY <1>3, <1>6, <1>7, <2>2 DEF Called, Owned
  <2>3. CASE q # p
    BY <1>1, <1>2, <1>5, <2>1, <2>3 DEF Called, Owned
  <2>4. QED
    BY <2>2, <2>3
<1>10. CancelReachesWorkers'
  BY <1>1, <1>2 DEF CallInv, AttemptInv, CancelReachesWorkers
<1>11. QED
  BY <1>1, <1>8, <1>9, <1>10 DEF AttemptInv

\* A recovery finds no thread, and every attempt that was running unknown.
LEMMA RestartKeepsCalls ==
  ASSUME TypeOK, CallInv, Restart
  PROVE  AttemptInv'
<1>1. /\ workers = {} /\ workers' = {} /\ taken' = "none" /\ closing' = closing
      /\ UNCHANGED <<attempt, acked, reserved, calls, tree>>
  BY DEF Restart, CallInv, PumpInv
<1>2. \A p \in Part : state'[p] = IF state[p] = "running" THEN "unknown" ELSE state[p]
  BY DEF Restart
<1>3. ASSUME NEW p \in Part PROVE Called(p)' /\ Owned(p)'
  <2>1. Called(p)
    BY DEF CallInv, AttemptInv
  <2>2. QED
    BY <1>1, <1>2, <2>1 DEF Called, Owned, Waiting
<1>4. QED
  BY <1>1, <1>3 DEF AttemptInv, CancelReachesWorkers

LEMMA AttemptsStay ==
  ASSUME LedgerInv, CallInv, [Next]_vars
  PROVE  AttemptInv'
<1>0. TypeOK /\ AttemptInv
  BY DEF LedgerInv, CallInv
<1>1. CASE PumpEnter \/ PumpFull
  <2>1. /\ taken = "none" /\ taken' = "none"
        /\ UNCHANGED <<state, attempt, acked, reserved, calls, tree, cancelled, closing, up, workers>>
    BY <1>1 DEF PumpEnter, PumpFull, EnterPump, LockFree, CallInv, PumpInv, ledger, history
  <2>2. QED
    BY <1>0, <2>1, LookKeeps
<1>2. ASSUME NEW p \in Part, PumpTake(p) \/ PumpLaunch(p) \/ PumpGiveUp(p) PROVE AttemptInv'
  BY <1>0, <1>2, TakenKeeps, LaunchKeeps, GiveUpKeeps
<1>3. ASSUME NEW w \in workers, Spawn(w) \/ WorkerExit(w) PROVE AttemptInv'
  BY <1>0, <1>3, SpawnKeeps, ExitKeeps
<1>4. ASSUME NEW w \in workers, Finish(w) PROVE AttemptInv'
  <2>1. /\ LockFree /\ w.pc # "settled"
        /\ UNCHANGED <<attempt, acked, reserved, calls, cancelled, closing, up, batch, taken>>
    BY <1>4 DEF Finish
  <2>2. state[w.part] = "running" /\ attempt[w.part] = w.attempt
    BY <1>0, <2>1 DEF AttemptInv, Own
  <2>3. PICK o \in Outcome, s \in Decisions :
           Return(w, o) /\ (~o.confirmed => s = "unknown") /\ state' = [state EXCEPT ![w.part] = s]
    BY <1>0, <1>4, <2>2, FinishedOne
  <2>4. QED
    BY <1>0, <2>1, <2>3, ReturnKeeps
<1>5. ASSUME NEW w \in workers, FinishLost(w) PROVE AttemptInv'
  <2>1. /\ StoreFaults /\ LockFree /\ w.pc # "settled" /\ \E o \in Outcome : Return(w, o)
        /\ UNCHANGED <<state, attempt, acked, reserved, calls, cancelled, closing, up, batch, taken>>
    BY <1>5 DEF FinishLost, ledger
  <2>2. QED
    BY <1>0, <2>1, ReturnKeeps
<1>6. CASE UserStep
  <2>1. /\ LockFree /\ RowMoves /\ SameThreads
        /\ UNCHANGED <<up, batch, taken, attempt, reserved, calls, tree>>
        /\ CancelReachesWorkers'
    BY <1>6, UserIsCommand
  <2>2. QED
    BY <1>0, <2>1, CommandKeeps DEF AttemptInv
<1>7. CASE Crash
  <2>1. /\ workers' = {} /\ taken' = "none" /\ ~up'
        /\ UNCHANGED <<state, attempt, acked, reserved, calls, tree>>
    BY <1>7 DEF Crash, ledger, history
  <2>2. QED
    BY <1>0, <2>1 DEF AttemptInv, Called, Owned, CancelReachesWorkers
<1>8. CASE Restart
  BY <1>0, <1>8, RestartKeepsCalls
<1>9. ASSUME NEW p \in Part, TreeEnds(p) PROVE AttemptInv'
  <2>1. /\ tree[p] = "alive" /\ \A q \in Part : tree'[q] = tree[q] \/ (q = p /\ tree'[q] = "gone")
        /\ UNCHANGED <<state, attempt, acked, reserved, calls, cancelled, createdAt, closing, up, workers, batch, taken>>
    BY <1>0, <1>9 DEF TreeEnds, ledger, runtime, TypeOK
  <2>2. \A q \in Part : First(q)' => First(q)
    BY <2>1 DEF First, Before
  <2>3. ASSUME NEW q \in Part, taken' # "none", First(q)' PROVE Fresh(q)'
    BY <1>0, <2>1, <2>2, <2>3 DEF AttemptInv, Fresh
  <2>4. ASSUME NEW w \in workers' PROVE Own(w)'
    <3>1. w \in workers /\ Own(w) /\ w.part \in Part
      BY <1>0, <2>1 DEF AttemptInv, TypeOK, Worker
    <3>2. QED
      BY <2>1, <3>1 DEF Own
  <2>5. ASSUME NEW q \in Part PROVE Called(q)' /\ Owned(q)'
    <3>1. Called(q) /\ Owned(q)
      BY <1>0 DEF AttemptInv
    <3>2. Called(q)'
      BY <2>1, <3>1 DEF Called
    <3>3. Owned(q)'
      BY <2>1, <3>1 DEF Owned, First, Before
    <3>4. QED
      BY <3>2, <3>3
  <2>6. CancelReachesWorkers'
    BY <1>0, <2>1 DEF AttemptInv, CancelReachesWorkers
  <2>7. QED
    BY <2>3, <2>4, <2>5, <2>6 DEF AttemptInv
<1>10. CASE LingerEnds \/ UNCHANGED vars
  <2>1. UNCHANGED <<state, attempt, acked, reserved, calls, tree, cancelled, createdAt, closing, up, workers, batch, taken>>
    BY <1>10 DEF LingerEnds, vars, ledger, runtime, history
  <2>2. QED
    BY <1>0, <2>1 DEF AttemptInv, First, Before, Fresh, Own, Called, Owned, CancelReachesWorkers
<1>11. QED
  BY <1>1, <1>2, <1>3, <1>4, <1>5, <1>6, <1>7, <1>8, <1>9, <1>10 DEF Next, PumpStep, WorkerStep, WorldStep

-----------------------------------------------------------------------------
(* The theorems.                                                             *)

\* In every state, one inside pump() or after a crash included, each thread is the
\* only one of a row it may settle, and each row says what may be alive (pump,
\* _run, _recover).
THEOREM AttemptsAreTracked == Spec => [](LedgerInv /\ CallInv)
<1>1. Init => LedgerInv /\ CallInv
  BY InitLedger, CallsBegin
<1>2. LedgerInv /\ CallInv /\ [Next]_vars => (LedgerInv /\ CallInv)'
  BY NextLedger, PumpStays, AttemptsStay, SlotsStay, BudgetStays DEF CallInv
<1>3. QED
  BY <1>1, <1>2, PTL DEF Spec

\* A result, a cancellation, a refusal or a restart never closes an attempt over a
\* live process, for any roster (acceptance, _recover).
THEOREM NoTreeForgotten == Spec => []NoForgottenTree
<1>1. CallInv => NoForgottenTree
  BY DEF CallInv, AttemptInv, Called, NoForgottenTree
<1>2. QED
  BY <1>1, AttemptsAreTracked, PTL

\* No more live trees than slots, no second call of anybody and no call beyond a
\* cap, for every bound and however calls end or are lost (pump, reserve).
THEOREM CallsStayBounded == Spec => []CallsBounded
<1>1. TypeOK /\ CallInv => ParallelBound
  <2> SUFFICES ASSUME TypeOK, CallInv PROVE ParallelBound
    OBVIOUS
  <2> DEFINE live == {p \in Part \ acked : tree[p] = "alive"}
  <2>1. live \subseteq Slots
    BY DEF CallInv, AttemptInv, Called, Slots
  <2>2. IsFiniteSet(Slots)
    BY RosterAssumption, FS_Subset DEF Slots
  <2>3. Cardinality(live) <= Cardinality(Slots) /\ Cardinality(live) \in Nat /\ Cardinality(Slots) \in Nat
    BY <2>1, <2>2, FS_Subset, FS_CardinalityType
  <2>4. QED
    BY <2>3, CoordinatorAssumption DEF ParallelBound, CallInv, SlotsKept
<1>2. CallInv => CalledOnce
  BY DEF CallInv, AttemptInv, Called, CalledOnce
<1>3. LedgerInv /\ CallInv => CallsBounded
  BY <1>1, <1>2 DEF LedgerInv, CallInv, CallsBounded
<1>4. QED
  BY <1>3, AttemptsAreTracked, PTL

\* Every running row has somebody who will settle it, and every call in flight has
\* heard of the cancel or the shutdown that concerns it (cancel_run, shutdown).
THEOREM WorkersStayInCharge == Spec => []WorkersInCharge
<1>1. CallInv => RunningIsOwned
  <2> SUFFICES ASSUME CallInv, up /\ ~StoreFaults, NEW p \in Part, state[p] = "running"
               PROVE  \/ p \in batch /\ taken # "none"
                      \/ \E w \in workers : w.part = p /\ w.attempt = attempt[p] /\ w.pc # "settled"
    BY DEF RunningIsOwned
  <2>1. CASE taken # "none" /\ First(p)
    BY <2>1 DEF First
  <2>2. ASSUME NEW w \in workers, w.part = p, w.pc # "settled" PROVE w.attempt = attempt[p]
    BY <2>2 DEF CallInv, AttemptInv, Own
  <2>3. QED
    BY <2>1, <2>2 DEF CallInv, AttemptInv, Owned
<1>2. CallInv => WorkersInCharge
  BY <1>1 DEF CallInv, AttemptInv, WorkersInCharge
<1>3. QED
  BY <1>2, AttemptsAreTracked, PTL

-----------------------------------------------------------------------------
(* What moves the queue.                                                     *)

\* A row is given an attempt by pump() only, with nothing held over.
LEMMA AttemptsBegin ==
  ASSUME LedgerInv, CallInv, [Next]_vars
  PROVE  \A p \in heldOver : attempt'[p] = attempt[p]
<1>1. ASSUME NEW p \in Part, PumpTake(p) PROVE heldOver = {}
  BY <1>1 DEF PumpTake, CallInv, PumpInv
<1>2. ASSUME NEW p \in Part, PumpLaunch(p) \/ PumpGiveUp(p) \/ TreeEnds(p) PROVE attempt' = attempt
  BY <1>2 DEF PumpLaunch, PumpGiveUp, TreeEnds, ledger
<1>3. ASSUME WorkerStep PROVE attempt' = attempt
  BY <1>3 DEF WorkerStep, Spawn, Finish, FinishLost, WorkerExit, ledger
<1>4. ASSUME UserStep PROVE attempt' = attempt
  BY <1>4, UserIsCommand
<1>5. ASSUME PumpEnter \/ PumpFull \/ Crash \/ Restart \/ LingerEnds \/ UNCHANGED vars PROVE attempt' = attempt
  BY <1>5 DEF PumpEnter, PumpFull, Crash, Restart, LingerEnds, vars, ledger
<1>6. QED
  BY <1>1, <1>2, <1>3, <1>4, <1>5 DEF Next, PumpStep, WorldStep

LEMMA DecidedStays ==
  ASSUME LedgerInv, [Next]_vars
  PROVE  \A p \in Part : state[p] \in Done => state'[p] = state[p]
<1> SUFFICES ASSUME NEW p \in Part, state[p] \in Done PROVE state'[p] = state[p]
  OBVIOUS
<1>1. LedgerStep
  BY NextLedgerStep DEF LedgerInv
<1>2. ASSUME NEW q \in Part, TakeStep(q) PROVE state'[p] = state[p]
  BY <1>2 DEF TakeStep, Done, LedgerInv, TypeOK
<1>3. ASSUME NEW q \in Part, NEW s \in Decisions, StoreStep(q, s) PROVE state'[p] = state[p]
  BY <1>3 DEF StoreStep, Store, Done, LedgerInv, TypeOK
<1>4. ASSUME NEW r \in Run, CreateRun(r) PROVE state'[p] = state[p]
  <2>1. RunOf[p] # r
    BY <1>4 DEF CreateRun, LedgerInv, CreatedTogether, Done
  <2>2. QED
    BY <1>4, <2>1 DEF CreateRun
<1>5. ASSUME NEW r \in Run, CancelRun(r) \/ ApproveReduction(r) PROVE state'[p] = state[p]
  BY <1>5 DEF CancelRun, Unstarted, ApproveReduction, Done
<1>6. CASE Restart \/ SameRuns
  BY <1>6 DEF Restart, SameRuns, Done
<1>7. QED
  BY <1>1, <1>2, <1>3, <1>4, <1>5, <1>6 DEF LedgerStep

LEMMA ReservationsStay ==
  ASSUME [Next]_vars
  PROVE  reserved \subseteq reserved'
BY ReservesInPump DEF PumpTake, vars, ledger

\* The ways pump() is left: the queue is empty, held, or there is no slot.
LEMMA LeavesNothing ==
  ASSUME LedgerInv, CallInv, [Next]_vars, Stalled', ~Stalled
  PROVE  lingering' < lingering
<1>0. /\ up' /\ batch' = {} /\ ~closing' /\ ~Held' /\ owed' = 0 /\ Queue' # {}
      /\ ~(Cardinality(Slots') >= MaxParallel) /\ \A w \in workers' : w.pc # "settled"
  <2>1. Cardinality(Slots') \in Nat
    BY RosterAssumption, FS_Subset, FS_CardinalityType DEF Slots
  <2>2. QED
    BY <2>1, CoordinatorAssumption DEF Stalled, LockFree
<1>1. ASSUME EnterPump, LockFree, UNCHANGED <<ledger, closing, paused, lingering>> PROVE FALSE
  <2>1. Queue' = Queue /\ Held' = Held
    BY <1>1 DEF ledger, Queue, Held, Unknown
  <2>2. QED
    BY <1>0, <1>1, <2>1 DEF EnterPump
<1>2. CASE PumpEnter \/ \E w \in workers : WorkerExit(w)
  BY <1>1, <1>2 DEF PumpEnter, WorkerExit
<1>3. CASE PumpFull
  BY <1>0, <1>3 DEF PumpFull, ledger, Slots
<1>4. CASE \E p \in Part : PumpTake(p) \/ PumpLaunch(p) \/ PumpGiveUp(p)
  <2>1. batch # {} /\ Queue \subseteq batch
    BY <1>4 DEF PumpTake, PumpLaunch, PumpGiveUp, CallInv, PumpInv
  <2>2. PumpInv'
    BY PumpStays
  <2>3. ASSUME NEW p \in Part, PumpTake(p) PROVE Queue' \subseteq batch'
    <3>1. CASE Accepting(RunOf[p], phase, cancelled) /\ state[p] = "queued"
      BY <1>0, <2>1, <2>3, <3>1 DEF PumpTake
    <3>2. CASE ~(Accepting(RunOf[p], phase, cancelled) /\ state[p] = "queued")
      <4>1. batch' = batch \ {p} /\ UNCHANGED <<state, cancelled>>
        BY <2>3, <3>2 DEF PumpTake
      <4>2. p \notin Queue /\ Queue' = Queue
        BY <3>2, <4>1, PassedOver DEF Queue
      <4>3. QED
        BY <2>1, <4>1, <4>2
    <3>3. QED
      BY <3>1, <3>2
  <2>4. ASSUME NEW p \in Part, PumpLaunch(p) \/ PumpGiveUp(p) PROVE Queue' \subseteq batch'
    <3>1. First(p) /\ batch' = batch \ {p} /\ cancelled' = cancelled
      BY <2>4 DEF PumpLaunch, PumpGiveUp, PumpDone, First, ledger
    <3>2. Fresh(p)
      BY <2>4, <3>1 DEF PumpLaunch, PumpGiveUp, CallInv, AttemptInv
    <3>3. state' = state \/ state' = [state EXCEPT ![p] = "rejected"]
      BY <2>4, GivenUp DEF PumpLaunch, ledger
    <3>4. Queue' \subseteq Queue \ {p}
      BY <3>1, <3>2, <3>3 DEF Queue, Fresh, LedgerInv, TypeOK
    <3>5. QED
      BY <2>1, <3>1, <3>4
  <2>5. QED
    BY <1>0, <1>4, <2>3, <2>4
<1>5. ASSUME NEW w \in workers, Spawn(w) PROVE FALSE
  <2>1. /\ w.pc = "starting" /\ workers' = (workers \ {w}) \union {[w EXCEPT !.pc = "spawned"]}
        /\ UNCHANGED <<ledger, up, closing, paused, batch, owed, lingering>>
    BY <1>5 DEF Spawn
  <2>2. \A x \in workers : x.pc # "settled"
    BY <1>0, <2>1
  <2>3. QED
    BY <2>1, <2>2 DEF Stalled, LockFree, Held, Unknown, Slots, Queue, ledger
<1>6. ASSUME NEW w \in workers, Finish(w) \/ FinishLost(w) PROVE FALSE
  <2>1. workers' = (workers \ {w}) \union {[w EXCEPT !.pc = "settled"]} /\ w \in Worker
    BY <1>6 DEF Finish, FinishLost, Return, LedgerInv, TypeOK
  <2>2. [w EXCEPT !.pc = "settled"].pc = "settled"
    BY <2>1 DEF Worker
  <2>3. QED
    BY <1>0, <2>1, <2>2
<1>7. CASE UserStep
  <2>1. owed' = owed + 1 \/ closing'
    BY <1>7 DEF UserStep, CreateRun, CancelRun, ApproveReduction, SubmitManual, WithdrawManual, AcknowledgeUnknown, Resume,
                Shutdown, Command
  <2>2. QED
    BY <1>0, <2>1 DEF LedgerInv, TypeOK
<1>8. CASE Crash
  BY <1>0, <1>8 DEF Crash
<1>9. CASE Restart
  <2>1. ~paused' /\ paused' = (Queue # {}) /\ cancelled' = cancelled
    BY <1>0, <1>9 DEF Restart, Held
  <2>2. Queue' \subseteq Queue
    BY <1>9, <2>1 DEF Restart, Queue
  <2>3. QED
    BY <1>0, <2>1, <2>2
<1>10. CASE LingerEnds
  BY <1>10 DEF LingerEnds, LedgerInv, TypeOK
<1>11. CASE UNCHANGED vars \/ \E p \in Part : TreeEnds(p)
  <2>1. UNCHANGED <<ledger, runtime>>
    BY <1>11 DEF TreeEnds, vars
  <2>2. QED
    BY <2>1 DEF ledger, runtime, Stalled, LockFree, Held, Unknown, Slots, Queue
<1>12. QED
  BY <1>2, <1>3, <1>4, <1>5, <1>6, <1>7, <1>8, <1>9, <1>10, <1>11 DEF Next, PumpStep, WorkerStep, WorldStep

\* No wake-up is lost, what a restart found queued waits for the user, and nothing
\* reserved or decided is taken back, for every roster and bound (pump, resume).
THEOREM QueueStaysMoving == Spec => QueueMoves
<1>1. LedgerInv /\ CallInv /\ [Next]_vars => [Stalled' /\ ~Stalled => lingering' < lingering]_vars
  BY LeavesNothing
<1>2. LedgerInv /\ CallInv /\ [Next]_vars => [\A p \in heldOver : attempt'[p] = attempt[p]]_vars
  BY AttemptsBegin
<1>3. LedgerInv /\ CallInv /\ [Next]_vars =>
        [/\ reserved \subseteq reserved'
         /\ \A p \in Part : state[p] \in Done => state'[p] = state[p]]_vars
  BY ReservationsStay, DecidedStays
<1>4. Spec => NoLostWakeup
  BY <1>1, AttemptsAreTracked, PTL DEF Spec, NoLostWakeup
<1>5. Spec => RestartWaitsForUser
  BY <1>2, AttemptsAreTracked, PTL DEF Spec, RestartWaitsForUser
<1>6. Spec => NothingRefunded
  BY <1>3, AttemptsAreTracked, PTL DEF Spec, NothingRefunded
<1>7. QED
  BY <1>4, <1>5, <1>6 DEF QueueMoves

=============================================================================
