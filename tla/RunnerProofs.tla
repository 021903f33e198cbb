----------------------------- MODULE RunnerProofs -----------------------------
(***************************************************************************)
(* Proofs about one call of a CLI, for every set of processes and every     *)
(* length of the input: what a confirmed end means, and that the call keeps *)
(* the promise of CallOutcome wherever no process can escape the unit.      *)
(***************************************************************************)
EXTENDS Runner, TLAPS

\* What runs is in the unit, if that is a namespace, or a job that was made
\* before the CLI had any other process.
UnitIsKept ==
  /\ tracking = "pid_namespace" \/ (tracking = "job_object" /\ ~EarlyFork) => alive \subseteq inside
  /\ pc = "assign" /\ ~EarlyFork => alive \subseteq {Cli}
  /\ tracking = "job_object" \/ pc = "assign" => "job_object" \in Units

\* Nothing runs in a unit that was confirmed empty.
ConfirmedEmpty == confirmed = "yes" => Left = {}

\* How far the call is, and whether it has a process.
Staged ==
  /\ pc = "idle" => known = {}
  /\ pc \in {"idle", "assign"} => confirmed = "none" /\ tracking = "none"
  /\ pc # "returned" => state = "none"
  /\ known = {} => pc \in {"idle", "returned"}
  /\ state = "failed_to_start" => known = {}

\* A chunk about to be written is one of the input's, and a chunk that was
\* written after the cancel was asked for before it.
WriterInv ==
  /\ writing => wrote < Chunks
  /\ late <= wrote
  /\ late <= 1
  /\ late = 1 => cancel /\ ~writing

RunnerInv == TypeOK /\ UnitIsKept /\ ConfirmedEmpty /\ Staged /\ WriterInv

-----------------------------------------------------------------------------
LEMMA InitInv == Init => RunnerInv
<1> SUFFICES ASSUME Init PROVE RunnerInv OBVIOUS
<1>1. TypeOK
  <2>1. writing \in BOOLEAN /\ failed \in BOOLEAN /\ cancel \in BOOLEAN /\ expired \in BOOLEAN
    BY Zenon DEF Init
  <2>2. wrote \in 0..Chunks /\ late \in 0..Chunks BY RunnerAssumption DEF Init
  <2>3. thread \in [Stream -> {"none", "running", "ended"}] /\ holds \in [Stream -> SUBSET alive] BY DEF Init
  <2> QED BY <2>1, <2>2, <2>3 DEF Init, TypeOK
<1>2. UnitIsKept /\ ConfirmedEmpty /\ Staged BY DEF Init, UnitIsKept, ConfirmedEmpty, Left, Staged
<1>3. WriterInv BY RunnerAssumption DEF Init, WriterInv
<1> QED BY <1>1, <1>2, <1>3 DEF RunnerInv

\* The steps of the calling thread.
LEMMA CallStepInv ==
  ASSUME RunnerInv, CallStep
  PROVE  RunnerInv'
<1> USE RunnerAssumption DEF RunnerInv, TypeOK, UnitIsKept, ConfirmedEmpty, Left, Staged, WriterInv, Stream, Readers, Tracked
<1>1. CASE NotStarted BY <1>1 DEF NotStarted, threads, world, signals
<1>2. CASE Spawn
  <2>1. tracking' \in Tracked \union {"none"} /\ inside' \subseteq {Cli} /\ pc' \in {"assign", "start"}
    BY <1>2 DEF Spawn
  <2>2. holds' \in [Stream -> SUBSET alive'] BY <1>2 DEF Spawn
  <2>3. TypeOK' BY <1>2, <2>1, <2>2 DEF Spawn, threads, signals
  <2>4. UnitIsKept' BY <1>2 DEF Spawn
  <2>5. ConfirmedEmpty' /\ Staged' /\ WriterInv' BY <1>2, <2>1 DEF Spawn, threads, signals
  <2> QED BY <2>3, <2>4, <2>5
<1>3. CASE Assign
  <2>1. tracking' \in {"none", "job_object"} /\ inside' \subseteq known /\ pc' = "start" BY <1>3 DEF Assign
  <2>2. UNCHANGED <<reason, confirmed, delivery, state, threads, alive, doomed, known, holds, signals, late>>
    BY <1>3 DEF Assign
  <2>3. TypeOK' BY <2>1, <2>2 DEF threads, signals
  <2>4. UnitIsKept' /\ ConfirmedEmpty' /\ Staged' BY <1>3 DEF Assign
  <2>5. WriterInv' BY <2>2 DEF threads, signals
  <2> QED BY <2>3, <2>4, <2>5
<1>4. CASE StartFails BY <1>4 DEF StartFails, threads, world, signals
<1>5. CASE Poll BY <1>5 DEF Poll, threads, world, signals
<1>6. CASE Look BY <1>6 DEF Look, threads, world, signals
<1>7. CASE Drain BY <1>7 DEF Drain, Kill, threads, signals
<1>8. CASE CutOff BY <1>8 DEF CutOff, Kill, threads, signals
<1>9. CASE Confirm BY <1>9 DEF Confirm, UnitEmpty, threads, signals
<1>10. CASE Return BY <1>10 DEF Return, LeftBehind, world, signals
<1>11. ASSUME NEW s \in Stream, StartThread(s) PROVE RunnerInv'
  BY <1>11 DEF StartThread, Before, Piped, world, signals
<1>12. ASSUME NEW s \in Readers, Joined(s) PROVE RunnerInv'
  BY <1>12 DEF Joined, AfterJoin, threads, world, signals
<1>13. ASSUME NEW s \in Readers, JoinTimesOut(s) PROVE RunnerInv'
  BY <1>13 DEF JoinTimesOut, AfterJoin, world, signals
<1> QED
  BY <1>1, <1>2, <1>3, <1>4, <1>5, <1>6, <1>7, <1>8, <1>9, <1>10, <1>11, <1>12, <1>13 DEF CallStep

\* The steps of the I/O threads.
LEMMA ThreadStepInv ==
  ASSUME RunnerInv, ThreadStep
  PROVE  RunnerInv'
<1> USE RunnerAssumption DEF RunnerInv, TypeOK, UnitIsKept, ConfirmedEmpty, Left, Staged, WriterInv, Stream, Readers, Tracked
<1>1. CASE WriterAsks BY <1>1 DEF WriterAsks, caller, world, signals
<1>2. CASE WriterWrites
  <2>1. wrote < Chunks /\ wrote' = wrote + 1 /\ late = 0 /\ ~writing'
    BY <1>2 DEF WriterWrites
  <2>2. late' \in {0, 1} /\ (late' = 1 => cancel) BY <1>2, <2>1 DEF WriterWrites
  <2>3. wrote' \in 0..Chunks /\ late' \in 0..Chunks /\ late' <= wrote' BY <2>1, <2>2
  <2>4. writing' \in BOOLEAN BY <1>2, Zenon DEF WriterWrites
  <2>5. UNCHANGED <<caller, thread, failed, lingering, world, signals>> BY <1>2 DEF WriterWrites
  <2>6. TypeOK' BY <2>3, <2>4, <2>5 DEF caller, world, signals
  <2>7. UnitIsKept' /\ ConfirmedEmpty' /\ Staged' BY <1>2 DEF WriterWrites, caller, world
  <2>8. WriterInv' BY <1>2, <2>1, <2>2, <2>3 DEF WriterWrites, signals
  <2> QED BY <2>6, <2>7, <2>8
<1>3. CASE WriterEnds
  <2>1. writing' \in BOOLEAN /\ failed' \in BOOLEAN BY <1>3, Zenon DEF WriterEnds
  <2>2. thread' \in [Stream -> {"none", "running", "ended"}] BY <1>3 DEF WriterEnds
  <2>3. UNCHANGED <<caller, wrote, lingering, world, signals, late>> BY <1>3 DEF WriterEnds
  <2>4. TypeOK' BY <2>1, <2>2, <2>3 DEF caller, world, signals
  <2>5. UnitIsKept' /\ ConfirmedEmpty' /\ Staged' BY <2>3 DEF caller, world
  <2>6. WriterInv' BY <1>3 DEF WriterEnds, signals
  <2> QED BY <2>4, <2>5, <2>6
<1>4. ASSUME NEW s \in Readers, ReaderEnds(s) PROVE RunnerInv'
  BY <1>4 DEF ReaderEnds, caller, world, signals
<1> QED BY <1>1, <1>2, <1>3, <1>4 DEF ThreadStep

\* The steps of the processes and of the caller's side.
LEMMA OutsideInv ==
  ASSUME RunnerInv, ProcessStep \/ Cancel \/ Expire
  PROVE  RunnerInv'
<1> USE RunnerAssumption DEF RunnerInv, TypeOK, UnitIsKept, ConfirmedEmpty, Left, Staged, WriterInv, Stream, Readers, Tracked
<1>1. ASSUME NEW q \in Proc, NEW p \in Proc, Fork(q, p) PROVE RunnerInv'
  BY <1>1 DEF Fork, caller, threads, signals
<1>2. ASSUME NEW p \in Proc, Leave(p) PROVE RunnerInv'
  BY <1>2 DEF Leave, caller, threads, signals
<1>3. ASSUME NEW p \in Proc, Die(p) PROVE RunnerInv'
  BY <1>3 DEF Die, caller, threads, signals
<1>4. ASSUME NEW p \in Proc, NEW s \in Stream, CloseStream(p, s) PROVE RunnerInv'
  BY <1>4 DEF CloseStream, caller, threads, signals
<1>5. CASE Cancel BY <1>5 DEF Cancel, caller, threads, world
<1>6. CASE Expire BY <1>6 DEF Expire, caller, threads, world
<1> QED BY <1>1, <1>2, <1>3, <1>4, <1>5, <1>6 DEF ProcessStep

\* The invariant holds in every state of every call.
THEOREM RunnerSafe == Spec => []RunnerInv
<1>1. ASSUME RunnerInv, [Next]_vars PROVE RunnerInv'
  <2>1. CASE UNCHANGED vars
    BY <1>1, <2>1 DEF vars, caller, threads, world, signals, RunnerInv, TypeOK, UnitIsKept, ConfirmedEmpty, Left, Staged, WriterInv
  <2> QED BY <1>1, <2>1, CallStepInv, ThreadStepInv, OutsideInv DEF Next
<1> QED BY InitInv, <1>1, PTL DEF Spec

-----------------------------------------------------------------------------
\* Type correctness of the call, its threads and its processes.
THEOREM RunnerTypeCorrect == Spec => []TypeOK
  BY RunnerSafe, PTL DEF RunnerInv

\* After a cancel at most the chunk that was being written is still sent,
\* however long the input is.
THEOREM CancelStops == Spec => []CancelStopsInput
<1>1. RunnerInv => CancelStopsInput BY DEF RunnerInv, WriterInv, CancelStopsInput
<1> QED BY <1>1, RunnerSafe, PTL

\* Where the unit is a job, the CLI is in it before it has any other process.
NoEscape == "job_object" \in Units => ~EarlyFork

LEMMA InvConfirmed ==
  ASSUME RunnerInv, NoEscape
  PROVE  ConfirmedIsOver
  BY DEF RunnerInv, TypeOK, UnitIsKept, ConfirmedEmpty, Left, Staged, ConfirmedIsOver, TreeConfirmed, WholeTree, NoEscape

\* Unless a process may have started another one before it was put into its
\* job, a call that is told of as over has no process left.
THEOREM ConfirmedSafe ==
  ASSUME NoEscape
  PROVE  Spec => []ConfirmedIsOver
<1>1. RunnerInv => ConfirmedIsOver BY InvConfirmed
<1> QED BY <1>1, RunnerSafe, PTL

-----------------------------------------------------------------------------
(* What the result says of the processes, the threads and the input.         *)

\* The points of the call after the tree was ended, and where it may be
\* without having told any process to end.
Ended == {"confirm", "out", "err", "in", "returned"}

BeforeEnd == {"idle", "assign", "start", "poll", "look", "drain", "kill"}

\* The CLI is the first process; one that ended by itself was never told to.
ProcessesInv ==
  /\ known # {} => Cli \in known
  /\ pc \in BeforeEnd => doomed = {}
  /\ pc = "kill" => reason # "none"
  /\ pc \in Ended /\ tracking # "none" => Left \subseteq doomed
  /\ pc \in Ended \union {"drain"} /\ reason = "none" => Cli \notin alive \union doomed

\* A thread is started before the CLI is watched, and one that outlives the
\* wait for it spoils the confirmation and is counted.
ThreadsInv ==
  /\ known = {} => \A s \in Stream : thread[s] = "none"
  /\ \/ pc \in {"poll", "look", "drain"}
     \/ pc \in Ended \union {"kill"} /\ reason # "aborted" /\ known # {}
     => \A s \in Readers : thread[s] # "none"
  /\ pc \in {"err", "in", "returned"} /\ thread["out"] = "running" => "out" \in lingering /\ confirmed = "no"
  /\ pc \in {"in", "returned"} /\ thread["err"] = "running" => "err" \in lingering /\ confirmed = "no"
  /\ pc = "returned" /\ thread["in"] = "running" => "in" \in lingering

\* What the result rests on does not change once the call has returned.
ResultInv ==
  /\ pc = "returned" /\ known = {} => state = "failed_to_start"
  /\ state = "exited" => reason = "none" /\ confirmed = "yes"
  /\ delivery = "complete" => wrote = Chunks /\ ~failed /\ thread["in"] = "ended"
  /\ delivery # "none" => pc = "returned"

\* One conjunct at a time, over every action.
LEMMA ProcessesStep ==
  ASSUME RunnerInv, ProcessesInv, [Next]_vars
  PROVE  ProcessesInv'
<1> USE DEF RunnerInv, TypeOK, Staged, ProcessesInv, Left, Ended, BeforeEnd
<1>1. CASE UNCHANGED vars BY <1>1 DEF vars, caller, threads, world, signals
<1>2. CASE NotStarted BY <1>2 DEF NotStarted, threads, world, signals
<1>3. CASE Spawn BY <1>3 DEF Spawn
<1>4. CASE Assign BY <1>4 DEF Assign
<1>5. CASE StartFails BY <1>5 DEF StartFails, world
<1>6. CASE Poll BY <1>6 DEF Poll, world
<1>7. CASE Look BY <1>7 DEF Look, world
<1>8. CASE Drain BY <1>8 DEF Drain, Kill
<1>9. CASE CutOff
  <2>1. reason # "none" BY <1>9 DEF CutOff
  <2> QED BY <1>9, <2>1 DEF CutOff, Kill
<1>10. CASE Confirm BY <1>10 DEF Confirm
<1>11. CASE Return BY <1>11 DEF Return, world
<1>12. CASE \E s \in Stream : StartThread(s) BY <1>12 DEF StartThread, world
<1>13. CASE \E s \in Readers : Joined(s) \/ JoinTimesOut(s) BY <1>13 DEF Joined, JoinTimesOut, AfterJoin, Readers, world
<1>14. CASE ThreadStep \/ Cancel \/ Expire
  BY <1>14 DEF ThreadStep, WriterAsks, WriterWrites, WriterEnds, ReaderEnds, Cancel, Expire, caller, world
<1>15. ASSUME NEW q \in Proc, NEW p \in Proc, Fork(q, p) PROVE ProcessesInv' BY <1>15 DEF Fork, caller
<1>16. ASSUME NEW p \in Proc, Leave(p) PROVE ProcessesInv' BY <1>16 DEF Leave, caller
<1>17. ASSUME NEW p \in Proc, Die(p) PROVE ProcessesInv' BY <1>17 DEF Die, caller
<1>18. ASSUME NEW p \in Proc, NEW s \in Stream, CloseStream(p, s) PROVE ProcessesInv' BY <1>18 DEF CloseStream, caller
<1> QED
  BY <1>1, <1>2, <1>3, <1>4, <1>5, <1>6, <1>7, <1>8, <1>9, <1>10, <1>11, <1>12, <1>13, <1>14, <1>15, <1>16, <1>17, <1>18
  DEF Next, CallStep, ProcessStep

LEMMA ThreadsStep ==
  ASSUME RunnerInv, ThreadsInv, [Next]_vars
  PROVE  ThreadsInv'
<1> USE DEF RunnerInv, TypeOK, Staged, ThreadsInv, Readers, Stream, Ended
<1>1. CASE UNCHANGED vars BY <1>1 DEF vars, caller, threads, world
<1>2. CASE NotStarted BY <1>2 DEF NotStarted, threads, world
<1>3. CASE Spawn BY <1>3 DEF Spawn, threads
<1>4. CASE Assign BY <1>4 DEF Assign, threads
<1>5. CASE StartFails BY <1>5 DEF StartFails, threads, world
<1>6. CASE Poll BY <1>6 DEF Poll, threads, world
<1>7. CASE Look BY <1>7 DEF Look, threads, world
<1>8. CASE Drain BY <1>8 DEF Drain, threads
<1>9. CASE CutOff BY <1>9 DEF CutOff, threads
<1>10. CASE Confirm BY <1>10 DEF Confirm, threads
<1>11. CASE Return BY <1>11 DEF Return, LeftBehind, world
<1>12. ASSUME NEW s \in Stream, StartThread(s) PROVE ThreadsInv'
  BY <1>12 DEF StartThread, Piped, world
<1>13. ASSUME NEW s \in Readers, Joined(s) PROVE ThreadsInv' BY <1>13 DEF Joined, AfterJoin, threads, world
<1>14. ASSUME NEW s \in Readers, JoinTimesOut(s) PROVE ThreadsInv' BY <1>14 DEF JoinTimesOut, AfterJoin, world
<1>15. ASSUME NEW s \in Readers, ReaderEnds(s) PROVE ThreadsInv' BY <1>15 DEF ReaderEnds, caller, world
<1>16. CASE WriterAsks \/ WriterWrites BY <1>16 DEF WriterAsks, WriterWrites, caller, world
<1>17. CASE WriterEnds BY <1>17 DEF WriterEnds, caller, world
<1>18. CASE ProcessStep
  <2>1. UNCHANGED <<caller, threads>> BY <1>18 DEF ProcessStep, Fork, Leave, Die, CloseStream
  <2>2. known' = {} <=> known = {} BY <1>18 DEF ProcessStep, Fork, Leave, Die, CloseStream
  <2> QED BY <2>1, <2>2 DEF caller, threads
<1>19. CASE Cancel \/ Expire BY <1>19 DEF Cancel, Expire, caller, threads, world
<1> QED
  BY <1>1, <1>2, <1>3, <1>4, <1>5, <1>6, <1>7, <1>8, <1>9, <1>10, <1>11, <1>12, <1>13, <1>14, <1>15, <1>16, <1>17, <1>18, <1>19
  DEF Next, CallStep, ThreadStep

LEMMA ResultStep ==
  ASSUME RunnerInv, ResultInv, [Next]_vars
  PROVE  ResultInv'
<1> USE DEF RunnerInv, TypeOK, Staged, WriterInv, ResultInv
<1>1. CASE UNCHANGED vars BY <1>1 DEF vars, caller, threads, world
<1>2. CASE NotStarted BY <1>2 DEF NotStarted, threads, world
<1>3. CASE Spawn BY <1>3 DEF Spawn, threads
<1>4. CASE Return
  <2>1. known' # {} BY <1>4 DEF Return, world
  <2>2. state' = "exited" => reason' = "none" /\ confirmed' = "yes" BY <1>4 DEF Return
  <2>3. delivery' = "complete" => wrote' = Chunks /\ ~failed' /\ thread'["in"] = "ended" BY <1>4 DEF Return
  <2> QED BY <1>4, <2>1, <2>2, <2>3 DEF Return
<1>5. CASE CallStep /\ ~NotStarted /\ ~Spawn /\ ~Return
  <2>1. pc # "returned" /\ pc' # "returned" /\ UNCHANGED <<state, delivery>>
    BY <1>5 DEF CallStep, Assign, StartFails, Poll, Look, Drain, CutOff, Confirm, StartThread, Joined, JoinTimesOut, AfterJoin, Readers
  <2> QED BY <2>1
<1>6. ASSUME NEW s \in Readers, ReaderEnds(s) PROVE ResultInv' BY <1>6 DEF ReaderEnds, caller, world, Readers, Stream
<1>7. CASE WriterAsks \/ WriterWrites
  <2>1. wrote < Chunks BY <1>7 DEF WriterAsks, WriterWrites
  <2>2. delivery # "complete" BY <2>1
  <2> QED BY <1>7, <2>2 DEF WriterAsks, WriterWrites, caller, world
<1>8. CASE WriterEnds
  <2>1. thread["in"] = "running" BY <1>8 DEF WriterEnds
  <2>2. delivery # "complete" BY <2>1
  <2> QED BY <1>8, <2>2 DEF WriterEnds, caller, world
<1>9. CASE ProcessStep
  <2>1. UNCHANGED <<caller, threads>> BY <1>9 DEF ProcessStep, Fork, Leave, Die, CloseStream
  <2>2. known' = {} <=> known = {} BY <1>9 DEF ProcessStep, Fork, Leave, Die, CloseStream
  <2> QED BY <2>1, <2>2 DEF caller, threads
<1>10. CASE Cancel \/ Expire BY <1>10 DEF Cancel, Expire, caller, threads, world
<1> QED BY <1>1, <1>2, <1>3, <1>4, <1>5, <1>6, <1>7, <1>8, <1>9, <1>10 DEF Next, ThreadStep

LEMMA ResultSafe == Spec => [](RunnerInv /\ ProcessesInv /\ ThreadsInv /\ ResultInv)
<1>1. Init => ProcessesInv /\ ThreadsInv /\ ResultInv
  BY DEF Init, ProcessesInv, ThreadsInv, ResultInv, Left, Ended, BeforeEnd, Stream
<1>2. RunnerInv /\ ProcessesInv /\ [Next]_vars => ProcessesInv' BY ProcessesStep
<1>3. RunnerInv /\ ThreadsInv /\ [Next]_vars => ThreadsInv' BY ThreadsStep
<1>4. RunnerInv /\ ResultInv /\ [Next]_vars => ResultInv' BY ResultStep
<1> QED BY <1>1, <1>2, <1>3, <1>4, RunnerSafe, PTL DEF Spec

\* An answer that may be accepted is whole, however the call, its threads and
\* its processes interleave: a confirmation survives only if no reader was left
\* behind, and the input is complete only if its writer ended without an error.
THEOREM AnswersAreWhole == Spec => []AnswerIsWhole
<1>1. RunnerInv /\ ProcessesInv /\ ThreadsInv /\ ResultInv => AnswerIsWhole
  <2> SUFFICES ASSUME RunnerInv, ProcessesInv, ThreadsInv, ResultInv, pc = "returned", Acceptable
               PROVE  /\ wrote = Chunks /\ ~failed
                      /\ \A s \in Readers : thread[s] = "ended"
                      /\ Cli \notin alive \union doomed
    BY DEF AnswerIsWhole
  <2>1. state = "exited" /\ delivery = "complete" BY DEF Acceptable
  <2>2. reason = "none" /\ confirmed = "yes" /\ known # {} BY <2>1 DEF ResultInv, RunnerInv, Staged, ThreadsInv, Stream
  <2>3. \A s \in Readers : thread[s] = "ended"
    BY <2>2 DEF ThreadsInv, RunnerInv, TypeOK, Readers, Stream, Ended
  <2>4. Cli \notin alive \union doomed BY <2>2 DEF ProcessesInv, Ended
  <2> QED BY <2>1, <2>3, <2>4 DEF ResultInv
<1> QED BY <1>1, ResultSafe, PTL

\* Whatever is left of a tracked unit when the call returns was told to end.
THEOREM UnitsEnd == Spec => []UnitEnded
<1>1. ProcessesInv => UnitEnded BY DEF ProcessesInv, UnitEnded, Ended
<1> QED BY <1>1, ResultSafe, PTL

\* Every I/O thread that outlives its call is counted.
THEOREM ThreadsAreCounted == Spec => []ThreadsCounted
<1>1. ThreadsInv => ThreadsCounted BY DEF ThreadsInv, ThreadsCounted, Stream, Readers
<1> QED BY <1>1, ResultSafe, PTL

\* A call that returns has a whole answer or none, and nothing of it is left
\* that nobody was told of (runner.py:372-465).
THEOREM CallStaysSound == Spec => []CallSound
BY RunnerTypeCorrect, AnswersAreWhole, UnitsEnd, ThreadsAreCounted, CancelStops, PTL DEF CallSound

-----------------------------------------------------------------------------
\* Every step of the call is a step of the abstract call or leaves it alone.
LEMMA StepKeepsPromise ==
  ASSUME RunnerInv, RunnerInv', [Next]_vars, NoEscape
  PROVE  [Outcome!ONext]_(Outcome!ovars)
<1> USE DEF Outcome!ONext, Outcome!ovars, Outcome!OStart, Outcome!OEnd, Outcome!OReturn, tree, answer
<1>1. CASE UNCHANGED vars
  BY <1>1 DEF vars, caller, world, TreeConfirmed
<1>2. CASE NotStarted
  BY <1>2 DEF NotStarted, world, TreeConfirmed, RunnerInv, Staged
<1>3. CASE Spawn
  BY <1>3 DEF Spawn, RunnerInv, Staged
<1>4. CASE Return
  <2>1. known # {} /\ UNCHANGED <<alive, known>> BY <1>4 DEF Return, world, RunnerInv, Staged
  <2>2. TreeConfirmed' => alive = {}
    BY <1>4, <2>1, InvConfirmed DEF Return, ConfirmedIsOver, RunnerInv, TypeOK, UnitIsKept, ConfirmedEmpty, Left, Staged, TreeConfirmed, WholeTree, NoEscape
  <2> QED BY <1>4, <2>1, <2>2 DEF Return
<1>5. CASE CallStep /\ ~NotStarted /\ ~Spawn /\ ~Return
  <2>1. pc # "returned" /\ pc' # "returned" /\ UNCHANGED <<alive, known>>
    BY <1>5 DEF CallStep, Assign, StartFails, Poll, Look, Drain, CutOff, Confirm, StartThread, Joined, JoinTimesOut, AfterJoin, Readers, world
  <2> QED BY <2>1
<1>6. CASE ThreadStep \/ Cancel \/ Expire
  BY <1>6 DEF ThreadStep, WriterAsks, WriterWrites, WriterEnds, ReaderEnds, Cancel, Expire, caller, world, TreeConfirmed
<1>7. CASE ProcessStep
  <2>1. UNCHANGED caller
    BY <1>7 DEF ProcessStep, Fork, Leave, Die, CloseStream
  <2>2. UNCHANGED answer BY <2>1 DEF caller, TreeConfirmed
  <2>3. \/ UNCHANGED tree
        \/ tree = "alive" /\ tree' = "gone"
    BY <1>7 DEF ProcessStep, Fork, Leave, Die, CloseStream, RunnerInv, TypeOK
  <2> QED BY <2>2, <2>3
<1> QED BY <1>1, <1>2, <1>3, <1>4, <1>5, <1>6, <1>7 DEF Next

\* The call implements CallOutcome: it is told of as over only when its tree
\* never started or has ended, and what was told does not change.
THEOREM PromiseKept ==
  ASSUME NoEscape
  PROVE  Spec => KeepsPromise
<1>1. Init => Outcome!OInit
  BY DEF Init, Outcome!OInit, tree, answer
<1>2. RunnerInv /\ RunnerInv' /\ [Next]_vars => [Outcome!ONext]_(Outcome!ovars)
  BY StepKeepsPromise
<1> QED BY <1>1, <1>2, RunnerSafe, PTL DEF Spec, KeepsPromise, Outcome!OSpec

=============================================================================
