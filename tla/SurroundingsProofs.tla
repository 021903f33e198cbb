-------------------------- MODULE SurroundingsProofs --------------------------
(***************************************************************************)
(* Theorems about what lies around the coordinator: the roster of a run, the  *)
(* start script, the ledger's file, the limits of the accounts, the path of a  *)
(* call, the pages of the screen and the server, for every value of their      *)
(* constants.  Each part is proved about by itself; at the end what holds of a  *)
(* part is shown to hold of Surroundings, in which one of them moves.          *)
(***************************************************************************)
EXTENDS Surroundings, FiniteSetTheorems, WellFoundedInduction, TLAPS

-----------------------------------------------------------------------------
(* The roster of a run.                                                      *)

\* Who may still be taken in has never taken part, and who was given up does not.
NeverBack == alternates \intersect (active \union dropped) = {} /\ active \intersect dropped = {}

RosterInv == TypeOK /\ NeverBack

\* What start returns.
LEMMA RosterBegins == Init => RosterInv
BY MembershipAssumption DEF Init, RosterInv, TypeOK, NeverBack

\* Every decision and every step on keeps the three groups apart.
LEMMA RosterSteps == RosterInv /\ [Next]_vars => RosterInv'
<1> SUFFICES ASSUME RosterInv, [Next]_vars PROVE RosterInv'
  OBVIOUS
<1> USE DEF RosterInv, TypeOK, NeverBack
<1>1. CASE Advance
  BY <1>1 DEF Advance, Phases
<1>2. ASSUME NEW p \in Requested \union Substitute, Drop(p)
      PROVE  RosterInv'
  BY <1>2 DEF Drop, Settle, Go
<1>3. ASSUME NEW p \in Requested \union Substitute, CancelUnconfirmed(p)
      PROVE  RosterInv'
  BY <1>3 DEF CancelUnconfirmed, Settle, Go
<1>4. ASSUME NEW p \in Requested \union Substitute, Join(p)
      PROVE  RosterInv'
  BY <1>4 DEF Join, Settle, Go
<1>5. ASSUME NEW p \in Requested \union Substitute, RejectSubstitute(p)
      PROVE  RosterInv'
  BY <1>5 DEF RejectSubstitute
<1>6. CASE Recovered
  BY <1>6 DEF Recovered
<1>7. CASE SynthesizerUnavailable
  BY <1>7 DEF SynthesizerUnavailable
<1>8. CASE UNCHANGED vars
  BY <1>8 DEF vars
<1> QED
  BY <1>1, <1>2, <1>3, <1>4, <1>5, <1>6, <1>7, <1>8 DEF Next

\* What RosterIsHonest says of a step.
HonestStep ==
  /\ active' \intersect dropped' = {}
  /\ dropped \subseteq dropped' /\ unknown \subseteq unknown'
  /\ phase \notin Blind => active' \subseteq active /\ phase' \notin Blind
  /\ phase \in Blind /\ (phase' \notin Blind \/ (action' \in Go /\ <<active, unknown>>' # <<active, unknown>>)) =>
       Cardinality(active' \ unknown') >= MinIndependent

\* Of the steps, only those that change the roster or reveal it have something to show.
LEMMA StepsAreHonest == RosterInv /\ RosterInv' /\ [Next]_vars => [HonestStep]_vars
<1> SUFFICES ASSUME RosterInv, RosterInv', Next PROVE HonestStep
  OBVIOUS
<1> USE DEF RosterInv, NeverBack, HonestStep, Blind, Go, Quorum, Counted
<1>1. CASE Advance
  <2>1. UNCHANGED <<active, alternates, dropped, unknown, action>>
    BY <1>1 DEF Advance
  <2>2. phase \notin Blind => phase' \notin Blind
    BY <1>1 DEF Advance, Phases
  <2>3. phase \in Blind /\ phase' \notin Blind => Cardinality(active' \ unknown') >= MinIndependent
    BY <1>1, <2>1 DEF Advance, Phases
  <2> QED
    BY <2>1, <2>2, <2>3
<1>2. ASSUME NEW p \in Requested \union Substitute, Drop(p)
      PROVE  HonestStep
  BY <1>2 DEF Drop, Settle
<1>3. ASSUME NEW p \in Requested \union Substitute, CancelUnconfirmed(p)
      PROVE  HonestStep
  BY <1>3 DEF CancelUnconfirmed, Settle
<1>4. ASSUME NEW p \in Requested \union Substitute, Join(p)
      PROVE  HonestStep
  BY <1>4 DEF Join, Settle
<1>5. ASSUME NEW p \in Requested \union Substitute, RejectSubstitute(p)
      PROVE  HonestStep
  BY <1>5 DEF RejectSubstitute
<1>6. CASE Recovered
  BY <1>6 DEF Recovered
<1>7. CASE SynthesizerUnavailable
  BY <1>7 DEF SynthesizerUnavailable
<1> QED
  BY <1>1, <1>2, <1>3, <1>4, <1>5, <1>6, <1>7 DEF Next

\* The roster and the last decision are of their types, and nobody is in two groups.
THEOREM RosterTypeCorrect == Spec => []RosterInv
BY RosterBegins, RosterSteps, PTL DEF Spec

\* No sequence of failures, returns and substitutions brings back who was given up,
\* lets anybody in after the reveal, or goes on without a quorum (membership.decide).
THEOREM RosterStaysHonest == Spec => RosterIsHonest
<1>1. RosterInv /\ RosterInv' /\ [Next]_vars => [HonestStep]_vars
  BY StepsAreHonest
<1>2. Spec => [][HonestStep]_vars
  BY <1>1, RosterTypeCorrect, PTL DEF Spec
<1> QED
  BY <1>2 DEF RosterIsHonest, HonestStep

-----------------------------------------------------------------------------
(* The limits of the accounts.                                               *)

\* The places of a refresh; the thread that is at one of them holds the lock.
Refreshing == {"account", "limits", "models", "exit", "told", "kept"}

ThreadPlaces == Refreshing \union {"idle", "view", "copied"}

ToldLimits == [at : {-1} \union 0..LastMinute, resets : 0..LastMinute + 1]

QuotaInv ==
  /\ clock \in 0..LastMinute
  /\ attempted \in {-1} \union 0..LastMinute
  /\ read \in [Thread -> 0..LastMinute]
  /\ thread \in [Thread -> ThreadPlaces]
  /\ report \in [Thread -> ToldLimits]
  /\ snapshot \in ToldLimits
  /\ \A t \in Thread : thread[t] \in Refreshing => refreshLock = t

\* Nothing was asked yet.
LEMMA QuotaBegins == ASSUME Quota!ThreadNames, Quota!Init PROVE QuotaInv
BY DEF Quota!ThreadNames, Quota!Init, QuotaInv, ThreadPlaces, Refreshing, ToldLimits, Quota!Nothing

\* The lock is taken with the first request and kept until the result is stored.
LEMMA QuotaSteps ==
  ASSUME Quota!ThreadNames, QuotaInv, [Quota!Next]_(Quota!vars)
  PROVE  QuotaInv'
<1> USE DEF Quota!ThreadNames, QuotaInv, ThreadPlaces, Refreshing, ToldLimits
<1>1. CASE UNCHANGED Quota!vars
  BY <1>1 DEF Quota!vars
<1>2. CASE Quota!Tick
  BY <1>2 DEF Quota!Tick
<1>3. ASSUME NEW t \in Thread, Quota!ReadClock(t) \/ Quota!Copy(t) \/ Quota!View(t) PROVE QuotaInv'
  BY <1>3 DEF Quota!ReadClock, Quota!Copy, Quota!View, Quota!Go, Quota!Nothing
<1>4. ASSUME NEW t \in Thread, Quota!Refresh(t) PROVE QuotaInv'
  BY <1>4 DEF Quota!Refresh, Quota!Go, Quota!Waits
<1>5. ASSUME NEW t \in Thread, Quota!GoOn(t)
      PROVE  \E v \in Refreshing : thread' = [thread EXCEPT ![t] = v] /\ thread[t] \in Refreshing
  <2>1. PICK i \in 1..3 : thread[t] = Quota!Waits[i] /\ Quota!Go(t, Quota!Waits[i + 1])
    BY <1>5 DEF Quota!GoOn
  <2>2. Quota!Waits[i] \in Refreshing /\ Quota!Waits[i + 1] \in Refreshing
    <3>1. i = 1 \/ i = 2 \/ i = 3
      OBVIOUS
    <3>2. QED
      BY <3>1 DEF Quota!Waits
  <2>3. QED
    BY <2>1, <2>2 DEF Quota!Go
<1>6. ASSUME NEW t \in Thread, Quota!Answered(t) PROVE QuotaInv'
  <2>1. report' \in [Thread -> ToldLimits]
    BY <1>6 DEF Quota!Answered
  <2>2. QED
    BY <1>5, <1>6, <2>1 DEF Quota!Answered
<1>7. ASSUME NEW t \in Thread, Quota!NoModels(t) PROVE QuotaInv'
  BY <1>5, <1>7 DEF Quota!NoModels
<1>8. ASSUME NEW t \in Thread, Quota!Broken(t) PROVE QuotaInv'
  BY <1>8 DEF Quota!Broken, Quota!Go, Quota!Asking, Quota!Waits, Quota!Nothing
<1>9. ASSUME NEW t \in Thread, Quota!SandboxEnds(t) PROVE QuotaInv'
  BY <1>9 DEF Quota!SandboxEnds, Quota!Go, Quota!Nothing
<1>10. ASSUME NEW t \in Thread, Quota!Keep(t) PROVE QuotaInv'
  BY <1>10 DEF Quota!Keep, Quota!Go
<1>11. ASSUME NEW t \in Thread, Quota!Store(t) PROVE QuotaInv'
  BY <1>11 DEF Quota!Store, Quota!Go, Quota!Nothing
<1>12. QED
  BY <1>1, <1>2, <1>3, <1>4, <1>6, <1>7, <1>8, <1>9, <1>10, <1>11 DEF Quota!Next

\* What LimitsAreHonest says of a step.
HonestView ==
     /\ \A t \in Thread : thread[t] = "copied" /\ thread'[t] = "idle" /\ Quota!Limit(t) = "observed" =>
          /\ read[t] - report[t].at \in 0..Quota!MaxAge
          /\ report[t].resets = 0 \/ report[t].resets > read[t]
     /\ snapshot # Quota!Nothing => snapshot' # Quota!Nothing
     /\ attempted' # attempted => /\ attempted >= 0 => attempted' >= attempted + Quota!Minute
                                 /\ \A t \in Thread : thread[t] \in {"idle", "view", "copied"}

\* Views are honest whatever was stored meanwhile, and only the holder of the lock has tried.
LEMMA ViewsAreHonest ==
  ASSUME Quota!ThreadNames, QuotaInv, [Quota!Next]_(Quota!vars)
  PROVE  [HonestView]_(Quota!vars)
<1> SUFFICES ASSUME Quota!Next PROVE HonestView
  OBVIOUS
<1>1. ASSUME NEW t \in Thread, Quota!Limit(t) = "observed"
      PROVE  /\ read[t] - report[t].at \in 0..Quota!MaxAge
             /\ report[t].resets = 0 \/ report[t].resets > read[t]
  <2>1. ~Quota!Stale(report[t], read[t]) /\ ~Quota!Expired(report[t], read[t])
    BY <1>1 DEF Quota!Limit, Quota!Status
  <2>2. read[t] \in Nat /\ report[t].at \in Int /\ report[t].resets \in Nat
    <3>1. report[t] \in ToldLimits
      BY DEF QuotaInv
    <3>2. QED
      BY <3>1 DEF QuotaInv, ToldLimits
  <2>3. QED
    BY <2>1, <2>2 DEF Quota!Stale, Quota!Expired, Quota!MaxAge
<1>2. snapshot # Quota!Nothing => snapshot' # Quota!Nothing
  BY DEF Quota!Next, Quota!Tick, Quota!ReadClock, Quota!Copy, Quota!View, Quota!Refresh, Quota!Answered, Quota!NoModels,
     Quota!Broken, Quota!SandboxEnds, Quota!Keep, Quota!Store
<1>3. attempted' # attempted => \E t \in Thread : Quota!Refresh(t)
  BY DEF Quota!Next, Quota!Tick, Quota!ReadClock, Quota!Copy, Quota!View, Quota!Answered, Quota!NoModels, Quota!Broken,
     Quota!SandboxEnds, Quota!Keep, Quota!Store
<1>4. ASSUME NEW t \in Thread, Quota!Refresh(t), attempted >= 0 PROVE attempted' >= attempted + Quota!Minute
  BY <1>4 DEF Quota!Refresh, Quota!Rested, QuotaInv, Quota!Minute
<1>5. ASSUME NEW t \in Thread, Quota!Refresh(t), NEW u \in Thread PROVE thread[u] \in {"idle", "view", "copied"}
  BY <1>5 DEF Quota!ThreadNames, Quota!Refresh, QuotaInv, ThreadPlaces
<1>6. QED
  BY <1>1, <1>2, <1>3, <1>4, <1>5 DEF HonestView

\* For any threads and however the clock is set: limits shown as observed are, no refresh forgets
\* or crowds another (account_quota.view, refresh).
THEOREM LimitsStayHonest ==
  ASSUME Quota!ThreadNames
  PROVE  Quota!Spec => Quota!LimitsAreHonest
<1>1. Quota!Init => QuotaInv
  BY QuotaBegins
<1>2. QuotaInv /\ [Quota!Next]_(Quota!vars) => QuotaInv' /\ [HonestView]_(Quota!vars)
  BY QuotaSteps, ViewsAreHonest
<1>3. Quota!Spec => [][HonestView]_(Quota!vars)
  BY <1>1, <1>2, PTL DEF Quota!Spec
<1>4. QED
  BY <1>3 DEF Quota!LimitsAreHonest, HonestView

-----------------------------------------------------------------------------
(* The path of a call.                                                       *)

\* The places of an attempt, by what it has passed.
AfterConfirm == {"planned", "checked", "reserved", "read again", "judged again", "cleared", "calling"}

AfterJudge == {"judged"} \union AfterConfirm

AfterRead == {"read"} \union AfterJudge

AttemptStages == {"none", "begun", "refused", "refused late"} \union AfterRead

\* What is fixed while the attempt goes on.
Passed ==
  /\ stage \in AttemptStages
  /\ today \in Nat
  /\ choices \in {Choice, Path!Default}
  /\ stage \in AfterRead => ~Path!Refused(attempt.model)
  /\ stage \in {"judged again", "cleared", "calling"} =>
       judged = raw /\ \E day \in 0..today : Path!Eligible(judged, attempt.revision, judged.version, day, policy)
  /\ stage \in {"cleared", "calling"} => judged \in vouched

\* What is still so while the world has not changed.
AsItWas ==
  /\ stage = "none" => ~changed
  /\ stage # "none" /\ ready /\ ~changed => Path!Ready(attempt.model, attempt.revision)
  /\ stage \in AfterRead /\ ~changed => Path!ContextClean /\ raw = observation
  /\ stage \in AfterJudge /\ ~changed => Path!Eligible(raw, attempt.revision, installed, today, policy)
  /\ stage \in AfterConfirm /\ ~changed => Path!Registered(raw)
  /\ stage \in AfterConfirm \ {"planned"} /\ ~changed => amiss # "folders"
  /\ Path!RefusedByChange

PathInv == Passed /\ AsItWas

\* The default model can always be chosen (Provider.__post_init__).
LEMMA DefaultIsListed ==
  ASSUME Path!ConfigurationRules, choices \in {Choice, Path!Default}
  PROVE  ~Path!Refused("default")
<1> DEFINE d == [model |-> "default", funding |-> "included"]
<1>1. d \in choices
  BY DEF Path!ConfigurationRules, Path!Default
<1>2. Path!Classified(d) = d
  BY DEF Path!Classified
<1>3. QED
  BY <1>1, <1>2 DEF Path!Refused

\* No attempt is under way.
LEMMA PathBegins == ASSUME Path!Init PROVE PathInv
BY DEF Path!Init, PathInv, Passed, AsItWas, Path!RefusedByChange, AttemptStages, AfterRead, AfterJudge, AfterConfirm

\* The record is read: once for the plan, and once more after the reservation.
LEMMA ReadKeeps ==
  ASSUME Path!ConfigurationRules, PathInv, NEW from, NEW to,
         (from = "begun" /\ to = "read") \/ (from = "reserved" /\ to = "read again"), Path!Read(from, to)
  PROVE  PathInv'
<1> USE DEF PathInv, AttemptStages, AfterRead, AfterJudge, AfterConfirm
<1>1. /\ stage = from /\ raw' = observation
      /\ observation' = observation /\ registered' = registered /\ installed' = installed /\ amiss' = amiss /\ today' = today
      /\ policy' = policy /\ choices' = choices /\ attempt' = attempt
      /\ ready' = ready /\ changed' = changed
  BY DEF Path!Read, Path!Pass, Path!world, Path!app
<1>2. \/ /\ Path!ContextClean /\ (from = "begun" => ~Path!Refused(attempt.model))
         /\ stage' = to
      \/ /\ ~Path!ContextClean \/ (from = "begun" /\ Path!Refused(attempt.model))
         /\ stage' = IF from = "begun" THEN "refused" ELSE "refused late"
  BY <1>1 DEF Path!Read, Path!Pass
<1>3. Path!Refused(attempt.model)' = Path!Refused(attempt.model) /\ Path!ContextClean' = Path!ContextClean
      /\ Path!Ready(attempt.model, attempt.revision)' = Path!Ready(attempt.model, attempt.revision)
      /\ Path!Registered(raw)' = Path!Registered(observation)
  BY <1>1 DEF Path!Refused, Path!ContextClean, Path!Ready, Path!Registered, Path!Eligible
<1>4. Passed'
  BY <1>1, <1>2, <1>3 DEF Passed
<1>5. (stage' \in {"refused", "refused late"} => changed) \/ ~ready
  BY <1>1, <1>2, DefaultIsListed DEF Passed, AsItWas, Path!Ready, Path!ContextClean
<1>6. ASSUME ~changed PROVE from = "reserved" => /\ Path!Eligible(observation, attempt.revision, installed, today, policy)
                                                 /\ Path!Registered(observation) /\ Path!ContextClean /\ amiss # "folders"
  BY <1>1, <1>6 DEF AsItWas
<1>7. Path!RefusedByChange'
  BY <1>1, <1>2, <1>5, <1>6 DEF Path!RefusedByChange, AsItWas
<1>8. Path!Eligible(raw, attempt.revision, installed, today, policy)' = Path!Eligible(observation, attempt.revision,
  installed, today, policy)
  BY <1>1 DEF Path!Eligible
<1>9. AsItWas'
  BY <1>1, <1>2, <1>3, <1>6, <1>7, <1>8 DEF AsItWas
<1>10. QED
  BY <1>4, <1>9

\* Whatever an attempt passes, the world and the process stay.
SameWorld == UNCHANGED <<Path!world, Path!app, attempt, ready, changed>>

\* What was found of the record, the plan and the machine stays so.
LEMMA SameJudgements ==
  ASSUME SameWorld
  PROVE  /\ UNCHANGED <<observation, registered, installed, amiss, today, policy, choices, attempt, ready, changed>>
         /\ Path!Refused(attempt.model)' = Path!Refused(attempt.model) /\ Path!ContextClean' = Path!ContextClean
         /\ Path!Ready(attempt.model, attempt.revision)' = Path!Ready(attempt.model, attempt.revision)
         /\ raw' = raw => /\ Path!Registered(raw)' = Path!Registered(raw)
                          /\ Path!Eligible(raw, attempt.revision, installed, today, policy)'
                               = Path!Eligible(raw, attempt.revision, installed, today, policy)
BY DEF SameWorld, Path!world, Path!app, Path!Refused, Path!ContextClean, Path!Ready, Path!Registered, Path!Eligible

\* A day is one of the days up to it.
LEMMA LastOfItsDays == ASSUME NEW day \in Nat PROVE day \in 0..day
OBVIOUS

\* A record that bears out a version is of that version.
LEMMA OfItsVersion ==
  ASSUME NEW r, NEW revision, NEW version, NEW day, NEW unverified, Path!Eligible(r, revision, version, day, unverified)
  PROVE  r.version = version
BY DEF Path!Eligible

\* What was read is judged.
LEMMA JudgeKeeps ==
  ASSUME PathInv, NEW from, NEW to,
         (from = "read" /\ to = "judged") \/ (from = "read again" /\ to = "judged again"), Path!Judge(from, to)
  PROVE  PathInv'
<1> USE DEF PathInv, AttemptStages, AfterRead, AfterJudge, AfterConfirm
<1>1. stage = from /\ judged' = raw /\ raw' = raw /\ SameWorld
  BY DEF Path!Judge, Path!Pass, SameWorld
<1>2. \/ Path!Eligible(raw, attempt.revision, installed, today, policy) /\ stage' = to
      \/ /\ ~Path!Eligible(raw, attempt.revision, installed, today, policy)
         /\ stage' = IF from = "read" THEN "refused" ELSE "refused late"
  BY <1>1 DEF Path!Judge, Path!Pass
<1>3. /\ UNCHANGED <<observation, registered, installed, amiss, today, policy, choices, attempt, ready, changed>>
      /\ Path!Refused(attempt.model)' = Path!Refused(attempt.model) /\ Path!ContextClean' = Path!ContextClean
      /\ Path!Ready(attempt.model, attempt.revision)' = Path!Ready(attempt.model, attempt.revision)
      /\ Path!Registered(raw)' = Path!Registered(raw)
      /\ Path!Eligible(raw, attempt.revision, installed, today, policy)' = Path!Eligible(raw, attempt.revision, installed,
        today, policy)
  BY <1>1, SameJudgements
<1>4. Passed'
  <2>1. ASSUME Path!Eligible(raw, attempt.revision, installed, today, policy)
        PROVE  \E day \in 0..today : Path!Eligible(raw, attempt.revision, raw.version, day, policy)
    <3>0. today \in Nat
      BY DEF Passed
    <3>1. today \in 0..today
      BY <3>0, LastOfItsDays
    <3>2. raw.version = installed
      BY <2>1, OfItsVersion
    <3>3. QED
      BY <2>1, <3>1, <3>2
  <2>2. stage' \in AttemptStages /\ stage' \notin {"cleared", "calling"}
    BY <1>1, <1>2
  <2>3. (\E day \in 0..today : Path!Eligible(raw, attempt.revision, raw.version, day, policy))
          => (\E day \in 0..today : Path!Eligible(judged, attempt.revision, judged.version, day, policy))'
    BY <1>1, <1>3 DEF Path!Eligible
  <2>4. QED
    BY <1>1, <1>2, <1>3, <2>1, <2>2, <2>3 DEF Passed
<1>5. ASSUME ~changed PROVE /\ ready => Path!Eligible(raw, attempt.revision, installed, today, policy)
                            /\ from = "read again" => Path!Eligible(raw, attempt.revision, installed, today, policy)
  <2>1. raw = observation /\ (ready => Path!Ready(attempt.model, attempt.revision))
    BY <1>1, <1>5 DEF AsItWas
  <2>2. ready => Path!Eligible(raw, attempt.revision, installed, today, policy)
    BY <2>1 DEF Path!Ready
  <2>3. QED
    BY <1>1, <1>5, <2>2 DEF AsItWas
<1>6. Path!RefusedByChange'
  BY <1>1, <1>2, <1>3, <1>5 DEF Path!RefusedByChange
<1>7. AsItWas'
  BY <1>1, <1>2, <1>3, <1>6 DEF AsItWas
<1>8. QED
  BY <1>4, <1>7

\* What was judged is registered.
LEMMA ConfirmKeeps ==
  ASSUME PathInv, NEW from, NEW to,
         (from = "judged" /\ to = "planned") \/ (from = "judged again" /\ to = "cleared"), Path!Confirm(from, to)
  PROVE  PathInv'
<1> USE DEF PathInv, AttemptStages, AfterRead, AfterJudge, AfterConfirm
<1>1. stage = from /\ judged' = judged /\ raw' = raw /\ vouched' = registered /\ SameWorld
  BY DEF Path!Confirm, Path!Pass, SameWorld
<1>2. \/ Path!Registered(raw) /\ stage' = to
      \/ ~Path!Registered(raw) /\ stage' = IF from = "judged" THEN "refused" ELSE "refused late"
  BY <1>1 DEF Path!Confirm, Path!Pass
<1>3. /\ UNCHANGED <<observation, registered, installed, amiss, today, policy, choices, attempt, ready, changed>>
      /\ Path!Refused(attempt.model)' = Path!Refused(attempt.model) /\ Path!ContextClean' = Path!ContextClean
      /\ Path!Ready(attempt.model, attempt.revision)' = Path!Ready(attempt.model, attempt.revision)
      /\ Path!Registered(raw)' = Path!Registered(raw)
      /\ Path!Eligible(raw, attempt.revision, installed, today, policy)' = Path!Eligible(raw, attempt.revision, installed,
        today, policy)
  BY <1>1, SameJudgements
<1>4. Passed'
  <2>1. (\E day \in 0..today : Path!Eligible(judged, attempt.revision, judged.version, day, policy))
          => (\E day \in 0..today : Path!Eligible(judged, attempt.revision, judged.version, day, policy))'
    BY <1>1, <1>3 DEF Path!Eligible
  <2>2. stage' \in {"cleared", "calling"} => (judged \in vouched)'
    BY <1>1, <1>2 DEF Passed, Path!Registered
  <2>3. QED
    BY <1>1, <1>2, <1>3, <2>1, <2>2 DEF Passed
<1>5. ASSUME ~changed PROVE /\ ready => Path!Registered(raw)
                            /\ from = "judged again" => Path!Registered(raw)
  <2>1. raw = observation /\ (ready => Path!Ready(attempt.model, attempt.revision))
    BY <1>1, <1>5 DEF AsItWas
  <2>2. QED
    BY <1>1, <1>5, <2>1 DEF AsItWas, Path!Ready
<1>6. Path!RefusedByChange'
  BY <1>1, <1>2, <1>3, <1>5 DEF Path!RefusedByChange
<1>7. AsItWas'
  BY <1>1, <1>2, <1>3, <1>6 DEF AsItWas
<1>8. QED
  BY <1>4, <1>7

\* check(), the reservation, and the look of the sandbox at its own program.
LEMMA GateKeeps ==
  ASSUME PathInv, Path!Check \/ Path!Reserve \/ Path!Call
  PROVE  PathInv'
<1> USE DEF PathInv, AttemptStages, AfterRead, AfterJudge, AfterConfirm
<1>1. judged' = judged /\ vouched' = vouched /\ raw' = raw /\ SameWorld
  BY DEF Path!Check, Path!Reserve, Path!Call, Path!Pass, SameWorld, Path!history
<1>2. \/ stage = "planned" /\ amiss # "folders" /\ stage' = "checked"
      \/ stage = "planned" /\ amiss = "folders" /\ stage' = "refused"
      \/ stage = "checked" /\ stage' = "reserved"
      \/ stage = "cleared" /\ amiss \notin {"folders", "untrusted"} /\ stage' = "calling"
      \/ stage = "cleared" /\ amiss \in {"folders", "untrusted"} /\ stage' = "refused late"
  BY DEF Path!Check, Path!Reserve, Path!Call, Path!Pass
<1>3. /\ UNCHANGED <<observation, registered, installed, amiss, today, policy, choices, attempt, ready, changed>>
      /\ Path!Refused(attempt.model)' = Path!Refused(attempt.model) /\ Path!ContextClean' = Path!ContextClean
      /\ Path!Ready(attempt.model, attempt.revision)' = Path!Ready(attempt.model, attempt.revision)
      /\ Path!Registered(raw)' = Path!Registered(raw)
      /\ Path!Eligible(raw, attempt.revision, installed, today, policy)' = Path!Eligible(raw, attempt.revision, installed,
        today, policy)
  BY <1>1, SameJudgements
<1>4. Passed'
  <2>1. (\E day \in 0..today : Path!Eligible(judged, attempt.revision, judged.version, day, policy))
          => (\E day \in 0..today : Path!Eligible(judged, attempt.revision, judged.version, day, policy))'
    BY <1>1, <1>3 DEF Path!Eligible
  <2>2. QED
    BY <1>1, <1>2, <1>3, <2>1 DEF Passed
<1>5. ASSUME ~changed PROVE ready => amiss = "nothing"
  <2>1. ready => Path!Ready(attempt.model, attempt.revision)
    BY <1>2, <1>5 DEF AsItWas
  <2>2. QED
    BY <2>1 DEF Path!Ready
<1>6. Path!RefusedByChange'
  BY <1>1, <1>2, <1>3, <1>5 DEF Path!RefusedByChange, AsItWas
<1>7. AsItWas'
  BY <1>1, <1>2, <1>3, <1>6 DEF AsItWas
<1>8. QED
  BY <1>4, <1>7

\* An attempt begins, allowed by the readiness view or not.
LEMMA BeginKeeps ==
  ASSUME PathInv, NEW model, NEW revision, Path!Begin(model, revision)
  PROVE  PathInv'
<1>1. /\ stage' = "begun" /\ attempt' = [model |-> model, revision |-> revision] /\ changed' = FALSE
      /\ UNCHANGED <<observation, registered, installed, amiss, today, policy, choices>>
      /\ ready' = Path!Ready(model, revision)
  BY DEF Path!Begin, Path!world, Path!app
<1>2. ready' => Path!Ready(attempt.model, attempt.revision)'
  BY <1>1 DEF Path!Ready, Path!Eligible, Path!Registered
<1>3. QED
  BY <1>1, <1>2 DEF PathInv, Passed, AsItWas, Path!RefusedByChange, AttemptStages, AfterRead, AfterJudge, AfterConfirm

\* An attempt ends, or the process does.
LEMMA EndKeeps ==
  ASSUME PathInv, Path!End \/ Path!Restart
  PROVE  PathInv'
<1>1. stage' = "none" /\ changed' = FALSE /\ today' = today /\ choices' \in {Choice, Path!Default}
  BY DEF Path!End, Path!Restart, Path!Done, Path!world, Path!app, PathInv, Passed
<1>2. QED
  BY <1>1 DEF PathInv, Passed, AsItWas, Path!RefusedByChange, AttemptStages, AfterRead, AfterJudge, AfterConfirm

\* What happens to the machine does not undo what was looked at.
LEMMA WorldKeeps ==
  ASSUME PathInv, Path!Change \/ \E label \in Record : Path!Register(label)
  PROVE  PathInv'
<1> USE DEF PathInv, AttemptStages, AfterRead, AfterJudge, AfterConfirm
<1>1. /\ UNCHANGED <<policy, choices, stage, attempt, raw, judged, vouched, ready>>
      /\ changed' = (stage # "none")
  BY DEF Path!Change, Path!Register, Path!app
<1>2. today' \in Nat /\ 0..today \subseteq 0..today'
  <2>1. today' = today \/ today' = today + 1
    BY DEF Path!Change, Path!Register
  <2>2. today \in Nat
    BY DEF Passed
  <2>3. QED
    BY <2>1, <2>2
<1>3. Passed'
  <2>1. (\E day \in 0..today : Path!Eligible(judged, attempt.revision, judged.version, day, policy))
          => (\E day \in 0..today : Path!Eligible(judged, attempt.revision, judged.version, day, policy))'
    BY <1>1, <1>2 DEF Path!Eligible
  <2>2. Path!Refused(attempt.model)' = Path!Refused(attempt.model)
    BY <1>1 DEF Path!Refused
  <2>3. QED
    BY <1>1, <1>2, <2>1, <2>2 DEF Passed
<1>4. AsItWas'
  BY <1>1 DEF AsItWas, Path!RefusedByChange
<1>5. QED
  BY <1>3, <1>4

\* Every step keeps what was passed and what is still as it was.
LEMMA PathSteps ==
  ASSUME Path!ConfigurationRules, PathInv, [Path!Next]_(Path!vars)
  PROVE  PathInv'
<1>1. CASE UNCHANGED Path!vars
  BY <1>1 DEF Path!vars, Path!world, Path!app, Path!history, PathInv, Passed, AsItWas, Path!RefusedByChange, Path!Refused,
     Path!Eligible, Path!Ready, Path!Registered,
              Path!ContextClean
<1>2. ASSUME Path!Next PROVE PathInv'
  BY <1>2, ReadKeeps, JudgeKeeps, ConfirmKeeps, GateKeeps, BeginKeeps, EndKeeps, WorldKeeps DEF Path!Next
<1>3. QED
  BY <1>1, <1>2

\* Whoever has passed all of it calls what was observed, and a late refusal has a reason.
LEMMA CallingIsClean ==
  ASSUME Path!ConfigurationRules, PathInv
  PROVE  Path!CallsAsObserved /\ Path!RefusedByChange
<1>1. ASSUME ~Path!Refused(attempt.model)
      PROVE  attempt.model # "fable" /\ [model |-> attempt.model, funding |-> "included"] \in choices
  <2>1. attempt.model # "fable"
    BY <1>1 DEF Path!Refused
  <2>2. PICK c \in choices : Path!Classified(c).model = attempt.model /\ Path!Classified(c).funding = "included"
    BY <1>1 DEF Path!Refused
  <2>3. c \in [model : STRING, funding : STRING]
    BY DEF Path!ConfigurationRules, PathInv, Passed, Path!Default
  <2>4. Path!Classified(c) = c
    BY <2>1, <2>2, <2>3 DEF Path!Classified
  <2>5. c = [model |-> attempt.model, funding |-> "included"]
    BY <2>2, <2>3, <2>4
  <2>6. QED
    BY <2>1, <2>5
<1>2. QED
  BY <1>1 DEF PathInv, Passed, AsItWas, Path!CallsAsObserved, AfterRead, AfterJudge, AfterConfirm

\* For any records, lists of models and days: a call starts on what was observed, and registered at its second look, and is
\* refused late only after a change (cli_executor, live_config, readiness).
THEOREM GateStaysExact ==
  ASSUME Path!ConfigurationRules
  PROVE  Path!Spec => [](Path!CallsAsObserved /\ Path!RefusedByChange)
<1>1. Path!Init => PathInv
  BY PathBegins
<1>2. PathInv /\ [Path!Next]_(Path!vars) => PathInv'
  BY PathSteps
<1>3. PathInv => Path!CallsAsObserved /\ Path!RefusedByChange
  BY CallingIsClean
<1>4. QED
  BY <1>1, <1>2, <1>3, PTL DEF Path!Spec

-----------------------------------------------------------------------------
(* The pages of the screen.                                                  *)

\* The rows there may be.
Rows == (1..MaxTime) \X RowName

\* There are finitely many rows.
LEMMA RowsAreFinite == ASSUME Index!NameRules, NEW S \in SUBSET Rows PROVE IsFiniteSet(S)
<1>1. IsFiniteSet(1..MaxTime) /\ IsFiniteSet(RowName)
  <2>1. IsFiniteSet(1..MaxTime)
    BY FS_Interval DEF Index!NameRules
  <2>2. IsFiniteSet(RowName)
    BY DEF Index!NameRules, IsFiniteSet, Index!IsFiniteSet
  <2>3. QED
    BY <2>1, <2>2
<1>2. IsFiniteSet(Rows)
  BY <1>1, FS_Product DEF Rows
<1>3. QED
  BY <1>2, FS_Subset

\* The order of rows.
\* A row is a pair of numbers, and so is the position before all of them.
LEMMA RowShape ==
  ASSUME Index!NameRules, NEW a \in Rows \union {Index!Top}
  PROVE  a = <<a[1], a[2]>> /\ a[1] \in Nat /\ a[2] \in Nat
<1>1. CASE a \in Rows
  <2>1. a = <<a[1], a[2]>> /\ a[1] \in 1..MaxTime /\ a[2] \in RowName
    BY <1>1 DEF Rows
  <2>2. QED
    BY <2>1 DEF Index!NameRules
<1>2. CASE a = Index!Top
  BY <1>2 DEF Index!NameRules, Index!Top
<1>3. QED
  BY <1>1, <1>2

LEMMA Ordered ==
  ASSUME Index!NameRules, NEW a \in Rows \union {Index!Top}, NEW b \in Rows \union {Index!Top}
  PROVE  /\ ~Index!Below(a, a)
         /\ Index!Below(a, b) => ~Index!Below(b, a)
         /\ a = b \/ Index!Below(a, b) \/ Index!Below(b, a)
<1>1. /\ a = <<a[1], a[2]>> /\ a[1] \in Nat /\ a[2] \in Nat
      /\ b = <<b[1], b[2]>> /\ b[1] \in Nat /\ b[2] \in Nat
  BY RowShape
<1>2. /\ ~Index!Below(a, a)
      /\ Index!Below(a, b) => ~Index!Below(b, a)
      /\ (a[1] = b[1] /\ a[2] = b[2]) \/ Index!Below(a, b) \/ Index!Below(b, a)
  BY <1>1 DEF Index!Below
<1>3. QED
  BY <1>1, <1>2

\* Below is a strict order.
LEMMA Transitive ==
  ASSUME Index!NameRules, NEW a \in Rows \union {Index!Top}, NEW b \in Rows \union {Index!Top}, NEW c \in Rows \union {Index!Top},
         Index!Below(a, b), Index!Below(b, c)
  PROVE  Index!Below(a, c)
<1>1. a[1] \in Nat /\ a[2] \in Nat /\ b[1] \in Nat /\ b[2] \in Nat /\ c[1] \in Nat /\ c[2] \in Nat
  BY RowShape
<1>2. QED
  BY <1>1 DEF Index!Below

\* All rows are below the first position, and none looks like the end of a walk.
LEMMA TopIsTop == ASSUME Index!NameRules, NEW a \in Rows PROVE Index!Below(a, Index!Top) /\ a # Index!Top /\ {a} # Index!None
<1>1. a[1] \in 1..MaxTime /\ a[1] \in Nat /\ MaxTime \in Nat
  BY DEF Rows, Index!NameRules
<1>2. Index!Below(a, Index!Top) /\ a[1] # Index!Top[1] /\ a[1] # <<0, 0>>[1]
  BY <1>1 DEF Index!Below, Index!Top
<1>3. QED
  BY <1>2 DEF Index!None

\* A strict order on a finite set has an end, by the well-foundedness of strict inclusion.
LEMMA ExtremeExists ==
  ASSUME NEW S, IsFiniteSet(S), S # {}, NEW R, \A a \in S : <<a, a>> \notin R,
         \A a, b, c \in S : <<a, b>> \in R /\ <<b, c>> \in R => <<a, c>> \in R
  PROVE  \E r \in S : \A q \in S : <<q, r>> \notin R
<1> DEFINE below(r) == {q \in S : <<q, r>> \in R}
           T == {below(r) : r \in S}
<1>1. IsWellFoundedOn(StrictSubsetOrdering(S), FiniteSubsetsOf(S))
  BY FS_StrictSubsetOrderingWellFounded
<1>2. T \subseteq FiniteSubsetsOf(S) /\ T # {}
  <2>1. \A r \in S : below(r) \subseteq S /\ IsFiniteSet(below(r))
    BY FS_Subset
  <2>2. FiniteSubsetsOf(S) = SUBSET S
    BY FS_FiniteSubsetsOfFinite
  <2> HIDE DEF below
  <2>3. QED
    BY <2>1, <2>2
<1> HIDE DEF T
<1>3. PICK m \in T : \A y \in T : <<y, m>> \notin StrictSubsetOrdering(S)
  BY <1>1, <1>2, WFMin
<1>4. PICK r \in S : m = below(r)
  BY DEF T
<1>5. ASSUME NEW q \in S, <<q, r>> \in R
      PROVE FALSE
  <2>1. below(q) \in T /\ below(q) \subseteq below(r) /\ q \in below(r) /\ q \notin below(q)
    BY <1>5 DEF T
  <2>2. below(q) # below(r) /\ below(q) \subseteq S /\ below(r) \subseteq S
    BY <2>1
  <2> HIDE DEF below
  <2>3. <<below(q), below(r)>> \in StrictSubsetOrdering(S)
    BY <2>1, <2>2 DEF StrictSubsetOrdering
  <2>4. QED
    BY <1>3, <1>4, <2>1, <2>3
<1>6. QED
  BY <1>5

\* Finitely many rows have a latest and an oldest.
LEMMA EndsExist ==
  ASSUME Index!NameRules, NEW S \in SUBSET Rows, S # {}
  PROVE  /\ \E i \in S : \A j \in S : ~Index!Below(i, j)
         /\ \E i \in S : \A j \in S : ~Index!Below(j, i)
<1> DEFINE up == {p \in S \X S : Index!Below(p[2], p[1])}
           down == {p \in S \X S : Index!Below(p[1], p[2])}
<1>1. IsFiniteSet(S)
  BY RowsAreFinite
<1>2. \A a, b \in S : (<<a, b>> \in up <=> Index!Below(b, a)) /\ (<<a, b>> \in down <=> Index!Below(a, b))
  OBVIOUS
<1> HIDE DEF up, down
<1>3. \A a \in S : ~Index!Below(a, a)
  BY Ordered
<1>4. \A a, b, c \in S : Index!Below(a, b) /\ Index!Below(b, c) => Index!Below(a, c)
  BY Transitive
<1>5. \E r \in S : \A q \in S : <<q, r>> \notin up
  <2>1. \A a \in S : <<a, a>> \notin up
    BY <1>2, <1>3
  <2>2. \A a, b, c \in S : <<a, b>> \in up /\ <<b, c>> \in up => <<a, c>> \in up
    BY ONLY <1>2, <1>4
  <2>3. S # {}
    OBVIOUS
  <2>4. QED
    BY ONLY <1>1, <2>1, <2>2, <2>3, ExtremeExists
<1>6. \E r \in S : \A q \in S : <<q, r>> \notin down
  <2>1. \A a \in S : <<a, a>> \notin down
    BY <1>2, <1>3
  <2>2. \A a, b, c \in S : <<a, b>> \in down /\ <<b, c>> \in down => <<a, c>> \in down
    BY ONLY <1>2, <1>4
  <2>3. S # {}
    OBVIOUS
  <2>4. QED
    BY ONLY <1>1, <2>1, <2>2, <2>3, ExtremeExists
<1>7. QED
  BY <1>2, <1>5, <1>6

-----------------------------------------------------------------------------
\* The cardinality of the instance is the one of this module.
LEMMA CountOfPage == ASSUME NEW S PROVE Index!Cardinality(S) = Cardinality(S)
BY DEF Cardinality, Index!Cardinality

\* A page holds the latest rows of those below a position.
LEMMA PageTakesLatest ==
  ASSUME Index!NameRules, NEW index \in SUBSET Rows, NEW after \in Rows \union {Index!Top}, NEW limit \in 1..MaxLimit
  PROVE  LET left == {r \in index : Index!Below(r, after)}
             items == Index!Page(index, after, limit)
         IN /\ items \subseteq left
            /\ items = {} => left = {}
            /\ \A i \in items, r \in left \ items : Index!Below(r, i)
<1> DEFINE left == {r \in index : Index!Below(r, after)}
           items == Index!Page(index, after, limit)
           over(r) == {s \in left : Index!Below(r, s)}
<1>0. limit \in Nat /\ limit > 0
  BY DEF Index!NameRules
<1>1. IsFiniteSet(left) /\ left \subseteq Rows
  BY RowsAreFinite
<1>2. items = {r \in left : Cardinality(over(r)) < limit}
  BY CountOfPage DEF Index!Page
<1>3. \A r \in left : IsFiniteSet(over(r)) /\ Cardinality(over(r)) \in Nat
  BY <1>1, FS_Subset, FS_CardinalityType
<1>4. ASSUME left # {} PROVE items # {}
  <2>1. PICK i \in left : \A j \in left : ~Index!Below(i, j)
    BY <1>1, <1>4, EndsExist
  <2>2. over(i) = {}
    BY <2>1
  <2>3. Cardinality(over(i)) = 0
    BY <2>2, FS_EmptySet
  <2>4. QED
    BY <1>0, <1>2, <2>3
<1>5. ASSUME NEW i \in items, NEW r \in left \ items PROVE Index!Below(r, i)
  <2>1. i \in left /\ Cardinality(over(i)) < limit /\ ~(Cardinality(over(r)) < limit)
    BY <1>2, <1>5
  <2>2. ASSUME Index!Below(i, r) PROVE FALSE
    <3>1. over(r) \subseteq over(i)
      BY <1>1, <2>1, <2>2, Transitive
    <3> HIDE DEF over
    <3>2. Cardinality(over(r)) <= Cardinality(over(i))
      BY <1>3, <2>1, <3>1, FS_Subset
    <3>3. QED
      BY <1>0, <1>3, <2>1, <3>2
  <2>3. i # r
    BY <1>5
  <2>4. QED
    BY <1>1, <2>1, <2>2, <2>3, Ordered
<1>6. QED
  BY <1>2, <1>4, <1>5

\* What a reader has of its walk at a position.
Walked(after) == (\A s \in seen : ~Index!Below(s, after)) /\ (\A r \in owed : r \in seen \/ Index!Below(r, after))

PlacesOfRows ==
  /\ rows \in SUBSET Rows
  /\ pending = Index!None \/ pending \in SUBSET Rows
  /\ now \in 1..MaxTime /\ own \in Nat /\ other \in Nat
  /\ cache \in [token : Int \X Int, memory : Int, rows : SUBSET Rows]
  /\ memory \in Int
  /\ seen \in SUBSET Rows
  /\ owed \subseteq rows

\* An index under the token of this moment was built from the rows of this moment.
IndexInv ==
  /\ cache.token[1] <= own /\ cache.token[2] <= other
  /\ pending # Index!None => cache.token[1] < own
  /\ cache.token = Index!Token => cache.rows = rows

WalkInv == shown.fresh /\ (shown.next = Index!None \/ \E anchor \in Rows : shown.next = {anchor} /\ Walked(anchor))

PagesInv == PlacesOfRows /\ IndexInv /\ WalkInv

\* Nothing was built or shown yet.
LEMMA PagesBegin == ASSUME Index!NameRules, Index!Init PROVE PagesInv
<1>1. {1} \X RowName \subseteq Rows
  BY DEF Index!NameRules, Rows
<1>2. PlacesOfRows
  BY <1>1 DEF Index!Init, PlacesOfRows, Index!NameRules
<1>3. IndexInv
  BY DEF Index!Init, IndexInv, Index!Token
<1>4. WalkInv
  BY DEF Index!Init, WalkInv, Index!NoPage
<1>5. QED
  BY <1>2, <1>3, <1>4 DEF PagesInv

\* Writes, commits and the clock never leave an index that passes for a fresh one.
LEMMA WorldMoves ==
  ASSUME Index!NameRules, PagesInv,
         Index!Tick \/ Index!Write \/ Index!Commit \/ Index!Rollback \/ Index!WriteElsewhere \/ Index!Switch
  PROVE  PagesInv'
<1> USE DEF PagesInv
<1>1. UNCHANGED <<cache, shown, seen>> /\ owed' \subseteq owed
  BY DEF Index!Tick, Index!Write, Index!Commit, Index!Rollback, Index!WriteElsewhere, Index!Switch
<1>2. PlacesOfRows'
  <2>1. \A n \in RowName : <<now, n>> \in Rows
    BY DEF PlacesOfRows, Rows
  <2>2. CASE Index!Tick
    BY <2>2 DEF Index!Tick, PlacesOfRows, Index!NameRules
  <2>3. CASE Index!Write
    BY <2>1, <2>3 DEF Index!Write, PlacesOfRows, Index!Current
  <2>4. CASE Index!Commit
    BY <2>4 DEF Index!Commit, PlacesOfRows
  <2>5. CASE Index!Rollback
    BY <2>5 DEF Index!Rollback, PlacesOfRows
  <2>6. CASE Index!WriteElsewhere
    BY <2>1, <2>6 DEF Index!WriteElsewhere, PlacesOfRows
  <2>7. CASE Index!Switch
    BY <2>7 DEF Index!Switch, PlacesOfRows
  <2>8. QED
    BY <2>2, <2>3, <2>4, <2>5, <2>6, <2>7
<1>3. IndexInv'
  <2>1. cache.token = <<cache.token[1], cache.token[2]>> /\ cache.token[1] \in Int /\ cache.token[2] \in Int
        /\ own \in Nat /\ other \in Nat
    BY DEF PlacesOfRows
  <2>2. CASE Index!Tick \/ Index!Rollback \/ Index!Switch
    BY <1>1, <2>1, <2>2 DEF Index!Tick, Index!Rollback, Index!Switch, IndexInv, Index!Token
  <2>3. CASE Index!Write
    BY <1>1, <2>1, <2>3 DEF Index!Write, IndexInv, Index!Token
  <2>4. CASE Index!Commit
    BY <1>1, <2>1, <2>4 DEF Index!Commit, IndexInv, Index!Token
  <2>5. CASE Index!WriteElsewhere
    BY <1>1, <2>1, <2>5 DEF Index!WriteElsewhere, IndexInv, Index!Token
  <2>6. QED
    BY <2>2, <2>3, <2>4, <2>5
<1>4. WalkInv'
  BY <1>1 DEF WalkInv, Walked
<1>5. QED
  BY <1>2, <1>3, <1>4

\* What is built for a page is what there is.
LEMMA BuiltFresh ==
  ASSUME Index!NameRules, PagesInv
  PROVE  /\ Index!Snapshot.rows = Index!Current /\ Index!Snapshot.memory = memory /\ Index!Current \in SUBSET Rows
         /\ pending = Index!None => Index!Snapshot.token = Index!Token
         /\ Index!Snapshot \in [token : Int \X Int, memory : Int, rows : SUBSET Rows]
<1>1. Index!Current \in SUBSET Rows /\ Index!Token \in Int \X Int /\ memory \in Int
  BY DEF PagesInv, PlacesOfRows, Index!Current, Index!Token
<1>2. CASE pending = Index!None /\ Index!Kept
  BY <1>1, <1>2 DEF PagesInv, PlacesOfRows, IndexInv, Index!Snapshot, Index!Kept, Index!Current
<1>3. CASE ~(pending = Index!None /\ Index!Kept)
  BY <1>1, <1>3 DEF Index!Snapshot
<1>4. QED
  BY <1>2, <1>3

\* A page is fresh, repeats nothing of its walk, and if it is the last nothing is left out.
LEMMA PageKeeps ==
  ASSUME Index!NameRules, PagesInv, NEW after \in Rows \union {Index!Top}, NEW limit \in 1..MaxLimit, Index!Browse(after, limit),
         after = Index!Top \/ Walked(after)
  PROVE  /\ PagesInv'
         /\ after # Index!Top => shown'.items \intersect seen = {}
         /\ shown'.next = Index!None /\ pending' = Index!None => owed' \subseteq seen'
<1> DEFINE left == {r \in Index!Current : Index!Below(r, after)}
           items == Index!Page(Index!Current, after, limit)
           more == {r \in Index!Current : \A i \in items : Index!Below(r, i)}
           last == CHOOSE i \in items : \A j \in items : ~Index!Below(j, i)
<1>1. /\ UNCHANGED <<rows, pending, own, other, memory, now>>
      /\ cache' = IF pending = Index!None THEN Index!Snapshot ELSE cache
      /\ shown' = [items |-> items, fresh |-> TRUE, next |-> IF items = {} \/ more = {} THEN Index!None ELSE {last}]
      /\ seen' = IF after = Index!Top THEN items ELSE seen \union items
      /\ owed' = IF pending # Index!None THEN {} ELSE IF after = Index!Top THEN rows ELSE owed
  BY BuiltFresh DEF Index!Browse, Index!world
<1>2. Index!Current \in SUBSET Rows /\ (pending = Index!None => Index!Current = rows)
  BY BuiltFresh DEF Index!Current
<1>3. /\ items \subseteq left
      /\ items = {} => left = {}
      /\ \A i \in items, r \in left \ items : Index!Below(r, i)
  BY <1>2, PageTakesLatest
<1>4. items \in SUBSET Rows /\ left \in SUBSET Rows
  BY <1>2, <1>3
<1> HIDE DEF items
<1>5. PlacesOfRows'
  BY <1>1, <1>2, <1>4, BuiltFresh DEF PagesInv, PlacesOfRows
<1>6. IndexInv'
  <2>1. CASE pending = Index!None
    <3>1. cache'.token = Index!Token /\ cache'.rows = rows /\ Index!Token' = Index!Token /\ Index!Token = <<own, other>>
      BY <1>1, <1>2, <2>1, BuiltFresh DEF Index!Token
    <3>2. own \in Nat /\ other \in Nat
      BY DEF PagesInv, PlacesOfRows
    <3>3. QED
      BY <1>1, <2>1, <3>1, <3>2 DEF IndexInv
  <2>2. CASE pending # Index!None
    BY <1>1, <2>2 DEF PagesInv, IndexInv, Index!Token
  <2>3. QED
    BY <2>1, <2>2
<1>7. after # Index!Top => items \intersect seen = {}
  BY <1>3 DEF Walked
\* Of what is owed, nothing that is left has been passed over.
<1>8. ASSUME NEW r \in owed' PROVE r \in seen' \/ (r \in left \ items)
  <2>1. pending = Index!None /\ r \in rows /\ r \in Rows
    BY <1>1, <1>8 DEF PagesInv, PlacesOfRows
  <2>2. r \in Index!Current
    BY <1>2, <2>1
  <2>3. CASE after = Index!Top
    BY <1>1, <2>1, <2>2, <2>3, TopIsTop
  <2>4. CASE after # Index!Top
    BY <1>1, <1>8, <2>1, <2>2, <2>4 DEF Walked
  <2>5. QED
    BY <2>3, <2>4
<1>9. ASSUME items # {} PROVE last \in items /\ \A j \in items : ~Index!Below(j, last)
  BY <1>4, <1>9, EndsExist
<1> HIDE DEF last
<1>10. ASSUME shown'.next = Index!None, pending' = Index!None PROVE owed' \subseteq seen'
  <2>1. items = {} \/ more = {}
    <3>1. ASSUME items # {}, more # {} PROVE FALSE
      <4>1. last \in Rows
        BY <1>4, <1>9, <3>1
      <4>2. shown'.next = {last}
        BY <1>1, <3>1
      <4>3. QED
        BY <1>10, <4>1, <4>2, TopIsTop
    <3>2. QED
      BY <3>1
  <2>2. ASSUME NEW r \in left \ items PROVE FALSE
    <3>1. items # {}
      BY <1>3, <2>2
    <3>2. r \in more
      BY <1>3, <2>2
    <3>3. QED
      BY <2>1, <3>1, <3>2
  <2>3. QED
    BY <1>8, <2>2
<1>11. WalkInv'
  <2>1. CASE items = {} \/ more = {}
    BY <1>1, <2>1 DEF WalkInv
  <2>2. CASE items # {} /\ more # {}
    <3>1. PICK a \in items : a = last /\ a \in Rows /\ \A j \in items : ~Index!Below(j, a)
      BY <1>4, <1>9, <2>2
    <3>2. shown'.next = {a} /\ shown'.fresh
      BY <1>1, <2>2, <3>1
    <3>3. ASSUME NEW s \in seen' PROVE ~Index!Below(s, a)
      <4>1. CASE s \in items
        BY <3>1, <4>1
      <4>2. CASE s \notin items
        <5>1. after \in Rows /\ s \in seen /\ s \in Rows /\ ~Index!Below(s, after) /\ Index!Below(a, after)
          BY <1>1, <1>3, <3>1, <3>3, <4>2 DEF Walked, PagesInv, PlacesOfRows
        <5>2. QED
          BY <3>1, <5>1, Transitive
      <4>3. QED
        BY <4>1, <4>2
    <3>4. ASSUME NEW r \in owed' PROVE r \in seen' \/ Index!Below(r, a)
      BY <1>3, <1>8, <3>1, <3>4
    <3>5. Walked(a)'
      BY <3>3, <3>4 DEF Walked
    <3>6. QED
      BY <3>1, <3>2, <3>5 DEF WalkInv
  <2>3. QED
    BY <2>1, <2>2
<1>12. shown'.items = items
  BY <1>1
<1>13. QED
  BY <1>5, <1>6, <1>7, <1>10, <1>11, <1>12 DEF PagesInv

\* What PagesAreWhole says of a step.
WholeStep ==
     /\ shown'.fresh
     /\ (\E limit \in 1..MaxLimit : Index!Following(limit)) => shown'.items \intersect seen = {}
     /\ shown' # shown /\ shown'.next = Index!None /\ pending' = Index!None => owed' \subseteq seen'

\* A page that follows begins where the last one ended.
LEMMA FollowingWalks ==
  ASSUME Index!NameRules, PagesInv, NEW limit \in 1..MaxLimit, Index!Following(limit)
  PROVE  \E after \in Rows : after # Index!Top /\ Walked(after) /\ Index!Browse(after, limit)
<1>1. PICK anchor \in Rows : shown.next = {anchor} /\ Walked(anchor)
  BY DEF Index!Following, PagesInv, WalkInv
<1>2. Index!Browse(anchor, limit) /\ anchor # Index!Top
  BY <1>1, TopIsTop DEF Index!Following
<1>3. QED
  BY <1>1, <1>2

\* Every step keeps the index honest and the walk complete.
LEMMA PagesStep ==
  ASSUME Index!NameRules, PagesInv, [Index!Next]_(Index!vars)
  PROVE  PagesInv' /\ [WholeStep]_(Index!vars)
<1>1. CASE UNCHANGED Index!vars
  <2>1. PagesInv'
    BY <1>1 DEF Index!vars, Index!world, PagesInv, PlacesOfRows, IndexInv, WalkInv, Walked, Index!Token
  <2>2. QED
    BY <1>1, <2>1
<1>2. ASSUME NEW limit \in 1..MaxLimit, Index!Following(limit)
      PROVE  PagesInv' /\ WholeStep
  <2>1. PICK after \in Rows : after # Index!Top /\ Walked(after) /\ Index!Browse(after, limit)
    BY <1>2, FollowingWalks
  <2>2. /\ PagesInv'
        /\ shown'.items \intersect seen = {}
        /\ shown'.next = Index!None /\ pending' = Index!None => owed' \subseteq seen'
    BY <2>1, PageKeeps
  <2>3. QED
    BY <2>2 DEF WholeStep, PagesInv, WalkInv
<1>3. ASSUME NEW limit \in 1..MaxLimit, Index!First(limit), ~\E l \in 1..MaxLimit : Index!Following(l)
      PROVE  PagesInv' /\ WholeStep
  <2>1. /\ PagesInv'
        /\ shown'.next = Index!None /\ pending' = Index!None => owed' \subseteq seen'
    BY <1>3, PageKeeps DEF Index!First
  <2>2. QED
    BY <1>3, <2>1 DEF WholeStep, PagesInv, WalkInv
<1>4. ASSUME Index!Tick \/ Index!Write \/ Index!Commit \/ Index!Rollback \/ Index!WriteElsewhere \/ Index!Switch,
             ~\E l \in 1..MaxLimit : Index!Following(l)
      PROVE  PagesInv' /\ WholeStep
  <2>1. PagesInv' /\ shown' = shown
    BY <1>4, WorldMoves DEF Index!Tick, Index!Write, Index!Commit, Index!Rollback, Index!WriteElsewhere, Index!Switch
  <2>2. QED
    BY <1>4, <2>1 DEF WholeStep, PagesInv, WalkInv
<1>5. QED
  BY <1>1, <1>2, <1>3, <1>4 DEF Index!Next

\* For any rows, limits and writers: every page is fresh, and a walk shows every row once (pages.page).
THEOREM PagesStayWhole ==
  ASSUME Index!NameRules
  PROVE  Index!Spec => Index!PagesAreWhole
<1>1. Index!Init => PagesInv
  BY PagesBegin
<1>2. PagesInv /\ [Index!Next]_(Index!vars) => PagesInv' /\ [WholeStep]_(Index!vars)
  BY PagesStep
<1>3. Index!Spec => [][WholeStep]_(Index!vars)
  BY <1>1, <1>2, PTL DEF Index!Spec
<1>4. QED
  BY <1>3 DEF Index!PagesAreWhole, WholeStep

-----------------------------------------------------------------------------
(* The server.                                                               *)

\* Where a connection may be.
ConnectionPhases == {"new", "never", "over"} \union Web!HasSlot

\* It takes connections, and process_request may be at one of them.
Up == serving \in {"serving", "failing", "unwinding"}

\* What is counted and where everything is.
PlacesOK ==
  /\ connection \in [Connection -> ConnectionPhases]
  /\ slots \in 0..MaxConnections
  /\ serving \in {"serving", "failing", "unwinding", "stopping", "joining", "settling", "leaving", "closing", "ended"}
  /\ interrupts \in Nat

\* process_request is at one connection, and only there is a thread that has not begun.
AcceptInv ==
  /\ accepting \subseteq Connection /\ \A c, d \in accepting : c = d
  /\ ~Up => accepting = {}
  /\ \A c \in Connection : connection[c] \in {"taken", "listed"} \/ (connection[c] = "started" /\ Up) => c \in accepting
  /\ \A c \in accepting : /\ connection[c] \notin {"new", "never"}
                          /\ serving = "failing" => connection[c] = "listed"
                          /\ serving = "unwinding" => connection[c] # "taken"
  /\ serving = "unwinding" => interrupts # 0

\* What a connection has; an interrupt may take one thread off the list, or leave one on it that never began.
HandsInv ==
  /\ \A c \in Connection : c \in socket => connection[c] \notin {"new", "never", "over"}
  /\ \A c \in Connection : c \in timer => connection[c] \in Web!InThread
  /\ threads \subseteq {c \in Connection : connection[c] \notin {"new", "taken"}}
  /\ \A c \in Connection : connection[c] = "listed" => c \in threads
  /\ Up \/ interrupts = 0 => Web!Running \subseteq threads /\ \A c \in threads : connection[c] # "never"
  /\ \A c, d \in Web!Running \ threads : c = d

\* Every slot is free or held by one connection; an interrupt that ends the loop may leave one too many or too few.
SlotsInv ==
  /\ IsFiniteSet(Web!Served)
  /\ slots + Cardinality(Web!Served) - MaxConnections \in (IF Up THEN {0} ELSE {-1, 0, 1})

\* What the server may rely on once it has waited for the threads.
StopInv ==
  /\ interrupts = 0 => ~raised
  /\ serving \in {"settling", "leaving", "closing", "ended"} /\ ~raised =>
       (\A c, d \in Web!Running : c = d) /\ (interrupts = 0 => Web!Running = {})

\* The ledger is closed last, and only a whole end has code 0.
LastUseInv ==
  /\ serving \in {"joining", "settling", "leaving", "closing"} => closing
  /\ serving = "closing" => ~working
  /\ ~ledger => serving = "ended" /\ closing /\ ~working
  /\ code = 0 => ~ledger /\ ~unsettled /\ ~raised

ServerInv == PlacesOK /\ AcceptInv /\ HandsInv /\ SlotsInv /\ StopInv /\ LastUseInv

\* The cardinality of the instance is the one of this module.
LEMMA CountOfSlots == ASSUME NEW S PROVE Web!Cardinality(S) = Cardinality(S)
BY DEF Cardinality, Web!Cardinality

\* The server begins with all slots free.
LEMMA ServerInvInit ==
  ASSUME MaxConnections \in Nat, Web!Init
  PROVE  ServerInv
<1>1. Web!Served = {} /\ Web!Running = {}
  BY DEF Web!Init, Web!Served, Web!Running, Web!HasSlot, Web!InThread
<1>2. PlacesOK /\ AcceptInv
  BY DEF Web!Init, PlacesOK, AcceptInv, ConnectionPhases
<1>3. HandsInv
  BY <1>1 DEF Web!Init, HandsInv
<1>4. StopInv /\ LastUseInv
  BY <1>1 DEF Web!Init, StopInv, LastUseInv
<1>5. SlotsInv
  BY <1>1, FS_EmptySet DEF Web!Init, SlotsInv, Up
<1>6. QED
  BY <1>2, <1>3, <1>4, <1>5 DEF ServerInv

\* What a step of one connection does to those that hold a slot and to the threads that run.
LEMMA ServedMoves ==
  ASSUME PlacesOK, NEW c \in Connection, NEW to \in ConnectionPhases, Web!Go(c, to)
  PROVE  /\ connection' \in [Connection -> ConnectionPhases]
         /\ connection'[c] = to /\ \A d \in Connection \ {c} : connection'[d] = connection[d]
         /\ Web!Served' = IF to \in Web!HasSlot THEN Web!Served \union {c} ELSE Web!Served \ {c}
         /\ Web!Running' = IF to \in {"started"} \union Web!InThread THEN Web!Running \union {c} ELSE Web!Running \ {c}
         /\ c \in Web!Served <=> connection[c] \in Web!HasSlot
         /\ c \in Web!Running <=> connection[c] \in {"started"} \union Web!InThread
<1>1. connection' \in [Connection -> ConnectionPhases] /\ connection'[c] = to /\ \A d \in Connection \ {c} : connection'[d] = connection[d]
  BY DEF PlacesOK, Web!Go
<1>2. Web!Served' = IF to \in Web!HasSlot THEN Web!Served \union {c} ELSE Web!Served \ {c}
  BY <1>1 DEF Web!Served
<1>3. Web!Running' = IF to \in {"started"} \union Web!InThread THEN Web!Running \union {c} ELSE Web!Running \ {c}
  BY <1>1 DEF Web!Running
<1>4. QED
  BY <1>1, <1>2, <1>3 DEF Web!Served, Web!Running

\* A slot is taken or given back with the connection that holds it.
LEMMA SlotsStay ==
  ASSUME MaxConnections \in Nat, PlacesOK, SlotsInv, Up' => Up, NEW c \in Connection,
         \/ Web!Served' = Web!Served /\ slots' = slots
         \/ c \notin Web!Served /\ Web!Served' = Web!Served \union {c} /\ slots > 0 /\ slots' = slots - 1 /\ Up
         \/ c \in Web!Served /\ Web!Served' = Web!Served \ {c} /\ slots' = IF slots < MaxConnections THEN slots + 1 ELSE slots
  PROVE  SlotsInv' /\ slots' \in 0..MaxConnections
<1> DEFINE n == Cardinality(Web!Served)
<1>1. slots \in 0..MaxConnections /\ IsFiniteSet(Web!Served) /\ n \in Nat
      /\ (Up => slots + n - MaxConnections = 0) /\ slots + n - MaxConnections \in {-1, 0, 1}
  <2>1. n \in Nat
    BY FS_CardinalityType DEF SlotsInv
  <2>2. QED
    BY <2>1 DEF PlacesOK, SlotsInv
<1>2. CASE Web!Served' = Web!Served /\ slots' = slots
  BY <1>1, <1>2 DEF SlotsInv
<1>3. CASE c \notin Web!Served /\ Web!Served' = Web!Served \union {c} /\ slots > 0 /\ slots' = slots - 1 /\ Up
  <2>1. IsFiniteSet(Web!Served') /\ Cardinality(Web!Served') = n + 1
    BY <1>1, <1>3, FS_AddElement
  <2>2. QED
    BY <1>1, <1>3, <2>1 DEF SlotsInv
<1>4. CASE c \in Web!Served /\ Web!Served' = Web!Served \ {c} /\ slots' = IF slots < MaxConnections THEN slots + 1 ELSE slots
  <2>1. IsFiniteSet(Web!Served') /\ Cardinality(Web!Served') = n - 1
    BY <1>1, <1>4, FS_RemoveElement
  <2>2. Cardinality(Web!Served') \in Nat
    BY <2>1, FS_CardinalityType
  <2>3. QED
    BY <1>1, <1>4, <2>1, <2>2 DEF SlotsInv
<1>5. QED
  BY <1>2, <1>3, <1>4

\* An exception ends the acceptance of a connection that may still hold its slot: the slot is given back or not.
LEMMA SlotsLeft ==
  ASSUME MaxConnections \in Nat, PlacesOK, SlotsInv, Up, NEW c \in Connection,
         Web!Served' = Web!Served \/ Web!Served' = Web!Served \ {c},
         \/ slots' = slots /\ ~Up'
         \/ /\ slots' = IF slots < MaxConnections THEN slots + 1 ELSE slots
            /\ Up' => slots = MaxConnections \/ (c \in Web!Served /\ Web!Served' = Web!Served \ {c})
  PROVE  SlotsInv' /\ slots' \in 0..MaxConnections
<1> DEFINE n == Cardinality(Web!Served) m == Cardinality(Web!Served')
<1>1. slots \in 0..MaxConnections /\ IsFiniteSet(Web!Served) /\ n \in Nat /\ slots + n - MaxConnections = 0
  <2>1. n \in Nat
    BY FS_CardinalityType DEF SlotsInv
  <2>2. QED
    BY <2>1 DEF PlacesOK, SlotsInv
<1>2. /\ IsFiniteSet(Web!Served') /\ m \in Nat
      /\ m = n \/ m = n - 1
      /\ c \in Web!Served /\ Web!Served' = Web!Served \ {c} => m = n - 1
  <2>1. CASE Web!Served' = Web!Served
    BY <1>1, <2>1
  <2>2. CASE Web!Served' = Web!Served \ {c}
    <3>1. IsFiniteSet(Web!Served') /\ m = IF c \in Web!Served THEN n - 1 ELSE n
      BY <1>1, <2>2, FS_RemoveElement
    <3>2. m \in Nat
      BY <3>1, FS_CardinalityType
    <3>3. QED
      BY <2>2, <3>1, <3>2
  <2>3. QED
    BY <2>1, <2>2
<1>3. slots' \in 0..MaxConnections /\ slots' + m - MaxConnections \in (IF Up' THEN {0} ELSE {-1, 0, 1})
  BY <1>1, <1>2
<1>4. QED
  BY <1>2, <1>3 DEF SlotsInv

\* The server and the controller stay where they are, but for a call that is started before the controller closes.
Stays ==
  /\ UNCHANGED <<serving, interrupts, raised, closing, unsettled, ledger, code>>
  /\ working' => working \/ (ledger /\ ~closing)

\* A connection begins nothing once the server is down.
LEMMA EndStays ==
  ASSUME ServerInv, Stays, Web!Running' \subseteq Web!Running \/ Up
  PROVE  StopInv' /\ LastUseInv' /\ (Up' <=> Up)
<1>1. StopInv'
  BY DEF ServerInv, StopInv, Stays, Up
<1>2. LastUseInv'
  BY DEF ServerInv, LastUseInv, Stays
<1>3. QED
  BY <1>1, <1>2 DEF Stays, Up

\* The thread of a connection begins, goes on, or is over.
LEMMA ThreadStep ==
  ASSUME MaxConnections \in Nat, ServerInv, NEW c \in Connection, NEW to \in Web!InThread \union {"over"},
         connection[c] \in {"started"} \union Web!InThread, Web!Go(c, to), Stays, UNCHANGED <<threads, accepting>>,
         socket' \subseteq socket, timer' \subseteq timer \union {c}, to = "over" => c \notin socket' \union timer',
         slots' = IF to = "over" /\ slots < MaxConnections THEN slots + 1 ELSE slots
  PROVE  ServerInv'
<1>1. PlacesOK /\ AcceptInv /\ HandsInv /\ SlotsInv
  BY DEF ServerInv
<1>2. to \in ConnectionPhases /\ (to \in Web!HasSlot <=> to # "over") /\ (to \in Web!InThread <=> to # "over")
      /\ to \notin {"new", "never", "taken", "listed", "started"}
  BY DEF ConnectionPhases, Web!HasSlot, Web!InThread
<1>3. /\ connection' \in [Connection -> ConnectionPhases]
      /\ connection'[c] = to /\ \A d \in Connection \ {c} : connection'[d] = connection[d]
      /\ c \in Web!Served /\ Web!Served' = IF to = "over" THEN Web!Served \ {c} ELSE Web!Served
      /\ c \in Web!Running /\ Web!Running' = IF to = "over" THEN Web!Running \ {c} ELSE Web!Running
  BY <1>1, <1>2, ServedMoves DEF Web!HasSlot
<1>4. StopInv' /\ LastUseInv' /\ (Up' <=> Up)
  BY <1>3, EndStays
<1>5. SlotsInv' /\ slots' \in 0..MaxConnections
  BY <1>1, <1>3, <1>4, SlotsStay
<1>6. PlacesOK'
  BY <1>1, <1>3, <1>5 DEF PlacesOK, Stays
<1>7. connection[c] \notin {"new", "never", "taken", "listed", "over"}
  BY DEF Web!InThread
<1>8. AcceptInv'
  BY <1>1, <1>2, <1>3, <1>4, <1>7 DEF AcceptInv, Stays
<1>9. HandsInv'
  BY <1>1, <1>2, <1>3, <1>4, <1>7 DEF HandsInv, Stays
<1>10. QED
  BY <1>4, <1>5, <1>6, <1>8, <1>9 DEF ServerInv

\* Which phases hold a slot, and in which a thread runs.
LEMMA PhasesOfServed ==
  /\ {"new", "never", "over"} \intersect Web!HasSlot = {} /\ {"taken", "listed", "started"} \subseteq Web!HasSlot
  /\ {"new", "never", "over", "taken", "listed"} \intersect ({"started"} \union Web!InThread) = {}
  /\ {"new", "never", "over", "taken", "listed", "started"} \subseteq ConnectionPhases
BY DEF ConnectionPhases, Web!HasSlot, Web!InThread

\* A connection is turned away, or gets a slot.
LEMMA Arrives ==
  ASSUME MaxConnections \in Nat, ServerInv, NEW c \in Connection, Web!TurnAway(c) \/ Web!Accept(c)
  PROVE  ServerInv'
<1>1. PlacesOK /\ AcceptInv /\ HandsInv /\ SlotsInv
  BY DEF ServerInv
<1>2. /\ connection[c] = "new" /\ serving = "serving" /\ accepting = {} /\ Stays /\ UNCHANGED <<threads, timer>>
      /\ \/ Web!Go(c, "never") /\ UNCHANGED <<socket, slots, accepting>>
         \/ Web!Go(c, "taken") /\ socket' = socket \union {c} /\ accepting' = {c} /\ slots > 0 /\ slots' = slots - 1
  BY DEF Web!TurnAway, Web!Accept, Web!Idle, Web!stopping, Web!controller, Stays
<1>3. Up
  BY <1>2 DEF Up
<1>4. StopInv' /\ LastUseInv' /\ (Up' <=> Up)
  BY <1>2, <1>3, EndStays
<1>5. Up' /\ serving' = "serving" /\ \A d \in Connection : connection[d] \notin {"taken", "listed", "started"}
  BY <1>1, <1>2, <1>3, <1>4 DEF Stays, AcceptInv
<1>6. CASE Web!Go(c, "never") /\ UNCHANGED <<socket, slots, accepting>>
  <2>1. /\ connection' \in [Connection -> ConnectionPhases]
        /\ connection'[c] = "never" /\ \A d \in Connection \ {c} : connection'[d] = connection[d]
        /\ Web!Served' = Web!Served /\ Web!Running' = Web!Running
    BY <1>1, <1>2, <1>6, ServedMoves, PhasesOfServed
  <2>2. SlotsInv' /\ slots' \in 0..MaxConnections
    BY <1>1, <1>4, <1>6, <2>1, SlotsStay
  <2>3. PlacesOK'
    BY <1>1, <1>2, <2>1, <2>2 DEF PlacesOK, Stays
  <2>4. AcceptInv'
    <3>1. accepting' = {}
      BY <1>2, <1>6
    <3>2. \A d \in Connection : connection'[d] \notin {"taken", "listed", "started"}
      BY <1>5, <2>1
    <3>3. QED
      BY <1>5, <3>1, <3>2 DEF AcceptInv
  <2>5. HandsInv'
    BY <1>1, <1>2, <1>4, <1>6, <2>1 DEF HandsInv, Stays, Web!InThread
  <2>6. QED
    BY <1>4, <2>2, <2>3, <2>4, <2>5 DEF ServerInv
<1>7. CASE Web!Go(c, "taken") /\ socket' = socket \union {c} /\ accepting' = {c} /\ slots > 0 /\ slots' = slots - 1
  <2>1. /\ connection' \in [Connection -> ConnectionPhases]
        /\ connection'[c] = "taken" /\ \A d \in Connection \ {c} : connection'[d] = connection[d]
        /\ c \notin Web!Served /\ Web!Served' = Web!Served \union {c} /\ Web!Running' = Web!Running
    <3>1. c \notin Web!Served /\ c \notin Web!Running
      BY <1>2, PhasesOfServed DEF Web!Served, Web!Running
    <3>2. QED
      BY <1>1, <1>7, <3>1, ServedMoves, PhasesOfServed
  <2>2. SlotsInv' /\ slots' \in 0..MaxConnections
    BY <1>1, <1>3, <1>4, <1>7, <2>1, SlotsStay
  <2>3. PlacesOK'
    BY <1>1, <1>2, <2>1, <2>2 DEF PlacesOK, Stays
  <2>4. AcceptInv'
    BY <1>5, <1>7, <2>1 DEF AcceptInv
  <2>5. HandsInv'
    BY <1>1, <1>2, <1>4, <1>7, <2>1 DEF HandsInv, Stays, Web!InThread
  <2>6. QED
    BY <1>4, <2>2, <2>3, <2>4, <2>5 DEF ServerInv
<1>8. QED
  BY <1>2, <1>6, <1>7

\* Its thread is made and put on the list.
LEMMA Listed ==
  ASSUME MaxConnections \in Nat, ServerInv, NEW c \in Connection, Web!List(c)
  PROVE  ServerInv'
<1>1. PlacesOK /\ AcceptInv /\ HandsInv /\ SlotsInv
  BY DEF ServerInv
<1>2. /\ connection[c] = "taken" /\ serving = "serving" /\ Stays /\ UNCHANGED <<socket, timer, slots, accepting>>
      /\ Web!Go(c, "listed") /\ threads' = (threads \intersect Web!Alive) \union {c}
  BY DEF Web!List, Web!stopping, Web!controller, Stays
<1>3. Up /\ c \in accepting
  BY <1>1, <1>2 DEF Up, AcceptInv
<1>4. StopInv' /\ LastUseInv' /\ (Up' <=> Up)
  BY <1>2, <1>3, EndStays
<1>5. /\ connection' \in [Connection -> ConnectionPhases]
      /\ connection'[c] = "listed" /\ \A d \in Connection \ {c} : connection'[d] = connection[d]
      /\ Web!Served' = Web!Served /\ Web!Running' = Web!Running
  BY <1>1, <1>2, ServedMoves, PhasesOfServed
<1>6. SlotsInv' /\ slots' \in 0..MaxConnections
  BY <1>1, <1>2, <1>4, <1>5, SlotsStay
<1>7. PlacesOK'
  BY <1>1, <1>2, <1>5, <1>6 DEF PlacesOK, Stays
<1>8. AcceptInv'
  BY <1>1, <1>2, <1>3, <1>4, <1>5 DEF AcceptInv, Stays
<1>9. \A d \in Connection \ {c} : connection[d] \notin {"taken", "listed", "started"}
  BY <1>1, <1>3 DEF AcceptInv
<1>10. Web!Running \subseteq threads \intersect Web!Alive
  <2>1. Web!Running \subseteq threads
    BY <1>1, <1>3 DEF HandsInv
  <2>2. Web!Running \subseteq Web!Alive
    BY <1>2, <1>9 DEF Web!Running, Web!Alive
  <2>3. QED
    BY <2>1, <2>2
<1>11. \A d \in Web!Alive : d \in Connection /\ connection[d] \in Web!InThread
  BY DEF Web!Alive
<1>12. HandsInv'
  <2>1. threads' \subseteq {d \in Connection : connection'[d] \notin {"new", "taken", "never"}}
    BY <1>2, <1>5, <1>11 DEF Web!InThread
  <2>2. \A d \in Connection : connection'[d] = "listed" => d \in threads'
    BY <1>2, <1>5, <1>9
  <2>3. Web!Running' \subseteq threads'
    BY <1>2, <1>5, <1>10
  <2>4. \A d \in Connection : (d \in socket' => connection'[d] \notin {"new", "never", "over"})
                              /\ (d \in timer' => connection'[d] \in Web!InThread)
    BY <1>1, <1>2, <1>5 DEF HandsInv, Web!InThread
  <2>5. QED
    BY <2>1, <2>2, <2>3, <2>4 DEF HandsInv
<1>13. QED
  BY <1>4, <1>6, <1>7, <1>8, <1>12 DEF ServerInv

\* The system begins the thread.
LEMMA Begun ==
  ASSUME MaxConnections \in Nat, ServerInv, NEW c \in Connection, Web!Start(c)
  PROVE  ServerInv'
<1>1. PlacesOK /\ AcceptInv /\ HandsInv /\ SlotsInv
  BY DEF ServerInv
<1>2. /\ connection[c] = "listed" /\ serving = "serving" /\ Stays /\ UNCHANGED <<socket, timer, threads, slots, accepting>>
      /\ Web!Go(c, "started")
  BY DEF Web!Start, Web!stopping, Web!controller, Stays
<1>3. Up /\ c \in accepting /\ c \in threads
  BY <1>1, <1>2 DEF Up, AcceptInv, HandsInv
<1>4. StopInv' /\ LastUseInv' /\ (Up' <=> Up)
  BY <1>2, <1>3, EndStays
<1>5. /\ connection' \in [Connection -> ConnectionPhases]
      /\ connection'[c] = "started" /\ \A d \in Connection \ {c} : connection'[d] = connection[d]
      /\ Web!Served' = Web!Served /\ Web!Running' = Web!Running \union {c}
  BY <1>1, <1>2, ServedMoves, PhasesOfServed
<1>6. SlotsInv' /\ slots' \in 0..MaxConnections
  BY <1>1, <1>2, <1>4, <1>5, SlotsStay
<1>7. PlacesOK'
  BY <1>1, <1>2, <1>5, <1>6 DEF PlacesOK, Stays
<1>8. AcceptInv'
  BY <1>1, <1>2, <1>3, <1>4, <1>5 DEF AcceptInv, Stays
<1>9. HandsInv'
  BY <1>1, <1>2, <1>3, <1>4, <1>5 DEF HandsInv, Stays, Web!InThread
<1>10. QED
  BY <1>4, <1>6, <1>7, <1>8, <1>9 DEF ServerInv

\* Of a connection only the place of process_request changes, or that of the server, which still takes connections.
LEMMA OnlyPlaces ==
  ASSUME ServerInv, UNCHANGED <<connection, socket, timer, threads, slots, raised, closing, working, unsettled, ledger, code>>,
         Up, Up', interrupts' \in Nat, interrupts' # 0 \/ interrupts = 0, serving' \in {"serving", "failing", "unwinding"}, AcceptInv'
  PROVE  ServerInv'
<1>1. PlacesOK /\ AcceptInv /\ HandsInv /\ SlotsInv /\ StopInv /\ LastUseInv
  BY DEF ServerInv
<1>2. Web!Served' = Web!Served /\ Web!Running' = Web!Running
  BY DEF Web!Served, Web!Running
<1>3. PlacesOK'
  BY <1>1 DEF PlacesOK
<1>4. HandsInv'
  BY <1>1, <1>2 DEF HandsInv
<1>5. SlotsInv'
  BY <1>1, <1>2 DEF SlotsInv
<1>6. StopInv' /\ LastUseInv'
  BY <1>1 DEF StopInv, LastUseInv, Up
<1>7. QED
  BY <1>3, <1>4, <1>5, <1>6 DEF ServerInv

\* The thread cannot be started, or says that it runs.
LEMMA Answered ==
  ASSUME ServerInv, NEW c \in Connection, Web!StartFails(c) \/ Web!Accepted(c)
  PROVE  ServerInv'
<1>1. PlacesOK /\ AcceptInv
  BY DEF ServerInv
<1>2. /\ UNCHANGED <<connection, socket, timer, threads, slots, interrupts, raised, closing, working, unsettled, ledger, code>>
      /\ serving = "serving"
      /\ \/ connection[c] = "listed" /\ serving' = "failing" /\ accepting' = accepting
         \/ accepting = {c} /\ connection[c] \in Web!InThread \union {"over"} /\ accepting' = {} /\ serving' = serving
  BY DEF Web!StartFails, Web!Accepted, Web!connections, Web!stopping, Web!controller
<1>3. Up /\ Up' /\ interrupts \in Nat
  BY <1>1, <1>2 DEF Up, PlacesOK
<1>4. AcceptInv'
  BY <1>1, <1>2, <1>3 DEF AcceptInv, Web!InThread
<1>5. QED
  BY <1>2, <1>3, <1>4, OnlyPlaces

\* process_request is left by an exception: the connection is given up, or its thread goes on without it.
LEMMA Left ==
  ASSUME MaxConnections \in Nat, ServerInv, NEW c \in Connection, accepting = {c}, Web!Leave(c), timer' = timer,
         serving' \in {"serving", "stopping"}, threads' \in {threads, threads \intersect Web!Alive},
         interrupts' \in Nat, interrupts' # 0 \/ interrupts = 0,
         UNCHANGED <<raised, closing, working, unsettled, ledger, code>>,
         \/ slots' = slots /\ serving' = "stopping"
         \/ /\ slots' = IF slots < MaxConnections THEN slots + 1 ELSE slots
            /\ serving' = IF serving = "failing" \/ slots = MaxConnections THEN "serving" ELSE "stopping",
         interrupts' = 0 => serving = "failing" /\ threads' = threads \intersect Web!Alive,
         serving' = "serving" => threads' = threads \intersect Web!Alive,
         connection[c] \in {"listed", "started"} => serving \in {"failing", "unwinding"}
  PROVE  ServerInv'
<1>1. PlacesOK /\ AcceptInv /\ HandsInv /\ SlotsInv /\ StopInv /\ LastUseInv
  BY DEF ServerInv
<1>2. Up /\ connection[c] \notin {"new", "never"} /\ (serving = "failing" => connection[c] = "listed")
      /\ \A d \in Connection \ {c} : connection[d] \notin {"taken", "listed", "started"}
  BY <1>1 DEF AcceptInv
<1> DEFINE to == IF connection[c] \in {"taken", "listed"} THEN "never" ELSE connection[c]
<1>3. to \in ConnectionPhases /\ Web!Go(c, to) /\ accepting' = {} /\ socket' = socket \ {c}
      /\ to \notin {"new", "taken", "listed"} /\ (to = "never" <=> connection[c] \in {"taken", "listed"})
      /\ (to # "never" => to = connection[c])
  BY <1>1, <1>2 DEF Web!Leave, ConnectionPhases, PlacesOK
<1> HIDE DEF to
<1>4. /\ connection' \in [Connection -> ConnectionPhases]
      /\ connection'[c] = to /\ \A d \in Connection \ {c} : connection'[d] = connection[d]
      /\ Web!Served' = IF to = "never" THEN Web!Served \ {c} ELSE Web!Served
      /\ c \in Web!Served <=> connection[c] \in Web!HasSlot
      /\ Web!Running' = Web!Running
  <2>1. to = "never" \/ to = connection[c]
    BY <1>3
  <2>2. /\ connection' \in [Connection -> ConnectionPhases]
        /\ connection'[c] = to /\ \A d \in Connection \ {c} : connection'[d] = connection[d]
        /\ Web!Served' = IF to \in Web!HasSlot THEN Web!Served \union {c} ELSE Web!Served \ {c}
        /\ Web!Running' = IF to \in {"started"} \union Web!InThread THEN Web!Running \union {c} ELSE Web!Running \ {c}
        /\ c \in Web!Served <=> connection[c] \in Web!HasSlot
        /\ c \in Web!Running <=> connection[c] \in {"started"} \union Web!InThread
    BY <1>1, <1>3, ServedMoves
  <2>3. to = "never" => to \notin Web!HasSlot /\ {to, connection[c]} \intersect ({"started"} \union Web!InThread) = {}
    BY <1>3, PhasesOfServed
  <2>4. CASE to = "never"
    BY <2>2, <2>3, <2>4
  <2>5. CASE to = connection[c] /\ to # "never"
    BY <2>2, <2>5
  <2>6. QED
    BY <2>1, <2>2, <2>4, <2>5
<1>5. Up' => slots = MaxConnections \/ (c \in Web!Served /\ Web!Served' = Web!Served \ {c})
  <2>1. Up' <=> serving' = "serving"
    BY DEF Up
  <2>2. serving = "failing" => connection[c] \in Web!HasSlot /\ to = "never"
    BY <1>2, <1>3 DEF Web!HasSlot
  <2>3. QED
    BY <1>4, <2>1, <2>2
<1>6. SlotsInv' /\ slots' \in 0..MaxConnections
  <2>1. Web!Served' = Web!Served \/ Web!Served' = Web!Served \ {c}
    BY <1>4
  <2>2. \/ slots' = slots /\ ~Up'
        \/ /\ slots' = IF slots < MaxConnections THEN slots + 1 ELSE slots
           /\ Up' => slots = MaxConnections \/ (c \in Web!Served /\ Web!Served' = Web!Served \ {c})
    BY <1>5 DEF Up
  <2>3. QED
    BY <1>1, <1>2, <2>1, <2>2, SlotsLeft
<1>7. PlacesOK'
  BY <1>1, <1>4, <1>6 DEF PlacesOK
<1>8. slots = MaxConnections => Web!Served = {}
  <2>1. slots + Cardinality(Web!Served) - MaxConnections = 0 /\ IsFiniteSet(Web!Served)
    BY <1>1, <1>2 DEF SlotsInv
  <2>2. Cardinality(Web!Served) \in Nat
    BY <2>1, FS_CardinalityType
  <2>3. slots = MaxConnections => Cardinality(Web!Served) = 0
    BY <2>1, <2>2
  <2>4. QED
    BY <2>1, <2>3, FS_EmptySet
<1>9. Up' => to # "started"
  <2>1. ASSUME Up' PROVE serving = "failing" \/ slots = MaxConnections
    BY <2>1 DEF Up
  <2>2. CASE serving = "failing"
    BY <1>2, <1>3, <2>2
  <2>3. CASE slots = MaxConnections
    BY <1>3, <1>4, <1>8, <2>3 DEF Web!HasSlot
  <2>4. QED
    BY <2>1, <2>2, <2>3
<1>10. AcceptInv'
  BY <1>2, <1>3, <1>4, <1>9 DEF AcceptInv
<1>11. Web!Running \subseteq threads /\ \A d \in threads : connection[d] # "never"
  BY <1>1, <1>2 DEF HandsInv
<1>12. \A d \in Web!Running \ threads' : d = c /\ connection[c] = "started"
  <2>1. \A d \in Web!Running : d \in Web!Alive \/ (d = c /\ connection[c] = "started")
    BY <1>2 DEF Web!Running, Web!Alive
  <2>2. QED
    BY <1>11, <2>1
<1>13. HandsInv'
  <2>1. Web!Running' \ threads' \subseteq {c}
    BY <1>4, <1>12
  <2>2. threads' \subseteq {d \in Connection : connection'[d] \notin {"new", "taken"}}
    BY <1>1, <1>3, <1>4 DEF HandsInv
  <2>3. \A d \in Connection : connection'[d] = "listed" => d \in threads'
    BY <1>2, <1>3, <1>4
  <2>4. \A d \in Connection : (d \in socket' => connection'[d] \notin {"new", "never", "over"})
                              /\ (d \in timer' => connection'[d] \in Web!InThread)
    BY <1>1, <1>3, <1>4 DEF HandsInv, Web!InThread
  <2>5. ASSUME Up' \/ interrupts' = 0
        PROVE  Web!Running' \subseteq threads' /\ \A d \in threads' : connection'[d] # "never"
    <3>1. serving = "failing" \/ slots = MaxConnections
      BY <2>5 DEF Up
    <3>2. connection[c] # "started"
      BY <1>2, <1>3, <1>9, <2>5, <3>1 DEF Up
    <3>3. Web!Running' \subseteq threads'
      BY <1>4, <1>12, <3>2
    <3>4. c \in threads' => connection'[c] # "never"
      <4>1. threads' = threads \intersect Web!Alive
        BY <2>5, <3>1 DEF Up
      <4>2. c \in Web!Alive => connection[c] \in Web!InThread
        BY DEF Web!Alive
      <4>3. QED
        BY <1>3, <1>4, <4>1, <4>2 DEF Web!InThread
    <3>5. QED
      BY <1>1, <1>4, <1>11, <3>3, <3>4 DEF HandsInv
  <2>6. QED
    BY <2>1, <2>2, <2>3, <2>4, <2>5 DEF HandsInv
<1>14. StopInv' /\ LastUseInv'
  BY <1>1, <1>2, <1>4 DEF StopInv, LastUseInv, Up
<1>15. QED
  BY <1>6, <1>7, <1>10, <1>13, <1>14 DEF ServerInv

\* The branch of exceptions gives the slot back.
LEMMA Released ==
  ASSUME MaxConnections \in Nat, ServerInv, NEW c \in Connection, Web!Release(c)
  PROVE  ServerInv'
<1>1. PlacesOK /\ AcceptInv
  BY DEF ServerInv
<1>2. /\ accepting = {c} /\ Web!Leave(c) /\ timer' = timer /\ threads' = threads \intersect Web!Alive
      /\ UNCHANGED <<interrupts, raised, closing, working, unsettled, ledger, code>>
      /\ serving \in {"failing", "unwinding"}
      /\ slots' = IF slots < MaxConnections THEN slots + 1 ELSE slots
      /\ serving' = IF serving = "failing" \/ slots = MaxConnections THEN "serving" ELSE "stopping"
  BY DEF Web!Release, Web!stopping, Web!controller
<1>3. interrupts' \in Nat /\ (interrupts' = 0 => serving = "failing" /\ threads' = threads \intersect Web!Alive)
  BY <1>1, <1>2 DEF PlacesOK, AcceptInv
<1>4. serving' \in {"serving", "stopping"} /\ threads' \in {threads, threads \intersect Web!Alive}
  BY <1>2
<1>5. QED
  BY <1>2, <1>3, <1>4, Left

\* An interrupt while the server takes connections.
LEMMA InterruptedServing ==
  ASSUME MaxConnections \in Nat, ServerInv, interrupts' = interrupts + 1, UNCHANGED <<working, unsettled>>, Web!InterruptServing
  PROVE  ServerInv'
<1>1. PlacesOK /\ AcceptInv /\ HandsInv /\ SlotsInv /\ StopInv /\ LastUseInv
  BY DEF ServerInv
<1>2. interrupts' \in Nat /\ interrupts' # 0 /\ UNCHANGED <<raised, closing, working, unsettled, ledger, code>>
  BY <1>1 DEF PlacesOK, Web!InterruptServing
<1>3. CASE Web!Idle /\ serving' = "stopping" /\ UNCHANGED Web!connections
  <2>1. UNCHANGED <<connection, socket, timer, threads, slots, accepting>> /\ serving = "serving" /\ accepting = {}
    BY <1>3 DEF Web!Idle, Web!connections
  <2>2. Web!Served' = Web!Served /\ Web!Running' = Web!Running
    BY <2>1 DEF Web!Served, Web!Running
  <2>3. PlacesOK'
    BY <1>1, <1>2, <1>3, <2>1 DEF PlacesOK
  <2>4. AcceptInv'
    BY <1>1, <1>3, <2>1 DEF AcceptInv, Up
  <2>5. HandsInv'
    BY <1>1, <1>2, <1>3, <2>1, <2>2 DEF HandsInv, Up
  <2>6. SlotsInv'
    BY <1>1, <1>3, <2>1, <2>2 DEF SlotsInv, Up
  <2>7. StopInv' /\ LastUseInv'
    BY <1>1, <1>2, <1>3, <2>1 DEF StopInv, LastUseInv
  <2>8. QED
    BY <2>3, <2>4, <2>5, <2>6, <2>7 DEF ServerInv
<1>4. ASSUME NEW c \in accepting, serving = "serving", connection[c] # "taken", serving' = "unwinding", UNCHANGED Web!connections
      PROVE  ServerInv'
  <2>1. UNCHANGED <<connection, socket, timer, threads, slots, accepting>> /\ accepting = {c}
    BY <1>1, <1>4 DEF Web!connections, AcceptInv
  <2>2. Up /\ Up'
    BY <1>4 DEF Up
  <2>3. AcceptInv'
    BY <1>1, <1>2, <1>4, <2>1, <2>2 DEF AcceptInv
  <2>4. QED
    BY <1>2, <1>4, <2>1, <2>2, <2>3, OnlyPlaces
<1>5. ASSUME NEW c \in accepting,
             \/ serving = "serving" /\ connection[c] \notin {"listed", "started"} /\ threads' = threads
             \/ serving \in {"failing", "unwinding"} /\ threads' \in {threads, threads \intersect Web!Alive},
             Web!Leave(c), serving' = "stopping", timer' = timer, slots' = slots
      PROVE  ServerInv'
  <2>1. accepting = {c} /\ c \in Connection
    BY <1>1 DEF AcceptInv
  <2>2. connection[c] \in {"listed", "started"} => serving \in {"failing", "unwinding"}
    BY <1>5
  <2>3. threads' \in {threads, threads \intersect Web!Alive} /\ serving' \in {"serving", "stopping"}
        /\ serving' # "serving"
    BY <1>5
  <2>4. QED
    BY <1>2, <1>5, <2>1, <2>2, <2>3, Left
<1>6. \/ Web!Idle /\ serving' = "stopping" /\ UNCHANGED Web!connections
      \/ \E c \in accepting :
           \/ serving = "serving" /\ connection[c] # "taken" /\ serving' = "unwinding" /\ UNCHANGED Web!connections
           \/ /\ \/ serving = "serving" /\ connection[c] \notin {"listed", "started"} /\ threads' = threads
                 \/ serving \in {"failing", "unwinding"} /\ threads' \in {threads, threads \intersect Web!Alive}
              /\ Web!Leave(c) /\ serving' = "stopping" /\ timer' = timer /\ slots' = slots
  BY DEF Web!InterruptServing
<1>7. QED
  BY <1>3, <1>4, <1>5, <1>6

\* Connections stay as they are while the server goes on its way to the end.
LEMMA ServerGoesOn ==
  ASSUME ServerInv, UNCHANGED Web!connections, PlacesOK', ~Up', Up => accepting = {}, interrupts' # 0 \/ interrupts = 0,
         StopInv', LastUseInv'
  PROVE  ServerInv'
<1>1. PlacesOK /\ AcceptInv /\ HandsInv /\ SlotsInv
  BY DEF ServerInv
<1>2. UNCHANGED <<connection, socket, timer, threads, slots, accepting>>
  BY DEF Web!connections
<1>3. Web!Served' = Web!Served /\ Web!Running' = Web!Running
  BY <1>2 DEF Web!Served, Web!Running
<1>4. AcceptInv'
  BY <1>1, <1>2 DEF AcceptInv, Up
<1>5. HandsInv'
  BY <1>1, <1>2, <1>3 DEF HandsInv
<1>6. SlotsInv'
  BY <1>1, <1>2, <1>3 DEF SlotsInv
<1>7. QED
  BY <1>4, <1>5, <1>6 DEF ServerInv

\* An interrupt on the way out.
LEMMA InterruptedStopping ==
  ASSUME ServerInv, interrupts' = interrupts + 1, UNCHANGED <<working, unsettled>>, Web!InterruptStopping
  PROVE  ServerInv'
<1>1. PlacesOK /\ StopInv /\ LastUseInv
  BY DEF ServerInv
<1>2. UNCHANGED Web!connections /\ interrupts' \in Nat /\ interrupts' # 0 /\ raised'
  BY <1>1 DEF PlacesOK, Web!InterruptStopping
<1>3. \/ serving = "stopping" /\ serving' = "ended" /\ code' = 1 /\ (closing => closing') /\ (ledger' <=> ledger)
      \/ serving = "joining" /\ serving' = "settling" /\ code' = code /\ (closing' <=> closing) /\ (ledger' <=> ledger)
      \/ /\ serving \in {"settling", "leaving", "closing"} /\ serving' = "ended" /\ code' = 1 /\ (closing' <=> closing)
         /\ (ledger' <=> ledger) \/ (serving = "closing" /\ ~ledger')
  <2>1. CASE serving = "stopping"
    BY <2>1 DEF Web!InterruptStopping
  <2>2. CASE serving = "joining"
    BY <2>2 DEF Web!InterruptStopping
  <2>3. CASE serving \in {"settling", "leaving", "closing"}
    <3>1. ledger
      BY <1>1, <2>3 DEF LastUseInv
    <3>2. QED
      BY <2>3, <3>1 DEF Web!InterruptStopping
  <2>4. QED
    BY <2>1, <2>2, <2>3 DEF Web!InterruptStopping
<1>4. ~Up /\ ~Up'
  BY <1>3 DEF Up
<1>5. PlacesOK'
  BY <1>1, <1>2, <1>3 DEF PlacesOK, Web!connections
<1>6. StopInv'
  BY <1>2 DEF StopInv
<1>7. LastUseInv'
  <2>1. (working' <=> working) /\ (unsettled' <=> unsettled)
    OBVIOUS
  <2>2. code = 0 => ~ledger /\ serving = "ended"
    BY <1>1 DEF LastUseInv
  <2>3. code' # 0
    BY <1>1, <1>3, <2>2 DEF LastUseInv
  <2>4. (serving' \in {"joining", "settling", "leaving", "closing"} => closing') /\ serving' # "closing"
    BY <1>1, <1>3 DEF LastUseInv
  <2>5. ~ledger' => serving' = "ended" /\ closing' /\ ~working'
    BY <1>1, <1>3, <2>1 DEF LastUseInv
  <2>6. QED
    BY <2>3, <2>4, <2>5 DEF LastUseInv
<1>8. QED
  BY <1>2, <1>4, <1>5, <1>6, <1>7, ServerGoesOn

\* From the loop to the wait for the calls.
LEMMA Stops ==
  ASSUME ServerInv,
         Web!Watch \/ Web!LeaveLoop \/ Web!CloseController \/ Web!Join \/ Web!JoinFails \/ Web!CallEnds \/ Web!Settle \/ Web!End
  PROVE  ServerInv'
<1>1. PlacesOK /\ AcceptInv /\ HandsInv /\ SlotsInv /\ StopInv /\ LastUseInv
  BY DEF ServerInv
<1>2. CASE Web!Watch
  <2>1. UNCHANGED <<Web!connections, serving, interrupts, raised, closing, working, unsettled, ledger, code>>
        /\ Up
    BY <1>2 DEF Web!Watch, Web!controller, Up
  <2>2. UNCHANGED <<connection, socket, timer, threads, slots, accepting>> /\ Up'
    BY <2>1 DEF Web!connections, Up
  <2>3. AcceptInv'
    BY <1>1, <2>1, <2>2 DEF AcceptInv
  <2>4. QED
    BY <1>1, <2>1, <2>2, <2>3, OnlyPlaces DEF Up, PlacesOK
<1>3. CASE Web!CallEnds
  <2>1. /\ UNCHANGED <<connection, socket, timer, threads, slots, accepting, serving, interrupts, raised, closing, ledger, code>>
        /\ working /\ ~working'
    BY <1>3 DEF Web!CallEnds, Web!connections, Web!stopping
  <2>2. Web!Served' = Web!Served /\ Web!Running' = Web!Running /\ (Up' <=> Up)
    BY <2>1 DEF Web!Served, Web!Running, Up
  <2>3. PlacesOK' /\ AcceptInv' /\ HandsInv' /\ SlotsInv'
    BY <1>1, <2>1, <2>2 DEF PlacesOK, AcceptInv, HandsInv, SlotsInv
  <2>4. StopInv' /\ LastUseInv'
    BY <1>1, <2>1, <2>2 DEF StopInv, LastUseInv
  <2>5. QED
    BY <2>3, <2>4 DEF ServerInv
<1>4. CASE Web!LeaveLoop \/ Web!CloseController \/ Web!Settle
  <2>1. /\ UNCHANGED Web!connections /\ UNCHANGED <<interrupts, raised, working, unsettled, ledger, code>>
        /\ \/ serving = "serving" /\ accepting = {} /\ serving' = "stopping" /\ (closing' <=> closing)
           \/ serving = "stopping" /\ serving' = "joining" /\ closing'
           \/ serving = "settling" /\ serving' \in {"leaving", "closing"} /\ (serving' = "closing" => ~working) /\ (closing' <=> closing)
    BY <1>4 DEF Web!LeaveLoop, Web!Idle, Web!CloseController, Web!Settle, Web!controller, Web!stopping
  <2>2. Web!Running' = Web!Running
    BY <2>1 DEF Web!Running, Web!connections
  <2>3. PlacesOK' /\ ~Up' /\ (Up => accepting = {})
    BY <1>1, <2>1 DEF PlacesOK, Up, Web!connections
  <2>4. StopInv'
    BY <1>1, <2>1, <2>2 DEF StopInv
  <2>5. LastUseInv'
    BY <1>1, <2>1 DEF LastUseInv
  <2>6. QED
    BY <2>1, <2>3, <2>4, <2>5, ServerGoesOn
<1>5. CASE Web!Join
  <2>1. /\ UNCHANGED Web!connections /\ UNCHANGED <<interrupts, raised, closing, working, unsettled, ledger, code>>
        /\ serving = "joining" /\ serving' = "settling" /\ \A c \in threads : connection[c] = "over"
    BY <1>5 DEF Web!Join, Web!controller, Web!stopping
  <2>2. Web!Running \intersect threads = {} /\ Web!Running' = Web!Running
    BY <2>1 DEF Web!Running, Web!InThread, Web!connections
  <2>3. (\A c, d \in Web!Running : c = d) /\ (interrupts = 0 => Web!Running = {})
    BY <1>1, <2>2 DEF HandsInv
  <2>4. PlacesOK' /\ ~Up' /\ ~Up
    BY <1>1, <2>1 DEF PlacesOK, Up, Web!connections
  <2>5. StopInv'
    BY <1>1, <2>1, <2>2, <2>3 DEF StopInv
  <2>6. LastUseInv'
    BY <1>1, <2>1 DEF LastUseInv
  <2>7. QED
    BY <2>1, <2>4, <2>5, <2>6, ServerGoesOn
<1>6. CASE Web!JoinFails
  <2>1. /\ UNCHANGED Web!connections /\ UNCHANGED <<interrupts, closing, working, unsettled, ledger, code>>
        /\ serving = "joining" /\ serving' = "settling" /\ raised' /\ \E c \in threads : connection[c] = "never"
    BY <1>6 DEF Web!JoinFails, Web!controller
  <2>2. interrupts # 0
    BY <1>1, <2>1 DEF HandsInv
  <2>3. PlacesOK' /\ ~Up' /\ ~Up
    BY <1>1, <2>1 DEF PlacesOK, Up, Web!connections
  <2>4. StopInv'
    BY <2>1, <2>2 DEF StopInv
  <2>5. LastUseInv'
    BY <1>1, <2>1 DEF LastUseInv
  <2>6. QED
    BY <2>1, <2>3, <2>4, <2>5, ServerGoesOn
<1>7. CASE Web!End
  <2>1. /\ UNCHANGED Web!connections /\ UNCHANGED <<interrupts, raised, closing, working, unsettled>>
        /\ serving \in {"leaving", "closing"} /\ serving' = "ended" /\ (ledger' <=> serving = "leaving")
    BY <1>7 DEF Web!End, Web!controller, Web!stopping
  <2>2. code' = 0 => serving = "closing" /\ ~unsettled /\ ~raised
    <3>1. code' = IF serving = "closing" /\ ~unsettled /\ ~raised THEN 0 ELSE 1
      BY <1>7 DEF Web!End
    <3>2. QED
      BY <3>1
  <2>3. Web!Running' = Web!Running
    BY <2>1 DEF Web!Running, Web!connections
  <2>4. PlacesOK' /\ ~Up' /\ ~Up
    BY <1>1, <2>1 DEF PlacesOK, Up, Web!connections
  <2>5. StopInv'
    BY <1>1, <2>1, <2>3 DEF StopInv
  <2>6. LastUseInv'
    BY <1>1, <2>1, <2>2 DEF LastUseInv
  <2>7. QED
    BY <2>1, <2>4, <2>5, <2>6, ServerGoesOn
<1>8. QED
  BY <1>2, <1>3, <1>4, <1>5, <1>6, <1>7

\* Whatever the thread of a connection does.
LEMMA ThreadSteps ==
  ASSUME MaxConnections \in Nat, ServerInv, NEW c \in Connection,
         \/ Web!Begin(c) \/ Web!NoTimer(c) \/ Web!Guard(c) \/ Web!Read(c) \/ Web!Act(c) \/ Web!Reply(c)
         \/ Web!Expire(c) \/ Web!CutOff(c) \/ Web!Finish(c)
  PROVE  ServerInv'
<1>1. PlacesOK /\ AcceptInv /\ HandsInv /\ SlotsInv
  BY DEF ServerInv
<1>2. CASE Web!Begin(c) \/ Web!NoTimer(c) \/ Web!Guard(c) \/ Web!Read(c) \/ Web!Reply(c) \/ Web!CutOff(c)
  <2>1. PICK to \in Web!InThread : Web!Go(c, to) /\ connection[c] \in {"started"} \union Web!InThread
                                   /\ UNCHANGED <<socket, threads, slots, accepting>> /\ timer' \subseteq timer \union {c} /\ Stays
    BY <1>2 DEF Web!Begin, Web!NoTimer, Web!Guard, Web!Read, Web!Reply, Web!CutOff, Web!InThread, Web!controller, Web!stopping, Stays
  <2>2. to # "over"
    BY DEF Web!InThread
  <2>3. QED
    BY <2>1, <2>2, ThreadStep
<1>3. CASE Web!Act(c)
  <2>1. PICK to \in Web!InThread : Web!Go(c, to) /\ connection[c] \in {"started"} \union Web!InThread
                                   /\ UNCHANGED <<socket, timer, threads, slots, accepting>>
    BY <1>3 DEF Web!Act, Web!InThread
  <2>2. Stays
    BY <1>3 DEF Web!Act, Web!Calls, Web!stopping, Stays
  <2>3. to # "over"
    BY DEF Web!InThread
  <2>4. QED
    BY <2>1, <2>2, <2>3, ThreadStep
<1>4. CASE Web!Finish(c)
  <2>1. /\ connection[c] \in {"started"} \union Web!InThread /\ Web!Go(c, "over") /\ UNCHANGED <<threads, accepting>> /\ Stays
        /\ socket' \subseteq socket /\ timer' \subseteq timer \union {c} /\ c \notin socket' \union timer'
        /\ slots' = IF "over" = "over" /\ slots < MaxConnections THEN slots + 1 ELSE slots
    BY <1>4 DEF Web!Finish, Web!InThread, Web!controller, Web!stopping, Stays
  <2>2. QED
    BY <2>1, ThreadStep
<1>5. CASE Web!Expire(c)
  <2>1. /\ UNCHANGED <<connection, threads, slots, accepting>> /\ Stays /\ socket' \subseteq socket /\ timer' \subseteq timer
    BY <1>5 DEF Web!Expire, Web!controller, Web!stopping, Stays
  <2>2. Web!Served' = Web!Served /\ Web!Running' = Web!Running
    BY <2>1 DEF Web!Served, Web!Running
  <2>3. StopInv' /\ LastUseInv' /\ (Up' <=> Up)
    BY <2>1, <2>2, EndStays
  <2>4. PlacesOK' /\ AcceptInv'
    BY <1>1, <2>1, <2>3 DEF PlacesOK, AcceptInv, Stays
  <2>5. HandsInv' /\ SlotsInv'
    BY <1>1, <2>1, <2>2, <2>3 DEF HandsInv, SlotsInv, Stays
  <2>6. QED
    BY <2>3, <2>4, <2>5 DEF ServerInv
<1>6. QED
  BY <1>2, <1>3, <1>4, <1>5

\* Every step keeps the invariant.
LEMMA ServerInvStep == MaxConnections \in Nat /\ ServerInv /\ [Web!Next]_(Web!vars) => ServerInv'
<1> SUFFICES ASSUME MaxConnections \in Nat, ServerInv, [Web!Next]_(Web!vars) PROVE ServerInv'
  OBVIOUS
<1>1. CASE Web!Interrupt
  <2>1. interrupts' = interrupts + 1 /\ UNCHANGED <<working, unsettled>> /\ (Web!InterruptServing \/ Web!InterruptStopping)
    BY <1>1 DEF Web!Interrupt
  <2>2. QED
    BY <2>1, InterruptedServing, InterruptedStopping
<1>2. CASE UNCHANGED Web!vars
  <2>1. /\ UNCHANGED <<connection, socket, timer, threads, slots, accepting>>
        /\ UNCHANGED <<serving, interrupts, raised, closing, working, unsettled, ledger, code>>
    BY <1>2 DEF Web!vars, Web!connections, Web!stopping, Web!controller
  <2>2. Web!Served' = Web!Served /\ Web!Running' = Web!Running
    BY <2>1 DEF Web!Served, Web!Running
  <2>3. QED
    BY <2>1, <2>2 DEF ServerInv, PlacesOK, AcceptInv, HandsInv, SlotsInv, StopInv, LastUseInv, Up
<1>3. ASSUME NEW c \in Connection,
             Web!TurnAway(c) \/ Web!Accept(c) \/ Web!List(c) \/ Web!Start(c) \/ Web!StartFails(c) \/ Web!Accepted(c) \/ Web!Release(c)
      PROVE  ServerInv'
  BY <1>3, Arrives, Listed, Begun, Answered, Released
<1>4. QED
  BY <1>1, <1>2, <1>3, Stops, ThreadSteps DEF Web!Next

(***************************************************************************)
(* However connections, timers, failed starts and interrupts fall, for any       *)
(* number of each: no slot is lost or given back twice while the server         *)
(* accepts, and the ledger is closed after its last use, unless an interrupt has *)
(* met the start of a thread (server._Server, serve_until_stopped).           *)
(***************************************************************************)
THEOREM ServerStaysWhole ==
  ASSUME MaxConnections \in Nat
  PROVE  Web!Spec => []Web!ServerEndsWhole
<1>1. ServerInv => Web!ServerEndsWhole
  <2> SUFFICES ASSUME ServerInv PROVE Web!ServerEndsWhole
    OBVIOUS
  <2>1. PlacesOK /\ HandsInv /\ SlotsInv /\ StopInv /\ LastUseInv
    BY DEF ServerInv
  <2>2. slots + Cardinality(Web!Served) - MaxConnections \in (IF serving = "serving" THEN {0} ELSE {-1, 0, 1})
    BY <2>1 DEF SlotsInv, Up
  <2>3. \A c \in Connection : connection[c] \in {"never", "over"} => c \notin socket \union timer
    BY <2>1 DEF HandsInv, Web!InThread
  <2>4. serving = "serving" => \A c \in threads : connection[c] # "never"
    BY <2>1 DEF HandsInv, Up
  <2>5. ~ledger => /\ ~working
                   /\ ~raised => \A c, d \in Web!Running : c = d
                   /\ interrupts = 0 => Web!Running = {}
    BY <2>1 DEF LastUseInv, StopInv
  <2>6. code = 0 => ~ledger /\ ~unsettled /\ ~raised
    BY <2>1 DEF LastUseInv
  <2>7. QED
    BY <2>2, <2>3, <2>4, <2>5, <2>6, CountOfSlots DEF Web!ServerEndsWhole
<1>2. QED
  BY <1>1, ServerInvInit, ServerInvStep, PTL DEF Web!Spec

-----------------------------------------------------------------------------
(* The start script. A server acts on the state only between taking and giving  *)
(* up the lock, and a request that names a server can be traced to a script      *)
(* that had opened a window on it.                                           *)

\* From taking the lock to the end.
Holding == {"locked", "named", "starting", "serving", "deciding", "closing", "stopped"}

\* A script that shows a window, and on its way to the request.
Showing == {"count", "show", "watch", "stop", "write", "linger"}

FilesInv ==
  /\ DOMAIN server = Script
  /\ \A p \in Script : server[p] \in Holding => lock = p
  /\ Launch!LiveIsRecorded

\* A script has asked this very server, which it had started or found, to stop.
Meant(p) == p \in asked /\ \E s \in Script : nonce[s] = p /\ pc[s] \in {"linger", "done"} /\ opened[s] # "none"

RequestInv ==
  /\ DOMAIN server = Script /\ DOMAIN pc = Script /\ DOMAIN nonce = Script /\ DOMAIN opened = Script
  /\ \A s \in Script : pc[s] \in Showing => opened[s] # "none"
  /\ request # "none" => Meant(request)
  /\ \A p \in Script : server[p] = "deciding" => Meant(p)

(* The Launch!files.                                                                *)

LEMMA FilesBegin == Launch!Init => FilesInv
BY DEF Launch!Init, FilesInv, Launch!LiveIsRecorded, Holding, Launch!Running

\* A server that comes to an end gives up its own lock only.
LEMMA ExitKeepsFiles ==
  ASSUME FilesInv, NEW p \in Script, Launch!Exit(p),
         UNCHANGED state \/ server[p] \in Holding
  PROVE  FilesInv'
<1>1. server' = [server EXCEPT ![p] = "ended"] /\ lock' = IF lock = p THEN "none" ELSE lock
  BY DEF Launch!Exit, Launch!To
<1>2. \A q \in Script : q # p => server'[q] = server[q]
  BY <1>1 DEF FilesInv
<1>3. server'[p] = "ended"
  BY <1>1 DEF FilesInv
<1>4. ASSUME NEW q \in Script, server'[q] \in Holding
      PROVE  lock' = q /\ q # p /\ server[q] \in Holding
  BY <1>1, <1>2, <1>3, <1>4 DEF FilesInv, Holding
<1>5. ASSUME NEW q \in Script, server'[q] \in Launch!Running
      PROVE  state' = [of |-> q, status |-> "running"] /\ lock' = q
  <2>1. server'[q] \in Holding
    BY <1>5 DEF Launch!Running, Holding
  <2>2. q # p /\ lock' = q /\ lock = q /\ server[q] \in Launch!Running
    BY <1>2, <1>4, <1>5, <2>1 DEF FilesInv
  <2>3. UNCHANGED state
    BY <2>2 DEF FilesInv
  <2> QED
    BY <2>2, <2>3 DEF FilesInv, Launch!LiveIsRecorded
<1> QED
  BY <1>1, <1>4, <1>5 DEF FilesInv, Launch!LiveIsRecorded

\* Whoever holds the lock may write and move on as long as he keeps to the record.
LEMMA HolderKeepsFiles ==
  ASSUME FilesInv, NEW p \in Script, server[p] \in Holding, UNCHANGED lock,
         NEW s, server' = [server EXCEPT ![p] = s],
         s \in Launch!Running => state' = [of |-> p, status |-> "running"]
  PROVE  FilesInv'
<1>1. lock = p /\ lock' = p
  BY DEF FilesInv
<1>2. \A q \in Script : q # p => server'[q] = server[q] /\ server[q] \notin Holding
  BY <1>1 DEF FilesInv
<1>3. server'[p] = s /\ DOMAIN server' = Script
  BY DEF FilesInv
<1>4. \A q \in Script : server'[q] \in Launch!Running => q = p
  BY <1>2 DEF Launch!Running, Holding
<1> QED
  BY <1>1, <1>2, <1>3, <1>4 DEF FilesInv, Launch!LiveIsRecorded

LEMMA FilesStep ==
  ASSUME Launch!ScriptNames
  PROVE  FilesInv /\ [Launch!Next]_(Launch!vars) => FilesInv'
<1> SUFFICES ASSUME FilesInv, [Launch!Next]_(Launch!vars) PROVE FilesInv'
  OBVIOUS
<1>1. ASSUME NEW p \in Script, Launch!ReadState(p)
      PROVE  FilesInv'
  <2>1. server' = [server EXCEPT ![p] = "ready"] /\ UNCHANGED <<lock, state>>
    BY <1>1 DEF Launch!ReadState, Launch!files
  <2> QED
    BY <2>1 DEF FilesInv, Launch!LiveIsRecorded, Holding, Launch!Running
<1>2. ASSUME NEW p \in Script, Launch!TakeLock(p)
      PROVE  FilesInv'
  <2>1. /\ server' = [server EXCEPT ![p] = IF lock = "none" /\ old[p] = "none" THEN "locked" ELSE "beaten"]
        /\ lock' = IF lock = "none" THEN p ELSE lock
        /\ UNCHANGED state
    BY <1>2 DEF Launch!TakeLock, Launch!To
  <2>2. lock = "none" => \A q \in Script : server[q] \notin Holding
    BY DEF FilesInv, Launch!ScriptNames
  <2>3. ASSUME NEW q \in Script, server'[q] \in Holding
        PROVE  lock' = q
    BY <2>1, <2>2, <2>3 DEF FilesInv, Holding
  <2>4. ASSUME NEW q \in Script, server'[q] \in Launch!Running
        PROVE  server[q] \in Launch!Running /\ server'[q] \in Holding
    BY <2>1, <2>4 DEF FilesInv, Holding, Launch!Running
  <2> QED
    BY <2>1, <2>3, <2>4 DEF FilesInv, Launch!LiveIsRecorded
<1>3. ASSUME NEW p \in Script, Launch!CutRecord(p)
      PROVE  FilesInv'
  BY <1>3 DEF Launch!CutRecord, Launch!servers, FilesInv, Launch!LiveIsRecorded
<1>4. ASSUME NEW p \in Script, Launch!WriteRecord(p) \/ Launch!Begin(p) \/ Launch!Closed(p)
      PROVE  FilesInv'
  <2>1. \E s \in {"named", "starting", "stopped"} : server' = [server EXCEPT ![p] = s]
    BY <1>4 DEF Launch!WriteRecord, Launch!Begin, Launch!Closed, Launch!To
  <2>2. server[p] \in Holding /\ UNCHANGED lock
    BY <1>4 DEF Launch!WriteRecord, Launch!Begin, Launch!Closed, Holding
  <2> QED
    BY <2>1, <2>2, HolderKeepsFiles DEF Launch!Running
<1>5. ASSUME NEW p \in Script, Launch!Serve(p)
      PROVE  FilesInv'
  <2>1. /\ server' = [server EXCEPT ![p] = "serving"] /\ UNCHANGED lock
        /\ server[p] \in Holding /\ state' = [of |-> p, status |-> "running"]
    BY <1>5 DEF Launch!Serve, Launch!Written, Holding
  <2> QED
    BY <2>1, HolderKeepsFiles
<1>6. ASSUME NEW p \in Script, Launch!Decide(p) \/ Launch!ShutDown(p) \/ Launch!Interrupt(p)
      PROVE  FilesInv'
  <2>1. \E s \in {"deciding", "closing"} : server' = [server EXCEPT ![p] = s]
    BY <1>6 DEF Launch!Decide, Launch!ShutDown, Launch!Interrupt, Launch!To
  <2>2. server[p] \in Launch!Running /\ server[p] \in Holding /\ UNCHANGED <<lock, state>>
    BY <1>6 DEF Launch!Decide, Launch!ShutDown, Launch!Interrupt, Launch!files, Launch!Running, Holding
  <2>3. state' = [of |-> p, status |-> "running"]
    BY <2>2 DEF FilesInv, Launch!LiveIsRecorded
  <2> QED
    BY <2>1, <2>2, <2>3, HolderKeepsFiles
<1>7. ASSUME NEW p \in Script, Launch!Yield(p) \/ Launch!Refuse(p) \/ Launch!Leave(p) \/ Launch!Die(p)
      PROVE  FilesInv'
  <2>1. Launch!Exit(p) /\ (UNCHANGED state \/ server[p] \in Holding)
    BY <1>7 DEF Launch!Yield, Launch!Refuse, Launch!Leave, Launch!Die, Holding
  <2> QED
    BY <2>1, ExitKeepsFiles
<1>8. ASSUME NEW s \in Script, Launch!Status(s)
      PROVE  FilesInv'
  <2>1. (server' = server \/ server' = [server EXCEPT ![s] = "begun"]) /\ UNCHANGED <<lock, state>>
    BY <1>8 DEF Launch!Status, Launch!files
  <2> QED
    BY <2>1 DEF FilesInv, Launch!LiveIsRecorded, Holding, Launch!Running
<1>9. ASSUME NEW s \in Script,
             \/ Launch!Uncancel(s) \/ Launch!Look(s) \/ Launch!Count(s) \/ Launch!Wait(s) \/ Launch!GiveUp(s) \/ Launch!Show(s) \/ Launch!Close(s)
             \/ Launch!AllClosed(s) \/ Launch!Stop(s) \/ Launch!WriteRequest(s) \/ Launch!StopEnds(s)
      PROVE  FilesInv'
  <2>1. UNCHANGED <<lock, state, server>>
    BY <1>9 DEF Launch!Uncancel, Launch!Look, Launch!Count, Launch!Wait, Launch!GiveUp, Launch!Show, Launch!Close, Launch!AllClosed, Launch!Stop, Launch!WriteRequest, Launch!StopEnds, Launch!files, Launch!servers
  <2> QED
    BY <2>1 DEF FilesInv, Launch!LiveIsRecorded
<1>10. CASE Launch!Work
  BY <1>10 DEF Launch!Work, Launch!files, FilesInv, Launch!LiveIsRecorded
<1>11. CASE UNCHANGED Launch!vars
  BY <1>11 DEF Launch!vars, Launch!files, Launch!servers, FilesInv, Launch!LiveIsRecorded
<1> QED
  BY <1>1, <1>2, <1>3, <1>4, <1>5, <1>6, <1>7, <1>8, <1>9, <1>10, <1>11 DEF Launch!Next, Launch!ServerStep, Launch!ScriptStep

\* However many copies start, lose, fail or die beside it, the server that lives is
\* the one the state names, and the lock is its own (launch.serve, process_guard).
THEOREM LiveStaysRecorded ==
  ASSUME Launch!ScriptNames
  PROVE  Launch!Spec => []Launch!LiveIsRecorded
<1>1. Launch!Init => FilesInv
  BY FilesBegin
<1>2. FilesInv /\ [Launch!Next]_(Launch!vars) => FilesInv'
  BY FilesStep
<1>3. FilesInv => Launch!LiveIsRecorded
  BY DEF FilesInv
<1> QED
  BY <1>1, <1>2, <1>3, PTL DEF Launch!Spec

(* The request.                                                              *)

LEMMA RequestBegins == Launch!Init => RequestInv
BY DEF Launch!Init, RequestInv, Showing

\* What was meant stays so: no script forgets its server, takes a step back or is no longer counted.
LEMMA MeantStays ==
  ASSUME asked \subseteq asked', NEW x, Meant(x),
         \A s \in Script : pc[s] \in {"linger", "done"} =>
           nonce'[s] = nonce[s] /\ opened'[s] = opened[s] /\ pc'[s] \in {"linger", "done"}
  PROVE  Meant(x)'
BY DEF Meant

\* A step of a server.
LEMMA ServerKeepsRequest ==
  ASSUME Launch!ScriptNames, RequestInv, NEW p \in Script, Launch!ServerStep(p)
  PROVE  RequestInv'
<1>1. UNCHANGED <<pc, nonce, opened, asked>> /\ \A x : Meant(x) => Meant(x)'
  BY DEF Launch!ServerStep, Launch!ReadState, Launch!TakeLock, Launch!CutRecord, Launch!WriteRecord, Launch!Yield, Launch!Begin, Launch!Refuse, Launch!Serve, Launch!Decide, Launch!ShutDown, Launch!Interrupt,
         Launch!Closed, Launch!Leave, Launch!Die, Launch!scripts, Meant
<1>2. request' = request \/ request' = "none"
  BY DEF Launch!ServerStep, Launch!ReadState, Launch!TakeLock, Launch!CutRecord, Launch!WriteRecord, Launch!Yield, Launch!Begin, Launch!Refuse, Launch!Serve, Launch!Decide, Launch!ShutDown, Launch!Interrupt,
         Launch!Closed, Launch!Leave, Launch!Die, Launch!files
<1>3. server' = server \/ \E s : server' = [server EXCEPT ![p] = s] /\ (s = "deciding" => request = p)
  <2>1. CASE Launch!Decide(p)
    BY <2>1 DEF Launch!Decide, Launch!Heard, Launch!To
  <2>2. CASE Launch!ReadState(p) \/ Launch!TakeLock(p) \/ Launch!WriteRecord(p) \/ Launch!Begin(p) \/ Launch!Serve(p) \/ Launch!ShutDown(p) \/ Launch!Interrupt(p) \/ Launch!Closed(p)
    BY <2>2 DEF Launch!ReadState, Launch!TakeLock, Launch!WriteRecord, Launch!Begin, Launch!Serve, Launch!ShutDown, Launch!Interrupt, Launch!Closed, Launch!To
  <2>3. CASE Launch!Yield(p) \/ Launch!Refuse(p) \/ Launch!Leave(p) \/ Launch!Die(p)
    BY <2>3 DEF Launch!Yield, Launch!Refuse, Launch!Leave, Launch!Die, Launch!Exit, Launch!To
  <2>4. CASE Launch!CutRecord(p)
    BY <2>4 DEF Launch!CutRecord, Launch!servers
  <2> QED
    BY <2>1, <2>2, <2>3, <2>4 DEF Launch!ServerStep
<1>4. DOMAIN server' = Script /\ \A q \in Script : server'[q] = "deciding" => server[q] = "deciding" \/ request = q
  BY <1>3 DEF RequestInv
<1>5. \A q \in Script : server'[q] = "deciding" => Meant(q)'
  BY <1>1, <1>4 DEF RequestInv, Launch!ScriptNames
<1>6. request' # "none" => Meant(request)'
  <2> SUFFICES ASSUME request' # "none" PROVE Meant(request)'
    OBVIOUS
  <2>1. request' = request /\ Meant(request)
    BY <1>2 DEF RequestInv
  <2> QED
    BY <1>1, <2>1 DEF Meant
<1> QED
  BY <1>1, <1>4, <1>5, <1>6 DEF RequestInv

\* A step of a script.
LEMMA ScriptKeepsRequest ==
  ASSUME Launch!ScriptNames, RequestInv, NEW s \in Script, Launch!ScriptStep(s)
  PROVE  RequestInv'
<1>1. asked \subseteq asked' /\ DOMAIN pc' = Script /\ DOMAIN nonce' = Script /\ DOMAIN opened' = Script /\ DOMAIN server' = Script
  BY DEF Launch!ScriptStep, Launch!Status, Launch!Uncancel, Launch!Look, Launch!Count, Launch!Wait, Launch!GiveUp, Launch!Show, Launch!Close, Launch!AllClosed, Launch!Stop, Launch!WriteRequest, Launch!StopEnds, Launch!Go,
         RequestInv, Launch!servers
<1>2. \A q \in Script : q # s => pc'[q] = pc[q] /\ nonce'[q] = nonce[q] /\ opened'[q] = opened[q]
  BY DEF Launch!ScriptStep, Launch!Status, Launch!Uncancel, Launch!Look, Launch!Count, Launch!Wait, Launch!GiveUp, Launch!Show, Launch!Close, Launch!AllClosed, Launch!Stop, Launch!WriteRequest, Launch!StopEnds, Launch!Go,
         RequestInv, Launch!servers
<1>3. pc[s] \in {"linger", "done"} => nonce'[s] = nonce[s] /\ opened'[s] = opened[s] /\ pc'[s] \in {"linger", "done"}
  BY DEF Launch!ScriptStep, Launch!Status, Launch!Uncancel, Launch!Look, Launch!Count, Launch!Wait, Launch!GiveUp, Launch!Show, Launch!Close, Launch!AllClosed, Launch!Stop, Launch!WriteRequest, Launch!StopEnds, Launch!Go,
         RequestInv
<1>4. pc'[s] \in Showing => opened'[s] # "none"
  <2>1. CASE Launch!Look(s)
    <3>1. (opened' = [opened EXCEPT ![s] = state.of] /\ state.of \in Script) \/ pc'[s] = "done"
      BY <2>1 DEF Launch!Look, Launch!Alive, Launch!Go, RequestInv
    <3> QED
      BY <3>1 DEF RequestInv, Launch!ScriptNames, Showing
  <2>2. CASE Launch!Wait(s)
    <3>1. opened'[s] = Launch!Shown(s) /\ Launch!Shown(s) # "none"
      BY <2>2 DEF Launch!Wait, RequestInv
    <3> QED
      BY <3>1
  <2>3. CASE Launch!Status(s) \/ Launch!Uncancel(s) \/ Launch!GiveUp(s) \/ Launch!StopEnds(s)
    BY <2>3 DEF Launch!Status, Launch!Uncancel, Launch!GiveUp, Launch!StopEnds, Launch!Go, RequestInv, Showing
  <2>4. CASE Launch!Count(s) \/ Launch!Show(s) \/ Launch!Close(s) \/ Launch!AllClosed(s) \/ Launch!Stop(s) \/ Launch!WriteRequest(s)
    <3>1. opened' = opened /\ (pc[s] \in Showing \/ pc' = pc)
      BY <2>4 DEF Launch!Count, Launch!Show, Launch!Close, Launch!AllClosed, Launch!Stop, Launch!WriteRequest, Showing
    <3> QED
      BY <3>1 DEF RequestInv
  <2> QED
    BY <2>1, <2>2, <2>3, <2>4 DEF Launch!ScriptStep
<1>5. \A q \in Script : pc'[q] \in Showing => opened'[q] # "none"
  BY <1>2, <1>4 DEF RequestInv
<1>6. ASSUME NEW x, Meant(x) PROVE Meant(x)'
  BY <1>1, <1>2, <1>3, <1>6, MeantStays
<1>7. request' # "none" => Meant(request)'
  <2>1. CASE Launch!WriteRequest(s)
    <3>1. request' = nonce[s] /\ asked' = asked \union {nonce[s]} /\ nonce' = nonce /\ opened' = opened /\ pc'[s] = "linger"
      BY <2>1 DEF Launch!WriteRequest, Launch!Go, RequestInv
    <3>2. opened[s] # "none"
      BY <2>1 DEF Launch!WriteRequest, RequestInv, Showing
    <3> QED
      BY <3>1, <3>2 DEF Meant
  <2>2. CASE ~Launch!WriteRequest(s)
    <3>1. request' = request \/ request' = "none"
      BY <2>2 DEF Launch!ScriptStep, Launch!Status, Launch!Uncancel, Launch!Look, Launch!Count, Launch!Wait, Launch!GiveUp, Launch!Show, Launch!Close, Launch!AllClosed, Launch!Stop, Launch!StopEnds, Launch!files
    <3>2. ASSUME request' = request, request # "none" PROVE Meant(request)'
      BY <1>6, <3>2 DEF RequestInv, Meant
    <3> QED
      BY <3>1, <3>2
  <2> QED
    BY <2>1, <2>2
<1>8. \A q \in Script : server'[q] = "deciding" => Meant(q)'
  <2>1. \A q \in Script : server'[q] = "deciding" => server[q] = "deciding"
    BY DEF Launch!ScriptStep, Launch!Status, Launch!Uncancel, Launch!Look, Launch!Count, Launch!Wait, Launch!GiveUp, Launch!Show, Launch!Close, Launch!AllClosed, Launch!Stop, Launch!WriteRequest, Launch!StopEnds,
           RequestInv, Launch!servers
  <2> QED
    BY <1>6, <2>1 DEF RequestInv
<1> QED
  BY <1>1, <1>5, <1>7, <1>8 DEF RequestInv

LEMMA RequestStep ==
  ASSUME Launch!ScriptNames
  PROVE  RequestInv /\ [Launch!Next]_(Launch!vars) => RequestInv'
<1> SUFFICES ASSUME RequestInv, [Launch!Next]_(Launch!vars) PROVE RequestInv'
  OBVIOUS
<1>1. CASE Launch!Work \/ UNCHANGED Launch!vars
  <2>1. UNCHANGED <<request, server, pc, nonce, opened, asked>>
    BY <1>1 DEF Launch!Work, Launch!vars, Launch!files, Launch!servers, Launch!scripts
  <2> QED
    BY <2>1 DEF RequestInv, Meant
<1> QED
  BY <1>1, ServerKeepsRequest, ScriptKeepsRequest DEF Launch!Next

\* For any number of copies: whatever requests are overwritten, cancelled or late, a
\* server only stops by itself for a script that had shown its window (start.ps1,
\* launch._watch).
THEOREM StopsStayAsked ==
  ASSUME Launch!ScriptNames
  PROVE  Launch!Spec => Launch!StopsOnlyAsked
<1> DEFINE AskedStep ==
      \A p \in Script : server[p] = "deciding" /\ server'[p] = "closing" /\ request' # request =>
        /\ p \in asked
        /\ \E s \in Script : nonce[s] = p /\ pc[s] \in {"linger", "done"} /\ opened[s] # "none"
<1>1. Launch!Init => RequestInv
  BY RequestBegins
<1>2. RequestInv /\ [Launch!Next]_(Launch!vars) => RequestInv'
  BY RequestStep
<1>3. RequestInv => AskedStep
  BY DEF RequestInv, Meant
<1>4. Launch!Spec => [][AskedStep]_(Launch!vars)
  BY <1>1, <1>2, <1>3, PTL DEF Launch!Spec
<1> QED
  BY <1>4 DEF Launch!StopsOnlyAsked

-----------------------------------------------------------------------------
(* The ledger's file. Whoever is past the lock is the holder and has the schema  *)
(* its step left, a process that serves calls goes by the row of the ledger, and  *)
(* what the row promises holds of every reservation made before there was a row.  *)

Step == {"out", "picked", "locked", "copied", "open", "serving"}

LedgerTypeOK ==
  /\ schema \in Nat
  /\ used \in [File!Provider -> Nat]
  /\ stamps \subseteq Nat \ {0}
  /\ IsFiniteSet(stamps)
  /\ stamps = {} <=> File!Total = 0
  /\ process \in [Process -> Step]
  /\ DOMAIN fixed = Process

\* All reservations, the earlier ones too, are within these caps.
Within(b) ==
  /\ b.cap \in Nat \ {0}
  /\ b.by \in [File!Provider -> Nat]
  /\ stamps \subseteq {b.cap}
  /\ File!Total <= b.cap
  /\ \A a \in File!Provider : b.by[a] = 0 \/ used[a] <= b.by[a]

RowHolds == budget \notin {File!None, File!Damaged} => Within(budget)

\* What a process that has come so far may rely on.
Reached(p) ==
  /\ process[p] \in {"locked", "copied", "open", "serving"} => holder = p
  /\ process[p] = "copied" => schema \in backups
  /\ process[p] \in {"open", "serving"} => schema = Version[p]
  /\ process[p] = "serving" => fixed[p] = budget /\ budget # File!Damaged /\ (Wants[p] # File!None => budget # File!None)

LedgerInv == LedgerTypeOK /\ RowHolds /\ \A p \in Process : Reached(p)

LEMMA NoneHasNoCap == File!None.cap = 0 /\ File!Damaged.cap = 0
BY DEF File!None, File!Damaged

\* The Cardinality of LedgerFile is the one the library's theorems are about.
LEMMA CountOfStamps == ASSUME NEW S PROVE File!Cardinality(S) = Cardinality(S)
BY DEF File!Cardinality, Cardinality

LEMMA TotalIsNat ==
  ASSUME LedgerTypeOK
  PROVE  File!Total \in Nat /\ \A a \in File!Provider : used[a] \in Nat /\ used[a] <= File!Total
BY DEF LedgerTypeOK, File!Total, File!Provider

\* Whatever is bound, all reservations are within it.
LEMMA KnownIsWithin ==
  ASSUME File!Configuration, LedgerInv, NEW p \in Process, File!Recoverable,
         Wants[p] # File!None => Wants[p] = File!Known(p)
  PROVE  /\ File!Known(p) # File!Damaged
         /\ File!Known(p) # File!None => Within(File!Known(p))
         /\ Wants[p] # File!None => File!Known(p) # File!None
<1>1. CASE budget # File!None
  BY <1>1 DEF File!Known, File!Recoverable, LedgerInv, RowHolds
<1>2. CASE budget = File!None /\ File!Total > 0
  <2>1. Cardinality(stamps) = 1 /\ File!Total <= File!Legacy.cap /\ File!Known(p) = File!Legacy
    BY <1>2, CountOfStamps DEF File!Recoverable, File!Known
  <2>2. PICK c : stamps = {c}
    BY <2>1, FS_Singleton DEF LedgerInv, LedgerTypeOK
  <2>3. File!Legacy = [cap |-> c, by |-> [a \in File!Provider |-> 0]]
    BY <2>2 DEF File!Legacy
  <2>4. c \in Nat \ {0}
    BY <2>2 DEF LedgerInv, LedgerTypeOK
  <2>5. File!Legacy.cap = c /\ File!Legacy.by = [a \in File!Provider |-> 0]
    BY <2>3
  <2>6. Within(File!Legacy)
    BY <2>1, <2>2, <2>4, <2>5 DEF Within
  <2>7. File!Legacy # File!None /\ File!Legacy # File!Damaged
    BY <2>4, <2>5, NoneHasNoCap
  <2> QED
    BY <2>1, <2>6, <2>7
<1>3. CASE budget = File!None /\ ~(File!Total > 0)
  <2>1. File!Known(p) = Wants[p]
    BY <1>3 DEF File!Known
  <2>2. File!Total = 0 /\ stamps = {} /\ \A a \in File!Provider : used[a] = 0
    BY <1>3, TotalIsNat DEF LedgerInv, LedgerTypeOK
  <2>3. Wants[p] = File!None \/ (Wants[p].cap \in Nat \ {0} /\ Wants[p].by \in [File!Provider -> Nat])
    BY DEF File!Configuration, File!Configured, File!Budget
  <2>4. Wants[p] # File!Damaged
    <3>1. File!None # File!Damaged
      <4>1. "codex" \in File!Provider /\ File!None.by = [a \in File!Provider |-> 0] /\ File!Damaged.by = [a \in File!Provider |-> 1]
        BY DEF File!None, File!Damaged, File!Provider
      <4>2. File!None.by["codex"] = 0 /\ File!Damaged.by["codex"] = 1
        BY <4>1
      <4> QED
        BY <4>2
    <3> QED
      BY <2>3, <3>1, NoneHasNoCap
  <2>5. Wants[p] # File!None => Within(Wants[p])
    BY <2>2, <2>3 DEF Within
  <2> QED
    BY <2>1, <2>4, <2>5
<1> QED
  BY <1>1, <1>2, <1>3

\* One more reservation under the caps of the row.
LEMMA ReservesWithin ==
  ASSUME LedgerInv, NEW p \in Process, NEW a \in File!Provider, File!Reserve(p, a)
  PROVE  /\ budget' = budget /\ Within(budget)'
         /\ stamps' = {budget.cap}
         /\ LedgerTypeOK' /\ RowHolds'
<1>1. fixed[p] = budget /\ Within(budget)
  BY DEF File!Reserve, LedgerInv, Reached, RowHolds
<1>2. /\ used' = [used EXCEPT ![a] = @ + 1] /\ stamps' = stamps \union {budget.cap}
      /\ UNCHANGED <<budget, schema, process, fixed>>
  BY <1>1 DEF File!Reserve
<1>3. File!Total < budget.cap /\ (budget.by[a] = 0 \/ used[a] < budget.by[a])
  BY <1>1, TotalIsNat DEF File!Reserve, File!Exhausted, Within, LedgerInv
<1>4. used' \in [File!Provider -> Nat] /\ File!Total' = File!Total + 1
  BY <1>2 DEF LedgerInv, LedgerTypeOK, File!Total, File!Provider
<1>5. stamps' = {budget.cap} /\ IsFiniteSet(stamps')
  <2>1. stamps' = {budget.cap}
    BY <1>1, <1>2 DEF Within
  <2> QED
    BY <2>1, FS_Singleton
<1>6. Within(budget)'
  <2>1. File!Total' <= budget'.cap /\ budget' = budget
    BY <1>1, <1>2, <1>3, <1>4, TotalIsNat DEF Within, LedgerInv
  <2>2. \A b \in File!Provider : budget.by[b] = 0 \/ used'[b] <= budget.by[b]
    <3> SUFFICES ASSUME NEW b \in File!Provider, budget.by[b] # 0 PROVE used'[b] <= budget.by[b]
      OBVIOUS
    <3>1. used[b] <= budget.by[b] /\ used[b] \in Nat /\ budget.by[b] \in Nat
      BY <1>1 DEF Within, LedgerInv, LedgerTypeOK
    <3>2. CASE b = a
      <4>1. used'[a] = used[a] + 1
        BY <1>2 DEF LedgerInv, LedgerTypeOK
      <4> QED
        BY <1>3, <3>1, <3>2, <4>1
    <3>3. CASE b # a
      BY <1>2, <3>1, <3>3 DEF LedgerInv, LedgerTypeOK
    <3> QED
      BY <3>2, <3>3
  <2> QED
    BY <1>1, <1>5, <2>1, <2>2 DEF Within
<1>7. LedgerTypeOK'
  <2>1. stamps' # {} /\ File!Total' # 0 /\ stamps' \subseteq Nat \ {0}
    BY <1>1, <1>4, <1>5, TotalIsNat DEF Within, LedgerInv
  <2> QED
    BY <1>2, <1>4, <1>5, <2>1 DEF LedgerInv, LedgerTypeOK
<1> QED
  BY <1>2, <1>5, <1>6, <1>7 DEF RowHolds

LEMMA LedgerBegins ==
  ASSUME File!Configuration
  PROVE  File!Init => LedgerInv
<1> SUFFICES ASSUME File!Init PROVE LedgerInv
  OBVIOUS
<1>1. schema \in Nat /\ used \in [File!Provider -> Nat] /\ (stamps = {} <=> File!Total = 0)
  BY DEF File!Init, File!Configuration
<1>2. stamps \subseteq Nat \ {0} /\ IsFiniteSet(stamps)
  <2>1. stamps \subseteq 1..MaxCap /\ MaxCap \in Nat
    BY DEF File!Init, File!Configuration
  <2>2. IsFiniteSet(1..MaxCap)
    BY <2>1, FS_Interval
  <2>3. IsFiniteSet(stamps)
    BY <2>1, <2>2, FS_Subset
  <2> QED
    BY <2>1, <2>3
<1>3. process \in [Process -> Step] /\ DOMAIN fixed = Process /\ \A p \in Process : process[p] = "out"
  BY DEF File!Init, Step
<1>4. RowHolds
  <2> SUFFICES ASSUME budget \notin {File!None, File!Damaged} PROVE Within(budget)
    BY DEF RowHolds
  <2>1. budget \in File!Configured /\ stamps \subseteq {budget.cap} /\ File!Total <= budget.cap
        /\ \A a \in File!Provider : budget.by[a] = 0 \/ used[a] <= budget.by[a]
    BY DEF File!Init
  <2>2. budget.cap \in 1..MaxCap /\ budget.by \in [File!Provider -> 0..MaxCap] /\ MaxCap \in Nat
    BY <2>1 DEF File!Configured, File!Budget, File!Configuration
  <2> QED
    BY <2>1, <2>2 DEF Within
<1> QED
  BY <1>1, <1>2, <1>3, <1>4 DEF LedgerInv, LedgerTypeOK, Reached

\* What the ledger holds stays so while nothing is reserved or bound.
LEMMA RestOfLedger ==
  ASSUME LedgerInv, UNCHANGED <<budget, stamps, used>>, schema' \in Nat, process' \in [Process -> Step], DOMAIN fixed' = Process
  PROVE  LedgerTypeOK' /\ RowHolds'
BY DEF LedgerInv, LedgerTypeOK, RowHolds, Within, File!Total

LEMMA LedgerSteps ==
  ASSUME File!Configuration
  PROVE  LedgerInv /\ [File!Next]_(File!vars) => LedgerInv'
<1> SUFFICES ASSUME LedgerInv, [File!Next]_(File!vars) PROVE LedgerInv'
  OBVIOUS
<1>a. /\ process \in [Process -> Step] /\ schema \in Nat /\ DOMAIN fixed = Process
      /\ \A p \in Process : Version[p] \in Nat
  BY DEF LedgerInv, LedgerTypeOK, File!Configuration
<1>1. ASSUME NEW p \in Process, File!Pick(p)
      PROVE  LedgerInv'
  <2>1. LedgerTypeOK' /\ RowHolds'
    BY <1>a, <1>1, RestOfLedger DEF File!Pick, File!Go, File!file, Step
  <2>2. \A q \in Process : Reached(q)'
    BY <1>a, <1>1 DEF LedgerInv, File!Pick, File!Go, File!file, Reached
  <2> QED
    BY <2>1, <2>2 DEF LedgerInv
<1>2. ASSUME NEW p \in Process, File!Open(p)
      PROVE  LedgerInv'
  <2>1. LedgerTypeOK' /\ RowHolds'
    BY <1>a, <1>2, RestOfLedger DEF File!Open, File!Go, File!file, Step
  <2>2. ASSUME NEW q \in Process
        PROVE  Reached(q)'
    <3>1. q # p => process'[q] = process[q]
      BY <1>a, <1>2 DEF File!Open, File!Go
    <3>2. process'[p] = "locked" /\ holder' = p /\ UNCHANGED <<schema, budget, backups, fixed>>
      BY <1>a, <1>2 DEF File!Open, File!Go, File!file
    <3>3. q # p => process[q] \notin {"locked", "copied", "open", "serving"}
      BY <1>2 DEF File!Open, LedgerInv, Reached, File!Configuration
    <3> QED
      BY <3>1, <3>2, <3>3 DEF Reached
  <2> QED
    BY <2>1, <2>2 DEF LedgerInv
<1>3. ASSUME NEW p \in Process, File!Close(p)
      PROVE  LedgerInv'
  <2>1. LedgerTypeOK' /\ RowHolds'
    BY <1>a, <1>3, RestOfLedger DEF File!Close, File!Go, File!file, Step
  <2>2. ASSUME NEW q \in Process
        PROVE  Reached(q)'
    <3>1. process'[p] = "out"
      BY <1>a, <1>3 DEF File!Close, File!Go
    <3>2. q # p => process'[q] = process[q] /\ fixed'[q] = fixed[q] /\ (holder = q => holder' = q)
      BY <1>a, <1>3 DEF File!Close, File!Go
    <3>3. UNCHANGED <<schema, budget, backups>>
      BY <1>3 DEF File!Close, File!file
    <3> QED
      BY <3>1, <3>2, <3>3 DEF Reached, LedgerInv
  <2> QED
    BY <2>1, <2>2 DEF LedgerInv
<1>4. ASSUME NEW p \in Process, File!Backup(p)
      PROVE  LedgerInv'
  <2>1. LedgerTypeOK' /\ RowHolds'
    BY <1>a, <1>4, RestOfLedger DEF File!Backup, File!Go, Step
  <2>2. ASSUME NEW q \in Process
        PROVE  Reached(q)'
    <3>1. process'[p] = "copied" /\ (q # p => process'[q] = process[q])
      BY <1>a, <1>4 DEF File!Backup, File!Go
    <3>2. holder = p /\ backups' = backups \union {schema} /\ UNCHANGED <<schema, budget, holder, fixed>>
      BY <1>4 DEF File!Backup, LedgerInv, Reached
    <3> QED
      BY <3>1, <3>2 DEF Reached, LedgerInv
  <2> QED
    BY <2>1, <2>2 DEF LedgerInv
<1>5. ASSUME NEW p \in Process, File!Migrate(p)
      PROVE  LedgerInv'
  <2>1. LedgerTypeOK' /\ RowHolds'
    BY <1>a, <1>5, RestOfLedger DEF File!Migrate, File!Go, Step
  <2>2. ASSUME NEW q \in Process
        PROVE  Reached(q)'
    <3>1. process'[p] = "open" /\ (q # p => process'[q] = process[q])
      BY <1>a, <1>5 DEF File!Migrate, File!Go
    <3>2. holder = p /\ schema' = Version[p] /\ UNCHANGED <<budget, backups, holder, fixed>>
      BY <1>5 DEF File!Migrate, LedgerInv, Reached
    <3>3. q # p => process[q] \notin {"locked", "copied", "open", "serving"}
      BY <3>2 DEF LedgerInv, Reached
    <3> QED
      BY <3>1, <3>2, <3>3 DEF Reached
  <2> QED
    BY <2>1, <2>2 DEF LedgerInv
<1>6. ASSUME NEW p \in Process, File!Bind(p)
      PROVE  LedgerInv'
  <2>1. File!Known(p) # File!Damaged /\ (File!Known(p) # File!None => Within(File!Known(p))) /\ (Wants[p] # File!None => File!Known(p) # File!None)
    BY <1>6, KnownIsWithin DEF File!Bind
  <2>2. budget' = File!Known(p) /\ UNCHANGED <<schema, stamps, used, backups, holder>>
    BY <1>6 DEF File!Bind
  <2>3. process'[p] = "serving" /\ fixed'[p] = File!Known(p) /\ process' \in [Process -> Step] /\ DOMAIN fixed' = Process
    BY <1>a, <1>6 DEF File!Bind, File!Go, Step
  <2>4. LedgerTypeOK'
    BY <2>2, <2>3 DEF LedgerInv, LedgerTypeOK, File!Total
  <2>5. RowHolds'
    <3>1. ASSUME Within(File!Known(p)) PROVE Within(budget)'
      BY <2>2, <3>1 DEF Within, File!Total
    <3>2. File!None' = File!None
      BY DEF File!None
    <3> QED
      BY <2>1, <2>2, <3>1, <3>2 DEF RowHolds
  <2>6. ASSUME NEW q \in Process
        PROVE  Reached(q)'
    <3>1. holder = p /\ schema = Version[p]
      BY <1>6 DEF File!Bind, LedgerInv, Reached
    <3>2. q # p => process'[q] = process[q] /\ process[q] \notin {"locked", "copied", "open", "serving"}
      BY <1>a, <1>6, <3>1 DEF File!Bind, File!Go, LedgerInv, Reached
    <3> QED
      BY <2>1, <2>2, <2>3, <3>1, <3>2 DEF Reached
  <2> QED
    BY <2>4, <2>5, <2>6 DEF LedgerInv
<1>7. ASSUME NEW p \in Process, NEW a \in File!Provider, File!Reserve(p, a)
      PROVE  LedgerInv'
  <2>1. fixed[p] = budget /\ budget \notin {File!None, File!Damaged} /\ Within(budget)
    BY <1>7 DEF File!Reserve, LedgerInv, Reached, RowHolds
  <2>2. LedgerTypeOK' /\ RowHolds'
    BY <1>7, <2>1, ReservesWithin
  <2>3. UNCHANGED <<schema, budget, backups, holder, process, fixed>>
    BY <1>7 DEF File!Reserve
  <2>4. \A q \in Process : Reached(q)'
    BY <2>3 DEF LedgerInv, Reached
  <2> QED
    BY <2>2, <2>4 DEF LedgerInv
<1>8. CASE UNCHANGED File!vars
  BY <1>8 DEF File!vars, File!file, LedgerInv, LedgerTypeOK, RowHolds, Within, File!Total, Reached
<1> QED
  BY <1>1, <1>2, <1>3, <1>4, <1>5, <1>6, <1>7, <1>8 DEF File!Next

\* What LedgerIsKept says of a step.
KeptStep ==
  /\ budget # File!None => budget' = budget
  /\ used' # used => /\ Cardinality(stamps') = 1
                     /\ \A c \in stamps' : File!Total' <= c
                     /\ \A a \in File!Provider : budget'.by[a] = 0 \/ used'[a] <= budget'.by[a]
  /\ \/ UNCHANGED <<schema, budget, stamps, used>>
     \/ schema' > schema /\ (made => schema \in backups) /\ (schema < PhaseSchema => readable \/ schema' < PhaseSchema)
     \/ schema' = schema /\ holder # "none" /\ Version[holder] >= schema

LEMMA StepsKeepLedger ==
  ASSUME File!Configuration
  PROVE  LedgerInv /\ LedgerInv' /\ [File!Next]_(File!vars) => [KeptStep]_(File!vars)
<1> SUFFICES ASSUME LedgerInv, File!Next PROVE KeptStep
  OBVIOUS
<1>a. schema \in Nat /\ \A p \in Process : Version[p] \in Nat /\ p # "none"
  BY DEF LedgerInv, LedgerTypeOK, File!Configuration
<1>1. ASSUME NEW p \in Process, File!Pick(p) \/ File!Open(p) \/ File!Close(p) \/ File!Backup(p)
      PROVE  KeptStep
  <2>1. UNCHANGED <<schema, budget, stamps, used>>
    BY <1>1 DEF File!Pick, File!Open, File!Close, File!Backup, File!file
  <2> QED
    BY <2>1 DEF KeptStep
<1>2. ASSUME NEW p \in Process, File!Migrate(p)
      PROVE  KeptStep
  <2>1. schema' = Version[p] /\ schema <= Version[p] /\ UNCHANGED <<budget, stamps, used>>
    BY <1>2 DEF File!Migrate, File!Accepts
  <2>2. CASE schema = Version[p]
    BY <2>1, <2>2 DEF KeptStep
  <2>3. CASE schema < Version[p]
    <3>1. made => schema \in backups
      BY <1>2, <2>3 DEF File!Migrate, LedgerInv, Reached
    <3>2. schema < PhaseSchema => readable \/ ~(Version[p] >= PhaseSchema)
      BY <1>2 DEF File!Migrate, File!Accepts
    <3>3. ~(Version[p] >= PhaseSchema) => Version[p] < PhaseSchema
      BY <1>a DEF File!Configuration
    <3> QED
      BY <1>a, <2>1, <2>3, <3>1, <3>2, <3>3 DEF KeptStep
  <2> QED
    BY <1>a, <2>1, <2>2, <2>3
<1>3. ASSUME NEW p \in Process, File!Bind(p)
      PROVE  KeptStep
  <2>1. budget # File!None => budget' = budget
    BY <1>3 DEF File!Bind, File!Known
  <2>2. UNCHANGED <<schema, stamps, used>>
    BY <1>3 DEF File!Bind
  <2>3. holder = p /\ schema = Version[p]
    BY <1>3 DEF File!Bind, LedgerInv, Reached
  <2> QED
    BY <1>a, <2>1, <2>2, <2>3 DEF KeptStep
<1>4. ASSUME NEW p \in Process, NEW a \in File!Provider, File!Reserve(p, a)
      PROVE  KeptStep
  <2>1. budget' = budget /\ Within(budget)' /\ stamps' = {budget.cap}
    BY <1>4, ReservesWithin
  <2>2. Cardinality(stamps') = 1
    BY <2>1, FS_Singleton
  <2>3. schema' = schema /\ holder = p /\ schema = Version[p]
    BY <1>4 DEF File!Reserve, LedgerInv, Reached
  <2>4. File!Total' <= budget'.cap /\ \A b \in File!Provider : budget'.by[b] = 0 \/ used'[b] <= budget'.by[b]
    BY <2>1 DEF Within
  <2>5. \A c \in stamps' : File!Total' <= c
    BY <2>1, <2>4
  <2> QED
    BY <1>a, <2>1, <2>2, <2>3, <2>4, <2>5 DEF KeptStep
<1> QED
  BY <1>1, <1>2, <1>3, <1>4 DEF File!Next

\* Whoever serves calls holds the lock and goes by the row of the ledger, and all
\* reservations, those of earlier versions too, are within that row (Store,
\* bind_call_budget).
THEOREM LedgerStaysBound ==
  ASSUME File!Configuration
  PROVE  File!Spec => []LedgerInv
<1>1. File!Init => LedgerInv
  BY LedgerBegins
<1>2. LedgerInv /\ [File!Next]_(File!vars) => LedgerInv'
  BY LedgerSteps
<1> QED
  BY <1>1, <1>2, PTL DEF File!Spec

\* For any processes, caps and versions: no restart, migration or second process
\* changes a budget once bound, lets a call past it, or touches a ledger it refuses
\* (bind_call_budget, _migrate, invocations.reserve).
THEOREM LedgerStaysKept ==
  ASSUME File!Configuration
  PROVE  File!Spec => File!LedgerIsKept
<1>1. LedgerInv /\ LedgerInv' /\ [File!Next]_(File!vars) => [KeptStep]_(File!vars)
  BY StepsKeepLedger
<1>2. File!Spec => [][KeptStep]_(File!vars)
  BY <1>1, LedgerStaysBound, PTL DEF File!Spec
<1> DEFINE Told ==
      /\ budget # File!None => budget' = budget
      /\ used' # used => /\ File!Cardinality(stamps') = 1
                         /\ \A c \in stamps' : File!Total' <= c
                         /\ \A a \in File!Provider : budget'.by[a] = 0 \/ used'[a] <= budget'.by[a]
      /\ \/ UNCHANGED <<schema, budget, stamps, used>>
         \/ schema' > schema /\ (made => schema \in backups) /\ (schema < PhaseSchema => readable \/ schema' < PhaseSchema)
         \/ schema' = schema /\ holder # "none" /\ Version[holder] >= schema
<1>3. KeptStep => Told
  BY CountOfStamps DEF KeptStep
<1> HIDE DEF Told
<1>4. File!Spec => [][Told]_(File!vars)
  BY <1>2, <1>3, PTL
<1> QED
  BY <1>4 DEF File!LedgerIsKept, Told

-----------------------------------------------------------------------------
(* The parts together.                                                       *)

\* One part moves, and to the others nothing happens.
LEMMA RosterRuns == PartsSpec => Spec
<1>1. PartsInit => Init
  BY DEF PartsInit
<1>2. [PartsNext]_partsVars => [Next]_vars
  <2> SUFFICES ASSUME [PartsNext]_partsVars PROVE [Next]_vars
    OBVIOUS
  <2>1. CASE RosterNext
    BY <2>1 DEF RosterNext
  <2>2. CASE LauncherNext
    BY <2>2 DEF LauncherNext, vars
  <2>3. CASE LedgerNext
    BY <2>3 DEF LedgerNext, vars
  <2>4. CASE QuotaNext
    BY <2>4 DEF QuotaNext, vars
  <2>5. CASE ServerNext
    BY <2>5 DEF ServerNext, vars
  <2>6. CASE CallNext
    BY <2>6 DEF CallNext, vars
  <2>7. CASE PagesNext
    BY <2>7 DEF PagesNext, vars
  <2>8. CASE UNCHANGED partsVars
    BY <2>8 DEF partsVars, vars
  <2> QED
    BY <2>1, <2>2, <2>3, <2>4, <2>5, <2>6, <2>7, <2>8 DEF PartsNext
<1> QED
  BY <1>1, <1>2, PTL DEF PartsSpec, Spec

LEMMA LauncherRuns == PartsSpec => Launch!Spec
<1>1. PartsInit => Launch!Init
  BY DEF PartsInit
<1>2. [PartsNext]_partsVars => [Launch!Next]_(Launch!vars)
  <2> SUFFICES ASSUME [PartsNext]_partsVars PROVE [Launch!Next]_(Launch!vars)
    OBVIOUS
  <2>1. CASE RosterNext
    BY <2>1 DEF RosterNext, Launch!vars, Launch!files, Launch!servers, Launch!scripts, launcherVars
  <2>2. CASE LauncherNext
    BY <2>2 DEF LauncherNext
  <2>3. CASE LedgerNext
    BY <2>3 DEF LedgerNext, Launch!vars, Launch!files, Launch!servers, Launch!scripts, launcherVars
  <2>4. CASE QuotaNext
    BY <2>4 DEF QuotaNext, Launch!vars, Launch!files, Launch!servers, Launch!scripts, launcherVars
  <2>5. CASE ServerNext
    BY <2>5 DEF ServerNext, Launch!vars, Launch!files, Launch!servers, Launch!scripts, launcherVars
  <2>6. CASE CallNext
    BY <2>6 DEF CallNext, Launch!vars, Launch!files, Launch!servers, Launch!scripts, launcherVars
  <2>7. CASE PagesNext
    BY <2>7 DEF PagesNext, Launch!vars, Launch!files, Launch!servers, Launch!scripts, launcherVars
  <2>8. CASE UNCHANGED partsVars
    BY <2>8 DEF partsVars, Launch!vars, Launch!files, Launch!servers, Launch!scripts, launcherVars
  <2> QED
    BY <2>1, <2>2, <2>3, <2>4, <2>5, <2>6, <2>7, <2>8 DEF PartsNext
<1> QED
  BY <1>1, <1>2, PTL DEF PartsSpec, Launch!Spec

LEMMA LedgerRuns == PartsSpec => File!Spec
<1>1. PartsInit => File!Init
  BY DEF PartsInit
<1>2. [PartsNext]_partsVars => [File!Next]_(File!vars)
  <2> SUFFICES ASSUME [PartsNext]_partsVars PROVE [File!Next]_(File!vars)
    OBVIOUS
  <2>1. CASE RosterNext
    BY <2>1 DEF RosterNext, File!vars, File!file, ledgerVars
  <2>2. CASE LauncherNext
    BY <2>2 DEF LauncherNext, File!vars, File!file, ledgerVars
  <2>3. CASE LedgerNext
    BY <2>3 DEF LedgerNext
  <2>4. CASE QuotaNext
    BY <2>4 DEF QuotaNext, File!vars, File!file, ledgerVars
  <2>5. CASE ServerNext
    BY <2>5 DEF ServerNext, File!vars, File!file, ledgerVars
  <2>6. CASE CallNext
    BY <2>6 DEF CallNext, File!vars, File!file, ledgerVars
  <2>7. CASE PagesNext
    BY <2>7 DEF PagesNext, File!vars, File!file, ledgerVars
  <2>8. CASE UNCHANGED partsVars
    BY <2>8 DEF partsVars, File!vars, File!file, ledgerVars
  <2> QED
    BY <2>1, <2>2, <2>3, <2>4, <2>5, <2>6, <2>7, <2>8 DEF PartsNext
<1> QED
  BY <1>1, <1>2, PTL DEF PartsSpec, File!Spec

LEMMA QuotaRuns == PartsSpec => Quota!Spec
<1>1. PartsInit => Quota!Init
  BY DEF PartsInit
<1>2. [PartsNext]_partsVars => [Quota!Next]_(Quota!vars)
  <2> SUFFICES ASSUME [PartsNext]_partsVars PROVE [Quota!Next]_(Quota!vars)
    OBVIOUS
  <2>1. CASE RosterNext
    BY <2>1 DEF RosterNext, Quota!vars, quotaVars
  <2>2. CASE LauncherNext
    BY <2>2 DEF LauncherNext, Quota!vars, quotaVars
  <2>3. CASE LedgerNext
    BY <2>3 DEF LedgerNext, Quota!vars, quotaVars
  <2>4. CASE QuotaNext
    BY <2>4 DEF QuotaNext
  <2>5. CASE ServerNext
    BY <2>5 DEF ServerNext, Quota!vars, quotaVars
  <2>6. CASE CallNext
    BY <2>6 DEF CallNext, Quota!vars, quotaVars
  <2>7. CASE PagesNext
    BY <2>7 DEF PagesNext, Quota!vars, quotaVars
  <2>8. CASE UNCHANGED partsVars
    BY <2>8 DEF partsVars, Quota!vars, quotaVars
  <2> QED
    BY <2>1, <2>2, <2>3, <2>4, <2>5, <2>6, <2>7, <2>8 DEF PartsNext
<1> QED
  BY <1>1, <1>2, PTL DEF PartsSpec, Quota!Spec

LEMMA ServerRuns == PartsSpec => Web!Spec
<1>1. PartsInit => Web!Init
  BY DEF PartsInit
<1>2. [PartsNext]_partsVars => [Web!Next]_(Web!vars)
  <2> SUFFICES ASSUME [PartsNext]_partsVars PROVE [Web!Next]_(Web!vars)
    OBVIOUS
  <2>1. CASE RosterNext
    BY <2>1 DEF RosterNext, Web!vars, Web!connections, Web!stopping, Web!controller, serverVars
  <2>2. CASE LauncherNext
    BY <2>2 DEF LauncherNext, Web!vars, Web!connections, Web!stopping, Web!controller, serverVars
  <2>3. CASE LedgerNext
    BY <2>3 DEF LedgerNext, Web!vars, Web!connections, Web!stopping, Web!controller, serverVars
  <2>4. CASE QuotaNext
    BY <2>4 DEF QuotaNext, Web!vars, Web!connections, Web!stopping, Web!controller, serverVars
  <2>5. CASE ServerNext
    BY <2>5 DEF ServerNext
  <2>6. CASE CallNext
    BY <2>6 DEF CallNext, Web!vars, Web!connections, Web!stopping, Web!controller, serverVars
  <2>7. CASE PagesNext
    BY <2>7 DEF PagesNext, Web!vars, Web!connections, Web!stopping, Web!controller, serverVars
  <2>8. CASE UNCHANGED partsVars
    BY <2>8 DEF partsVars, Web!vars, Web!connections, Web!stopping, Web!controller, serverVars
  <2> QED
    BY <2>1, <2>2, <2>3, <2>4, <2>5, <2>6, <2>7, <2>8 DEF PartsNext
<1> QED
  BY <1>1, <1>2, PTL DEF PartsSpec, Web!Spec

LEMMA CallRuns == PartsSpec => Path!Spec
<1>1. PartsInit => Path!Init
  BY DEF PartsInit
<1>2. [PartsNext]_partsVars => [Path!Next]_(Path!vars)
  <2> SUFFICES ASSUME [PartsNext]_partsVars PROVE [Path!Next]_(Path!vars)
    OBVIOUS
  <2>1. CASE RosterNext
    BY <2>1 DEF RosterNext, Path!vars, Path!world, Path!app, Path!history, callVars
  <2>2. CASE LauncherNext
    BY <2>2 DEF LauncherNext, Path!vars, Path!world, Path!app, Path!history, callVars
  <2>3. CASE LedgerNext
    BY <2>3 DEF LedgerNext, Path!vars, Path!world, Path!app, Path!history, callVars
  <2>4. CASE QuotaNext
    BY <2>4 DEF QuotaNext, Path!vars, Path!world, Path!app, Path!history, callVars
  <2>5. CASE ServerNext
    BY <2>5 DEF ServerNext, Path!vars, Path!world, Path!app, Path!history, callVars
  <2>6. CASE CallNext
    BY <2>6 DEF CallNext
  <2>7. CASE PagesNext
    BY <2>7 DEF PagesNext, Path!vars, Path!world, Path!app, Path!history, callVars
  <2>8. CASE UNCHANGED partsVars
    BY <2>8 DEF partsVars, Path!vars, Path!world, Path!app, Path!history, callVars
  <2> QED
    BY <2>1, <2>2, <2>3, <2>4, <2>5, <2>6, <2>7, <2>8 DEF PartsNext
<1> QED
  BY <1>1, <1>2, PTL DEF PartsSpec, Path!Spec

LEMMA PagesRuns == PartsSpec => Index!Spec
<1>1. PartsInit => Index!Init
  BY DEF PartsInit
<1>2. [PartsNext]_partsVars => [Index!Next]_(Index!vars)
  <2> SUFFICES ASSUME [PartsNext]_partsVars PROVE [Index!Next]_(Index!vars)
    OBVIOUS
  <2>1. CASE RosterNext
    BY <2>1 DEF RosterNext, Index!vars, Index!world, pageVars
  <2>2. CASE LauncherNext
    BY <2>2 DEF LauncherNext, Index!vars, Index!world, pageVars
  <2>3. CASE LedgerNext
    BY <2>3 DEF LedgerNext, Index!vars, Index!world, pageVars
  <2>4. CASE QuotaNext
    BY <2>4 DEF QuotaNext, Index!vars, Index!world, pageVars
  <2>5. CASE ServerNext
    BY <2>5 DEF ServerNext, Index!vars, Index!world, pageVars
  <2>6. CASE CallNext
    BY <2>6 DEF CallNext, Index!vars, Index!world, pageVars
  <2>7. CASE PagesNext
    BY <2>7 DEF PagesNext
  <2>8. CASE UNCHANGED partsVars
    BY <2>8 DEF partsVars, Index!vars, Index!world, pageVars
  <2> QED
    BY <2>1, <2>2, <2>3, <2>4, <2>5, <2>6, <2>7, <2>8 DEF PartsNext
<1> QED
  BY <1>1, <1>2, PTL DEF PartsSpec, Index!Spec

\* No sequence of failures, returns and substitutions brings back who was given up,
\* lets anybody in after the reveal, or goes on without a quorum (membership.decide).
THEOREM RosterOfParts == PartsSpec => RosterIsHonest
BY RosterRuns, RosterStaysHonest

\* Whoever starts, loses, fails or dies beside it, the server that lives is the one the
\* state names, and the lock is its own (launch.serve, process_guard).
THEOREM FilesTellOfTheLive == PartsSpec => []LiveIsRecorded
<1>1. LiveIsRecorded <=> Launch!LiveIsRecorded
  BY DEF LiveIsRecorded
<1>2. Launch!Spec => []Launch!LiveIsRecorded
  BY LiveStaysRecorded, PartsAllowed
<1> QED
  BY <1>1, <1>2, LauncherRuns, PTL

\* Whatever requests are overwritten, cancelled or late, a server only stops by itself for
\* a script that had shown its window (start.ps1, launch._watch).
THEOREM ServersStopAsAsked == PartsSpec => StopsOnlyAsked
BY LauncherRuns, StopsStayAsked, PartsAllowed DEF StopsOnlyAsked

\* No restart, migration or second process changes a budget once bound, lets a call past
\* it, or touches a ledger it refuses (bind_call_budget, _migrate, invocations.reserve).
THEOREM BudgetsStayBound == PartsSpec => LedgerIsKept
BY LedgerRuns, LedgerStaysKept, PartsAllowed DEF LedgerIsKept

\* Limits shown as observed are, and no refresh forgets or crowds another, for any threads
\* (account_quota.view, refresh).
THEOREM LimitsShownAsObserved == PartsSpec => LimitsAreHonest
BY QuotaRuns, LimitsStayHonest, PartsAllowed DEF LimitsAreHonest

\* Whatever connections, timers, failed starts and interrupts meet, no slot is lost or given
\* back twice while the server accepts, and the ledger is closed after its last use
\* (server._Server, serve_until_stopped).
THEOREM SlotsAreGivenBack == PartsSpec => []ServerEndsWhole
<1>1. ServerEndsWhole <=> Web!ServerEndsWhole
  BY DEF ServerEndsWhole
<1>2. Web!Spec => []Web!ServerEndsWhole
  BY ServerStaysWhole, PartsAllowed
<1> QED
  BY <1>1, <1>2, ServerRuns, PTL

\* Whatever changes while a call is made, it starts on what was observed, and registered at its
\* second look, and is refused late only after a change (cli_executor, live_config, readiness).
THEOREM CallsStartAsObserved == PartsSpec => []GateIsExact
<1>1. GateIsExact <=> Path!CallsAsObserved /\ Path!RefusedByChange
  BY DEF GateIsExact
<1>2. Path!Spec => [](Path!CallsAsObserved /\ Path!RefusedByChange)
  BY GateStaysExact, PartsAllowed
<1> QED
  BY <1>1, <1>2, CallRuns, PTL

\* Every page is fresh, and a walk shows every row once, whatever is written between the
\* pages (pages.page).
THEOREM WalksShowEveryRow == PartsSpec => PagesAreWhole
BY PagesRuns, PagesStayWhole, PartsAllowed DEF PagesAreWhole

=============================================================================
