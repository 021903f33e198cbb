------------------------------ MODULE UpperProofs ------------------------------
(***************************************************************************)
(* Theorems about the calls around a run, for every roster, number of rounds,  *)
(* cap and bound.  The three kinds of calls are in different tables; what the  *)
(* proofs need of each is the same: who has been called, who may be alive, and  *)
(* that a call that may be alive is in a state that holds its slot.           *)
(***************************************************************************)
EXTENDS UpperCalls, FiniteSetTheorems, TLAPS

\* What the row of a seat says about its call.
SeatTells(c) ==
  /\ seat[c] \in {"queued", "skipped"} => c \in Reviews
  /\ seat[c] \in {"absent", "queued", "skipped"} => c \notin begun
  /\ seat[c] \in {"running", "unknown", "accepted"} => c \in begun
  /\ c \in alive => seat[c] \in InFlight

\* What the events of a synthesis attempt say; attempt 0 calls nobody.
SynTells(c) ==
  /\ syn[c] = "absent" \/ c.i = 0 => c \notin begun
  /\ syn[c] \in {"open", "unconfirmed"} => c \in begun
  /\ c \in alive => syn[c] \in {"open", "unconfirmed"}
  /\ c \in workers \ settled => syn[c] = "open"

\* What the row of a participant says.
StateTells(p) ==
  /\ state[p] \in {"absent", "queued", "awaiting_user"} => DraftOf(p) \notin begun
  /\ state[p] \in InFlight => DraftOf(p) \in begun
  /\ DraftOf(p) \in alive => state[p] \in InFlight

TellInv ==
  /\ alive \subseteq begun /\ workers \subseteq begun /\ IsFiniteSet(begun)
  /\ \A c \in Seat : SeatTells(c)
  /\ \A c \in Synthesis : SynTells(c)
  /\ \A p \in Part : StateTells(p)

\* A run and its participants are created together, and an open run has settled.
RunInv ==
  \A p \in Part : /\ phase[RunOf[p]] = "absent" <=> state[p] = "absent"
                  /\ phase[RunOf[p]] \in {"revealed", "collected"} => state[p] \in Done

OneInFlight == \A c, d \in Seat : seat[c] \in InFlight /\ seat[d] \in InFlight => c = d

SlotInv == Cardinality(CallsIn(InFlight, workers)) <= MaxParallel

\* What a prepared run uses stays what it was when it was looked at.
BindInv ==
  /\ BindingHolds
  /\ \A q \in prepared : \A c \in q.uses : seat[c] = "accepted" /\ (c.purpose = "refine" => q.run \in Supervised)

\* Rounds are numbered as they are created, in a seat table s with rounds created
\* at at; a round has begun only when no older one waits, and while somebody in a
\* round waits only the last who was called may not have been accepted.
RoundsFit(s, at) ==
  /\ \A r \in Run : at[r] = 0 <=> \A c \in Round(r) : s[c] = "absent"
  /\ \A r \in Run : at[r] <= Cardinality({q \in Run : at[q] # 0})
  /\ \A q, r \in Run : at[q] = at[r] /\ at[q] # 0 => q = r
  /\ \A q, r \in Run : at[q] < at[r] =>
       \A c \in Round(q), d \in Round(r) : s[c] = "queued" => s[d] \in {"absent", "queued"}
  /\ \A r \in Run : \A c, d, e \in Round(r) :
       s[c] = "queued" /\ s[e] \notin {"absent", "queued"} /\ Row[d.of] < Row[e.of] =>
         s[d] \in {"absent", "accepted"}

RoundInv == RoundsFit(seat, roundAt)

RevisionInv ==
  /\ \A c \in Revisions \intersect begun : \A d \in Earlier(c) : seat[d] \in Done
  /\ RevisionsRechecked

UpperInv ==
  /\ TypeOK /\ TellInv /\ RunInv
  /\ OneInFlight /\ SlotInv /\ EveryCallPaid /\ BindInv
  /\ RoundInv /\ ReviewersInOrder /\ RevisionInv

-----------------------------------------------------------------------------
(* Calls and their names.                                                    *)

LEMMA Kinds ==
  /\ \A c \in Reviews : c \in Seat /\ c.purpose = "cross_review" /\ c.of \in Cli /\ c = Id("cross_review", c.of, 0, 1)
  /\ \A c \in Revisions : c \in Seat /\ c.purpose = "answer_revision" /\ c.of \in Cli
  /\ \A c \in Rechecks : c \in Seat /\ c.purpose = "revision_recheck" /\ c.of \in Cli
  /\ \A c \in Synthesis : c.purpose = "synthesis" /\ c.of \in Run
  /\ \A p \in Part : DraftOf(p) \in Draft /\ DraftOf(p).purpose = "draft" /\ DraftOf(p).of = p
  /\ \A c \in Draft : \E p \in Part : c = DraftOf(p)
<1>1. /\ \A c \in Reviews : c \in Seat /\ c.purpose = "cross_review" /\ c.of \in Cli /\ c = Id("cross_review", c.of, 0, 1)
      /\ \A c \in Revisions : c \in Seat /\ c.purpose = "answer_revision" /\ c.of \in Cli
      /\ \A c \in Rechecks : c \in Seat /\ c.purpose = "revision_recheck" /\ c.of \in Cli
  BY DEF Reviews, Revisions, Rechecks, Seat, Id
<1>2. \A c \in Synthesis : c.purpose = "synthesis" /\ c.of \in Run
  BY DEF Synthesis, Id
<1>3. QED
  BY <1>1, <1>2 DEF Draft, DraftOf, Id

LEMMA SeatKinds ==
  /\ \A c \in Seat : c.purpose \notin {"synthesis", "draft"}
  /\ \A c \in Seat : c.purpose = "cross_review" => c \in Reviews
  /\ \A c \in Seat : c.purpose = "answer_revision" => c \in Revisions
  /\ \A c \in Seat : c.purpose = "next_step" => c.of \in Run
  /\ \A c \in Seat : c.purpose = "collate" => c.of \in Run
  /\ \A c \in Seat : c.purpose \in {"refine", "split", "next_step", "collate", "cross_review", "answer_revision", "revision_recheck"}
<1> SUFFICES ASSUME NEW c \in Seat
             PROVE  \/ c.purpose = "refine" \/ c.purpose = "split" \/ c \in Reviews \/ c \in Revisions \/ c \in Rechecks
                    \/ c.purpose \in {"next_step", "collate"} /\ c.of \in Run
  BY Kinds
<1>1. CASE c \in UNION {{Id("refine", q, 0, i) : q \in Refinement, i \in 1..MaxTurns},
                        {Id("split", s, 0, 1) : s \in Split},
                        {Id("next_step", r, 0, i) : r \in Supervised, i \in 1..MaxPerRun},
                        {Id("collate", r, 0, i) : r \in {s \in Orchestrated : Mode[s] = "general"}, i \in 1..MaxPerRun}}
  BY <1>1, UpperCallsAssumption DEF Id
<1>2. QED
  BY <1>1 DEF Seat

LEMMA RunsOfCalls == \A c \in Call : RunsOf(c) \subseteq Run
<1>1. \A p \in Cli : p \in Part
  BY DEF Cli
<1>2. \A c \in Seat : RunsOf(c) \subseteq Run
  <2> SUFFICES ASSUME NEW c \in Seat PROVE RunsOf(c) \subseteq Run
    OBVIOUS
  <2>1. CASE c.purpose \in {"cross_review", "answer_revision"}
    BY <1>1, <2>1, SeatKinds, Kinds, RosterAssumption DEF RunsOf
  <2>2. CASE c.purpose = "revision_recheck"
    <3>1. c \in Rechecks
      BY <2>2 DEF Seat, Id, Reviews, Revisions
    <3>2. QED
      BY <1>1, <2>2, <3>1, Kinds, RosterAssumption DEF RunsOf
  <2>3. QED
    BY <2>1, <2>2, SeatKinds DEF RunsOf
<1>3. \A c \in Synthesis : RunsOf(c) \subseteq Run
  BY Kinds DEF RunsOf
<1>4. \A c \in Draft : RunsOf(c) \subseteq Run
  BY Kinds, RosterAssumption DEF RunsOf
<1>5. QED
  BY <1>2, <1>3, <1>4 DEF Call

\* The three tables name different calls.
LEMMA KindsApart ==
  /\ Seat \intersect Synthesis = {} /\ Seat \intersect Draft = {} /\ Synthesis \intersect Draft = {}
  /\ \A p, q \in Part : DraftOf(p) = DraftOf(q) => p = q
<1>1. \A c \in Draft : c.purpose = "draft"
  BY Kinds
<1>2. QED
  BY <1>1, Kinds, SeatKinds

LEMMA CallsInMembers ==
  ASSUME NEW states, NEW ws
  PROVE  /\ CallsIn(states, ws) \subseteq Call
         /\ \A c \in Seat : c \in CallsIn(states, ws) <=> seat[c] \in states
         /\ \A c \in Synthesis : c \in CallsIn(states, ws) <=> SynStatus(c, ws) \in states
         /\ \A p \in Part : DraftOf(p) \in CallsIn(states, ws) <=> state[p] \in states
<1>1. \A p \in Part : DraftOf(p) \in Draft
  BY Kinds
<1>2. \A c : c \in CallsIn(states, ws) <=>
         \/ \E p \in Part : state[p] \in states /\ c = DraftOf(p)
         \/ c \in Seat /\ seat[c] \in states
         \/ c \in Synthesis /\ SynStatus(c, ws) \in states
  BY DEF CallsIn
<1>3. CallsIn(states, ws) \subseteq Call
  BY <1>1, <1>2 DEF Call
<1>4. \A c \in Seat : c \in CallsIn(states, ws) <=> seat[c] \in states
  BY <1>1, <1>2, KindsApart
<1>5. \A c \in Synthesis : c \in CallsIn(states, ws) <=> SynStatus(c, ws) \in states
  BY <1>1, <1>2, KindsApart
<1>6. \A p \in Part : DraftOf(p) \in CallsIn(states, ws) <=> state[p] \in states
  BY <1>1, <1>2, KindsApart
<1>7. QED
  BY <1>3, <1>4, <1>5, <1>6

-----------------------------------------------------------------------------
(* Typing.                                                                   *)

SeatTables == [Seat -> SeatState]

LEMMA SkipType ==
  ASSUME NEW s \in SeatTables, NEW R
  PROVE  Skip(R, s) \in SeatTables /\ Skipped(R, s) \subseteq Call \X Ending
<1>1. Skip(R, s) \in SeatTables
  BY DEF SeatTables, Skip, SeatState
<1>2. \A r : Waiting(r, s) \subseteq Seat
  BY Kinds DEF Waiting, Round
<1>3. Skipped(R, s) \subseteq Call \X Ending
  BY <1>2 DEF Skipped, Ending, Call
<1>4. QED
  BY <1>1, <1>3

LEMMA NewsType ==
  ASSUME TypeOK, NEW E \in SUBSET (Call \X Ending), News(E)
  PROVE  judged' \subseteq Run /\ judged' \subseteq judged /\ missed' \subseteq Call \X Ending
BY DEF News, TypeOK

\* Launch, but for what is told.
Starts(c, s, ws) ==
  /\ Affordable
  /\ used' = used + 1
  /\ \/ /\ seat' = [s EXCEPT ![c] = "running"]
        /\ workers' = ws \union {c}
        /\ alive' = alive \union {c}
        /\ begun' = begun \union {c}
     \/ /\ StartFaults
        /\ seat' = [s EXCEPT ![c] = "rejected"]
        /\ workers' = ws
        /\ UNCHANGED <<alive, begun>>

LEMMA LaunchStarts ==
  ASSUME TypeOK, NEW c \in Seat, NEW s \in SeatTables, NEW ws \in SUBSET Call,
         NEW E \in SUBSET (Call \X Ending), Launch(c, s, ws, E)
  PROVE  /\ Starts(c, s, ws) /\ seat' \in SeatTables
         /\ judged' \subseteq judged /\ missed' \subseteq Call \X Ending
<1>1. E \union {<<c, "failed">>} \in SUBSET (Call \X Ending)
  BY DEF Call, Ending
<1>2. Starts(c, s, ws) /\ (News(E) \/ News(E \union {<<c, "failed">>}))
  BY DEF Launch, Starts
<1>3. seat' \in SeatTables
  BY <1>2 DEF Starts, SeatTables, SeatState
<1>4. QED
  BY <1>1, <1>2, <1>3, NewsType

\* The rounds R are closed, and nobody is called.
OnlyCloses(R, s, ws) ==
  /\ seat' = Skip(R, s)
  /\ workers' = ws
  /\ UNCHANGED <<used, alive, begun>>

LEMMA AdvanceShape ==
  ASSUME TypeOK, NEW start, NEW s \in SeatTables, NEW at, NEW ws \in SUBSET Call, AdvanceReviews(start, s, at, ws)
  PROVE  /\ \/ \E R \in SUBSET Idle(s) : OnlyCloses(R, s, ws)
            \/ /\ ReviewGate(ws)
               /\ \E R \in SUBSET Idle(s), c \in Reviews : s[c] = "queued" /\ Starts(c, Skip(R, s), ws)
         /\ seat' \in SeatTables /\ judged' \subseteq judged /\ missed' \subseteq Call \X Ending
<1> DEFINE broken == {r \in Idle(s) : Broken(r, s)}
           first == {r \in Idle(s) \ broken : \A q \in Idle(s) \ broken : at[r] <= at[q]}
           behind == {r \in broken : \E q \in first : at[q] < at[r]}
           closed == broken \ behind
<1>1. ASSUME NEW R \in SUBSET Idle(s), CloseRounds(R, s)
      PROVE  /\ seat' = Skip(R, s) /\ seat' \in SeatTables
             /\ judged' \subseteq judged /\ missed' \subseteq Call \X Ending
  BY <1>1, SkipType, NewsType DEF CloseRounds
<1>2. CASE start /\ ReviewGate(ws) /\ first # {}
  <2>1. PICK r \in first, c \in UNION {Waiting(q, s) : q \in first} :
            \/ Launch(c, Skip(closed, s), ws, Skipped(closed, s))
            \/ /\ CloseRounds(closed \union {r}, s)
               /\ workers' = ws
               /\ UNCHANGED <<used, alive, begun>>
    BY <1>2 DEF AdvanceReviews
  <2>2. c \in Reviews /\ s[c] = "queued" /\ c \in Seat
    BY Kinds DEF Waiting, Round
  <2>3. closed \subseteq Idle(s) /\ closed \union {r} \subseteq Idle(s)
    OBVIOUS
  <2> HIDE DEF closed, first, broken, behind
  <2>4. CASE Launch(c, Skip(closed, s), ws, Skipped(closed, s))
    <3>1. Starts(c, Skip(closed, s), ws) /\ seat' \in SeatTables /\ judged' \subseteq judged /\ missed' \subseteq Call \X Ending
      BY <2>2, <2>4, SkipType, LaunchStarts
    <3>2. QED
      BY <1>2, <2>2, <2>3, <3>1
  <2>5. CASE CloseRounds(closed \union {r}, s) /\ workers' = ws /\ UNCHANGED <<used, alive, begun>>
    BY <1>1, <2>3, <2>5 DEF OnlyCloses
  <2>6. QED
    BY <2>1, <2>4, <2>5
<1>3. CASE ~(start /\ ReviewGate(ws) /\ first # {})
  <2>1. CloseRounds(broken, s) /\ workers' = ws /\ UNCHANGED <<used, alive, begun>>
    BY <1>3 DEF AdvanceReviews
  <2>2. broken \subseteq Idle(s)
    OBVIOUS
  <2> HIDE DEF broken
  <2>3. QED
    BY <1>1, <2>1, <2>2 DEF OnlyCloses
<1>4. QED
  BY <1>2, <1>3

-----------------------------------------------------------------------------
(* What any step does to calls, runs and slots.                              *)

\* Moves says of every row, participant and run how it may change, Begins of the
\* calls that begin what they cost and which slots they take.  Every step is shown
\* to be of this form (StepFlows); what follows never looks at actions again.

\* The calls that begin in a step.
Fresh == begun' \ begun

Quiet(c) == (c \in begun' => c \in begun) /\ (c \in alive' => c \in alive)

SeatMove(c) ==
  \/ seat'[c] = seat[c] /\ Quiet(c)
  \/ seat[c] \in {"absent", "queued"} /\ seat'[c] = "running" /\ c \in begun'
  \/ seat[c] \in {"absent", "queued"} /\ seat'[c] = "rejected" /\ Quiet(c)
  \/ seat[c] \in {"absent", "queued"} /\ c \in Reviews /\ seat'[c] \in {"queued", "skipped"} /\ Quiet(c)
  \/ seat[c] \in InFlight /\ seat'[c] \in Done /\ c \notin alive'
  \/ seat[c] = "running" /\ seat'[c] = "unknown"

SynMove(c) ==
  \/ syn'[c] = syn[c] /\ Quiet(c) /\ (c \in workers' \ settled' => c \in workers \ settled)
  \/ syn[c] = "absent" /\ c.i > 0 /\ syn'[c] = "open" /\ c \in begun'
  \/ syn[c] = "absent" /\ syn'[c] = "failed" /\ Quiet(c) /\ c \notin workers' \ settled'
  \/ c.i = 0 /\ syn'[c] = "completed" /\ Quiet(c) /\ c \notin workers' \ settled'
  \/ syn[c] \in {"open", "unconfirmed"} /\ syn'[c] \in {"completed", "failed", "acknowledged"}
       /\ c \notin alive' /\ c \notin workers' \ settled'
  \/ syn[c] = "open" /\ syn'[c] = "unconfirmed" /\ c \notin workers' \ settled'

DraftMove(p) ==
  LET c == DraftOf(p) IN
  \/ state'[p] = state[p] /\ Quiet(c)
  \/ state[p] = "queued" /\ state'[p] = "running" /\ c \in begun'
  \/ state[p] = "absent" /\ phase[RunOf[p]] = "absent" /\ phase'[RunOf[p]] = "drafting"
       /\ state'[p] \in {"queued", "awaiting_user"} /\ Quiet(c)
  \/ state[p] \in {"queued", "awaiting_user"} /\ state'[p] \in Done /\ Quiet(c)
  \/ state[p] \in InFlight /\ state'[p] \in Done /\ c \notin alive'
  \/ state[p] = "running" /\ state'[p] = "unknown"

RunMove(r) ==
  \/ phase'[r] = phase[r]
  \/ phase[r] = "drafting" /\ phase'[r] \in {"revealed", "collected"} /\ Settled(r, state')
  \/ phase[r] = "absent" /\ phase'[r] = "drafting" /\ \A p \in Members(r) : state'[p] # "absent"

Moves ==
  /\ \A c \in Seat : SeatMove(c)
  /\ \A c \in Synthesis : SynMove(c)
  /\ \A p \in Part : DraftMove(p)
  /\ \A r \in Run : RunMove(r)

\* Who begins is new, paid for and within the slots; a seat begins alone.
Begins ==
  /\ begun \subseteq begun' /\ IsFiniteSet(Fresh)
  /\ workers' \subseteq workers \union Fresh /\ alive' \subseteq alive \union Fresh
  /\ used + Cardinality(Fresh) <= used' /\ used' <= CallCap
  /\ Fresh # {} => \E ws \in SUBSET workers :
       workers' \subseteq ws \union Fresh /\ Cardinality(CallsIn(InFlight, ws)) + Cardinality(Fresh) <= MaxParallel
  /\ \A c \in Seat \intersect Fresh :
       /\ ~Busy /\ OpenRuns = {} /\ (CanCall(c) \/ c \in Reviews)
       /\ \A d \in Seat \intersect Fresh : d = c

LEMMA NobodyBegins ==
  ASSUME TypeOK, EveryCallPaid, begun' = begun, workers' \subseteq workers, alive' \subseteq alive,
         used' \in Nat, used <= used', used' <= CallCap
  PROVE  Begins
<1>1. Fresh = {}
  BY DEF Fresh
<1>2. IsFiniteSet({}) /\ Cardinality({}) = 0
  BY FS_EmptySet
<1>3. QED
  BY <1>1, <1>2 DEF Begins, TypeOK

LEMMA QuietTables ==
  ASSUME begun' = begun, alive' \subseteq alive, workers' \ settled' \subseteq workers \ settled
  PROVE  /\ seat' = seat => \A c \in Seat : SeatMove(c)
         /\ syn' = syn => \A c \in Synthesis : SynMove(c)
         /\ state' = state => \A p \in Part : DraftMove(p)
         /\ phase' = phase => \A r \in Run : RunMove(r)
<1>1. \A c : Quiet(c)
  BY DEF Quiet
<1>2. QED
  BY <1>1 DEF SeatMove, SynMove, DraftMove, RunMove

LEMMA GateOpens ==
  ASSUME NEW r, NEW st, NEW ph, NEW ca, NEW ap
  PROVE  \/ PhaseAfter(r, st, ph, ca, ap) = ph[r]
         \/ ph[r] = "drafting" /\ Settled(r, st) /\ PhaseAfter(r, st, ph, ca, ap) \in {"revealed", "collected"}
BY DEF PhaseAfter, CanReveal, CanCollect, Accepting

LEMMA PhasesMove ==
  ASSUME TypeOK, NEW R \in SUBSET Run, NEW ca, NEW ap, NEW ph, NEW st,
         ph = [r \in Run |-> IF r \in R THEN PhaseAfter(r, st, phase, ca, ap) ELSE phase[r]]
  PROVE  /\ ph \in [Run -> {"absent", "drafting", "revealed", "collected"}]
         /\ \A r \in Run : ph[r] # phase[r] =>
              phase[r] = "drafting" /\ Settled(r, st) /\ ph[r] \in {"revealed", "collected"}
<1>1. \A r \in Run : ph[r] # phase[r] =>
        phase[r] = "drafting" /\ Settled(r, st) /\ ph[r] \in {"revealed", "collected"}
  BY GateOpens
<1>2. \A r \in Run : ph[r] \in {"absent", "drafting", "revealed", "collected"}
  BY <1>1 DEF TypeOK
<1>3. ph \in [Run -> {"absent", "drafting", "revealed", "collected"}]
  BY <1>2
<1>4. QED
  BY <1>1, <1>3

\* What follows from the moves alone.
LEMMA TellStays ==
  ASSUME TypeOK, TellInv, Moves, Begins
  PROVE  TellInv'
<1>1. /\ alive' \subseteq begun' /\ workers' \subseteq begun' /\ begun \subseteq begun'
      /\ \A c : (c \in begun' => c \in begun) => (c \in alive' => c \in alive)
      /\ IsFiniteSet(begun')
  <2>1. begun' = begun \union Fresh
    BY DEF Begins, Fresh
  <2>2. IsFiniteSet(begun')
    BY <2>1, FS_Union DEF TellInv, Begins
  <2>3. QED
    BY <2>2 DEF TellInv, Begins, Fresh
<1>2. ASSUME NEW c \in Seat PROVE SeatTells(c)'
  <2>1. SeatTells(c) /\ SeatMove(c) /\ seat[c] \in SeatState
    BY DEF TellInv, Moves, TypeOK
  <2>2. QED
    BY <1>1, <2>1 DEF SeatTells, SeatMove, Quiet, SeatState, InFlight, Done
<1>3. ASSUME NEW c \in Synthesis PROVE SynTells(c)'
  <2>1. SynTells(c) /\ SynMove(c) /\ c.i \in Nat
    BY UpperCallsAssumption DEF TellInv, Moves, Synthesis, Id
  <2>2. QED
    BY <1>1, <2>1 DEF SynTells, SynMove, Quiet
<1>4. ASSUME NEW p \in Part PROVE StateTells(p)'
  <2>1. StateTells(p) /\ DraftMove(p) /\ state[p] \in PartState
    BY DEF TellInv, Moves, TypeOK
  <2> DEFINE c == DraftOf(p)
  <2>2. c = c' /\ (c \in alive => state[p] \in InFlight)
    BY <2>1 DEF StateTells, DraftOf, Id
  <2> HIDE DEF c
  <2>3. QED
    BY <1>1, <2>1, <2>2 DEF StateTells, DraftMove, Quiet, InFlight, Done, PartState, c
<1>5. QED
  BY <1>1, <1>2, <1>3, <1>4 DEF TellInv

LEMMA RunsStay ==
  ASSUME TypeOK, RunInv, Moves
  PROVE  RunInv'
<1> SUFFICES ASSUME NEW p \in Part
             PROVE  /\ phase'[RunOf[p]] = "absent" <=> state'[p] = "absent"
                    /\ phase'[RunOf[p]] \in {"revealed", "collected"} => state'[p] \in Done
  BY DEF RunInv
<1>1. /\ RunMove(RunOf[p]) /\ DraftMove(p) /\ p \in Members(RunOf[p])
      /\ phase[RunOf[p]] = "absent" <=> state[p] = "absent"
      /\ phase[RunOf[p]] \in {"revealed", "collected"} => state[p] \in Done
  BY RosterAssumption DEF RunInv, Moves, Members
<1>2. QED
  BY <1>1 DEF RunMove, DraftMove, Settled, Done, InFlight

LEMMA OneStays ==
  ASSUME TypeOK, OneInFlight, TellInv, Moves, Begins
  PROVE  OneInFlight'
<1>1. ASSUME NEW c \in Seat, seat'[c] \in InFlight, seat[c] \notin InFlight
      PROVE  c \in Fresh
  <2>1. SeatMove(c) /\ SeatTells(c)
    BY DEF Moves, TellInv
  <2>2. seat[c] \in {"absent", "queued"} /\ c \in begun'
    BY <1>1, <2>1 DEF SeatMove, InFlight, Done
  <2>3. QED
    BY <2>1, <2>2 DEF SeatTells, Fresh
<1>2. ASSUME NEW c \in Seat \intersect Fresh, NEW d \in Seat, seat'[d] \in InFlight
      PROVE  d = c
  <2>1. seat[d] \notin InFlight
    BY DEF Begins, Busy
  <2>2. d \in Fresh
    BY <1>1, <1>2, <2>1
  <2>3. QED
    BY <2>2 DEF Begins
<1>3. SUFFICES ASSUME NEW c \in Seat, NEW d \in Seat, seat'[c] \in InFlight, seat'[d] \in InFlight PROVE c = d
  BY DEF OneInFlight
<1>4. CASE c \in Fresh \/ d \in Fresh
  BY <1>2, <1>3, <1>4
<1>5. CASE c \notin Fresh /\ d \notin Fresh
  BY <1>1, <1>3, <1>5 DEF OneInFlight
<1>6. QED
  BY <1>4, <1>5

LEMMA PaidStays ==
  ASSUME TypeOK, TypeOK', EveryCallPaid, TellInv, Begins
  PROVE  EveryCallPaid'
<1>1. begun' = begun \union Fresh /\ begun \intersect Fresh = {} /\ IsFiniteSet(begun) /\ IsFiniteSet(Fresh)
  BY DEF Begins, Fresh, TellInv
<1>2. Cardinality(begun') = Cardinality(begun) + Cardinality(Fresh)
  <2>1. Cardinality(begun \union Fresh) = Cardinality(begun) + Cardinality(Fresh) - Cardinality(begun \intersect Fresh)
    BY <1>1, FS_Union
  <2>2. Cardinality(begun \intersect Fresh) = 0
    BY <1>1, FS_EmptySet
  <2>3. Cardinality(begun) \in Nat /\ Cardinality(Fresh) \in Nat
    BY <1>1, FS_CardinalityType
  <2>4. QED
    BY <1>1, <2>1, <2>2, <2>3
<1>3. Cardinality(begun) \in Nat /\ Cardinality(Fresh) \in Nat /\ used \in Nat /\ used' \in Nat /\ CallCap \in Nat
  BY <1>1, FS_CardinalityType, UpperCallsAssumption DEF TypeOK
<1>4. QED
  BY <1>2, <1>3 DEF EveryCallPaid, Begins

\* Every call that holds a slot has begun, so there are finitely many.
LEMMA SlotsAreFinite ==
  ASSUME TypeOK, TellInv, NEW ws \in SUBSET workers
  PROVE  /\ CallsIn(InFlight, ws) \subseteq CallsIn(InFlight, workers)
         /\ IsFiniteSet(CallsIn(InFlight, workers)) /\ IsFiniteSet(CallsIn(InFlight, ws))
<1>1. ASSUME NEW c \in CallsIn(InFlight, ws)
      PROVE  c \in CallsIn(InFlight, workers)
  <2>1. c \in Seat \/ c \in Synthesis \/ \E p \in Part : c = DraftOf(p)
    BY CallsInMembers, Kinds DEF Call
  <2>2. CASE c \in Seat
    BY <1>1, <2>2, CallsInMembers
  <2>3. CASE c \in Synthesis
    BY <1>1, <2>3, CallsInMembers DEF SynStatus, InFlight
  <2>4. CASE \E p \in Part : c = DraftOf(p)
    BY <1>1, <2>4, CallsInMembers
  <2>5. QED
    BY <2>1, <2>2, <2>3, <2>4
<1>2. ASSUME NEW c \in CallsIn(InFlight, workers)
      PROVE  c \in begun
  <2>1. c \in Seat \/ c \in Synthesis \/ \E p \in Part : c = DraftOf(p)
    BY CallsInMembers, Kinds DEF Call
  <2>2. CASE c \in Seat
    BY <1>2, <2>2, CallsInMembers DEF TellInv, SeatTells, InFlight
  <2>3. CASE c \in Synthesis
    <3>1. c \in workers \/ syn[c] \in {"open", "unconfirmed"}
      BY <1>2, <2>3, CallsInMembers DEF SynStatus, InFlight, TypeOK
    <3>2. QED
      BY <2>3, <3>1 DEF TellInv, SynTells
  <2>4. CASE \E p \in Part : c = DraftOf(p)
    BY <1>2, <2>4, CallsInMembers DEF TellInv, StateTells
  <2>5. QED
    BY <2>1, <2>2, <2>3, <2>4
<1>3. IsFiniteSet(CallsIn(InFlight, workers))
  BY <1>2, FS_Subset DEF TellInv
<1>4. QED
  BY <1>1, <1>3, FS_Subset

LEMMA SlotsStay ==
  ASSUME TypeOK, TypeOK', TellInv, SlotInv, Moves, Begins
  PROVE  SlotInv'
<1>1. ASSUME NEW ws \in SUBSET workers, workers' \subseteq ws \union Fresh,
             NEW c \in CallsIn(InFlight, workers)', c \notin Fresh
      PROVE  c \in CallsIn(InFlight, ws)
  <2>1. \/ \E p \in Part : state'[p] \in InFlight /\ c = DraftOf(p)
        \/ c \in Seat /\ seat'[c] \in InFlight
        \/ c \in Synthesis /\ (c \in workers' \/ syn'[c] \in {"open", "unconfirmed"})
    BY DEF CallsIn, SynStatus, InFlight, TypeOK, DraftOf, Id
  <2>2. CASE c \in Seat /\ seat'[c] \in InFlight
    <3>1. seat[c] \in InFlight
      BY <1>1, <2>2 DEF Moves, SeatMove, TellInv, SeatTells, Fresh, Quiet, InFlight, Done
    <3>2. QED
      BY <2>2, <3>1, CallsInMembers
  <2>3. CASE c \in Synthesis /\ (c \in workers' \/ syn'[c] \in {"open", "unconfirmed"})
    <3>1. c \in ws \/ syn[c] \in {"open", "unconfirmed"}
      BY <1>1, <2>3 DEF Moves, SynMove, TellInv, SynTells, Fresh, Quiet
    <3>2. SynStatus(c, ws) \in InFlight
      BY <3>1 DEF SynStatus, InFlight
    <3>3. QED
      BY <2>3, <3>2, CallsInMembers
  <2>4. CASE \E p \in Part : state'[p] \in InFlight /\ c = DraftOf(p)
    <3>1. PICK p \in Part : state'[p] \in InFlight /\ c = DraftOf(p)
      BY <2>4
    <3>2. state[p] \in InFlight
      BY <1>1, <3>1 DEF Moves, DraftMove, TellInv, StateTells, Fresh, Quiet, InFlight, Done
    <3>3. QED
      BY <3>1, <3>2, CallsInMembers
  <2>5. QED
    BY <2>1, <2>2, <2>3, <2>4
<1>2. PICK ws \in SUBSET workers :
        /\ workers' \subseteq ws \union Fresh
        /\ Fresh # {} => Cardinality(CallsIn(InFlight, ws)) + Cardinality(Fresh) <= MaxParallel
  BY DEF Begins
<1> DEFINE before == CallsIn(InFlight, ws)
           after == CallsIn(InFlight, workers)'
<1>3. after \subseteq before \union Fresh
  BY <1>1, <1>2
<1>4. before \subseteq CallsIn(InFlight, workers) /\ IsFiniteSet(before) /\ IsFiniteSet(CallsIn(InFlight, workers))
  BY SlotsAreFinite
<1>5. IsFiniteSet(Fresh)
  BY DEF Begins
<1> HIDE DEF before, after
<1>6. Cardinality(after) <= Cardinality(before \union Fresh) /\ Cardinality(after) \in Nat
  BY <1>3, <1>4, <1>5, FS_Union, FS_Subset, FS_CardinalityType
<1>7. /\ Cardinality(before \union Fresh) <= Cardinality(before) + Cardinality(Fresh)
      /\ Cardinality(before \union Fresh) \in Nat /\ Cardinality(before) \in Nat /\ Cardinality(Fresh) \in Nat
  <2>1. /\ Cardinality(before \union Fresh) = Cardinality(before) + Cardinality(Fresh) - Cardinality(before \intersect Fresh)
        /\ IsFiniteSet(before \union Fresh) /\ IsFiniteSet(before \intersect Fresh)
    BY <1>4, <1>5, FS_Union, FS_Intersection
  <2>2. QED
    BY <1>4, <1>5, <2>1, FS_CardinalityType
<1>8. Cardinality(before) <= Cardinality(CallsIn(InFlight, workers))
  BY <1>4, FS_Subset
<1>9. Cardinality(after) <= MaxParallel
  <2>1. CASE Fresh = {}
    <3>1. Cardinality(Fresh) = 0
      BY <2>1, FS_EmptySet
    <3>2. Cardinality(CallsIn(InFlight, workers)) \in Nat /\ MaxParallel \in Nat
      BY <1>4, FS_CardinalityType, UpperCallsAssumption
    <3>3. QED
      BY <1>6, <1>7, <1>8, <3>1, <3>2 DEF SlotInv
  <2>2. CASE Fresh # {}
    <3>1. MaxParallel \in Nat
      BY UpperCallsAssumption
    <3>2. QED
      BY <1>2, <1>6, <1>7, <2>2, <3>1 DEF before
  <2>3. QED
    BY <2>1, <2>2
<1>10. QED
  BY <1>9 DEF SlotInv, after

-----------------------------------------------------------------------------
(* Calls of the upper model.                                                 *)

FlowInv == TypeOK /\ TellInv /\ RunInv /\ SlotInv /\ EveryCallPaid

Flow == TypeOK' /\ Moves /\ Begins

\* A seat table in which only reviewers of a new round wait.
Asks(s) == \A d \in Seat : s[d] = seat[d] \/ (d \in Reviews /\ seat[d] = "absent" /\ s[d] = "queued")

LEMMA SkipMoves ==
  ASSUME TypeOK, NEW s \in SeatTables, Asks(s), NEW R, NEW d \in Seat
  PROVE  \/ Skip(R, s)[d] = seat[d]
         \/ seat[d] \in {"absent", "queued"} /\ d \in Reviews /\ Skip(R, s)[d] \in {"queued", "skipped"}
<1>1. Skip(R, s)[d] = s[d] \/ (d \in Reviews /\ s[d] = "queued" /\ Skip(R, s)[d] = "skipped")
  BY DEF Skip, Waiting, Round
<1>2. QED
  BY <1>1 DEF Asks

LEMMA TableMoves ==
  ASSUME TypeOK, TellInv, NEW s \in SeatTables, Asks(s), NEW R, NEW ws \in SUBSET workers,
         \/ OnlyCloses(R, s, ws)
         \/ \E c \in Seat : seat[c] \in {"absent", "queued"} /\ Starts(c, Skip(R, s), ws)
  PROVE  \A d \in Seat : SeatMove(d)
<1> SUFFICES ASSUME NEW d \in Seat PROVE SeatMove(d)
  OBVIOUS
<1>1. CASE OnlyCloses(R, s, ws)
  BY <1>1, SkipMoves DEF OnlyCloses, SeatMove, Quiet
<1>2. ASSUME NEW c \in Seat, seat[c] \in {"absent", "queued"}, Starts(c, Skip(R, s), ws)
      PROVE  SeatMove(d)
  <2>1. Skip(R, s) \in SeatTables
    BY SkipType
  <2>2. d # c => seat'[d] = Skip(R, s)[d] /\ Quiet(d)
    BY <1>2, <2>1 DEF Starts, SeatTables, Quiet
  <2>3. CASE d = c
    BY <1>2, <2>1, <2>3 DEF Starts, SeatTables, SeatMove, Quiet
  <2>4. CASE d # c
    BY <2>2, <2>4, SkipMoves DEF SeatMove
  <2>5. QED
    BY <2>3, <2>4
<1>3. QED
  BY <1>1, <1>2

\* The other tables do not notice a call of the upper model.
LEMMA OthersQuiet ==
  ASSUME NEW C \in SUBSET Seat, begun' \subseteq begun \union C, alive' \subseteq alive \union C,
         workers' \ settled' \subseteq (workers \ settled) \union C, syn' = syn, state' = state, phase' = phase
  PROVE  /\ \A c \in Synthesis : SynMove(c)
         /\ \A p \in Part : DraftMove(p)
         /\ \A r \in Run : RunMove(r)
<1>1. \A c \in Synthesis : c \notin C
  BY KindsApart
<1>2. \A p \in Part : DraftOf(p) \notin C
  BY KindsApart, Kinds
<1>3. \A c : c \notin C => Quiet(c) /\ (c \in workers' \ settled' => c \in workers \ settled)
  BY DEF Quiet
<1>4. \A c \in Synthesis : SynMove(c)
  BY <1>1, <1>3 DEF SynMove
<1>5. \A p \in Part : DraftMove(p)
  BY <1>2, <1>3 DEF DraftMove
<1>6. QED
  BY <1>4, <1>5 DEF RunMove

LEMMA UpperBegins ==
  ASSUME TypeOK, TellInv, EveryCallPaid, NEW c \in Seat, NEW s, NEW ws \in SUBSET workers, Starts(c, s, ws),
         seat[c] \in {"absent", "queued"}, ~Busy, SlotFree(ws), OpenRuns = {}, CanCall(c) \/ c \in Reviews
  PROVE  Begins /\ used' \in Nat
<1>1. used \in Nat /\ CallCap \in Nat /\ MaxParallel \in Nat
  BY UpperCallsAssumption DEF TypeOK
<1>2. used' = used + 1 /\ used' <= CallCap /\ used' \in Nat
  BY <1>1 DEF Starts, Affordable
<1>3. CASE begun' = begun /\ alive' = alive /\ workers' = ws
  BY <1>1, <1>2, <1>3, NobodyBegins
<1>4. CASE begun' = begun \union {c} /\ alive' = alive \union {c} /\ workers' = ws \union {c}
  <2>1. Fresh = {c}
    BY <1>4 DEF Fresh, TellInv, SeatTells
  <2>2. IsFiniteSet({c}) /\ Cardinality({c}) = 1
    BY FS_Singleton
  <2>3. Cardinality(CallsIn(InFlight, ws)) \in Nat
    BY SlotsAreFinite, FS_CardinalityType
  <2>4. Cardinality(CallsIn(InFlight, ws)) + 1 <= MaxParallel
    BY <1>1, <2>3 DEF SlotFree
  <2>5. QED
    BY <1>1, <1>2, <1>4, <2>1, <2>2, <2>4 DEF Begins
<1>5. QED
  BY <1>3, <1>4 DEF Starts

LEMMA SelfSkip == ASSUME TypeOK PROVE Skip({}, seat) = seat /\ seat \in SeatTables /\ Asks(seat)
BY DEF Skip, TypeOK, SeatTables, Asks

LEMMA AskFlows ==
  ASSUME FlowInv, NEW c \in Seat, Ask(c)
  PROVE  Flow
<1>1. TypeOK /\ TellInv /\ EveryCallPaid
  BY DEF FlowInv
<1>2. /\ CanCall(c) /\ UpperGate /\ Launch(c, seat, workers, {})
      /\ UNCHANGED <<drafting, syn, roundAt, bound, mode, paused, settled, prepared, owed>>
  BY DEF Ask
<1>3. seat[c] \in {"absent", "queued"}
  <2>1. c.purpose = "refine" => NextOf(c, InFlight)
    BY <1>2 DEF CanCall, CanRefine
  <2>2. c.purpose = "next_step" => NextOf(c, {"unknown"})
    BY <1>2 DEF CanCall, CanPropose
  <2>3. c.purpose = "collate" => NextOf(c, {"unknown"})
    BY <1>2 DEF CanCall, CanCollate
  <2>4. c.purpose = "answer_revision" => NextOf(c, InFlight)
    BY <1>2 DEF CanCall, CanRevise
  <2>5. c.purpose = "revision_recheck" => NextOf(c, InFlight)
    BY <1>2 DEF CanCall, CanRecheck
  <2>6. c.purpose # "cross_review"
    BY <1>2 DEF CanCall
  <2>7. c.purpose = "split" => seat[c] = "absent"
    BY <1>2 DEF CanCall
  <2>8. QED
    BY <2>1, <2>2, <2>3, <2>4, <2>5, <2>6, <2>7, SeatKinds DEF NextOf
<1>4. /\ Starts(c, seat, workers) /\ seat' \in SeatTables
      /\ judged' \subseteq judged /\ missed' \subseteq Call \X Ending
  <2>1. workers \in SUBSET Call /\ {} \in SUBSET (Call \X Ending)
    BY <1>1 DEF TypeOK
  <2>2. QED
    BY <1>1, <1>2, <2>1, SelfSkip, LaunchStarts
<1>5. ~Busy /\ SlotFree(workers) /\ OpenRuns = {}
  BY <1>2 DEF UpperGate
<1>6. Begins /\ used' \in Nat
  BY <1>1, <1>2, <1>3, <1>4, <1>5, UpperBegins
<1>7. \A d \in Seat : SeatMove(d)
  BY <1>1, <1>3, <1>4, SelfSkip, TableMoves
<1>8. /\ begun' \subseteq begun \union {c} /\ alive' \subseteq alive \union {c} /\ workers' \subseteq workers \union {c}
      /\ workers' \in SUBSET Call /\ workers \subseteq workers' /\ alive' \subseteq Call /\ begun' \subseteq Call
  BY <1>1, <1>4 DEF Starts, TypeOK, Call
<1>9. Moves
  BY <1>2, <1>7, <1>8, OthersQuiet DEF Moves, drafting
<1>10. TypeOK'
  BY <1>1, <1>2, <1>4, <1>6, <1>8 DEF TypeOK, SeatTables, drafting
<1>11. QED
  BY <1>6, <1>9, <1>10 DEF Flow

LEMMA AdvanceFlows ==
  ASSUME TypeOK, TellInv, EveryCallPaid, NEW s \in SeatTables, Asks(s), NEW start, NEW at,
         NEW ws \in SUBSET workers, AdvanceReviews(start, s, at, ws)
  PROVE  /\ \A d \in Seat : SeatMove(d)
         /\ Begins
         /\ used' \in Nat /\ seat' \in SeatTables /\ judged' \in SUBSET Run /\ missed' \subseteq Call \X Ending
         /\ ws \subseteq workers'
         /\ \E C \in SUBSET Seat : begun' \subseteq begun \union C /\ alive' \subseteq alive \union C /\ workers' \subseteq ws \union C
<1>1. ws \in SUBSET Call /\ used \in Nat /\ CallCap \in Nat /\ judged \subseteq Run
  BY UpperCallsAssumption DEF TypeOK
<1>2. /\ \/ \E R \in SUBSET Idle(s) : OnlyCloses(R, s, ws)
         \/ /\ ReviewGate(ws)
            /\ \E R \in SUBSET Idle(s), c \in Reviews : s[c] = "queued" /\ Starts(c, Skip(R, s), ws)
      /\ seat' \in SeatTables /\ judged' \subseteq judged /\ missed' \subseteq Call \X Ending
  BY <1>1, AdvanceShape
<1>3. ASSUME NEW R, OnlyCloses(R, s, ws)
      PROVE  /\ \A d \in Seat : SeatMove(d)
             /\ Begins
             /\ used' \in Nat /\ ws \subseteq workers'
             /\ \E C \in SUBSET Seat : begun' \subseteq begun \union C /\ alive' \subseteq alive \union C /\ workers' \subseteq ws \union C
  <2>1. \A d \in Seat : SeatMove(d)
    BY <1>3, TableMoves
  <2>2. used' = used /\ alive' = alive /\ begun' = begun /\ workers' = ws
    BY <1>3 DEF OnlyCloses
  <2>3. Begins
    BY <1>1, <2>2, NobodyBegins DEF EveryCallPaid
  <2>4. QED
    BY <1>1, <2>1, <2>2, <2>3
<1>4. ASSUME NEW R, NEW c \in Reviews, s[c] = "queued", Starts(c, Skip(R, s), ws), ReviewGate(ws)
      PROVE  /\ \A d \in Seat : SeatMove(d)
             /\ Begins
             /\ used' \in Nat /\ ws \subseteq workers'
             /\ \E C \in SUBSET Seat : begun' \subseteq begun \union C /\ alive' \subseteq alive \union C /\ workers' \subseteq ws \union C
  <2>1. c \in Seat
    BY Kinds
  <2>2. seat[c] \in {"absent", "queued"}
    BY <1>4, <2>1 DEF Asks
  <2>3. \A d \in Seat : SeatMove(d)
    BY <1>4, <2>1, <2>2, TableMoves
  <2>4. Begins /\ used' \in Nat
    BY <1>4, <2>1, <2>2, UpperBegins DEF ReviewGate
  <2>5. /\ begun' \subseteq begun \union {c} /\ alive' \subseteq alive \union {c}
        /\ workers' \subseteq ws \union {c} /\ ws \subseteq workers'
    BY <1>4 DEF Starts
  <2>6. QED
    BY <2>1, <2>3, <2>4, <2>5
<1>5. QED
  BY <1>1, <1>2, <1>3, <1>4

LEMMA CrossReviewFlows ==
  ASSUME FlowInv, NEW r \in Run, CrossReview(r)
  PROVE  Flow
<1>1. TypeOK /\ TellInv /\ EveryCallPaid
  BY DEF FlowInv
<1> DEFINE reviewers == {c \in Round(r) : c.of \in AcceptedCli(r)}
           s == [c \in Seat |-> IF c \in reviewers THEN "queued" ELSE seat[c]]
           at == [roundAt EXCEPT ![r] = 1 + Cardinality({q \in Run : roundAt[q] # 0})]
<1>2. /\ \A c \in Round(r) : seat[c] = "absent"
      /\ roundAt' = at
      /\ AdvanceReviews(TRUE, s, at, workers)
      /\ UNCHANGED <<drafting, syn, bound, mode, paused, settled, prepared, owed>>
  BY DEF CrossReview
<1>3. s \in SeatTables /\ Asks(s)
  <2>1. \A c \in reviewers : c \in Reviews /\ seat[c] = "absent"
    BY <1>2 DEF Round
  <2>2. \A c \in Seat : seat[c] \in SeatState
    BY <1>1 DEF TypeOK
  <2> HIDE DEF reviewers
  <2>3. QED
    BY <2>1, <2>2 DEF SeatTables, SeatState, Asks
<1>4. roundAt' \in [Run -> Nat]
  <2>1. Cardinality({q \in Run : roundAt[q] # 0}) \in Nat
    BY RosterAssumption, FS_Subset, FS_CardinalityType
  <2>2. QED
    BY <1>1, <1>2, <2>1 DEF TypeOK
<1> HIDE DEF s, at
<1>5. /\ \A d \in Seat : SeatMove(d)
      /\ Begins
      /\ used' \in Nat /\ seat' \in SeatTables /\ judged' \in SUBSET Run /\ missed' \subseteq Call \X Ending
      /\ workers \subseteq workers'
  BY <1>1, <1>2, <1>3, AdvanceFlows
<1>6. PICK C \in SUBSET Seat : begun' \subseteq begun \union C /\ alive' \subseteq alive \union C /\ workers' \subseteq workers \union C
  BY <1>1, <1>2, <1>3, AdvanceFlows
<1>7. Moves
  BY <1>2, <1>5, <1>6, OthersQuiet DEF Moves, drafting
<1>8. begun' \subseteq Call /\ alive' \subseteq Call /\ workers' \subseteq Call /\ settled' \subseteq workers'
  BY <1>1, <1>2, <1>5, <1>6 DEF TypeOK, Call
<1>9. TypeOK'
  BY <1>1, <1>2, <1>4, <1>5, <1>8 DEF TypeOK, SeatTables, drafting
<1>10. QED
  BY <1>5, <1>7, <1>9 DEF Flow

-----------------------------------------------------------------------------
(* pump().                                                                   *)

\* Whom pump() calls is in the queue, within the slots and within the budget.
LEMMA ServeQueueShape ==
  ASSUME TypeOK, TellInv, EveryCallPaid, NEW ws \in SUBSET workers, ServeQueue(ws)
  PROVE  \E S, refused \in SUBSET Queue :
           /\ IsFiniteSet(S) /\ refused \intersect S = {}
           /\ used' = used + Cardinality(S) /\ used' \in Nat /\ used' <= CallCap
           /\ S # {} => Cardinality(CallsIn(InFlight, ws)) + Cardinality(S) <= MaxParallel
           /\ refused # {} => used' = CallCap
           /\ state' = [p \in Part |-> IF p \in S THEN "running" ELSE IF p \in refused THEN "rejected" ELSE state[p]]
           /\ phase' = [r \in Run |-> IF \E p \in refused : RunOf[p] = r
                                      THEN PhaseAfter(r, state', phase, cancelled, approved) ELSE phase[r]]
           /\ workers' = ws \union {DraftOf(p) : p \in S}
           /\ alive' = alive \union {DraftOf(p) : p \in S}
           /\ begun' = begun \union {DraftOf(p) : p \in S}
<1> DEFINE free == MaxParallel - Cardinality(CallsIn(InFlight, ws))
           calls == CallCap - used
           least(a, b) == IF a < b THEN a ELSE b
           reach == least(free, Cardinality(Queue))
<1>1. PICK S \in SUBSET Queue :
        /\ Cardinality(S) = IF reach > 0 THEN least(calls, reach) ELSE 0
        /\ LET refused == IF calls < reach THEN Queue \ S ELSE {}
               started == {DraftOf(p) : p \in S} IN
           /\ state' = [p \in Part |-> IF p \in S THEN "running"
                                       ELSE IF p \in refused THEN "rejected" ELSE state[p]]
           /\ phase' = [r \in Run |-> IF \E p \in refused : RunOf[p] = r
                                      THEN PhaseAfter(r, state', phase, cancelled, approved) ELSE phase[r]]
           /\ used' = used + Cardinality(S)
           /\ workers' = ws \union started
           /\ alive' = alive \union started
           /\ begun' = begun \union started
  BY DEF ServeQueue
<1> DEFINE refused == IF calls < reach THEN Queue \ S ELSE {}
<1>2. IsFiniteSet(Queue) /\ IsFiniteSet(S) /\ Cardinality(S) \in Nat /\ Cardinality(Queue) \in Nat
  BY RosterAssumption, FS_Subset, FS_CardinalityType DEF Queue
<1>3. Cardinality(CallsIn(InFlight, ws)) \in Nat
  BY SlotsAreFinite, FS_CardinalityType
<1>4. MaxParallel \in Nat /\ CallCap \in Nat /\ used \in Nat /\ used <= CallCap
  BY UpperCallsAssumption DEF TypeOK, EveryCallPaid
<1>5. /\ Cardinality(S) <= calls
      /\ Cardinality(S) > 0 => Cardinality(S) <= free
      /\ calls < reach => Cardinality(S) = calls
  BY <1>1, <1>2, <1>3, <1>4
<1>6. S # {} => Cardinality(S) > 0
  BY <1>2, FS_EmptySet
<1>7. /\ used' = used + Cardinality(S) /\ used' \in Nat /\ used' <= CallCap
      /\ S # {} => Cardinality(CallsIn(InFlight, ws)) + Cardinality(S) <= MaxParallel
      /\ calls < reach => used' = CallCap
  BY <1>1, <1>2, <1>3, <1>4, <1>5, <1>6
<1>8. refused \in SUBSET Queue /\ refused \intersect S = {} /\ (refused # {} => calls < reach)
  OBVIOUS
<1>9. /\ state' = [p \in Part |-> IF p \in S THEN "running" ELSE IF p \in refused THEN "rejected" ELSE state[p]]
      /\ phase' = [r \in Run |-> IF \E p \in refused : RunOf[p] = r
                                 THEN PhaseAfter(r, state', phase, cancelled, approved) ELSE phase[r]]
      /\ workers' = ws \union {DraftOf(p) : p \in S}
      /\ alive' = alive \union {DraftOf(p) : p \in S}
      /\ begun' = begun \union {DraftOf(p) : p \in S}
  BY <1>1
<1> HIDE DEF refused, calls, reach, free
<1>10. QED
  BY <1>2, <1>7, <1>8, <1>9

LEMMA QueueFlows ==
  ASSUME TypeOK, TellInv, EveryCallPaid, NEW ws \in SUBSET workers, ServeQueue(ws),
         NEW R \in SUBSET Run, CloseRounds(R, seat), syn' = syn,
         ws \ settled' \subseteq workers \ settled
  PROVE  /\ Moves /\ Begins
         /\ used' \in Nat /\ seat' \in SeatTables /\ judged' \in SUBSET Run /\ missed' \subseteq Call \X Ending
         /\ phase' \in [Run -> {"absent", "drafting", "revealed", "collected"}]
         /\ state' \in [Part -> PartState]
         /\ ws \subseteq workers' /\ workers' \subseteq Call /\ alive' \subseteq Call /\ begun' \subseteq Call
<1>1. PICK S \in SUBSET Queue, refused \in SUBSET Queue :
           /\ IsFiniteSet(S)
           /\ used' = used + Cardinality(S) /\ used' \in Nat /\ used' <= CallCap
           /\ S # {} => Cardinality(CallsIn(InFlight, ws)) + Cardinality(S) <= MaxParallel
           /\ state' = [p \in Part |-> IF p \in S THEN "running" ELSE IF p \in refused THEN "rejected" ELSE state[p]]
           /\ phase' = [r \in Run |-> IF \E p \in refused : RunOf[p] = r
                                      THEN PhaseAfter(r, state', phase, cancelled, approved) ELSE phase[r]]
           /\ workers' = ws \union {DraftOf(p) : p \in S}
           /\ alive' = alive \union {DraftOf(p) : p \in S}
           /\ begun' = begun \union {DraftOf(p) : p \in S}
  BY ServeQueueShape
<1> DEFINE started == {DraftOf(p) : p \in S}
<1>2. \A p \in Queue : p \in Part /\ state[p] = "queued" /\ DraftOf(p) \notin begun
  BY DEF Queue, TellInv, StateTells
<1>3. /\ started \subseteq Draft /\ started \intersect Seat = {} /\ started \intersect Synthesis = {}
      /\ \A p \in Part : DraftOf(p) \in started <=> p \in S
  BY <1>2, Kinds, KindsApart
<1>4. Fresh = started
  BY <1>1, <1>2 DEF Fresh
<1>5. IsFiniteSet(started) /\ Cardinality(started) <= Cardinality(S) /\ Cardinality(started) \in Nat /\ Cardinality(S) \in Nat
  <2> DEFINE draft == [p \in S |-> DraftOf(p)]
  <2>1. started = {draft[p] : p \in S} /\ draft \in Surjection(S, started)
    BY DEF Surjection
  <2>2. IsFiniteSet(started) /\ Cardinality(started) <= Cardinality(S)
    BY <1>1, <2>1, FS_Surjection
  <2>3. QED
    BY <1>1, <2>2, FS_CardinalityType
<1>6. /\ seat' = Skip(R, seat) /\ seat' \in SeatTables /\ judged' \in SUBSET Run /\ missed' \subseteq Call \X Ending
  BY SelfSkip, SkipType, NewsType DEF CloseRounds, TypeOK
<1>7. /\ begun' = begun \union started /\ alive' = alive \union started /\ workers' = ws \union started
  BY <1>1
<1> HIDE DEF started
<1>8. \A c : c \notin started => Quiet(c) /\ (c \in workers' \ settled' => c \in workers \ settled)
  BY <1>7 DEF Quiet
<1>9. \A d \in Seat : SeatMove(d)
  BY <1>3, <1>6, <1>8, SelfSkip, SkipMoves DEF SeatMove
<1>10. \A c \in Synthesis : SynMove(c)
  BY <1>3, <1>8 DEF SynMove
<1>11. \A p \in Part : DraftMove(p)
  <2> SUFFICES ASSUME NEW p \in Part PROVE DraftMove(p)
    OBVIOUS
  <2>1. CASE p \in S
    BY <1>1, <1>2, <1>3, <1>7, <2>1 DEF DraftMove
  <2>2. CASE p \notin S
    <3>1. Quiet(DraftOf(p))
      BY <1>3, <1>8, <2>2
    <3>2. CASE p \in refused
      BY <1>1, <1>2, <2>2, <3>1, <3>2 DEF DraftMove, Done
    <3>3. CASE p \notin refused
      BY <1>1, <2>2, <3>1, <3>3 DEF DraftMove
    <3>4. QED
      BY <3>2, <3>3
  <2>3. QED
    BY <2>1, <2>2
<1>12. /\ phase' \in [Run -> {"absent", "drafting", "revealed", "collected"}]
       /\ \A r \in Run : RunMove(r)
  <2> DEFINE decided == {r \in Run : \E p \in refused : RunOf[p] = r}
  <2>1. phase' = [r \in Run |-> IF r \in decided THEN PhaseAfter(r, state', phase, cancelled, approved) ELSE phase[r]]
    BY <1>1
  <2>2. decided \in SUBSET Run
    OBVIOUS
  <2> HIDE DEF decided
  <2>3. /\ phase' \in [Run -> {"absent", "drafting", "revealed", "collected"}]
        /\ \A r \in Run : phase'[r] # phase[r] =>
             phase[r] = "drafting" /\ Settled(r, state') /\ phase'[r] \in {"revealed", "collected"}
    BY <2>1, <2>2, PhasesMove
  <2>4. QED
    BY <2>3 DEF RunMove
<1>13. state' \in [Part -> PartState]
  BY <1>1 DEF TypeOK, PartState
<1>14. Begins
  <2>1. \A c \in Seat \intersect Fresh : FALSE
    BY <1>3, <1>4
  <2>2. Fresh # {} => S # {}
    BY <1>4 DEF started
  <2>3. MaxParallel \in Nat /\ used \in Nat /\ Cardinality(CallsIn(InFlight, ws)) \in Nat
    BY UpperCallsAssumption, SlotsAreFinite, FS_CardinalityType DEF TypeOK
  <2>4. Fresh # {} => Cardinality(CallsIn(InFlight, ws)) + Cardinality(Fresh) <= MaxParallel
    BY <1>1, <1>4, <1>5, <2>2, <2>3
  <2>5. used + Cardinality(Fresh) <= used' /\ used' <= CallCap
    BY <1>1, <1>4, <1>5, <2>3
  <2>6. QED
    BY <1>4, <1>5, <1>7, <2>1, <2>4, <2>5 DEF Begins
<1>15. QED
  BY <1>1, <1>3, <1>6, <1>7, <1>9, <1>10, <1>11, <1>12, <1>13, <1>14 DEF Moves, TypeOK, Call

LEMMA PumpFlows ==
  ASSUME FlowInv, NEW ws \in SUBSET workers, PumpBody(ws), UNCHANGED <<mode, paused, prepared>>, owed' \in Nat,
         settled' \subseteq ws, ws \ settled' \subseteq workers \ settled
  PROVE  Flow
<1>1. TypeOK /\ TellInv /\ EveryCallPaid
  BY DEF FlowInv
<1>2. CASE workers' = ws /\ UNCHANGED <<ledger, history>>
  <2>1. UNCHANGED <<drafting, asking, used, judged>> /\ UNCHANGED <<alive, begun, missed>>
    BY <1>2 DEF ledger, history
  <2>2. Begins
    BY <1>1, <1>2, <2>1, NobodyBegins DEF TypeOK, EveryCallPaid
  <2>3. Moves
    BY <1>2, <2>1, QuietTables DEF Moves, drafting, asking
  <2>4. TypeOK'
    BY <1>1, <1>2, <2>1 DEF TypeOK, drafting, asking
  <2>5. QED
    BY <2>2, <2>3, <2>4 DEF Flow
<1>3. ASSUME NEW start, AdvanceReviews(start, seat, roundAt, ws), UNCHANGED <<drafting, syn, roundAt, bound>>
      PROVE  Flow
  <2>1. /\ \A d \in Seat : SeatMove(d)
        /\ Begins
        /\ used' \in Nat /\ seat' \in SeatTables /\ judged' \in SUBSET Run /\ missed' \subseteq Call \X Ending
        /\ ws \subseteq workers'
    BY <1>1, <1>3, SelfSkip, AdvanceFlows
  <2>2. PICK C \in SUBSET Seat : begun' \subseteq begun \union C /\ alive' \subseteq alive \union C /\ workers' \subseteq ws \union C
    BY <1>1, <1>3, SelfSkip, AdvanceFlows
  <2>3. workers' \ settled' \subseteq (workers \ settled) \union C
    BY <2>2
  <2>4. Moves
    BY <1>3, <2>1, <2>2, <2>3, OthersQuiet DEF Moves, drafting
  <2>5. begun' \subseteq Call /\ alive' \subseteq Call /\ workers' \subseteq Call /\ settled' \subseteq workers'
    BY <1>1, <2>1, <2>2 DEF TypeOK, Call
  <2>6. TypeOK'
    BY <1>1, <1>3, <2>1, <2>5 DEF TypeOK, SeatTables, drafting
  <2>7. QED
    BY <2>1, <2>4, <2>6 DEF Flow
<1>4. CASE /\ CloseRounds({r \in Idle(seat) : Broken(r, seat)}, seat)
           /\ ServeQueue(ws)
           /\ UNCHANGED <<cancelled, approved, syn, roundAt, bound>>
  <2> DEFINE R == {r \in Idle(seat) : Broken(r, seat)}
  <2>1. R \in SUBSET Run
    BY DEF Idle
  <2> HIDE DEF R
  <2>2. /\ Moves /\ Begins
        /\ used' \in Nat /\ seat' \in SeatTables /\ judged' \in SUBSET Run /\ missed' \subseteq Call \X Ending
        /\ phase' \in [Run -> {"absent", "drafting", "revealed", "collected"}]
        /\ state' \in [Part -> PartState]
        /\ ws \subseteq workers' /\ workers' \subseteq Call /\ alive' \subseteq Call /\ begun' \subseteq Call
    <3>1. CloseRounds(R, seat) /\ syn' = syn /\ ServeQueue(ws)
      BY <1>4 DEF R
    <3>2. QED
      BY <1>1, <2>1, <3>1, QueueFlows
  <2>3. settled' \subseteq workers'
    BY <2>2
  <2>4. TypeOK'
    BY <1>1, <1>4, <2>2, <2>3 DEF TypeOK, SeatTables
  <2>5. QED
    BY <2>2, <2>4 DEF Flow
<1>5. QED
  BY <1>2, <1>3, <1>4 DEF PumpBody

LEMMA PumpStepFlows ==
  ASSUME FlowInv, PumpStep
  PROVE  Flow
<1>1. CASE Pump
  <2>1. workers \in SUBSET workers /\ owed' \in Nat /\ settled' \subseteq workers /\ workers \ settled' \subseteq workers \ settled
    BY <1>1 DEF Pump, FlowInv, TypeOK
  <2>2. QED
    BY <1>1, <2>1, PumpFlows DEF Pump
<1>2. ASSUME NEW c \in Call, Exit(c)
      PROVE  Flow
  <2>1. /\ workers \ {c} \in SUBSET workers /\ owed' \in Nat /\ settled' \subseteq workers \ {c}
        /\ (workers \ {c}) \ settled' \subseteq workers \ settled
    BY <1>2 DEF Exit, FlowInv, TypeOK
  <2>2. QED
    BY <1>2, <2>1, PumpFlows DEF Exit
<1>3. QED
  BY <1>1, <1>2 DEF PumpStep

-----------------------------------------------------------------------------
(* A call of a seat ends.                                                    *)

LEMMA SeatEndsFlows ==
  ASSUME FlowInv, NEW c \in Seat, SeatEnds(c)
  PROVE  Flow
<1>1. TypeOK /\ TellInv /\ EveryCallPaid
  BY DEF FlowInv
<1>2. PICK s \in {"accepted", "rejected", "unknown"} :
        /\ seat' = [seat EXCEPT ![c] = s]
        /\ alive' = IF s = "unknown" THEN alive ELSE alive \ {c}
        /\ \/ News({<<c, CASE s = "accepted" -> "completed" [] s = "rejected" -> "failed" [] OTHER -> s>>})
           \/ StoreFaults /\ s # "accepted" /\ News({<<c, "result_not_stored">>})
  BY DEF SeatEnds
<1>3. /\ c \in workers \ settled /\ seat[c] = "running" /\ settled' = settled \union {c}
      /\ UNCHANGED <<drafting, syn, roundAt, bound, used, mode, paused, workers, prepared, owed, begun>>
  BY DEF SeatEnds
<1>4. judged' \in SUBSET Run /\ missed' \subseteq Call \X Ending
  <2>1. (CASE s = "accepted" -> "completed" [] s = "rejected" -> "failed" [] OTHER -> s) \in Ending
    BY DEF Ending
  <2>2. \A e \in Ending : {<<c, e>>} \in SUBSET (Call \X Ending)
    BY DEF Call
  <2>3. "result_not_stored" \in Ending
    BY DEF Ending
  <2>4. PICK e \in Ending : News({<<c, e>>})
    BY <1>2, <2>1, <2>3
  <2>5. QED
    BY <1>1, <2>2, <2>4, NewsType DEF TypeOK
<1>5. alive' \subseteq alive
  BY <1>2
<1>6. Begins
  BY <1>1, <1>3, <1>5, NobodyBegins DEF TypeOK, EveryCallPaid
<1>7. ASSUME NEW d \in Seat PROVE SeatMove(d)
  BY <1>1, <1>2, <1>3, <1>5 DEF SeatMove, Quiet, TypeOK, InFlight, Done
<1>8. Moves
  BY <1>3, <1>5, <1>7, QuietTables DEF Moves, drafting
<1>9. seat' \in [Seat -> SeatState]
  BY <1>1, <1>2 DEF TypeOK, SeatState
<1>10. TypeOK'
  BY <1>1, <1>3, <1>4, <1>5, <1>9 DEF TypeOK, drafting
<1>11. QED
  BY <1>6, <1>8, <1>10 DEF Flow

LEMMA SeatLostFlows ==
  ASSUME FlowInv, NEW c \in Seat, SeatLost(c)
  PROVE  Flow
<1>1. TypeOK /\ TellInv /\ EveryCallPaid
  BY DEF FlowInv
<1>2. /\ alive' \subseteq alive /\ settled' = settled \union {c} /\ c \in workers
      /\ UNCHANGED <<drafting, asking, used, judged>>
      /\ UNCHANGED <<mode, paused, workers, prepared, owed, begun, missed>>
  BY DEF SeatLost, ledger
<1>3. Begins
  BY <1>1, <1>2, NobodyBegins DEF TypeOK, EveryCallPaid
<1>4. Moves
  BY <1>2, QuietTables DEF Moves, drafting, asking
<1>5. TypeOK'
  BY <1>1, <1>2 DEF TypeOK, drafting, asking
<1>6. QED
  BY <1>3, <1>4, <1>5 DEF Flow

LEMMA AcknowledgeSeatFlows ==
  ASSUME FlowInv, NEW c \in Seat, AcknowledgeSeat(c)
  PROVE  Flow
<1>1. TypeOK /\ TellInv /\ EveryCallPaid
  BY DEF FlowInv
<1>2. /\ seat[c] = "unknown" /\ seat' = [seat EXCEPT ![c] = "rejected"] /\ alive' = alive \ {c} /\ owed' = owed + 1
      /\ UNCHANGED <<drafting, syn, roundAt, bound, used, judged, mode, paused, workers, settled, prepared, begun, missed>>
  BY DEF AcknowledgeSeat, Command
<1>3. Begins
  BY <1>1, <1>2, NobodyBegins DEF TypeOK, EveryCallPaid
<1>4. ASSUME NEW d \in Seat PROVE SeatMove(d)
  BY <1>1, <1>2 DEF SeatMove, Quiet, TypeOK, InFlight, Done
<1>5. Moves
  BY <1>2, <1>4, QuietTables DEF Moves, drafting
<1>6. TypeOK'
  BY <1>1, <1>2 DEF TypeOK, SeatState, drafting
<1>7. QED
  BY <1>3, <1>5, <1>6 DEF Flow

-----------------------------------------------------------------------------
(* Synthesis.                                                                *)

LEMMA StartSynthesisFlows ==
  ASSUME FlowInv, NEW c \in Synthesis, StartSynthesis(c)
  PROVE  Flow
<1>1. TypeOK /\ TellInv /\ EveryCallPaid /\ c \in Call
  BY DEF FlowInv, Call
<1>2. /\ c.i > 0 /\ syn[c] = "absent" /\ SlotFree(workers) /\ Affordable /\ used' = used + 1
      /\ SynthesisOf(c.of) \intersect workers = {}
      /\ UNCHANGED <<drafting, seat, roundAt, bound, mode, paused, settled, prepared, owed>>
  BY DEF StartSynthesis
<1>3. c \in SynthesisOf(c.of) /\ c \notin workers /\ c \notin begun /\ c.i \in Nat
  BY <1>1, <1>2, UpperCallsAssumption DEF SynthesisOf, TellInv, SynTells, Synthesis, Id
<1>4. used \in Nat /\ used' \in Nat /\ used' <= CallCap /\ MaxParallel \in Nat
  BY <1>1, <1>2, UpperCallsAssumption DEF TypeOK, Affordable
<1>5. CASE syn' = [syn EXCEPT ![c] = "open"] /\ workers' = workers \union {c} /\ alive' = alive \union {c}
             /\ begun' = begun \union {c} /\ NoNews
  <2>1. \A d : d # c => Quiet(d) /\ (d \in workers' \ settled' => d \in workers \ settled)
    BY <1>2, <1>5 DEF Quiet
  <2>2. \A d \in Synthesis : SynMove(d)
    <3>1. SynMove(c)
      BY <1>1, <1>2, <1>5 DEF SynMove, TypeOK
    <3>2. \A d \in Synthesis : d # c => SynMove(d)
      BY <1>1, <1>5, <2>1 DEF SynMove, TypeOK
    <3>3. QED
      BY <3>1, <3>2
  <2>3. \A d \in Seat : SeatMove(d)
    BY <1>2, <2>1, KindsApart DEF SeatMove
  <2>4. \A p \in Part : DraftMove(p)
    BY <1>2, <2>1, KindsApart, Kinds DEF DraftMove, drafting
  <2>5. Moves
    BY <1>2, <2>2, <2>3, <2>4 DEF Moves, RunMove, drafting
  <2>6. Fresh = {c}
    BY <1>3, <1>5 DEF Fresh
  <2>7. IsFiniteSet({c}) /\ Cardinality({c}) = 1
    BY FS_Singleton
  <2>8. Cardinality(CallsIn(InFlight, workers)) \in Nat
    BY <1>1, SlotsAreFinite, FS_CardinalityType
  <2>9. Cardinality(CallsIn(InFlight, workers)) + 1 <= MaxParallel
    BY <1>2, <1>4, <2>8 DEF SlotFree
  <2>10. c \notin Seat
    BY KindsApart
  <2>11. Begins
    BY <1>2, <1>4, <1>5, <2>6, <2>7, <2>9, <2>10 DEF Begins
  <2>12. TypeOK'
    BY <1>1, <1>2, <1>4, <1>5 DEF TypeOK, NoNews, drafting
  <2>13. QED
    BY <2>5, <2>11, <2>12 DEF Flow
<1>6. CASE syn' = [syn EXCEPT ![c] = "failed"] /\ News({<<c, "failed">>}) /\ UNCHANGED <<workers, alive, begun>>
  <2>1. judged' \in SUBSET Run /\ missed' \subseteq Call \X Ending
    <3>1. {<<c, "failed">>} \in SUBSET (Call \X Ending)
      BY <1>1 DEF Ending
    <3>2. QED
      BY <1>1, <1>6, <3>1, NewsType DEF TypeOK
  <2>2. Begins
    BY <1>1, <1>4, <1>2, <1>6, NobodyBegins
  <2>3. \A d \in Synthesis : SynMove(d)
    BY <1>1, <1>2, <1>3, <1>6 DEF SynMove, TypeOK, Quiet
  <2>4. Moves
    BY <1>2, <1>6, <2>3, QuietTables DEF Moves, drafting
  <2>5. TypeOK'
    BY <1>1, <1>2, <1>4, <1>6, <2>1 DEF TypeOK, drafting
  <2>6. QED
    BY <2>2, <2>4, <2>5 DEF Flow
<1>7. QED
  BY <1>5, <1>6 DEF StartSynthesis

LEMMA SynthesisEndsFlows ==
  ASSUME FlowInv, NEW c \in Synthesis, SynthesisEnds(c)
  PROVE  Flow
<1>1. TypeOK /\ TellInv /\ EveryCallPaid /\ c \in Call
  BY DEF FlowInv, Call
<1>2. /\ c \in workers \ settled /\ settled' = settled \union {c}
      /\ UNCHANGED <<drafting, seat, roundAt, bound, used, mode, paused, workers, prepared, owed, begun>>
  BY DEF SynthesisEnds
<1>3. syn[c] = "open"
  BY <1>1, <1>2 DEF TellInv, SynTells
<1>4. PICK e \in Ending :
        /\ News({<<c, e>>})
        /\ \/ \E s \in {"completed", "failed"} : syn' = [syn EXCEPT ![c] = s] /\ alive' = alive \ {c}
           \/ syn' = [syn EXCEPT ![c] = "unconfirmed"] /\ alive' = alive
           \/ syn' = syn /\ alive' \subseteq alive
  BY DEF SynthesisEnds, Ending
<1>5. judged' \in SUBSET Run /\ missed' \subseteq Call \X Ending
  <2>1. {<<c, e>>} \in SUBSET (Call \X Ending)
    BY <1>1
  <2>2. QED
    BY <1>1, <1>4, <2>1, NewsType DEF TypeOK
<1>6. alive' \subseteq alive
  BY <1>4
<1>7. Begins
  BY <1>1, <1>2, <1>6, NobodyBegins DEF TypeOK, EveryCallPaid
<1>8. \A d \in Synthesis : SynMove(d)
  <2>1. SynMove(c)
    BY <1>1, <1>2, <1>3, <1>4, <1>6 DEF SynMove, Quiet, TypeOK
  <2>2. ASSUME NEW d \in Synthesis, d # c PROVE SynMove(d)
    BY <1>1, <1>2, <1>4, <1>6, <2>2 DEF SynMove, Quiet, TypeOK
  <2>3. QED
    BY <2>1, <2>2
<1>9. Moves
  BY <1>2, <1>6, <1>8, QuietTables DEF Moves, drafting
<1>10. syn' \in [Synthesis -> {"absent", "open", "unconfirmed", "completed", "failed", "acknowledged"}]
  BY <1>1, <1>4 DEF TypeOK
<1>11. TypeOK'
  BY <1>1, <1>2, <1>5, <1>6, <1>10 DEF TypeOK, drafting
<1>12. QED
  BY <1>7, <1>9, <1>11 DEF Flow

LEMMA AcknowledgeSynthesisFlows ==
  ASSUME FlowInv, NEW c \in Synthesis, AcknowledgeSynthesis(c)
  PROVE  Flow
<1>1. TypeOK /\ TellInv /\ EveryCallPaid
  BY DEF FlowInv
<1>2. /\ SynStatus(c, workers) = "unknown" /\ syn' = [syn EXCEPT ![c] = "acknowledged"] /\ alive' = alive \ {c}
      /\ owed' = owed + 1
      /\ UNCHANGED <<drafting, seat, roundAt, bound, used, judged, mode, paused, workers, settled, prepared, begun, missed>>
  BY DEF AcknowledgeSynthesis, Command
<1>3. c \notin workers /\ syn[c] \in {"open", "unconfirmed"}
  BY <1>1, <1>2 DEF SynStatus, TypeOK
<1>4. Begins
  BY <1>1, <1>2, NobodyBegins DEF TypeOK, EveryCallPaid
<1>5. \A d \in Synthesis : SynMove(d)
  BY <1>1, <1>2, <1>3 DEF SynMove, Quiet, TypeOK
<1>6. Moves
  BY <1>2, <1>5, QuietTables DEF Moves, drafting
<1>7. TypeOK'
  BY <1>1, <1>2 DEF TypeOK, drafting
<1>8. QED
  BY <1>4, <1>6, <1>7 DEF Flow

LEMMA MockSynthesisFlows ==
  ASSUME FlowInv, NEW r \in Run, MockSynthesis(r)
  PROVE  Flow
<1> DEFINE c == Id("synthesis", r, 0, 0)
<1>1. TypeOK /\ TellInv /\ EveryCallPaid
  BY DEF FlowInv
<1>2. /\ syn' = [syn EXCEPT ![c] = "completed"] /\ News({<<c, "completed">>})
      /\ UNCHANGED <<drafting, seat, roundAt, bound, used>> /\ UNCHANGED runtime /\ UNCHANGED <<alive, begun>>
  BY DEF MockSynthesis
<1>3. c \in Synthesis /\ c.i = 0
  BY UpperCallsAssumption DEF Synthesis, Id
<1> HIDE DEF c
<1>4. UNCHANGED <<mode, paused, workers, settled, prepared, owed>>
  BY <1>2 DEF runtime
<1>5. c \notin workers
  BY <1>1, <1>3 DEF TellInv, SynTells
<1>6. judged' \in SUBSET Run /\ missed' \subseteq Call \X Ending
  <2>1. {<<c, "completed">>} \in SUBSET (Call \X Ending)
    BY <1>3 DEF Call, Ending
  <2>2. QED
    BY <1>1, <1>2, <2>1, NewsType DEF TypeOK
<1>7. Begins
  BY <1>1, <1>2, <1>4, NobodyBegins DEF TypeOK, EveryCallPaid
<1>8. \A d \in Synthesis : SynMove(d)
  BY <1>1, <1>2, <1>3, <1>4, <1>5 DEF SynMove, Quiet, TypeOK
<1>9. Moves
  BY <1>2, <1>4, <1>8, QuietTables DEF Moves, drafting
<1>10. TypeOK'
  BY <1>1, <1>2, <1>4, <1>6 DEF TypeOK, drafting
<1>11. QED
  BY <1>7, <1>9, <1>10 DEF Flow

-----------------------------------------------------------------------------
(* Runs and their participants.                                              *)

LEMMA DecideMoves ==
  ASSUME TypeOK, NEW p \in Part, NEW s \in PartState, Decide(p, s)
  PROVE  /\ state' = [state EXCEPT ![p] = s] /\ state' \in [Part -> PartState]
         /\ phase' \in [Run -> {"absent", "drafting", "revealed", "collected"}]
         /\ \A r \in Run : RunMove(r)
<1>1. /\ state' = [state EXCEPT ![p] = s]
      /\ phase' = [phase EXCEPT ![RunOf[p]] = PhaseAfter(RunOf[p], state', phase, cancelled, approved)]
  BY DEF Decide
<1>2. RunOf[p] \in Run
  BY RosterAssumption
<1>3. /\ phase' \in [Run -> {"absent", "drafting", "revealed", "collected"}]
      /\ \A r \in Run : phase'[r] # phase[r] =>
           phase[r] = "drafting" /\ Settled(r, state') /\ phase'[r] \in {"revealed", "collected"}
  <2> DEFINE d == RunOf[p]
             now == PhaseAfter(d, state', phase, cancelled, approved)
  <2>1. d \in Run /\ (now = phase[d] \/ (phase[d] = "drafting" /\ Settled(d, state') /\ now \in {"revealed", "collected"}))
    BY <1>2, GateOpens
  <2>2. phase' = [phase EXCEPT ![d] = now]
    BY <1>1
  <2> HIDE DEF now, d
  <2>3. QED
    BY <2>1, <2>2 DEF TypeOK
<1>4. QED
  BY <1>1, <1>3 DEF TypeOK, RunMove

LEMMA PrepareFlows ==
  ASSUME FlowInv, NEW q \in Request, PrepareRun(q) \/ RefuseRun(q)
  PROVE  Flow
<1>1. TypeOK /\ TellInv /\ EveryCallPaid
  BY DEF FlowInv
<1>2. /\ prepared' \subseteq Request /\ UNCHANGED <<drafting, asking, used, judged>>
      /\ UNCHANGED <<alive, begun, missed>> /\ UNCHANGED <<mode, paused, workers, settled, owed>>
  BY <1>1 DEF PrepareRun, RefuseRun, ledger, history, TypeOK
<1>3. Begins
  BY <1>1, <1>2, NobodyBegins DEF TypeOK, EveryCallPaid
<1>4. Moves
  BY <1>2, QuietTables DEF Moves, drafting, asking
<1>5. TypeOK'
  BY <1>1, <1>2 DEF TypeOK, drafting, asking
<1>6. QED
  BY <1>3, <1>4, <1>5 DEF Flow

LEMMA CreateRunFlows ==
  ASSUME FlowInv, NEW q \in Request, CreateRun(q)
  PROVE  Flow
<1>1. TypeOK /\ TellInv /\ EveryCallPaid /\ RunInv
  BY DEF FlowInv
<1>2. /\ prepared' = prepared \ {q} /\ owed' = owed + 1 /\ phase[q.run] = "absent"
      /\ phase' = [phase EXCEPT ![q.run] = "drafting"]
      /\ state' = [p \in Part |-> IF RunOf[p] # q.run THEN state[p]
                                  ELSE IF p \in Cli THEN "queued" ELSE "awaiting_user"]
      /\ bound' = bound \union (q.uses \X {q.run})
      /\ UNCHANGED <<cancelled, approved, seat, syn, roundAt, used, judged, mode, paused, workers, settled>>
      /\ UNCHANGED <<alive, begun, missed>>
  BY DEF CreateRun, Command, history
<1>3. q.run \in Run /\ q.uses \subseteq Sources
  BY DEF Request
<1>4. Begins
  BY <1>1, <1>2, NobodyBegins DEF TypeOK, EveryCallPaid
<1>5. \A p \in Part : DraftMove(p)
  BY <1>1, <1>2, <1>3 DEF DraftMove, RunInv, Quiet, TypeOK
<1>6. \A r \in Run : RunMove(r)
  BY <1>1, <1>2, <1>3 DEF RunMove, Members, TypeOK
<1>7. Moves
  BY <1>2, <1>5, <1>6, QuietTables DEF Moves
<1>8. TypeOK'
  <2>1. state' \in [Part -> PartState]
    BY <1>1, <1>2 DEF TypeOK, PartState
  <2>2. phase' \in [Run -> {"absent", "drafting", "revealed", "collected"}] /\ bound' \subseteq Sources \X Run
    BY <1>1, <1>2, <1>3 DEF TypeOK
  <2>3. QED
    BY <1>1, <1>2, <2>1, <2>2 DEF TypeOK
<1>9. QED
  BY <1>4, <1>7, <1>8 DEF Flow

LEMMA DecisionsFlow ==
  ASSUME FlowInv, NEW p \in Part, DraftEnds(p) \/ ManualEnds(p) \/ AcknowledgeUnknown(p)
  PROVE  Flow
<1> DEFINE c == DraftOf(p)
<1>1. TypeOK /\ TellInv /\ EveryCallPaid
  BY DEF FlowInv
<1>2. PICK s \in {"accepted", "rejected", "unknown"} :
        /\ Decide(p, s)
        /\ alive' \subseteq alive
        /\ \/ state[p] = "running" /\ (s = "unknown" \/ alive' = alive \ {c})
           \/ state[p] = "awaiting_user" /\ s \in Done
           \/ state[p] = "unknown" /\ s \in Done /\ alive' = alive \ {c}
        /\ settled' \subseteq workers /\ settled \subseteq settled'
  BY <1>1 DEF DraftEnds, ManualEnds, AcknowledgeUnknown, history, Done, TypeOK
<1>3. /\ UNCHANGED <<cancelled, approved, asking, used, judged, mode, paused, workers, prepared, begun, missed>>
      /\ owed' \in Nat
  BY <1>1 DEF DraftEnds, ManualEnds, AcknowledgeUnknown, Command, history, TypeOK
<1>4. /\ state' = [state EXCEPT ![p] = s] /\ state' \in [Part -> PartState]
      /\ phase' \in [Run -> {"absent", "drafting", "revealed", "collected"}]
      /\ \A r \in Run : RunMove(r)
  BY <1>1, <1>2, DecideMoves DEF PartState
<1>5. Begins
  BY <1>1, <1>2, <1>3, NobodyBegins DEF TypeOK, EveryCallPaid
<1>6. \A d \in Part : DraftMove(d)
  <2>1. \A d : Quiet(d)
    BY <1>2, <1>3 DEF Quiet
  <2>2. DraftMove(p)
    BY <1>1, <1>2, <1>4, <2>1 DEF DraftMove, InFlight, Done, TypeOK
  <2>3. ASSUME NEW d \in Part, d # p PROVE DraftMove(d)
    BY <1>1, <1>4, <2>1, <2>3 DEF DraftMove, TypeOK
  <2>4. QED
    BY <2>2, <2>3
<1>7. Moves
  <2>1. workers' \ settled' \subseteq workers \ settled
    BY <1>2, <1>3
  <2>2. QED
    BY <1>2, <1>3, <1>4, <1>6, <2>1, QuietTables DEF Moves, asking
<1>8. TypeOK'
  BY <1>1, <1>2, <1>3, <1>4 DEF TypeOK, asking
<1>9. QED
  BY <1>5, <1>7, <1>8 DEF Flow

LEMMA ApproveFlows ==
  ASSUME FlowInv, NEW r \in Run, ApproveReduction(r)
  PROVE  Flow
<1>1. TypeOK /\ TellInv /\ EveryCallPaid
  BY DEF FlowInv
<1>2. /\ owed' = owed + 1 /\ approved' = approved \union {r}
      /\ phase' = [phase EXCEPT ![r] = PhaseAfter(r, state, phase, cancelled, approved')]
      /\ UNCHANGED <<cancelled, state, asking, used, judged, mode, paused, workers, settled, prepared>>
      /\ UNCHANGED <<alive, begun, missed>>
  BY DEF ApproveReduction, Command, history
<1>4. /\ phase' \in [Run -> {"absent", "drafting", "revealed", "collected"}]
      /\ \A d \in Run : phase'[d] # phase[d] =>
           phase[d] = "drafting" /\ Settled(d, state) /\ phase'[d] \in {"revealed", "collected"}
  <2> DEFINE now == PhaseAfter(r, state, phase, cancelled, approved')
  <2>1. now = phase[r] \/ (phase[r] = "drafting" /\ Settled(r, state) /\ now \in {"revealed", "collected"})
    BY GateOpens
  <2>2. phase' = [phase EXCEPT ![r] = now]
    BY <1>1, <1>2
  <2> HIDE DEF now
  <2>3. QED
    BY <1>1, <1>2, <2>1, <2>2 DEF TypeOK
<1>5. Begins
  BY <1>1, <1>2, NobodyBegins DEF TypeOK, EveryCallPaid
<1>6. \A d \in Run : RunMove(d)
  BY <1>2, <1>4 DEF RunMove
<1>7. Moves
  BY <1>2, <1>6, QuietTables DEF Moves, asking
<1>8. TypeOK'
  BY <1>1, <1>2, <1>4 DEF TypeOK, asking
<1>9. QED
  BY <1>5, <1>7, <1>8 DEF Flow

LEMMA CancelFlows ==
  ASSUME FlowInv, NEW r \in Run, CancelRun(r)
  PROVE  Flow
<1>1. TypeOK /\ TellInv /\ EveryCallPaid
  BY DEF FlowInv
<1>2. /\ owed' = owed + 1 /\ cancelled' = cancelled \union {r}
      /\ state' = [p \in Part |-> IF RunOf[p] = r /\ state[p] \in {"queued", "awaiting_user"}
                                  THEN "rejected" ELSE state[p]]
      /\ UNCHANGED <<phase, approved, asking, used, judged, mode, paused, workers, settled, prepared>>
      /\ UNCHANGED <<alive, begun, missed>>
  BY DEF CancelRun, Command, history
<1>3. Begins
  BY <1>1, <1>2, NobodyBegins DEF TypeOK, EveryCallPaid
<1>4. \A p \in Part : DraftMove(p)
  BY <1>1, <1>2 DEF DraftMove, Quiet, Done
<1>5. Moves
  BY <1>2, <1>4, QuietTables DEF Moves, asking
<1>6. TypeOK'
  <2>1. state' \in [Part -> PartState]
    BY <1>1, <1>2 DEF TypeOK, PartState
  <2>2. QED
    BY <1>1, <1>2, <2>1 DEF TypeOK, asking
<1>7. QED
  BY <1>3, <1>5, <1>6 DEF Flow

LEMMA JudgeFlows ==
  ASSUME FlowInv, NEW r \in Run, MarkReviewed(r)
  PROVE  Flow
<1>1. TypeOK /\ TellInv /\ EveryCallPaid
  BY DEF FlowInv
<1>2. /\ judged' = judged \union {r} /\ missed' \subseteq missed
      /\ UNCHANGED <<drafting, asking, used, alive, begun>>
      /\ UNCHANGED <<mode, paused, workers, settled, prepared, owed>>
  BY DEF MarkReviewed, runtime
<1>3. Begins
  BY <1>1, <1>2, NobodyBegins DEF TypeOK, EveryCallPaid
<1>4. Moves
  BY <1>2, QuietTables DEF Moves, drafting, asking
<1>5. TypeOK'
  BY <1>1, <1>2 DEF TypeOK, drafting, asking
<1>6. QED
  BY <1>3, <1>4, <1>5 DEF Flow

-----------------------------------------------------------------------------
(* The controller comes and goes.                                            *)

LEMMA ControllerFlows ==
  ASSUME FlowInv, Resume \/ Shutdown \/ Crash \/ UNCHANGED vars
  PROVE  Flow
<1>1. TypeOK /\ TellInv /\ EveryCallPaid
  BY DEF FlowInv
<1>2. /\ UNCHANGED <<drafting, asking, used, judged>> /\ UNCHANGED <<alive, begun, missed>>
      /\ workers' \subseteq workers /\ settled' \subseteq workers' /\ workers' \ settled' \subseteq workers \ settled
      /\ mode' \in {"down", "up", "closing"} /\ paused' \in BOOLEAN /\ prepared' \subseteq Request /\ owed' \in Nat
  <2>1. /\ settled \subseteq workers /\ mode \in {"down", "up", "closing"} /\ paused \in BOOLEAN
        /\ prepared \subseteq Request /\ owed \in Nat
    BY <1>1 DEF TypeOK
  <2>2. CASE Resume
    <3>1. owed' = owed + 1 /\ paused' = FALSE /\ UNCHANGED <<ledger, mode, workers, settled, prepared, history>>
      BY <2>2 DEF Resume, Command
    <3>2. owed' \in Nat
      BY <2>1, <3>1
    <3>3. paused' \in BOOLEAN
      BY <3>1
    <3>4. QED
      BY <2>1, <3>1, <3>2, <3>3 DEF ledger, history
  <2>3. CASE Shutdown
    BY <2>1, <2>3 DEF Shutdown, ledger, history
  <2>4. CASE Crash
    BY <2>1, <2>4 DEF Crash, ledger, history
  <2>5. CASE UNCHANGED vars
    BY <2>1, <2>5 DEF vars, ledger, history, runtime
  <2>6. QED
    BY <2>2, <2>3, <2>4, <2>5
<1>3. Begins
  BY <1>1, <1>2, NobodyBegins DEF TypeOK, EveryCallPaid
<1>4. Moves
  BY <1>2, QuietTables DEF Moves, drafting, asking
<1>5. TypeOK'
  BY <1>1, <1>2 DEF TypeOK, drafting, asking
<1>6. QED
  BY <1>3, <1>4, <1>5 DEF Flow

LEMMA RestartFlows ==
  ASSUME FlowInv, Restart
  PROVE  Flow
<1> DEFINE s == [c \in Seat |-> Recovered(seat[c])]
           lost == {<<c, "unknown">> : c \in {d \in Seat : seat[d] = "running"} \union {d \in Synthesis : syn[d] = "open"}}
           broken == {r \in Idle(s) : Broken(r, s)}
           opened == {r \in Run : phase[r] = "drafting"}
<1>1. TypeOK /\ TellInv /\ EveryCallPaid
  BY DEF FlowInv
<1>2. /\ mode' = "up" /\ paused' \in BOOLEAN
      /\ state' = [p \in Part |-> Recovered(state[p])]
      /\ phase' = [r \in Run |-> IF r \in opened THEN PhaseAfter(r, state', phase, cancelled, approved) ELSE phase[r]]
      /\ seat' = Skip(broken, s)
      /\ News(lost \union Skipped(broken, s))
      /\ UNCHANGED <<cancelled, approved, syn, roundAt, bound, used, workers, settled, prepared, owed, alive, begun>>
  BY DEF Restart
<1>3. s \in SeatTables /\ \A c \in Seat : s[c] = seat[c] \/ (seat[c] = "running" /\ s[c] = "unknown")
  BY <1>1 DEF TypeOK, SeatTables, SeatState, Recovered
<1>4. lost \subseteq Call \X Ending /\ opened \in SUBSET Run
  BY DEF Call, Ending
<1> HIDE DEF s, lost, broken, opened
<1>5. seat' \in SeatTables /\ judged' \in SUBSET Run /\ missed' \subseteq Call \X Ending
  <2>1. seat' \in SeatTables /\ Skipped(broken, s) \subseteq Call \X Ending
    BY <1>2, <1>3, SkipType
  <2>2. lost \union Skipped(broken, s) \in SUBSET (Call \X Ending)
    BY <1>4, <2>1
  <2>3. QED
    BY <1>1, <1>2, <2>1, <2>2, NewsType DEF TypeOK
<1>6. \A c : Quiet(c)
  BY <1>2 DEF Quiet
<1>7. ASSUME NEW c \in Seat PROVE SeatMove(c)
  <2>1. seat'[c] = s[c] \/ (c \in Reviews /\ s[c] = "queued" /\ seat'[c] = "skipped")
    BY <1>2 DEF Skip, Waiting, Round
  <2>2. QED
    BY <1>3, <1>6, <2>1 DEF SeatMove
<1>8. ASSUME NEW p \in Part PROVE DraftMove(p)
  BY <1>2, <1>6 DEF DraftMove, Recovered
<1>9. /\ phase' \in [Run -> {"absent", "drafting", "revealed", "collected"}]
      /\ \A r \in Run : RunMove(r)
  <2>1. /\ phase' \in [Run -> {"absent", "drafting", "revealed", "collected"}]
        /\ \A r \in Run : phase'[r] # phase[r] =>
             phase[r] = "drafting" /\ Settled(r, state') /\ phase'[r] \in {"revealed", "collected"}
    <3> DEFINE now(r) == PhaseAfter(r, state', phase, cancelled, approved)
    <3>1. \A r \in Run : now(r) = phase[r] \/ (phase[r] = "drafting" /\ Settled(r, state') /\ now(r) \in {"revealed", "collected"})
      BY GateOpens
    <3>2. phase' = [r \in Run |-> IF r \in opened THEN now(r) ELSE phase[r]]
      BY <1>2
    <3> HIDE DEF now
    <3>3. QED
      BY <1>1, <3>1, <3>2 DEF TypeOK
  <2>2. QED
    BY <2>1 DEF RunMove
<1>10. Begins
  BY <1>1, <1>2, NobodyBegins DEF TypeOK, EveryCallPaid
<1>11. Moves
  BY <1>2, <1>7, <1>8, <1>9, QuietTables DEF Moves
<1>12. TypeOK'
  <2>1. state' \in [Part -> PartState]
    BY <1>1, <1>2 DEF TypeOK, PartState, Recovered
  <2>2. QED
    BY <1>1, <1>2, <1>5, <1>9, <2>1 DEF TypeOK, SeatTables
<1>13. QED
  BY <1>10, <1>11, <1>12 DEF Flow

-----------------------------------------------------------------------------
(* Every step flows.                                                         *)

LEMMA StepFlows ==
  ASSUME FlowInv, [Next]_vars
  PROVE  Flow
<1>1. CASE AskStep
  BY <1>1, AskFlows DEF AskStep
<1>2. CASE ReviewStep
  BY <1>2, CrossReviewFlows DEF ReviewStep
<1>3. CASE SeatStep
  BY <1>3, SeatEndsFlows, SeatLostFlows, AcknowledgeSeatFlows DEF SeatStep
<1>4. CASE SynthesisStep
  BY <1>4, StartSynthesisFlows, SynthesisEndsFlows, AcknowledgeSynthesisFlows, MockSynthesisFlows DEF SynthesisStep
<1>5. CASE RunStep
  BY <1>5, PrepareFlows, CreateRunFlows, DecisionsFlow, ApproveFlows, CancelFlows, JudgeFlows DEF RunStep
<1>6. CASE PumpStep
  BY <1>6, PumpStepFlows
<1>7. CASE WorldStep
  BY <1>7, ControllerFlows, RestartFlows DEF WorldStep
<1>8. CASE UNCHANGED vars
  BY <1>8, ControllerFlows
<1>9. QED
  BY <1>1, <1>2, <1>3, <1>4, <1>5, <1>6, <1>7, <1>8 DEF Next

LEMMA FlowKept ==
  ASSUME FlowInv, Flow
  PROVE  FlowInv'
BY TellStays, RunsStay, PaidStays, SlotsStay DEF FlowInv, Flow

-----------------------------------------------------------------------------
(* What a run is created from.                                               *)

\* Only create_run binds and only prepare_run lets a run wait for it.
LEMMA OnlyCreateBinds ==
  ASSUME [Next]_vars
  PROVE  \/ bound' = bound /\ prepared' \subseteq prepared
         \/ \E q \in Request : PrepareRun(q)
         \/ \E q \in Request : CreateRun(q)
<1>1. CASE AskStep
  BY <1>1 DEF AskStep, Ask
<1>2. CASE ReviewStep
  BY <1>2 DEF ReviewStep, CrossReview
<1>3. CASE SeatStep
  BY <1>3 DEF SeatStep, SeatEnds, SeatLost, AcknowledgeSeat, ledger, asking
<1>4. CASE SynthesisStep
  BY <1>4 DEF SynthesisStep, StartSynthesis, SynthesisEnds, AcknowledgeSynthesis, MockSynthesis, runtime
<1>5. CASE RunStep
  <2>1. ASSUME NEW q \in Request, RefuseRun(q)
        PROVE  bound' = bound /\ prepared' \subseteq prepared
    BY <2>1 DEF RefuseRun, ledger, asking
  <2>2. ASSUME NEW p \in Part, DraftEnds(p) \/ ManualEnds(p) \/ AcknowledgeUnknown(p)
        PROVE  bound' = bound /\ prepared' \subseteq prepared
    BY <2>2 DEF DraftEnds, ManualEnds, AcknowledgeUnknown, asking
  <2>3. ASSUME NEW r \in Run, ApproveReduction(r) \/ CancelRun(r) \/ MarkReviewed(r)
        PROVE  bound' = bound /\ prepared' \subseteq prepared
    BY <2>3 DEF ApproveReduction, CancelRun, MarkReviewed, asking, runtime
  <2>4. QED
    BY <1>5, <2>1, <2>2, <2>3 DEF RunStep
<1>6. CASE PumpStep
  <2>1. ASSUME NEW ws, PumpBody(ws)
        PROVE  bound' = bound
    BY <2>1 DEF PumpBody, ledger, asking
  <2>2. QED
    BY <1>6, <2>1 DEF PumpStep, Pump, Exit
<1>7. CASE WorldStep
  BY <1>7 DEF WorldStep, Resume, Shutdown, Crash, Restart, ledger, asking
<1>8. CASE UNCHANGED vars
  BY <1>8 DEF vars, ledger, asking, runtime
<1>9. QED
  BY <1>1, <1>2, <1>3, <1>4, <1>5, <1>6, <1>7, <1>8 DEF Next

\* A call that comes to hold its slot begins in this step.
LEMMA SeatsBegin ==
  ASSUME TypeOK, TellInv, Moves, Begins, NEW c \in Seat
  PROVE  /\ seat'[c] \in InFlight /\ seat[c] \notin InFlight => c \in Fresh
         /\ seat[c] = "accepted" => seat'[c] = "accepted"
         /\ seat[c] \in Done => seat'[c] = seat[c]
         /\ c \in Fresh => seat[c] \in {"absent", "queued"}
         /\ c \in Fresh /\ c \notin Reviews => CanCall(c)
<1>1. SeatMove(c) /\ SeatTells(c) /\ seat[c] \in SeatState
  BY DEF Moves, TellInv, TypeOK
<1>2. seat'[c] \in InFlight /\ seat[c] \notin InFlight => c \in Fresh
  <2>1. SUFFICES ASSUME seat'[c] \in InFlight, seat[c] \notin InFlight PROVE c \in Fresh
    OBVIOUS
  <2>2. seat[c] \in {"absent", "queued"} /\ c \in begun'
    BY <1>1, <2>1 DEF SeatMove, InFlight, Done
  <2>3. QED
    BY <1>1, <2>2 DEF SeatTells, Fresh
<1>3. seat[c] \in Done => seat'[c] = seat[c]
  BY <1>1 DEF SeatMove, InFlight, Done
<1>4. c \in Fresh => seat[c] \in {"absent", "queued"}
  BY <1>1 DEF SeatMove, SeatTells, Fresh, InFlight, Quiet, SeatState
<1>5. QED
  BY <1>2, <1>3, <1>4 DEF Begins, Done

LEMMA BindStays ==
  ASSUME TypeOK, TellInv, BindInv, Moves, Begins, [Next]_vars
  PROVE  BindInv'
<1>1. \A c \in Sources : c \in Seat
  BY DEF Sources
<1>2. \A c \in Seat : seat[c] = "accepted" => seat'[c] = "accepted"
  BY SeatsBegin
<1>3. bound \subseteq Sources \X Run /\ prepared \subseteq Request /\ \A q \in Request : q.uses \subseteq Sources /\ q.run \in Run
  BY DEF TypeOK, Request
<1>4. \A b \in bound : seat'[b[1]] = "accepted"
  BY <1>1, <1>2, <1>3 DEF BindInv, BindingHolds
<1>5. \A q \in prepared : \A c \in q.uses : seat'[c] = "accepted" /\ (c.purpose = "refine" => q.run \in Supervised)
  BY <1>1, <1>2, <1>3 DEF BindInv
<1>6. CASE bound' = bound /\ prepared' \subseteq prepared
  <2>1. \A f : RunOfRefinement(f)' = RunOfRefinement(f)
    BY <1>6 DEF RunOfRefinement
  <2>2. ASSUME NEW c \in Seat, c.purpose = "refine", seat'[c] \in InFlight
        PROVE  RunOfRefinement(c.of) = {}
    <3>1. CASE seat[c] \in InFlight
      BY <2>2, <3>1 DEF BindInv, BindingHolds
    <3>2. CASE seat[c] \notin InFlight
      <4>1. CanCall(c)
        BY <2>2, <3>2, SeatsBegin, Kinds
      <4>2. QED
        BY <2>2, <4>1 DEF CanCall, CanRefine
    <3>3. QED
      BY <3>1, <3>2
  <2>3. BindingHolds'
    BY <1>4, <1>6, <2>1, <2>2 DEF BindInv, BindingHolds
  <2>4. QED
    BY <1>5, <1>6, <2>3 DEF BindInv
<1>7. ASSUME NEW q \in Request, PrepareRun(q)
      PROVE  BindInv'
  <2>1. bound' = bound /\ seat' = seat /\ prepared' = prepared \union {q} /\ \A c \in q.uses : Usable(c, q.run)
    BY <1>7 DEF PrepareRun, ledger, asking
  <2>2. \A c \in q.uses : seat'[c] = "accepted" /\ (c.purpose = "refine" => q.run \in Supervised)
    BY <2>1 DEF Usable
  <2>3. BindingHolds'
    BY <2>1 DEF BindInv, BindingHolds, RunOfRefinement
  <2>4. QED
    BY <1>5, <2>1, <2>2, <2>3 DEF BindInv
<1>8. ASSUME NEW q \in Request, CreateRun(q)
      PROVE  BindInv'
  <2>1. /\ q \in prepared /\ seat' = seat /\ prepared' \subseteq prepared /\ bound' = bound \union (q.uses \X {q.run})
        /\ q.run \in Board => BoardFree
        /\ \A c \in q.uses : Unused(c)
    BY <1>8 DEF CreateRun
  <2>2. \A b \in bound' : seat'[b[1]] = "accepted"
    BY <1>4, <1>5, <2>1
  <2>3. \A c, d \in q.uses : c = d
    BY DEF Request
  <2>4. ASSUME NEW b \in bound', NEW d \in bound',
               b[1] = d[1] \/ (b[1].purpose = "refine" /\ d[1].purpose = "refine" /\ d[1].of = b[1].of)
        PROVE  b = d
    <3>1. CASE b \in bound /\ d \in bound
      BY <2>4, <3>1 DEF BindInv, BindingHolds, RunOfRefinement
    <3>2. CASE b \notin bound /\ d \notin bound
      BY <2>1, <2>3, <3>2
    <3>3. ASSUME NEW x \in bound, NEW c \in q.uses,
                 x[1] = c \/ (c.purpose = "refine" /\ x[1].purpose = "refine" /\ x[1].of = c.of)
          PROVE  FALSE
      BY <2>1, <3>3 DEF Unused, RunOfRefinement
    <3>4. CASE b \in bound /\ d \notin bound
      <4>1. d[1] \in q.uses
        BY <2>1, <3>4
      <4>2. QED
        BY <2>4, <3>3, <3>4, <4>1
    <3>5. CASE b \notin bound /\ d \in bound
      <4>1. b[1] \in q.uses
        BY <2>1, <3>5
      <4>2. QED
        BY <2>4, <3>3, <3>5, <4>1
    <3>6. QED
      BY <3>1, <3>2, <3>4, <3>5
  <2>5. ASSUME NEW c \in Seat, c.purpose = "refine", seat'[c] \in InFlight
        PROVE  RunOfRefinement(c.of)' = {}
    <3>1. RunOfRefinement(c.of) = {} /\ c \in CallsIn(InFlight, workers)
      BY <2>1, <2>5, CallsInMembers DEF BindInv, BindingHolds
    <3>2. ~BoardFree
      BY <3>1 DEF BoardFree
    <3>3. \A d \in q.uses : d.purpose # "refine"
      BY <2>1, <3>2, UpperCallsAssumption DEF BindInv
    <3>4. QED
      BY <2>1, <3>1, <3>3 DEF RunOfRefinement
  <2>6. BindingHolds'
    BY <2>2, <2>4, <2>5 DEF BindingHolds, RunOfRefinement
  <2>7. QED
    BY <1>5, <2>1, <2>6 DEF BindInv
<1>9. QED
  BY <1>6, <1>7, <1>8, OnlyCreateBinds

-----------------------------------------------------------------------------
(* Revisions.                                                                *)

LEMMA RevisionsStay ==
  ASSUME TypeOK, TellInv, RevisionInv, Moves, Begins
  PROVE  RevisionInv'
<1>1. \A c \in Revisions : /\ c \in Seat /\ c \notin Reviews
                           /\ \A d \in Earlier(c) : d \in Seat /\ d \notin Reviews /\ d.of = c.of
  BY Kinds DEF Earlier
<1>2. \A c \in Seat : seat[c] \in Done => seat'[c] = seat[c]
  BY SeatsBegin
<1>3. \A k \in Rechecks : k \in Seat
  BY Kinds
<1>4. ASSUME NEW c \in Revisions, c \in Fresh
      PROVE  /\ \A d \in Earlier(c) : seat[d] \in Done
             /\ \A d \in {e \in Earlier(c) : seat[e] = "accepted"} :
                  (\A e \in {x \in Earlier(c) : seat[x] = "accepted"} : e.i <= d.i) =>
                    \E k \in Rechecks : k.of = d.of /\ k.n = d.i /\ seat[k] = "accepted"
  <2> DEFINE accepted == {d \in Earlier(c) : seat[d] = "accepted"}
             parent == {d \in accepted : \A e \in accepted : e.i <= d.i}
             checks == {d \in Rechecks : \E e \in parent : d.of = e.of /\ d.n = e.i}
  <2>1. CanCall(c) /\ c.purpose = "answer_revision"
    BY <1>1, <1>4, SeatsBegin, Kinds
  <2>2. CanRevise(c)
    BY <2>1 DEF CanCall
  <2>3. NextOf(c, InFlight) /\ (parent # {} => Rechecked(checks))
    BY <2>2 DEF CanRevise
  <2>4. ASSUME NEW d \in Earlier(c)
        PROVE  seat[d] \in Done
    <3>1. seat[d] \notin {"absent", "running", "unknown"}
      BY <2>3, <2>4 DEF NextOf, InFlight
    <3>2. seat[d] \in SeatState /\ seat[d] \notin {"queued", "skipped"}
      BY <1>1, <2>4 DEF TypeOK, TellInv, SeatTells
    <3>3. QED
      BY <3>1, <3>2 DEF SeatState, Done
  <2>5. ASSUME NEW d \in accepted, \A e \in accepted : e.i <= d.i
        PROVE  \E k \in Rechecks : k.of = d.of /\ k.n = d.i /\ seat[k] = "accepted"
    <3>1. PICK k \in checks : seat[k] = "accepted"
      BY <2>3, <2>5 DEF Rechecked
    <3>2. PICK e \in parent : k.of = e.of /\ k.n = e.i
      OBVIOUS
    <3>3. e \in Earlier(c) /\ d \in Earlier(c) /\ e.i <= d.i /\ d.i <= e.i
      BY <2>5, <3>2
    <3>4. e.of = d.of /\ e.i = d.i
      <4>1. \A x \in Revisions : x.i \in Nat
        BY UpperCallsAssumption DEF Revisions, Id
      <4>2. e \in Revisions /\ d \in Revisions
        BY <2>1, <3>3, SeatKinds DEF Earlier
      <4>3. e.i \in Nat /\ d.i \in Nat
        BY <4>1, <4>2
      <4>4. QED
        BY <1>1, <3>3, <4>3
    <3>5. k \in Rechecks /\ k.of = d.of /\ k.n = d.i
      BY <3>2, <3>4
    <3>6. QED
      BY <3>1, <3>5
  <2>6. QED
    BY <2>4, <2>5
<1>5. ASSUME NEW c \in Revisions, c \in begun'
      PROVE  /\ \A d \in Earlier(c) : seat[d] \in Done
             /\ \A d \in {e \in Earlier(c) : seat[e] = "accepted"} :
                  (\A e \in {x \in Earlier(c) : seat[x] = "accepted"} : e.i <= d.i) =>
                    \E k \in Rechecks : k.of = d.of /\ k.n = d.i /\ seat[k] = "accepted"
  <2>1. CASE c \in Fresh
    BY <1>4, <2>1
  <2>2. CASE c \in begun
    BY <2>2 DEF RevisionInv, RevisionsRechecked
  <2>3. QED
    BY <1>5, <2>1, <2>2 DEF Fresh
<1>6. ASSUME NEW c \in Revisions, c \in begun'
      PROVE  /\ \A d \in Earlier(c) : seat'[d] = seat[d] /\ seat'[d] \in Done
             /\ {e \in Earlier(c) : seat'[e] = "accepted"} = {e \in Earlier(c) : seat[e] = "accepted"}
  BY <1>1, <1>2, <1>5, <1>6
<1>7. \A k \in Rechecks : seat[k] = "accepted" => seat'[k] = "accepted"
  BY <1>2, <1>3 DEF Done
<1>8. \A c \in Revisions \intersect begun' : \A d \in Earlier(c) : seat'[d] \in Done
  BY <1>6
<1>9. ASSUME NEW c \in Revisions, c \in begun',
             NEW d \in {e \in Earlier(c) : seat'[e] = "accepted"},
             \A e \in {x \in Earlier(c) : seat'[x] = "accepted"} : e.i <= d.i
      PROVE  \E k \in Rechecks : k.of = d.of /\ k.n = d.i /\ seat'[k] = "accepted"
  <2>1. \E k \in Rechecks : k.of = d.of /\ k.n = d.i /\ seat[k] = "accepted"
    BY <1>5, <1>6, <1>9
  <2>2. QED
    BY <1>7, <2>1
<1>10. RevisionsRechecked'
  BY <1>9 DEF RevisionsRechecked, Earlier
<1>11. QED
  BY <1>8, <1>10 DEF RevisionInv, Earlier

-----------------------------------------------------------------------------
(* Review rounds.                                                            *)

\* A reviewer who is no longer called ends, or nothing happens.
Rests(s, t) ==
  \A c \in Reviews : t[c] = s[c] \/ (s[c] \in InFlight /\ t[c] \in {"accepted", "rejected", "unknown"})

LEMMA RoundMembers ==
  /\ \A r : \A c \in Round(r) : c \in Reviews /\ c \in Seat /\ RunOf[c.of] = r /\ Row[c.of] \in Nat
  /\ \A c \in Reviews : c \in Round(RunOf[c.of]) /\ RunOf[c.of] \in Run
  /\ \A c \in Reviews : \A d \in ReviewedBefore(c) : d \in Round(RunOf[c.of]) /\ Row[d.of] < Row[c.of]
<1>1. \A c \in Reviews : c.of \in Part /\ c \in Seat
  BY Kinds DEF Cli
<1>2. QED
  BY <1>1, UpperCallsAssumption, RosterAssumption DEF Round, ReviewedBefore

LEMMA RestsFit ==
  ASSUME NEW s, NEW t, NEW at, RoundsFit(s, at), Rests(s, t)
  PROVE  RoundsFit(t, at)
<1>1. \A r : \A c \in Round(r) : t[c] = s[c] \/ (s[c] \in InFlight /\ t[c] \in {"accepted", "rejected", "unknown"})
  BY RoundMembers DEF Rests
<1>2. \A r : \A c \in Round(r) : /\ s[c] = "absent" <=> t[c] = "absent"
                                 /\ s[c] = "queued" <=> t[c] = "queued"
                                 /\ s[c] = "accepted" => t[c] = "accepted"
  BY <1>1 DEF InFlight
<1>3. QED
  BY <1>2 DEF RoundsFit

\* Rounds are closed behind which no older one waits.
LEMMA ClosingFits ==
  ASSUME NEW s \in SeatTables, NEW at, RoundsFit(s, at), NEW R \in SUBSET Run,
         \A r \in R, q \in Run : at[q] < at[r] /\ Waiting(q, s) # {} => q \in R
  PROVE  /\ RoundsFit(Skip(R, s), at)
         /\ \A r \in Run : \A c \in Round(r) :
              Skip(R, s)[c] = IF r \in R /\ s[c] = "queued" THEN "skipped" ELSE s[c]
<1> DEFINE t == Skip(R, s)
<1>1. \A r \in Run : \A c \in Round(r) : t[c] = IF r \in R /\ s[c] = "queued" THEN "skipped" ELSE s[c]
  BY RoundMembers DEF Skip, Waiting
<1>2. \A r \in Run : \A c \in Round(r) : c \in Waiting(r, s) <=> s[c] = "queued"
  BY DEF Waiting
<1> HIDE DEF t
<1>3. \A r \in Run : at[r] = 0 <=> \A c \in Round(r) : t[c] = "absent"
  BY <1>1 DEF RoundsFit
<1>4. ASSUME NEW q \in Run, NEW r \in Run, at[q] < at[r], NEW c \in Round(q), NEW d \in Round(r), t[c] = "queued"
      PROVE  t[d] \in {"absent", "queued"}
  <2>1. s[c] = "queued" /\ q \notin R
    BY <1>1, <1>4
  <2>2. s[d] \in {"absent", "queued"} /\ r \notin R
    BY <1>2, <1>4, <2>1 DEF RoundsFit
  <2>3. QED
    BY <1>1, <2>2
<1>5. ASSUME NEW r \in Run, NEW c \in Round(r), NEW d \in Round(r), NEW e \in Round(r),
             t[c] = "queued", t[e] \notin {"absent", "queued"}, Row[d.of] < Row[e.of]
      PROVE  t[d] \in {"absent", "accepted"}
  <2>1. r \notin R /\ s[c] = "queued" /\ s[e] = t[e] /\ s[d] = t[d]
    BY <1>1, <1>5
  <2>2. QED
    BY <1>5, <2>1 DEF RoundsFit
<1>6. RoundsFit(t, at)
  BY <1>3, <1>4, <1>5 DEF RoundsFit
<1>7. QED
  BY <1>1, <1>6 DEF t

\* The first who waits in the oldest waiting round is called.
LEMMA CallingFits ==
  ASSUME NEW t \in SeatTables, NEW at \in [Run -> Nat], RoundsFit(t, at), NEW r \in Run, NEW c \in Round(r), t[c] = "queued",
         \A q \in Run : at[q] < at[r] => \A d \in Round(q) : t[d] # "queued",
         \A d \in Round(r) : Row[d.of] < Row[c.of] => t[d] \in {"absent", "accepted"},
         NEW v \in {"running", "rejected"}
  PROVE  RoundsFit([t EXCEPT ![c] = v], at)
<1> DEFINE u == [t EXCEPT ![c] = v]
<1>1. /\ u[c] = v
      /\ \A q : \A d \in Round(q) : d # c => u[d] = t[d]
      /\ \A q \in Run : c \in Round(q) => q = r
  BY RoundMembers DEF SeatTables
<1> HIDE DEF u
<1>2. \A q \in Run : at[q] = 0 <=> \A d \in Round(q) : u[d] = "absent"
  <2>1. at[r] # 0
    BY DEF RoundsFit
  <2>2. QED
    BY <1>1, <2>1 DEF RoundsFit
<1>3. ASSUME NEW p \in Run, NEW q \in Run, at[p] < at[q], NEW x \in Round(p), NEW d \in Round(q), u[x] = "queued"
      PROVE  u[d] \in {"absent", "queued"}
  <2>1. x # c /\ t[x] = "queued"
    BY <1>1, <1>3
  <2>2. d # c
    BY <1>1, <1>3, <2>1
  <2>3. QED
    BY <1>1, <1>3, <2>1, <2>2 DEF RoundsFit
<1>4. ASSUME NEW q \in Run, NEW x \in Round(q), NEW d \in Round(q), NEW e \in Round(q),
             u[x] = "queued", u[e] \notin {"absent", "queued"}, Row[d.of] < Row[e.of]
      PROVE  u[d] \in {"absent", "accepted"}
  <2>1. x # c /\ t[x] = "queued"
    BY <1>1, <1>4
  <2>2. CASE e = c
    <3>1. q = r /\ d # c
      BY <1>1, <1>4, <2>2, RoundMembers
    <3>2. QED
      BY <1>1, <1>4, <2>2, <3>1
  <2>3. CASE e # c
    <3>1. t[e] \notin {"absent", "queued"}
      BY <1>1, <1>4, <2>3
    <3>2. t[d] \in {"absent", "accepted"}
      BY <1>4, <2>1, <3>1 DEF RoundsFit
    <3>3. QED
      BY <1>1, <3>2
  <2>4. QED
    BY <2>2, <2>3
<1>5. RoundsFit(u, at)
  BY <1>2, <1>3, <1>4 DEF RoundsFit
<1>6. QED
  BY <1>5 DEF u

\* Whoever is called comes after accepted reviewers only.
CalledInOrder ==
  \A c \in Reviews \intersect Fresh : \A d \in ReviewedBefore(c) : seat'[d] \in {"absent", "accepted"}

\* A round that is broken has begun, so no older one waits.
LEMMA BrokenIsOldest ==
  ASSUME NEW s, NEW at, RoundsFit(s, at), NEW r \in Run, Broken(r, s)
  PROVE  \A q \in Run : at[q] < at[r] => Waiting(q, s) = {}
BY DEF Broken, RoundsFit, Waiting

LEMMA AdvanceFits ==
  ASSUME TypeOK, TellInv, NEW s \in SeatTables, Asks(s), NEW at \in [Run -> Nat], RoundsFit(s, at), NEW start,
         NEW ws \in SUBSET Call, AdvanceReviews(start, s, at, ws)
  PROVE  RoundsFit(seat', at) /\ CalledInOrder /\ \A c \in Reviews : seat'[c] = "absent" <=> s[c] = "absent"
<1> DEFINE broken == {r \in Idle(s) : Broken(r, s)}
           first == {r \in Idle(s) \ broken : \A q \in Idle(s) \ broken : at[r] <= at[q]}
           behind == {r \in broken : \E q \in first : at[q] < at[r]}
           closed == broken \ behind
<1>1. \A r \in Idle(s) : r \in Run /\ Waiting(r, s) # {} /\ at[r] \in Nat /\ at[r] # 0
  <2>1. \A r \in Run : Waiting(r, s) # {} => at[r] # 0
    BY DEF Waiting, RoundsFit
  <2>2. QED
    BY <2>1 DEF Idle
<1>2. \A r \in broken : \A q \in Run : at[q] < at[r] => Waiting(q, s) = {}
  BY <1>1, BrokenIsOldest
<1>3. ASSUME NEW R \in SUBSET Run, \A r \in R, q \in Run : at[q] < at[r] /\ Waiting(q, s) # {} => q \in R,
             CloseRounds(R, s), begun' = begun
      PROVE  RoundsFit(seat', at) /\ CalledInOrder /\ \A c \in Reviews : seat'[c] = "absent" <=> s[c] = "absent"
  <2>1. /\ RoundsFit(seat', at)
        /\ \A r \in Run : \A c \in Round(r) : seat'[c] = IF r \in R /\ s[c] = "queued" THEN "skipped" ELSE s[c]
    BY <1>3, ClosingFits DEF CloseRounds
  <2>2. \A c \in Reviews : seat'[c] = "absent" <=> s[c] = "absent"
    BY <2>1, RoundMembers
  <2>3. Fresh = {}
    BY <1>3 DEF Fresh
  <2>4. QED
    BY <2>1, <2>2, <2>3 DEF CalledInOrder
<1>4. broken \subseteq Run /\ closed \subseteq broken
  BY <1>1
<1>5. CASE start /\ ReviewGate(ws) /\ first # {}
  <2>1. PICK r \in first, c \in UNION {Waiting(q, s) : q \in first} :
            /\ \A d \in Waiting(r, s) : Row[c.of] <= Row[d.of]
            /\ \/ Launch(c, Skip(closed, s), ws, Skipped(closed, s))
               \/ /\ CloseRounds(closed \union {r}, s)
                  /\ workers' = ws
                  /\ UNCHANGED <<used, alive, begun>>
    BY <1>5 DEF AdvanceReviews
  <2>2. r \in Idle(s) /\ r \notin broken /\ r \in Run /\ \A q \in Idle(s) \ broken : at[r] <= at[q]
    BY <1>1
  <2>3. c \in Waiting(r, s)
    <3>1. PICK q \in first : c \in Waiting(q, s)
      OBVIOUS
    <3>2. q \in Idle(s) /\ q \notin broken /\ at[q] <= at[r] /\ at[r] <= at[q]
      BY <2>2, <3>1
    <3>3. at[q] = at[r] /\ at[q] # 0 /\ q \in Run
      BY <1>1, <2>2, <3>2
    <3>4. q = r
      BY <2>2, <3>3 DEF RoundsFit
    <3>5. QED
      BY <3>1, <3>4
  <2>4. ASSUME NEW q \in Run, at[q] < at[r], Waiting(q, s) # {}
        PROVE  q \in closed
    <3>1. ~Running(q, s)
      <4>1. \A d \in Round(q) : s[d] # "running"
        BY <1>5, RoundMembers DEF ReviewGate, Busy, InFlight, Asks
      <4>2. QED
        BY <4>1 DEF Running
    <3>2. q \in Idle(s)
      BY <2>4, <3>1 DEF Idle
    <3>3. q \in broken
      BY <1>1, <2>2, <2>4, <3>2
    <3>4. \A f \in first : at[r] <= at[f]
      BY <2>2
    <3>5. q \notin behind
      BY <1>1, <2>2, <2>4, <3>2, <3>4
    <3>6. QED
      BY <3>3, <3>5
  <2>5. r \notin closed
    BY <2>2
  <2>6. c \in Round(r) /\ s[c] = "queued" /\ c \in Reviews /\ c \in Seat
    BY <2>3, RoundMembers DEF Waiting
  <2>7. ASSUME NEW d \in Round(r), Row[d.of] < Row[c.of]
        PROVE  s[d] \in {"absent", "accepted"}
    <3>1. s[d] # "queued"
      BY <2>1, <2>6, <2>7, RoundMembers DEF Waiting
    <3>2. CASE s[d] \notin {"absent", "queued", "accepted"}
      <4>1. ~Broken(r, s)
        BY <2>2
      <4>2. PICK e \in Round(r) : s[e] \notin {"absent", "queued"} /\ ~(Row[e.of] <= Row[d.of])
        BY <2>7, <3>2, <4>1 DEF Broken
      <4>3. Row[d.of] < Row[e.of]
        BY <4>2, RoundMembers
      <4>4. QED
        BY <2>2, <2>6, <4>2, <4>3 DEF RoundsFit
    <3>3. QED
      BY <3>1, <3>2
  <2> HIDE DEF first, behind, closed, broken
  <2>8. /\ RoundsFit(Skip(closed, s), at) /\ Skip(closed, s) \in SeatTables
        /\ \A q \in Run : \A d \in Round(q) : Skip(closed, s)[d] = IF q \in closed /\ s[d] = "queued" THEN "skipped" ELSE s[d]
    <3>1. closed \in SUBSET Run
      BY <1>4
    <3>2. \A p \in closed, q \in Run : at[q] < at[p] /\ Waiting(q, s) # {} => q \in closed
      BY <1>2, <1>4
    <3>3. QED
      BY <3>1, <3>2, SkipType, ClosingFits
  <2>9. CASE Launch(c, Skip(closed, s), ws, Skipped(closed, s))
    <3> DEFINE t == Skip(closed, s)
    <3>1. Starts(c, t, ws)
      BY <2>6, <2>9, SkipType, LaunchStarts
    <3>2. PICK v \in {"running", "rejected"} : seat' = [t EXCEPT ![c] = v] /\ (begun' = begun \union {c} \/ begun' = begun)
      BY <3>1 DEF Starts
    <3>3. t[c] = "queued" /\ \A d \in Round(r) : t[d] = s[d]
      BY <2>2, <2>5, <2>6, <2>8
    <3>4. \A q \in Run : at[q] < at[r] => \A d \in Round(q) : t[d] # "queued"
      BY <2>4, <2>8 DEF Waiting
    <3> HIDE DEF t
    <3>5. \A d \in Round(r) : Row[d.of] < Row[c.of] => t[d] \in {"absent", "accepted"}
      BY <2>7, <3>3
    <3>6. RoundsFit(t, at) /\ t \in SeatTables
      BY <2>8 DEF t
    <3>7. RoundsFit(seat', at)
      BY <2>2, <2>6, <3>2, <3>3, <3>4, <3>5, <3>6, CallingFits
    <3>8. seat'[c] = v /\ \A d \in Seat : d # c => seat'[d] = t[d]
      BY <2>6, <3>2, <3>6 DEF SeatTables
    <3>9. \A d \in Reviews : seat'[d] = "absent" <=> s[d] = "absent"
      <4>1. \A d \in Reviews : t[d] = "absent" <=> s[d] = "absent"
        BY <2>8, RoundMembers DEF t
      <4>2. QED
        BY <2>6, <3>8, <4>1, Kinds
    <3>10. CalledInOrder
      <4>1. Fresh \subseteq {c}
        BY <3>2 DEF Fresh
      <4>2. \A d \in ReviewedBefore(c) : d \in Round(r) /\ Row[d.of] < Row[c.of] /\ d # c /\ d \in Seat
        BY <2>6, RoundMembers
      <4>3. QED
        BY <3>5, <3>8, <4>1, <4>2 DEF CalledInOrder
    <3>11. QED
      BY <3>7, <3>9, <3>10
  <2>10. CASE CloseRounds(closed \union {r}, s) /\ begun' = begun
    <3>1. closed \union {r} \in SUBSET Run
      BY <1>4, <2>2
    <3>2. \A p \in closed \union {r}, q \in Run : at[q] < at[p] /\ Waiting(q, s) # {} => q \in closed \union {r}
      BY <1>2, <1>4, <2>4
    <3>3. QED
      BY <1>3, <2>10, <3>1, <3>2
  <2>11. QED
    BY <2>1, <2>9, <2>10
<1>6. CASE ~(start /\ ReviewGate(ws) /\ first # {})
  <2>1. CloseRounds(broken, s) /\ begun' = begun
    BY <1>6 DEF AdvanceReviews
  <2>2. \A r \in broken, q \in Run : at[q] < at[r] /\ Waiting(q, s) # {} => q \in broken
    BY <1>2
  <2> HIDE DEF broken
  <2>3. QED
    BY <1>3, <1>4, <2>1, <2>2
<1>7. QED
  BY <1>5, <1>6

\* No reviewer is called, and none waits who did not wait before.
NoReviewer == roundAt' = roundAt /\ Rests(seat, seat') /\ Fresh \intersect Reviews = {}

\* pump() advances the rounds, or closes broken ones and serves the queue.
LEMMA ReviewSteps ==
  ASSUME TypeOK, TellInv, [Next]_vars
  PROVE  \/ NoReviewer
         \/ roundAt' = roundAt /\ \E start \in BOOLEAN, ws \in SUBSET Call : AdvanceReviews(start, seat, roundAt, ws)
         \/ /\ roundAt' = roundAt /\ Fresh \intersect Reviews = {}
            /\ CloseRounds({r \in Idle(seat) : Broken(r, seat)}, seat)
         \/ \E r \in Run : CrossReview(r)
         \/ Restart
<1>0. /\ seat \in [Seat -> SeatState] /\ \A c \in Reviews : c \in Seat
      /\ seat' = seat /\ roundAt' = roundAt /\ begun' = begun => NoReviewer
  BY Kinds DEF TypeOK, NoReviewer, Rests, Fresh
<1>1. ASSUME NEW c \in Seat, Ask(c)
      PROVE  NoReviewer
  <2>1. CanCall(c) /\ Launch(c, seat, workers, {}) /\ roundAt' = roundAt
    BY <1>1 DEF Ask
  <2>2. c \notin Reviews
    BY <2>1, Kinds DEF CanCall
  <2>3. \A d \in Reviews : seat'[d] = seat[d] /\ (d \in begun' => d \in begun)
    BY <1>0, <2>1, <2>2 DEF Launch
  <2>4. QED
    BY <2>1, <2>3 DEF NoReviewer, Rests, Fresh
<1>2. ASSUME NEW c \in Seat, SeatEnds(c) \/ SeatLost(c) \/ AcknowledgeSeat(c)
      PROVE  NoReviewer
  <2>1. CASE SeatLost(c)
    BY <1>0, <2>1 DEF SeatLost, ledger, asking
  <2>2. CASE SeatEnds(c) \/ AcknowledgeSeat(c)
    <3>1. /\ seat[c] \in InFlight /\ \E s \in {"accepted", "rejected", "unknown"} : seat' = [seat EXCEPT ![c] = s]
          /\ roundAt' = roundAt /\ begun' = begun
      BY <2>2 DEF SeatEnds, AcknowledgeSeat, InFlight
    <3>2. QED
      BY <1>0, <3>1 DEF NoReviewer, Rests, Fresh
  <2>3. QED
    BY <1>2, <2>1, <2>2
<1>3. CASE SynthesisStep
  <2>1. /\ seat' = seat /\ roundAt' = roundAt /\ Fresh \subseteq Synthesis
    BY <1>3 DEF SynthesisStep, StartSynthesis, SynthesisEnds, AcknowledgeSynthesis, MockSynthesis, Fresh
  <2>2. QED
    BY <1>0, <2>1, KindsApart DEF NoReviewer, Rests
<1>4. CASE RunStep
  <2>1. ASSUME NEW q \in Request, PrepareRun(q) \/ CreateRun(q) \/ RefuseRun(q)
        PROVE  seat' = seat /\ roundAt' = roundAt /\ begun' = begun
    BY <2>1 DEF PrepareRun, CreateRun, RefuseRun, ledger, asking, history
  <2>2. ASSUME NEW p \in Part, DraftEnds(p) \/ ManualEnds(p) \/ AcknowledgeUnknown(p)
        PROVE  seat' = seat /\ roundAt' = roundAt /\ begun' = begun
    BY <2>2 DEF DraftEnds, ManualEnds, AcknowledgeUnknown, asking, history
  <2>3. ASSUME NEW r \in Run, ApproveReduction(r) \/ CancelRun(r) \/ MarkReviewed(r)
        PROVE  seat' = seat /\ roundAt' = roundAt /\ begun' = begun
    BY <2>3 DEF ApproveReduction, CancelRun, MarkReviewed, asking, history
  <2>4. QED
    BY <1>0, <1>4, <2>1, <2>2, <2>3 DEF RunStep
<1>5. CASE PumpStep
  <2>1. PICK ws \in SUBSET workers : PumpBody(ws)
    BY <1>5 DEF PumpStep, Pump, Exit
  <2>2. CASE UNCHANGED <<ledger, history>>
    BY <1>0, <2>2 DEF ledger, asking, history
  <2>3. ASSUME NEW start \in BOOLEAN, AdvanceReviews(start, seat, roundAt, ws), roundAt' = roundAt
        PROVE  roundAt' = roundAt /\ \E x \in BOOLEAN, y \in SUBSET Call : AdvanceReviews(x, seat, roundAt, y)
    BY <2>3 DEF TypeOK
  <2>4. CASE CloseRounds({r \in Idle(seat) : Broken(r, seat)}, seat) /\ ServeQueue(ws) /\ UNCHANGED <<cancelled, approved, syn, roundAt, bound>>
    <3>1. Fresh \subseteq Draft
      <4>1. PICK S \in SUBSET Queue : begun' = begun \union {DraftOf(p) : p \in S}
        BY <2>4 DEF ServeQueue
      <4>2. QED
        BY <4>1, Kinds DEF Fresh, Queue
    <3>2. QED
      BY <1>0, <2>4, <3>1, KindsApart
  <2>5. QED
    BY <2>1, <2>2, <2>3, <2>4 DEF PumpBody
<1>6. CASE Resume \/ Shutdown \/ Crash
  BY <1>0, <1>6 DEF Resume, Shutdown, Crash, ledger, asking, history
<1>7. CASE UNCHANGED vars
  BY <1>0, <1>7 DEF vars, ledger, asking, history
<1>8. QED
  BY <1>1, <1>2, <1>3, <1>4, <1>5, <1>6, <1>7 DEF Next, AskStep, ReviewStep, SeatStep, WorldStep

\* A new round of waiting reviewers is younger than all others.
LEMMA NewRoundFits ==
  ASSUME TypeOK, RoundInv, NEW r \in Run, CrossReview(r)
  PROVE  LET reviewers == {c \in Round(r) : c.of \in AcceptedCli(r)}
             s == [c \in Seat |-> IF c \in reviewers THEN "queued" ELSE seat[c]]
             at == [roundAt EXCEPT ![r] = 1 + Cardinality({q \in Run : roundAt[q] # 0})]
         IN  /\ s \in SeatTables /\ Asks(s) /\ at \in [Run -> Nat] /\ RoundsFit(s, at)
             /\ \A c \in Reviews : c \notin Round(r) => s[c] = seat[c]
<1> DEFINE reviewers == {c \in Round(r) : c.of \in AcceptedCli(r)}
           s == [c \in Seat |-> IF c \in reviewers THEN "queued" ELSE seat[c]]
           old == {q \in Run : roundAt[q] # 0}
           n == Cardinality(old)
           at == [roundAt EXCEPT ![r] = 1 + n]
<1>1. /\ \A c \in Round(r) : seat[c] = "absent"
      /\ reviewers # {}
  BY DEF CrossReview
<1>2. IsFiniteSet(old) /\ n \in Nat
  BY RosterAssumption, FS_Subset, FS_CardinalityType
<1>3. roundAt \in [Run -> Nat] /\ roundAt[r] = 0 /\ \A q \in Run : roundAt[q] <= n
  BY <1>1 DEF TypeOK, RoundInv, RoundsFit
<1>4. at \in [Run -> Nat] /\ at[r] = 1 + n /\ \A q \in Run : q # r => at[q] = roundAt[q]
  BY <1>2, <1>3
<1>5. Cardinality({q \in Run : at[q] # 0}) = n + 1
  <2>1. {q \in Run : at[q] # 0} = old \union {r} /\ r \notin old
    BY <1>2, <1>3, <1>4
  <2>2. QED
    BY <1>2, <2>1, FS_AddElement
<1>6. s \in SeatTables /\ Asks(s)
  <2>1. \A c \in reviewers : c \in Reviews /\ seat[c] = "absent"
    BY <1>1 DEF Round
  <2>2. \A c \in Seat : seat[c] \in SeatState
    BY DEF TypeOK
  <2> HIDE DEF reviewers
  <2>3. QED
    BY <2>1, <2>2 DEF SeatTables, SeatState, Asks
<1>7. /\ \A c \in Round(r) : s[c] \in {"absent", "queued"}
      /\ \E c \in Round(r) : s[c] = "queued"
      /\ \A q \in Run : q # r => \A c \in Round(q) : s[c] = seat[c]
      /\ \A c \in Reviews : c \notin Round(r) => s[c] = seat[c]
  <2>1. \A q : \A c \in Round(q) : c \in Seat /\ RunOf[c.of] = q
    BY RoundMembers
  <2>2. \A c \in Reviews : c \in Seat
    BY RoundMembers
  <2>3. reviewers \subseteq Round(r)
    OBVIOUS
  <2> HIDE DEF reviewers
  <2>4. QED
    BY <1>1, <2>1, <2>2, <2>3
<1> HIDE DEF s, at, n, old
<1>8. RoundsFit(s, at)
  <2>1. \A q \in Run : at[q] = 0 <=> \A c \in Round(q) : s[c] = "absent"
    BY <1>2, <1>4, <1>7 DEF RoundInv, RoundsFit
  <2>2. \A q \in Run : at[q] <= Cardinality({p \in Run : at[p] # 0})
    BY <1>2, <1>3, <1>4, <1>5
  <2>3. \A p, q \in Run : at[p] = at[q] /\ at[p] # 0 => p = q
    BY <1>2, <1>3, <1>4 DEF RoundInv, RoundsFit
  <2>4. ASSUME NEW p \in Run, NEW q \in Run, at[p] < at[q], NEW c \in Round(p), NEW d \in Round(q), s[c] = "queued"
        PROVE  s[d] \in {"absent", "queued"}
    <3>1. CASE q = r
      BY <1>7, <3>1
    <3>2. CASE q # r
      <4>1. p # r
        BY <1>2, <1>3, <1>4, <2>4, <3>2
      <4>2. QED
        BY <1>4, <1>7, <2>4, <3>2, <4>1 DEF RoundInv, RoundsFit
    <3>3. QED
      BY <3>1, <3>2
  <2>5. ASSUME NEW q \in Run, NEW c \in Round(q), NEW d \in Round(q), NEW e \in Round(q),
               s[c] = "queued", s[e] \notin {"absent", "queued"}, Row[d.of] < Row[e.of]
        PROVE  s[d] \in {"absent", "accepted"}
    <3>1. q # r
      BY <1>7, <2>5
    <3>2. QED
      BY <1>7, <2>5, <3>1 DEF RoundInv, RoundsFit
  <2>6. QED
    BY <2>1, <2>2, <2>3, <2>4, <2>5 DEF RoundsFit
<1>9. QED
  BY <1>4, <1>6, <1>7, <1>8 DEF s, at, n, old

LEMMA CrossReviewFits ==
  ASSUME TypeOK, TellInv, RoundInv, NEW r \in Run, CrossReview(r)
  PROVE  /\ RoundInv' /\ CalledInOrder
         /\ \A c \in Round(r) : seat[c] = "absent"
         /\ \A c \in Reviews : c \notin Round(r) => (seat'[c] = "absent" <=> seat[c] = "absent")
<1> DEFINE reviewers == {c \in Round(r) : c.of \in AcceptedCli(r)}
           s == [c \in Seat |-> IF c \in reviewers THEN "queued" ELSE seat[c]]
           at == [roundAt EXCEPT ![r] = 1 + Cardinality({q \in Run : roundAt[q] # 0})]
<1>1. /\ \A c \in Round(r) : seat[c] = "absent"
      /\ roundAt' = at
      /\ AdvanceReviews(TRUE, s, at, workers)
  BY DEF CrossReview
<1>2. /\ s \in SeatTables /\ Asks(s) /\ at \in [Run -> Nat] /\ RoundsFit(s, at)
      /\ \A c \in Reviews : c \notin Round(r) => s[c] = seat[c]
  BY NewRoundFits
<1> HIDE DEF s, at
<1>3. RoundsFit(seat', at) /\ CalledInOrder /\ \A c \in Reviews : seat'[c] = "absent" <=> s[c] = "absent"
  <2>1. workers \in SUBSET Call
    BY DEF TypeOK
  <2>2. QED
    BY <1>1, <1>2, <2>1, AdvanceFits
<1>4. RoundInv'
  BY <1>1, <1>3 DEF RoundInv, RoundsFit, Round
<1>5. QED
  BY <1>1, <1>2, <1>3, <1>4

\* Restart: calls that were under way are unknown, and the rounds they broke end.
LEMMA RestartFits ==
  ASSUME TypeOK, RoundInv, Restart
  PROVE  RoundInv' /\ CalledInOrder /\ \A c \in Reviews : seat'[c] = "absent" <=> seat[c] = "absent"
<1> DEFINE s == [c \in Seat |-> Recovered(seat[c])]
           broken == {r \in Idle(s) : Broken(r, s)}
<1>1. seat' = Skip(broken, s) /\ roundAt' = roundAt /\ begun' = begun
  BY DEF Restart
<1>2. s \in SeatTables /\ Rests(seat, s)
  BY Kinds DEF TypeOK, SeatTables, SeatState, Recovered, Rests, InFlight
<1> HIDE DEF s
<1>3. RoundsFit(s, roundAt)
  BY <1>2, RestsFit DEF RoundInv
<1>4. broken \in SUBSET Run /\ \A r \in broken, q \in Run : roundAt[q] < roundAt[r] /\ Waiting(q, s) # {} => q \in broken
  BY <1>3, BrokenIsOldest DEF Idle
<1> HIDE DEF broken
<1>5. /\ RoundsFit(seat', roundAt)
      /\ \A r \in Run : \A c \in Round(r) : seat'[c] = IF r \in broken /\ s[c] = "queued" THEN "skipped" ELSE s[c]
  BY <1>1, <1>2, <1>3, <1>4, ClosingFits
<1>6. \A c \in Reviews : seat'[c] = "absent" <=> seat[c] = "absent"
  BY <1>2, <1>5, RoundMembers DEF Rests, InFlight
<1>7. RoundInv' /\ CalledInOrder
  BY <1>1, <1>5 DEF RoundInv, RoundsFit, Round, CalledInOrder, Fresh
<1>8. QED
  BY <1>6, <1>7

LEMMA RoundsStay ==
  ASSUME TypeOK, TellInv, RoundInv, ReviewersInOrder, Moves, Begins, [Next]_vars
  PROVE  RoundInv' /\ ReviewersInOrder'
<1> DEFINE Kept == \A c \in Reviews : seat'[c] = "absent" <=> seat[c] = "absent"
           Created == \E r \in Run : /\ \A c \in Round(r) : seat[c] = "absent"
                                     /\ \A c \in Reviews : c \notin Round(r) => (seat'[c] = "absent" <=> seat[c] = "absent")
<1>1. RoundInv' /\ CalledInOrder /\ (Kept \/ Created)
  <2>1. seat \in SeatTables /\ Asks(seat) /\ roundAt \in [Run -> Nat]
    BY SelfSkip DEF TypeOK
  <2>2. CASE NoReviewer
    <3>1. RoundsFit(seat', roundAt)
      BY <2>2, RestsFit DEF NoReviewer, RoundInv
    <3>2. RoundInv'
      BY <2>2, <3>1 DEF NoReviewer, RoundInv, RoundsFit, Round
    <3>3. Kept
      BY <2>2 DEF NoReviewer, Rests, InFlight
    <3>4. CalledInOrder
      BY <2>2 DEF NoReviewer, CalledInOrder
    <3>5. QED
      BY <3>2, <3>3, <3>4
  <2>3. ASSUME roundAt' = roundAt, NEW start \in BOOLEAN, NEW ws \in SUBSET Call, AdvanceReviews(start, seat, roundAt, ws)
        PROVE  RoundInv' /\ CalledInOrder /\ Kept
    <3>1. RoundsFit(seat', roundAt) /\ CalledInOrder /\ Kept
      BY <2>1, <2>3, AdvanceFits DEF RoundInv
    <3>2. RoundInv'
      BY <2>3, <3>1 DEF RoundInv, RoundsFit, Round
    <3>3. QED
      BY <3>1, <3>2
  <2>4. CASE /\ roundAt' = roundAt /\ Fresh \intersect Reviews = {}
             /\ CloseRounds({r \in Idle(seat) : Broken(r, seat)}, seat)
    <3> DEFINE broken == {r \in Idle(seat) : Broken(r, seat)}
    <3>1. broken \in SUBSET Run /\ \A r \in broken, q \in Run : roundAt[q] < roundAt[r] /\ Waiting(q, seat) # {} => q \in broken
      BY BrokenIsOldest DEF Idle, RoundInv
    <3>2. seat' = Skip(broken, seat)
      BY <2>4 DEF CloseRounds
    <3> HIDE DEF broken
    <3>3. /\ RoundsFit(seat', roundAt)
          /\ \A r \in Run : \A c \in Round(r) : seat'[c] = IF r \in broken /\ seat[c] = "queued" THEN "skipped" ELSE seat[c]
      BY <2>1, <3>1, <3>2, ClosingFits DEF RoundInv
    <3>4. RoundInv' /\ Kept /\ CalledInOrder
      BY <2>4, <3>3, RoundMembers DEF RoundInv, RoundsFit, Round, CalledInOrder
    <3>5. QED
      BY <3>4
  <2>5. ASSUME NEW r \in Run, CrossReview(r)
        PROVE  RoundInv' /\ CalledInOrder /\ Created
    BY <2>5, CrossReviewFits
  <2>6. CASE Restart
    BY <2>6, RestartFits
  <2>7. QED
    BY <2>2, <2>3, <2>4, <2>5, <2>6, ReviewSteps
<1>2. ASSUME NEW c \in Reviews, c \in begun', NEW d \in ReviewedBefore(c)
      PROVE  seat'[d] \in {"absent", "accepted"}
  <2>1. CASE c \in Fresh
    BY <1>1, <1>2, <2>1 DEF CalledInOrder
  <2>2. CASE c \in begun
    <3>1. /\ seat[d] \in {"absent", "accepted"} /\ d \in Reviews /\ d \in Seat /\ c \in Seat
          /\ c \in Round(RunOf[c.of]) /\ d \in Round(RunOf[c.of]) /\ RunOf[d.of] = RunOf[c.of]
      BY <2>2, RoundMembers DEF ReviewersInOrder
    <3>2. seat[d] = "accepted" => seat'[d] = "accepted"
      BY <3>1, SeatsBegin
    <3>3. seat[c] # "absent"
      BY <2>2, <3>1 DEF TellInv, SeatTells
    <3>4. CASE seat[d] = "absent" /\ Created
      <4>1. PICK r \in Run : /\ \A x \in Round(r) : seat[x] = "absent"
                             /\ \A x \in Reviews : x \notin Round(r) => (seat'[x] = "absent" <=> seat[x] = "absent")
        BY <3>4
      <4>2. d \notin Round(r)
        BY <3>1, <3>3, <4>1, RoundMembers
      <4>3. QED
        BY <3>1, <3>4, <4>1, <4>2
    <3>5. CASE seat[d] = "absent" /\ Kept
      BY <3>1, <3>5
    <3>6. QED
      BY <1>1, <3>1, <3>2, <3>4, <3>5
  <2>3. QED
    BY <1>2, <2>1, <2>2 DEF Fresh
<1>3. ReviewersInOrder'
  BY <1>2 DEF ReviewersInOrder, ReviewedBefore
<1>4. QED
  BY <1>1, <1>3

-----------------------------------------------------------------------------
(* The invariant.                                                            *)

(***************************************************************************)
(* The invariant of the calls around a run: what each table says of its      *)
(* calls, which runs are there and what they use, that one seat is in flight, *)
(* that slots and budget hold, and in which order rounds and revisions go.   *)
(* A crash, a cancel or a call of unknown outcome leaves it true, and the    *)
(* properties below follow from it (invocations.py, reviews.py, revisions.py, *)
(* synthesis.py, coordinator.py:29).                                        *)
(***************************************************************************)
THEOREM UpperInvariant == Spec => []UpperInv
<1>1. Init => UpperInv
  <2> SUFFICES ASSUME Init PROVE UpperInv
    OBVIOUS
  <2>1. TypeOK
    BY UpperCallsAssumption DEF Init, TypeOK, SeatState, PartState
  <2>2. TellInv
    <3>1. IsFiniteSet(begun)
      BY FS_EmptySet DEF Init
    <3>2. QED
      BY <3>1 DEF Init, TellInv, SeatTells, SynTells, StateTells, InFlight
  <2>3. RunInv
    BY RosterAssumption DEF Init, RunInv
  <2>4. OneInFlight
    BY DEF Init, OneInFlight, InFlight
  <2>5. SlotInv
    <3>1. CallsIn(InFlight, workers) = {}
      BY DEF Init, CallsIn, InFlight, SynStatus
    <3>2. QED
      BY <3>1, FS_EmptySet, UpperCallsAssumption DEF SlotInv
  <2>6. EveryCallPaid
    BY FS_EmptySet, UpperCallsAssumption DEF Init, EveryCallPaid
  <2>7. BindInv
    BY DEF Init, BindInv, BindingHolds, InFlight, RunOfRefinement
  <2>8. RoundInv
    <3>1. \A r \in Run : roundAt[r] = 0 /\ \A c \in Round(r) : seat[c] = "absent"
      BY RoundMembers DEF Init
    <3>2. {q \in Run : roundAt[q] # 0} = {} /\ Cardinality({}) = 0
      BY <3>1, FS_EmptySet
    <3>3. QED
      BY <3>1, <3>2 DEF RoundInv, RoundsFit
  <2>9. ReviewersInOrder /\ RevisionInv
    BY DEF Init, ReviewersInOrder, RevisionInv, RevisionsRechecked
  <2>10. QED
    BY <2>1, <2>2, <2>3, <2>4, <2>5, <2>6, <2>7, <2>8, <2>9 DEF UpperInv
<1>2. UpperInv /\ [Next]_vars => UpperInv'
  <2> SUFFICES ASSUME UpperInv, [Next]_vars PROVE UpperInv'
    OBVIOUS
  <2>1. TypeOK /\ TellInv /\ RunInv /\ OneInFlight /\ SlotInv /\ EveryCallPaid /\ BindInv /\ RoundInv
        /\ ReviewersInOrder /\ RevisionInv
    BY DEF UpperInv
  <2>2. FlowInv /\ Flow
    BY <2>1, StepFlows DEF FlowInv
  <2>3. TypeOK' /\ Moves /\ Begins
    BY <2>2 DEF Flow
  <2>4. TellInv' /\ RunInv' /\ SlotInv' /\ EveryCallPaid'
    BY <2>2, FlowKept DEF FlowInv
  <2>5. OneInFlight'
    BY <2>1, <2>3, OneStays
  <2>6. BindInv'
    BY <2>1, <2>3, BindStays
  <2>7. RoundInv' /\ ReviewersInOrder'
    BY <2>1, <2>3, RoundsStay
  <2>8. RevisionInv'
    BY <2>1, <2>3, RevisionsStay
  <2>9. QED
    BY <2>3, <2>4, <2>5, <2>6, <2>7, <2>8 DEF UpperInv
<1>3. QED
  BY <1>1, <1>2, PTL DEF Spec

-----------------------------------------------------------------------------
(* What the invariant gives.                                                 *)

\* Whatever may be alive holds a slot.
LEMMA AliveHoldsSlots ==
  ASSUME TypeOK, TellInv
  PROVE  alive \subseteq CallsIn(InFlight, workers)
<1> SUFFICES ASSUME NEW c \in alive PROVE c \in CallsIn(InFlight, workers)
  OBVIOUS
<1>1. c \in Seat \/ c \in Synthesis \/ \E p \in Part : c = DraftOf(p)
  BY Kinds DEF TypeOK, Call
<1>2. CASE c \in Seat
  BY <1>2, CallsInMembers DEF TellInv, SeatTells
<1>3. CASE c \in Synthesis
  <2>1. SynStatus(c, workers) \in InFlight
    BY <1>3 DEF TellInv, SynTells, SynStatus, InFlight
  <2>2. QED
    BY <1>3, <2>1, CallsInMembers
<1>4. CASE \E p \in Part : c = DraftOf(p)
  BY <1>4, CallsInMembers DEF TellInv, StateTells
<1>5. QED
  BY <1>1, <1>2, <1>3, <1>4

LEMMA OneSeatAlive ==
  ASSUME TypeOK, TellInv, OneInFlight
  PROVE  OneUpperCall
<1>1. \A c, d \in alive \intersect Seat : c = d
  BY DEF TellInv, SeatTells, OneInFlight
<1>2. CASE alive \intersect Seat = {}
  BY <1>2, FS_EmptySet DEF OneUpperCall
<1>3. CASE alive \intersect Seat # {}
  <2>1. PICK c : alive \intersect Seat = {c}
    BY <1>1, <1>3
  <2>2. QED
    BY <2>1, FS_Singleton DEF OneUpperCall
<1>4. QED
  BY <1>2, <1>3

\* The calls that may be alive are within the slots (_slots_used), and the one
\* upper call and the reservations of all kinds within the budget; a run is
\* created from an accepted answer that no other run uses (PlanningSound,
\* invocations.py:123, 154, work.py:60).
THEOREM PlanningKept == Spec => []PlanningSound
<1>1. UpperInv => PlanningSound
  BY OneSeatAlive DEF UpperInv, PlanningSound, BindInv
<1>2. QED
  BY <1>1, UpperInvariant, PTL

\* A further revision of an answer answers a recheck that was accepted
\* (revisions.py:73).
THEOREM RevisionsAnswerRechecks == Spec => []RevisionsRechecked
<1>1. UpperInv => RevisionsRechecked
  BY DEF UpperInv, RevisionInv
<1>2. QED
  BY <1>1, UpperInvariant, PTL

LEMMA SlotsHold ==
  ASSUME TypeOK, TellInv, SlotInv
  PROVE  SlotsBound
<1>1. alive \subseteq CallsIn(InFlight, workers)
  BY AliveHoldsSlots
<1>2. IsFiniteSet(CallsIn(InFlight, workers))
  BY SlotsAreFinite
<1>3. /\ Cardinality(alive) <= Cardinality(CallsIn(InFlight, workers))
      /\ Cardinality(alive) \in Nat /\ Cardinality(CallsIn(InFlight, workers)) \in Nat
  BY <1>1, <1>2, FS_Subset, FS_CardinalityType
<1>4. MaxParallel \in Nat
  BY UpperCallsAssumption
<1>5. QED
  BY <1>3, <1>4 DEF SlotInv, SlotsBound

\* Only create_run opens a run, and only a judgment of the user judges one.
LEMMA OnlyCreateOpens ==
  ASSUME TypeOK, [Next]_vars, NEW r \in Run, phase[r] = "absent", phase'[r] # "absent"
  PROVE  \E q \in Request : CreateRun(q) /\ q.run = r
<1> SUFFICES ASSUME ~\E q \in Request : CreateRun(q) /\ q.run = r PROVE FALSE
  OBVIOUS
<1>0. phase' # phase /\ phase \in [Run -> {"absent", "drafting", "revealed", "collected"}]
  BY DEF TypeOK
<1>1. CASE AskStep \/ ReviewStep \/ SeatStep
  BY <1>0, <1>1 DEF AskStep, Ask, ReviewStep, CrossReview, SeatStep, SeatEnds, SeatLost, AcknowledgeSeat, ledger, drafting
<1>2. CASE SynthesisStep
  BY <1>0, <1>2 DEF SynthesisStep, StartSynthesis, SynthesisEnds, AcknowledgeSynthesis, MockSynthesis, drafting
<1>3. ASSUME NEW st, NEW ca, NEW ap
      PROVE  PhaseAfter(r, st, phase, ca, ap) = "absent"
  BY GateOpens
<1>4. CASE RunStep
  <2>1. ASSUME NEW q \in Request, PrepareRun(q) \/ CreateRun(q) \/ RefuseRun(q)
        PROVE  FALSE
    <3>1. CASE CreateRun(q)
      BY <1>0, <3>1 DEF CreateRun
    <3>2. CASE PrepareRun(q) \/ RefuseRun(q)
      BY <1>0, <3>2 DEF PrepareRun, RefuseRun, ledger, drafting
    <3>3. QED
      BY <2>1, <3>1, <3>2
  <2>2. ASSUME NEW p \in Part, NEW s, Decide(p, s)
        PROVE  FALSE
    BY <1>0, <1>3, <2>2, RosterAssumption DEF Decide
  <2>3. ASSUME NEW p \in Part, DraftEnds(p) \/ ManualEnds(p) \/ AcknowledgeUnknown(p)
        PROVE  FALSE
    BY <2>2, <2>3 DEF DraftEnds, ManualEnds, AcknowledgeUnknown
  <2>4. ASSUME NEW d \in Run, ApproveReduction(d)
        PROVE  FALSE
    BY <1>0, <1>3, <2>4 DEF ApproveReduction
  <2>5. ASSUME NEW d \in Run, CancelRun(d) \/ MarkReviewed(d)
        PROVE  FALSE
    BY <1>0, <2>5 DEF CancelRun, MarkReviewed, drafting
  <2>6. QED
    BY <1>4, <2>1, <2>3, <2>4, <2>5 DEF RunStep
<1>5. CASE PumpStep
  <2>1. PICK ws : PumpBody(ws)
    BY <1>5 DEF PumpStep, Pump, Exit
  <2>2. CASE ServeQueue(ws)
    BY <1>0, <1>3, <2>2 DEF ServeQueue
  <2>3. CASE UNCHANGED ledger \/ UNCHANGED drafting
    BY <1>0, <2>3 DEF ledger, drafting
  <2>4. QED
    BY <2>1, <2>2, <2>3 DEF PumpBody
<1>6. CASE Restart
  BY <1>0, <1>6 DEF Restart
<1>7. CASE Resume \/ Shutdown \/ Crash \/ UNCHANGED vars
  BY <1>0, <1>7 DEF Resume, Shutdown, Crash, vars, ledger, drafting
<1>8. QED
  BY <1>1, <1>2, <1>4, <1>5, <1>6, <1>7 DEF Next, WorldStep

LEMMA OnlyMarkJudges ==
  ASSUME [Next]_vars
  PROVE  judged' \subseteq judged \/ \E r \in Run : MarkReviewed(r)
<1>0. \A E : News(E) => judged' \subseteq judged
  BY DEF News
<1>1. \A c, s, ws, E : Launch(c, s, ws, E) => judged' \subseteq judged
  BY <1>0 DEF Launch
<1>2. \A start, s, at, ws : AdvanceReviews(start, s, at, ws) => judged' \subseteq judged
  <2> SUFFICES ASSUME NEW start, NEW s, NEW at, NEW ws, AdvanceReviews(start, s, at, ws) PROVE judged' \subseteq judged
    OBVIOUS
  <2>1. \/ \E c, t, E : Launch(c, t, ws, E)
        \/ \E R : CloseRounds(R, s)
    BY DEF AdvanceReviews
  <2>2. QED
    BY <1>0, <1>1, <2>1 DEF CloseRounds
<1>3. CASE AskStep \/ ReviewStep
  BY <1>1, <1>2, <1>3 DEF AskStep, Ask, ReviewStep, CrossReview
<1>4. CASE SeatStep
  BY <1>0, <1>4 DEF SeatStep, SeatEnds, SeatLost, AcknowledgeSeat, ledger
<1>5. CASE SynthesisStep
  BY <1>0, <1>5 DEF SynthesisStep, StartSynthesis, SynthesisEnds, AcknowledgeSynthesis, MockSynthesis, NoNews
<1>6. CASE RunStep
  <2>1. ASSUME NEW q \in Request, PrepareRun(q) \/ CreateRun(q) \/ RefuseRun(q)
        PROVE  judged' = judged
    BY <2>1 DEF PrepareRun, CreateRun, RefuseRun, ledger
  <2>2. ASSUME NEW p \in Part, DraftEnds(p) \/ ManualEnds(p) \/ AcknowledgeUnknown(p)
        PROVE  judged' = judged
    BY <2>2 DEF DraftEnds, ManualEnds, AcknowledgeUnknown
  <2>3. ASSUME NEW r \in Run, ApproveReduction(r) \/ CancelRun(r)
        PROVE  judged' = judged
    BY <2>3 DEF ApproveReduction, CancelRun
  <2>4. QED
    BY <1>6, <2>1, <2>2, <2>3 DEF RunStep
<1>7. CASE PumpStep
  BY <1>0, <1>2, <1>7 DEF PumpStep, Pump, Exit, PumpBody, CloseRounds, ledger
<1>8. CASE WorldStep
  BY <1>0, <1>8 DEF WorldStep, Resume, Shutdown, Crash, Restart, ledger
<1>9. CASE UNCHANGED vars
  BY <1>9 DEF vars, ledger
<1>10. QED
  BY <1>3, <1>4, <1>5, <1>6, <1>7, <1>8, <1>9 DEF Next

\* Nothing is called a second time, and a run from a role board starts with no
\* process alive but those a user has vouched for (PlanningStarts,
\* coordinator.py:329, 499, work.py:44).
THEOREM CallsStartClean == Spec => PlanningStarts
<1>1. UpperInv /\ [Next]_vars => [\A c \in workers' \ workers : c \notin begun]_vars
  <2> SUFFICES ASSUME UpperInv, [Next]_vars, NEW c \in workers' \ workers PROVE c \notin begun
    OBVIOUS
  <2>1. Begins
    BY StepFlows DEF UpperInv, FlowInv, Flow
  <2>2. QED
    BY <2>1 DEF Begins, Fresh
<1>2. UpperInv /\ [Next]_vars => [\A r \in Board : phase[r] = "absent" /\ phase'[r] # "absent" => alive = {}]_vars
  <2> SUFFICES ASSUME UpperInv, [Next]_vars, NEW r \in Board, phase[r] = "absent", phase'[r] # "absent" PROVE alive = {}
    OBVIOUS
  <2>1. PICK q \in Request : CreateRun(q) /\ q.run = r
    BY OnlyCreateOpens, UpperCallsAssumption DEF UpperInv
  <2>2. CallsIn(InFlight, workers) = {}
    BY <2>1 DEF CreateRun, BoardFree
  <2>3. QED
    BY <2>2, AliveHoldsSlots DEF UpperInv
<1>3. Spec => NeverCalledAgain
  BY <1>1, UpperInvariant, PTL DEF Spec, NeverCalledAgain
<1>4. Spec => BoardStartsClean
  BY <1>2, UpperInvariant, PTL DEF Spec, BoardStartsClean
<1>5. QED
  BY <1>3, <1>4 DEF PlanningStarts

LEMMA RunsOfOne == \A r : \A c \in Seat : r \in RunsOf(c) => RunsOf(c) = {r}
BY DEF RunsOf

\* An upper call starts only where no run takes answers, and a run is judged only
\* when none of its calls may be alive (RoundsInTurn, invocations.py:172,
\* reviews.py:485).
THEOREM CallsInTurn == Spec => RoundsInTurn
<1>1. UpperInv /\ [Next]_vars => [(workers' \ workers) \intersect Seat # {} => OpenRuns = {}]_vars
  <2> SUFFICES ASSUME UpperInv, [Next]_vars, NEW c \in (workers' \ workers) \intersect Seat PROVE OpenRuns = {}
    OBVIOUS
  <2>1. Begins
    BY StepFlows DEF UpperInv, FlowInv, Flow
  <2>2. c \in Fresh
    BY <2>1 DEF Begins
  <2>3. QED
    BY <2>1, <2>2 DEF Begins
<1>2. UpperInv /\ [Next]_vars => [\A r \in judged' \ judged : \A c \in alive : r \notin RunsOf(c)]_vars
  <2> SUFFICES ASSUME UpperInv, [Next]_vars, NEW r \in judged' \ judged, NEW c \in alive, r \in RunsOf(c) PROVE FALSE
    OBVIOUS
  <2>1. PICK d \in Run : MarkReviewed(d)
    BY OnlyMarkJudges
  <2>2. d = r
    BY <2>1 DEF MarkReviewed
  <2>3. Open(r) /\ Pending(r) = {} /\ r \in Run
    BY <2>1, <2>2 DEF MarkReviewed
  <2>4. c \in CallsIn(InFlight, workers) /\ c \in Call /\ TypeOK /\ RunInv
    BY AliveHoldsSlots DEF UpperInv, TypeOK
  <2>5. CASE c \in Seat
    <3>1. RunsOf(c) = {r} /\ seat[c] \in InFlight
      BY <2>4, <2>5, CallsInMembers, RunsOfOne
    <3>2. QED
      BY <2>3, <2>5, <3>1 DEF Pending
  <2>6. CASE c \in Synthesis
    <3>1. RunsOf(c) = {c.of} /\ SynStatus(c, workers) \in InFlight
      BY <2>4, <2>6, CallsInMembers, Kinds DEF RunsOf
    <3>2. c \in SynthesisOf(r)
      BY <2>6, <3>1 DEF SynthesisOf
    <3>3. QED
      BY <2>3, <3>1, <3>2 DEF Pending
  <2>7. CASE c \in Draft
    <3>1. PICK p \in Part : c = DraftOf(p)
      BY <2>7, Kinds
    <3>2. RunsOf(c) = {RunOf[p]} /\ state[p] \in InFlight
      BY <2>4, <3>1, CallsInMembers, Kinds DEF RunsOf
    <3>3. phase[RunOf[p]] \in {"revealed", "collected"}
      BY <2>3, <3>2 DEF Open
    <3>4. QED
      BY <2>4, <3>2, <3>3 DEF RunInv, InFlight, Done
  <2>8. QED
    BY <2>4, <2>5, <2>6, <2>7 DEF Call
<1>3. Spec => UpperCallsAlone
  BY <1>1, UpperInvariant, PTL DEF Spec, UpperCallsAlone
<1>4. Spec => JudgmentAfterCalls
  BY <1>2, UpperInvariant, PTL DEF Spec, JudgmentAfterCalls
<1>5. QED
  BY <1>3, <1>4 DEF RoundsInTurn

-----------------------------------------------------------------------------
(* No round is forgotten.                                                    *)

\* Finitely many rounds have an oldest.
LEMMA OldestExists ==
  ASSUME NEW S, IsFiniteSet(S), S # {}, NEW at, \A r \in S : at[r] \in Nat
  PROVE  \E r \in S : \A q \in S : at[r] <= at[q]
<1> DEFINE below(r) == {q \in S : at[q] < at[r]}
           T == {below(r) : r \in S}
<1>1. IsWellFoundedOn(StrictSubsetOrdering(S), FiniteSubsetsOf(S))
  BY FS_StrictSubsetOrderingWellFounded
<1>2. T \subseteq FiniteSubsetsOf(S) /\ T # {}
  <2>1. \A r \in S : below(r) \subseteq S /\ IsFiniteSet(below(r))
    BY FS_Subset
  <2>2. FiniteSubsetsOf(S) = SUBSET S
    BY FS_FiniteSubsetsOfFinite
  <2> HIDE DEF below
  <2>3. QED
    BY <2>1, <2>2
<1> HIDE DEF T
<1>3. PICK m \in T : \A y \in T : <<y, m>> \notin StrictSubsetOrdering(S)
  BY <1>1, <1>2, WFMin
<1>4. PICK r \in S : m = below(r)
  BY DEF T
<1>5. ASSUME NEW q \in S, at[q] < at[r]
      PROVE FALSE
  <2>1. below(q) \in T /\ below(q) \subseteq below(r) /\ q \in below(r) /\ q \notin below(q)
    BY <1>5 DEF T
  <2>2. below(q) # below(r) /\ below(q) \subseteq S /\ below(r) \subseteq S
    BY <2>1
  <2> HIDE DEF below
  <2>3. <<below(q), below(r)>> \in StrictSubsetOrdering(S)
    BY <2>1, <2>2 DEF StrictSubsetOrdering
  <2>4. QED
    BY <1>3, <1>4, <2>1, <2>3
<1>6. QED
  BY <1>5

NothingBroken(s) == \A r \in Idle(s) : ~Broken(r, s)

\* Where all broken rounds are closed, none is broken.
LEMMA ClosedIsWhole ==
  ASSUME NEW s \in SeatTables, NEW R \in SUBSET Run, \A r \in Idle(s) : Broken(r, s) => r \in R
  PROVE  /\ \A r \in Idle(Skip(R, s)) : r \in Idle(s) /\ r \notin R
         /\ NothingBroken(Skip(R, s))
<1> DEFINE t == Skip(R, s)
<1>1. \A r \in Run : \A c \in Round(r) : t[c] = IF r \in R /\ s[c] = "queued" THEN "skipped" ELSE s[c]
  BY RoundMembers DEF Skip, Waiting
<1> HIDE DEF t
<1>2. ASSUME NEW r \in Idle(t)
      PROVE  r \in Idle(s) /\ r \notin R /\ ~Broken(r, t)
  <2>1. r \in Run /\ Waiting(r, t) # {} /\ ~Running(r, t)
    BY <1>2 DEF Idle
  <2>2. r \notin R
    BY <1>1, <2>1 DEF Waiting
  <2>3. \A c \in Round(r) : t[c] = s[c]
    BY <1>1, <2>1, <2>2
  <2>4. Waiting(r, s) # {} /\ ~Running(r, s)
    BY <2>1, <2>3 DEF Waiting, Running
  <2>5. r \in Idle(s)
    BY <2>1, <2>4 DEF Idle
  <2>6. ~Broken(r, s)
    BY <2>2, <2>5
  <2>7. QED
    BY <2>2, <2>3, <2>5, <2>6 DEF Broken
<1>3. QED
  BY <1>2 DEF NothingBroken, t

\* pump() leaves no broken round, and calls the next reviewer where it can.
LEMMA AdvanceSettles ==
  ASSUME TypeOK, ~StartFaults, NEW s \in SeatTables, Asks(s), NEW at \in [Run -> Nat], RoundsFit(s, at),
         NEW start \in BOOLEAN, NEW ws \in SUBSET Call, AdvanceReviews(start, s, at, ws)
  PROVE  /\ NothingBroken(seat')
         /\ \/ \E c \in Seat : seat'[c] = "running"
            \/ used' = used /\ ~Affordable
            \/ /\ workers' = ws /\ \E R \in SUBSET Run : seat' = Skip(R, s)
               /\ start /\ ReviewGate(ws) => Idle(seat') = {}
<1> DEFINE broken == {r \in Idle(s) : Broken(r, s)}
           first == {r \in Idle(s) \ broken : \A q \in Idle(s) \ broken : at[r] <= at[q]}
           behind == {r \in broken : \E q \in first : at[q] < at[r]}
           closed == broken \ behind
<1>1. /\ \A r \in Idle(s) : r \in Run /\ Waiting(r, s) # {}
      /\ \A r \in Idle(s) : Broken(r, s) => r \in broken
  BY DEF Idle
<1>2. behind = {} /\ closed = broken
  BY <1>1, BrokenIsOldest
<1>3. broken \in SUBSET Run /\ first \subseteq Run
  BY <1>1
<1>4. CASE start /\ ReviewGate(ws) /\ first # {}
  <2>1. PICK r \in first, c \in UNION {Waiting(q, s) : q \in first} :
            /\ \A d \in Waiting(r, s) : Row[c.of] <= Row[d.of]
            /\ \/ Launch(c, Skip(closed, s), ws, Skipped(closed, s))
               \/ /\ ~Affordable \/ StartFaults
                  /\ CloseRounds(closed \union {r}, s)
                  /\ workers' = ws
                  /\ UNCHANGED <<used, alive, begun>>
    BY <1>4 DEF AdvanceReviews
  <2>2. c \in Reviews /\ c \in Seat /\ c \in Round(RunOf[c.of]) /\ RunOf[c.of] \in Run
    BY RoundMembers DEF Waiting
  <2> HIDE DEF first, behind, closed, broken
  <2>3. CASE Launch(c, Skip(closed, s), ws, Skipped(closed, s))
    <3> DEFINE t == Skip(broken, s)
    <3>1. seat' = [t EXCEPT ![c] = "running"] /\ t \in SeatTables
      BY <1>2, <2>3, SkipType DEF Launch
    <3>2. NothingBroken(t)
      BY <1>1, <1>3, ClosedIsWhole
    <3> HIDE DEF t
    <3>3. seat'[c] = "running" /\ \A d \in Seat : d # c => seat'[d] = t[d]
      BY <2>2, <3>1 DEF SeatTables
    <3>4. ASSUME NEW q \in Idle(seat')
          PROVE  ~Broken(q, seat')
      <4>1. q \in Run /\ Waiting(q, seat') # {} /\ ~Running(q, seat')
        BY <3>4 DEF Idle
      <4>2. c \notin Round(q)
        BY <3>3, <4>1 DEF Running
      <4>3. \A d \in Round(q) : seat'[d] = t[d]
        BY <3>3, <4>2, RoundMembers
      <4>4. Waiting(q, t) # {} /\ ~Running(q, t)
        BY <4>1, <4>3 DEF Waiting, Running
      <4>5. ~Broken(q, t)
        BY <3>2, <4>1, <4>4 DEF NothingBroken, Idle
      <4>6. QED
        BY <4>3, <4>5 DEF Broken
    <3>5. QED
      BY <2>2, <3>3, <3>4 DEF NothingBroken
  <2>4. CASE ~Affordable /\ CloseRounds(closed \union {r}, s) /\ used' = used
    <3>1. broken \union {r} \in SUBSET Run
      BY <1>3
    <3>2. seat' = Skip(broken \union {r}, s)
      BY <1>2, <2>4 DEF CloseRounds
    <3>3. NothingBroken(seat')
      BY <1>1, <3>1, <3>2, ClosedIsWhole
    <3>4. QED
      BY <2>4, <3>3
  <2>5. QED
    BY <2>1, <2>3, <2>4
<1>5. CASE ~(start /\ ReviewGate(ws) /\ first # {})
  <2>1. seat' = Skip(broken, s) /\ workers' = ws
    BY <1>5 DEF AdvanceReviews, CloseRounds
  <2>2. first = {} => Idle(s) \ broken = {}
    <3>1. SUFFICES ASSUME Idle(s) \ broken # {} PROVE first # {}
      OBVIOUS
    <3> DEFINE S == Idle(s) \ broken
    <3>2. IsFiniteSet(S) /\ \A r \in S : at[r] \in Nat
      BY <1>1, RosterAssumption, FS_Subset
    <3> HIDE DEF S, broken
    <3>3. \E r \in S : \A q \in S : at[r] <= at[q]
      BY <3>1, <3>2, OldestExists DEF S
    <3>4. QED
      BY <3>3 DEF S
  <2> HIDE DEF first, broken
  <2>3. NothingBroken(seat') /\ \A r \in Idle(seat') : r \in Idle(s) /\ r \notin broken
    BY <1>1, <1>3, <2>1, ClosedIsWhole
  <2>4. start /\ ReviewGate(ws) => Idle(seat') = {}
    BY <1>5, <2>2, <2>3
  <2>5. QED
    BY <1>3, <2>1, <2>3, <2>4
<1>6. QED
  BY <1>4, <1>5

\* Who holds a slot, or is unknown, is the same where the tables say the same.
LEMMA SameHolds ==
  ASSUME NEW states, NEW ws, workers' = ws, state' = state,
         \A c \in Seat : seat'[c] \in states <=> seat[c] \in states,
         \A c \in Synthesis : SynStatus(c, workers)' \in states <=> SynStatus(c, ws) \in states
  PROVE  CallsIn(states, workers)' = CallsIn(states, ws)
<1>1. CallsIn(states, workers)' =
        {DraftOf(p) : p \in {q \in Part : state'[q] \in states}}
          \union {c \in Seat : seat'[c] \in states}
          \union {c \in Synthesis : SynStatus(c, workers)' \in states}
  BY DEF CallsIn, DraftOf, Id
<1>2. {c \in Seat : seat'[c] \in states} = {c \in Seat : seat[c] \in states}
  OBVIOUS
<1>3. {c \in Synthesis : SynStatus(c, workers)' \in states} = {c \in Synthesis : SynStatus(c, ws) \in states}
  OBVIOUS
<1>4. QED
  BY <1>1, <1>2, <1>3 DEF CallsIn

\* Where the gate and the rounds are what they were, a stalled round was stalled.
LEMMA StillStalled ==
  ASSUME RoundStalled', Up, owed = 0, settled = {}, \A c \in Reviews : seat'[c] = seat[c],
         ~Held(workers)' /\ ReviewGate(workers)' /\ used' < CallCap =>
           ~Held(workers) /\ ReviewGate(workers) /\ used < CallCap
  PROVE  RoundStalled
<1>1. \A r : \A c \in Round(r) : seat'[c] = seat[c]
  BY RoundMembers
<1>2. \A r \in Run : /\ r \in Idle(seat)' <=> r \in Idle(seat)
                     /\ Broken(r, seat)' <=> Broken(r, seat)
  BY <1>1 DEF Idle, Waiting, Running, Broken, Round
<1>3. PICK r \in Idle(seat)' :
        Broken(r, seat)' \/ (~Held(workers)' /\ ReviewGate(workers)' /\ used' < CallCap)
  BY DEF RoundStalled
<1>4. r \in Run
  BY <1>3 DEF Idle
<1>5. QED
  BY <1>2, <1>3, <1>4 DEF RoundStalled

LEMMA AdvanceForgetsNone ==
  ASSUME TypeOK, ~StartFaults, NEW s \in SeatTables, Asks(s), NEW at \in [Run -> Nat], RoundsFit(s, at),
         NEW start \in BOOLEAN, NEW ws \in SUBSET Call, AdvanceReviews(start, s, at, ws),
         UNCHANGED drafting, UNCHANGED <<syn, paused>>, start \/ Held(ws)
  PROVE  ~RoundStalled'
<1>1. /\ NothingBroken(seat')
      /\ \/ \E c \in Seat : seat'[c] = "running"
         \/ used' = used /\ ~Affordable
         \/ /\ workers' = ws /\ \E R \in SUBSET Run : seat' = Skip(R, s)
            /\ start /\ ReviewGate(ws) => Idle(seat') = {}
  BY AdvanceSettles
<1> SUFFICES ASSUME RoundStalled' PROVE FALSE
  OBVIOUS
<1>2. PICK r \in Idle(seat') : ~Held(workers)' /\ ReviewGate(workers)' /\ used' < CallCap
  <2>1. PICK r \in Idle(seat)' : Broken(r, seat)' \/ (~Held(workers)' /\ ReviewGate(workers)' /\ used' < CallCap)
    BY DEF RoundStalled
  <2>2. r \in Idle(seat') /\ (Broken(r, seat') <=> Broken(r, seat)')
    BY <2>1 DEF Idle, Broken, Waiting, Running, Round
  <2>3. QED
    BY <1>1, <2>1, <2>2 DEF NothingBroken
<1>3. CASE \E c \in Seat : seat'[c] = "running"
  BY <1>2, <1>3 DEF ReviewGate, Busy, InFlight
<1>4. CASE used' = used /\ ~Affordable
  BY <1>2, <1>4 DEF Affordable
<1>5. CASE /\ workers' = ws /\ \E R \in SUBSET Run : seat' = Skip(R, s)
           /\ start /\ ReviewGate(ws) => Idle(seat') = {}
  <2>1. PICK R \in SUBSET Run : seat' = Skip(R, s)
    BY <1>5
  <2>2. \A c \in Seat : seat'[c] = seat[c] \/ (seat[c] \in {"absent", "queued"} /\ seat'[c] \in {"queued", "skipped"})
    BY <2>1, SkipMoves
  <2>3. \A c \in Synthesis : SynStatus(c, workers)' = SynStatus(c, ws)
    BY <1>5 DEF SynStatus
  <2>4. CallsIn(InFlight, workers)' = CallsIn(InFlight, ws)
    <3>1. \A c \in Seat : seat'[c] \in InFlight <=> seat[c] \in InFlight
      BY <2>2 DEF InFlight
    <3>2. QED
      BY <1>5, <2>3, <3>1, SameHolds DEF drafting
  <2>5. CallsIn({"unknown"}, workers)' = CallsIn({"unknown"}, ws)
    <3>1. \A c \in Seat : seat'[c] \in {"unknown"} <=> seat[c] \in {"unknown"}
      BY <2>2
    <3>2. QED
      BY <1>5, <2>3, <3>1, SameHolds DEF drafting
  <2>6. Held(workers)' <=> Held(ws)
    BY <2>5 DEF Held
  <2>7. ReviewGate(workers)' => ReviewGate(ws)
    <3>1. SlotFree(workers)' <=> SlotFree(ws)
      BY <2>4 DEF SlotFree
    <3>2. OpenRuns' = OpenRuns
      BY DEF OpenRuns, Accepting, drafting
    <3>3. Busy => Busy'
      BY <2>2 DEF Busy, InFlight
    <3>4. QED
      BY <3>1, <3>2, <3>3 DEF ReviewGate
  <2>8. QED
    BY <1>2, <1>5, <2>6, <2>7
<1>6. QED
  BY <1>1, <1>3, <1>4, <1>5

LEMMA QueueForgetsNone ==
  ASSUME TypeOK, TellInv, RunInv, EveryCallPaid, Queue # {}, NEW ws \in SUBSET workers, ServeQueue(ws),
         CloseRounds({r \in Idle(seat) : Broken(r, seat)}, seat), UNCHANGED cancelled
  PROVE  ~RoundStalled'
<1> SUFFICES ASSUME RoundStalled' PROVE FALSE
  OBVIOUS
<1> DEFINE broken == {r \in Idle(seat) : Broken(r, seat)}
<1>1. broken \in SUBSET Run /\ seat' = Skip(broken, seat) /\ seat \in SeatTables
  BY SelfSkip DEF CloseRounds, Idle
<1>2. \A r \in Idle(seat) : Broken(r, seat) => r \in broken
  OBVIOUS
<1> HIDE DEF broken
<1>3. NothingBroken(seat')
  BY <1>1, <1>2, ClosedIsWhole
<1>4. ReviewGate(workers)' /\ used' < CallCap
  <2>1. PICK r \in Idle(seat)' : Broken(r, seat)' \/ (~Held(workers)' /\ ReviewGate(workers)' /\ used' < CallCap)
    BY DEF RoundStalled
  <2>2. r \in Idle(seat') /\ (Broken(r, seat') <=> Broken(r, seat)')
    BY <2>1 DEF Idle, Broken, Waiting, Running, Round
  <2>3. QED
    BY <1>3, <2>1, <2>2 DEF NothingBroken
<1>5. PICK S \in SUBSET Queue, refused \in SUBSET Queue :
        /\ refused # {} => used' = CallCap
        /\ phase' = [r \in Run |-> IF \E p \in refused : RunOf[p] = r
                                   THEN PhaseAfter(r, state', phase, cancelled, approved) ELSE phase[r]]
  BY ServeQueueShape
<1>6. refused = {}
  BY <1>4, <1>5, UpperCallsAssumption
<1>7. PICK p \in Part : state[p] = "queued" /\ RunOf[p] \notin cancelled
  BY DEF Queue
<1>8. phase[RunOf[p]] = "drafting" /\ RunOf[p] \in Run
  BY <1>7, RosterAssumption DEF RunInv, TypeOK, Done
<1>9. phase'[RunOf[p]] = "drafting"
  BY <1>5, <1>6, <1>8
<1>10. RunOf[p] \in OpenRuns'
  BY <1>7, <1>8, <1>9 DEF OpenRuns, Accepting
<1>11. QED
  BY <1>4, <1>10 DEF ReviewGate

LEMMA NobodyForgotten ==
  ASSUME UpperInv, NoForgottenRound, [Next]_vars
  PROVE  NoForgottenRound'
<1> SUFFICES ASSUME ~StartFaults, ~RoundStalled, RoundStalled' PROVE FALSE
  BY DEF NoForgottenRound
<1>1. TypeOK /\ TellInv /\ RunInv /\ EveryCallPaid /\ RoundInv
  BY DEF UpperInv
<1>2. Up' /\ owed' = 0 /\ settled' = {}
  BY DEF RoundStalled
<1>3. owed \in Nat /\ seat \in [Seat -> SeatState]
  BY <1>1 DEF TypeOK
<1>4. ASSUME UNCHANGED <<seat, syn, state, phase, cancelled, workers, paused, used, mode, owed, settled>>
      PROVE  FALSE
  <2>1. /\ CallsIn(InFlight, workers)' = CallsIn(InFlight, workers)
        /\ CallsIn({"unknown"}, workers)' = CallsIn({"unknown"}, workers)
    <3>1. \A c : SynStatus(c, workers)' = SynStatus(c, workers)
      BY <1>4 DEF SynStatus
    <3>2. QED
      BY <1>4, <3>1, SameHolds
  <2>2. Held(workers)' <=> Held(workers)
    BY <1>4, <2>1 DEF Held
  <2>3. ReviewGate(workers)' <=> ReviewGate(workers)
    BY <1>4, <2>1 DEF ReviewGate, SlotFree, Busy, OpenRuns, Accepting
  <2>4. Up /\ owed = 0 /\ settled = {}
    BY <1>2, <1>4 DEF Up
  <2>5. QED
    BY <1>4, <2>2, <2>3, <2>4, StillStalled
<1>5. ASSUME NEW c \in Seat, Ask(c)
      PROVE  FALSE
  <2>1. CanCall(c) /\ Launch(c, seat, workers, {}) /\ UNCHANGED <<mode, settled, owed>>
    BY <1>5 DEF Ask
  <2>2. seat' = [seat EXCEPT ![c] = "running"] /\ c \notin Reviews
    BY <2>1, Kinds DEF Launch, CanCall
  <2>3. ~ReviewGate(workers)'
    <3>1. seat'[c] = "running"
      BY <1>3, <2>2
    <3>2. QED
      BY <3>1 DEF ReviewGate, Busy, InFlight
  <2>4. \A d \in Reviews : seat'[d] = seat[d]
    BY <1>3, <2>2, Kinds
  <2>5. Up /\ owed = 0 /\ settled = {}
    BY <1>2, <2>1 DEF Up
  <2>6. QED
    BY <2>3, <2>4, <2>5, StillStalled
<1>6. ASSUME NEW r \in Run, CrossReview(r)
      PROVE  FALSE
  <2> DEFINE reviewers == {c \in Round(r) : c.of \in AcceptedCli(r)}
             s == [c \in Seat |-> IF c \in reviewers THEN "queued" ELSE seat[c]]
             at == [roundAt EXCEPT ![r] = 1 + Cardinality({q \in Run : roundAt[q] # 0})]
  <2>1. AdvanceReviews(TRUE, s, at, workers) /\ UNCHANGED <<drafting, syn, paused>>
    BY <1>6 DEF CrossReview
  <2>2. s \in SeatTables /\ Asks(s) /\ at \in [Run -> Nat] /\ RoundsFit(s, at)
    BY <1>1, <1>6, NewRoundFits
  <2> HIDE DEF s, at
  <2>3. workers \in SUBSET Call
    BY <1>1 DEF TypeOK
  <2>4. QED
    BY <1>1, <2>1, <2>2, <2>3, AdvanceForgetsNone
<1>7. ASSUME NEW c \in Seat, SeatEnds(c) \/ SeatLost(c) \/ AcknowledgeSeat(c)
      PROVE  FALSE
  BY <1>2, <1>3, <1>7 DEF SeatEnds, SeatLost, AcknowledgeSeat, Command
<1>8. ASSUME NEW c \in Synthesis, StartSynthesis(c)
      PROVE  FALSE
  <2>1. /\ ~Held(workers) /\ SlotFree(workers) /\ used < CallCap
        /\ UNCHANGED <<drafting, seat, mode, settled, owed>>
    BY <1>8 DEF StartSynthesis, Affordable
  <2>2. ReviewGate(workers)' => ReviewGate(workers)
    BY <2>1 DEF ReviewGate, Busy, OpenRuns, Accepting, drafting
  <2>3. Up /\ owed = 0 /\ settled = {}
    BY <1>2, <2>1 DEF Up
  <2>4. QED
    BY <2>1, <2>2, <2>3, StillStalled
<1>9. ASSUME NEW c \in Synthesis, SynthesisEnds(c) \/ AcknowledgeSynthesis(c)
      PROVE  FALSE
  BY <1>2, <1>3, <1>9 DEF SynthesisEnds, AcknowledgeSynthesis, Command
<1>10. ASSUME NEW r \in Run, MockSynthesis(r)
       PROVE  FALSE
  <2> DEFINE c == Id("synthesis", r, 0, 0)
  <2>1. syn' = [syn EXCEPT ![c] = "completed"] /\ UNCHANGED <<drafting, seat, used>> /\ UNCHANGED runtime
    BY <1>10 DEF MockSynthesis
  <2>2. c \in Synthesis /\ c.i = 0
    BY UpperCallsAssumption DEF Synthesis, Id
  <2> HIDE DEF c
  <2>3. c \notin workers /\ syn[c] \notin {"open", "unconfirmed"} /\ workers' = workers
    BY <1>1, <2>1, <2>2 DEF TellInv, SynTells, runtime
  <2>4. \A d \in Synthesis : \A u \in InFlight : SynStatus(d, workers)' = u <=> SynStatus(d, workers) = u
    <3>1. \A d \in Synthesis : d # c => SynStatus(d, workers)' = SynStatus(d, workers)
      BY <1>1, <2>1, <2>3 DEF SynStatus, TypeOK
    <3>2. SynStatus(c, workers) \notin InFlight /\ SynStatus(c, workers)' \notin InFlight
      BY <1>1, <2>1, <2>2, <2>3 DEF SynStatus, TypeOK, InFlight
    <3>3. QED
      BY <3>1, <3>2
  <2>5. /\ CallsIn(InFlight, workers)' = CallsIn(InFlight, workers)
        /\ CallsIn({"unknown"}, workers)' = CallsIn({"unknown"}, workers)
    BY <2>1, <2>3, <2>4, SameHolds DEF InFlight, drafting
  <2>6. Held(workers)' <=> Held(workers)
    BY <2>1, <2>5 DEF Held, runtime
  <2>7. ReviewGate(workers)' <=> ReviewGate(workers)
    BY <2>1, <2>5 DEF ReviewGate, SlotFree, Busy, OpenRuns, Accepting, drafting
  <2>8. Up /\ owed = 0 /\ settled = {}
    BY <1>2, <2>1 DEF Up, runtime
  <2>9. QED
    BY <2>1, <2>6, <2>7, <2>8, StillStalled
<1>11. CASE RunStep
  <2>1. ASSUME NEW q \in Request, CreateRun(q)
        PROVE  FALSE
    BY <1>2, <1>3, <2>1 DEF CreateRun, Command
  <2>2. ASSUME NEW q \in Request, PrepareRun(q) \/ RefuseRun(q)
        PROVE  FALSE
    BY <1>4, <2>2 DEF PrepareRun, RefuseRun, ledger, drafting, asking
  <2>3. ASSUME NEW p \in Part, DraftEnds(p) \/ ManualEnds(p) \/ AcknowledgeUnknown(p)
        PROVE  FALSE
    BY <1>2, <1>3, <2>3 DEF DraftEnds, ManualEnds, AcknowledgeUnknown, Command
  <2>4. ASSUME NEW r \in Run, ApproveReduction(r) \/ CancelRun(r)
        PROVE  FALSE
    BY <1>2, <1>3, <2>4 DEF ApproveReduction, CancelRun, Command
  <2>5. ASSUME NEW r \in Run, MarkReviewed(r)
        PROVE  FALSE
    BY <1>4, <2>5 DEF MarkReviewed, drafting, asking, runtime
  <2>6. QED
    BY <1>11, <2>1, <2>2, <2>3, <2>4, <2>5 DEF RunStep
<1>12. CASE PumpStep
  <2>1. PICK ws \in SUBSET workers : PumpBody(ws) /\ paused' = paused /\ mode' = mode
    BY <1>12 DEF PumpStep, Pump, Exit
  <2>2. seat \in SeatTables /\ Asks(seat) /\ roundAt \in [Run -> Nat] /\ RoundsFit(seat, roundAt) /\ ws \in SUBSET Call
    BY <1>1, <2>1, SelfSkip DEF TypeOK, RoundInv
  <2>3. mode # "closing"
    BY <1>2, <2>1 DEF Up
  <2>4. CASE Held(ws) /\ AdvanceReviews(FALSE, seat, roundAt, ws) /\ UNCHANGED <<drafting, syn, roundAt, bound>>
    BY <1>1, <2>1, <2>2, <2>4, AdvanceForgetsNone
  <2>5. CASE AdvanceReviews(TRUE, seat, roundAt, ws) /\ UNCHANGED <<drafting, syn, roundAt, bound>>
    BY <1>1, <2>1, <2>2, <2>5, AdvanceForgetsNone
  <2>6. CASE /\ Queue # {} /\ CloseRounds({r \in Idle(seat) : Broken(r, seat)}, seat)
             /\ ServeQueue(ws) /\ UNCHANGED <<cancelled, approved, syn, roundAt, bound>>
    BY <1>1, <2>6, QueueForgetsNone
  <2>7. QED
    BY <2>1, <2>3, <2>4, <2>5, <2>6 DEF PumpBody
<1>13. CASE Resume \/ Shutdown \/ Crash
  BY <1>2, <1>3, <1>13 DEF Resume, Shutdown, Crash, Command, Up
<1>14. CASE Restart
  <2> DEFINE s == [c \in Seat |-> Recovered(seat[c])]
             broken == {r \in Idle(s) : Broken(r, s)}
  <2>1. seat' = Skip(broken, s) /\ paused' = (Queue # {} \/ \E c \in Reviews : seat'[c] = "queued")
    BY <1>14 DEF Restart
  <2>2. s \in SeatTables
    BY <1>1 DEF TypeOK, SeatTables, SeatState, Recovered
  <2>3. broken \in SUBSET Run /\ \A r \in Idle(s) : Broken(r, s) => r \in broken
    BY DEF Idle
  <2> HIDE DEF s, broken
  <2>4. NothingBroken(seat')
    BY <2>1, <2>2, <2>3, ClosedIsWhole
  <2>5. PICK r \in Idle(seat)' : Broken(r, seat)' \/ (~Held(workers)' /\ ReviewGate(workers)' /\ used' < CallCap)
    BY DEF RoundStalled
  <2>6. r \in Idle(seat') /\ (Broken(r, seat') <=> Broken(r, seat)')
    BY <2>5 DEF Idle, Broken, Waiting, Running, Round
  <2>7. PICK c \in Reviews : seat'[c] = "queued"
    BY <2>6 DEF Idle, Waiting, Round
  <2>8. Held(workers)'
    BY <2>1, <2>7 DEF Held
  <2>9. QED
    BY <2>4, <2>5, <2>6, <2>8 DEF NothingBroken
<1>15. CASE UNCHANGED vars
  BY <1>4, <1>15 DEF vars, ledger, drafting, asking, runtime
<1>16. QED
  BY <1>5, <1>6, <1>7, <1>8, <1>9, <1>10, <1>11, <1>12, <1>13, <1>14, <1>15
     DEF Next, AskStep, ReviewStep, SeatStep, SynthesisStep, WorldStep

\* What may be alive is within the slots, reviewers are called one after the other
\* on accepted reviews only, and a round that can move always has a thread on its
\* way to pump() (RoundsSound, reviews.py:397, coordinator.py:40).
THEOREM RoundsKept == Spec => []RoundsSound
<1>1. Init => NoForgottenRound
  <2> SUFFICES ASSUME Init PROVE ~RoundStalled
    BY DEF NoForgottenRound
  <2>1. \A r : Waiting(r, seat) = {}
    BY RoundMembers DEF Init, Waiting
  <2>2. QED
    BY <2>1 DEF RoundStalled, Idle
<1>2. UpperInv /\ NoForgottenRound /\ [Next]_vars => NoForgottenRound'
  BY NobodyForgotten
<1>3. UpperInv /\ NoForgottenRound => RoundsSound
  BY SlotsHold DEF UpperInv, RoundsSound
<1>4. QED
  BY <1>1, <1>2, <1>3, UpperInvariant, PTL DEF Spec
=============================================================================
