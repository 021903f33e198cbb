-------------------------------- MODULE Memory --------------------------------
(***************************************************************************)
(* What a new run of a task is told of the earlier ones (app/memory.py): which *)
(* runs are searched, which are chosen, and how much of each is quoted.        *)
(*                                                                         *)
(* A run is what the choice tells apart: its task, whether it is public, how   *)
(* well it matches the question (0: not at all), when it was made, and how     *)
(* many bytes its entry would take.  Excerpts are counted in bytes, of texts   *)
(* of one byte a letter.                                                    *)
(***************************************************************************)
EXTENDS Integers, Sequences, FiniteSets, SequencesExt

CONSTANTS
  MaxRuns,     \* entries of a pack (MAX_RUNS = 3)
  MaxBytes,    \* bytes of a pack (MAX_BYTES = 12000)
  Candidates,  \* runs that are looked at in full (CANDIDATES = 24)
  Budgets,     \* bytes of each section of an excerpt, in their order
  Preferred    \* the order in which the sections share what is left

Least(a, b) == IF a <= b THEN a ELSE b

\* What there is of a difference.
Surplus(a) == IF a > 0 THEN a ELSE 0

Sum(numbers) ==
  LET sum[n \in 0..Len(numbers)] == IF n = 0 THEN 0 ELSE sum[n - 1] + numbers[n]
  IN  sum[Len(numbers)]

-----------------------------------------------------------------------------
(* The choice of runs. *)
Public(r) == r.phase \in {"revealed", "synthesis", "collected"} /\ ~r.cancelled

\* Fault: whatever belongs to the task is searched.
EligibleOfTask(runs, task) == {r \in runs : r.task = task}

Eligible(runs, task) == {r \in runs : r.task = task /\ Public(r)}

Matched(runs) == {r \in runs : r.score > 0}

\* At least half as good as the best.
Strong(runs) == {r \in Matched(runs) : \A best \in runs : 2 * r.score >= best.score}

Before(r, s) == r.score > s.score \/ (r.score = s.score /\ r.made > s.made)

\* The best first.
InOrder(runs) == CHOOSE s \in SetToSeqs(runs) : \A i, j \in DOMAIN s : i < j => Before(s[i], s[j])

\* Without a match the latest runs are taken.
Ranked(runs) ==
  LET inOrder == InOrder(IF Strong(runs) = {} THEN runs ELSE Strong(runs))
  IN SubSeq(inOrder, 1, Least(Len(inOrder), Candidates))

Bytes(entries) == Sum([i \in 1..Len(entries) |-> entries[i].size])

\* An entry that does not fit is passed over; a later, smaller one may fit.
TakeUp(pack, r) ==
  IF Len(pack.entries) = MaxRuns THEN pack
  ELSE IF Bytes(pack.entries) + r.size > MaxBytes THEN [pack EXCEPT !.skipped = @ + 1]
  ELSE [pack EXCEPT !.entries = Append(@, r)]

Packed(ranked) ==
  LET packed[n \in 0..Len(ranked)] ==
        IF n = 0 THEN [entries |-> <<>>, skipped |-> 0] ELSE TakeUp(packed[n - 1], ranked[n])
  IN packed[Len(ranked)]

Select(runs, task) ==
  LET found == Eligible(runs, task)
      ranked == Ranked(found)
      pack == Packed(ranked)
  IN [entries |-> pack.entries,
      eligible |-> Cardinality(found),
      matched |-> Cardinality(Matched(found)),
      considered |-> Len(ranked),
      notConsidered |-> Surplus(Cardinality(Strong(found)) - Len(ranked)),
      belowFloor |-> Cardinality(Matched(found) \ Strong(found)),
      unselected |-> Len(ranked) - Len(pack.entries),
      skipped |-> pack.skipped]

-----------------------------------------------------------------------------
(* The excerpt of one run: for every section the lengths of its parts. *)
\* Two bytes between the parts.
Full(parts) == IF parts = <<>> THEN 0 ELSE Sum(parts) + 2 * (Len(parts) - 1)

\* Who comes next takes as much of what is left as it lacks.
Give(given, wanted, k) ==
  LET extra == Least(given.left, wanted[k] - given.sizes[k])
  IN [sizes |-> [given.sizes EXCEPT ![k] = @ + extra], left |-> given.left - extra]

GiveOut(sizes, wanted, left, order) ==
  LET given[n \in 0..Len(order)] ==
        IF n = 0 THEN [sizes |-> sizes, left |-> left] ELSE Give(given[n - 1], wanted, order[n])
  IN given[Len(order)].sizes

\* An equal share for every part, then what is left in order.
FairParts(parts, budget) ==
  LET available == Surplus(budget - 2 * (Len(parts) - 1))
      share == IF parts = <<>> THEN 0 ELSE available \div Len(parts)
      sizes == [i \in 1..Len(parts) |-> Least(parts[i], share)]
  IN GiveOut(sizes, parts, available - Sum(sizes), [i \in 1..Len(parts) |-> i])

SectionSizes(sections) ==
  LET full == [k \in 1..Len(sections) |-> Full(sections[k])]
      sizes == [k \in 1..Len(sections) |-> Least(full[k], Budgets[k])]
  IN GiveOut(sizes, full, Sum(Budgets) - Sum(sizes), Preferred)

-----------------------------------------------------------------------------
(* A pack holds entries of public runs of the same task only, few enough and   *)
(* small enough, the best first; a run that would have ranked before one of    *)
(* them is missing only because it did not fit with those before it; and its    *)
(* numbers account for every run that was found (memory.select 64-167).        *)
PackIsBest(runs, task) ==
  LET pack == Select(runs, task)
      taken == {pack.entries[i] : i \in 1..Len(pack.entries)}
      found == {r \in runs : r.task = task /\ Public(r)}
  IN /\ taken \subseteq found
     /\ Len(pack.entries) <= MaxRuns /\ Bytes(pack.entries) <= MaxBytes
     /\ \A i, j \in 1..Len(pack.entries) : i < j => Before(pack.entries[i], pack.entries[j])
     /\ \A i \in 1..Len(pack.entries), r \in found \ taken :
          Before(r, pack.entries[i]) =>
            \E k \in 0..(i - 1) : /\ \A j \in 1..Len(pack.entries) : j <= k <=> Before(pack.entries[j], r)
                                 /\ Bytes(SubSeq(pack.entries, 1, k)) + r.size > MaxBytes
     /\ pack.matched > 0 => pack.matched = Len(pack.entries) + pack.unselected + pack.notConsidered + pack.belowFloor
     /\ pack.skipped <= pack.unselected

(* An excerpt is no longer than all its budgets together, nothing is left out   *)
(* of a run that fits, and of a section too long for its place every part       *)
(* keeps at least its equal share (memory._fair_parts 230-244, _excerpt 247-262). *)
ExcerptIsFair(sections) ==
  LET sizes == SectionSizes(sections)
      full == [k \in 1..Len(sections) |-> Full(sections[k])]
  IN /\ Sum(sizes) <= Sum(Budgets)
     /\ Sum(full) <= Sum(Budgets) => sizes = full
     /\ \A k \in 1..Len(sections) :
          LET parts == sections[k]
              kept == FairParts(parts, sizes[k])
          IN /\ sizes[k] >= Least(full[k], Budgets[k])
             /\ sizes[k] >= 2 * (Len(parts) - 1) => Full(kept) <= sizes[k]
             /\ sizes[k] = full[k] => kept = parts
             /\ \A i \in 1..Len(parts) :
                  kept[i] < parts[i] => (kept[i] + 1) * Len(parts) > sizes[k] - 2 * (Len(parts) - 1)

==============================================================================
