-------------------------------- MODULE Handoff --------------------------------
(***************************************************************************)
(* The ledgers of earlier starts (app/ledgers.py): the open results of one of   *)
(* their tasks are bound into one text that can be attached to a run of this    *)
(* ledger.  They are only read.                                              *)
(*                                                                         *)
(* A run is its task, its phase, whether it was cancelled, when it was made,     *)
(* and the sizes of its question and of its answers.                         *)
(***************************************************************************)
EXTENDS Naturals, Sequences, FiniteSets, SequencesExt

CONSTANTS
  HandoffBytes,   \* HANDOFF_BYTES
  AnswerBytes,    \* ANSWER_BYTES
  HeadBytes       \* the longest head: the header and a title of 120 characters

PublicPhases == {"revealed", "synthesis", "collected"}

\* The empty line after a run.
Gap == 2

Sum(numbers) ==
  LET sum[n \in 0..Len(numbers)] == IF n = 0 THEN 0 ELSE sum[n - 1] + numbers[n]
  IN  sum[Len(numbers)]

-----------------------------------------------------------------------------
\* _cut: the bytes that are kept, and those that are left out.
Cut(size) == IF size <= AnswerBytes THEN [kept |-> size, omitted |-> 0] ELSE [kept |-> AnswerBytes, omitted |-> size - AnswerBytes]

\* _run_block
Size(run) == run.question + Sum([i \in 1..Len(run.answers) |-> Cut(run.answers[i]).kept])

Public(runs, task) == {r \in runs : r.task = task /\ r.phase \in PublicPhases /\ ~r.cancelled}

NewestFirst(runs) == CHOOSE s \in SetToSeqs(runs) : \A i, j \in DOMAIN s : i < j => s[i].made > s[j].made

\* The newest runs, up to the first that does not fit any more.
Bind(state, run) ==
  IF state.full \/ state.size + Size(run) > HandoffBytes THEN [state EXCEPT !.full = TRUE]
  ELSE [state EXCEPT !.size = @ + Size(run) + Gap, !.shown = Append(@, run)]

Bound(runs) ==
  LET bound[n \in 0..Len(runs)] ==
        IF n = 0 THEN [size |-> 0, shown |-> <<>>, full |-> FALSE] ELSE Bind(bound[n - 1], runs[n])
  IN bound[Len(runs)]

\* handoff
Handed(runs, task) ==
  LET bound == Bound(NewestFirst(Public(runs, task)))
  IN [text |-> Reverse(bound.shown), bytes |-> HeadBytes + bound.size,
      total |-> Cardinality({r \in runs : r.task = task}), public |-> Cardinality(Public(runs, task))]

-----------------------------------------------------------------------------
(* A handoff can be attached as a source of a new run; it has nothing that is    *)
(* still sealed, was cancelled or belongs to another task; its runs are in the    *)
(* order they were made, with none left out between them or after them; and it    *)
(* says how many there were, and the next one would not have fitted.            *)
HandoffIsOpen(runs, task, maxSourceBytes) ==
  LET handed == Handed(runs, task)
      shown == {handed.text[i] : i \in 1..Len(handed.text)}
  IN /\ handed.bytes <= maxSourceBytes
     /\ shown \subseteq Public(runs, task)
     /\ \A i, k \in DOMAIN handed.text : i < k => handed.text[i].made < handed.text[k].made
     /\ \A r \in Public(runs, task) \ shown : \A s \in shown : r.made < s.made
     /\ Cardinality(shown) <= handed.public /\ handed.public <= handed.total
     /\ \A r \in Public(runs, task) \ shown :
          (\A s \in Public(runs, task) \ shown : s.made <= r.made) =>
             Sum([i \in 1..Len(handed.text) |-> Size(handed.text[i]) + Gap]) + Size(r) > HandoffBytes

=============================================================================
