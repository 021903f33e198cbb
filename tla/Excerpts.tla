------------------------------- MODULE Excerpts -------------------------------
(***************************************************************************)
(* The table of excerpts that stands in for a synthesis where no model is      *)
(* called (app/synthesis.py): the lines of the open drafts are taken in turn    *)
(* from each, equal lines are one claim, and the table is compared with the     *)
(* drafts it was taken from before it is shown.                              *)
(*                                                                         *)
(* A draft is a sequence of lines, a line is a number, and "too long" is a line *)
(* beyond MAX_EXCERPT_CHARS; blank lines are left out.  Of a participant it is     *)
(* known whether it was accepted and whether its draft is what its digest says.  *)
(***************************************************************************)
EXTENDS Naturals, Sequences, FiniteSets, SequencesExt, Functions

CONSTANTS MaxExcerpts, TooLong

-----------------------------------------------------------------------------
(* _sources: the accepted drafts in their order, if there are any and all are   *)
(* what their digests say.                                                   *)
Sources(participants) == SelectSeq(participants, LAMBDA p : p.accepted)

Usable(sources) == sources # <<>> /\ \A i \in DOMAIN sources : sources[i].intact

\* The lines in the order they are taken: the first of each draft, then the second of each...
Turns(sources) ==
  LET longest == FoldSeq(LAMBDA p, n : IF Len(p.draft) > n THEN Len(p.draft) ELSE n, 0, sources)
      all == FlattenSeq([k \in 1..longest |-> [i \in DOMAIN sources |-> [source |-> i, line |-> k]]])
  IN SelectSeq(all, LAMBDA t : t.line <= Len(sources[t.source].draft))

Said(sources, turn) == sources[turn.source].draft[turn.line]

\* What a line adds to the table: a claim, a reference, or one more line that is left out.
Take(table, turn, text) ==
  LET known == SelectInSeq(table.claims, LAMBDA c : c.text = text)
  IN  IF text = TooLong \/ (known = 0 /\ Len(table.claims) >= MaxExcerpts) THEN [table EXCEPT !.omitted = @ + 1]
      ELSE IF known = 0 THEN [table EXCEPT !.claims = Append(@, [text |-> text, references |-> <<turn>>])]
      ELSE IF \E t \in Range(table.claims[known].references) : t.source = turn.source THEN [table EXCEPT !.omitted = @ + 1]
      ELSE [table EXCEPT !.claims[known].references = Append(@, turn)]

\* mock_synthesize
Table(sources) ==
  FoldLeft(LAMBDA table, turn : Take(table, turn, Said(sources, turn)), [claims |-> <<>>, omitted |-> 0], Turns(sources))

\* compare_claims
Compares(claims, sources) ==
  \A i \in DOMAIN claims :
    /\ claims[i].references # <<>>
    /\ \A t \in Range(claims[i].references) : Said(sources, t) = claims[i].text

-----------------------------------------------------------------------------
(* Every line of every accepted draft is in the table or counted as left out,    *)
(* a participant supports a claim once, no draft is crowded out by a later line  *)
(* of another, and the comparison never refuses the table.                    *)
TableIsHonest(participants) ==
  LET sources == Sources(participants)
      table == Table(sources)
      shown == UNION {Range(table.claims[i].references) : i \in DOMAIN table.claims}
  IN Usable(sources) =>
       /\ Cardinality(shown) + table.omitted = Len(Turns(sources))
       /\ \A i \in DOMAIN table.claims : \A s, t \in Range(table.claims[i].references) : s.source = t.source => s = t
       /\ Compares(table.claims, sources)
       /\ \A i \in DOMAIN table.claims, t \in Range(Turns(sources)) :
            Said(sources, t) # TooLong /\ (\A k \in DOMAIN table.claims : table.claims[k].text # Said(sources, t))
              => table.claims[i].references[1].line <= t.line

=============================================================================
