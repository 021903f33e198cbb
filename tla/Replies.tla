-------------------------------- MODULE Replies --------------------------------
(***************************************************************************)
(* How the answer of an upper model is read and compared with the drafts it   *)
(* quotes (app/reply.py; the check functions of app/synthesis.py,             *)
(* app/collate.py, app/cross_review.py and app/revisions.py).                *)
(*                                                                         *)
(* A text is a sequence of characters, of which only those are told apart     *)
(* that JSON or the comparison treats differently.  An answer is a list of    *)
(* strings, "[" left out at its head; the fields around them, their lengths    *)
(* and the wording of errors are left out.  The JSON parser is external.      *)
(***************************************************************************)
EXTENDS Naturals, Sequences, FiniteSets, SequencesExt

CONSTANT MinQuote   \* MIN_QUOTE_CHARS

\* A quote, a backslash, n (which may follow one), u (which may not, without its digits), a letter, a newline, punctuation.
Char == {"q", "bs", "n", "u", "x", "nl", "comma", "]"}

\* An answer that cannot be read, and one that is refused.
Broken == [ok |-> FALSE, items |-> <<>>]

Refused == [ok |-> FALSE, found |-> <<>>, matches |-> 0, support |-> "none"]

-----------------------------------------------------------------------------
(* The parser (external): strings, commas, one "]", newlines between; *)
(* in a string no newline, and after a backslash only what may follow one.     *)
ReadChar(s, c) ==
  CASE c = "nl" /\ s.at \in {"item", "next", "done"} -> s
    [] s.at = "broken" \/ (s.at = "done" /\ c # "nl") -> [s EXCEPT !.at = "broken"]
    [] s.at = "item" /\ c # "nl" -> IF c = "q" THEN [s EXCEPT !.at = "inside", !.items = Append(@, <<>>)] ELSE [s EXCEPT !.at = "broken"]
    [] s.at = "next" /\ c # "nl" -> [s EXCEPT !.at = CASE c = "comma" -> "item" [] c = "]" -> "done" [] OTHER -> "broken"]
    [] s.at = "inside" /\ c = "q" -> [s EXCEPT !.at = "next"]
    [] s.at = "inside" /\ c = "bs" -> [s EXCEPT !.at = "escape"]
    [] s.at = "inside" /\ c = "nl" -> [s EXCEPT !.at = "broken"]
    [] s.at = "escape" /\ c \notin {"q", "bs", "n"} -> [s EXCEPT !.at = "broken"]
    [] OTHER -> [at |-> "inside",
                 items |-> [s.items EXCEPT ![Len(s.items)] = Append(@, IF s.at = "escape" /\ c = "n" THEN "nl" ELSE c)]]

Read(text) ==
  LET end == FoldLeft(ReadChar, [at |-> "item", items |-> <<>>], text) IN IF end.at = "done" THEN [ok |-> TRUE, items |-> end.items] ELSE Broken

-----------------------------------------------------------------------------
(* repair_json *)

\* What comes next, newlines aside.
Rest(text, i) == SelectSeq(SubSeq(text, i + 1, Len(text)), LAMBDA c : c # "nl")

\* A quote in a string closes it if a separator follows, and after a comma the next value.
Closes(text, i) ==
  LET rest == Rest(text, i)
  IN \/ rest = <<>>
     \/ rest[1] = "]"
     \/ rest[1] = "comma" /\ Len(rest) > 1 /\ rest[2] \in {"q", "]"}

Escapes(text, i) == text[i] = "bs" /\ i < Len(text) /\ text[i + 1] \in {"q", "bs", "n"}

\* What stands for the character at i, read from inside a string; an escape takes its next character with it.
Mended(text, i) ==
  CASE Escapes(text, i) -> <<"bs", text[i + 1]>>
    [] text[i] = "bs" /\ ~Escapes(text, i) -> <<"bs", "bs">>
    [] text[i] = "q" /\ ~Closes(text, i) -> <<"bs", "q">>
    [] text[i] = "nl" -> <<"bs", "n">>
    [] OTHER -> <<text[i]>>

MendChar(s, i, text) ==
  IF i < s.from THEN s
  ELSE IF ~s.inside THEN [s EXCEPT !.inside = (text[i] = "q"), !.out = Append(@, text[i])]
  ELSE [from |-> IF Escapes(text, i) THEN i + 2 ELSE i + 1,
        inside |-> ~(text[i] = "q" /\ Closes(text, i)),
        out |-> s.out \o Mended(text, i)]

Repair(text) ==
  FoldLeft(LAMBDA s, i : MendChar(s, i, text), [from |-> 1, inside |-> FALSE, out |-> <<>>], [i \in 1..Len(text) |-> i]).out

\* Only the synthesizer's answer is mended, and only if it cannot be read as it is (json_object).
Items(text, mend) == IF Read(text).ok \/ ~mend THEN Read(text) ELSE Read(Repair(text))

-----------------------------------------------------------------------------
(* Quotes. *)
Spelled(quote) == FlattenSeq([i \in 1..Len(quote) |-> IF quote[i] = "nl" THEN <<"bs", "n">> ELSE <<quote[i]>>])

Occurs(draft, quote) == \E i \in 0..(Len(draft) - Len(quote)) : SubSeq(draft, i + 1, i + Len(quote)) = quote

Substantive(quote) == Len(SelectSeq(quote, LAMBDA c : c \in {"n", "u", "x"})) >= MinQuote

\* Blank text, which check_text refuses.
Blank(quote) == \A i \in 1..Len(quote) : quote[i] = "nl"

\* Fault: a quote is looked for in every draft.
FoundAnywhere(drafts, label, quote, spell) ==
  UNION {{q \in {quote} \union (IF spell THEN {Spelled(quote)} ELSE {}) : Occurs(drafts[l], q)} : l \in DOMAIN drafts}

\* The spelling of the quote that is in the draft it names; the synthesizer may have written a newline for "\n" (_find).
Found(drafts, label, quote, spell) ==
  IF label \notin DOMAIN drafts THEN {}
  ELSE IF Occurs(drafts[label], quote) THEN {quote}
  ELSE IF spell /\ Occurs(drafts[label], Spelled(quote)) THEN {Spelled(quote)} ELSE {}

\* What the check makes of an answer whose strings quote one draft in support of one claim; spell and mend are
\* the synthesizer's, and a review is refused if what it quotes is not one of its targets.
Checked(kind, drafts, label, text) ==
  LET own == kind = "synthesis"
      answer == Items(text, own)
      quotes == answer.items
  IN IF ~answer.ok \/ (\E i \in DOMAIN quotes : Blank(quotes[i])) \/ (kind = "review" /\ label \notin DOMAIN drafts) THEN Refused
     ELSE LET found == [i \in DOMAIN quotes |-> Found(drafts, label, quotes[i], own)]
          IN [ok |-> TRUE, found |-> found,
              matches |-> Cardinality({i \in DOMAIN quotes : found[i] # {}}),
              support |-> IF \E i \in DOMAIN quotes : \E q \in found[i] : Substantive(q) THEN "quoted" ELSE "unsupported_addition"]

-----------------------------------------------------------------------------
(* What a text says if no backslash is looked at. *)
Plain(text) ==
  FlattenSeq([i \in 1..Len(text) |-> CASE text[i] = "bs" -> <<>> [] text[i] = "nl" -> <<"n">> [] OTHER -> <<text[i]>>])

(* Mending changes nothing but backslashes and how a newline is written, in a   *)
(* text it has mended nothing is left to mend; a quote that counts is a passage *)
(* of the draft it names, and was written by the model up to its backslashes;    *)
(* and a claim is called quoted only for a quote long enough to say something   *)
(* (reply.repair_json 55-93, synthesis._find 171-181).                        *)
QuotesAreReal(kind, drafts, label, text) ==
  LET checked == Checked(kind, drafts, label, text)
  IN /\ Plain(Repair(text)) = Plain(text)
     /\ Repair(Repair(text)) = Repair(text)
     /\ checked.ok =>
          /\ \A i \in DOMAIN checked.found : \A q \in checked.found[i] :
               /\ label \in DOMAIN drafts /\ Occurs(drafts[label], q)
               /\ Occurs(Plain(text), Plain(q))
          /\ checked.support = "quoted" => checked.matches > 0 /\ \E l \in DOMAIN drafts : Substantive(drafts[l])

==============================================================================
