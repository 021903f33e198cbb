------------------------------ MODULE Ingestion ------------------------------
(***************************************************************************)
(* A source that is taken from a page of the web or from a PDF                *)
(* (app/ingestion/url_fetch.py, app/ingestion/extract.py,                     *)
(* app/source_document.py): the responses that lead to it, the text of a      *)
(* page, the pages of a PDF, and the lines that are attached.                *)
(*                                                                         *)
(* Responses, tags and pages are what the code tells apart of them.  One unit *)
(* of size stands for a block of bytes and one of time for a part of the       *)
(* deadline; encodings, media types, names and hashes are left out, and the    *)
(* converters are external: any pages may come back.                         *)
(***************************************************************************)
EXTENDS Integers, Sequences, FiniteSets, SequencesExt

CONSTANTS
  MaxBytes,   \* MAX_BYTES
  Deadline,   \* seconds of one fetch
  MaxHops,    \* requests of one fetch
  MaxPages,   \* pages of one extract
  MaxLines    \* lines that are attached if none are asked for

-----------------------------------------------------------------------------
(* fetch: a response says whether its address is public, its status, the        *)
(* length it tells (-1 for none), the chunks that arrive and the time they take. *)

Response == [public : BOOLEAN, status : {"ok", "redirect", "other"}, length : Nat \union {-1}, chunks : Seq(Nat), time : Nat]

Failed == [done |-> TRUE, ok |-> FALSE, hops |-> 0, time |-> 0, body |-> <<>>]

Size(chunks) == FoldLeft(LAMBDA a, b : a + b, 0, chunks)

\* A length that is told is kept by the body, and neither is too much.
Complete(r) == r.length <= MaxBytes /\ Size(r.chunks) <= MaxBytes /\ r.length \in {-1, Size(r.chunks)}

Hop(f, r) ==
  IF f.done THEN f
  ELSE IF ~r.public \/ f.time + r.time >= Deadline THEN Failed
  ELSE IF r.status = "redirect" /\ f.hops + 1 < MaxHops THEN [f EXCEPT !.hops = @ + 1, !.time = @ + r.time]
  ELSE IF r.status = "ok" /\ Complete(r) THEN [done |-> TRUE, ok |-> TRUE, hops |-> f.hops + 1, time |-> f.time + r.time, body |-> r.chunks]
  ELSE Failed

Fetched(responses) ==
  LET fetched[n \in 0..Len(responses)] ==
        IF n = 0 THEN [done |-> FALSE, ok |-> FALSE, hops |-> 0, time |-> 0, body |-> <<>>]
        ELSE Hop(fetched[n - 1], responses[n])
  IN fetched[Len(responses)]

Fetch(responses) == IF Fetched(responses).done THEN Fetched(responses) ELSE Failed

-----------------------------------------------------------------------------
(* The text of a page: a tag is opened, closed, or stands alone (void).  In a    *)
(* script or a style there are no tags.                                        *)

Token == [kind : {"open", "close"}, tag : {"p", "svg", "head", "body"}] \union [kind : {"open"}, tag : {"p hidden"}]
           \union [kind : {"void"}, tag : {"br", "br hidden"}] \union [kind : {"text"}, tag : {"text"}]

Hides(t) == t.tag \in {"head", "svg", "p hidden"}

Name(t) == IF t.tag = "p hidden" THEN "p" ELSE t.tag

\* Fault: what is hidden ends with the next tag of its name, whatever was opened in it.
FirstOf(hidden, name) == CHOOSE i \in 1..Len(hidden) : hidden[i] = name /\ \A j \in 1..(i - 1) : hidden[j] # name

LastOf(hidden, name) == CHOOSE i \in 1..Len(hidden) : hidden[i] = name /\ \A j \in (i + 1)..Len(hidden) : hidden[j] # name

\* A body ends a head that is left open.  What closes ends the innermost hidden tag of its name, and all that was opened in it.
HiddenAfter(hidden, t) ==
  CASE t.kind = "open" -> IF t.tag = "body" /\ "head" \in Range(hidden) THEN <<>>
                          ELSE IF Hides(t) \/ hidden # <<>> THEN Append(hidden, Name(t)) ELSE hidden
    [] t.kind = "close" -> IF Name(t) \in Range(hidden) THEN SubSeq(hidden, 1, LastOf(hidden, Name(t)) - 1) ELSE hidden
    [] OTHER -> hidden

Parse(s, t) ==
  [hidden |-> HiddenAfter(s.hidden, t), at |-> s.at + 1,
   shown |-> IF t.kind = "text" /\ s.hidden = <<>> THEN s.shown \union {s.at} ELSE s.shown]

Parsed(page) ==
  LET parsed[n \in 0..Len(page)] == IF n = 0 THEN [hidden |-> <<>>, shown |-> {}, at |-> 1] ELSE Parse(parsed[n - 1], page[n])
  IN parsed[Len(page)]

\* The places of the texts that are shown.
Shown(page) == Parsed(page).shown

-----------------------------------------------------------------------------
(* The pages of a PDF and the lines of the text: from first to last (0 if it is not told). *)

Chosen(first, last, total, most) == IF last = 0 THEN IF total < first + most - 1 THEN total ELSE first + most - 1 ELSE last

\* As many pages as were asked for have to come back, and one of them with a text.
Pages(first, last, total, pages) ==
  LET end == Chosen(first, last, total, MaxPages)
  IN IF ~(1 <= first /\ first <= end /\ end <= total) \/ end - first >= MaxPages THEN [ok |-> FALSE]
     ELSE IF Len(pages) # end - first + 1 \/ (\A i \in DOMAIN pages : pages[i] = 0) THEN [ok |-> FALSE]
     ELSE [ok |-> TRUE, first |-> first, last |-> end, omitted |-> total - (end - first + 1),
           empty |-> {first + i - 1 : i \in {j \in DOMAIN pages : pages[j] = 0}}]

\* A line is the number of its bytes.
Document(lines, first, last) ==
  LET end == Chosen(first, last, Len(lines), MaxLines)
  IN IF ~(1 <= first /\ first <= end /\ end <= Len(lines)) \/ Size(SubSeq(lines, first, end)) \notin 1..MaxBytes THEN [ok |-> FALSE]
     ELSE [ok |-> TRUE, selected |-> SubSeq(lines, first, end), omitted |-> Len(lines) - (end - first + 1)]

-----------------------------------------------------------------------------
Bad == [kind |-> "bad", tag |-> "bad"]

\* The tags that are open after one more, outermost first; a body ends a head and what is open in it.
AfterTag(open, t) ==
  CASE t.kind = "open" /\ t.tag = "body" -> IF open = <<>> \/ Head(open).tag = "head" THEN <<t>> ELSE <<Bad>>
    [] t.kind = "open" /\ t.tag = "head" -> IF open = <<>> THEN <<t>> ELSE <<Bad>>
    [] t.kind = "open" /\ t.tag \notin {"head", "body"} -> Append(open, t)
    [] t.kind = "close" -> IF open # <<>> /\ Name(Last(open)) = t.tag THEN Front(open) ELSE <<Bad>>
    [] OTHER -> open

OpenBefore(page, i) ==
  LET opened[n \in 0..Len(page)] == IF n = 0 THEN <<>> ELSE AfterTag(opened[n - 1], page[n])
  IN opened[i - 1]

Nested(page) == \A i \in 1..(Len(page) + 1) : Bad \notin Range(OpenBefore(page, i))

(* Of a page whose tags are nested, exactly the texts are shown that no tag     *)
(* around them hides, however hidden tags of the same name lie in each other    *)
(* (extract._HTML 46-66).                                                     *)
PageIsShown(page) ==
  Nested(page) =>
    Shown(page) = {i \in 1..Len(page) : page[i].kind = "text" /\ \A t \in Range(OpenBefore(page, i)) : ~Hides(t)}

(* A body that is taken is the whole of the last answer, after as many          *)
(* redirections as there may be, each of them to a public address, and in time   *)
(* (url_fetch.fetch 66-112).                                                  *)
BodyIsWhole(responses) ==
  LET f == Fetch(responses)
  IN f.ok => /\ f.hops <= MaxHops /\ f.time < Deadline
             /\ responses[f.hops].status = "ok" /\ f.body = responses[f.hops].chunks
             /\ responses[f.hops].length \in {-1, Size(f.body)} /\ Size(f.body) <= MaxBytes
             /\ \A i \in 1..f.hops : responses[i].public /\ (i < f.hops => responses[i].status = "redirect")

(* What is attached and what is said to be left out are the whole together       *)
(* (extract.from_pdf 127-144, source_document.document 27-41).                 *)
NothingUnsaid(first, last, lines) ==
  LET d == Document(lines, first, last)
      p == Pages(first, last, Len(lines), lines)
  IN /\ d.ok => /\ Len(d.selected) + d.omitted = Len(lines)
                /\ last = 0 => Len(d.selected) = MaxLines \/ first + Len(d.selected) - 1 = Len(lines)
     /\ p.ok => /\ p.omitted = Len(lines) - Cardinality(p.first..p.last)
                /\ p.empty \subseteq p.first..p.last /\ p.empty # p.first..p.last

=============================================================================
