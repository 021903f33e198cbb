------------------------------- MODULE Approvals -------------------------------
(***************************************************************************)
(* From what an upper model proposes to the run a person starts with it: how   *)
(* a board is frozen (app/roles.py), how a split, a next question and a        *)
(* refined question are checked when they arrive (app/split.py,                *)
(* app/next_step.py, app/refine.py), and how the same things are checked once  *)
(* more when they are sent (app/context/inputs.py).  UpperCalls has the calls. *)
(*                                                                         *)
(* A text is its length without the blanks at its edges, whether it has such   *)
(* blanks, and whether it can be stored; what stands in its place may be        *)
(* nothing or something else, and so with a list.                            *)
(***************************************************************************)
EXTENDS Naturals, Sequences, FiniteSets, SequencesExt, FiniteSetsExt, Functions

CONSTANTS
  Card,        \* cards of the roster
  Cli,         \* those that are CLIs
  Provider,    \* the provider of each
  MaxTask,     \* MAX_TASK, MAX_TASK_CHARS
  MaxPoints,   \* MAX_POINTS
  MaxSources, MaxBytes, MaxTotal

\* The kind of a value.
Is == {"value", "none", "other"}

Text == [is : Is, length : Nat, edge : BOOLEAN, clean : BOOLEAN]

Strip(text) == [text EXCEPT !.edge = FALSE]

IsBlank(text) == text.is = "value" /\ text.length = 0

\* Left out or blank.
Nothing(text) == text.is = "none" \/ IsBlank(text)

\* check_text: the blanks at the edges count.
Fits(text, limit) ==
  /\ text.is = "value" /\ text.length > 0 /\ text.clean
  /\ text.length + (IF text.edge THEN 1 ELSE 0) <= limit

\* What a person wrote is measured without them.
TaskFits(text) == text.is = "value" /\ text.length \in 1..MaxTask /\ text.clean

Refused == [ok |-> FALSE]

\* A board, what propose_split is asked for, a source, and an assignment of a reply.
RoleBoard ==
  [mode : {"original", "refine"}, supervisor : Seq(STRING), orchestrator : Seq(STRING), isolated : Seq(STRING), general : Seq(STRING)]

Request == [members : Seq(STRING), orchestrator : Seq(STRING), sources : Seq(STRING \X STRING \X Nat)]

Item == [member : Nat, task : Text, sources : Seq(STRING \X STRING)]

\* What the roster and the limits of the code are.
ApprovalRules == Cli \subseteq Card /\ MaxTask \in Nat

-----------------------------------------------------------------------------
(* The board. *)
Slot == {"supervisor", "orchestrator", "isolated", "general"}

OneEach(cards) == Cardinality({Provider[cards[i]] : i \in DOMAIN cards}) = Len(cards)

\* _freeze_general
FreezesGeneral(board, participants) ==
  /\ board.supervisor = <<>> /\ board.isolated = <<>>
  /\ Range(board.orchestrator) \subseteq Cli
  /\ board.general = participants
  /\ Range(participants) \subseteq Cli
  /\ OneEach(participants)

\* freeze
Freezes(board, participants) ==
  /\ \A slot \in Slot : Range(board[slot]) \subseteq Card
  /\ Len(board.supervisor) <= 1 /\ Len(board.orchestrator) <= 1
  /\ Range(board.supervisor) \subseteq Cli
  /\ board.mode = "refine" => board.supervisor # <<>>
  /\ IF board.general # <<>>
     THEN FreezesGeneral(board, participants)
     ELSE /\ board.isolated = participants
          /\ Range(board.orchestrator) \subseteq Cli
          /\ OneEach(board.isolated \o board.orchestrator)

-----------------------------------------------------------------------------
(* Sources are <<name in lower case, spelling, bytes>>; a bad name is "bad". *)

\* _checked_sources
SourcesFit(sources) ==
  /\ Len(sources) <= MaxSources
  /\ \A i \in DOMAIN sources : sources[i][1] # "bad" /\ sources[i][3] <= MaxBytes
  /\ \A i, k \in DOMAIN sources : sources[i][1] = sources[k][1] => i = k
  /\ FoldSeq(LAMBDA s, n : s[3] + n, 0, sources) <= MaxTotal

Names(sources) == {<<sources[i][1], sources[i][2]>> : i \in DOMAIN sources}

-----------------------------------------------------------------------------
(* The checks of what an upper model answers. *)

\* Listed names, each once.
Chooses(chosen, names) == Range(chosen) \subseteq names /\ IsInjective(chosen)

\* The item of each member.
ItemOf(members, items) == [m \in Range(members) |-> CHOOSE item \in Range(items) : members[item.member] = m]

\* An item as it is stored.
Stored(items) == [m \in DOMAIN items |-> [task |-> Strip(items[m].task), sources |-> Range(items[m].sources)]]

\* Every member is given an assignment, and none two.
SplitOf(reply, members, names) ==
  IF /\ ~reply.extra
     /\ Len(reply.items) = Len(members)
     /\ \A i \in DOMAIN reply.items :
          /\ reply.items[i].member \in DOMAIN members
          /\ Chooses(reply.items[i].sources, names) /\ Fits(reply.items[i].task, MaxTask)
     /\ \A i, k \in DOMAIN reply.items : reply.items[i].member = reply.items[k].member => i = k
  THEN [ok |-> TRUE, assignments |-> Stored(ItemOf(members, reply.items))]
  ELSE Refused

\* split.check: the label of a member is its place in the list; no source is left over.
Split(reply, members, names) ==
  IF names \subseteq UNION {Range(reply.items[i].sources) : i \in DOMAIN reply.items}
  THEN SplitOf(reply, members, names)
  ELSE Refused

\* A list that may be left out.
ListFits(list) ==
  list.is = "none" \/ (list.is = "value" /\ Len(list.items) <= MaxPoints /\ \A i \in DOMAIN list.items : Fits(list.items[i], MaxTask))

\* next_step.check
NextStep(reply) ==
  LET again == reply.next = "again"
  IN IF /\ ~reply.extra
        /\ reply.next \in {"again", "stop"}
        /\ ListFits(reply.points)
        /\ IF again THEN Fits(reply.question, MaxTask) ELSE Nothing(reply.question)
     THEN [ok |-> TRUE, questions |-> IF again THEN {Strip(reply.question)} ELSE {}]
     ELSE Refused

\* refine.check
Refine(reply) ==
  IF /\ ~reply.extra
     /\ ListFits(reply.points)
     /\ Fits(reply.question, MaxTask)
     /\ Nothing(reply.ask) \/ Fits(reply.ask, MaxTask)
  THEN [ok |-> TRUE, questions |-> {Strip(reply.question)}]
  ELSE Refused

-----------------------------------------------------------------------------
(* What is sent. *)

\* _general_manifest: each assignment is measured again; no source is left over.
Manifest(participants, assignments, sources) ==
  IF /\ SourcesFit(sources)
     /\ DOMAIN assignments = Range(participants)
     /\ \A m \in DOMAIN assignments : TaskFits(assignments[m].task) /\ Chooses(assignments[m].sources, Names(sources))
     /\ Names(sources) \subseteq UNION {Range(assignments[m].sources) : m \in DOMAIN assignments}
  THEN [ok |-> TRUE, members |-> Stored(assignments)]
  ELSE Refused

\* _approved_split for a split of these members and sources: what is sent may have been changed, and then says so.
AsProposed(split, assignments) == split.assignments = Stored(assignments)

\* prepare_run takes a question without the blanks at its edges; _approved_proposal and _approved_refinement
\* compare it with the one that was accepted.
SentAs(text, accepted) == text.is = "value" /\ text.length > 0 /\ text.clean /\ Strip(text) = accepted

-----------------------------------------------------------------------------
(* Properties.                                                               *)

\* A person leaves an assignment as it is, adds blanks to it, turns its sources round, writes one more word, or
\* takes its sources away.
Edited(item, edit) ==
  CASE edit = "blanks" -> [task |-> [item.task EXCEPT !.edge = TRUE], sources |-> item.sources]
    [] edit = "order" -> [task |-> item.task, sources |-> Reverse(item.sources)]
    [] edit = "words" -> [task |-> [item.task EXCEPT !.length = @ - 1], sources |-> item.sources]
    [] edit = "fewer" -> [task |-> item.task, sources |-> <<>>]
    [] OTHER -> [task |-> item.task, sources |-> item.sources]

Edit == {"none", "blanks", "order", "words", "fewer"}

\* The sources somebody is given.
Carried(members) == UNION {members[m].sources : m \in DOMAIN members}

\* A change that makes no difference can be sent; another one is told from what was proposed, and no source is left over.
EditIsTold(participants, sources, split, sent, edit) ==
  LET manifest == Manifest(participants, sent, sources)
  IN /\ edit \in {"none", "blanks", "order"} => manifest.ok /\ AsProposed(split, sent)
     /\ edit = "words" => ~AsProposed(split, sent)
     /\ edit = "fewer" => manifest.ok = (sources = <<>>)
     /\ manifest.ok => Carried(manifest.members) = Names(sources)

(* A split that was accepted for these members and sources can be sent as it    *)
(* is; blanks and the order of sources make no difference; a change is said to  *)
(* be one, and never leaves a source with nobody.                            *)
SplitCanBeSent(request, reply) ==
  LET split == Split(reply, request.members, Names(request.sources))
      item == ItemOf(request.members, reply.items)
      \* propose_split has checked the members, the orchestrator and the sources.
      asked == /\ request.members # <<>> /\ OneEach(request.members) /\ Range(request.members) \subseteq Cli
               /\ Len(request.orchestrator) = 1 /\ Range(request.orchestrator) \subseteq Cli
               /\ SourcesFit(request.sources)
      board == [mode |-> "original", supervisor |-> <<>>, orchestrator |-> request.orchestrator, isolated |-> <<>>,
                general |-> request.members]
  IN asked /\ split.ok =>
       /\ Freezes(board, request.members)
       /\ \A edit \in Edit :
            EditIsTold(request.members, request.sources, split, [m \in DOMAIN item |-> Edited(item[m], edit)], edit)

(* A question that was accepted can be sent as it is or with blanks at its      *)
(* edges and no other way, and there is one exactly if one was asked for.      *)
QuestionCanBeSent(reply) ==
  LET next == NextStep(reply)
      refined == Refine(reply)
      Sent(question) ==
        /\ SentAs(question, question) /\ SentAs([question EXCEPT !.edge = TRUE], question)
        /\ ~SentAs([question EXCEPT !.length = @ + 1], question)
  IN /\ next.ok => (reply.next = "again") = (next.questions # {}) /\ \A q \in next.questions : Sent(q)
     /\ refined.ok => \A q \in refined.questions : Sent(q)

(* A frozen board has one card of a provider among those who answer and, in an   *)
(* isolated run, the one who puts the answers together; it can be sent without   *)
(* a refined question too, as templates are checked.                         *)
BoardIsFair(board, participants) ==
  Freezes(board, participants) =>
    /\ \A c, d \in Range(participants) : Provider[c] = Provider[d] => c = d
    /\ board.general = <<>> => \A c \in Range(participants), d \in Range(board.orchestrator) : Provider[c] # Provider[d]
    /\ Freezes([board EXCEPT !.mode = "original"], participants)

=============================================================================
