-------------------------------- MODULE Sources --------------------------------
(***************************************************************************)
(* The inputs of an attempt (app/context/inputs.py): what was fixed when a    *)
(* run was created is put together again from the rows of the ledger, and the *)
(* sources are laid out as a folder and looked at file by file, each time a   *)
(* call is about to start.                                                  *)
(*                                                                         *)
(* Texts are versions: 0 as it was when the run was created, 1 any other.  A  *)
(* digest of a text is the text.  Another hand may change one row of the       *)
(* ledger between two attempts, or one folder at any time, and the process     *)
(* may end at any point; a staging folder it leaves behind is never looked at. *)
(***************************************************************************)
EXTENDS Naturals, FiniteSetsExt, Functions

CONSTANTS
  Member,  \* participants of the run
  Name     \* names of sources: numbers, in their order

VARIABLES
  mode,     \* "isolated": all have the same input; "general": each its own
  given,    \* the sources of each member when the run was created
  row,      \* the run: its question, its memory, its prompt, the digests of all inputs
  work,     \* the assignments of a general run
  source,   \* the contents of the sources and the digests told of them
  folder,   \* the folders of the run
  attempt,  \* the attempt under way
  call,     \* what the last call was given
  refused,  \* an attempt was refused
  touched   \* another hand changed something

\* Names are kept in an order, so that there is a next one.
NameRules == Name \subseteq Nat

rows == <<mode, given, row, work, source>>
vars == <<rows, folder, attempt, call, refused, touched>>

NoFiles == [n \in {} |-> 0]

NoFolder == [made |-> FALSE, files |-> NoFiles]

Idle == [step |-> "idle", member |-> "none", files |-> NoFiles]

NoCall == [member |-> "none", prompt |-> "none", files |-> NoFiles]

\* A name that is no source of this run.
Stray == Max(Name) + 1

\* PROMPT and GENERAL_PROMPT with the list of sources and, in a general run, the memory.
Prompt(question, task, list, memory) == [question |-> question, task |-> task, list |-> list, memory |-> memory]

AsMade(names) == [n \in names |-> 0]

Fixed(m) == Prompt(0, 0, AsMade(given[m]), 0)

\* All members of an isolated run share a folder.
Folder(m) == IF mode = "general" THEN m ELSE "all"

Init ==
  /\ mode \in {"isolated", "general"}
  /\ given \in [Member -> SUBSET Name]
  /\ mode = "isolated" => \A m, k \in Member : given[m] = given[k]
  /\ row = [question |-> 0, memory |-> 0, prompt |-> Fixed(CHOOSE m \in Member : TRUE), bundle |-> [m \in Member |-> Fixed(m)]]
  /\ work = [m \in Member |-> [task |-> 0, list |-> AsMade(given[m]), prompt |-> Fixed(m), digest |-> Fixed(m)]]
  /\ source = [n \in UNION {given[m] : m \in Member} |-> [content |-> 0, told |-> 0]]
  /\ folder = [f \in Member \union {"all"} |-> NoFolder]
  /\ attempt = Idle /\ call = NoCall
  /\ refused = FALSE /\ touched = FALSE

-----------------------------------------------------------------------------
(* The rows. *)

\* Fault: an assignment that agrees with itself is taken as it is.
WorkAgreesAlone(m) ==
  /\ work[m].prompt = Prompt(row.question, work[m].task, work[m].list, row.memory)
  /\ work[m].digest = work[m].prompt

\* _checked_assignment: what is stored is what its parts make, and what was bundled when the run was created.
WorkAgrees(m) ==
  /\ work[m].prompt = Prompt(row.question, work[m].task, work[m].list, row.memory)
  /\ work[m].digest = work[m].prompt
  /\ row.bundle = [k \in Member |-> work[k].digest]

\* _member_source_dir: every source is there and is the one that was listed.
ListAgrees(m) ==
  \A n \in DOMAIN work[m].list :
    n \in DOMAIN source /\ source[n].told = work[m].list[n] /\ source[n].content = work[m].list[n]

\* _source_dir
PromptAgrees == row.prompt = Prompt(row.question, 0, [n \in DOMAIN source |-> source[n].told], 0)

Agrees(m) == IF mode = "general" THEN WorkAgrees(m) /\ ListAgrees(m) ELSE PromptAgrees

Names(m) == IF mode = "general" THEN DOMAIN work[m].list ELSE DOMAIN source

Input(m) == IF mode = "general" THEN work[m].prompt ELSE row.prompt

-----------------------------------------------------------------------------
(* An attempt. *)
Refuse == attempt' = Idle /\ refused' = TRUE /\ UNCHANGED call

Begin(m, files) ==
  /\ call' = [member |-> m, prompt |-> Input(m), files |-> files]
  /\ attempt' = Idle
  /\ UNCHANGED refused

At(step) == attempt.step = step /\ UNCHANGED <<rows, touched>>

Go(step, files) == attempt' = [attempt EXCEPT !.step = step, !.files = files] /\ UNCHANGED <<call, refused>>

\* The first name of the member that has not been dealt with.
First == Min(Names(attempt.member) \ DOMAIN attempt.files)

\* The files of the attempt and the next one.
AndFirst(text) == [n \in DOMAIN attempt.files \union {First} |-> IF n = First THEN text ELSE attempt.files[n]]

AllDone == DOMAIN attempt.files = Names(attempt.member)

\* _attempt_input
Ask(m) ==
  /\ At("idle") /\ UNCHANGED folder
  /\ IF ~Agrees(m) THEN Refuse
     ELSE IF Names(m) = {} THEN Begin(m, NoFiles)
     ELSE /\ attempt' = [step |-> IF folder[Folder(m)].made THEN "list" ELSE "write", member |-> m, files |-> NoFiles]
          /\ UNCHANGED <<call, refused>>

\* Fault: the files are written where they are read.
WriteInPlace ==
  /\ At("write") /\ ~AllDone
  /\ Go("write", AndFirst(source[First].content))
  /\ folder' = [folder EXCEPT ![Folder(attempt.member)] = [made |-> TRUE, files |-> attempt'.files]]

\* _snapshot: into a staging folder, one file after another.
Write ==
  /\ At("write") /\ ~AllDone
  /\ Go("write", AndFirst(source[First].content))
  /\ UNCHANGED folder

\* os.rename: the folder is there at once, or not at all.
Rename ==
  /\ At("write") /\ AllDone
  /\ folder' = [folder EXCEPT ![Folder(attempt.member)] = [made |-> TRUE, files |-> attempt.files]]
  /\ Go("list", NoFiles)

List ==
  /\ At("list") /\ UNCHANGED folder
  /\ IF DOMAIN folder[Folder(attempt.member)].files = Names(attempt.member) THEN Go("read", NoFiles) ELSE Refuse

Read ==
  /\ At("read") /\ ~AllDone /\ UNCHANGED folder
  /\ LET files == folder[Folder(attempt.member)].files
     IN IF First \in DOMAIN files /\ files[First] = source[First].told
        THEN Go("read", AndFirst(files[First]))
        ELSE Refuse

Start == At("read") /\ AllDone /\ UNCHANGED folder /\ Begin(attempt.member, attempt.files)

Crash ==
  /\ attempt # Idle
  /\ attempt' = Idle
  /\ UNCHANGED <<rows, folder, call, refused, touched>>

-----------------------------------------------------------------------------
(* Another hand. *)
Touch == ~touched /\ touched' = TRUE /\ UNCHANGED <<mode, given, attempt, call, refused>>

\* One field of the run.
AlterRun ==
  /\ Touch /\ attempt = Idle
  /\ \/ row' = [row EXCEPT !.question = 1]
     \/ row' = [row EXCEPT !.memory = 1]
     \/ row' = [row EXCEPT !.prompt.question = 1]
     \/ \E n \in DOMAIN row.prompt.list : row' = [row EXCEPT !.prompt.list[n] = 1]
     \/ \E m \in Member : row' = [row EXCEPT !.bundle[m].task = 1]
  /\ UNCHANGED <<work, source, folder>>

\* A whole assignment, with its input and its digest made to agree or left as they were.
AlterWork ==
  /\ Touch /\ attempt = Idle /\ mode = "general"
  /\ \E m \in Member, task \in {0, 1}, names \in SUBSET DOMAIN source, text, digest \in BOOLEAN :
       \E list \in [names -> {0, 1}] :
         LET made == Prompt(row.question, task, list, row.memory)
         IN work' = [work EXCEPT ![m] = [task |-> task, list |-> list,
                                         prompt |-> IF text THEN made ELSE @.prompt, digest |-> IF digest THEN made ELSE @.digest]]
  /\ UNCHANGED <<row, source, folder>>

AlterSource ==
  /\ Touch /\ attempt = Idle
  /\ \E n \in DOMAIN source :
       \/ \E content, told \in {0, 1} : source' = [source EXCEPT ![n] = [content |-> content, told |-> told]]
       \/ source' = Restrict(source, DOMAIN source \ {n})
  /\ UNCHANGED <<row, work, folder>>

\* A file is changed, taken away or added; or the folder is taken away.
AlterFolder ==
  /\ Touch
  /\ \E f \in DOMAIN folder :
       /\ folder[f].made
       /\ \/ \E n \in DOMAIN folder[f].files : folder' = [folder EXCEPT ![f].files[n] = 1]
          \/ \E n \in DOMAIN folder[f].files : folder' = [folder EXCEPT ![f].files = Restrict(@, DOMAIN @ \ {n})]
          \/ folder' = [folder EXCEPT ![f].files = [n \in DOMAIN @ \union {Stray} |-> IF n = Stray THEN 1 ELSE @[n]]]
          \/ folder' = [folder EXCEPT ![f] = NoFolder]
  /\ UNCHANGED <<row, work, source>>

Next ==
  \/ \E m \in Member : Ask(m)
  \/ Write \/ Rename \/ List \/ Read \/ Start \/ Crash
  \/ AlterRun \/ AlterWork \/ AlterSource \/ AlterFolder

Spec == Init /\ [][Next]_vars

-----------------------------------------------------------------------------
(* Properties.                                                               *)

(***************************************************************************)
(* A call starts on the very input that was fixed when its run was created,   *)
(* and on its own sources, all of them and as they were when they were read   *)
(* for it, although one field of the run, one assignment or source, even made  *)
(* to agree with itself, or a folder was changed since; and where nothing was changed nothing is ever refused,   *)
(* wherever the process was cut off (_checked_assignment, _snapshot).         *)
(***************************************************************************)
StartsOnWhatWasFixed ==
  /\ call # NoCall => call.prompt = Fixed(call.member) /\ call.files = AsMade(given[call.member])
  /\ refused => touched

=============================================================================
