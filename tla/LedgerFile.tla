------------------------------ MODULE LedgerFile ------------------------------
(***************************************************************************)
(* One ledger and the processes that open it, one after another or at the     *)
(* same time (app/store.py, app/execution/invocations.py): the app, a server  *)
(* or a headless run started by hand, each with the caps of its own           *)
(* configuration, and each of the schema of its own version.                 *)
(*                                                                         *)
(* The ledger may be one that an earlier version has made: without a row for  *)
(* its budget, with calls it has reserved under one cap or several, and with  *)
(* runs whose phase is part of their roster.  Of the tables only the budget,  *)
(* the reservations and the schema are kept.                                *)
(***************************************************************************)
EXTENDS Integers, FiniteSets

CONSTANTS
  Process,      \* processes that open the ledger, again and again
  Wants,        \* the budget of the configuration of each, None for a mock
  Version,      \* SCHEMA_VERSION of the code of each
  App,          \* those that are servers of the desktop app
  MaxCap,       \* the largest cap of a configuration
  Newest,       \* the largest SCHEMA_VERSION of a process
  PhaseSchema   \* the schema that gave the runs a phase of their own

Provider == {"codex", "claude-code"}

\* A cap of 0 stands for a provider without one.
Budget == [cap : 1..MaxCap, by : [Provider -> 0..MaxCap]]

None == [cap |-> 0, by |-> [a \in Provider |-> 0]]

\* A row that holds no caps.
Damaged == [cap |-> 0, by |-> [a \in Provider |-> 1]]

\* What a configuration file or the options of a single CLI may ask for.
Configured == {b \in Budget : b.cap = b.by["codex"] + b.by["claude-code"] \/ \A a \in Provider : b.by[a] = 0}

\* What any configuration file, and any version of the code, may say.
Configuration ==
  /\ "none" \notin Process
  /\ {MaxCap, Newest, PhaseSchema} \subseteq Nat
  /\ Wants \in [Process -> Configured \union {None}]
  /\ Version \in [Process -> Nat]

VARIABLES
  (* The file: durable. *)
  made,      \* it has tables
  schema,    \* user_version
  readable,  \* the phases of its runs can be read
  budget,    \* the row of live_budget
  stamps,    \* the caps its reservations were made under
  used,      \* the reservations of each provider
  backups,   \* schemas of the copies beside it
  (* The processes. *)
  holder,    \* the process that holds the lock of the ledger
  pc,        \* "out", "picked", "locked", "copied", "open" or "serving"
  fixed      \* the budget bind_call_budget has returned to it

file == <<made, schema, readable, budget, stamps, used, backups>>
vars == <<file, holder, pc, fixed>>

Total == used["codex"] + used["claude-code"]

\* Any ledger there may be: new, of this version, or of an older one that knew no budget row.
Init ==
  /\ made \in BOOLEAN
  /\ schema \in 0..Newest
  /\ readable \in BOOLEAN
  /\ stamps \in SUBSET (1..MaxCap)
  /\ used \in [Provider -> 0..MaxCap]
  /\ (stamps = {}) <=> (Total = 0)
  /\ Cardinality(stamps) <= Total
  /\ budget \in {None, Damaged} \union
       {b \in Configured : stamps \subseteq {b.cap} /\ Total <= b.cap /\ \A a \in Provider : b.by[a] = 0 \/ used[a] <= b.by[a]}
  /\ ~made => schema = 0 /\ readable /\ budget = None /\ stamps = {}
  /\ backups = {}
  /\ holder = "none"
  /\ pc = [p \in Process |-> "out"]
  /\ fixed = [p \in Process |-> None]

-----------------------------------------------------------------------------
Go(p, where) == pc' = [pc EXCEPT ![p] = where]

\* A call of every provider is left under these caps (launch._has_room).
HasRoom(caps) ==
  IF budget = None THEN Total = 0
  ELSE budget = caps /\ Total < caps.cap /\ \A a \in Provider : caps.by[a] > 0 => used[a] < caps.by[a]

\* A server of the app takes up the ledger if it has room, read without the lock; any other is told to use it.
Pick(p) ==
  /\ pc[p] = "out"
  /\ p \in App => made /\ HasRoom(Wants[p])
  /\ Go(p, "picked")
  /\ UNCHANGED <<file, holder, fixed>>

\* Store(): _lock does not wait, and a process that does not get it has changed nothing.
Open(p) ==
  /\ pc[p] = "picked"
  /\ holder = "none"
  /\ holder' = p
  /\ Go(p, "locked")
  /\ UNCHANGED <<file, fixed>>

\* The process ends, is killed, or closes the ledger: the lock is free.
Close(p) ==
  /\ pc[p] # "out"
  /\ holder' = IF holder = p THEN "none" ELSE holder
  /\ Go(p, "out")
  /\ fixed' = [fixed EXCEPT ![p] = None]
  /\ UNCHANGED file

\* Fault: a ledger of a newer schema is opened too.
AcceptsAny(p) == TRUE

\* A newer schema is refused; so is, in the transaction, a phase that cannot be read.
Accepts(p) == schema <= Version[p] /\ (schema < PhaseSchema /\ Version[p] >= PhaseSchema => readable)

\* Before the transaction a copy is completed.
Backup(p) ==
  /\ pc[p] = "locked"
  /\ made
  /\ schema < Version[p]
  /\ backups' = backups \union {schema}
  /\ Go(p, "copied")
  /\ UNCHANGED <<made, schema, readable, budget, stamps, used, holder, fixed>>

\* _migrate in one transaction; where it raises, Close follows and nothing has changed.
Migrate(p) ==
  /\ pc[p] = IF made /\ schema < Version[p] THEN "copied" ELSE "locked"
  /\ Accepts(p)
  /\ made' = TRUE
  /\ schema' = Version[p]
  /\ Go(p, "open")
  /\ UNCHANGED <<readable, budget, stamps, used, backups, holder, fixed>>

\* What the reservations of a ledger without a row say of its budget.
Legacy == [cap |-> CHOOSE c \in stamps : TRUE, by |-> [a \in Provider |-> 0]]

\* The budget this ledger has had so far, or the one asked for if it has had none.
Known(p) == IF budget # None THEN budget ELSE IF Total > 0 THEN Legacy ELSE Wants[p]

\* A damaged row, several caps or more calls than the cap say nothing that could be relied on.
Recoverable == budget # Damaged /\ (budget = None /\ Total > 0 => Cardinality(stamps) = 1 /\ Total <= Legacy.cap)

\* Fault: a restart binds the ledger to what it is configured with.
BindAnew(p) ==
  /\ pc[p] = "open"
  /\ Recoverable
  /\ fixed' = [fixed EXCEPT ![p] = IF Wants[p] = None THEN Known(p) ELSE Wants[p]]
  /\ budget' = IF Wants[p] = None THEN Known(p) ELSE Wants[p]
  /\ Go(p, "serving")
  /\ UNCHANGED <<made, schema, readable, stamps, used, backups, holder>>

\* bind_call_budget in one transaction.
Bind(p) ==
  /\ pc[p] = "open"
  /\ Recoverable
  /\ Wants[p] # None => Wants[p] = Known(p)
  /\ fixed' = [fixed EXCEPT ![p] = Known(p)]
  /\ budget' = Known(p)
  /\ Go(p, "serving")
  /\ UNCHANGED <<made, schema, readable, stamps, used, backups, holder>>

Exhausted(p, a) == Total >= fixed[p].cap \/ (fixed[p].by[a] > 0 /\ used[a] >= fixed[p].by[a])

\* reserve, in the transaction that starts a real call.
Reserve(p, a) ==
  /\ pc[p] = "serving"
  /\ Wants[p] # None
  /\ ~Exhausted(p, a)
  /\ used' = [used EXCEPT ![a] = @ + 1]
  /\ stamps' = stamps \union {fixed[p].cap}
  /\ UNCHANGED <<made, schema, readable, budget, backups, holder, pc, fixed>>

Next ==
  \E p \in Process :
    \/ Pick(p) \/ Open(p) \/ Close(p) \/ Backup(p) \/ Migrate(p) \/ Bind(p)
    \/ \E a \in Provider : Reserve(p, a)

Spec == Init /\ [][Next]_vars

-----------------------------------------------------------------------------
(* Properties.                                                               *)

(***************************************************************************)
(* A ledger keeps the budget it was first used with, over every restart and   *)
(* every version: a call is only reserved if all its reservations were made   *)
(* under one cap, they are no more than this cap, each provider keeps to its  *)
(* own, and no budget that was ever bound has changed.  And what a process    *)
(* has to refuse it leaves as it was: a ledger of a newer schema, and one      *)
(* whose phases cannot be read; a schema is only raised, by one process that  *)
(* holds the lock, and a copy of the ledger as it was before is kept beside it *)
(* (store.bind_call_budget, _migrate, invocations.reserve).                 *)
(***************************************************************************)
LedgerIsKept ==
  [][/\ budget # None => budget' = budget
     /\ used' # used => /\ Cardinality(stamps') = 1
                        /\ \A c \in stamps' : Total' <= c
                        /\ \A a \in Provider : budget'.by[a] = 0 \/ used'[a] <= budget'.by[a]
     /\ \/ UNCHANGED <<schema, budget, stamps, used>>
        \/ schema' > schema /\ (made => schema \in backups) /\ (schema < PhaseSchema => readable \/ schema' < PhaseSchema)
        \/ schema' = schema /\ holder # "none" /\ Version[holder] >= schema]_vars

=============================================================================
