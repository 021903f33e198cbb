-------------------------------- MODULE Paging --------------------------------
(***************************************************************************)
(* The lists of the screen, page by page (app/queries/pages.py): an index that *)
(* is kept as long as nothing it was built from has changed, and pages that    *)
(* are asked for one after another, each with the position the last one gave,  *)
(* while rows come and go.                                                   *)
(*                                                                         *)
(* A row is its key: the time it was made, and its name.  What an overview     *)
(* says beside its rows comes from the memory of the process: whether it is    *)
(* paused, the trees the runner still waits for, and the syntheses under way;  *)
(* one number stands for each state these may be in.                         *)
(***************************************************************************)
EXTENDS Integers, FiniteSets

CONSTANTS
  MaxTime,   \* times at which rows are made
  Name,      \* names of rows made at the same time (numbers, in their order)
  MaxLimit,  \* rows of a page
  MaxWrites  \* writes of each connection

VARIABLES
  rows,      \* the committed rows
  pending,   \* the rows as the transaction under way sees them, or None
  own,       \* total_changes of the connection: transactions that are rolled back count
  other,     \* data_version: commits of other connections
  memory,    \* the state of the process that the overview shows
  now,
  cache,     \* what was built last, with the token and the memory it was built from
  (* One reader. *)
  shown,     \* the last page
  seen,      \* rows of its walk so far
  owed       \* rows that were there when the walk began and have not gone since

\* Names are numbers, finitely many.
NameRules == MaxTime \in Nat \ {0} /\ MaxLimit \in Nat /\ Name \subseteq Nat /\ IsFiniteSet(Name)

world == <<rows, pending, own, other, memory, now>>
vars == <<world, cache, shown, seen, owed>>

None == {<<0, 0>>}

Top == <<MaxTime + 1, 0>>

NoPage == [items |-> {}, fresh |-> TRUE, next |-> None]

Below(a, b) == a[1] < b[1] \/ (a[1] = b[1] /\ a[2] < b[2])

Current == IF pending = None THEN rows ELSE pending

Init ==
  /\ rows \in SUBSET ({1} \X Name)
  /\ pending = None
  /\ own = 0 /\ other = 0
  /\ memory = 0
  /\ now = 1
  /\ cache = [token |-> <<-1, -1>>, memory |-> 0, rows |-> {}]
  /\ shown = NoPage
  /\ seen = {}
  /\ owed = {}

-----------------------------------------------------------------------------
(* What changes a list; of the lists only the inbox loses any row.             *)

Tick ==
  /\ now < MaxTime
  /\ now' = now + 1
  /\ UNCHANGED <<rows, pending, own, other, memory, cache, shown, seen, owed>>

Write ==
  /\ own < MaxWrites
  /\ \E new \in {Current \union {<<now, n>>} : n \in Name} \union {Current \ {r} : r \in Current} : pending' = new
  /\ own' = own + 1
  /\ UNCHANGED <<rows, other, memory, now, cache, shown, seen, owed>>

Commit ==
  /\ pending # None
  /\ rows' = pending
  /\ pending' = None
  /\ owed' = owed \intersect pending
  /\ UNCHANGED <<own, other, memory, now, cache, shown, seen>>

Rollback ==
  /\ pending # None
  /\ pending' = None
  /\ UNCHANGED <<rows, own, other, memory, now, cache, shown, seen, owed>>

\* Another process that has the file open; it waits for a transaction under way.
WriteElsewhere ==
  /\ pending = None
  /\ other < MaxWrites
  /\ \E n \in Name : rows' = rows \union {<<now, n>>}
  /\ other' = other + 1
  /\ UNCHANGED <<pending, own, memory, now, cache, shown, seen, owed>>

Switch ==
  /\ memory' = 1 - memory
  /\ UNCHANGED <<rows, pending, own, other, now, cache, shown, seen, owed>>

-----------------------------------------------------------------------------
Token == <<own, other>>

\* Fault: the index is kept as long as the ledger has not changed.
KeptByLedger == cache.token = Token

Kept == cache.token = Token /\ cache.memory = memory

\* In a transaction what is built is not kept.
Snapshot == IF pending = None /\ Kept THEN cache ELSE [token |-> Token, memory |-> memory, rows |-> Current]

\* The last rows below the position, the latest first.
Page(index, after, limit) ==
  LET left == {r \in index : Below(r, after)}
  IN {r \in left : Cardinality({s \in left : Below(r, s)}) < limit}

Browse(after, limit) ==
  LET built == Snapshot
      items == Page(built.rows, after, limit)
      more == {r \in built.rows : \A i \in items : Below(r, i)}
  IN /\ cache' = IF pending = None THEN built ELSE cache
     /\ shown' = [items |-> items,
                  fresh |-> built.rows = Current /\ built.memory = memory,
                  next |-> IF items = {} \/ more = {} THEN None ELSE {CHOOSE i \in items : \A j \in items : ~Below(j, i)}]
     /\ seen' = IF after = Top THEN items ELSE seen \union items
     /\ owed' = IF pending # None THEN {} ELSE IF after = Top THEN rows ELSE owed
     /\ UNCHANGED world

First(limit) == Browse(Top, limit)

Following(limit) ==
  /\ shown.next # None
  /\ \E anchor \in shown.next : Browse(anchor, limit)

Next ==
  \/ Tick \/ Write \/ Commit \/ Rollback \/ WriteElsewhere \/ Switch
  \/ \E limit \in 1..MaxLimit : First(limit) \/ Following(limit)

Spec == Init /\ [][Next]_vars

-----------------------------------------------------------------------------
(* Every page is built from the rows and the memory of the moment it is asked   *)
(* for, in a transaction from what it has written so far; no row is shown twice *)
(* in one walk; and a walk that has come to its end has shown every row that    *)
(* was there when it began and did not go (pages.page 45-51, _snapshot 71-88).  *)
PagesAreWhole ==
  [][/\ shown'.fresh
     /\ (\E limit \in 1..MaxLimit : Following(limit)) => shown'.items \intersect seen = {}
     /\ shown' # shown /\ shown'.next = None /\ pending' = None => owed' \subseteq seen']_vars

==============================================================================
