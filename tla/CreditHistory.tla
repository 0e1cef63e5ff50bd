----------------------------- MODULE CreditHistory -----------------------------
(***************************************************************************)
(* A user leafs through the history of credits (or of bought passes), page *)
(* by page with a cursor, while transactions commit rows.  A row gets its  *)
(* created_at before it is committed, a grant even the time of what it is  *)
(* granted for, so rows appear anywhere in the order.                      *)
(***************************************************************************)
EXTENDS Integers, Sequences, SequencesExt, FiniteSets

CONSTANTS
  Ids,      \* of rows, random and so in any order: numbers
  Writers,  \* transactions at a time
  Limit,    \* rows of a page
  MaxTime   \* bound of the clock

\* What the constants have to be; the module that instantiates this one assumes it.
HistoryAssumption ==
  Ids \subseteq Nat \ {0} /\ Limit \in Nat \ {0} /\ MaxTime \in Nat

VARIABLES
  now,      \* the clock
  table,    \* the committed rows of credit_transactions and credit_lots
  pending,  \* the row a transaction has not committed yet
  reader    \* the user's pages

vars == <<now, table, pending, reader>>

None == [id |-> 0]

\* A transaction that is not an expiration, a lot that was paid for, or a row
\* that no list shows.
Row == [id : Ids, created_at : 0..MaxTime, kind : {"transaction", "pass", "other"}]

Before(r, s) == r.created_at < s.created_at \/ (r.created_at = s.created_at /\ r.id < s.id)

Init ==
  /\ now = 0
  /\ table = {}
  /\ pending = [w \in Writers |-> None]
  /\ \E list \in {"transaction", "pass"} :
       reader = [list |-> list, cursor |-> None, pages |-> <<>>, start |-> {}, step |-> "new"]

-----------------------------------------------------------------------------
(* Transactions.                                                           *)

Unused(id) == \A r \in table \cup {pending[w] : w \in Writers} : r.id # id

Record(w) ==
  /\ pending[w] = None
  /\ \E r \in Row :
       /\ Unused(r.id) /\ r.created_at <= now
       /\ pending' = [pending EXCEPT ![w] = r]
  /\ UNCHANGED <<now, table, reader>>

Commit(w) ==
  /\ pending[w] # None
  /\ table' = table \cup {pending[w]}
  /\ pending' = [pending EXCEPT ![w] = None]
  /\ UNCHANGED <<now, reader>>

Rollback(w) ==
  /\ pending[w] # None
  /\ pending' = [pending EXCEPT ![w] = None]
  /\ UNCHANGED <<now, table, reader>>

Tick ==
  /\ now < MaxTime
  /\ now' = now + 1
  /\ UNCHANGED <<table, pending, reader>>

-----------------------------------------------------------------------------
(* Pages.                                                                  *)

\* Mutant: rows of the same time as the last of the page are passed over.
AfterCursor_ByTime(r, cursor) == cursor = None \/ r.created_at < cursor.created_at

AfterCursor(r, cursor) == cursor = None \/ Before(r, cursor)

\* ORDER BY created_at DESC, id DESC; with one row more than a page shows.
NewestFirst(rows) ==
  CHOOSE s \in [1..Cardinality(rows) -> rows] : \A i, j \in DOMAIN s : i < j => Before(s[j], s[i])

Found(rows, cursor) ==
  LET sorted == NewestFirst({r \in rows : AfterCursor(r, cursor)})
  IN  SubSeq(sorted, 1, IF Len(sorted) < Limit + 1 THEN Len(sorted) ELSE Limit + 1)

Listed(list) == {r \in table : r.kind = list}

find_transaction_page(cursor) == Found(Listed("transaction"), cursor)
find_lot_page(cursor) == Found(Listed("pass"), cursor)

\* The cursor carries the time and the identifier of the last row shown.
Cursor(r) == [id |-> r.id, created_at |-> r.created_at]

has_more(found) == Len(found) > Limit

Page(found) == IF has_more(found) THEN SubSeq(found, 1, Limit) ELSE found

ShowPage(found) ==
  /\ reader' = [ reader EXCEPT
       !.cursor = IF has_more(found) THEN Cursor(Last(Page(found))) ELSE None,
       !.pages = @ \o Page(found),
       !.start = IF reader.step = "new" THEN Listed(reader.list) ELSE @,
       !.step = IF has_more(found) THEN "more" ELSE "done" ]
  /\ UNCHANGED <<now, table, pending>>

ReadHistory ==
  /\ reader.list = "transaction" /\ reader.step # "done"
  /\ ShowPage(find_transaction_page(reader.cursor))

\* With the payment of each pass, whose row was there before the pass.
ReadPasses ==
  /\ reader.list = "pass" /\ reader.step # "done"
  /\ ShowPage(find_lot_page(reader.cursor))

\* GET .../lots and GET .../history
ReadPage == ReadHistory \/ ReadPasses

Next ==
  \/ \E w \in Writers : Record(w) \/ Commit(w) \/ Rollback(w)
  \/ ReadPage
  \/ Tick

Spec == Init /\ [][Next]_vars

-----------------------------------------------------------------------------
(* Properties                                                              *)

\* Whatever is committed while a user leafs through the history, and however
\* old it says it is: no row is shown twice, rows come newest first, and at
\* the last page every row that was there at the first was shown.
HistoryIsWhole ==
  /\ \A i, j \in DOMAIN reader.pages : i < j => Before(reader.pages[j], reader.pages[i])
  /\ reader.step = "done" => reader.start \subseteq ToSet(reader.pages)

-----------------------------------------------------------------------------
(* The inductive invariant.                                                *)

\* Ids name rows, those of transactions that have not committed included.
RowsAreUnique ==
  /\ now \in 0..MaxTime
  /\ table \subseteq Row /\ IsFiniteSet(table)
  /\ pending \in [Writers -> Row \cup {None}]
  /\ \A r, s \in table : r.id = s.id => r = s
  /\ \A w \in Writers : pending[w] # None => \A r \in table : r.id # pending[w].id
  /\ \A v, w \in Writers : pending[v] # None /\ pending[v].id = pending[w].id => v = w

\* Between two pages, every row of the first page's time that was not shown
\* is older than the cursor.
ReaderGoesOn ==
  /\ reader \in [ list : {"transaction", "pass"}, cursor : {None} \cup [id : Ids, created_at : 0..MaxTime],
                  pages : Seq(Row), start : SUBSET table, step : {"new", "more", "done"} ]
  /\ \A r \in reader.start : r.kind = reader.list
  /\ reader.step = "new" => reader.pages = <<>> /\ reader.cursor = None
  /\ reader.step = "more" =>
       /\ reader.pages # <<>> /\ reader.cursor = Cursor(Last(reader.pages))
       /\ \A r \in reader.start : r \in ToSet(reader.pages) \/ Before(r, Last(reader.pages))

IInv == RowsAreUnique /\ ReaderGoesOn /\ HistoryIsWhole
=============================================================================
