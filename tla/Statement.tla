----------------------------- MODULE Statement ------------------------------
(***************************************************************************)
(* A client that reads an account through the API: its balance, and then   *)
(* its statement page by page (handleGetBalance and handleListEntries of   *)
(* internal/httpapi/accounts.go over ListEntries of internal/postgres).    *)
(* Every request is a database read of its own, and transactions keep      *)
(* committing between them.                                                *)
(***************************************************************************)
EXTENDS Journal

CONSTANT Limit   \* the page sizes clients ask for, after Page.Normalize

ASSUME LimitAssumption == Limit \subseteq Nat \ {0}

VARIABLE
  walk   \* the client: the account, where it is, the cursor (the id of the
         \* last entry read), the entries read so far and the balance read
         \* before them; asOf and total record the account at the first page

readerVars == << balance, journal, walk >>

StatementInit ==
  /\ JournalInit
  /\ \E a \in Account :
       walk = [account |-> a, stage |-> "start", cursor |-> 0, seen |-> {},
               again |-> FALSE, known |-> 0, asOf |-> {}, total |-> 0]

\* Mutant: the figure returned as posted has the holds taken off.
PostedLessHolds(a) == Available(balance[a])

\* The posted figure of GetBalance.
Posted(a) == balance[a].posted

\* GET /accounts/{id}/balance.
ReadBalance ==
  /\ walk.stage = "start"
  /\ walk' = [walk EXCEPT !.stage = "balance", !.known = Posted(walk.account)]
  /\ UNCHANGED journalVars

\* Mutant: the row at the cursor is returned again.
OlderOrSame(a, id) == {e \in On(a) : e.id <= id}

\* The rows behind the cursor: WHERE account_id = $1 AND id < $2.
Older(a, id) == {e \in On(a) : e.id < id}

\* The client's state once it has read a page; again records that the page
\* repeated a row.
Took(page, stage, cursor) ==
  [walk EXCEPT
     !.stage = stage,
     !.cursor = cursor,
     !.seen = @ \cup page,
     !.again = @ \/ page \cap walk.seen # {},
     !.asOf = IF walk.stage = "balance" THEN On(walk.account) ELSE @,
     !.total = IF walk.stage = "balance" THEN balance[walk.account].posted ELSE @]

\* The token for the next page: it carries created_at and the id of the entry,
\* and ListEntries uses the id of what ParseCursor reads back.
CursorFor(e) == e.id

\* ListEntries cuts the newest n rows out of the given ones (ORDER BY id DESC
\* LIMIT n + 1).  The row too many tells that there is a next page, and then
\* the cursor is the last row of this one.
ReadPage(rows) ==
  \E n \in Limit, page \in SUBSET rows :
    /\ \A e \in page, f \in rows \ page : f.id < e.id
    /\ \/ /\ page # rows
          /\ Cardinality(page) = n
          /\ \E last \in page : /\ \A e \in page : last.id <= e.id
                                /\ walk' = Took(page, "paging", CursorFor(last))
       \/ /\ page = rows
          /\ Cardinality(page) <= n
          /\ walk' = Took(page, "done", walk.cursor)
    /\ UNCHANGED journalVars

FirstPage == walk.stage = "balance" /\ ReadPage(On(walk.account))

NextPage == walk.stage = "paging" /\ ReadPage(Older(walk.account, walk.cursor))

ReaderStep == ReadBalance \/ FirstPage \/ NextPage

StatementNext == (Publish /\ UNCHANGED walk) \/ ReaderStep

StatementSpec == StatementInit /\ [][StatementNext]_readerVars

-----------------------------------------------------------------------------
(* Properties *)

\* However many transactions commit between the pages, the pages together are
\* exactly the account as it was when the first one was read, no entry twice
\* and none missing, and balance_after leads through them from zero to the
\* balance the account had then (ListEntries, postgres/ledger.go:362-394).
StatementIsSnapshot ==
  walk.stage = "done" =>
    /\ walk.seen = walk.asOf /\ ~ walk.again
    /\ Chain(walk.seen, 0, walk.total)

\* The balance the client read before the first page is the balance_after of
\* an entry of the statement: the two reads are different requests, and the
\* statement may only be newer (handleGetBalance, handleListEntries).
BalanceInStatement ==
  walk.stage = "done" /\ walk.known # 0 =>
    \E e \in walk.seen : e.after = walk.known
=============================================================================
