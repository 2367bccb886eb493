----------------------------- MODULE LedgerView -----------------------------
(***************************************************************************)
(* The ledger as its readers see it: the abstract specification Journal    *)
(* that Ledger implements.                                                 *)
(***************************************************************************)
EXTENDS Ledger

J == INSTANCE Journal WITH balance <- committed, journal <- CommittedEntries

\* To its readers the ledger is an append-only journal: however the sessions
\* interleave, fail or crash, the only visible step is one in which the entries
\* of new transactions and the balances they lead to appear together, at the
\* end of their accounts and under a larger version (InTx around Post, Capture,
\* Void and Reverse).
ImplementsJournal == J!JournalSpec
=============================================================================
