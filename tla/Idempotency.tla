---------------------------- MODULE Idempotency ----------------------------
(***************************************************************************)
(* Idempotent request handling: internal/idempotency/middleware.go over    *)
(* internal/postgres/idempotency.go, with the handlers' completeIdempotent. *)
(*                                                                         *)
(* Several clients send requests under one idempotency key of one merchant *)
(* (keys do not interact).  The table holds at most one record for it.  A  *)
(* request claims the record, runs its handler, and the handler records    *)
(* the response in the same database transaction as the ledger entries.    *)
(* The ledger entries are abstracted to the fact that they were committed. *)
(*                                                                         *)
(* Time is counted in ticks.  Each timestamp is kept as the time left      *)
(* until it, so the model has no clock to bound.                           *)
(***************************************************************************)
EXTENDS Integers, FiniteSets, FiniteSetsExt

CONSTANTS
  Client,         \* clients that retry until they have an answer
  Fingerprint,    \* fingerprints of requests
  RecordId,       \* ids for records
  LeaseDuration,  \* how long a record is locked: 60s
  TTL,            \* how long a record is kept: 24h
  HandlerTimeout, \* the deadline of a request: 30s
  FinishTimeout,  \* the deadline of finish after that: 5s
  Faults,         \* what may go wrong
  MaxFaults,      \* bound: how often something does
  None

ASSUME TimesAssumption ==
  {LeaseDuration, TTL, HandlerTimeout, FinishTimeout} \subseteq Nat \ {0}
ASSUME FaultsAssumption ==
  /\ Faults \subseteq {"handler", "crash", "commit", "ack", "finish"}
  /\ MaxFaults \in Nat

\* A new uuid is not one that a request works under.
ASSUME FreshAssumption ==
  \A ids \in [Client -> RecordId \cup {None}] :
    \E id \in RecordId : \A c \in Client : ids[c] # id

VARIABLES
  hash,      \* the fingerprint of the request each client sends and resends
  row,       \* the committed record of the key, or None
  rowLock,   \* the client whose open transaction has updated it, or None
  effects,   \* committed executions whose record has not expired
  pc,        \* where the request of each client is
  held,      \* the record each request works under
  age,       \* ticks since the request took its timestamp
  status,    \* the class of the status the handler wrote
  answer,    \* the last answer each client received
  faults     \* faults so far

vars == << hash, row, rowLock, effects, pc, held, age, status, answer, faults >>

-----------------------------------------------------------------------------

Record ==
  [id : RecordId, hash : Fingerprint,
   state : {"in_progress", "succeeded", "failed"},
   lease : Int, ttl : Int, response : Client \cup {None}]

ASSUME NoneAssumption == None \notin Client \cup RecordId \cup Record

IsTerminal(rec) == rec.state \in {"succeeded", "failed"}

\* Mutant: a lock is held until the record is deleted.
NeverExpired(rec, c) == FALSE

\* LockExpired compares with the timestamp the request took on arrival.
LockExpired(rec, c) == rec.lease + age[c] <= 0

Answer(kind, of) == [kind |-> kind, of |-> of]

\* A client stops when it has learned the outcome.
Answered(c) == answer[c].kind \in {"done", "rejected", "replay", "mismatch"}

\* A request takes up ticks of its deadline while it is in one of these.
Running == {"acquire", "get", "takeover", "serve", "commit"}

Init ==
  /\ hash \in [Client -> Fingerprint]
  /\ row = None
  /\ rowLock = None
  /\ effects = {}
  /\ pc = [c \in Client |-> "idle"]
  /\ held = [c \in Client |-> None]
  /\ age = [c \in Client |-> 0]
  /\ status = [c \in Client |-> None]
  /\ answer = [c \in Client |-> Answer("none", None)]
  /\ faults = 0

\* The request of c is over, with this answer.
Reply(c, kind, of) ==
  /\ pc' = [pc EXCEPT ![c] = "idle"]
  /\ held' = [held EXCEPT ![c] = None]
  /\ age' = [age EXCEPT ![c] = 0]
  /\ status' = [status EXCEPT ![c] = None]
  /\ answer' = [answer EXCEPT ![c] = Answer(kind, of)]

Fault(kind) ==
  /\ kind \in Faults
  /\ faults < MaxFaults
  /\ faults' = faults + 1

-----------------------------------------------------------------------------
(* The decision flow of Handler *)

Send(c) ==
  /\ pc[c] = "idle"
  /\ ~ Answered(c)
  /\ pc' = [pc EXCEPT ![c] = "acquire"]
  /\ UNCHANGED << hash, row, rowLock, effects, held, age, status, answer, faults >>

FreshIds ==
  RecordId \ ({held[c] : c \in Client} \cup (IF row = None THEN {} ELSE {row.id}))

\* Acquire: INSERT ... ON CONFLICT DO NOTHING.
Acquire(c) ==
  /\ pc[c] = "acquire"
  /\ IF row = None
     THEN LET id == CHOOSE i \in FreshIds : TRUE IN
          /\ row' = [id |-> id, hash |-> hash[c], state |-> "in_progress",
                     lease |-> LeaseDuration - age[c], ttl |-> TTL - age[c],
                     response |-> None]
          /\ held' = [held EXCEPT ![c] = id]
          /\ pc' = [pc EXCEPT ![c] = "serve"]
     ELSE /\ pc' = [pc EXCEPT ![c] = "get"]
          /\ UNCHANGED << row, held >>
  /\ UNCHANGED << hash, rowLock, effects, age, status, answer, faults >>

\* Mutant: any record of the key is taken for the same request.
FingerprintIgnored(rec, c) == TRUE

FingerprintMatches(rec, c) == rec.hash = hash[c]

\* Acquire has lost and reads the winner's record, and Handler decides between
\* replay, conflict and takeover.  A record that is gone by now is an error.
Get(c) ==
  /\ pc[c] = "get"
  /\ \/ row = None /\ Reply(c, "error", None)
     \/ /\ row # None
        /\ ~ FingerprintMatches(row, c)
        /\ Reply(c, "mismatch", None)
     \/ /\ row # None
        /\ FingerprintMatches(row, c)
        /\ IsTerminal(row)
        /\ Reply(c, "replay", row.response)
     \/ /\ row # None
        /\ FingerprintMatches(row, c)
        /\ ~ IsTerminal(row)
        /\ ~ LockExpired(row, c)
        /\ Reply(c, "conflict", None)
     \/ /\ row # None
        /\ FingerprintMatches(row, c)
        /\ ~ IsTerminal(row)
        /\ LockExpired(row, c)
        /\ held' = [held EXCEPT ![c] = row.id]
        /\ pc' = [pc EXCEPT ![c] = "takeover"]
        /\ UNCHANGED << age, status, answer >>
  /\ UNCHANGED << hash, row, rowLock, effects, faults >>

\* The record that c works under is still there.
HoldsRecord(c) == row # None /\ row.id = held[c]

\* Mutant: the update does not compare the lease again.
TakeOverBlindly(c) == HoldsRecord(c) /\ row.state = "in_progress"

\* The condition of TakeOver, on the record as it is now.
TakeOverWins(c) ==
  /\ HoldsRecord(c)
  /\ row.state = "in_progress"
  /\ row.lease <= 0

\* TakeOver waits for a transaction that has updated the record.
TakeOver(c) ==
  /\ pc[c] = "takeover"
  /\ rowLock = None
  /\ IF TakeOverWins(c)
     THEN /\ row' = [row EXCEPT !.lease = LeaseDuration - age[c]]
          /\ pc' = [pc EXCEPT ![c] = "serve"]
          /\ UNCHANGED << held, age, status, answer >>
     ELSE /\ Reply(c, "conflict", None)
          /\ UNCHANGED row
  /\ UNCHANGED << hash, rowLock, effects, faults >>

-----------------------------------------------------------------------------
(* The handler *)

\* The handler has written the ledger entries and records the response in the
\* same transaction: the update locks the record until the end.  When the
\* record is gone the handler's transaction is rolled back.
Execute(c) ==
  /\ pc[c] = "serve"
  /\ IF HoldsRecord(c)
     THEN /\ rowLock = None
          /\ rowLock' = c
          /\ pc' = [pc EXCEPT ![c] = "commit"]
          /\ UNCHANGED status
     ELSE /\ status' = [status EXCEPT ![c] = "5xx"]
          /\ pc' = [pc EXCEPT ![c] = "finish"]
          /\ UNCHANGED rowLock
  /\ UNCHANGED << hash, row, effects, held, age, answer, faults >>

\* The handler refuses the request before it has recorded anything.
Reject(c) ==
  /\ pc[c] = "serve"
  /\ status' = [status EXCEPT ![c] = "4xx"]
  /\ pc' = [pc EXCEPT ![c] = "finish"]
  /\ UNCHANGED << hash, row, rowLock, effects, held, age, answer, faults >>

\* A statement of Handler fails, for instance at the deadline or waiting for a
\* row lock.
StoreFails(c) ==
  /\ pc[c] \in {"acquire", "get", "takeover"}
  /\ Fault("handler")
  /\ Reply(c, "error", None)
  /\ UNCHANGED << hash, row, rowLock, effects >>

\* The handler fails, for instance at the deadline.
Fail(c) ==
  /\ pc[c] = "serve"
  /\ Fault("handler")
  /\ status' = [status EXCEPT ![c] = "5xx"]
  /\ pc' = [pc EXCEPT ![c] = "finish"]
  /\ UNCHANGED << hash, row, rowLock, effects, held, age, answer >>

\* Mutant: the commit keeps the entries and loses the response.
EntriesOnly(c) == row

\* The record with the response of c.
Completed(c) == [row EXCEPT !.state = "succeeded", !.response = c, !.lease = 0]

\* The transaction is committed: the entries and the response together.
Committed(c) ==
  /\ pc[c] = "commit"
  /\ row' = Completed(c)
  /\ rowLock' = None
  /\ effects' = {e \in effects \cup {[by |-> c, ttl |-> row.ttl]} : e.ttl >= 0}

Commit(c) ==
  /\ Committed(c)
  /\ Reply(c, "done", c)
  /\ UNCHANGED << hash, faults >>

\* The commit happens and its acknowledgement is lost.  The handler answers
\* 500, and finish does nothing: the record is marked as completed.
CommitUnacknowledged(c) ==
  /\ Committed(c)
  /\ Fault("ack")
  /\ Reply(c, "5xx", None)
  /\ UNCHANGED hash

\* The commit fails.  The handler answers 500, and finish does nothing: the
\* record in memory is marked as completed all the same.
CommitFails(c) ==
  /\ pc[c] = "commit"
  /\ Fault("commit")
  /\ rowLock' = None
  /\ Reply(c, "5xx", None)
  /\ UNCHANGED << hash, row, effects >>

-----------------------------------------------------------------------------
(* After the handler *)

\* finish: a 5xx releases the record, a 4xx is stored for replay.  Both
\* statements wait for a transaction that has updated the record.
Finish(c) ==
  /\ pc[c] = "finish"
  /\ HoldsRecord(c) => rowLock = None
  /\ row' = IF ~ HoldsRecord(c) THEN row
            ELSE IF status[c] = "4xx"
            THEN [row EXCEPT !.state = "failed", !.response = c, !.lease = 0]
            ELSE IF row.state = "in_progress" THEN None ELSE row
  /\ IF status[c] = "4xx" THEN Reply(c, "rejected", c) ELSE Reply(c, "5xx", None)
  /\ UNCHANGED << hash, rowLock, effects, faults >>

\* The statement of finish fails, which is ignored.
FinishFails(c) ==
  /\ pc[c] = "finish"
  /\ Fault("finish")
  /\ IF status[c] = "4xx" THEN Reply(c, "rejected", c) ELSE Reply(c, "5xx", None)
  /\ UNCHANGED << hash, row, rowLock, effects >>

\* The server dies or the handler panics: nothing more is done for the request.
Crash(c) ==
  /\ pc[c] # "idle"
  /\ Fault("crash")
  /\ rowLock' = IF rowLock = c THEN None ELSE rowLock
  /\ Reply(c, "lost", None)
  /\ UNCHANGED << hash, row, effects >>

\* The reaper deletes an expired record.
Reap ==
  /\ row # None
  /\ row.ttl < 0
  /\ rowLock = None
  /\ row' = None
  /\ UNCHANGED << hash, rowLock, effects, pc, held, age, status, answer, faults >>

\* The context of a request ends at its deadline, and finish has its own after
\* it: time does not pass a deadline before the request has taken its step.
InTime(c) ==
  /\ pc[c] \in Running => age[c] < HandlerTimeout
  /\ pc[c] = "finish" => age[c] < HandlerTimeout + FinishTimeout

Tick ==
  /\ \A c \in Client : InTime(c)
  /\ age' = [c \in Client |-> IF pc[c] = "idle" THEN 0 ELSE age[c] + 1]
  /\ row' = IF row = None THEN None
            ELSE [row EXCEPT !.lease = IF IsTerminal(row) THEN @
                                       ELSE Max({@ - 1, -(HandlerTimeout + 1)}),
                             !.ttl = Max({@ - 1, -1})]
  /\ effects' = {[e EXCEPT !.ttl = @ - 1] : e \in {f \in effects : f.ttl > 0}}
  /\ UNCHANGED << hash, rowLock, pc, held, status, answer, faults >>

-----------------------------------------------------------------------------

Step(c) ==
  \/ Acquire(c) \/ Get(c) \/ TakeOver(c)
  \/ Execute(c) \/ Reject(c) \/ Commit(c) \/ Finish(c)

Failure(c) ==
  \/ StoreFails(c) \/ Fail(c) \/ CommitUnacknowledged(c) \/ CommitFails(c)
  \/ FinishFails(c) \/ Crash(c)

Next == Tick \/ Reap \/ \E c \in Client : Send(c) \/ Step(c) \/ Failure(c)

Spec == Init /\ [][Next]_vars

\* Time passes, a client without an answer retries, and a running request goes
\* on, waiting for a row lock included.
LiveSpec ==
  /\ Spec
  /\ WF_vars(Tick)
  /\ \A c \in Client : WF_vars(Send(c)) /\ WF_vars(Step(c))

-----------------------------------------------------------------------------
(* Properties *)

\* However requests, retries, takeovers, releases and the reaper interleave, the
\* key moves money at most once before its record expires ("No double-charge",
\* DESIGN.md:1124; middleware.go:247-252).
ExactlyOnce == Cardinality(effects) <= 1

\* There is no window in which money moved but the response was not recorded
\* (DESIGN.md:648-652): while an execution has not expired its response is the
\* one a retry replays, and no late finish overwrites it.
Replayable ==
  \A e \in effects :
    /\ row # None
    /\ row.state = "succeeded"
    /\ row.response = e.by

\* A client is only ever given the stored response to the request it sent
\* (middleware.go:146-152), also when the record was released and claimed again
\* for another request in the meantime.
ReplayMatchesRequest ==
  \A c \in Client :
    answer[c].kind = "replay" =>
      /\ answer[c].of # None
      /\ hash[answer[c].of] = hash[c]

\* Every client that retries learns the outcome, whatever crashed before: a
\* lease left behind expires and the record is taken over.
EventuallyAnswered == \A c \in Client : <> Answered(c)

-----------------------------------------------------------------------------
(* What a document says and the code contradicts *)

\* A 5xx response does not lock the key (DESIGN.md:696, 1078): once a request is
\* over that was answered with one, its client finds the key free or the
\* response recorded, unless another request works on it.
ServerErrorUnlocks ==
  \A c \in Client :
    answer[c].kind = "5xx" /\ row # None /\ row.state = "in_progress" =>
      \E d \in Client : held[d] = row.id
=============================================================================
