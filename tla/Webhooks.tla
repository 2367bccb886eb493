------------------------------ MODULE Webhooks ------------------------------
(***************************************************************************)
(* The outbox and the delivery queue: internal/webhooks/worker.go,         *)
(* delivery.go and backoff.go over internal/postgres/webhooks.go.          *)
(*                                                                         *)
(* Events and endpoints of one merchant.  Dispatchers turn events into     *)
(* deliveries, one for each subscribed endpoint.  Workers claim due        *)
(* deliveries in batches, under a lease, and post them one by one, outside *)
(* any transaction; a sweeper returns deliveries whose lease has passed.   *)
(*                                                                         *)
(* Each database statement is atomic, and so is a dispatch at its commit.  *)
(* The merchant's endpoint is an environment that answers as it likes.     *)
(* Time is counted in ticks, and a timestamp is the time left until it.    *)
(***************************************************************************)
EXTENDS Integers, FiniteSets, FiniteSetsExt

CONSTANTS
  Event,          \* events, numbered in the order of their ids
  Endpoint,
  Subscribed,     \* the pairs << e, p >> in which p wants events of e's type
  Dispatcher,
  Worker,
  DispatchBatch,  \* LIMIT of a dispatch
  BatchSize,      \* LIMIT of a claim: 50
  Leases,         \* how long a claim may be configured to last: 60s
  RequestTimeout, \* how long one attempt takes at most: 5s
  MaxAttempts,    \* retry budget: 16
  DegradeAfter,   \* 20
  DisableAfter,   \* 100
  BackoffBase, BackoffCap,
  MaxMishaps,     \* bound, for each lease: crashes and failed statements
  MaxReplays,     \* bound, for each lease: replays of exhausted deliveries
  Null

ASSUME QueueAssumption ==
  /\ Event \subseteq Nat
  /\ Subscribed \subseteq Event \X Endpoint /\ IsFiniteSet(Subscribed)
  /\ {DispatchBatch, BatchSize, RequestTimeout, MaxAttempts} \subseteq Nat \ {0}
  /\ Leases \subseteq Nat \ {0}
  /\ {DegradeAfter, DisableAfter, BackoffBase} \subseteq Nat \ {0}
  /\ BackoffCap \in Nat /\ BackoffCap >= BackoffBase
  /\ {MaxMishaps, MaxReplays} \subseteq [Leases -> Nat]

VARIABLES
  lease,      \* the configured lease
  outbox,     \* each event: "none", "waiting" or "dispatched"
  dispatch,   \* the open transaction of each dispatcher
  endpoint,   \* each endpoint's status, failure count and whether disabled_at is set
  delivery,   \* each delivery row, or Null
  job,        \* what each worker is doing
  mishaps, replays,
  late        \* history: deliveries whose lease ran out while a worker had them in hand

webhookVars ==
  << lease, outbox, dispatch, endpoint, delivery, job, mishaps, replays, late >>

-----------------------------------------------------------------------------
(* Rows *)

\* Interval: the base doubled once for each attempt, up to the cap.
Interval[attempt \in Nat] ==
  IF attempt = 0 THEN BackoffBase
  ELSE Min({BackoffCap, 2 * Interval[attempt - 1]})

DeliveryState == {"pending", "delivering", "succeeded", "exhausted", "disabled"}

Terminal == {"succeeded", "exhausted", "disabled"}

Delivery == [state : DeliveryState, attempt : Nat, due : Nat, lease : Int \cup {Null}]

ASSUME NullAssumption == Null \notin Delivery \cup Int

NewDelivery == [state |-> "pending", attempt |-> 0, due |-> 0, lease |-> Null]

\* A worker between two attempts.
NoAttempt(stage, queue) ==
  [stage |-> stage, queue |-> queue, item |-> Null, status |-> Null,
   response |-> Null, failures |-> 0, age |-> 0]

Idle == NoAttempt("idle", {})

\* The rest of a batch.
Remaining(queue) == NoAttempt("next", queue)

\* An item of a batch: the delivery and its attempt count when it was claimed.
Item(d) == [delivery |-> d, attempt |-> delivery[d].attempt]

NoDispatch == [stage |-> "idle", events |-> {}, targets |-> {}]

WebhookInit ==
  /\ lease \in Leases
  /\ outbox = [e \in Event |-> "none"]
  /\ dispatch = [x \in Dispatcher |-> NoDispatch]
  /\ endpoint = [p \in Endpoint |->
                   [status |-> "active", failures |-> 0, disabledAt |-> FALSE]]
  /\ delivery = [d \in Subscribed |-> Null]
  /\ job = [w \in Worker |-> Idle]
  /\ mishaps = 0
  /\ replays = 0
  /\ late = {}

Mishap == mishaps < MaxMishaps[lease] /\ mishaps' = mishaps + 1

InState(state) == {d \in Subscribed : delivery[d] # Null /\ delivery[d].state = state}

-----------------------------------------------------------------------------
(* The outbox and the dispatcher *)

\* An event is committed together with the ledger entries it is about.
AppendEvent(e) ==
  /\ outbox[e] = "none"
  /\ outbox' = [outbox EXCEPT ![e] = "waiting"]
  /\ UNCHANGED << lease, dispatch, endpoint, delivery, job, mishaps, replays, late >>

\* Events no open dispatch holds: FOR UPDATE SKIP LOCKED.
Unlocked ==
  {e \in Event : outbox[e] = "waiting"} \ UNION {dispatch[x].events : x \in Dispatcher}

ClaimUndispatched(x) ==
  /\ dispatch[x].stage = "idle"
  /\ Unlocked # {}
  /\ LET batch == {e \in Unlocked :
                     Cardinality({f \in Unlocked : f < e}) < DispatchBatch}
     IN dispatch' = [dispatch EXCEPT ![x] =
                       [stage |-> "expand", events |-> batch, targets |-> {}]]
  /\ UNCHANGED << lease, outbox, endpoint, delivery, job, mishaps, replays, late >>

\* Mutant: a degraded endpoint gets no new deliveries.
HealthyEndpoints == {p \in Endpoint : endpoint[p].status = "active"}

ActiveEndpoints == {p \in Endpoint : endpoint[p].status # "disabled"}

\* The endpoints are read after the events are claimed, and may change before
\* the dispatch commits.
Expand(x) ==
  /\ dispatch[x].stage = "expand"
  /\ dispatch' = [dispatch EXCEPT
       ![x].stage = "commit",
       ![x].targets = {d \in Subscribed :
                         d[1] \in dispatch[x].events /\ d[2] \in ActiveEndpoints}]
  /\ UNCHANGED << lease, outbox, endpoint, delivery, job, mishaps, replays, late >>

\* EnqueueDeliveries skips pairs that have a row; MarkDispatched; the commit.
CommitDispatch(x) ==
  /\ dispatch[x].stage = "commit"
  /\ delivery' = [d \in Subscribed |->
                    IF d \in dispatch[x].targets /\ delivery[d] = Null
                    THEN NewDelivery ELSE delivery[d]]
  /\ outbox' = [e \in Event |->
                  IF e \in dispatch[x].events THEN "dispatched" ELSE outbox[e]]
  /\ dispatch' = [dispatch EXCEPT ![x] = NoDispatch]
  /\ UNCHANGED << lease, endpoint, job, mishaps, replays, late >>

\* The dispatcher fails or dies, and its transaction is rolled back.
RollbackDispatch(x) ==
  /\ dispatch[x].stage # "idle"
  /\ Mishap
  /\ dispatch' = [dispatch EXCEPT ![x] = NoDispatch]
  /\ UNCHANGED << lease, outbox, endpoint, delivery, job, replays, late >>

-----------------------------------------------------------------------------
(* A worker: DeliverOnce and attempt *)

Due == {d \in InState("pending") : delivery[d].due = 0}

\* ClaimDue takes up to a batch of due deliveries and leases them.
ClaimDue(w) ==
  /\ job[w].stage = "idle"
  /\ Due # {}
  /\ \E batch \in kSubset(Min({BatchSize, Cardinality(Due)}), Due) :
       /\ job' = [job EXCEPT ![w] = Remaining({Item(d) : d \in batch})]
       /\ delivery' = [d \in Subscribed |->
                         IF d \in batch
                         THEN [delivery[d] EXCEPT !.state = "delivering", !.lease = lease]
                         ELSE delivery[d]]
  /\ UNCHANGED << lease, outbox, dispatch, endpoint, mishaps, replays, late >>

\* attempt begins with GetEndpoint; a disabled endpoint gets no request.
StartAttempt(w) ==
  /\ job[w].stage = "next"
  /\ \E i \in job[w].queue :
       LET health == endpoint[i.delivery[2]].status IN
       job' = [job EXCEPT ![w] =
                 [stage |-> IF health = "disabled" THEN "settle" ELSE "post",
                  queue |-> job[w].queue \ {i}, item |-> i, status |-> health,
                  response |-> Null, failures |-> 0, age |-> 0]]
  /\ UNCHANGED << lease, outbox, dispatch, endpoint, delivery, mishaps, replays, late >>

\* The batch is done.
EndBatch(w) ==
  /\ job[w].stage = "next"
  /\ job[w].queue = {}
  /\ job' = [job EXCEPT ![w] = Idle]
  /\ UNCHANGED << lease, outbox, dispatch, endpoint, delivery, mishaps, replays, late >>

\* The endpoint answers; "other" is any other answer, an error or a timeout,
\* whether the endpoint has taken the delivery or not.
Post(w) ==
  /\ job[w].stage = "post"
  /\ \E response \in {"2xx", "410", "other"} :
       job' = [job EXCEPT ![w] = [@ EXCEPT !.stage = "settle", !.response = response]]
  /\ UNCHANGED << lease, outbox, dispatch, endpoint, delivery, mishaps, replays, late >>

\* Mutant: the last attempt is not counted.
ClassifyLate(response, attempt) ==
  IF response = "2xx" THEN "succeeded"
  ELSE IF response = "410" THEN "disabled"
  ELSE IF attempt >= MaxAttempts THEN "exhausted" ELSE "retry"

Classify(response, attempt) ==
  IF response = "2xx" THEN "succeeded"
  ELSE IF response = "410" THEN "disabled"
  ELSE IF attempt + 1 >= MaxAttempts THEN "exhausted" ELSE "retry"

\* No request was made to a disabled endpoint.
Outcome(w) ==
  IF job[w].response = Null THEN "disabled"
  ELSE Classify(job[w].response, job[w].item.attempt)

\* CompleteDelivery and RescheduleDelivery update the row whatever its state is
\* by now.
Settled(old, state, delay) ==
  [state |-> state, attempt |-> old.attempt + 1, due |-> delay, lease |-> Null]

\* RecordAttempt, Classify, and the row is completed or rescheduled.
Settle(w) ==
  /\ job[w].stage = "settle"
  /\ LET d == job[w].item.delivery
         outcome == Outcome(w)
     IN
     /\ \/ /\ outcome = "retry"
           /\ \E delay \in 0 .. Interval[job[w].item.attempt] :
                delivery' = [delivery EXCEPT ![d] = Settled(@, "pending", delay)]
        \/ /\ outcome # "retry"
           /\ delivery' = [delivery EXCEPT ![d] = Settled(@, outcome, 0)]
     /\ job' = [job EXCEPT ![w] =
                  IF outcome = "retry" \/ @.response = Null THEN Remaining(@.queue)
                  ELSE [@ EXCEPT !.stage = outcome, !.response = Null]]
  /\ UNCHANGED << lease, outbox, dispatch, endpoint, mishaps, replays, late >>

\* After a success ResetEndpointFailures, after a 410 SetEndpointStatus, after
\* the last attempt IncrementEndpointFailures.
UpdateEndpoint(w) ==
  LET p == job[w].item.delivery[2]
      count == endpoint[p].failures + 1
  IN
  /\ \/ /\ job[w].stage = "succeeded"
        /\ endpoint' = [endpoint EXCEPT ![p] = [@ EXCEPT !.failures = 0]]
        /\ job' = [job EXCEPT ![w] = Remaining(@.queue)]
     \/ /\ job[w].stage = "disabled"
        /\ endpoint' = [endpoint EXCEPT ![p] =
                          [@ EXCEPT !.status = "disabled", !.disabledAt = TRUE]]
        /\ job' = [job EXCEPT ![w] = Remaining(@.queue)]
     \/ /\ job[w].stage = "exhausted"
        /\ endpoint' = [endpoint EXCEPT ![p] = [@ EXCEPT !.failures = count]]
        /\ job' = [job EXCEPT ![w] = [@ EXCEPT !.stage = "threshold", !.failures = count]]
  /\ UNCHANGED << lease, outbox, dispatch, delivery, mishaps, replays, late >>

\* The rest of recordEndpointFailure: the count is the one the increment
\* returned, the status the one read when the attempt began.
ApplyThreshold(w) ==
  LET p == job[w].item.delivery[2] IN
  /\ job[w].stage = "threshold"
  /\ endpoint' =
       IF job[w].failures >= DisableAfter
       THEN [endpoint EXCEPT ![p] = [@ EXCEPT !.status = "disabled", !.disabledAt = TRUE]]
       ELSE IF job[w].failures >= DegradeAfter /\ job[w].status = "active"
       THEN [endpoint EXCEPT ![p] = [@ EXCEPT !.status = "degraded"]]
       ELSE endpoint
  /\ job' = [job EXCEPT ![w] = Remaining(@.queue)]
  /\ UNCHANGED << lease, outbox, dispatch, delivery, mishaps, replays, late >>

\* A statement of attempt fails: the error is logged and the batch goes on.
AttemptFails(w) ==
  /\ job[w].stage \notin {"idle", "next"}
  /\ Mishap
  /\ job' = [job EXCEPT ![w] = Remaining(@.queue)]
  /\ UNCHANGED << lease, outbox, dispatch, endpoint, delivery, replays, late >>

\* The worker dies.
CrashWorker(w) ==
  /\ job[w].stage # "idle"
  /\ Mishap
  /\ job' = [job EXCEPT ![w] = Idle]
  /\ UNCHANGED << lease, outbox, dispatch, endpoint, delivery, replays, late >>

-----------------------------------------------------------------------------
(* The sweeper, operators and time *)

\* Mutant: every claimed delivery is returned.
AnyLease(d) == TRUE

\* Mutant: no claimed delivery is returned.
NoLease(d) == FALSE

LeaseExpired(d) == delivery[d].lease < 0

Reclaimable == {d \in InState("delivering") : LeaseExpired(d)}

\* ReclaimExpiredLeases
ReclaimOnce ==
  /\ Reclaimable # {}
  /\ delivery' = [d \in Subscribed |->
                    IF d \in Reclaimable
                    THEN [delivery[d] EXCEPT !.state = "pending", !.lease = Null]
                    ELSE delivery[d]]
  /\ UNCHANGED << lease, outbox, dispatch, endpoint, job, mishaps, replays, late >>

\* Only an exhausted delivery is replayed.
ReplayDelivery(d) ==
  /\ replays < MaxReplays[lease]
  /\ d \in InState("exhausted")
  /\ delivery' = [delivery EXCEPT ![d] = NewDelivery]
  /\ replays' = replays + 1
  /\ UNCHANGED << lease, outbox, dispatch, endpoint, job, mishaps, late >>

\* The items a worker still has to settle, the one at hand included.
Claimed(j) ==
  j.queue \cup (IF j.stage \in {"post", "settle"} THEN {j.item} ELSE {})

\* The deliveries that some worker has in hand.
Held == {d \in Subscribed : \E w \in Worker : \E i \in Claimed(job[w]) : i.delivery = d}

Busy(w) == job[w].stage \notin {"idle", "next"}

\* A tick passes.  An attempt does not last longer than its timeout, and the next
\* one of the batch follows at once.
TickQueue ==
  /\ \A w \in Worker :
       job[w].stage = "idle" \/ (Busy(w) /\ job[w].age < RequestTimeout)
  /\ job' = [w \in Worker |-> IF Busy(w) THEN [job[w] EXCEPT !.age = @ + 1] ELSE job[w]]
  /\ delivery' = [d \in Subscribed |->
       IF delivery[d] = Null THEN Null
       ELSE [delivery[d] EXCEPT
               !.due = Max({@ - 1, 0}),
               !.lease = IF @ = Null THEN Null ELSE Max({@ - 1, -1})]]
  /\ late' = late \cup {d \in Held : delivery'[d].lease = -1}
  /\ UNCHANGED << lease, outbox, dispatch, endpoint, mishaps, replays >>

-----------------------------------------------------------------------------

DispatchStep(x) == ClaimUndispatched(x) \/ Expand(x) \/ CommitDispatch(x)

Attempt(w) ==
  \/ StartAttempt(w) \/ EndBatch(w) \/ Post(w) \/ Settle(w)
  \/ UpdateEndpoint(w) \/ ApplyThreshold(w)

WebhookNext ==
  \/ TickQueue \/ ReclaimOnce
  \/ \E e \in Event : AppendEvent(e)
  \/ \E x \in Dispatcher : DispatchStep(x) \/ RollbackDispatch(x)
  \/ \E w \in Worker : ClaimDue(w) \/ Attempt(w) \/ AttemptFails(w) \/ CrashWorker(w)
  \/ \E d \in Subscribed : ReplayDelivery(d)

WebhookSpec == WebhookInit /\ [][WebhookNext]_webhookVars

\* The loops of workerd come round again and again, time passes, and an event
\* is appended some day.
WebhookLiveSpec ==
  /\ WebhookSpec
  /\ WF_webhookVars(TickQueue) /\ WF_webhookVars(ReclaimOnce)
  /\ \A e \in Event : WF_webhookVars(AppendEvent(e))
  /\ \A x \in Dispatcher : WF_webhookVars(DispatchStep(x))
  /\ \A w \in Worker : WF_webhookVars(ClaimDue(w)) /\ WF_webhookVars(Attempt(w))

-----------------------------------------------------------------------------
(* Properties *)

\* No event is lost between the outbox and the queue, whichever dispatcher dies
\* (worker.go:44-47): once an event is dispatched, every subscribed endpoint that
\* was not disabled has a delivery.
NoLostEvents ==
  \A d \in Subscribed :
    outbox[d[1]] = "dispatched" /\ ~ endpoint[d[2]].disabledAt => delivery[d] # Null

\* Deliveries that two workers are at.
WorkedTwice ==
  {d \in Subscribed : \E v, w \in Worker :
     /\ v # w
     /\ job[v].stage \in {"post", "settle"} /\ job[v].item.delivery = d
     /\ job[w].stage \in {"post", "settle"} /\ job[w].item.delivery = d}

\* Two workers are never at the same delivery (worker.go:176-177: "a row is never
\* worked twice concurrently").
NeverWorkedTwice == WorkedTwice = {}

\* A batch in which every attempt takes its full timeout ends within the lease.
LeaseOutlastsBatch == BatchSize * RequestTimeout <= lease

\* Two workers are at the same delivery only if its lease has run out while a
\* worker still had it in hand: two claims, the sweeper, a replay or a crash do not
\* bring that about (worker.go:176-177, 184).  A lease that outlasts a batch never
\* runs out that way; the default one does not outlast its batch.
WorkedTwiceOnlyIfLate ==
  /\ WorkedTwice \subseteq late
  /\ LeaseOutlastsBatch => late = {}

\* A delivery goes to the dead-letter queue after exactly the budget of attempts,
\* and a replay gives it the same budget again (delivery.go:164,
\* webhooks.sql:213-215).  Workers that overtake each other settle a row without
\* regard to each other and can overrun the budget; without a replay they do not
\* cut it short either.
BudgetSpent ==
  \A d \in InState("exhausted") :
    /\ d \notin late => delivery[d].attempt = MaxAttempts
    /\ replays = 0 => delivery[d].attempt >= MaxAttempts

\* Every event is dispatched, and every delivery comes to rest, succeeded,
\* exhausted or disabled, whatever crashed on the way (worker.go:317-322).  Workers
\* that overtake each other, and settle a row that another has settled or claimed
\* again, do not keep it from coming to rest either.
EventuallySettled ==
  <>[](/\ \A e \in Event : outbox[e] = "dispatched"
       /\ \A d \in Subscribed : delivery[d] # Null => delivery[d].state \in Terminal)
=============================================================================
