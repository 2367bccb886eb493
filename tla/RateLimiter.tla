---------------------------- MODULE RateLimiter -----------------------------
(***************************************************************************)
(* The token bucket of each API key (rateLimiter in                        *)
(* internal/httpapi/middleware.go).  Time advances in ticks, a minute is   *)
(* Minute of them, and tokens are counted in units of 1/Minute, so that a  *)
(* bucket gains exactly PerMin units per tick and a request costs Minute.  *)
(***************************************************************************)
EXTENDS Integers, FiniteSetsExt

CONSTANTS
  ApiKey,      \* the callers
  PerMin,      \* requests per minute, which is also the capacity
  Minute,      \* ticks in a minute
  Idle,        \* the age at which sweep drops a bucket
  MaxWindow,   \* bound: ticks in the observed window
  NoBucket     \* a caller the limiter does not know

ASSUME LimiterAssumption ==
  /\ PerMin \in Nat \ {0} /\ Minute \in Nat \ {0}
  /\ Idle \in Nat /\ Idle >= Minute
  /\ MaxWindow \in Nat
  /\ NoBucket \notin ApiKey /\ NoBucket \notin [tokens : Int, age : Int]

VARIABLES
  bucket,   \* the tokens of each caller and the age of that figure
  window,   \* an observed stretch of time: the requests of one caller that
            \* were admitted in it, and its length
  recent,   \* the requests of each caller admitted in the last minute, by age
  refused   \* the caller refused last and its requests admitted in the last
            \* minute

limiterVars == << bucket, window, recent, refused >>

Full == PerMin * Minute

Smaller(a, b) == IF a < b THEN a ELSE b

LimiterInit ==
  /\ bucket = [k \in ApiKey |-> NoBucket]
  /\ window = [key |-> NoBucket, count |-> 0, length |-> 0]
  /\ recent = [k \in ApiKey |-> [age \in 0 .. Minute - 1 |-> 0]]
  /\ refused = NoBucket

\* Mutant: the bucket may hold more than its capacity.
LevelUncapped(k) ==
  IF bucket[k] = NoBucket THEN Full ELSE bucket[k].tokens + PerMin * bucket[k].age

\* The tokens of k once it is refilled up to now; a new bucket is full.
Level(k) ==
  IF bucket[k] = NoBucket
  THEN Full
  ELSE Smaller(Full, bucket[k].tokens + PerMin * bucket[k].age)

\* How many requests of k were admitted in the last minute.
InLastMinute(k) == SumFunctionOnSet(recent[k], 0 .. Minute - 1)

\* allow with a token to spend.
Admit(k) ==
  /\ Level(k) >= Minute
  /\ bucket' = [bucket EXCEPT ![k] = [tokens |-> Level(k) - Minute, age |-> 0]]
  /\ window' = IF window.key = k THEN [window EXCEPT !.count = @ + 1] ELSE window
  /\ recent' = [recent EXCEPT ![k][0] = @ + 1]
  /\ UNCHANGED refused

\* Mutant: the refill is thrown away when a request is refused.
EmptyAgain(k) == [tokens |-> 0, age |-> 0]

\* What a refused call leaves behind: the refill is kept.
Refilled(k) == [tokens |-> Level(k), age |-> 0]

\* allow without a token: 429.
Deny(k) ==
  /\ Level(k) < Minute
  /\ bucket' = [bucket EXCEPT ![k] = Refilled(k)]
  /\ refused' = [key |-> k, spent |-> InLastMinute(k)]
  /\ UNCHANGED << window, recent >>

\* sweep deletes the buckets that nobody has asked for since idle.
Sweep ==
  /\ \E k \in ApiKey : bucket[k] # NoBucket /\ bucket[k].age > Idle
  /\ bucket' = [k \in ApiKey |->
       IF bucket[k] # NoBucket /\ bucket[k].age > Idle THEN NoBucket ELSE bucket[k]]
  /\ UNCHANGED << window, recent, refused >>

\* Time passes.  A bucket older than Idle stays full, so its age needs no
\* larger values.
Tick ==
  /\ window.key # NoBucket => window.length < MaxWindow
  /\ bucket' = [k \in ApiKey |->
       IF bucket[k] = NoBucket THEN NoBucket
       ELSE [bucket[k] EXCEPT !.age = Smaller(@ + 1, Idle + 1)]]
  /\ window' = IF window.key = NoBucket THEN window
               ELSE [window EXCEPT !.length = @ + 1]
  /\ recent' = [k \in ApiKey |-> [age \in 0 .. Minute - 1 |->
       IF age = 0 THEN 0 ELSE recent[k][age - 1]]]
  /\ UNCHANGED refused

\* Someone begins to count the requests of k.
Observe(k) ==
  /\ window.key = NoBucket
  /\ window' = [key |-> k, count |-> 0, length |-> 0]
  /\ UNCHANGED << bucket, recent, refused >>

LimiterNext ==
  \/ \E k \in ApiKey : Admit(k) \/ Deny(k) \/ Observe(k)
  \/ Sweep
  \/ Tick

LimiterSpec == LimiterInit /\ [][LimiterNext]_limiterVars

-----------------------------------------------------------------------------
(* Properties *)

\* In a stretch of time of any length, whenever it begins and whatever is swept
\* in it, a caller is admitted at most its capacity plus its rate times the
\* length (allow and sweep, middleware.go).
WindowBounded ==
  window.key # NoBucket => window.count * Minute <= Full + PerMin * window.length

\* A caller is only refused when PerMin of its own requests were admitted in
\* the last minute: neither refused calls nor other callers eat its allowance
\* (allow, middleware.go).  This is about a refill without rounding: in the code's
\* float64 the parts of a token can add up to just less than it when it is due.
RefusedOnlyOverRate == refused # NoBucket => refused.spent >= PerMin
=============================================================================
