---------------------------- MODULE Identifiers -----------------------------
(***************************************************************************)
(* The generator of identifiers (internal/platform/id/id.go): a clock      *)
(* reading and a counter behind one mutex, written as digits of a base.    *)
(* The clock may stand still, jump, or step backwards between two calls.   *)
(* 48 bits of time, 80 of counter and base 32 are scaled down.             *)
(***************************************************************************)
EXTENDS Integers, Sequences

CONSTANTS
  Base,        \* the size of the alphabet
  TimeChars,   \* characters that hold the time and the padding before it
  RandChars,   \* characters that hold the counter
  TimeSize,    \* clock readings fit below it
  MaxIds       \* bound: identifiers issued in a behaviour

RandSize == Base ^ RandChars

ASSUME WidthAssumption ==
  /\ Base \in Nat \ {0, 1} /\ TimeChars \in Nat /\ RandChars \in Nat
  /\ TimeSize \in 1 .. Base ^ TimeChars
  /\ MaxIds \in Nat

VARIABLES
  lastMS,     \* the largest clock reading used
  lastRand,   \* the counter
  ulid,       \* the identifier issued last, as a sequence of digits
  issued,     \* how many identifiers have been issued
  wrapped     \* the counter has run out since lastMS advanced

idVars == << lastMS, lastRand, ulid, issued, wrapped >>

IdInit ==
  /\ lastMS = 0 /\ lastRand = 0
  /\ ulid = << >> /\ issued = 0
  /\ wrapped = FALSE

\* The 128 bits in groups, most significant first, zero bits in front.
encodeBase32(ms, rand) ==
  LET n == TimeChars + RandChars
      v == (ms % TimeSize) * RandSize + rand
  IN [i \in 1 .. n |-> (v \div Base ^ (n - i)) % Base]

Issue(ms, rand) ==
  /\ ulid' = encodeBase32(ms, rand)
  /\ issued' = issued + 1

\* Mutant: the counter is drawn again within a millisecond.
NotBehind(ms) == ms >= lastMS

Advances(ms) == ms > lastMS

\* A new millisecond: the counter is drawn afresh.
Draw(ms) ==
  /\ Advances(ms)
  /\ lastMS' = ms
  /\ lastRand' \in 0 .. RandSize - 1
  /\ Issue(ms, lastRand')
  /\ wrapped' = FALSE

\* The same millisecond, or a clock that went backwards.
Increment(ms) ==
  /\ ~ Advances(ms)
  /\ lastRand + 1 < RandSize
  /\ lastRand' = lastRand + 1
  /\ Issue(lastMS, lastRand + 1)
  /\ UNCHANGED << lastMS, wrapped >>

\* The counter runs out: increment has set it to zero when the call panics, and
\* the request's recoverer catches the panic.
Exhausted(ms) ==
  /\ ~ Advances(ms)
  /\ lastRand + 1 = RandSize
  /\ lastRand' = 0
  /\ wrapped' = TRUE
  /\ UNCHANGED << lastMS, ulid, issued >>

\* The source of randomness fails after lastMS was set.
NoRandomness(ms) ==
  /\ Advances(ms)
  /\ lastMS' = ms
  /\ wrapped' = FALSE
  /\ UNCHANGED << lastRand, ulid, issued >>

\* encode, called when the clock reads ms.
Encode(ms) ==
  /\ issued < MaxIds
  /\ Draw(ms) \/ Increment(ms) \/ Exhausted(ms) \/ NoRandomness(ms)

IdNext == \E ms \in 0 .. TimeSize - 1 : Encode(ms)

-----------------------------------------------------------------------------
(* Properties *)

\* The order of strings.
Before(s, t) ==
  \E i \in DOMAIN s : s[i] < t[i] /\ \A j \in 1 .. i - 1 : s[j] = t[j]

\* Identifiers sort, as strings, in the order in which they were issued, and so
\* none is issued twice, through backward steps of the clock and failures of
\* the random source (id.go:80-97); the exception is a millisecond in which the
\* counter has run out.
IdsIncrease ==
  [][issued' # issued /\ issued > 0 => wrapped \/ Before(ulid, ulid')]_idVars
=============================================================================
