------------------------------ MODULE Signing -------------------------------
(***************************************************************************)
(* The signature of a webhook and its verification while the secrets of    *)
(* the endpoint are rotated (internal/webhooks/signer.go, attempt of       *)
(* worker.go, the secrets of internal/postgres/webhooks.go, and            *)
(* pkg/webhookverify on the consumer's side).  The merchant creates a new  *)
(* secret, moves the consumer to it and retires the old one, all while a   *)
(* delivery is on its way.  A signature is the secret it was made with.    *)
(***************************************************************************)
EXTENDS Integers, FiniteSets

CONSTANTS
  Secret,      \* the secrets of the endpoint, numbered as they are created
  First,       \* the one it starts with
  Second,      \* ticks in a second, the resolution of the timestamp
  Tolerance,   \* DefaultTolerance, in ticks
  Skew,        \* how far the consumer's clock may be off, either way
  Transit,     \* RequestTimeout: ticks after which a post is given up
  MaxLost      \* bound: posts that time out

ASSUME SigningAssumption ==
  /\ Secret \subseteq Nat /\ First \in Secret
  /\ Second \in Nat \ {0}
  /\ Tolerance \in Nat /\ Skew \in Nat /\ Transit \in Nat /\ MaxLost \in Nat
  /\ Transit + Skew + Second - 1 <= Tolerance

VARIABLES
  secretState,   \* each secret: not created, active or retired
  held,          \* the secret the consumer verifies with
  skew,          \* the consumer's clock minus the sender's
  phase,         \* the sender's clock within the second
  post,          \* the delivery: where it is, the secrets loaded for it, the
                 \* time since it was signed and the phase it was signed at,
                 \* and the secrets created since they were loaded
  lost,          \* posts that timed out
  spent          \* attempts that the consumer rejected

signingVars == << secretState, held, skew, phase, post, lost, spent >>

SigningInit ==
  /\ secretState = [s \in Secret |-> IF s = First THEN "active" ELSE "none"]
  /\ held = First
  /\ skew \in -Skew .. Skew
  /\ phase = 0
  /\ post = [stage |-> "none", keys |-> {}, age |-> 0, phase |-> 0, since |-> {}]
  /\ lost = 0 /\ spent = 0

-----------------------------------------------------------------------------
(* The merchant rotates the secret. *)

CreateSecret(s) ==
  /\ secretState[s] = "none"
  /\ \A t \in Secret : t < s => secretState[t] # "none"
  /\ secretState' = [secretState EXCEPT ![s] = "active"]
  /\ post' = [post EXCEPT !.since = @ \cup {s}]
  /\ UNCHANGED << held, skew, phase, lost, spent >>

\* The consumer is given an active secret, in its own time.
MoveTo(s) ==
  /\ secretState[s] = "active" /\ s # held
  /\ held' = s
  /\ UNCHANGED << secretState, skew, phase, post, lost, spent >>

\* A secret is retired once the consumer no longer uses it.
RetireSecret(s) ==
  /\ secretState[s] = "active" /\ s # held
  /\ secretState' = [secretState EXCEPT ![s] = "retired"]
  /\ UNCHANGED << held, skew, phase, post, lost, spent >>

-----------------------------------------------------------------------------
(* The worker *)

\* Mutant: the payload is signed with the newest secret only.
NewestSecret ==
  LET active == {s \in Secret : secretState[s] = "active"}
  IN {s \in active : \A t \in active : t <= s}

ActiveSecrets == {s \in Secret : secretState[s] = "active"}

\* There is something to deliver.
Enqueue ==
  /\ post.stage = "none"
  /\ post' = [post EXCEPT !.stage = "due"]
  /\ UNCHANGED << secretState, held, skew, phase, lost, spent >>

\* attempt loads every active secret; without one it fails and is retried.
LoadSecrets ==
  /\ post.stage = "due"
  /\ ActiveSecrets # {}
  /\ post' = [post EXCEPT !.stage = "loaded", !.keys = ActiveSecrets, !.since = {}]
  /\ UNCHANGED << secretState, held, skew, phase, lost, spent >>

\* Sign takes one signature per secret and the time, cut to the second, and
\* the delivery is posted.
Sign ==
  /\ post.stage = "loaded"
  /\ post' = [post EXCEPT !.stage = "sent", !.age = 0, !.phase = phase]
  /\ UNCHANGED << secretState, held, skew, phase, lost, spent >>

-----------------------------------------------------------------------------
(* The consumer *)

\* The consumer's time less the timestamp.
Apart == post.age + skew + post.phase

\* VerifyAt: the timestamp is within the tolerance, before or after.
InTime == Apart \in -Tolerance .. Tolerance

Matches == held \in post.keys

Accept ==
  /\ post.stage = "sent"
  /\ InTime /\ Matches
  /\ post' = [post EXCEPT !.stage = "accepted"]
  /\ UNCHANGED << secretState, held, skew, phase, lost, spent >>

Reject ==
  /\ post.stage = "sent"
  /\ ~ (InTime /\ Matches)
  /\ post' = [post EXCEPT !.stage = "rejected"]
  /\ spent' = spent + 1
  /\ UNCHANGED << secretState, held, skew, phase, lost >>

\* Mutant: the secrets loaded for the first attempt are used again.
KeepSecrets == [post EXCEPT !.stage = "loaded"]

\* Mutant: a rejected delivery is given up.
GiveUp == [post EXCEPT !.stage = "dropped"]

\* The next attempt starts from the beginning.
Again == [post EXCEPT !.stage = "due"]

\* A rejected post is retried.
Retry ==
  /\ post.stage = "rejected"
  /\ post' = Again
  /\ UNCHANGED << secretState, held, skew, phase, lost, spent >>

\* A post that nobody answers in time is retried too.
TimeOut ==
  /\ post.stage = "sent"
  /\ lost < MaxLost
  /\ lost' = lost + 1
  /\ post' = Again
  /\ UNCHANGED << secretState, held, skew, phase, spent >>

\* Time passes, but a post is answered or given up within Transit.
SecondsPass ==
  /\ post.stage = "sent" => post.age < Transit
  /\ phase' = (phase + 1) % Second
  /\ post' = IF post.stage = "sent" THEN [post EXCEPT !.age = @ + 1] ELSE post
  /\ UNCHANGED << secretState, held, skew, lost, spent >>

Rotate == \E s \in Secret : CreateSecret(s) \/ MoveTo(s) \/ RetireSecret(s)

Deliver == LoadSecrets \/ Sign \/ Accept \/ Reject \/ Retry

SigningNext == Rotate \/ Enqueue \/ Deliver \/ TimeOut \/ SecondsPass

SigningSpec == SigningInit /\ [][SigningNext]_signingVars

-----------------------------------------------------------------------------
(* Properties *)

\* A rotation never costs more than the deliveries it overtakes: a post is
\* rejected only if the consumer moved to a secret that was created after the
\* worker had loaded the secrets for it.  It is never rejected because of the
\* clocks, the truncated timestamp or a secret still in use (Sign, signer.go:
\* 128-146; VerifyAt, verify.go:134-161).
RejectedOnlyIfOvertaken ==
  [][post.stage = "sent" /\ post'.stage = "rejected" => held \in post.since]_signingVars

\* A rotation costs a delivery at most one attempt of its retry budget, however
\* the merchant's steps fall between loading, signing, posting and verifying
\* (attempt loads the secrets anew, worker.go:224-233).
OneAttemptPerRotation ==
  spent < Cardinality({s \in Secret : secretState[s] # "none"})

\* A delivery that rotations overtake is accepted in the end: every attempt
\* loads the secrets and signs again (attempt, worker.go:224-233).
EventuallyAccepted == post.stage = "due" ~> post.stage = "accepted"
=============================================================================
