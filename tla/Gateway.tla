------------------------------ MODULE Gateway -------------------------------
(***************************************************************************)
(* Who is let in: API keys (internal/httpapi/auth.go over                  *)
(* internal/postgres/apikeys.go) and the order of the checks of the router *)
(* around a handler: authenticate, the rate limiter, requireRole.  Keys    *)
(* are created and revoked while requests are being checked.  The limiter  *)
(* is RateLimiter's; here it gives either answer.                          *)
(***************************************************************************)
EXTENDS Integers

CONSTANTS
  Caller,     \* requests that are served at the same time
  Token,      \* the secrets that callers present
  LookupOf,   \* the clear part of each of them, by which a key is found
  RoleOf,     \* the role a key is created with
  NoKey       \* no row, and no secret

ASSUME GatewayAssumption ==
  NoKey \notin Token /\ NoKey \notin [secret : Token, revoked : BOOLEAN]

VARIABLES
  keys,   \* api_keys by lookup, which is unique: the secret behind the hash
          \* and whether the key is revoked
  call    \* each request: where it is, what it presents and wants, the key it
          \* was matched with, and whether that key was live or revoked when
          \* the request arrived

gatewayVars == << keys, call >>

Rank == [read |-> 1, write |-> 2, admin |-> 3]

AtLeast(role, want) == Rank[role] >= Rank[want]

Lookup == {LookupOf[s] : s \in Token}

\* The secret belongs to a stored key that is not revoked.
Live(s) ==
  /\ keys[LookupOf[s]] # NoKey
  /\ keys[LookupOf[s]].secret = s
  /\ ~ keys[LookupOf[s]].revoked

\* The key of secret s has been revoked.
Revoked(s) ==
  /\ keys[LookupOf[s]] # NoKey
  /\ keys[LookupOf[s]].secret = s /\ keys[LookupOf[s]].revoked

Quiet == [stage |-> "idle", secret |-> NoKey, want |-> "read", found |-> NoKey,
          live |-> FALSE, dead |-> FALSE]

GatewayInit ==
  /\ keys = [l \in Lookup |-> NoKey]
  /\ call = [c \in Caller |-> Quiet]

\* Create inserts the key GenerateAPIKey made; UNIQUE (lookup) refuses another.
CreateKey(s) ==
  /\ keys[LookupOf[s]] = NoKey
  /\ keys' = [keys EXCEPT ![LookupOf[s]] = [secret |-> s, revoked |-> FALSE]]
  /\ UNCHANGED call

\* Revoke: a row that is not revoked yet.
RevokeKey(l) ==
  /\ keys[l] # NoKey /\ ~ keys[l].revoked
  /\ keys' = [keys EXCEPT ![l].revoked = TRUE]
  /\ UNCHANGED call

\* A request, with a bearer token or without.
Arrive(c) ==
  /\ call[c].stage = "idle"
  /\ \E s \in Token \cup {NoKey}, want \in {"read", "write"} :
       call' = [call EXCEPT ![c] =
         [stage |-> IF s = NoKey THEN "401" ELSE "find", secret |-> s, want |-> want,
          found |-> NoKey, live |-> s # NoKey /\ Live(s),
          dead |-> s # NoKey /\ Revoked(s)]]
  /\ UNCHANGED keys

Becomes(c, stage) == call' = [call EXCEPT ![c].stage = stage] /\ UNCHANGED keys

\* Mutant: a revoked key is not turned away.
AuthenticIfKnown(s) ==
  keys[LookupOf[s]] # NoKey /\ keys[LookupOf[s]].secret = s

\* FindByLookup and then the checks of authenticate on the row it returned.
Authentic(s) ==
  /\ keys[LookupOf[s]] # NoKey
  /\ ~ keys[LookupOf[s]].revoked
  /\ keys[LookupOf[s]].secret = s

Authenticate(c) ==
  /\ call[c].stage = "find"
  /\ \/ /\ Authentic(call[c].secret)
        /\ call' = [call EXCEPT ![c].stage = "limit",
                                ![c].found = keys[LookupOf[call[c].secret]].secret]
        /\ UNCHANGED keys
     \/ ~ Authentic(call[c].secret) /\ Becomes(c, "401")

\* Mutant: a failure of the store turns the caller away.
StoreFailsAsUnknown(c) == call[c].stage = "find" /\ Becomes(c, "401")

\* A failure of the store is the server's, not the caller's.
StoreFails(c) == call[c].stage = "find" /\ Becomes(c, "500")

Admission(c) ==
  /\ call[c].stage = "limit"
  /\ Becomes(c, "role") \/ Becomes(c, "429")

RequireRole(c) ==
  /\ call[c].stage = "role"
  /\ Becomes(c, IF AtLeast(RoleOf[call[c].found], call[c].want) THEN "handler" ELSE "403")

\* The answer is sent.
Answered(c) ==
  /\ call[c].stage \in {"401", "403", "429", "500", "handler"}
  /\ call' = [call EXCEPT ![c] = Quiet]
  /\ UNCHANGED keys

GatewayNext ==
  \/ \E s \in Token : CreateKey(s)
  \/ \E l \in Lookup : RevokeKey(l)
  \/ \E c \in Caller : \/ Arrive(c) \/ Authenticate(c) \/ StoreFails(c)
                       \/ Admission(c) \/ RequireRole(c) \/ Answered(c)

GatewaySpec == GatewayInit /\ [][GatewayNext]_gatewayVars

-----------------------------------------------------------------------------
(* Properties *)

\* No handler runs for a request that arrived after its key was revoked, nor
\* as anyone but the owner of the secret, nor beyond the key's role; a request
\* whose key is revoked while it is being checked may still pass
\* (authenticate, auth.go:246-279).
ServedOnlyLive ==
  \A c \in Caller : call[c].stage = "handler" =>
    /\ call[c].found = call[c].secret
    /\ ~ call[c].dead
    /\ AtLeast(RoleOf[call[c].secret], call[c].want)

\* A caller whose key was good when its request arrived is turned away as
\* unknown only if the key has been revoked since, never because of another
\* key or a failure of the store (auth.go:256-265).
UnknownOnlyIfRevoked ==
  \A c \in Caller :
    call[c].stage = "401" /\ call[c].live => Revoked(call[c].secret)
=============================================================================
