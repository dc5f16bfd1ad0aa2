----------------------- MODULE JWTClientAuthenticator -----------------------
(***************************************************************************)
(* client_auth/jwt.py: authentication of clients by signed assertions, and *)
(* the cache of used jti values that rejects an assertion presented again. *)
(* The cache is a dict of the process, or, with a Redis client, a set of   *)
(* keys with a time to live that all processes share.                      *)
(*                                                                         *)
(* An assertion is the times, jti, key id and algorithm it carries, the    *)
(* key whose holder signed it, and one bit for what depends on neither the *)
(* time, the keys nor the cache (format, iss, sub, aud, claims present).   *)
(* PyJWT, Redis and the provider of the keys are external.  Each step that *)
(* compares the time uses now[c], the time its code read before it was     *)
(* suspended.                                                              *)
(***************************************************************************)
EXTENDS Integers

CONSTANTS Assertions,       \* the assertions that are ever presented
          KeySets,          \* the JWKS a provider answers with, of all clients, over time
          None,             \* a kid, alg or use that is left out; no key
          Regimes,          \* the deployments considered, see env
          Callers,          \* tasks and threads that call authenticate()
          Skew,             \* JWT_MAX_CLOCK_SKEW_SECONDS (60)
          Lifetime,         \* JWT_MAX_LIFETIME_SECONDS (300)
          CleanupInterval,  \* JWT_REPLAY_CACHE_CLEANUP_INTERVAL (60)
          NoEntry,          \* "this jti is not in the cache"
          NoAssertion,      \* what a caller that rests presents
          MaxClock          \* bound on the clock

ASSUME AssertionAssumption ==
    \A a \in Assertions :
        a.iat \in Int /\ a.exp \in Int /\ a.claims \in BOOLEAN

\* An alg is its family and its number of bits.
ALLOWED_JWT_ALGORITHMS == {"RS", "ES", "PS"} \X {256, 384, 512}
Kty == [RS |-> "RSA", ES |-> "EC", PS |-> "RSA"]

\* No two signing keys of one kind go by the same kid at the same time.
ASSUME KidAssumption ==
    \A jwks \in KeySets : \A i, j \in DOMAIN jwks :
        (/\ jwks[i].usable /\ jwks[i].use \in {None, "sig"}
         /\ jwks[j].usable /\ jwks[j].use \in {None, "sig"}
         /\ jwks[i].kid = jwks[j].kid /\ jwks[i].kty = jwks[j].kty) =>
            jwks[i].material = jwks[j].material

ASSUME TimeAssumption ==
    /\ Skew \in Nat /\ Lifetime \in Nat /\ CleanupInterval \in Nat \ {0}
    /\ MaxClock \in Nat
    /\ Regimes \subseteq [redis : BOOLEAN, synced : BOOLEAN, prompt : BOOLEAN]
    /\ NoEntry \notin Int /\ NoAssertion \notin Assertions

Jtis == {a.jti : a \in Assertions}
Materials == UNION {{jwks[i].material : i \in DOMAIN jwks} : jwks \in KeySets}
MaxTTL == Lifetime + Skew  \* JWT_REPLAY_CACHE_MAX_TTL_SECONDS

VARIABLES
    env,          \* the deployment: .redis, is there a Redis client?
                  \* .synced, are no client's clocks ahead of the server's?
                  \* .prompt, does the time stand still while a call works?
    clock,
    used,         \* used[j]: how long the cache remembers j (_used_jtis, or Redis)
    lastCleanup,  \* _last_cleanup
    pc,           \* where each call is, and how the last one ended
    asrt,         \* asrt[c]: the assertion c presents
    key,          \* key[c]: the key that c's call found
    now,          \* now[c]: the last time c's call read
    count, last   \* history: how often a was recorded as used since the cache
                  \* was last lost, and the time read when it was last recorded

cache == <<used, lastCleanup, count, last>>
local == <<pc, asrt, key, now>>
vars == <<env, clock, cache, local>>

Resting == {"idle", "accepted", "refused", "replayed"}
Working == {"verify", "sweep", "record"}  \* from the first time read to the check
Answered == {"new", "seen"}               \* Redis ran the SET, its reply is under way
PCs == Resting \cup {"fetch"} \cup Working \cup Answered

TypeOK ==
    /\ env \in [redis : BOOLEAN, synced : BOOLEAN, prompt : BOOLEAN]
    /\ clock \in 0..MaxClock
    /\ used \in [Jtis -> Int \cup {NoEntry}]
    /\ lastCleanup \in 0..MaxClock
    /\ pc \in [Callers -> PCs]
    /\ asrt \in [Callers -> Assertions \cup {NoAssertion}]
    /\ key \in [Callers -> Materials \cup {None}]
    /\ now \in [Callers -> 0..MaxClock]
    /\ count \in [Assertions -> Nat]
    /\ last \in [Assertions -> 0..MaxClock]

Init ==
    /\ env \in Regimes
    /\ clock = 0
    /\ used = [j \in Jtis |-> NoEntry]
    /\ lastCleanup = 0
    /\ pc = [c \in Callers |-> "idle"]
    /\ asrt = [c \in Callers |-> NoAssertion]
    /\ key = [c \in Callers |-> None]
    /\ now = [c \in Callers |-> 0]
    /\ count = [a \in Assertions |-> 0]
    /\ last = [a \in Assertions |-> 0]

Goto(c, place) == pc' = [pc EXCEPT ![c] = place]

ReadClockAhead(c) == now' = [now EXCEPT ![c] = clock + Skew]  \* seeded fault: leeway added
ReadClock(c) == now' = [now EXCEPT ![c] = clock]

\* The call returns or raises, and its locals are gone.
End(c, verdict) ==
    /\ Goto(c, verdict)
    /\ asrt' = [asrt EXCEPT ![c] = NoAssertion]
    /\ key' = [key EXCEPT ![c] = None]
    /\ now' = [now EXCEPT ![c] = 0]

-----------------------------------------------------------------------------
\* authenticate(): whoever holds an assertion may present it, any number of times.
Present(c, a) ==
    /\ pc[c] \in Resting
    /\ env.synced => a.iat <= clock
    /\ Goto(c, "fetch")
    /\ asrt' = [asrt EXCEPT ![c] = a]
    /\ UNCHANGED <<env, clock, cache, key, now>>

KeyMatchesAnyUse(entry, kid, alg) ==  \* a seeded fault: use is not looked at
    /\ kid # None => entry.kid = kid
    /\ entry.alg \in {None, alg}
    /\ entry.kty = Kty[alg[1]]

\* _key_matches(): what an entry leaves out it does not restrict.
KeyMatches(entry, kid, alg) ==
    /\ kid # None => entry.kid = kid
    /\ entry.alg \in {None, alg}
    /\ entry.use \in {None, "sig"}
    /\ entry.kty = Kty[alg[1]]

\* The places in a key set that _find_signing_key() may stop at: an entry that PyJWK
\* cannot make a key of is passed over.
Candidates(jwks, a) ==
    {i \in DOMAIN jwks : KeyMatches(jwks[i], a.kid, a.alg) /\ jwks[i].usable}

\* get_jwks() answered: the alg is looked at, the first key that matches is taken, and
\* the time is read.
Fetched(c, jwks) ==
    /\ pc[c] = "fetch"
    /\ IF asrt[c].alg \in ALLOWED_JWT_ALGORITHMS /\ Candidates(jwks, asrt[c]) # {}
       THEN /\ Goto(c, "verify")
            /\ \E i \in Candidates(jwks, asrt[c]) :
                  /\ \A j \in Candidates(jwks, asrt[c]) : i <= j
                  /\ key' = [key EXCEPT ![c] = jwks[i].material]
            /\ ReadClock(c)
            /\ UNCHANGED asrt
       ELSE End(c, "refused")
    /\ UNCHANGED <<env, clock, cache>>

\* The provider knows no keys for the client, or fails.
NoKeys(c) ==
    /\ pc[c] = "fetch"
    /\ End(c, "refused")
    /\ UNCHANGED <<env, clock, cache>>

\* jwt.decode() with leeway, and the age check of _verify_jwt on the earlier time.
InTime(a, decoded, read) ==
    /\ decoded < a.exp + Skew
    /\ a.iat <= decoded + Skew
    /\ read - a.iat <= MaxTTL

VerifyLater(c) ==  \* a seeded fault: the jti is recorded before the signature is checked
    /\ pc[c] = "verify"
    /\ Goto(c, IF env.redis THEN "record" ELSE "sweep")
    /\ key' = [key EXCEPT ![c] = None]
    /\ ReadClock(c)
    /\ UNCHANGED <<env, clock, cache, asrt>>

\* _decode_and_validate_claims with the key found, then the time is read again for the cache.
Verify(c) ==
    /\ pc[c] = "verify"
    /\ IF asrt[c].claims /\ asrt[c].signer = key[c] /\ InTime(asrt[c], clock, now[c])
       THEN /\ Goto(c, IF env.redis THEN "record" ELSE "sweep")
            /\ key' = [key EXCEPT ![c] = None]
            /\ ReadClock(c)
            /\ UNCHANGED asrt
       ELSE End(c, "refused")
    /\ UNCHANGED <<env, clock, cache>>

SweepMarkedOnly(c) ==  \* a seeded fault: the sweep notes its time and deletes nothing
    /\ pc[c] = "sweep"
    /\ Goto(c, "record") /\ ReadClock(c)
    /\ lastCleanup' = IF now[c] - lastCleanup < CleanupInterval THEN lastCleanup ELSE now[c]
    /\ UNCHANGED <<env, clock, used, count, last, asrt, key>>

SweepEarly(c) ==  \* a seeded fault: entries about to expire go as well
    /\ pc[c] = "sweep"
    /\ Goto(c, "record") /\ ReadClock(c)
    /\ IF now[c] - lastCleanup < CleanupInterval
       THEN UNCHANGED <<used, lastCleanup>>
       ELSE /\ used' = [j \in Jtis |-> IF used[j] # NoEntry /\ now[c] >= used[j]
                                       THEN NoEntry ELSE used[j]]
            /\ lastCleanup' = now[c]
    /\ UNCHANGED <<env, clock, count, last, asrt, key>>

\* _cleanup_expired_jtis(), at most once per interval.  lastCleanup never falls, so
\* the test under the lock decides as the one before it did, or returns.  Then the
\* time is read once more, for capped_exp.
Sweep(c) ==
    /\ pc[c] = "sweep"
    /\ Goto(c, "record") /\ ReadClock(c)
    /\ IF now[c] - lastCleanup < CleanupInterval
       THEN UNCHANGED <<used, lastCleanup>>
       ELSE /\ used' = [j \in Jtis |-> IF used[j] # NoEntry /\ now[c] > used[j]
                                       THEN NoEntry ELSE used[j]]
            /\ lastCleanup' = now[c]
    /\ UNCHANGED <<env, clock, count, last, asrt, key>>

Lesser(m, n) == IF m <= n THEN m ELSE n
Greater(m, n) == IF m <= n THEN n ELSE m

DeadlineNoSkew(a, read) ==  \* a seeded fault: the time to live ends with exp
    IF env.redis THEN clock + Lesser(Greater(0, a.exp - read), MaxTTL)
                 ELSE Lesser(a.exp, read + MaxTTL)

\* The end of the entry for a, computed from the time the caller read; Redis counts
\* the time to live from the instant it executes SET .. NX PX.
Deadline(a, read) ==
    IF env.redis THEN clock + Lesser(Greater(0, a.exp - read) + Skew, MaxTTL)
                 ELSE Lesser(a.exp, read + MaxTTL)

\* A Redis key is gone once its time is over; a dict entry stays till it is swept.
Seen(j) == used[j] # NoEntry /\ (env.redis => clock <= used[j])

\* Check and record: under the lock, or as one Redis command whose reply follows.
Record(c) ==
    /\ pc[c] = "record"
    /\ IF Seen(asrt[c].jti)
       THEN UNCHANGED <<used, count, last>>
       ELSE /\ used' = [used EXCEPT ![asrt[c].jti] = Deadline(asrt[c], now[c])]
            /\ count' = [count EXCEPT ![asrt[c]] = @ + 1]
            /\ last' = [last EXCEPT ![asrt[c]] = now[c]]
    /\ IF env.redis
       THEN Goto(c, IF Seen(asrt[c].jti) THEN "seen" ELSE "new") /\ UNCHANGED <<asrt, key, now>>
       ELSE End(c, IF Seen(asrt[c].jti) THEN "replayed" ELSE "accepted")
    /\ UNCHANGED <<env, clock, lastCleanup>>

Reply(c) ==
    /\ pc[c] \in Answered
    /\ End(c, IF pc[c] = "new" THEN "accepted" ELSE "replayed")
    /\ UNCHANGED <<env, clock, cache>>

\* The SET did not reach Redis, or its reply was lost: "JWT verification failed".
Fail(c) ==
    /\ env.redis
    /\ pc[c] \in {"record"} \cup Answered
    /\ End(c, "refused")
    /\ UNCHANGED <<env, clock, cache>>

\* The server process restarts: its calls are gone, and so is a cache in its memory.
Restart ==
    /\ pc' = [c \in Callers |-> "idle"]
    /\ asrt' = [c \in Callers |-> NoAssertion]
    /\ key' = [c \in Callers |-> None]
    /\ now' = [c \in Callers |-> 0]
    /\ lastCleanup' = clock
    /\ IF env.redis
       THEN UNCHANGED <<used, count, last>>
       ELSE /\ used' = [j \in Jtis |-> NoEntry]
            /\ count' = [a \in Assertions |-> 0]
            /\ last' = [a \in Assertions |-> 0]
    /\ UNCHANGED <<env, clock>>

Tick ==
    /\ clock < MaxClock
    /\ env.prompt => \A c \in Callers : pc[c] \notin Working
    /\ clock' = clock + 1
    /\ UNCHANGED <<env, cache, local>>

-----------------------------------------------------------------------------
Next ==
    \/ Restart \/ Tick
    \/ \E c \in Callers :
          \/ \E a \in Assertions : Present(c, a)
          \/ \E jwks \in KeySets : Fetched(c, jwks)
          \/ NoKeys(c)
          \/ Verify(c) \/ Sweep(c) \/ Record(c)
          \/ Reply(c) \/ Fail(c)

Spec == Init /\ [][Next]_vars

-----------------------------------------------------------------------------
(* Properties.                                                             *)

\* With Redis, and while calls are prompt and no client's clock is ahead, an
\* assertion is used at most once, through restarts and lost replies: when the key
\* with the capped time to live is gone, one of the checks of the time, each on a
\* reading of its own, refuses the assertion.
RedisOnce ==
    (env.redis /\ env.prompt /\ env.synced) => \A a \in Assertions : count[a] <= 1

\* In every deployment, and however slow the calls are, no assertion is used a second
\* time before its exp has passed or the longest life of an entry is over.
UniqueWhileValid ==
    [][\A a \in Assertions :
          (count[a] >= 1 /\ count'[a] > count[a]) =>
              clock > a.exp \/ clock > last[a] + MaxTTL]_vars

\* Every check but those of the time: the claims are right, the alg is allowed, and the
\* signer's key was published for the kid and the alg.
Genuine(a) ==
    /\ a.claims /\ a.alg \in ALLOWED_JWT_ALGORITHMS
    /\ \E jwks \in KeySets : \E i \in Candidates(jwks, a) : jwks[i].material = a.signer

\* A call is turned away as a replay only after a genuine assertion with that jti has
\* been recorded: what fails a check before never uses up a jti.
ReplayVerdictJustified ==
    [][\A c \in Callers :
          (Record(c) /\ Seen(asrt[c].jti)) =>
              \E a \in Assertions : a.jti = asrt[c].jti /\ Genuine(a) /\ count[a] >= 1]_vars

\* While keys are exchanged, whoever names the key it signed with is judged by that key,
\* if the answer of the provider has it: no other entry, be it of the same kid, for
\* encryption or unreadable, stands in its way, though the first match is final.
NamedKeyIsFound ==
    [][\A c \in Callers, jwks \in KeySets :
          (/\ Fetched(c, jwks)
           /\ asrt[c].alg \in ALLOWED_JWT_ALGORITHMS /\ asrt[c].kid # None
           /\ \E i \in Candidates(jwks, asrt[c]) : jwks[i].material = asrt[c].signer) =>
              key'[c] = asrt[c].signer]_vars

\* The cache stays small: no exp, however far, keeps an entry longer than MaxTTL, and
\* while calls are prompt no call finds an entry of the dict that an earlier sweep, at
\* most an interval ago, should have taken out.
CacheBounded ==
    /\ \A j \in Jtis : used[j] # NoEntry => used[j] <= clock + MaxTTL
    /\ (env.prompt /\ ~env.redis) =>
          \A c \in Callers, j \in Jtis :
              (pc[c] = "record" /\ used[j] # NoEntry) =>
                  used[j] > now[c] - (CleanupInterval + Skew)

\* "Record a JTI in the in-memory cache.  Returns False if seen before": while the
\* process lives no assertion is accepted a second time.  (It is, between exp and
\* exp + Skew, once a sweep has come by.)
MemoryOnce ==
    (~env.redis /\ env.prompt /\ env.synced) => \A a \in Assertions : count[a] <= 1

\* "A re-presented assertion is independently rejected by the iat-age check" once its
\* key is gone.  (Not one whose iat was ahead when it was recorded.)
AgeCheckTakesOver ==
    (env.redis /\ env.prompt) => \A a \in Assertions : count[a] <= 1
=============================================================================
