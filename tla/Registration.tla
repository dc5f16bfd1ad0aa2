---------------------------- MODULE Registration ----------------------------
(***************************************************************************)
(* registration/: the handler of client registration requests, composed    *)
(* with the in-memory limiter it consults (MemoryRateLimiter, which has    *)
(* the variables of its calls here too) and with a registry.  Requests run *)
(* in one event loop: between two awaits that suspend, a request is alone, *)
(* and the limiter's methods do not suspend.  The host's callbacks, the    *)
(* body's arrival and a registry's failures are external.                  *)
(***************************************************************************)
EXTENDS Integers, FiniteSets

CONSTANTS Requests,   \* the requests ever made, and the tasks that handle them
          IPs,        \* what get_client_ip resolves to
          URIs,
          Payloads,   \* the bodies: .wellFormed, .uris, .machine (asks for client_credentials)
          Rewrite,    \* Rewrite[uris]: what all redirect_uri_rewriters make of them
          Defaults,   \* default_redirect_uris
          Valid,      \* the URIs that redirect_uri_validator accepts
          Hooks,      \* post_register_hooks
          Limit, Window, TicksPerSecond, None, MaxClock  \* see MemoryRateLimiter

ASSUME RegistrationAssumption ==
    /\ Payloads \subseteq [wellFormed : BOOLEAN, uris : SUBSET URIs, machine : BOOLEAN]
    /\ Rewrite \in [SUBSET URIs -> SUBSET URIs]
    /\ Defaults \subseteq URIs /\ Valid \subseteq URIs
    /\ Limit \in Nat \ {0} /\ Window \in Nat \ {0}
    /\ TicksPerSecond \in Nat \ {0} /\ MaxClock \in Nat
    /\ None \notin Payloads \cup IPs \cup Int

VARIABLES
    clock, times, present, lastSweep, pc, key, now, seen, stale,
    admitted, promise,  \* the limiter's; Callers are the requests, Keys the IPs
    env,       \* .guarded: is there an auth_validator?  .limited: a rate_limiter?
               \* .validated: a redirect_uri_validator?
    stage,     \* the place of each request in the handler
    ip,        \* of each request the limiter was asked about
    body,      \* of each request under way
    made,      \* the client that create_client returned to the request
    answer,    \* the response, once there is one
    clients,   \* MemoryClientRegistry._clients, or what a registry stores
    hooked     \* <<hook, client>>: the hooks that took note of a client

Limiter == INSTANCE MemoryRateLimiter
    WITH Keys <- IPs, Callers <- Requests, Threaded <- FALSE

limiter == <<clock, times, present, lastSweep, pc, key, now, seen, stale, admitted, promise>>
handler == <<env, stage, ip, body, made, answer, clients, hooked>>
vars == <<limiter, handler>>

Stages == {"none", "auth", "limit", "limiter", "denied", "body", "create", "hooks", "done"}

\* RegisteredClient, and the request it was made for (ids count per request).
Clients == [id : {1, 2}, by : Requests, uris : SUBSET URIs,
            method : {"none", "client_secret_post"}, secret : BOOLEAN]

\* Seconds in Retry-After; without the header None.
Answers == [status : {201, 400, 401, 429, 500}, client : Clients \cup {None},
            retry : 1..(Window + 1) \cup {None}]

ASSUME NoneAssumption == None \notin Answers

TypeOK ==
    /\ Limiter!TypeOK
    /\ env \in [guarded : BOOLEAN, limited : BOOLEAN, validated : BOOLEAN]
    /\ stage \in [Requests -> Stages]
    /\ ip \in [Requests -> IPs \cup {None}]
    /\ body \in [Requests -> Payloads \cup {None}]
    /\ made \in [Requests -> Clients \cup {None}]
    /\ answer \in [Requests -> Answers \cup {None}]
    /\ clients \subseteq Clients
    /\ hooked \subseteq Hooks \X Clients

Init ==
    /\ Limiter!Init
    /\ env \in [guarded : BOOLEAN, limited : BOOLEAN, validated : BOOLEAN]
    /\ stage = [r \in Requests |-> "none"]
    /\ ip = [r \in Requests |-> None]
    /\ body = [r \in Requests |-> None]
    /\ made = [r \in Requests |-> None]
    /\ answer = [r \in Requests |-> None]
    /\ clients = {}
    /\ hooked = {}

ThenLimitFirst ==  \* a seeded fault: the limiter is asked before the validator
    [none |-> "limit", limit |-> "auth", auth |-> "body", body |-> "create", create |-> "hooks"]
Then ==
    [none |-> "auth", auth |-> "limit", limit |-> "body", body |-> "create", create |-> "hooks"]

\* The request passes place; inside the limiter it is at "limit" still.
Pass(r, place) == stage' = [stage EXCEPT ![r] = Then[place]]

\* The handler returns a response, and its locals are gone.
Respond(r, response) ==
    /\ stage' = [stage EXCEPT ![r] = "done"]
    /\ answer' = [answer EXCEPT ![r] = response]
    /\ body' = [body EXCEPT ![r] = None]
    /\ made' = [made EXCEPT ![r] = None]

Error(status) == [status |-> status, client |-> None, retry |-> None]

\* No other request is in the limiter: it does not suspend its caller.
Alone(r) == \A q \in Requests \ {r} : stage[q] \notin {"limiter", "denied"}

-----------------------------------------------------------------------------
Arrive(r) ==
    /\ stage[r] = "none" /\ Alone(r)
    /\ body' \in {[body EXCEPT ![r] = p] : p \in Payloads}
    /\ Pass(r, "none")
    /\ UNCHANGED <<limiter, env, ip, made, answer, clients, hooked>>

\* await auth_validator(request)
Authorize(r) ==
    /\ stage[r] = "auth" /\ Alone(r)
    /\ \/ Pass(r, "auth") /\ UNCHANGED <<body, made, answer>>
       \/ env.guarded /\ Respond(r, Error(401))
    /\ UNCHANGED <<limiter, env, ip, clients, hooked>>

\* The IP is resolved and is_allowed() called, if there is a limiter ...
AskLimiter(r) ==
    /\ stage[r] = "limit" /\ Alone(r)
    /\ IF env.limited
       THEN \E i \in IPs :
                /\ ip' = [ip EXCEPT ![r] = i]
                /\ Limiter!IsAllowed(r, i)
                /\ stage' = [stage EXCEPT ![r] = "limiter"]
       ELSE Pass(r, "limit") /\ UNCHANGED <<limiter, ip>>
    /\ UNCHANGED <<env, body, made, answer, clients, hooked>>

\* ... sweeps and reads, in steps of its own ...
InLimiter(r) ==
    /\ stage[r] = "limiter"
    /\ Limiter!Sweep(r) \/ Limiter!Mark(r) \/ Limiter!Delete(r) \/ Limiter!Read(r)
    /\ UNCHANGED handler

\* ... and returns.
Judged(r) ==
    /\ stage[r] = "limiter"
    /\ Limiter!Write(r)
    /\ IF Cardinality(seen[r]) < Limit
       THEN Pass(r, "limit")
       ELSE stage' = [stage EXCEPT ![r] = "denied"]
    /\ UNCHANGED <<env, ip, body, made, answer, clients, hooked>>

\* rate_limit_exceeded() leaves the header out if it is told 0.
TooMany(seconds) ==
    [status |-> 429, client |-> None, retry |-> IF seconds = 0 THEN None ELSE seconds]

RefuseUntil(r) ==  \* a seeded fault: the header holds a time, not a wait
    /\ stage[r] = "denied"
    /\ Limiter!GetRetryAfter(r, ip[r])
    /\ Respond(r, TooMany(promise'[ip[r]]))
    /\ UNCHANGED <<env, ip, clients, hooked>>

\* get_retry_after(), some time later; nobody else has run.
Refuse(r) ==
    /\ stage[r] = "denied"
    /\ Limiter!GetRetryAfter(r, ip[r])
    /\ Respond(r, TooMany((promise'[ip[r]] - clock) \div TicksPerSecond))
    /\ UNCHANGED <<env, ip, clients, hooked>>

\* The URIs to be registered: rewritten, then replaced by the defaults if there are none.
RedirectURIs(p) == IF Rewrite[p.uris] = {} THEN Defaults ELSE Rewrite[p.uris]

AcceptableAsSent(p) ==  \* a seeded fault: the URIs are validated before they are rewritten
    p.wellFormed /\ (env.validated => p.uris \subseteq Valid)

\* JSON, an object, fields of the right types; and every URI that will be stored.
Acceptable(p) == p.wellFormed /\ (env.validated => RedirectURIs(p) \subseteq Valid)

\* await request.body(), up to the call of create_client.
Parse(r) ==
    /\ stage[r] = "body" /\ Alone(r)
    /\ IF Acceptable(body[r])
       THEN Pass(r, "body") /\ UNCHANGED <<body, made, answer>>
       ELSE Respond(r, Error(400))
    /\ UNCHANGED <<limiter, env, ip, clients, hooked>>

\* _derive_grant_types_and_auth_method(): the method that was asked for is not looked at.
AuthMethod(p) == IF p.machine THEN "client_secret_post" ELSE "none"

\* What the registry stores: a confidential client has a secret.
NewClient(r) ==
    [id |-> Cardinality({c \in clients : c.by = r}) + 1, by |-> r, uris |-> RedirectURIs(body[r]),
     method |-> AuthMethod(body[r]), secret |-> AuthMethod(body[r]) # "none"]

CreateAgain(r) ==  \* a seeded fault: after a failure the call is repeated
    /\ stage[r] = "create" /\ Alone(r)
    /\ clients' = clients \cup {NewClient(r)}
    /\ \/ Pass(r, "create") /\ made' = [made EXCEPT ![r] = NewClient(r)]
       \/ UNCHANGED <<stage, made>>
    /\ UNCHANGED <<limiter, env, ip, body, answer, hooked>>

\* await registry.create_client(parsed), which may fail before or after it has stored.
Create(r) ==
    /\ stage[r] = "create" /\ Alone(r)
    /\ \/ /\ clients' = clients \cup {NewClient(r)}
          /\ made' = [made EXCEPT ![r] = NewClient(r)]
          /\ Pass(r, "create")
          /\ UNCHANGED <<body, answer>>
       \/ /\ clients' \in {clients, clients \cup {NewClient(r)}}
          /\ Respond(r, Error(500))
    /\ UNCHANGED <<limiter, env, ip, hooked>>

\* Hooks that fail have taken no note of the client.
SomeHooks(r) ==
    hooked' \in {hooked \cup (succeeded \X {made[r]}) : succeeded \in SUBSET Hooks}

\* Every hook is awaited, and none can stop the others or the answer.
RunHooks(r) ==
    /\ stage[r] = "hooks" /\ Alone(r)
    /\ SomeHooks(r)
    /\ Respond(r, [status |-> 201, client |-> made[r], retry |-> None])
    /\ UNCHANGED <<limiter, env, ip, clients>>

\* An await raises what the handler does not catch (from the validator, the body, or a
\* cancellation): the request ends without a response of the handler's.
Break(r) ==
    /\ Alone(r)
    /\ \/ stage[r] \in {"auth", "body"} /\ UNCHANGED <<clients, hooked>>
       \/ /\ stage[r] = "create"
          /\ clients' \in {clients, clients \cup {NewClient(r)}}
          /\ UNCHANGED hooked
       \/ stage[r] = "hooks" /\ SomeHooks(r) /\ UNCHANGED clients
    /\ Respond(r, None)
    /\ UNCHANGED <<limiter, env, ip>>

Tick == Limiter!Tick /\ UNCHANGED handler

-----------------------------------------------------------------------------
Next ==
    \/ Tick
    \/ \E r \in Requests :
          \/ Arrive(r) \/ Authorize(r)
          \/ AskLimiter(r) \/ InLimiter(r) \/ Judged(r) \/ Refuse(r)
          \/ Parse(r) \/ Create(r) \/ RunHooks(r) \/ Break(r)

Spec == Init /\ [][Next]_vars

-----------------------------------------------------------------------------
(* Properties.                                                             *)

\* Who is answered 201 is told of a client that is stored as told; a request that is
\* refused leaves none behind; no client was stored with a URI that is not valid, or with a
\* secret its method does not use; and the hooks know no client that is not stored.
AnsweredAsStored ==
    /\ \A r \in Requests :
          answer[r] # None =>
              LET stored == {c \in clients : c.by = r}
              IN  CASE answer[r].status = 201 -> stored = {answer[r].client}
                    [] answer[r].status = 500 -> Cardinality(stored) <= 1
                    [] OTHER -> stored = {}
    /\ \A c \in clients :
          /\ env.validated => c.uris \subseteq Valid
          /\ c.secret <=> c.method = "client_secret_post"
    /\ \A n \in hooked : n[2] \in clients

\* The limiter bounds what is stored, though it is asked long before: by any time, an IP
\* has at most one window's limit of clients for each window begun.
ClientsPaced ==
    env.limited =>
        \A i \in IPs :
            Cardinality({c \in clients : ip[c.by] = i}) <= Limit * (clock \div Limiter!Span + 1)

\* Who is refused is refused on account of requests that were authorized, and is told how
\* long to wait.
RefusedJustly ==
    \A r \in Requests :
        (answer[r] # None /\ answer[r].status = 429) =>
            /\ answer[r].retry # None
            /\ LET others ==
                      {q \in Requests \ {r} :
                          /\ ip[q] = ip[r]
                          /\ stage[q] \in {"body", "create", "hooks", "done"}
                          /\ answer[q] # None => answer[q].status \notin {401, 429}}
               IN  Cardinality(others) >= Limit
=============================================================================
