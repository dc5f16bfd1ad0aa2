------------------------- MODULE Registration_proofs -------------------------
(***************************************************************************)
(* Proofs about Registration, for any requests, IPs, payloads, rewriters,  *)
(* validators and hooks, and any limit and window.  What is proved of the  *)
(* limiter alone (MemoryRateLimiter_proofs) is used of the limiter here.   *)
(***************************************************************************)
EXTENDS Registration, FiniteSetTheorems, TLAPS

Proved == INSTANCE MemoryRateLimiter_proofs
    WITH Keys <- IPs, Callers <- Requests, Threaded <- FALSE

-----------------------------------------------------------------------------
(* Products and quotients.                                                 *)

LEMMA Product ==
    ASSUME NEW a \in Int, NEW b \in Int, a <= b, NEW t \in Nat
    PROVE  a * t <= b * t /\ a * t \in Int /\ b * t \in Int
<1>1. (b - a) * t >= 0
    OBVIOUS
<1>2. (b - a) * t = b * t - a * t
    OBVIOUS
<1>3. a * t \in Int /\ b * t \in Int
    OBVIOUS
<1> QED BY <1>1, <1>2, <1>3

\* A quotient lies between its bounds, and is told by each of them.
LEMMA Floor ==
    ASSUME NEW n \in Int, NEW t \in Nat \ {0}
    PROVE  /\ n \div t \in Int
           /\ (n \div t) * t <= n
           /\ n < (n \div t + 1) * t
<1>1. n \div t \in Int
    OBVIOUS
<1>2. (n \div t) * t <= n
    OBVIOUS
<1>3. n < (n \div t + 1) * t
    OBVIOUS
<1> QED BY <1>1, <1>2, <1>3

LEMMA FloorOnly ==
    ASSUME NEW n \in Int, NEW t \in Nat \ {0}, NEW q \in Int, q * t <= n
    PROVE  q <= n \div t
<1> DEFINE f == n \div t
<1>1. f \in Int /\ n < (f + 1) * t
    BY Floor
<1> HIDE DEF f
<1>2. ASSUME f + 1 <= q PROVE FALSE
    BY <1>1, <1>2, Product
<1> QED BY <1>1, <1>2 DEF f

LEMMA FloorBelow ==
    ASSUME NEW n \in Int, NEW t \in Nat \ {0}, NEW q \in Int, n < (q + 1) * t
    PROVE  n \div t <= q
<1> DEFINE f == n \div t
<1>1. f \in Int /\ f * t <= n
    BY Floor
<1> HIDE DEF f
<1>2. ASSUME q + 1 <= f PROVE FALSE
    BY <1>1, <1>2, Product
<1>3. f <= q
    BY <1>1, <1>2
<1> QED BY <1>3 DEF f

-----------------------------------------------------------------------------
(* The limiter of the composition is the limiter alone.                    *)

LEMMA LimiterOK == Proved!LimiterAssumption
BY RegistrationAssumption DEF Proved!LimiterAssumption

LEMMA SameWords ==
    /\ \A S : Proved!Cardinality(S) = Cardinality(S) /\ Limiter!Cardinality(S) = Cardinality(S)
    /\ \A S : Proved!IsFiniteSet(S) <=> IsFiniteSet(S)
    /\ Proved!Span = Limiter!Span /\ Proved!Resting = Limiter!Resting
    /\ UNCHANGED limiter => UNCHANGED Proved!vars
    /\ \A n : Proved!Seconds(n) = Limiter!Seconds(n)
    /\ \A k, t : Proved!RetryAfter(k, t) = Limiter!RetryAfter(k, t)
<1>1. \A S : Proved!Cardinality(S) = Cardinality(S) /\ Limiter!Cardinality(S) = Cardinality(S)
    BY DEF Proved!Cardinality, Limiter!Cardinality, Cardinality
<1>2. \A S : Proved!IsFiniteSet(S) <=> IsFiniteSet(S)
    BY DEF Proved!IsFiniteSet, IsFiniteSet
<1>3. Proved!Span = Limiter!Span /\ Proved!Resting = Limiter!Resting
      /\ \A n : Proved!Seconds(n) = Limiter!Seconds(n)
    BY DEF Proved!Span, Limiter!Span, Proved!Resting, Limiter!Resting, Proved!Seconds,
           Limiter!Seconds
<1>4. UNCHANGED limiter => UNCHANGED Proved!vars
    BY DEF Proved!vars, limiter, Proved!dict, Proved!local, Proved!history
<1>5. \A k, t : Proved!RetryAfter(k, t) = Limiter!RetryAfter(k, t)
    BY <1>3 DEF Proved!RetryAfter, Limiter!RetryAfter
<1> QED BY <1>1, <1>2, <1>3, <1>4, <1>5

\* The steps of the limiter.
LEMMA SameSteps ==
    /\ Limiter!Init <=> Proved!Init
    /\ Limiter!Tick <=> Proved!Tick
    /\ \A r \in Requests :
          /\ \A i \in IPs : (Limiter!IsAllowed(r, i) <=> Proved!IsAllowed(r, i))
                           /\ (Limiter!GetRetryAfter(r, i) <=> Proved!GetRetryAfter(r, i))
          /\ Limiter!Sweep(r) <=> Proved!Sweep(r)
          /\ Limiter!Mark(r) <=> Proved!Mark(r)
          /\ Limiter!Delete(r) <=> Proved!Delete(r)
          /\ Limiter!Read(r) <=> Proved!Read(r)
          /\ Limiter!Write(r) <=> Proved!Write(r)
<1> USE SameWords
    DEF Proved!dict, Limiter!dict, Proved!local, Limiter!local, Proved!history, Limiter!history,
        Proved!At, Limiter!At, Proved!Goto, Limiter!Goto, Proved!End, Limiter!End,
        Proved!InWindow, Limiter!InWindow
<1>1. Limiter!Init <=> Proved!Init
    BY DEF Limiter!Init, Proved!Init
<1>2. Limiter!Tick <=> Proved!Tick
    BY DEF Limiter!Tick, Proved!Tick
<1>3. ASSUME NEW r \in Requests, NEW i \in IPs
      PROVE  Limiter!IsAllowed(r, i) <=> Proved!IsAllowed(r, i)
    BY DEF Limiter!IsAllowed, Proved!IsAllowed, Limiter!Free, Proved!Free
<1>4. ASSUME NEW r \in Requests, NEW i \in IPs
      PROVE  Limiter!GetRetryAfter(r, i) <=> Proved!GetRetryAfter(r, i)
    BY DEF Limiter!GetRetryAfter, Proved!GetRetryAfter, Limiter!Free, Proved!Free
<1>5. ASSUME NEW r \in Requests
      PROVE  /\ Limiter!Sweep(r) <=> Proved!Sweep(r)
             /\ Limiter!Read(r) <=> Proved!Read(r)
    BY DEF Limiter!Sweep, Proved!Sweep, Limiter!Read, Proved!Read
<1>6. ASSUME NEW r \in Requests
      PROVE  Limiter!Mark(r) <=> Proved!Mark(r)
    BY DEF Limiter!Mark, Proved!Mark, Limiter!Idle, Proved!Idle
<1>7. ASSUME NEW r \in Requests
      PROVE  Limiter!Delete(r) <=> Proved!Delete(r)
    BY DEF Limiter!Delete, Proved!Delete
<1>8. ASSUME NEW r \in Requests
      PROVE  Limiter!Write(r) <=> Proved!Write(r)
    <2>1. Limiter!Fresh(r) = Proved!Fresh(r)
        BY DEF Limiter!Fresh, Proved!Fresh
    <2> QED BY <2>1 DEF Limiter!Write, Proved!Write, Limiter!WriteDenied, Proved!WriteDenied,
                        Limiter!WriteAllowed, Proved!WriteAllowed
<1> QED BY <1>1, <1>2, <1>3, <1>4, <1>5, <1>6, <1>7, <1>8

-----------------------------------------------------------------------------
(* Where the requests are.  One at a time is with the limiter, from the    *)
(* call of is_allowed to the answer of get_retry_after.                    *)

WithLimiter == {"limiter", "denied"}

Placed(r) ==
    /\ stage[r] \in {"none", "auth", "limit"} => ip[r] = None
    /\ stage[r] \in WithLimiter => ip[r] \in IPs
    /\ stage[r] = "limiter" <=> Proved!Active(r)
    /\ stage[r] = "limiter" => key[r] = ip[r]

Places ==
    /\ env \in [guarded : BOOLEAN, limited : BOOLEAN, validated : BOOLEAN]
    /\ stage \in [Requests -> Stages] /\ ip \in [Requests -> IPs \cup {None}]
    /\ \A r \in Requests : Placed(r)
    /\ \A q, r \in Requests : stage[q] \in WithLimiter /\ stage[r] \in WithLimiter => q = r

Judging == Proved!Calm /\ Proved!Bounded /\ Proved!Counted

\* A call of the limiter's methods is a step of the limiter; the other steps leave it alone.
LEMMA LimiterSteps == Places /\ [Next]_vars => [Proved!Next]_(Proved!vars)
<1> SUFFICES ASSUME Places, [Next]_vars PROVE Proved!Next \/ UNCHANGED limiter
    BY SameWords
<1>1. CASE Tick
    BY <1>1, SameSteps DEF Tick, Proved!Next
<1>2. ASSUME NEW r \in Requests, AskLimiter(r) PROVE Proved!Next \/ UNCHANGED limiter
    BY <1>2, SameSteps DEF AskLimiter, Proved!Next
<1>3. ASSUME NEW r \in Requests, InLimiter(r) \/ Judged(r) PROVE Proved!Next
    BY <1>3, SameSteps DEF InLimiter, Judged, Proved!Next
<1>4. ASSUME NEW r \in Requests, Refuse(r) PROVE Proved!Next
    <2>1. ip[r] \in IPs
        BY <1>4 DEF Refuse, Places, Placed, WithLimiter
    <2> QED BY <1>4, <2>1, SameSteps DEF Refuse, Proved!Next
<1>5. ASSUME NEW r \in Requests,
             Arrive(r) \/ Authorize(r) \/ Parse(r) \/ Create(r) \/ RunHooks(r) \/ Break(r)
      PROVE  UNCHANGED limiter
    BY <1>5 DEF Arrive, Authorize, Parse, Create, RunHooks, Break
<1>6. CASE UNCHANGED vars
    BY <1>6 DEF vars
<1> QED BY <1>1, <1>2, <1>3, <1>4, <1>5, <1>6 DEF Next

LEMMA JudgingNext == Places /\ Judging /\ [Next]_vars => Judging'
BY LimiterSteps, LimiterOK, Proved!CalmNext, Proved!BoundedNext, Proved!CountedNext DEF Judging

\* Where a request goes from, and to.
LEMMA Moves ==
    ASSUME Places, NEW r \in Requests
    PROVE  /\ \A place \in {"none", "auth", "limit", "body", "create"} :
                 Pass(r, place) => stage' = [stage EXCEPT ![r] = Then[place]]
           /\ Then["none"] = "auth" /\ Then["auth"] = "limit" /\ Then["limit"] = "body"
           /\ Then["body"] = "create" /\ Then["create"] = "hooks"
           /\ \A a : Respond(r, a) => stage' = [stage EXCEPT ![r] = "done"]
BY DEF Pass, Then, Respond

\* Only the request that moves is elsewhere afterwards.
LEMMA Stays ==
    ASSUME Places, NEW r \in Requests, NEW place \in Stages, stage' = [stage EXCEPT ![r] = place]
    PROVE  /\ stage' \in [Requests -> Stages] /\ stage'[r] = place
           /\ \A q \in Requests \ {r} : stage'[q] = stage[q]
BY DEF Places

\* A step within a call of the limiter does not end the call, and raises no KeyError.
LEMMA CallGoesOn ==
    ASSUME Places, Judging, NEW r \in Requests, InLimiter(r)
    PROVE  /\ UNCHANGED <<clock, admitted>>
           /\ \A i \in IPs : times'[i] = times[i] \/ times'[i] = {}
           /\ \A q \in Requests :
                 /\ pc'[q] \in Proved!Resting <=> pc[q] \in Proved!Resting
                 /\ pc[q] \notin Proved!Resting => key'[q] = key[q]
<1>1. Proved!Calm /\ Proved!TypeOK
    BY DEF Judging, Proved!Calm, Proved!Inv
<1>2. Proved!Sweep(r) \/ Proved!Mark(r) \/ Proved!Delete(r) \/ Proved!Read(r)
    BY SameSteps DEF InLimiter
<1>3. /\ Proved!Active(r)
      /\ Proved!Active(r)' => key'[r] = key[r]
      /\ \A q \in Requests \ {r} : pc'[q] = pc[q] /\ key'[q] = key[q]
    BY <1>1, <1>2, LimiterOK, Proved!StepIsLocal DEF Proved!Step
<1>4. CASE Proved!Sweep(r) \/ Proved!Mark(r) \/ Proved!Read(r)
    <2>1. UNCHANGED <<clock, admitted, times>> /\ pc'[r] \in {"mark", "read", "delete", "write"}
        BY <1>1, <1>4 DEF Proved!Sweep, Proved!Mark, Proved!Read, Proved!Goto, Proved!TypeOK,
                          Proved!dict, Proved!history
    <2> QED BY <1>3, <2>1 DEF Proved!Active, Proved!Resting
<1>5. CASE Proved!Delete(r)
    <2>1. /\ UNCHANGED <<clock, admitted>> /\ pc'[r] \in {"read", "delete"}
          /\ \A i \in IPs : times'[i] = times[i] \/ times'[i] = {}
        BY <1>1, <1>5, LimiterOK, Proved!DeleteEffect
    <2> QED BY <1>3, <2>1 DEF Proved!Active, Proved!Resting
<1> QED BY <1>2, <1>4, <1>5

\* The call ends in the step that judges the request.
LEMMA CallEnds ==
    ASSUME Places, Judging, NEW r \in Requests, Judged(r)
    PROVE  /\ ~Proved!Active(r)'
           /\ \A q \in Requests \ {r} : pc'[q] = pc[q] /\ key'[q] = key[q]
<1>1. Proved!TypeOK /\ Proved!Write(r)
    BY SameSteps DEF Judging, Proved!Calm, Proved!Inv, Judged
<1> QED BY <1>1 DEF Proved!Write, Proved!End, Proved!Goto, Proved!TypeOK, Proved!Active,
                    Proved!Resting

LEMMA PlacesNext == Places /\ Judging /\ [Next]_vars => Places'
<1> SUFFICES ASSUME Places, Judging, [Next]_vars PROVE Places'
    OBVIOUS
<1>0. env' = env
    BY DEF Next, Tick, Arrive, Authorize, AskLimiter, InLimiter, Judged, Refuse, Parse, Create,
           RunHooks, Break, vars, handler
<1>1. ASSUME UNCHANGED <<stage, ip, pc, key>> PROVE Places'
    BY <1>0, <1>1 DEF Places, Placed, Proved!Active
<1>2. ASSUME NEW r \in Requests, NEW place \in Stages \ WithLimiter,
             stage[r] \notin WithLimiter, place \in {"none", "auth", "limit"} => ip[r] = None,
             stage' = [stage EXCEPT ![r] = place], UNCHANGED <<ip, limiter>>
      PROVE  Places'
    <2>1. UNCHANGED <<pc, key>> /\ place \in Stages /\ place \notin WithLimiter
        BY <1>2 DEF limiter
    <2>2. /\ stage'[r] = place /\ stage' \in [Requests -> Stages]
          /\ \A q \in Requests \ {r} : stage'[q] = stage[q]
        BY <1>2, <2>1, Stays
    <2>3. \A q \in Requests \ {r} : Placed(q)'
        BY <1>2, <2>1, <2>2 DEF Places, Placed, Proved!Active
    <2>4. Placed(r)'
        BY <1>2, <2>1, <2>2 DEF Places, Placed, Proved!Active, WithLimiter
    <2>5. \A q \in Requests : Placed(q)'
        BY <2>3, <2>4
    <2>6. \A p, q \in Requests : stage'[p] \in WithLimiter /\ stage'[q] \in WithLimiter => p = q
        BY <2>1, <2>2 DEF Places
    <2> QED BY <1>0, <1>2, <2>2, <2>5, <2>6 DEF Places, WithLimiter
<1>3. CASE Tick
    BY <1>1, <1>3, SameSteps DEF Tick, handler, Proved!Tick, Proved!local
<1>4. ASSUME NEW r \in Requests, Arrive(r) PROVE Places'
    <2>1. stage[r] = "none" /\ stage' = [stage EXCEPT ![r] = "auth"] /\ UNCHANGED <<ip, limiter>>
        BY <1>4, Moves DEF Arrive
    <2> QED BY <1>2, <2>1 DEF Places, Placed, WithLimiter, Stages
<1>5. ASSUME NEW r \in Requests, Authorize(r) PROVE Places'
    <2>1. /\ stage[r] = "auth" /\ UNCHANGED <<ip, limiter>>
          /\ \/ stage' = [stage EXCEPT ![r] = "limit"]
             \/ stage' = [stage EXCEPT ![r] = "done"]
        BY <1>5, Moves DEF Authorize
    <2> QED BY <1>2, <2>1 DEF Places, Placed, WithLimiter, Stages
<1>6. ASSUME NEW r \in Requests, AskLimiter(r) PROVE Places'
    <2>1. stage[r] = "limit" /\ \A q \in Requests \ {r} : stage[q] \notin WithLimiter
        BY <1>6 DEF AskLimiter, Alone, WithLimiter
    <2>2. CASE stage' = [stage EXCEPT ![r] = "body"] /\ UNCHANGED <<ip, limiter>>
        BY <1>2, <2>1, <2>2 DEF WithLimiter, Stages
    <2>3. ASSUME NEW i \in IPs, ip' = [ip EXCEPT ![r] = i], Limiter!IsAllowed(r, i),
                 stage' = [stage EXCEPT ![r] = "limiter"]
          PROVE  Places'
        <3>1. pc' = [pc EXCEPT ![r] = "sweep"] /\ key' = [key EXCEPT ![r] = i]
            BY <2>3, SameSteps DEF Proved!IsAllowed, Proved!Goto
        <3>2. Proved!TypeOK
            BY DEF Judging, Proved!Calm, Proved!Inv
        <3>3. /\ pc'[r] = "sweep" /\ key'[r] = i
              /\ \A q \in Requests \ {r} : pc'[q] = pc[q] /\ key'[q] = key[q]
            BY <3>1, <3>2 DEF Proved!TypeOK
        <3>4. /\ stage'[r] = "limiter" /\ stage' \in [Requests -> Stages]
              /\ \A q \in Requests \ {r} : stage'[q] = stage[q]
            BY <2>3, Stays DEF Stages
        <3>5. /\ ip'[r] = i /\ ip' \in [Requests -> IPs \cup {None}]
              /\ \A q \in Requests \ {r} : ip'[q] = ip[q]
            BY <2>3 DEF Places
        <3>6. \A q \in Requests \ {r} : Placed(q)'
            BY <3>3, <3>4, <3>5 DEF Places, Placed, Proved!Active
        <3>7. Placed(r)'
            BY <3>3, <3>4, <3>5 DEF Placed, Proved!Active, Proved!Resting, WithLimiter
        <3>8. \A q \in Requests : Placed(q)'
            BY <3>6, <3>7
        <3>9. \A p, q \in Requests : stage'[p] \in WithLimiter /\ stage'[q] \in WithLimiter => p = q
            BY <2>1, <3>4
        <3> QED BY <1>0, <3>4, <3>5, <3>8, <3>9 DEF Places, WithLimiter
    <2> QED BY <1>6, <2>2, <2>3, Moves DEF AskLimiter
<1>7. ASSUME NEW r \in Requests, InLimiter(r) PROVE Places'
    <2>1. UNCHANGED <<stage, ip>>
        BY <1>7 DEF InLimiter, handler
    <2>2. \A q \in Requests : Placed(q)'
        <3> SUFFICES ASSUME NEW q \in Requests PROVE Placed(q)'
            OBVIOUS
        <3>1. /\ pc'[q] \in Proved!Resting <=> pc[q] \in Proved!Resting
              /\ pc[q] \notin Proved!Resting => key'[q] = key[q]
            BY <1>7, CallGoesOn
        <3>2. Placed(q)
            BY DEF Places
        <3> QED BY <2>1, <3>1, <3>2 DEF Placed, Proved!Active, Proved!Resting
    <2> QED BY <1>0, <2>1, <2>2 DEF Places
<1>8. ASSUME NEW r \in Requests, Judged(r) PROVE Places'
    <2>1. PICK place \in {"body", "denied"} : stage' = [stage EXCEPT ![r] = place]
        BY <1>8, Moves DEF Judged
    <2>2. ip' = ip /\ stage[r] = "limiter" /\ ip[r] \in IPs
        BY <1>8 DEF Judged, Places, Placed, WithLimiter
    <2>3. /\ stage'[r] = place /\ stage' \in [Requests -> Stages]
          /\ \A q \in Requests \ {r} : stage'[q] = stage[q]
        BY <2>1, Stays DEF Stages
    <2>4. \A q \in Requests \ {r} : Placed(q)'
        BY <1>8, <2>2, <2>3, CallEnds DEF Places, Placed, Proved!Active
    <2>5. Placed(r)'
        BY <1>8, <2>2, <2>3, CallEnds DEF Placed
    <2>6. stage[r] \in WithLimiter
        BY <2>2 DEF WithLimiter
    <2>7. \A q \in Requests \ {r} : stage[q] \notin WithLimiter
        BY <2>6 DEF Places
    <2>8. \A q \in Requests : Placed(q)'
        BY <2>4, <2>5
    <2>9. \A p, q \in Requests : stage'[p] \in WithLimiter /\ stage'[q] \in WithLimiter => p = q
        BY <2>3, <2>7
    <2> QED BY <1>0, <2>2, <2>3, <2>8, <2>9 DEF Places, WithLimiter
<1>9. ASSUME NEW r \in Requests, Refuse(r) PROVE Places'
    <2>1. /\ stage[r] = "denied" /\ ip[r] \in IPs /\ ip' = ip
          /\ stage' = [stage EXCEPT ![r] = "done"]
        BY <1>9, Moves DEF Refuse, Places, Placed, WithLimiter
    <2>2. UNCHANGED <<pc, key>>
        BY <1>9, <2>1, SameSteps DEF Refuse, Proved!GetRetryAfter, Proved!local
    <2> QED BY <1>0, <2>1, <2>2, Stays DEF Places, Placed, Proved!Active, WithLimiter, Stages
<1>10. ASSUME NEW r \in Requests, Parse(r) \/ Create(r) \/ RunHooks(r) \/ Break(r) PROVE Places'
    <2>1. /\ stage[r] \in {"auth", "body", "create", "hooks"} /\ UNCHANGED <<ip, limiter>>
          /\ \/ stage' = [stage EXCEPT ![r] = "create"]
             \/ stage' = [stage EXCEPT ![r] = "hooks"]
             \/ stage' = [stage EXCEPT ![r] = "done"]
        BY <1>10, Moves DEF Parse, Create, RunHooks, Break
    <2> QED BY <1>2, <2>1 DEF WithLimiter, Stages
<1>11. CASE UNCHANGED vars
    BY <1>1, <1>11 DEF vars, limiter, handler
<1> QED BY <1>3, <1>4, <1>5, <1>6, <1>7, <1>8, <1>9, <1>10, <1>11 DEF Next

LEMMA PlacesInit == Init => Places /\ Judging
<1> SUFFICES ASSUME Init PROVE Places /\ Judging
    OBVIOUS
<1>1. Proved!Init
    BY SameSteps DEF Init
<1>2. Judging
    BY <1>1, LimiterOK, Proved!CalmInit, Proved!LimitInit DEF Judging
<1>3. Places
    BY <1>1 DEF Init, Places, Placed, Stages, WithLimiter, Proved!Init, Proved!Active,
                Proved!Resting
<1> QED BY <1>2, <1>3

-----------------------------------------------------------------------------
(* What is stored, and what is said of it.                                 *)

Stored(r) == {c \in clients : c.by = r}

\* A request that has its client stored has passed every place but the hooks.
Unstored == {"none", "auth", "limit", "limiter", "denied", "body", "create"}

\* A response, and what is stored of the request that it answers.
Tells(response, stored) ==
    CASE response.status = 201 -> stored = {response.client}
      [] response.status = 500 -> TRUE
      [] OTHER -> stored = {}

Known(r) ==
    /\ stage[r] \notin {"none", "done"} => body[r] \in Payloads
    /\ stage[r] = "create" => Acceptable(body[r])
    /\ stage[r] \in Unstored => Stored(r) = {}
    /\ stage[r] = "hooks" => Stored(r) = {made[r]}
    /\ stage[r] # "done" => answer[r] = None
    /\ answer[r] # None => Tells(answer[r], Stored(r))

Sound(c) ==
    /\ env.validated => c.uris \subseteq Valid
    /\ c.secret <=> c.method = "client_secret_post"

Recorded ==
    /\ body \in [Requests -> Payloads \cup {None}]
    /\ made \in [Requests -> Clients \cup {None}]
    /\ answer \in [Requests -> Answers \cup {None}]
    /\ clients \subseteq Clients /\ hooked \subseteq Hooks \X clients
    /\ \A c \in clients : Sound(c)
    /\ \A c, d \in clients : c.by = d.by => c = d

Records == Recorded /\ \A r \in Requests : Known(r)

\* The first client of a request, made of a body that was accepted.
LEMMA NewClientIsSound ==
    ASSUME Places, Records, NEW r \in Requests, stage[r] = "create"
    PROVE  /\ NewClient(r) \in Clients /\ NewClient(r).by = r
           /\ Sound(NewClient(r)) /\ Stored(r) = {}
<1>1. Known(r) /\ Stored(r) = {} /\ body[r] \in Payloads /\ Acceptable(body[r])
    BY DEF Records, Known, Unstored
<1>2. Cardinality(Stored(r)) = 0
    BY <1>1, FS_EmptySet
<1>3. body[r].uris \in SUBSET URIs
    BY <1>1, RegistrationAssumption
<1>4. RedirectURIs(body[r]) \subseteq URIs
    BY <1>3, RegistrationAssumption DEF RedirectURIs
<1>5. AuthMethod(body[r]) \in {"none", "client_secret_post"}
    BY DEF AuthMethod
<1>6. NewClient(r) = [id |-> 1, by |-> r, uris |-> RedirectURIs(body[r]),
                      method |-> AuthMethod(body[r]), secret |-> AuthMethod(body[r]) # "none"]
    BY <1>2 DEF NewClient, Stored
<1>7. env.validated => RedirectURIs(body[r]) \subseteq Valid
    BY <1>1 DEF Acceptable
<1>8. NewClient(r) \in Clients /\ NewClient(r).by = r
    BY <1>4, <1>5, <1>6 DEF Clients
<1>9. Sound(NewClient(r))
    <2>1. /\ NewClient(r).uris = RedirectURIs(body[r]) /\ NewClient(r).method = AuthMethod(body[r])
          /\ NewClient(r).secret = (AuthMethod(body[r]) # "none")
        BY <1>6
    <2> QED BY <1>5, <1>7, <2>1 DEF Sound
<1> QED BY <1>1, <1>8, <1>9

\* At most this client is new.
Grows(r) ==
    \/ clients' = clients
    \/ stage[r] = "create" /\ clients' = clients \cup {NewClient(r)}

\* What a step of r leaves alone.
Others(r) ==
    \A q \in Requests \ {r} :
        stage'[q] = stage[q] /\ body'[q] = body[q] /\ made'[q] = made[q] /\ answer'[q] = answer[q]

LEMMA StoredByOthers ==
    ASSUME Places, Records, NEW r \in Requests, Grows(r), NEW q \in Requests \ {r}
    PROVE  Stored(q)' = Stored(q)
BY NewClientIsSound DEF Grows, Stored

LEMMA StoredAfterwards ==
    ASSUME Places, Records, NEW r \in Requests, Grows(r)
    PROVE  \/ Stored(r)' = Stored(r)
           \/ stage[r] = "create" /\ Stored(r)' = {NewClient(r)}
BY NewClientIsSound DEF Grows, Stored

LEMMA RecordedNext ==
    ASSUME Places, Records, NEW r \in Requests, Grows(r), env' = env,
           body' \in [Requests -> Payloads \cup {None}],
           made' \in [Requests -> Clients \cup {None}],
           answer' \in [Requests -> Answers \cup {None}],
           hooked' \subseteq Hooks \X clients'
    PROVE  Recorded'
<1>1. clients' \subseteq Clients
    BY NewClientIsSound DEF Grows, Records, Recorded
<1>2. \A c \in clients' : Sound(c)'
    BY NewClientIsSound DEF Grows, Records, Recorded, Sound
<1>3. ASSUME NEW c \in clients', NEW d \in clients', c.by = d.by PROVE c = d
    <2>1. CASE clients' = clients
        BY <1>3, <2>1 DEF Records, Recorded
    <2>2. CASE stage[r] = "create" /\ clients' = clients \cup {NewClient(r)}
        <3>1. NewClient(r).by = r /\ \A e \in clients : e.by # r
            BY <2>2, NewClientIsSound DEF Stored
        <3> QED BY <1>3, <2>2, <3>1 DEF Records, Recorded
    <2> QED BY <2>1, <2>2 DEF Grows
<1> QED BY <1>1, <1>2, <1>3 DEF Recorded

LEMMA KnownElsewhere ==
    ASSUME Places, Records, NEW r \in Requests, Grows(r), Others(r), env' = env,
           NEW q \in Requests \ {r}
    PROVE  Known(q)'
<1>1. Known(q) /\ Stored(q)' = Stored(q)
    BY StoredByOthers DEF Records
<1>2. stage'[q] = stage[q] /\ body'[q] = body[q] /\ made'[q] = made[q] /\ answer'[q] = answer[q]
    BY DEF Others
<1> QED BY <1>1, <1>2 DEF Known, Acceptable

\* The limiter's answer to a request that it refused, in seconds.
Wait(r) == (promise'[ip[r]] - clock) \div TicksPerSecond

LEMMA WaitTold ==
    ASSUME Places, Judging, NEW r \in Requests, Refuse(r)
    PROVE  /\ Wait(r) \in 0..(Window + 1)
           /\ times[ip[r]] # {} => Wait(r) # 0
<1> DEFINE i == ip[r]
           oldest == Proved!Oldest(i)
           wait == Proved!RetryAfter(i, oldest)
           n == Proved!Span - (clock - oldest)
<1>0. i \in IPs
    BY DEF Refuse, Places, Placed, WithLimiter
<1>1. /\ Proved!Calm /\ promise \in [IPs -> Nat \cup {None}]
      /\ times[i] \in SUBSET Proved!Stamps
    BY <1>0 DEF Judging, Proved!Calm, Proved!Inv, Proved!TypeOK
<1>2. promise'[i] = IF times[i] = {} THEN clock ELSE clock + Proved!Seconds(wait)
    <2>1. Proved!GetRetryAfter(r, i)
        BY <1>0, SameSteps DEF Refuse
    <2> QED BY <1>0, <1>1, <2>1 DEF Proved!GetRetryAfter, Proved!Oldest
<1>3. /\ clock \in Nat /\ Proved!Span \in Nat
      /\ \A t \in times[i] : Proved!At(t) \in Nat /\ Proved!At(t) <= clock
    BY <1>0, <1>1, LimiterOK, Proved!Times
<1>4. Window \in Nat /\ TicksPerSecond \in Nat \ {0} /\ Window + 1 \in Nat
    BY RegistrationAssumption
<1>5. CASE times[i] = {}
    <2>1. promise'[i] - clock = 0
        BY <1>2, <1>3, <1>5
    <2>2. 0 \div TicksPerSecond = 0
        BY <1>4
    <2>3. Wait(r) = 0
        BY <2>1, <2>2 DEF Wait
    <2> QED BY <1>4, <1>5, <2>3
<1>6. CASE times[i] # {}
    <2>1. oldest \in Nat /\ oldest <= clock
        BY <1>0, <1>1, <1>3, <1>6, LimiterOK, Proved!OldestIsOne
    <2>2. wait \in Nat \ {0}
        BY <1>0, <1>3, <2>1, LimiterOK, Proved!RetryCoversOldest
    <2>3. wait <= Window + 1
        <3> HIDE DEF oldest
        <3>1. n \in Int /\ n <= Window * TicksPerSecond
            BY <1>3, <1>4, <2>1 DEF Proved!Span, Proved!Seconds
        <3>2. n < (Window + 1) * TicksPerSecond
            BY <1>4, <3>1
        <3>3. wait = IF n \div TicksPerSecond + 1 < 1 THEN 1 ELSE n \div TicksPerSecond + 1
            BY DEF Proved!RetryAfter
        <3> HIDE DEF n, wait
        <3>4. n \div TicksPerSecond <= Window /\ n \div TicksPerSecond \in Int
            BY <1>4, <3>1, <3>2, FloorBelow, Floor
        <3> QED BY <1>4, <3>3, <3>4
    <2> HIDE DEF wait
    <2>4. promise'[i] - clock = wait * TicksPerSecond
        BY <1>2, <1>3, <1>4, <1>6, <2>2 DEF Proved!Seconds
    <2>5. (wait * TicksPerSecond) \div TicksPerSecond = wait
        <3>1. wait * TicksPerSecond \in Int /\ wait * TicksPerSecond <= wait * TicksPerSecond
              /\ wait * TicksPerSecond < (wait + 1) * TicksPerSecond
            BY <1>4, <2>2
        <3>2. wait <= (wait * TicksPerSecond) \div TicksPerSecond
            BY <1>4, <2>2, <3>1, FloorOnly
        <3>3. (wait * TicksPerSecond) \div TicksPerSecond <= wait
            BY <1>4, <2>2, <3>1, FloorBelow
        <3>4. (wait * TicksPerSecond) \div TicksPerSecond \in Int
            BY <1>4, <3>1, Floor
        <3> QED BY <2>2, <3>2, <3>3, <3>4
    <2>6. Wait(r) = wait
        BY <2>4, <2>5 DEF Wait
    <2> QED BY <1>4, <2>2, <2>3, <2>6
<1> QED BY <1>5, <1>6

\* The responses of the handler.
LEMMA Responses ==
    /\ \A status \in {400, 401, 500} : Error(status) \in Answers /\ Error(status).status = status
    /\ \A seconds \in 0..(Window + 1) :
          /\ TooMany(seconds) \in Answers /\ TooMany(seconds).status = 429
          /\ seconds # 0 => TooMany(seconds).retry = seconds
    /\ \A c \in Clients \cup {None} :
          [status |-> 201, client |-> c, retry |-> None] \in Answers
    /\ None \notin Answers /\ None \notin 1..(Window + 1)
<1>1. \A seconds \in 0..(Window + 1) :
          (IF seconds = 0 THEN None ELSE seconds) \in 1..(Window + 1) \cup {None}
    BY RegistrationAssumption
<1>2. \A n \in 1..(Window + 1) : n \in Int
    BY RegistrationAssumption
<1> QED BY <1>1, <1>2, NoneAssumption, RegistrationAssumption DEF Error, TooMany, Answers

LEMMA RecordsFollow ==
    ASSUME Places, Records, NEW r \in Requests, Grows(r), Others(r), env' = env,
           body' \in [Requests -> Payloads \cup {None}],
           made' \in [Requests -> Clients \cup {None}],
           answer' \in [Requests -> Answers \cup {None}],
           hooked' \subseteq Hooks \X clients', Known(r)'
    PROVE  Records'
<1>1. Recorded'
    BY RecordedNext
<1>2. \A q \in Requests \ {r} : Known(q)'
    BY KnownElsewhere
<1> QED BY <1>1, <1>2 DEF Records

\* A request passes a place, and nothing is stored.
LEMMA PassKeeps ==
    ASSUME Places, Records, NEW r \in Requests, NEW place \in Unstored \ {"none"},
           stage[r] \in Unstored \ {"none"}, stage' = [stage EXCEPT ![r] = place],
           place = "create" => Acceptable(body[r]),
           UNCHANGED <<env, body, made, answer, clients, hooked>>
    PROVE  Records'
<1>1. place \in Stages /\ place \notin {"none", "hooks", "done"} /\ stage[r] \notin {"none", "done"}
    BY DEF Unstored, Stages
<1>2. stage'[r] = place /\ \A q \in Requests \ {r} : stage'[q] = stage[q]
    BY <1>1, Stays
<1>3. Grows(r) /\ Others(r)
    BY <1>2 DEF Grows, Others
<1>4. Known(r) /\ Stored(r)' = Stored(r)
    BY DEF Records, Stored
<1>5. Known(r)'
    BY <1>1, <1>2, <1>4 DEF Known, Acceptable
<1> QED BY <1>3, <1>5, RecordsFollow DEF Records, Recorded

\* A request ends.
LEMMA RespondKeeps ==
    ASSUME Places, Records, NEW r \in Requests, NEW response \in Answers \cup {None},
           Respond(r, response), Grows(r), env' = env, hooked' \subseteq Hooks \X clients',
           response # None => Tells(response, Stored(r)')
    PROVE  Records'
<1>1. stage'[r] = "done" /\ \A q \in Requests \ {r} : stage'[q] = stage[q]
    BY DEF Respond, Places
<1>2. /\ answer'[r] = response /\ \A q \in Requests \ {r} : answer'[q] = answer[q]
      /\ answer' \in [Requests -> Answers \cup {None}]
    BY DEF Respond, Records, Recorded
<1>3. /\ body' \in [Requests -> Payloads \cup {None}]
      /\ \A q \in Requests \ {r} : body'[q] = body[q]
    BY DEF Respond, Records, Recorded
<1>4. /\ made' \in [Requests -> Clients \cup {None}]
      /\ \A q \in Requests \ {r} : made'[q] = made[q]
    BY DEF Respond, Records, Recorded
<1>5. Others(r)
    BY <1>1, <1>2, <1>3, <1>4 DEF Others
<1>6. Known(r)'
    BY <1>1, <1>2 DEF Known, Unstored
<1> QED BY <1>2, <1>3, <1>4, <1>5, <1>6, RecordsFollow

LEMMA RecordsNext == Places /\ Judging /\ Records /\ [Next]_vars => Records'
<1> SUFFICES ASSUME Places, Judging, Records, [Next]_vars PROVE Records'
    OBVIOUS
<1>1. ASSUME NEW r \in Requests PROVE Known(r)
    BY DEF Records
<1>2. ASSUME UNCHANGED handler PROVE Records'
    BY <1>2 DEF handler, Records, Recorded, Known, Sound, Acceptable, Stored
<1>3. ASSUME NEW r \in Requests, stage[r] \in Unstored, NEW status \in {400, 401, 500},
             Respond(r, Error(status)), UNCHANGED <<env, clients, hooked>>
      PROVE  Records'
    <2>1. Grows(r) /\ hooked' \subseteq Hooks \X clients' /\ Stored(r)' = Stored(r)
        BY <1>3 DEF Stored, Grows, Records, Recorded
    <2>2. Stored(r) = {}
        BY <1>1, <1>3 DEF Known
    <2>3. Error(status) \in Answers /\ Tells(Error(status), Stored(r)')
        BY <2>1, <2>2, Responses DEF Tells
    <2> QED BY <1>3, <2>1, <2>3, RespondKeeps
<1>4. ASSUME NEW r \in Requests, Arrive(r) PROVE Records'
    <2>1. PICK p \in Payloads : body' = [body EXCEPT ![r] = p]
        BY <1>4 DEF Arrive
    <2>2. /\ stage[r] = "none" /\ stage'[r] = "auth"
          /\ \A q \in Requests \ {r} : stage'[q] = stage[q]
          /\ UNCHANGED <<env, made, answer, clients, hooked>>
        BY <1>4, Moves, Stays DEF Arrive, Stages
    <2>3. /\ body' \in [Requests -> Payloads \cup {None}] /\ body'[r] = p
          /\ \A q \in Requests \ {r} : body'[q] = body[q]
        BY <2>1 DEF Records, Recorded
    <2>4. Grows(r) /\ Others(r) /\ Stored(r)' = Stored(r)
        BY <2>2, <2>3 DEF Grows, Others, Stored
    <2>5. Known(r)'
        BY <1>1, <2>2, <2>3, <2>4 DEF Known, Unstored
    <2> QED BY <2>2, <2>3, <2>4, <2>5, RecordsFollow DEF Records, Recorded
<1>5. ASSUME NEW r \in Requests, Authorize(r) PROVE Records'
    <2>1. stage[r] = "auth" /\ UNCHANGED <<env, clients, hooked>>
        BY <1>5 DEF Authorize
    <2>2. CASE Pass(r, "auth") /\ UNCHANGED <<body, made, answer>>
        BY <2>1, <2>2, Moves, PassKeeps DEF Unstored
    <2>3. CASE Respond(r, Error(401))
        BY <1>3, <2>1, <2>3 DEF Unstored
    <2> QED BY <1>5, <2>2, <2>3 DEF Authorize
<1>6. ASSUME NEW r \in Requests, AskLimiter(r) PROVE Records'
    <2>1. /\ stage[r] = "limit" /\ UNCHANGED <<env, body, made, answer, clients, hooked>>
          /\ \/ stage' = [stage EXCEPT ![r] = "body"]
             \/ stage' = [stage EXCEPT ![r] = "limiter"]
        BY <1>6, Moves DEF AskLimiter
    <2> QED BY <2>1, PassKeeps DEF Unstored
<1>7. ASSUME NEW r \in Requests, Judged(r) PROVE Records'
    <2>1. /\ stage[r] = "limiter" /\ UNCHANGED <<env, body, made, answer, clients, hooked>>
          /\ \/ stage' = [stage EXCEPT ![r] = "body"]
             \/ stage' = [stage EXCEPT ![r] = "denied"]
        BY <1>7, Moves DEF Judged
    <2> QED BY <2>1, PassKeeps DEF Unstored
<1>8. ASSUME NEW r \in Requests, Refuse(r) PROVE Records'
    <2>1. stage[r] = "denied" /\ Respond(r, TooMany(Wait(r))) /\ UNCHANGED <<env, clients, hooked>>
        BY <1>8 DEF Refuse, Wait
    <2>2. Stored(r)' = {} /\ Grows(r) /\ hooked' \subseteq Hooks \X clients'
        BY <1>1, <2>1 DEF Known, Unstored, Stored, Grows, Records, Recorded
    <2>3. TooMany(Wait(r)) \in Answers /\ Tells(TooMany(Wait(r)), Stored(r)')
        BY <1>8, <2>2, WaitTold, Responses DEF Tells
    <2> QED BY <2>1, <2>2, <2>3, RespondKeeps
<1>9. ASSUME NEW r \in Requests, Parse(r) PROVE Records'
    <2>1. stage[r] = "body" /\ UNCHANGED <<env, clients, hooked>>
        BY <1>9 DEF Parse
    <2>2. CASE Acceptable(body[r]) /\ Pass(r, "body") /\ UNCHANGED <<body, made, answer>>
        BY <2>1, <2>2, Moves, PassKeeps DEF Unstored
    <2>3. CASE Respond(r, Error(400))
        BY <1>3, <2>1, <2>3 DEF Unstored
    <2> QED BY <1>9, <2>2, <2>3 DEF Parse
<1>10. ASSUME NEW r \in Requests, Create(r) PROVE Records'
    <2>1. stage[r] = "create" /\ UNCHANGED <<env, hooked>>
        BY <1>10 DEF Create
    <2>2. Grows(r) /\ hooked' \subseteq Hooks \X clients'
        BY <1>10, <2>1 DEF Create, Grows, Records, Recorded
    <2>3. CASE Respond(r, Error(500))
        <3>1. Error(500) \in Answers /\ Tells(Error(500), Stored(r)')
            BY Responses DEF Tells
        <3> QED BY <2>1, <2>2, <2>3, <3>1, RespondKeeps
    <2>4. CASE /\ clients' = clients \cup {NewClient(r)}
               /\ made' = [made EXCEPT ![r] = NewClient(r)]
               /\ Pass(r, "create") /\ UNCHANGED <<body, answer>>
        <3>1. stage'[r] = "hooks" /\ \A q \in Requests \ {r} : stage'[q] = stage[q]
            BY <2>4, Moves, Stays DEF Stages
        <3>2. NewClient(r) \in Clients /\ NewClient(r).by = r /\ Stored(r) = {}
            BY <2>1, NewClientIsSound
        <3>3. /\ made' \in [Requests -> Clients \cup {None}] /\ made'[r] = NewClient(r)
              /\ \A q \in Requests \ {r} : made'[q] = made[q]
            BY <2>4, <3>2 DEF Records, Recorded
        <3>4. Others(r) /\ Stored(r)' = {NewClient(r)}
            BY <2>4, <3>1, <3>2, <3>3 DEF Others, Stored
        <3>5. Known(r)'
            BY <1>1, <2>1, <2>4, <3>1, <3>3, <3>4 DEF Known, Unstored
        <3> QED BY <2>1, <2>2, <2>4, <3>3, <3>4, <3>5, RecordsFollow DEF Records, Recorded
    <2> QED BY <1>10, <2>3, <2>4 DEF Create
<1>11. ASSUME NEW r \in Requests, stage[r] = "hooks", SomeHooks(r), clients' = clients
       PROVE  /\ Grows(r) /\ hooked' \subseteq Hooks \X clients'
              /\ made[r] \in Clients \cup {None} /\ Stored(r)' = {made[r]}
    <2>1. Stored(r) = {made[r]} /\ made[r] \in Clients \cup {None}
        BY <1>1, <1>11 DEF Known, Records, Recorded
    <2>2. made[r] \in clients
        BY <2>1 DEF Stored
    <2> QED BY <1>11, <2>1, <2>2 DEF SomeHooks, Grows, Stored, Records, Recorded
<1>12. ASSUME NEW r \in Requests, RunHooks(r) PROVE Records'
    <2> DEFINE response == [status |-> 201, client |-> made[r], retry |-> None]
    <2>1. /\ stage[r] = "hooks" /\ SomeHooks(r) /\ Respond(r, response)
          /\ UNCHANGED <<env, clients>>
        BY <1>12 DEF RunHooks
    <2>2. response \in Answers /\ Tells(response, Stored(r)')
        BY <1>11, <2>1, Responses DEF Tells
    <2> HIDE DEF response
    <2> QED BY <1>11, <2>1, <2>2, RespondKeeps
<1>13. ASSUME NEW r \in Requests, Break(r) PROVE Records'
    <2>1. Respond(r, None) /\ env' = env
        BY <1>13 DEF Break
    <2>2. Grows(r) /\ hooked' \subseteq Hooks \X clients'
        BY <1>11, <1>13 DEF Break, Grows, Records, Recorded
    <2> QED BY <2>1, <2>2, RespondKeeps
<1>14. CASE Tick \/ UNCHANGED vars
    BY <1>2, <1>14 DEF Tick, vars
<1>15. ASSUME NEW r \in Requests, InLimiter(r) PROVE Records'
    BY <1>2, <1>15 DEF InLimiter
<1> QED BY <1>4, <1>5, <1>6, <1>7, <1>8, <1>9, <1>10, <1>12, <1>13, <1>14, <1>15 DEF Next

LEMMA RecordsInit == Init => Records
<1> SUFFICES ASSUME Init PROVE Records
    OBVIOUS
<1>1. clients = {} /\ hooked = {} /\ \A r \in Requests : Stored(r) = {}
    BY DEF Init, Stored
<1>2. Recorded
    BY <1>1 DEF Init, Recorded
<1>3. \A r \in Requests : Known(r)
    BY <1>1 DEF Init, Known, Unstored
<1> QED BY <1>2, <1>3 DEF Records

LEMMA Invariant == Spec => [](Places /\ Judging /\ Records)
BY PlacesInit, PlacesNext, JudgingNext, RecordsInit, RecordsNext, PTL DEF Spec

\* Every state of the registration handler, composed with the limiter and a registry, is
\* well typed: the Retry-After that it computes from the limiter's answer included.
THEOREM TypeCorrect == Spec => []TypeOK
<1>1. Places /\ Judging /\ Records => TypeOK
    <2> SUFFICES ASSUME Places, Judging, Records PROVE TypeOK
        OBVIOUS
    <2>1. Limiter!TypeOK
        BY SameWords DEF Judging, Proved!Calm, Proved!Inv, Proved!TypeOK, Limiter!TypeOK,
                         Proved!Stamps, Limiter!Stamps
    <2>2. hooked \subseteq Hooks \X Clients
        BY DEF Records, Recorded
    <2> QED BY <2>1, <2>2 DEF Places, Records, Recorded, TypeOK
<1> QED BY <1>1, Invariant, PTL

\* What handle_registration answers is what the registry has: a 201 names the one client
\* that is stored for the request, a refusal has left none behind, and a failure at most
\* one; no stored client has a URI that the validator rejects, or a secret that its method
\* does not use; and the hooks were told of stored clients only.
THEOREM ClientsAreAsAnswered == Spec => []AnsweredAsStored
<1>1. Places /\ Records => AnsweredAsStored
    <2> SUFFICES ASSUME Records PROVE AnsweredAsStored
        OBVIOUS
    <2>1. ASSUME NEW r \in Requests PROVE Cardinality(Stored(r)) <= 1
        <3>1. CASE Stored(r) = {}
            BY <3>1, FS_EmptySet
        <3>2. CASE Stored(r) # {}
            <4>1. PICK c \in Stored(r) : TRUE
                BY <3>2
            <4>2. Stored(r) = {c}
                BY <4>1 DEF Stored, Records, Recorded
            <4> QED BY <4>2, FS_Singleton
        <3> QED BY <3>1, <3>2
    <2>2. ASSUME NEW r \in Requests, answer[r] # None
          PROVE  CASE answer[r].status = 201 -> Stored(r) = {answer[r].client}
                   [] answer[r].status = 500 -> Cardinality(Stored(r)) <= 1
                   [] OTHER -> Stored(r) = {}
        <3>1. Tells(answer[r], Stored(r))
            BY <2>2 DEF Records, Known
        <3> QED BY <2>1, <3>1 DEF Tells
    <2>3. \A n \in hooked : n[2] \in clients
        BY DEF Records, Recorded
    <2> QED BY <2>2, <2>3 DEF AnsweredAsStored, Stored, Records, Recorded, Sound
<1> QED BY <1>1, Invariant, PTL

-----------------------------------------------------------------------------
(* The requests that the limiter let pass.                                 *)

\* Of the IP i, q is past the limiter, and was not refused before.
Counts(q, i) ==
    /\ ip[q] = i /\ stage[q] \in {"body", "create", "hooks", "done"}
    /\ answer[q] # None => answer[q].status \notin {401, 429}

Passed(i) == {q \in Requests : Counts(q, i)}

\* Nothing but the judgement of the limiter makes a request count, and it then does for good.
LEMMA CountsStay ==
    ASSUME Places, Judging, Records, [Next]_vars, NEW i \in IPs, NEW q \in Requests, ~Judged(q)
    PROVE  Counts(q, i)' <=> Counts(q, i)
<1>0. /\ stage[q] \in Stages /\ None \notin IPs /\ i # None
      /\ stage[q] \in {"none", "auth", "limit"} => ip[q] = None
      /\ stage[q] # "done" => answer[q] = None
    BY RegistrationAssumption DEF Places, Placed, Records, Known
<1>1. ASSUME stage'[q] = stage[q], ip'[q] = ip[q], answer'[q] = answer[q]
      PROVE  Counts(q, i)' <=> Counts(q, i)
    BY <1>1 DEF Counts
<1>2. ASSUME NEW response, Respond(q, response), ip' = ip
      PROVE  /\ stage'[q] = "done" /\ ip'[q] = ip[q]
             /\ stage[q] # "done" => answer'[q] = response
    BY <1>2 DEF Respond, Places, Records, Recorded
<1>3. ASSUME NEW r \in Requests \ {q}, NEW response, Respond(r, response), ip' = ip
      PROVE  Counts(q, i)' <=> Counts(q, i)
    BY <1>1, <1>3 DEF Respond, Places, Records, Recorded
<1>4. ASSUME NEW r \in Requests \ {q}, NEW place \in Stages,
             stage' = [stage EXCEPT ![r] = place], UNCHANGED <<ip, answer>>
      PROVE  Counts(q, i)' <=> Counts(q, i)
    BY <1>1, <1>4, Stays
<1>5. ASSUME UNCHANGED handler PROVE Counts(q, i)' <=> Counts(q, i)
    BY <1>1, <1>5 DEF handler
<1>6. CASE Arrive(q) \/ Authorize(q)
    <2>1. stage[q] \in {"none", "auth"} /\ ip' = ip
        BY <1>6 DEF Arrive, Authorize
    <2> QED BY <1>0, <2>1 DEF Counts
<1>7. CASE AskLimiter(q)
    <2>1. stage[q] = "limit" /\ (ip' = ip \/ stage' = [stage EXCEPT ![q] = "limiter"])
        BY <1>7 DEF AskLimiter
    <2>2. stage' = [stage EXCEPT ![q] = "limiter"] => stage'[q] = "limiter"
        BY Stays DEF Stages
    <2> QED BY <1>0, <2>1, <2>2 DEF Counts
<1>8. CASE Refuse(q)
    <2>1. stage[q] = "denied" /\ ip' = ip /\ Respond(q, TooMany(Wait(q)))
        BY <1>8 DEF Refuse, Wait
    <2>2. TooMany(Wait(q)) # None /\ TooMany(Wait(q)).status = 429
        BY <1>8, WaitTold, Responses
    <2>3. ~Counts(q, i)
        BY <2>1 DEF Counts
    <2>4. answer'[q] # None /\ answer'[q].status = 429
        BY <1>2, <2>1, <2>2
    <2> QED BY <2>3, <2>4 DEF Counts
<1>9. ASSUME stage[q] \in {"body", "create", "hooks"}, UNCHANGED ip,
             \/ answer' = answer /\ Pass(q, stage[q]) /\ stage[q] # "hooks"
             \/ \E status \in {400, 500} : Respond(q, Error(status))
             \/ Respond(q, [status |-> 201, client |-> made[q], retry |-> None])
             \/ Respond(q, None)
      PROVE  Counts(q, i)' <=> Counts(q, i)
    <2>1. CASE answer' = answer /\ Pass(q, stage[q]) /\ stage[q] # "hooks"
        <3>1. stage'[q] \in {"create", "hooks"}
            BY <1>9, <2>1, Moves, Stays DEF Stages
        <3> QED BY <1>9, <2>1, <3>1 DEF Counts
    <2>2. ASSUME NEW response, Respond(q, response),
                 response # None => response.status \notin {401, 429}
          PROVE  Counts(q, i)' <=> Counts(q, i)
        <3>1. stage'[q] = "done" /\ ip'[q] = ip[q] /\ answer'[q] = response
            BY <1>2, <1>9, <2>2
        <3> QED BY <1>0, <1>9, <2>2, <3>1 DEF Counts
    <2>3. ASSUME NEW status \in {400, 500}, Respond(q, Error(status))
          PROVE  Counts(q, i)' <=> Counts(q, i)
        BY <2>2, <2>3, Responses
    <2> QED BY <1>9, <2>1, <2>2, <2>3
<1>10. CASE Parse(q) \/ Create(q) \/ RunHooks(q)
    <2>1. stage[q] \in {"body", "create", "hooks"} /\ ip' = ip
        BY <1>10 DEF Parse, Create, RunHooks
    <2>2. CASE Parse(q)
        BY <1>9, <2>1, <2>2 DEF Parse
    <2>3. CASE Create(q)
        BY <1>9, <2>1, <2>3 DEF Create
    <2>4. CASE RunHooks(q)
        BY <1>9, <2>1, <2>4 DEF RunHooks
    <2> QED BY <1>10, <2>2, <2>3, <2>4
<1>11. CASE Break(q)
    <2>1. stage[q] \in {"auth", "body", "create", "hooks"} /\ ip' = ip /\ Respond(q, None)
        BY <1>11 DEF Break
    <2>2. CASE stage[q] = "auth"
        BY <1>0, <2>1, <2>2 DEF Counts
    <2>3. CASE stage[q] # "auth"
        BY <1>9, <2>1, <2>3
    <2> QED BY <2>2, <2>3
<1>12. ASSUME NEW r \in Requests \ {q}, Arrive(r) \/ Judged(r) PROVE Counts(q, i)' <=> Counts(q, i)
    <2>1. /\ UNCHANGED <<ip, answer>>
          /\ \/ stage' = [stage EXCEPT ![r] = "auth"]
             \/ stage' = [stage EXCEPT ![r] = "body"]
             \/ stage' = [stage EXCEPT ![r] = "denied"]
        BY <1>12, Moves DEF Arrive, Judged
    <2> QED BY <1>4, <2>1 DEF Stages
<1>13. ASSUME NEW r \in Requests \ {q}, AskLimiter(r) PROVE Counts(q, i)' <=> Counts(q, i)
    <2>1. /\ answer' = answer /\ ip'[q] = ip[q]
          /\ \/ stage' = [stage EXCEPT ![r] = "body"]
             \/ stage' = [stage EXCEPT ![r] = "limiter"]
        BY <1>13, Moves DEF AskLimiter, Places
    <2>2. stage'[q] = stage[q]
        BY <2>1, Stays DEF Stages
    <2> QED BY <1>1, <2>1, <2>2
<1>14. ASSUME NEW r \in Requests \ {q}, Authorize(r) \/ Refuse(r) \/ Parse(r) \/ Create(r)
                                      \/ RunHooks(r) \/ Break(r)
       PROVE  Counts(q, i)' <=> Counts(q, i)
    <2>1. ip' = ip
        BY <1>14 DEF Authorize, Refuse, Parse, Create, RunHooks, Break
    <2>2. \/ \E response : Respond(r, response)
          \/ answer' = answer /\ stage' = [stage EXCEPT ![r] = "limit"]
          \/ answer' = answer /\ stage' = [stage EXCEPT ![r] = "create"]
          \/ answer' = answer /\ stage' = [stage EXCEPT ![r] = "hooks"]
        BY <1>14, Moves DEF Authorize, Refuse, Parse, Create, RunHooks, Break
    <2> QED BY <1>3, <1>4, <2>1, <2>2 DEF Stages
<1>15. ASSUME NEW r \in Requests, InLimiter(r) PROVE Counts(q, i)' <=> Counts(q, i)
    BY <1>5, <1>15 DEF InLimiter
<1>16. CASE Tick \/ UNCHANGED vars
    BY <1>5, <1>16 DEF Tick, vars
<1> QED BY <1>6, <1>7, <1>8, <1>10, <1>11, <1>12, <1>13, <1>14, <1>15, <1>16 DEF Next

\* What a judgement makes of the request, and of the list and the history of its IP.
LEMMA Judgement ==
    ASSUME Places, Judging, Records, NEW r \in Requests, Judged(r)
    PROVE  LET i == ip[r]
               still == Proved!InWindow(times[i], clock)
               new == Proved!Fresh(r)
           IN  /\ i \in IPs /\ stage[r] = "limiter" /\ clock' = clock
               /\ UNCHANGED <<ip, answer>> /\ answer[r] = None
               /\ \A j \in IPs \ {i} : times'[j] = times[j] /\ admitted'[j] = admitted[j]
               /\ IsFiniteSet(still) /\ Cardinality(still) \in Nat
               /\ Cardinality(still) <= Cardinality(times[i])
               /\ Proved!At(new) = clock /\ new \notin times[i]
               /\ \/ /\ Cardinality(still) >= Limit /\ stage'[r] = "denied"
                     /\ times'[i] = still /\ admitted' = admitted
                  \/ /\ Cardinality(still) < Limit /\ stage'[r] = "body"
                     /\ times'[i] = still \cup {new}
                     /\ admitted'[i] = Proved!InWindow(admitted[i] \cup {new}, clock)
<1> DEFINE i == ip[r]
           still == Proved!InWindow(times[i], clock)
           new == Proved!Fresh(r)
<1>1. /\ stage[r] = "limiter" /\ i \in IPs /\ key[r] = i
      /\ UNCHANGED <<ip, answer>> /\ answer[r] = None
    BY DEF Judged, Places, Placed, WithLimiter, Records, Known
<1>2. Proved!Calm /\ Proved!Write(r)
    BY SameSteps DEF Judging, Judged
<1>3. clock' = clock
    BY <1>2 DEF Proved!Write
<1>4. \A j \in IPs \ {i} : times'[j] = times[j] /\ admitted'[j] = admitted[j]
    BY <1>1, <1>2, LimiterOK, Proved!WriteElsewhere
<1>5. /\ IsFiniteSet(still) /\ Cardinality(still) \in Nat
      /\ Cardinality(still) <= Cardinality(times[i]) /\ seen[r] = still
      /\ Proved!At(new) = clock /\ new \notin times[i]
      /\ \/ /\ Cardinality(still) >= Limit /\ times'[i] = still /\ admitted' = admitted
         \/ /\ Cardinality(still) < Limit /\ times'[i] = still \cup {new}
            /\ admitted'[i] = Proved!InWindow(admitted[i] \cup {new}, clock)
    BY <1>1, <1>2, LimiterOK, SameWords, Proved!WriteEffect
<1> HIDE DEF still
<1>6. IF Cardinality(still) < Limit THEN stage'[r] = "body" ELSE stage'[r] = "denied"
    BY <1>5, Moves, Stays DEF Judged, Stages
<1>7. Cardinality(still) >= Limit <=> ~(Cardinality(still) < Limit)
    BY <1>5, RegistrationAssumption
<1> HIDE DEF i, new
<1> QED BY <1>1, <1>3, <1>4, <1>5, <1>6, <1>7 DEF i, still, new

\* The other steps add nothing to a list, and only time takes from the history.
LEMMA Meanwhile ==
    ASSUME Places, Judging, [Next]_vars, \A r \in Requests : ~Judged(r)
    PROVE  /\ \A i \in IPs : times'[i] = times[i] \/ times'[i] = {}
           /\ (\A r \in Requests : stage[r] # "limiter") => times' = times
           /\ \/ UNCHANGED <<clock, admitted>>
              \/ /\ clock' = clock + 1
                 /\ admitted' = [i \in IPs |-> Proved!InWindow(admitted[i], clock')]
<1>1. CASE Tick
    <2>1. /\ clock' = clock + 1 /\ times' = times
          /\ admitted' = [i \in IPs |-> Proved!InWindow(admitted[i], clock')]
        BY <1>1, SameSteps DEF Tick, Proved!Tick, Proved!dict
    <2> QED BY <2>1
<1>2. ASSUME UNCHANGED <<clock, admitted, times>>
      PROVE  /\ \A i \in IPs : times'[i] = times[i] \/ times'[i] = {}
             /\ times' = times /\ UNCHANGED <<clock, admitted>>
    BY <1>2
<1>3. ASSUME NEW r \in Requests, AskLimiter(r) PROVE UNCHANGED <<clock, admitted, times>>
    <2>1. CASE UNCHANGED limiter
        BY <2>1 DEF limiter
    <2>2. ASSUME NEW i \in IPs, Limiter!IsAllowed(r, i) PROVE UNCHANGED <<clock, admitted, times>>
        BY <2>2, SameSteps DEF Proved!IsAllowed, Proved!dict, Proved!history
    <2> QED BY <1>3, <2>1, <2>2 DEF AskLimiter
<1>4. ASSUME NEW r \in Requests, InLimiter(r)
      PROVE  /\ UNCHANGED <<clock, admitted>> /\ stage[r] = "limiter"
             /\ \A i \in IPs : times'[i] = times[i] \/ times'[i] = {}
    BY <1>4, CallGoesOn DEF InLimiter
<1>5. ASSUME NEW r \in Requests, Refuse(r) PROVE UNCHANGED <<clock, admitted, times>>
    <2>1. ip[r] \in IPs
        BY <1>5 DEF Refuse, Places, Placed, WithLimiter
    <2> QED BY <1>5, <2>1, SameSteps DEF Refuse, Proved!GetRetryAfter, Proved!dict
<1>6. ASSUME NEW r \in Requests,
             Arrive(r) \/ Authorize(r) \/ Parse(r) \/ Create(r) \/ RunHooks(r) \/ Break(r)
      PROVE  UNCHANGED <<clock, admitted, times>>
    BY <1>6 DEF Arrive, Authorize, Parse, Create, RunHooks, Break, limiter
<1>7. CASE UNCHANGED vars
    BY <1>2, <1>7 DEF vars, limiter
<1>8. ASSUME NEW r \in Requests, Arrive(r) \/ Authorize(r) \/ AskLimiter(r) \/ Refuse(r)
                                  \/ Parse(r) \/ Create(r) \/ RunHooks(r) \/ Break(r)
      PROVE  UNCHANGED <<clock, admitted, times>>
    BY <1>3, <1>5, <1>6, <1>8
<1> QED BY <1>1, <1>2, <1>4, <1>7, <1>8 DEF Next

\* A judgement lets at most its request pass; the other steps let none.
LEMMA PassedStay ==
    ASSUME Places, Judging, Records, [Next]_vars, \A r \in Requests : ~Judged(r), NEW i \in IPs
    PROVE  Passed(i)' = Passed(i)
<1>1. \A q \in Requests : Counts(q, i)' <=> Counts(q, i)
    BY CountsStay
<1> QED BY <1>1 DEF Passed

LEMMA PassedJudged ==
    ASSUME Places, Judging, Records, [Next]_vars, NEW r \in Requests, Judged(r), NEW i \in IPs
    PROVE  /\ r \notin Passed(i)
           /\ i = ip[r] /\ stage'[r] = "body" => Passed(i)' = Passed(i) \cup {r}
           /\ i # ip[r] \/ stage'[r] = "denied" => Passed(i)' = Passed(i)
<1>1. ASSUME NEW q \in Requests \ {r} PROVE Counts(q, i)' <=> Counts(q, i)
    <2>1. ~Judged(q)
        BY DEF Judged, Places, WithLimiter
    <2> QED BY <2>1, CountsStay
<1>2. stage[r] = "limiter" /\ UNCHANGED <<ip, answer>> /\ answer[r] = None
    BY Judgement
<1>3. ~Counts(r, i)
    BY <1>2 DEF Counts
<1>4. i = ip[r] /\ stage'[r] = "body" => Counts(r, i)'
    BY <1>2 DEF Counts
<1>5. i # ip[r] \/ stage'[r] = "denied" => ~Counts(r, i)'
    BY <1>2 DEF Counts
<1> QED BY <1>1, <1>3, <1>4, <1>5 DEF Passed

\* At any time, however many requests there will be, finitely many have been made.
Arrived == {r \in Requests : stage[r] # "none"}

\* Whatever the limiter remembers has passed, and it refuses only when enough have.
Tally ==
    /\ IsFiniteSet(Arrived)
    /\ \A i \in IPs : Cardinality(times[i]) <= Cardinality(Passed(i))
    /\ \A r \in Requests :
          stage[r] = "denied" => times[ip[r]] # {} /\ Limit <= Cardinality(Passed(ip[r]))
    /\ \A r \in Requests :
          (answer[r] # None /\ answer[r].status = 429) =>
              answer[r].retry # None /\ ip[r] \in IPs /\ Limit <= Cardinality(Passed(ip[r]))

LEMMA ArrivedNext == Places /\ IsFiniteSet(Arrived) /\ [Next]_vars => IsFiniteSet(Arrived)'
<1> SUFFICES ASSUME Places, IsFiniteSet(Arrived), [Next]_vars PROVE IsFiniteSet(Arrived')
    BY DEF IsFiniteSet
<1>1. ASSUME NEW r \in Requests, \A q \in Requests \ {r} : stage'[q] = stage[q]
      PROVE  IsFiniteSet(Arrived')
    <2>1. Arrived' \subseteq Arrived \cup {r}
        BY <1>1 DEF Arrived
    <2> QED BY <2>1, FS_AddElement, FS_Subset
<1>2. CASE stage' = stage
    BY <1>2 DEF Arrived
<1>3. ASSUME NEW r \in Requests,
             Arrive(r) \/ Authorize(r) \/ AskLimiter(r) \/ Judged(r) \/ Refuse(r) \/ Parse(r)
             \/ Create(r) \/ RunHooks(r) \/ Break(r)
      PROVE  \A q \in Requests \ {r} : stage'[q] = stage[q]
    BY <1>3 DEF Arrive, Authorize, AskLimiter, Judged, Refuse, Parse, Create, RunHooks, Break,
                Pass, Respond, Places
<1> QED BY <1>1, <1>2, <1>3 DEF Next, Tick, InLimiter, vars, handler

LEMMA PassedFinite ==
    ASSUME IsFiniteSet(Arrived), NEW i \in IPs
    PROVE  IsFiniteSet(Passed(i)) /\ Cardinality(Passed(i)) \in Nat
<1>1. Passed(i) \subseteq Arrived
    BY DEF Passed, Counts, Arrived
<1> QED BY <1>1, FS_Subset, FS_CardinalityType

LEMMA PassedGrow ==
    ASSUME Places, Judging, Records, [Next]_vars, IsFiniteSet(Arrived), NEW i \in IPs
    PROVE  /\ Cardinality(Passed(i)) <= Cardinality(Passed(i)')
           /\ Cardinality(Passed(i)) \in Nat /\ Cardinality(Passed(i)') \in Nat
<1>1. IsFiniteSet(Passed(i)) /\ Cardinality(Passed(i)) \in Nat
    BY PassedFinite
<1>2. Passed(i)' = Passed(i) \/ \E r \in Requests : Passed(i)' = Passed(i) \cup {r}
    <2>1. CASE \A r \in Requests : ~Judged(r)
        BY <2>1, PassedStay
    <2>2. ASSUME NEW r \in Requests, Judged(r)
          PROVE  Passed(i)' = Passed(i) \/ Passed(i)' = Passed(i) \cup {r}
        <3>1. stage'[r] = "body" \/ stage'[r] = "denied"
            BY <2>2, Judgement
        <3> QED BY <2>2, <3>1, PassedJudged
    <2> QED BY <2>1, <2>2
<1>3. IsFiniteSet(Passed(i)') /\ Passed(i) \subseteq Passed(i)'
    BY <1>1, <1>2, FS_AddElement
<1> QED BY <1>1, <1>3, FS_Subset, FS_CardinalityType

LEMMA TimesNext ==
    ASSUME Places, Judging, Records, Tally, [Next]_vars, NEW i \in IPs
    PROVE  Cardinality(times'[i]) <= Cardinality(Passed(i)')
<1>1. /\ Cardinality(times[i]) <= Cardinality(Passed(i))
      /\ Cardinality(Passed(i)) <= Cardinality(Passed(i)')
      /\ Cardinality(Passed(i)) \in Nat /\ Cardinality(Passed(i)') \in Nat
    BY PassedGrow DEF Tally
<1>2. IsFiniteSet(times[i]) /\ Cardinality(times[i]) \in Nat
    BY FS_CardinalityType, SameWords DEF Judging, Proved!Calm, Proved!Inv, Proved!Shape
<1>3. CASE times'[i] = times[i] \/ times'[i] = {}
    BY <1>1, <1>2, <1>3, FS_EmptySet
<1>4. ASSUME NEW r \in Requests, Judged(r), i = ip[r]
      PROVE  Cardinality(times'[i]) <= Cardinality(Passed(i)')
    <2> DEFINE still == Proved!InWindow(times[i], clock)
               new == Proved!Fresh(r)
    <2>1. /\ IsFiniteSet(still) /\ Cardinality(still) \in Nat
          /\ Cardinality(still) <= Cardinality(times[i])
          /\ \/ times'[i] = still
             \/ times'[i] = still \cup {new} /\ stage'[r] = "body"
        BY <1>4, Judgement
    <2> HIDE DEF still, new
    <2>2. CASE times'[i] = still
        BY <1>1, <1>2, <2>1, <2>2
    <2>3. CASE times'[i] = still \cup {new} /\ stage'[r] = "body"
        <3>1. Cardinality(times'[i]) \in {Cardinality(still), Cardinality(still) + 1}
            BY <2>1, <2>3, FS_AddElement
        <3>2. Cardinality(Passed(i)') = Cardinality(Passed(i)) + 1
            BY <1>4, <2>3, PassedJudged, PassedFinite, FS_AddElement DEF Tally
        <3> QED BY <1>1, <1>2, <2>1, <3>1, <3>2
    <2> QED BY <2>1, <2>2, <2>3
<1>5. CASE \A r \in Requests : ~Judged(r)
    BY <1>3, <1>5, Meanwhile
<1>6. ASSUME NEW r \in Requests, Judged(r), i # ip[r] PROVE times'[i] = times[i]
    BY <1>6, Judgement
<1> QED BY <1>3, <1>4, <1>5, <1>6

LEMMA IpNext ==
    ASSUME Places, [Next]_vars, NEW r \in Requests, stage[r] # "limit"
    PROVE  ip'[r] = ip[r]
<1>1. ASSUME NEW q \in Requests, AskLimiter(q) PROVE ip'[r] = ip[r]
    BY <1>1 DEF AskLimiter, Places
<1>2. CASE Tick \/ UNCHANGED vars
    BY <1>2 DEF Tick, vars, handler
<1>3. ASSUME NEW q \in Requests,
             Arrive(q) \/ Authorize(q) \/ InLimiter(q) \/ Judged(q) \/ Refuse(q) \/ Parse(q)
             \/ Create(q) \/ RunHooks(q) \/ Break(q)
      PROVE  ip' = ip
    BY <1>3 DEF Arrive, Authorize, InLimiter, Judged, Refuse, Parse, Create, RunHooks, Break,
                handler
<1> QED BY <1>1, <1>2, <1>3 DEF Next

\* Only Refuse tells a client to come back.
LEMMA AnswerNext ==
    ASSUME Places, Judging, Records, [Next]_vars, NEW r \in Requests, ~Refuse(r),
           answer'[r] # None, answer'[r].status = 429
    PROVE  answer'[r] = answer[r]
<1>1. ASSUME NEW q \in Requests, NEW response, Respond(q, response),
             response # None => response.status # 429
      PROVE  answer'[r] = answer[r]
    <2>1. answer' = [answer EXCEPT ![q] = response]
        BY <1>1 DEF Respond
    <2> QED BY <1>1, <2>1 DEF Records, Recorded
<1>2. ASSUME NEW q \in Requests, Refuse(q) PROVE answer'[r] = answer[r]
    <2>1. q # r
        BY <1>2
    <2> QED BY <1>2, <2>1 DEF Refuse, Respond, Records, Recorded
<1>3. CASE answer' = answer
    BY <1>3
<1>4. ASSUME NEW q \in Requests, NEW status \in {400, 401, 500}, Respond(q, Error(status))
      PROVE  answer'[r] = answer[r]
    BY <1>1, <1>4, Responses
<1>5. ASSUME NEW q \in Requests, RunHooks(q) PROVE answer'[r] = answer[r]
    BY <1>1, <1>5 DEF RunHooks
<1>6. ASSUME NEW q \in Requests, Break(q) PROVE answer'[r] = answer[r]
    BY <1>1, <1>6 DEF Break
<1>7. ASSUME NEW q \in Requests, Authorize(q) \/ Parse(q) \/ Create(q)
      PROVE  answer' = answer \/ \E status \in {400, 401, 500} : Respond(q, Error(status))
    BY <1>7 DEF Authorize, Parse, Create
<1>8. ASSUME NEW q \in Requests, Arrive(q) \/ AskLimiter(q) \/ InLimiter(q) \/ Judged(q)
      PROVE  answer' = answer
    BY <1>8 DEF Arrive, AskLimiter, InLimiter, Judged, handler
<1> QED BY <1>2, <1>3, <1>4, <1>5, <1>6, <1>7, <1>8 DEF Next, Tick, vars, handler

LEMMA TallyNext == Places /\ Judging /\ Records /\ Tally /\ [Next]_vars => Tally'
<1> SUFFICES ASSUME Places, Judging, Records, Tally, [Next]_vars PROVE Tally'
    OBVIOUS
<1>1. IsFiniteSet(Arrived)' /\ \A i \in IPs : Cardinality(times'[i]) <= Cardinality(Passed(i)')
    BY ArrivedNext, TimesNext DEF Tally
<1>2. ASSUME NEW i \in IPs, Limit <= Cardinality(Passed(i)) PROVE Limit <= Cardinality(Passed(i)')
    <2>1. /\ Cardinality(Passed(i)) <= Cardinality(Passed(i)') /\ Limit \in Nat
          /\ Cardinality(Passed(i)) \in Nat /\ Cardinality(Passed(i)') \in Nat
        BY PassedGrow, RegistrationAssumption DEF Tally
    <2> QED BY <1>2, <2>1
<1>3. ASSUME NEW r \in Requests, stage'[r] = "denied"
      PROVE  times'[ip'[r]] # {} /\ Limit <= Cardinality(Passed(ip[r])') /\ ip'[r] = ip[r]
    <2>1. CASE Judged(r)
        <3> DEFINE i == ip[r]
                   still == Proved!InWindow(times[i], clock)
        <3>1. /\ i \in IPs /\ ip' = ip /\ Cardinality(still) >= Limit /\ times'[i] = still
              /\ Cardinality(still) \in Nat /\ Cardinality(still) <= Cardinality(times[i])
            BY <1>3, <2>1, Judgement
        <3> HIDE DEF still
        <3>2. Limit \in Nat \ {0}
            BY RegistrationAssumption
        <3>3. still # {}
            BY <3>1, <3>2, FS_EmptySet
        <3>4. Cardinality(still) <= Cardinality(Passed(i)') /\ Cardinality(Passed(i)') \in Nat
            BY <3>1, TimesNext, PassedGrow DEF Tally
        <3>5. Limit <= Cardinality(Passed(i)')
            BY <3>1, <3>2, <3>4
        <3> QED BY <3>1, <3>3, <3>5
    <2>2. CASE ~Judged(r)
        <3>1. stage[r] = "denied"
            <4>1. ASSUME NEW q \in Requests, NEW place \in Stages \ {"denied"},
                         stage' = [stage EXCEPT ![q] = place]
                  PROVE  stage[r] = "denied"
                BY <1>3, <4>1 DEF Places
            <4>2. CASE stage' = stage
                BY <1>3, <4>2
            <4>3. ASSUME NEW q \in Requests, Judged(q) PROVE stage[r] = "denied"
                BY <1>3, <2>2, <4>3 DEF Judged, Pass, Places
            <4>4. ASSUME NEW q \in Requests, AskLimiter(q) PROVE stage[r] = "denied"
                BY <4>1, <4>4, Moves DEF AskLimiter, Stages
            <4>5. ASSUME NEW q \in Requests,
                         Arrive(q) \/ Authorize(q) \/ Parse(q) \/ Create(q) \/ RunHooks(q)
                         \/ Break(q) \/ Refuse(q)
                  PROVE  stage[r] = "denied"
                <5>1. \E place \in Stages \ {"denied"} : stage' = [stage EXCEPT ![q] = place]
                    BY <4>5, Moves
                       DEF Arrive, Authorize, Parse, Create, RunHooks, Break, Refuse, Stages
                <5> QED BY <4>1, <5>1
            <4> QED BY <4>2, <4>3, <4>4, <4>5 DEF Next, Tick, InLimiter, vars, handler
        <3>2. \A q \in Requests : stage[q] # "limiter"
            BY <3>1 DEF Places, WithLimiter
        <3>3. times' = times
            BY <3>2, Meanwhile DEF Judged
        <3>4. ip[r] \in IPs /\ ip'[r] = ip[r]
            BY <3>1, IpNext DEF Places, Placed, WithLimiter
        <3> QED BY <1>2, <3>1, <3>3, <3>4 DEF Tally
    <2> QED BY <2>1, <2>2
<1>4. ASSUME NEW r \in Requests, answer'[r] # None, answer'[r].status = 429
      PROVE  /\ answer'[r].retry # None /\ ip'[r] \in IPs
             /\ ip'[r] = ip[r] /\ Limit <= Cardinality(Passed(ip[r])')
    <2>1. CASE Refuse(r)
        <3>1. /\ stage[r] = "denied" /\ ip[r] \in IPs /\ ip' = ip
              /\ answer'[r] = TooMany(Wait(r))
            BY <2>1 DEF Refuse, Wait, Respond, Places, Placed, WithLimiter, Records, Recorded
        <3>2. Wait(r) # 0 /\ Wait(r) \in 0..(Window + 1) /\ Wait(r) \in 1..(Window + 1)
            <4>1. Wait(r) # 0 /\ Wait(r) \in 0..(Window + 1)
                BY <2>1, <3>1, WaitTold DEF Tally
            <4> QED BY <4>1, RegistrationAssumption
        <3>3. answer'[r].retry = Wait(r) /\ Wait(r) # None
            BY <3>1, <3>2, Responses
        <3> QED BY <1>2, <3>1, <3>3 DEF Tally
    <2>2. CASE ~Refuse(r)
        <3>1. answer'[r] = answer[r] /\ stage[r] = "done"
            BY <1>4, <2>2, AnswerNext DEF Records, Known
        <3>2. ip'[r] = ip[r]
            BY <3>1, IpNext
        <3> QED BY <1>2, <1>4, <3>1, <3>2 DEF Tally
    <2> QED BY <2>1, <2>2
<1> QED BY <1>1, <1>3, <1>4 DEF Tally

LEMMA TallyInit == Init => Tally
<1> SUFFICES ASSUME Init PROVE Tally
    OBVIOUS
<1>1. Arrived = {} /\ \A i \in IPs : Passed(i) = {}
    BY DEF Init, Arrived, Passed, Counts
<1>2. \A i \in IPs : times[i] = {}
    BY SameSteps DEF Init, Proved!Init
<1>3. IsFiniteSet({}) /\ Cardinality({}) = 0
    BY FS_EmptySet
<1> QED BY <1>1, <1>2, <1>3 DEF Init, Tally

LEMMA TallyHolds == Spec => []Tally
BY PlacesInit, PlacesNext, JudgingNext, RecordsInit, RecordsNext, TallyInit, TallyNext, PTL
   DEF Spec

\* A registration that is answered 429 is told how long to wait, and was refused because
\* as many others of its IP as the limit had passed the limiter: those that the validator
\* rejected, and those refused before, are not held against it.
THEOREM RefusalsAreJust == Spec => []RefusedJustly
<1>1. Places /\ Records /\ Tally => RefusedJustly
    <2> SUFFICES ASSUME Records, Tally, NEW r \in Requests, answer[r] # None,
                        answer[r].status = 429
                 PROVE  /\ answer[r].retry # None
                        /\ Cardinality({q \in Requests \ {r} :
                              /\ ip[q] = ip[r]
                              /\ stage[q] \in {"body", "create", "hooks", "done"}
                              /\ answer[q] # None => answer[q].status \notin {401, 429}}) >= Limit
        BY DEF RefusedJustly
    <2> DEFINE others == {q \in Requests \ {r} :
                             /\ ip[q] = ip[r]
                             /\ stage[q] \in {"body", "create", "hooks", "done"}
                             /\ answer[q] # None => answer[q].status \notin {401, 429}}
    <2>1. Passed(ip[r]) = others
        BY DEF Passed, Counts
    <2>2. /\ answer[r].retry # None /\ Limit <= Cardinality(Passed(ip[r]))
          /\ Cardinality(Passed(ip[r])) \in Nat /\ Limit \in Nat
        BY PassedFinite, RegistrationAssumption DEF Tally
    <2> HIDE DEF others
    <2>3. answer[r].retry # None /\ Cardinality(others) >= Limit
        BY <2>1, <2>2
    <2> QED BY <2>3 DEF others
<1> QED BY <1>1, Invariant, TallyHolds, PTL

-----------------------------------------------------------------------------
(* The pace at which clients can be stored.                                *)

Epoch == clock \div Limiter!Span

\* Those who were let through since the last whole window began, all of them remembered.
Late(i) == {a \in admitted[i] : Proved!At(a) >= Epoch * Limiter!Span}

\* By now, a limit's worth has passed in every whole window, and the late ones since.
Paced ==
    \A i \in IPs : Cardinality(Passed(i)) <= Limit * Epoch + Cardinality(Late(i))

LEMMA Epochs ==
    ASSUME Judging
    PROVE  /\ Limiter!Span \in Nat \ {0} /\ clock \in Nat /\ Limit \in Nat \ {0}
           /\ Epoch \in Nat /\ Epoch * Limiter!Span <= clock /\ clock < (Epoch + 1) * Limiter!Span
<1>1. Limiter!Span \in Nat \ {0} /\ clock \in Nat /\ Limit \in Nat \ {0}
    BY LimiterOK, SameWords, Proved!Times, RegistrationAssumption DEF Judging
<1>2. /\ Epoch \in Int /\ Epoch * Limiter!Span <= clock
      /\ clock < (Epoch + 1) * Limiter!Span
    BY <1>1, Floor DEF Epoch
<1>3. 0 <= Epoch
    BY <1>1, FloorOnly DEF Epoch
<1> QED BY <1>1, <1>2, <1>3

LEMMA LateFinite ==
    ASSUME Judging, NEW i \in IPs
    PROVE  /\ IsFiniteSet(Late(i)) /\ Cardinality(Late(i)) \in Nat
           /\ Cardinality(Late(i)) <= Limit
           /\ Late(i) \subseteq admitted[i] /\ admitted[i] \subseteq times[i]
<1>1. IsFiniteSet(admitted[i])
    BY SameWords DEF Judging, Proved!Calm, Proved!Inv, Proved!Shape
<1>2. Cardinality(admitted[i]) <= Limit
    BY LimiterOK, SameWords, Proved!LimitHolds DEF Judging, Proved!NeverOverLimit
<1>3. Late(i) \subseteq admitted[i]
    BY DEF Late
<1>4. /\ IsFiniteSet(Late(i)) /\ Cardinality(Late(i)) <= Cardinality(admitted[i])
      /\ Cardinality(Late(i)) \in Nat /\ Cardinality(admitted[i]) \in Nat
    BY <1>1, <1>3, FS_Subset, FS_CardinalityType
<1>5. admitted[i] \subseteq times[i]
    BY DEF Judging, Proved!Counted, Proved!InWindow
<1> QED BY <1>2, <1>3, <1>4, <1>5, RegistrationAssumption

\* Who is late is in the window still, now and as long as the epoch lasts.
LEMMA LateIsInWindow ==
    ASSUME Judging, NEW i \in IPs, NEW a \in Late(i), NEW t \in Int,
           t < (Epoch + 1) * Limiter!Span
    PROVE  t - Proved!At(a) < Limiter!Span
<1> DEFINE S == Limiter!Span
<1>1. Proved!At(a) \in Nat /\ Proved!At(a) >= Epoch * S
    BY LimiterOK, Proved!Times DEF Late, Judging
<1>2. S \in Nat /\ Epoch \in Nat
    BY Epochs
<1> HIDE DEF S
<1>3. (Epoch + 1) * S = Epoch * S + S /\ Epoch * S \in Nat
    BY <1>2
<1>4. t < (Epoch + 1) * S
    BY DEF S
<1>5. t - Proved!At(a) < S
    BY <1>1, <1>2, <1>3, <1>4
<1> QED BY <1>5 DEF S

LEMMA PacedNext ==
    Places /\ Judging /\ Records /\ Tally /\ Paced /\ [Next]_vars => Paced'
<1> SUFFICES ASSUME Places, Judging, Records, Tally, Paced, [Next]_vars, NEW i \in IPs
             PROVE  Cardinality(Passed(i)') <= Limit * Epoch' + Cardinality(Late(i)')
    BY DEF Paced
<1>1. /\ Cardinality(Passed(i)) <= Limit * Epoch + Cardinality(Late(i))
      /\ Cardinality(Passed(i)) \in Nat /\ Cardinality(Late(i)) \in Nat
      /\ IsFiniteSet(Passed(i)) /\ IsFiniteSet(Late(i)) /\ Cardinality(Late(i)) <= Limit
      /\ Epoch \in Nat /\ Limit \in Nat /\ clock \in Nat
    BY PassedFinite, LateFinite, Epochs DEF Paced, Tally
<1>2. Limit * Epoch \in Nat
    BY <1>1
<1>3. ASSUME clock' = clock, admitted'[i] = admitted[i], Passed(i)' = Passed(i)
      PROVE  Cardinality(Passed(i)') <= Limit * Epoch' + Cardinality(Late(i)')
    <2>1. Epoch' = Epoch
        BY <1>3 DEF Epoch
    <2>2. Late(i)' = Late(i)
        BY <1>3, <2>1 DEF Late
    <2> QED BY <1>1, <1>3, <2>1, <2>2
<1>4. ASSUME NEW r \in Requests, Judged(r)
      PROVE  Cardinality(Passed(i)') <= Limit * Epoch' + Cardinality(Late(i)')
    <2> DEFINE new == Proved!Fresh(r)
    <2>1. CASE i # ip[r] \/ stage'[r] = "denied"
        <3>1. clock' = clock /\ admitted'[i] = admitted[i]
            BY <1>4, <2>1, Judgement
        <3> QED BY <1>3, <1>4, <2>1, <3>1, PassedJudged
    <2>2. CASE i = ip[r] /\ stage'[r] = "body"
        <3>1. /\ clock' = clock /\ Proved!At(new) = clock /\ new \notin times[i]
              /\ admitted'[i] = Proved!InWindow(admitted[i] \cup {new}, clock)
            BY <1>4, <2>2, Judgement
        <3> HIDE DEF new
        <3>2. Epoch' = Epoch /\ Epoch * Limiter!Span <= clock
              /\ clock < (Epoch + 1) * Limiter!Span
            BY <3>1, Epochs DEF Epoch
        <3>3. \A a \in Late(i) : clock - Proved!At(a) < Limiter!Span
            BY <1>1, <3>2, LateIsInWindow
        <3>4. Limiter!Span \in Nat \ {0} /\ Proved!Span = Limiter!Span
            BY Epochs, SameWords
        <3>5. Epoch * Limiter!Span \in Nat
            BY <1>1, <3>4
        <3>6. clock - Proved!At(new) < Proved!Span /\ Proved!At(new) >= Epoch * Limiter!Span
            BY <1>1, <3>1, <3>2, <3>4, <3>5
        <3>7. Late(i)' = {a \in admitted'[i] : Proved!At(a) >= Epoch * Limiter!Span}
            BY <3>2 DEF Late, Proved!At
        <3>8. Late(i)' = Late(i) \cup {new}
            <4>1. ASSUME NEW a PROVE a \in Late(i)' <=> a \in Late(i) \cup {new}
                BY <3>1, <3>3, <3>4, <3>6, <3>7 DEF Late, Proved!InWindow
            <4> QED BY <4>1
        <3>9. new \notin Late(i)
            BY <3>1, LateFinite
        <3>10. Cardinality(Late(i)') = Cardinality(Late(i)) + 1
            BY <1>1, <3>8, <3>9, FS_AddElement
        <3>11. Cardinality(Passed(i)') = Cardinality(Passed(i)) + 1
            BY <1>1, <1>4, <2>2, PassedJudged, FS_AddElement
        <3> QED BY <1>1, <1>2, <3>2, <3>10, <3>11
    <2>3. stage'[r] = "denied" \/ stage'[r] = "body"
        BY <1>4, Judgement
    <2> QED BY <2>1, <2>2, <2>3
<1>5. ASSUME clock' = clock + 1, Passed(i)' = Passed(i),
             admitted' = [j \in IPs |-> Proved!InWindow(admitted[j], clock')]
      PROVE  Cardinality(Passed(i)') <= Limit * Epoch' + Cardinality(Late(i)')
    <2> DEFINE S == Limiter!Span
               then == Epoch'
    <2>1. /\ S \in Nat \ {0} /\ Epoch * S <= clock /\ clock < (Epoch + 1) * S
        BY Epochs
    <2>2. then = (clock + 1) \div S
        BY <1>5 DEF Epoch
    <2> HIDE DEF S, then
    <2>3. then \in Int /\ Epoch <= then /\ clock + 1 < (then + 1) * S
        <3>1. clock + 1 \in Int /\ Epoch * S <= clock + 1
            BY <1>1, <2>1
        <3> QED BY <1>1, <2>1, <2>2, <3>1, Floor, FloorOnly
    <2>4. Judging'
        BY JudgingNext
    <2>5. Cardinality(Late(i)') \in Nat
        <3>1. IsFiniteSet(admitted'[i])
            BY <2>4, SameWords DEF Judging, Proved!Calm, Proved!Inv, Proved!Shape
        <3>2. Late(i)' \subseteq admitted'[i]
            BY DEF Late
        <3> QED BY <3>1, <3>2, FS_Subset, FS_CardinalityType
    <2>6. CASE then = Epoch
        <3>1. \A a \in Late(i) : clock' - Proved!At(a) < Limiter!Span
            BY <1>1, <1>5, <2>3, <2>6, LateIsInWindow DEF S
        <3>2. Late(i)' = {a \in admitted'[i] : Proved!At(a) >= Epoch * Limiter!Span}
            BY <2>6 DEF Late, Proved!At, then
        <3>3. Late(i)' = Late(i)
            <4>1. ASSUME NEW a PROVE a \in Late(i)' <=> a \in Late(i)
                BY <1>5, <3>1, <3>2, SameWords DEF Late, Proved!InWindow
            <4> QED BY <4>1
        <3> QED BY <1>1, <1>5, <2>6, <3>3 DEF then
    <2>7. CASE Epoch + 1 <= then
        <3>1. (Epoch + 1) * Limit <= then * Limit /\ then * Limit \in Int
            BY <1>1, <2>3, <2>7, Product
        <3>2. Limit * then = then * Limit /\ (Epoch + 1) * Limit = Limit * Epoch + Limit
            BY <1>1, <2>3
        <3>3. Cardinality(Passed(i)') <= Limit * then + Cardinality(Late(i)')
            BY <1>1, <1>2, <1>5, <2>5, <3>1, <3>2
        <3> QED BY <3>3 DEF then
    <2> QED BY <1>1, <2>3, <2>6, <2>7
<1>6. CASE \A r \in Requests : ~Judged(r)
    <2>1. Passed(i)' = Passed(i)
        BY <1>6, PassedStay
    <2>2. \/ UNCHANGED <<clock, admitted>>
          \/ /\ clock' = clock + 1
             /\ admitted' = [j \in IPs |-> Proved!InWindow(admitted[j], clock')]
        BY <1>6, Meanwhile
    <2> QED BY <1>3, <1>5, <2>1, <2>2
<1> QED BY <1>4, <1>6

LEMMA PacedInit == Init => Paced
<1> SUFFICES ASSUME Init, NEW i \in IPs
             PROVE  Cardinality(Passed(i)) <= Limit * Epoch + Cardinality(Late(i))
    BY DEF Paced
<1>1. Passed(i) = {} /\ Judging
    BY PlacesInit DEF Init, Passed, Counts
<1>2. Epoch \in Nat /\ Limit \in Nat /\ Cardinality(Late(i)) \in Nat
    BY <1>1, Epochs, LateFinite
<1>3. Limit * Epoch \in Nat
    BY <1>2
<1> QED BY <1>1, <1>2, <1>3, FS_EmptySet

\* A client that is stored was asked for by a request that passed, and each by its own.
LEMMA StoredHavePassed ==
    ASSUME Places, Records, IsFiniteSet(Arrived), NEW i \in IPs
    PROVE  /\ Cardinality({c \in clients : ip[c.by] = i}) <= Cardinality(Passed(i))
           /\ Cardinality({c \in clients : ip[c.by] = i}) \in Nat
<1> DEFINE S == {c \in clients : ip[c.by] = i}
           f == [c \in S |-> c.by]
<1>1. ASSUME NEW c \in S PROVE c.by \in Passed(i)
    <2>1. c.by \in Requests /\ c \in Stored(c.by) /\ ip[c.by] = i
        BY DEF Records, Recorded, Clients, Stored
    <2>2. Known(c.by) /\ stage[c.by] \in Stages /\ Stored(c.by) # {}
        BY <2>1 DEF Records, Places
    <2>3. stage[c.by] \in {"body", "create", "hooks", "done"}
        BY <2>2 DEF Known, Unstored, Stages
    <2>4. answer[c.by] # None => answer[c.by].status \notin {401, 429}
        BY <2>2 DEF Known, Tells
    <2> QED BY <2>1, <2>3, <2>4 DEF Passed, Counts
<1>2. f \in [S -> Passed(i)]
    BY <1>1
<1>3. \A c, d \in S : f[c] = f[d] => c = d
    BY DEF Records, Recorded
<1>4. f \in Injection(S, Passed(i))
    BY <1>2, <1>3 DEF Injection, IsInjective
<1>5. IsFiniteSet(Passed(i))
    BY PassedFinite
<1> HIDE DEF S, f
<1>6. Cardinality(S) <= Cardinality(Passed(i)) /\ Cardinality(S) \in Nat
    BY <1>4, <1>5, FS_Injection, FS_CardinalityType
<1> QED BY <1>6 DEF S

\* However many registrations an IP asks for, no more clients of it are stored than the
\* limit for each window begun, though the limiter is asked several awaits before.
THEOREM ClientsAreFew == Spec => []ClientsPaced
<1>1. Places /\ Judging /\ Records /\ Tally /\ Paced => ClientsPaced
    <2> SUFFICES ASSUME Places, Judging, Records, Tally, Paced, NEW i \in IPs
                 PROVE  Cardinality({c \in clients : ip[c.by] = i})
                            <= Limit * (clock \div Limiter!Span + 1)
        BY DEF ClientsPaced
    <2> DEFINE stored == Cardinality({c \in clients : ip[c.by] = i})
    <2>1. stored <= Cardinality(Passed(i)) /\ Cardinality(Passed(i)) \in Nat /\ stored \in Nat
        BY StoredHavePassed, PassedFinite DEF Tally
    <2>2. /\ Cardinality(Passed(i)) <= Limit * Epoch + Cardinality(Late(i))
          /\ Cardinality(Late(i)) \in Nat /\ Cardinality(Late(i)) <= Limit
          /\ Epoch \in Nat /\ Limit \in Nat
        BY LateFinite, Epochs DEF Paced
    <2>3. Limit * (Epoch + 1) = Limit * Epoch + Limit /\ Limit * Epoch \in Nat
        BY <2>2
    <2> HIDE DEF stored
    <2>4. stored <= Limit * (Epoch + 1)
        BY <2>1, <2>2, <2>3
    <2> QED BY <2>4 DEF stored, Epoch
<1> QED BY <1>1, Invariant, TallyHolds, PacedInit, PacedNext, PTL DEF Spec
=============================================================================
