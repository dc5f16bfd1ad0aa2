------------------- MODULE JWTClientAuthenticator_proofs -------------------
(***************************************************************************)
(* Proofs about JWTClientAuthenticator, for any assertions, any number of  *)
(* callers, and any skew, lifetime and interval.                           *)
(***************************************************************************)
EXTENDS JWTClientAuthenticator, TLAPS

-----------------------------------------------------------------------------
(* Types, and what each place in a call says of its locals.                *)

\* The key was published for the assertion's kid and alg.
Published(material, a) ==
    \E jwks \in KeySets : \E i \in Candidates(jwks, a) : jwks[i].material = material

CallShape ==
    \A c \in Callers :
        /\ pc[c] \notin Resting => asrt[c] \in Assertions
        /\ now[c] <= clock
        /\ pc[c] = "sweep" => ~env.redis
        /\ pc[c] = "verify" => /\ asrt[c].alg \in ALLOWED_JWT_ALGORITHMS
                               /\ Published(key[c], asrt[c])
        /\ pc[c] \in {"sweep", "record"} => Genuine(asrt[c])

Inv == TypeOK /\ CallShape

\* A deadline is a time.
LEMMA DeadlineType ==
    ASSUME NEW a \in Assertions, NEW read \in Int, env.redis \in BOOLEAN, clock \in Int
    PROVE  Deadline(a, read) \in Int
<1>1. a.exp \in Int /\ MaxTTL \in Int /\ Skew \in Int
    BY AssertionAssumption, TimeAssumption DEF MaxTTL
<1> QED BY <1>1 DEF Deadline, Lesser, Greater

LEMMA InvInit == Init => Inv
BY TimeAssumption DEF Init, Inv, TypeOK, CallShape, PCs, Resting

\* What a call learns from the provider's answer.
LEMMA FetchedStep ==
    ASSUME NEW c \in Callers, NEW jwks \in KeySets, Fetched(c, jwks)
    PROVE  \/ End(c, "refused")
           \/ /\ Goto(c, "verify") /\ ReadClock(c) /\ asrt' = asrt
              /\ asrt[c].alg \in ALLOWED_JWT_ALGORITHMS
              /\ \E m \in Materials : /\ Published(m, asrt[c])
                                      /\ key' = [key EXCEPT ![c] = m]
<1>1. CASE ~(asrt[c].alg \in ALLOWED_JWT_ALGORITHMS /\ Candidates(jwks, asrt[c]) # {})
    BY <1>1 DEF Fetched
<1>2. CASE asrt[c].alg \in ALLOWED_JWT_ALGORITHMS /\ Candidates(jwks, asrt[c]) # {}
    <2>1. PICK i \in Candidates(jwks, asrt[c]) : key' = [key EXCEPT ![c] = jwks[i].material]
        BY <1>2 DEF Fetched
    <2>2. jwks[i].material \in Materials /\ Published(jwks[i].material, asrt[c])
        BY <2>1 DEF Materials, Published, Candidates
    <2> QED BY <1>2, <2>1, <2>2 DEF Fetched
<1> QED BY <1>1, <1>2

LEMMA InvNext == Inv /\ [Next]_vars => Inv'
<1> SUFFICES ASSUME Inv, [Next]_vars PROVE Inv'
    OBVIOUS
<1> USE DEF Inv, TypeOK, CallShape, PCs, Resting, Working, Answered
<1> USE AssertionAssumption, TimeAssumption
<1>1. CASE Restart
    BY <1>1 DEF Restart
<1>2. CASE Tick
    BY <1>2 DEF Tick, local, cache
<1>3. ASSUME NEW c \in Callers, NEW a \in Assertions, Present(c, a) PROVE Inv'
    BY <1>3 DEF Present, Goto, cache
<1>4. ASSUME NEW c \in Callers, NEW jwks \in KeySets, Fetched(c, jwks) PROVE Inv'
    <2>1. pc[c] = "fetch" /\ UNCHANGED <<env, clock, cache>>
        BY <1>4 DEF Fetched
    <2>2. CASE End(c, "refused")
        BY <2>1, <2>2 DEF End, Goto, cache
    <2>3. ASSUME NEW m \in Materials, Published(m, asrt[c]), key' = [key EXCEPT ![c] = m],
                 asrt[c].alg \in ALLOWED_JWT_ALGORITHMS,
                 Goto(c, "verify"), ReadClock(c), asrt' = asrt
          PROVE  Inv'
        BY <2>1, <2>3 DEF Goto, ReadClock, cache
    <2> QED BY <1>4, <2>2, <2>3, FetchedStep
<1>5. ASSUME NEW c \in Callers, NoKeys(c) PROVE Inv'
    BY <1>5 DEF NoKeys, End, Goto, cache
<1>6. ASSUME NEW c \in Callers, Verify(c) PROVE Inv'
    <2>1. CASE asrt[c].claims /\ asrt[c].signer = key[c] /\ InTime(asrt[c], clock, now[c])
        <3>1. Genuine(asrt[c])
            BY <1>6, <2>1 DEF Verify, Genuine, Published
        <3> QED BY <1>6, <2>1, <3>1 DEF Verify, Goto, ReadClock, cache
    <2>2. CASE ~(asrt[c].claims /\ asrt[c].signer = key[c] /\ InTime(asrt[c], clock, now[c]))
        BY <1>6, <2>2 DEF Verify, End, Goto, cache
    <2> QED BY <2>1, <2>2
<1>7. ASSUME NEW c \in Callers, Sweep(c) PROVE Inv'
    BY <1>7 DEF Sweep, Goto, ReadClock
<1>8. ASSUME NEW c \in Callers, Record(c) PROVE Inv'
    <2>a. asrt[c] \in Assertions /\ now[c] \in Int /\ clock \in Int /\ env.redis \in BOOLEAN
        BY <1>8 DEF Record
    <2>1. Deadline(asrt[c], now[c]) \in Int
        BY <2>a, DeadlineType
    <2>2. used' \in [Jtis -> Int \cup {NoEntry}] /\ count' \in [Assertions -> Nat]
              /\ last' \in [Assertions -> 0..MaxClock]
        BY <1>8, <2>a, <2>1 DEF Record
    <2>3. CASE env.redis
        BY <1>8, <2>2, <2>3 DEF Record, Goto
    <2>4. CASE ~env.redis
        BY <1>8, <2>2, <2>4 DEF Record, End, Goto
    <2> QED BY <2>3, <2>4
<1>9. ASSUME NEW c \in Callers, Reply(c) PROVE Inv'
    BY <1>9 DEF Reply, End, Goto, cache
<1>10. ASSUME NEW c \in Callers, Fail(c) PROVE Inv'
    BY <1>10 DEF Fail, End, Goto, cache
<1>11. CASE UNCHANGED vars
    BY <1>11 DEF vars, cache, local
<1> QED
    BY <1>1, <1>2, <1>3, <1>4, <1>5, <1>6, <1>7, <1>8, <1>9, <1>10, <1>11 DEF Next

LEMMA InvHolds == Spec => []Inv
BY InvInit, InvNext, PTL DEF Spec

\* Every variable keeps to its type.
THEOREM TypeCorrect == Spec => []TypeOK
<1>1. Inv => TypeOK
    BY DEF Inv
<1> QED BY <1>1, InvHolds, PTL

\* Whoever names the key it signed with is judged by that key, if it is published.
THEOREM NamedKeysAreFound == Spec => NamedKeyIsFound
<1>1. ASSUME Inv, NEW c \in Callers, NEW jwks \in KeySets, Fetched(c, jwks),
             asrt[c].alg \in ALLOWED_JWT_ALGORITHMS, asrt[c].kid # None,
             NEW i \in Candidates(jwks, asrt[c]), jwks[i].material = asrt[c].signer
      PROVE  key'[c] = asrt[c].signer
    <2>1. PICK j \in Candidates(jwks, asrt[c]) : key' = [key EXCEPT ![c] = jwks[j].material]
        BY <1>1 DEF Fetched
    <2>2. jwks[j].material = jwks[i].material
        BY <1>1, <2>1, KidAssumption DEF Candidates, KeyMatches
    <2> QED BY <1>1, <2>1, <2>2 DEF Inv, TypeOK
<1>2. Inv /\ [Next]_vars =>
          [\A c \in Callers, jwks \in KeySets :
              (/\ Fetched(c, jwks)
               /\ asrt[c].alg \in ALLOWED_JWT_ALGORITHMS /\ asrt[c].kid # None
               /\ \E i \in Candidates(jwks, asrt[c]) : jwks[i].material = asrt[c].signer) =>
                  key'[c] = asrt[c].signer]_vars
    BY <1>1
<1> QED BY <1>2, InvHolds, PTL DEF Spec, NamedKeyIsFound

-----------------------------------------------------------------------------
(* Entries of the cache.  What Next does to the cache is done by Record,   *)
(* Sweep, Restart or nobody.                                               *)

LEMMA CacheSteps ==
    ASSUME [Next]_vars
    PROVE  \/ \E c \in Callers : Record(c)
           \/ \E c \in Callers : Sweep(c)
           \/ Restart
           \/ UNCHANGED <<env, cache>> /\ (clock' = clock \/ Tick)
BY DEF Next, vars, Present, Fetched, NoKeys, Verify, Reply, Fail, Tick, cache

\* An entry is there because a genuine assertion with its jti was recorded.
Witnessed ==
    \A j \in Jtis :
        used[j] # NoEntry =>
            \E a \in Assertions : a.jti = j /\ Genuine(a) /\ count[a] >= 1

LEMMA WitnessedNext == Inv /\ Witnessed /\ [Next]_vars => Witnessed'
<1> SUFFICES ASSUME Inv, Witnessed, [Next]_vars PROVE Witnessed'
    OBVIOUS
<1>1. ASSUME NEW c \in Callers, Record(c) PROVE Witnessed'
    <2>1. asrt[c] \in Assertions /\ Genuine(asrt[c])
        BY <1>1 DEF Record, Inv, CallShape, Resting
    <2>2. \A a \in Assertions : /\ count[a] \in Nat /\ count'[a] \in Nat
                               /\ count'[a] >= count[a]
        BY <1>1, <2>1 DEF Record, Inv, TypeOK
    <2>3. CASE Seen(asrt[c].jti)
        BY <1>1, <2>3 DEF Record, Witnessed
    <2>4. CASE ~Seen(asrt[c].jti)
        <3>1. used' = [used EXCEPT ![asrt[c].jti] = Deadline(asrt[c], now[c])]
                  /\ count'[asrt[c]] >= 1
            BY <1>1, <2>1, <2>4 DEF Record, Inv, TypeOK
        <3>2. SUFFICES ASSUME NEW j \in Jtis, used'[j] # NoEntry
                       PROVE  \E a \in Assertions : a.jti = j /\ Genuine(a) /\ count'[a] >= 1
            BY DEF Witnessed
        <3>3. CASE j = asrt[c].jti
            <4>1. asrt[c].jti = j /\ Genuine(asrt[c]) /\ count'[asrt[c]] >= 1
                BY <2>1, <3>1, <3>3
            <4> asrt[c] \in Assertions
                BY <2>1
            <4> WITNESS asrt[c] \in Assertions
            <4> QED BY <4>1
        <3>4. CASE j # asrt[c].jti
            <4>1. used[j] # NoEntry
                BY <3>1, <3>2, <3>4 DEF Inv, TypeOK
            <4>2. PICK a \in Assertions : a.jti = j /\ Genuine(a) /\ count[a] >= 1
                BY <4>1 DEF Witnessed
            <4>3. a.jti = j /\ Genuine(a) /\ count'[a] >= 1
                BY <2>2, <4>2
            <4> WITNESS a \in Assertions
            <4> QED BY <4>3
        <3> QED BY <3>3, <3>4
    <2> QED BY <2>3, <2>4
<1>2. ASSUME NEW c \in Callers, Sweep(c) PROVE Witnessed'
    BY <1>2 DEF Sweep, Witnessed, Inv, TypeOK
<1>3. CASE Restart
    BY <1>3 DEF Restart, Witnessed
<1>4. CASE UNCHANGED <<env, cache>>
    BY <1>4 DEF cache, Witnessed
<1> QED BY <1>1, <1>2, <1>3, <1>4, CacheSteps

\* No call is turned away as a replay on account of an assertion that failed a check.
THEOREM ReplayVerdictsAreJustified == Spec => ReplayVerdictJustified
<1>1. Init => Witnessed
    BY DEF Init, Witnessed
<1>2. Inv /\ Witnessed /\ [Next]_vars =>
          [\A c \in Callers :
              (Record(c) /\ Seen(asrt[c].jti)) =>
                  \E a \in Assertions :
                      a.jti = asrt[c].jti /\ Genuine(a) /\ count[a] >= 1]_vars
    <2> SUFFICES ASSUME Inv, Witnessed, NEW c \in Callers, Record(c), Seen(asrt[c].jti)
                 PROVE  \E a \in Assertions :
                            a.jti = asrt[c].jti /\ Genuine(a) /\ count[a] >= 1
        OBVIOUS
    <2>1. asrt[c] \in Assertions /\ asrt[c].jti \in Jtis
        BY DEF Record, Inv, CallShape, Resting, Jtis
    <2> QED BY <2>1 DEF Seen, Witnessed
<1> QED BY <1>1, <1>2, WitnessedNext, InvHolds, PTL DEF Spec, ReplayVerdictJustified

-----------------------------------------------------------------------------
(* An assertion that was used stays covered: by its entry, or by the time. *)

Passed(a) == clock > a.exp \/ clock > last[a] + MaxTTL

Covered ==
    \A a \in Assertions :
        count[a] >= 1 =>
            \/ Passed(a)
            \/ /\ used[a.jti] # NoEntry
               /\ used[a.jti] >= Lesser(a.exp, last[a] + MaxTTL)

\* The new entry covers its assertion for as long as Covered asks.
LEMMA DeadlineCovers ==
    ASSUME NEW a \in Assertions, NEW read \in Int, clock \in Int, read <= clock,
           env.redis \in BOOLEAN
    PROVE  Deadline(a, read) >= Lesser(a.exp, read + MaxTTL)
<1>1. a.exp \in Int /\ MaxTTL \in Int /\ Skew \in Nat
    BY AssertionAssumption, TimeAssumption DEF MaxTTL
<1> QED BY <1>1 DEF Deadline, Lesser, Greater

\* Whoever finds no entry for the jti of a used assertion comes late.
LEMMA UnseenIsPassed ==
    ASSUME Inv, Covered, NEW a \in Assertions, count[a] >= 1, ~Seen(a.jti)
    PROVE  Passed(a)
<1>1. a.exp \in Int /\ MaxTTL \in Int /\ clock \in Int /\ last[a] \in Int
    BY AssertionAssumption, TimeAssumption DEF MaxTTL, Inv, TypeOK
<1>2. a.jti \in Jtis
    BY DEF Jtis
<1>3. used[a.jti] # NoEntry => used[a.jti] \in Int
    BY <1>2 DEF Inv, TypeOK
<1>4. CASE used[a.jti] = NoEntry
    BY <1>4 DEF Covered
<1>5. CASE used[a.jti] # NoEntry /\ clock > used[a.jti]
    <2>1. Passed(a) \/ used[a.jti] >= Lesser(a.exp, last[a] + MaxTTL)
        BY DEF Covered
    <2> QED BY <1>1, <1>3, <1>5, <2>1 DEF Lesser, Passed
<1>6. used[a.jti] = NoEntry \/ (used[a.jti] # NoEntry /\ clock > used[a.jti])
    BY <1>1, <1>3 DEF Seen
<1> QED BY <1>4, <1>5, <1>6

LEMMA CoveredNext == Inv /\ Covered /\ [Next]_vars => Covered'
<1> SUFFICES ASSUME Inv, Covered, [Next]_vars, NEW a \in Assertions, (count[a] >= 1)'
             PROVE  (\/ Passed(a)
                     \/ /\ used[a.jti] # NoEntry
                        /\ used[a.jti] >= Lesser(a.exp, last[a] + MaxTTL))'
    BY DEF Covered
<1> DEFINE Entry == /\ used[a.jti] # NoEntry
                    /\ used[a.jti] >= Lesser(a.exp, last[a] + MaxTTL)
<1>0. /\ a.exp \in Int /\ MaxTTL \in Int /\ clock \in Int /\ last[a] \in Int
      /\ a.jti \in Jtis /\ used \in [Jtis -> Int \cup {NoEntry}]
      /\ count \in [Assertions -> Nat] /\ last \in [Assertions -> 0..MaxClock]
    BY AssertionAssumption, TimeAssumption DEF MaxTTL, Inv, TypeOK, Jtis
<1>1. count[a] >= 1 => Passed(a) \/ Entry
    BY DEF Covered
<1>2. ASSUME NEW c \in Callers, Record(c) PROVE (Passed(a) \/ Entry)'
    <2>1. /\ asrt[c] \in Assertions /\ now[c] \in Int /\ now[c] <= clock
          /\ env.redis \in BOOLEAN /\ clock' = clock
        BY <1>2, TimeAssumption DEF Record, Inv, TypeOK, CallShape, Resting
    <2>2. CASE Seen(asrt[c].jti)
        BY <1>0, <1>1, <1>2, <2>1, <2>2 DEF Record, Passed
    <2>3. CASE ~Seen(asrt[c].jti) /\ a = asrt[c]
        <3>1. /\ used'[a.jti] = Deadline(a, now[c])
              /\ last'[a] = now[c]
            BY <1>0, <1>2, <2>3 DEF Record
        <3>2. Deadline(a, now[c]) >= Lesser(a.exp, now[c] + MaxTTL)
            BY <1>0, <2>1, DeadlineCovers
        <3>3. Deadline(a, now[c]) \in Int
            BY <1>0, <2>1, DeadlineType
        <3> QED BY <3>1, <3>2, <3>3, TimeAssumption
    <2>4. CASE ~Seen(asrt[c].jti) /\ a # asrt[c]
        <3>1. count[a] >= 1 /\ last'[a] = last[a]
            BY <1>0, <1>2, <2>1, <2>4 DEF Record
        <3>2. CASE a.jti = asrt[c].jti
            BY <2>1, <2>4, <3>1, <3>2, UnseenIsPassed DEF Passed
        <3>3. CASE a.jti # asrt[c].jti
            <4>1. used'[a.jti] = used[a.jti]
                BY <1>0, <1>2, <2>4, <3>3 DEF Record
            <4> QED BY <1>1, <2>1, <3>1, <4>1 DEF Passed
        <3> QED BY <3>2, <3>3
    <2> QED BY <2>2, <2>3, <2>4
<1>3. ASSUME NEW c \in Callers, Sweep(c) PROVE (Passed(a) \/ Entry)'
    <2>1. /\ now[c] \in Int /\ now[c] <= clock /\ clock' = clock
          /\ count' = count /\ last' = last
        BY <1>3, TimeAssumption DEF Sweep, Inv, TypeOK, CallShape
    <2>2. CASE used' = used
        BY <1>1, <2>1, <2>2 DEF Passed
    <2>3. CASE used' # used
        <3>1. used' = [j \in Jtis |-> IF used[j] # NoEntry /\ now[c] > used[j]
                                      THEN NoEntry ELSE used[j]]
            BY <1>3, <2>3 DEF Sweep
        <3>2. CASE used[a.jti] # NoEntry /\ now[c] > used[a.jti]
            BY <1>0, <1>1, <2>1, <3>2 DEF Passed, Lesser
        <3>3. CASE ~(used[a.jti] # NoEntry /\ now[c] > used[a.jti])
            <4>1. used'[a.jti] = used[a.jti]
                BY <1>0, <3>1, <3>3
            <4> QED BY <1>1, <2>1, <4>1 DEF Passed
        <3> QED BY <3>2, <3>3
    <2> QED BY <2>2, <2>3
<1>4. CASE Restart
    BY <1>0, <1>1, <1>4 DEF Restart, Passed
<1>5. CASE UNCHANGED <<env, cache>> /\ (clock' = clock \/ Tick)
    BY <1>0, <1>1, <1>5 DEF cache, Tick, Passed
<1> QED BY <1>2, <1>3, <1>4, <1>5, CacheSteps

\* In every deployment an assertion is used again only after its exp, or after the
\* longest life of an entry.
THEOREM UsesAreUniqueWhileValid == Spec => UniqueWhileValid
<1>1. Init => Covered
    BY DEF Init, Covered
<1>2. Inv /\ Covered /\ [Next]_vars =>
          [\A a \in Assertions :
              (count[a] >= 1 /\ count'[a] > count[a]) =>
                  clock > a.exp \/ clock > last[a] + MaxTTL]_vars
    <2> SUFFICES ASSUME Inv, Covered, [Next]_vars, NEW a \in Assertions,
                        count[a] >= 1, count'[a] > count[a]
                 PROVE  Passed(a)
        BY DEF Passed
    <2>1. count \in [Assertions -> Nat]
        BY DEF Inv, TypeOK
    <2>2. ASSUME NEW c \in Callers, Record(c) PROVE Passed(a)
        <3>1. asrt[c] = a /\ ~Seen(asrt[c].jti)
            BY <2>1, <2>2 DEF Record
        <3> QED BY <3>1, UnseenIsPassed
    <2>3. ASSUME NEW c \in Callers, Sweep(c) PROVE FALSE
        BY <2>1, <2>3 DEF Sweep
    <2>4. CASE Restart
        BY <2>1, <2>4 DEF Restart
    <2>5. CASE UNCHANGED <<env, cache>>
        BY <2>1, <2>5 DEF cache
    <2> QED BY <2>2, <2>3, <2>4, <2>5, CacheSteps
<1> QED BY <1>1, <1>2, CoveredNext, InvHolds, PTL DEF Spec, UniqueWhileValid

-----------------------------------------------------------------------------
(* At most one use, where the deployment allows that to be promised.       *)

Strict == env.redis /\ env.prompt /\ env.synced

\* A call at work has read the present time, and one about to record an assertion
\* has found it in its window.
OnTime ==
    Strict =>
        \A c \in Callers :
            /\ pc[c] \in Working => now[c] = clock
            /\ pc[c] \in {"fetch"} \cup Working => asrt[c].iat <= clock
            /\ pc[c] = "record" => /\ clock < asrt[c].exp + Skew
                                   /\ clock <= asrt[c].iat + MaxTTL

LEMMA OnTimeNext == Inv /\ OnTime /\ [Next]_vars => OnTime'
<1> SUFFICES ASSUME Inv, OnTime, [Next]_vars, Strict', NEW d \in Callers
             PROVE  (/\ pc[d] \in Working => now[d] = clock
                     /\ pc[d] \in {"fetch"} \cup Working => asrt[d].iat <= clock
                     /\ pc[d] = "record" => /\ clock < asrt[d].exp + Skew
                                            /\ clock <= asrt[d].iat + MaxTTL)'
    BY DEF OnTime
<1>0. env' = env
    BY DEF Next, vars, Restart, Tick, Present, Fetched, NoKeys, Verify, Sweep, Record, Reply, Fail
<1>a. Strict
    BY <1>0 DEF Strict
<1>b. /\ pc[d] \in Working => now[d] = clock
      /\ pc[d] \in {"fetch"} \cup Working => asrt[d].iat <= clock
      /\ pc[d] = "record" => /\ clock < asrt[d].exp + Skew
                             /\ clock <= asrt[d].iat + MaxTTL
    BY <1>a DEF OnTime
<1>c. /\ clock \in Int /\ MaxTTL \in Int /\ Skew \in Int
      /\ pc \in [Callers -> PCs] /\ now \in [Callers -> 0..MaxClock]
      /\ asrt \in [Callers -> Assertions \cup {NoAssertion}]
    BY TimeAssumption DEF MaxTTL, Inv, TypeOK
<1>d. pc[d] \notin Resting => /\ asrt[d] \in Assertions
                              /\ asrt[d].iat \in Int /\ asrt[d].exp \in Int
    BY AssertionAssumption DEF Inv, CallShape
<1> USE <1>a, <1>b, <1>c, <1>d DEF Working, Resting, Answered
<1>1. CASE Restart
    BY <1>1 DEF Restart
<1>2. CASE Tick
    BY <1>2 DEF Tick, local, Strict
<1>3. ASSUME NEW c \in Callers, NEW a \in Assertions, Present(c, a)
      PROVE  a.iat <= clock /\ clock' = clock /\ now' = now
             /\ pc' = [pc EXCEPT ![c] = "fetch"] /\ asrt' = [asrt EXCEPT ![c] = a]
    BY <1>3 DEF Present, Goto, Strict
<1>4. ASSUME NEW c \in Callers, NEW jwks \in KeySets, Fetched(c, jwks)
      PROVE  \/ clock' = clock /\ \E v \in Resting : End(c, v)
             \/ /\ clock' = clock /\ asrt' = asrt
                /\ pc[c] = "fetch" /\ pc' = [pc EXCEPT ![c] = "verify"]
                /\ now' = [now EXCEPT ![c] = clock]
    BY <1>4 DEF Fetched, Goto, ReadClock
<1>5. ASSUME NEW c \in Callers, NoKeys(c) \/ Reply(c) \/ Fail(c)
      PROVE  /\ clock' = clock
             /\ \E v \in Resting : End(c, v)
    BY <1>5 DEF NoKeys, Reply, Fail
<1>6. ASSUME NEW c \in Callers, \E v \in Resting : End(c, v), clock' = clock
      PROVE  (/\ pc[d] \in Working => now[d] = clock
              /\ pc[d] \in {"fetch"} \cup Working => asrt[d].iat <= clock
              /\ pc[d] = "record" => /\ clock < asrt[d].exp + Skew
                                     /\ clock <= asrt[d].iat + MaxTTL)'
    BY <1>6 DEF End, Goto
<1>7. ASSUME NEW c \in Callers, Verify(c)
      PROVE  \/ clock' = clock /\ \E v \in Resting : End(c, v)
             \/ /\ clock' = clock /\ asrt' = asrt /\ pc[c] = "verify"
                /\ pc' = [pc EXCEPT ![c] = "record"] /\ now' = [now EXCEPT ![c] = clock]
                /\ clock < asrt[c].exp + Skew /\ now[c] - asrt[c].iat <= MaxTTL
    BY <1>7 DEF Verify, Goto, ReadClock, InTime, Strict
<1>8. ASSUME NEW c \in Callers, Sweep(c) PROVE FALSE
    BY <1>8 DEF Sweep, Inv, CallShape, Strict
<1>9. ASSUME NEW c \in Callers, Record(c)
      PROVE  /\ clock' = clock /\ asrt' = asrt /\ now' = now
             /\ \E v \in Answered : pc' = [pc EXCEPT ![c] = v]
    BY <1>9 DEF Record, Goto, Strict
<1>10. CASE UNCHANGED vars
    BY <1>10 DEF vars, local
<1> QED
    BY <1>1, <1>2, <1>3, <1>4, <1>5, <1>6, <1>7, <1>8, <1>9, <1>10 DEF Next

\* The assertion is out of its window for good.
Closed(a) == clock >= a.exp + Skew \/ clock > a.iat + MaxTTL

Spent ==
    Strict =>
        \A a \in Assertions :
            count[a] >= 1 =>
                /\ count[a] = 1
                /\ \/ Closed(a)
                   \/ /\ used[a.jti] # NoEntry
                      /\ used[a.jti] >= Lesser(a.exp + Skew, a.iat + MaxTTL)

LEMMA KeyOutlivesWindow ==
    ASSUME NEW a \in Assertions, env.redis, clock \in Int, a.iat <= clock
    PROVE  Deadline(a, clock) >= Lesser(a.exp + Skew, a.iat + MaxTTL)
<1>1. a.exp \in Int /\ a.iat \in Int /\ MaxTTL \in Int /\ Skew \in Nat
    BY AssertionAssumption, TimeAssumption DEF MaxTTL
<1> QED BY <1>1 DEF Deadline, Lesser, Greater

LEMMA UnseenIsClosed ==
    ASSUME Inv, Spent, Strict, NEW a \in Assertions, count[a] >= 1, ~Seen(a.jti)
    PROVE  Closed(a)
<1>1. /\ a.exp \in Int /\ a.iat \in Int /\ MaxTTL \in Int /\ Skew \in Int
      /\ clock \in Int /\ a.jti \in Jtis /\ used \in [Jtis -> Int \cup {NoEntry}]
    BY AssertionAssumption, TimeAssumption DEF MaxTTL, Inv, TypeOK, Jtis
<1>2. Closed(a) \/ (used[a.jti] # NoEntry
                    /\ used[a.jti] >= Lesser(a.exp + Skew, a.iat + MaxTTL))
    BY DEF Spent
<1>3. used[a.jti] # NoEntry => clock > used[a.jti]
    BY <1>1 DEF Seen, Strict
<1> QED BY <1>1, <1>2, <1>3 DEF Lesser, Closed

LEMMA SpentNext == Inv /\ OnTime /\ Spent /\ [Next]_vars => Spent'
<1> SUFFICES ASSUME Inv, OnTime, Spent, [Next]_vars, Strict',
                    NEW a \in Assertions, count'[a] >= 1
             PROVE  (/\ count[a] = 1
                     /\ \/ Closed(a)
                        \/ /\ used[a.jti] # NoEntry
                           /\ used[a.jti] >= Lesser(a.exp + Skew, a.iat + MaxTTL))'
    BY DEF Spent
<1> DEFINE Entry == /\ used[a.jti] # NoEntry
                    /\ used[a.jti] >= Lesser(a.exp + Skew, a.iat + MaxTTL)
<1>0. /\ a.exp \in Int /\ a.iat \in Int /\ MaxTTL \in Int /\ Skew \in Int
      /\ clock \in Int /\ a.jti \in Jtis /\ used \in [Jtis -> Int \cup {NoEntry}]
      /\ count \in [Assertions -> Nat]
    BY AssertionAssumption, TimeAssumption DEF MaxTTL, Inv, TypeOK, Jtis
<1>a. Strict
    BY CacheSteps DEF Strict, Record, Sweep, Restart
<1>1. count[a] >= 1 => count[a] = 1 /\ (Closed(a) \/ Entry)
    BY <1>a DEF Spent
<1>2. ASSUME NEW c \in Callers, Record(c) PROVE count'[a] = 1 /\ (Closed(a) \/ Entry)'
    <2>1. /\ asrt[c] \in Assertions /\ now[c] = clock /\ clock' = clock
          /\ asrt[c].iat <= clock /\ ~Closed(asrt[c])
        <3>1. asrt[c] \in Assertions /\ clock' = clock /\ pc[c] = "record"
            BY <1>2 DEF Record, Inv, CallShape, Resting
        <3>2. now[c] = clock /\ asrt[c].iat <= clock
              /\ clock < asrt[c].exp + Skew /\ clock <= asrt[c].iat + MaxTTL
            BY <1>a, <3>1 DEF OnTime, Working
        <3>3. asrt[c].exp \in Int /\ asrt[c].iat \in Int
            BY <3>1, AssertionAssumption
        <3> QED BY <1>0, <3>1, <3>2, <3>3 DEF Closed
    <2>2. CASE Seen(asrt[c].jti)
        BY <1>1, <1>2, <2>1, <2>2 DEF Record, Closed
    <2>3. CASE ~Seen(asrt[c].jti) /\ a = asrt[c]
        <3>1. ~(count[a] >= 1)
            BY <1>a, <2>1, <2>3, UnseenIsClosed
        <3>2. count'[a] = 1
            BY <1>0, <1>2, <2>3, <3>1 DEF Record
        <3>3. used'[a.jti] = Deadline(a, clock)
            BY <1>0, <1>2, <2>1, <2>3 DEF Record
        <3>4. Deadline(a, clock) >= Lesser(a.exp + Skew, a.iat + MaxTTL)
            BY <1>0, <1>a, <2>1, <2>3, KeyOutlivesWindow DEF Strict
        <3>5. Deadline(a, clock) \in Int
            BY <1>0, DeadlineType DEF Inv, TypeOK
        <3> QED BY <3>2, <3>3, <3>4, <3>5, TimeAssumption
    <2>4. CASE ~Seen(asrt[c].jti) /\ a # asrt[c]
        <3>1. count[a] >= 1 /\ count'[a] = count[a]
            BY <1>0, <1>2, <2>1, <2>4 DEF Record
        <3>2. CASE a.jti = asrt[c].jti
            <4>1. Closed(a)
                BY <1>a, <2>4, <3>1, <3>2, UnseenIsClosed
            <4> QED BY <1>1, <2>1, <3>1, <4>1 DEF Closed
        <3>3. CASE a.jti # asrt[c].jti
            <4>1. used'[a.jti] = used[a.jti]
                BY <1>0, <1>2, <2>4, <3>3 DEF Record
            <4> QED BY <1>1, <2>1, <3>1, <4>1 DEF Closed
        <3> QED BY <3>2, <3>3
    <2> QED BY <2>2, <2>3, <2>4
<1>3. ASSUME NEW c \in Callers, Sweep(c) PROVE FALSE
    BY <1>3, <1>a DEF Sweep, Inv, CallShape, Strict
<1>4. CASE Restart
    BY <1>a, <1>1, <1>4 DEF Restart, Strict, Closed
<1>5. CASE UNCHANGED <<env, cache>> /\ (clock' = clock \/ Tick)
    BY <1>0, <1>1, <1>5 DEF cache, Tick, Closed
<1> QED BY <1>2, <1>3, <1>4, <1>5, CacheSteps

\* With Redis, prompt calls and no client's clock ahead, no assertion is used twice.
THEOREM RedisUsesOnce == Spec => []RedisOnce
<1>1. Init => OnTime /\ Spent
    BY DEF Init, OnTime, Spent, Working
<1>2. Inv /\ Spent => RedisOnce
    <2> SUFFICES ASSUME Inv, Spent, Strict, NEW a \in Assertions PROVE count[a] <= 1
        BY DEF RedisOnce, Strict
    <2> QED BY DEF Spent, Inv, TypeOK
<1> QED BY <1>1, <1>2, OnTimeNext, SpentNext, InvHolds, PTL DEF Spec
-----------------------------------------------------------------------------
(* The size of the cache.                                                  *)

Dict == env.prompt /\ ~env.redis

\* What a sweep leaves, and what is recorded after it, is younger than the sweep by
\* more than the leeway; and a call about to record has swept lately.
Tidy ==
    Dict =>
        /\ lastCleanup <= clock
        /\ \A c \in Callers :
              /\ pc[c] \in Working => now[c] = clock
              /\ pc[c] \in {"sweep", "record"} => clock < asrt[c].exp + Skew
              /\ pc[c] = "record" => clock - lastCleanup < CleanupInterval
        /\ \A j \in Jtis : used[j] # NoEntry => used[j] >= lastCleanup - Skew

Capped == \A j \in Jtis : used[j] # NoEntry => used[j] <= clock + MaxTTL

LEMMA CappedNext == Inv /\ Capped /\ [Next]_vars => Capped'
<1> SUFFICES ASSUME Inv, Capped, [Next]_vars, NEW j \in Jtis, used'[j] # NoEntry
             PROVE  (used[j] <= clock + MaxTTL)'
    BY DEF Capped
<1>0. /\ MaxTTL \in Int /\ clock \in Int
      /\ used \in [Jtis -> Int \cup {NoEntry}]
      /\ used[j] # NoEntry => used[j] \in Int /\ used[j] <= clock + MaxTTL
    BY TimeAssumption DEF MaxTTL, Inv, TypeOK, Capped
<1>1. ASSUME NEW c \in Callers, Record(c) PROVE (used[j] <= clock + MaxTTL)'
    <2>1. /\ asrt[c] \in Assertions /\ asrt[c].exp \in Int /\ clock' = clock
          /\ now[c] \in Int /\ now[c] <= clock
        BY <1>1, AssertionAssumption, TimeAssumption DEF Record, Inv, TypeOK, CallShape, Resting
    <2>2. Deadline(asrt[c], now[c]) <= clock + MaxTTL
        BY <1>0, <2>1, TimeAssumption DEF Deadline, Lesser, Greater
    <2> QED BY <1>0, <1>1, <2>1, <2>2 DEF Record
<1>2. ASSUME NEW c \in Callers, Sweep(c) PROVE (used[j] <= clock + MaxTTL)'
    BY <1>0, <1>2 DEF Sweep
<1>3. CASE Restart
    BY <1>0, <1>3 DEF Restart
<1>4. CASE UNCHANGED <<env, cache>> /\ (clock' = clock \/ Tick)
    BY <1>0, <1>4 DEF cache, Tick
<1> QED BY <1>1, <1>2, <1>3, <1>4, CacheSteps

LEMMA TidyNext == Inv /\ Tidy /\ [Next]_vars => Tidy'
<1> SUFFICES ASSUME Inv, Tidy, [Next]_vars, Dict' PROVE Tidy'
    BY DEF Tidy
<1>0. env' = env
    BY DEF Next, vars, Restart, Tick, Present, Fetched, NoKeys, Verify, Sweep, Record, Reply, Fail
<1>a. Dict
    BY <1>0 DEF Dict
<1>b. /\ lastCleanup <= clock /\ lastCleanup \in Int /\ clock \in Int
      /\ MaxTTL \in Nat /\ Skew \in Nat /\ CleanupInterval \in Nat \ {0}
      /\ pc \in [Callers -> PCs] /\ now \in [Callers -> 0..MaxClock]
      /\ asrt \in [Callers -> Assertions \cup {NoAssertion}]
      /\ used \in [Jtis -> Int \cup {NoEntry}] /\ NoEntry \notin Int
    BY <1>a, TimeAssumption DEF MaxTTL, Inv, TypeOK, Tidy
<1>c. \A c \in Callers :
          /\ pc[c] \in Working => now[c] = clock
          /\ pc[c] \in {"sweep", "record"} => clock < asrt[c].exp + Skew
          /\ pc[c] = "record" => clock - lastCleanup < CleanupInterval
          /\ pc[c] \notin Resting => asrt[c] \in Assertions /\ asrt[c].exp \in Int
    BY <1>a, AssertionAssumption DEF Tidy, Inv, CallShape
<1>d. \A j \in Jtis : used[j] # NoEntry => used[j] >= lastCleanup - Skew
    BY <1>a DEF Tidy
<1> USE <1>b, <1>c, <1>d DEF Tidy, Working, Resting, Answered
<1>1. CASE Restart
    BY <1>1, <1>a DEF Restart, Dict
<1>2. CASE Tick
    BY <1>2, <1>a DEF Tick, local, cache, Dict
<1>3. ASSUME NEW c \in Callers, NEW a \in Assertions, Present(c, a) PROVE Tidy'
    BY <1>3 DEF Present, Goto, cache
<1>4. ASSUME NEW c \in Callers, \E v \in Resting : End(c, v),
             UNCHANGED <<clock, cache>>
      PROVE  Tidy'
    BY <1>4 DEF End, Goto, cache
<1>5. ASSUME NEW c \in Callers, NEW jwks \in KeySets, Fetched(c, jwks) PROVE Tidy'
    <2>1. CASE End(c, "refused")
        BY <1>4, <1>5, <2>1 DEF Fetched
    <2>2. CASE Goto(c, "verify") /\ ReadClock(c) /\ asrt' = asrt
        BY <1>5, <2>2 DEF Fetched, Goto, ReadClock, cache
    <2> QED BY <1>5, <2>1, <2>2 DEF Fetched
<1>6. ASSUME NEW c \in Callers, NoKeys(c) \/ Reply(c) \/ Fail(c) PROVE Tidy'
    BY <1>4, <1>6 DEF NoKeys, Reply, Fail
<1>7. ASSUME NEW c \in Callers, Verify(c) PROVE Tidy'
    <2>1. CASE End(c, "refused")
        BY <1>4, <1>7, <2>1 DEF Verify
    <2>2. CASE /\ Goto(c, "sweep") /\ ReadClock(c) /\ asrt' = asrt
               /\ clock < asrt[c].exp + Skew
        BY <1>7, <2>2 DEF Verify, Goto, ReadClock, cache
    <2> QED BY <1>7, <1>a, <2>1, <2>2 DEF Verify, InTime, Dict
<1>8. ASSUME NEW c \in Callers, Sweep(c) PROVE Tidy'
    <2>1. /\ pc[c] = "sweep" /\ now[c] = clock /\ clock' = clock /\ asrt' = asrt
          /\ pc' = [pc EXCEPT ![c] = "record"] /\ now' = [now EXCEPT ![c] = clock]
        BY <1>8 DEF Sweep, Goto, ReadClock
    <2>2. CASE clock - lastCleanup < CleanupInterval
        BY <1>8, <2>1, <2>2 DEF Sweep
    <2>3. CASE ~(clock - lastCleanup < CleanupInterval)
        <3>1. lastCleanup' = clock
              /\ used' = [j \in Jtis |-> IF used[j] # NoEntry /\ clock > used[j]
                                         THEN NoEntry ELSE used[j]]
            BY <1>8, <2>1, <2>3 DEF Sweep
        <3>2. \A j \in Jtis : used'[j] # NoEntry => used'[j] >= lastCleanup' - Skew
            BY <3>1
        <3>3. \A d \in Callers :
                 (/\ pc[d] \in Working => now[d] = clock
                  /\ pc[d] \in {"sweep", "record"} => clock < asrt[d].exp + Skew
                  /\ pc[d] = "record" => clock - lastCleanup < CleanupInterval)'
            BY <2>1, <3>1
        <3> QED BY <2>1, <3>1, <3>2, <3>3
    <2> QED BY <2>2, <2>3
<1>9. ASSUME NEW c \in Callers, Record(c) PROVE Tidy'
    <2>1. /\ now[c] = clock /\ clock' = clock /\ lastCleanup' = lastCleanup
          /\ clock < asrt[c].exp + Skew /\ asrt[c].exp \in Int
        BY <1>9 DEF Record
    <2>2. Deadline(asrt[c], now[c]) >= lastCleanup - Skew
        BY <1>a, <2>1 DEF Deadline, Lesser, Dict
    <2>3. \A j \in Jtis : used'[j] # NoEntry => used'[j] >= lastCleanup' - Skew
        BY <1>9, <2>1, <2>2 DEF Record
    <2>4. \E v \in Resting : End(c, v)
        BY <1>9, <1>a DEF Record, Dict
    <2> QED BY <2>1, <2>3, <2>4 DEF End, Goto
<1>10. CASE UNCHANGED vars
    BY <1>10 DEF vars, local, cache
<1> QED
    BY <1>1, <1>2, <1>3, <1>5, <1>6, <1>7, <1>8, <1>9, <1>10 DEF Next

\* No entry is kept for longer than the cap, and while calls are prompt none of the dict
\* outlives the next sweep, for any interval, skew and lifetime.
THEOREM CacheStaysBounded == Spec => []CacheBounded
<1>1. Init => Tidy /\ Capped
    BY TimeAssumption DEF Init, Tidy, Capped, Working
<1>2. Inv /\ Tidy /\ Capped => CacheBounded
    <2> SUFFICES ASSUME Inv, Tidy, Capped PROVE CacheBounded
        OBVIOUS
    <2>1. ASSUME Dict, NEW c \in Callers, NEW j \in Jtis, pc[c] = "record", used[j] # NoEntry
          PROVE  used[j] > now[c] - (CleanupInterval + Skew)
        <3>1. /\ now[c] = clock /\ clock - lastCleanup < CleanupInterval
              /\ used[j] >= lastCleanup - Skew
            BY <2>1 DEF Tidy, Working
        <3>2. /\ clock \in Int /\ lastCleanup \in Int /\ used[j] \in Int
              /\ CleanupInterval \in Int /\ Skew \in Int
            BY <2>1, TimeAssumption DEF Inv, TypeOK
        <3> QED BY <3>1, <3>2
    <2> QED BY <2>1 DEF Dict, Capped, CacheBounded
<1> QED BY <1>1, <1>2, TidyNext, CappedNext, InvHolds, PTL DEF Spec
=============================================================================
