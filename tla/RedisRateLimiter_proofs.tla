----------------------- MODULE RedisRateLimiter_proofs -----------------------
(***************************************************************************)
(* Proofs about RedisRateLimiter, for any limit, window, resolution of the *)
(* clock and number of callers.                                            *)
(***************************************************************************)
EXTENDS RedisRateLimiter, FiniteSetTheorems, TLAPS

-----------------------------------------------------------------------------
(* Spans of time.                                                          *)

LEMMA Spans ==
    /\ TicksPerSecond \in Nat \ {0} /\ Span \in Nat
    /\ Seconds(Window + 1) \in Nat /\ Seconds(Window + 1) = Span + TicksPerSecond
BY LimiterAssumption DEF Seconds, Span

\* A quotient by its bounds.
LEMMA Quotient ==
    ASSUME NEW n \in Int, NEW i \in Int, i > 0
    PROVE  /\ n \div i \in Int
           /\ n < ((n \div i) + 1) * i
<1>1. n \div i \in Int
    OBVIOUS
<1>2. n < ((n \div i) + 1) * i
    OBVIOUS
<1> QED BY <1>1, <1>2

\* The product of a wait, in seconds.
LEMMA Waits ==
    ASSUME NEW n \in Int, n >= 1
    PROVE  Seconds(n) \in Nat /\ \A m \in Int : m <= n => Seconds(m) <= Seconds(n)
BY LimiterAssumption DEF Seconds

\* Whoever is told to wait waits until the oldest member has left the window.
LEMMA RetryCoversOldest ==
    ASSUME NEW c \in Callers, NEW oldest \in Int, now[c] \in Int
    PROVE  /\ RetryAfter(c, oldest) \in Nat
           /\ Seconds(RetryAfter(c, oldest)) \in Nat
           /\ oldest + Span < now[c] + Seconds(RetryAfter(c, oldest))
<1> DEFINE n == Span - (now[c] - oldest)
           s == n \div TicksPerSecond + 1
<1>1. n \in Int /\ TicksPerSecond \in Int /\ TicksPerSecond > 0
    BY Spans
<1>2. s \in Int
    BY <1>1, Quotient
<1>3. n < Seconds(s)
    BY <1>1, Quotient DEF Seconds
<1>4. RetryAfter(c, oldest) = IF s < 1 THEN 1 ELSE s
    BY DEF RetryAfter
<1> HIDE DEF s
<1>5. RetryAfter(c, oldest) \in Int /\ RetryAfter(c, oldest) >= 1 /\ s <= RetryAfter(c, oldest)
    BY <1>2, <1>4
<1>6. Seconds(RetryAfter(c, oldest)) \in Nat /\ Seconds(s) <= Seconds(RetryAfter(c, oldest))
    BY <1>2, <1>5, Waits
<1>7. Seconds(s) \in Int
    BY <1>2, Spans DEF Seconds
<1> QED BY <1>1, <1>3, <1>5, <1>6, <1>7, Spans

-----------------------------------------------------------------------------
(* Types, and the times a call can see.                                    *)

\* No time that was read or recorded lies ahead of the clock, and a caller about to send
\* EXPIRE has added a member.
Timely ==
    /\ \A c \in Callers : now[c] <= clock
    /\ \A m \in zset \cup admitted : Score(m) <= clock
    /\ \A c \in Callers :
          pc[c] = "expire" => member[c] \in Members /\ Score(member[c]) <= clock

Inv == TypeOK /\ Timely

LEMMA EnvType ==
    ASSUME env \in Regimes
    PROVE  env.slack \in Nat /\ env.failures \in BOOLEAN
BY LimiterAssumption

LEMMA Scores ==
    ASSUME NEW m \in Members
    PROVE  Score(m) \in Nat
BY DEF Members, Score

LEMMA Trimmed ==
    ASSUME zset \subseteq Members, IsFiniteSet(zset), NEW t
    PROVE  /\ InWindow(zset, t) \subseteq zset
           /\ IsFiniteSet(InWindow(zset, t))
           /\ Cardinality(InWindow(zset, t)) <= Cardinality(zset)
BY FS_Subset DEF InWindow

LEMMA NewExpiryType ==
    ASSUME clock \in Nat, expiry \in Nat \cup {None}, zset = {} => expiry = None
    PROVE  /\ NewExpiry \in Nat \cup {None}
           /\ zset = {} => NewExpiry = None
           /\ zset # {} => NewExpiry = clock + Span + TicksPerSecond /\ NewExpiry # None
<1>1. clock + Seconds(Window + 1) \in Nat
    BY Spans
<1>2. clock + Seconds(Window + 1) # None
    BY <1>1, LimiterAssumption
<1>3. clock + Seconds(Window + 1) = clock + Span + TicksPerSecond
    BY Spans
<1> QED BY <1>1, <1>2, <1>3 DEF NewExpiry

\* The local variables of a call that ends, or goes on.
LEMMA EndType ==
    ASSUME TypeOK, NEW c \in Callers, End(c)
    PROVE  /\ pc' \in [Callers -> {"idle"} \cup Busy]
           /\ now' \in [Callers -> 0..MaxClock]
           /\ member' \in [Callers -> Members \cup {None}]
<1>1. 0 \in 0..MaxClock
    BY LimiterAssumption
<1> QED BY <1>1 DEF End, Goto, TypeOK, Busy

LEMMA GotoType ==
    ASSUME TypeOK, NEW c \in Callers, NEW place \in Busy, Goto(c, place)
    PROVE  pc' \in [Callers -> {"idle"} \cup Busy]
BY DEF Goto, TypeOK

LEMMA TypeNext == Inv /\ [Next]_vars => TypeOK'
<1> SUFFICES ASSUME TypeOK, Timely, [Next]_vars PROVE TypeOK'
    BY DEF Inv
<1> USE DEF redis, local, history
<1>0. clock \in Nat
    BY LimiterAssumption DEF TypeOK
<1>1. CASE Tick
    <2>1. clock' \in 0..MaxClock
        BY <1>1, LimiterAssumption DEF Tick, TypeOK
    <2>2. /\ zset' \subseteq Members /\ IsFiniteSet(zset')
          /\ expiry' \in Nat \cup {None}
          /\ zset' = {} => expiry' = None
        BY <1>1, FS_EmptySet DEF Tick, TypeOK
    <2> QED BY <1>1, <2>1, <2>2 DEF Tick, TypeOK, InWindow
<1>2. ASSUME NEW c \in Callers, IsAllowed(c) \/ GetRetryAfter(c) PROVE TypeOK'
    <2>1. pc' \in [Callers -> {"idle"} \cup Busy]
        BY <1>2 DEF IsAllowed, GetRetryAfter, Call, Goto, TypeOK, Busy
    <2> QED BY <1>2, <2>1 DEF IsAllowed, GetRetryAfter, Call, TypeOK
<1>3. ASSUME NEW c \in Callers, Trim(c) PROVE TypeOK'
    <2>1. pc' \in [Callers -> {"idle"} \cup Busy]
        BY <1>3 DEF Trim, Goto, TypeOK, Busy
    <2>2. zset' \subseteq Members /\ IsFiniteSet(zset')
        BY <1>3, Trimmed DEF Trim, Kept, TypeOK
    <2>3. expiry' \in Nat \cup {None} /\ (zset' = {} => expiry' = None)
        BY <1>3 DEF Trim, TypeOK
    <2> QED BY <1>3, <2>1, <2>2, <2>3 DEF Trim, TypeOK
<1>4. ASSUME NEW c \in Callers, Card(c) PROVE TypeOK'
    <2>1. CASE End(c)
        BY <1>4, <2>1, EndType DEF Card, TypeOK
    <2>2. CASE Goto(c, "add") /\ UNCHANGED <<now, member>>
        <3>1. pc' \in [Callers -> {"idle"} \cup Busy]
            BY <2>2 DEF Goto, TypeOK, Busy
        <3> QED BY <1>4, <2>2, <3>1 DEF Card, TypeOK
    <2> QED BY <1>4, <2>1, <2>2 DEF Card
<1>5. ASSUME NEW c \in Callers, Add(c) PROVE TypeOK'
    <2>1. PICK s \in Suffixes : /\ zset' = zset \cup {<<now[c], s>>}
                                /\ member' = [member EXCEPT ![c] = <<now[c], s>>]
        BY <1>5 DEF Add
    <2>2. <<now[c], s>> \in Members
        BY DEF TypeOK, Members
    <2>3. zset' \subseteq Members /\ IsFiniteSet(zset') /\ zset' # {}
        BY <2>1, <2>2, FS_AddElement DEF TypeOK
    <2>4. member' \in [Callers -> Members \cup {None}]
        BY <2>1, <2>2 DEF TypeOK
    <2>5. pc' \in [Callers -> {"idle"} \cup Busy]
        BY <1>5 DEF Add, Goto, TypeOK, Busy
    <2> QED BY <1>5, <2>3, <2>4, <2>5 DEF Add, TypeOK
<1>6. ASSUME NEW c \in Callers, Expire(c) PROVE TypeOK'
    <2>1. expiry' \in Nat \cup {None} /\ (zset' = {} => expiry' = None)
        BY <1>0, <1>6, NewExpiryType DEF Expire, TypeOK
    <2>2. admitted' \subseteq Members
        BY <1>6 DEF Expire, InWindow, Timely, TypeOK
    <2> QED BY <1>6, <2>1, <2>2, EndType DEF Expire, TypeOK
<1>7. ASSUME NEW c \in Callers, ReadOldest(c) PROVE TypeOK'
    <2>1. promise' \in [Callers -> Nat \cup {None}]
        <3>1. CASE promise' = [promise EXCEPT ![c] = clock]
            BY <1>0, <3>1 DEF TypeOK
        <3>2. CASE promise' # [promise EXCEPT ![c] = clock]
            <4>1. PICK m \in zset :
                     promise' = [promise EXCEPT ![c] =
                         IF Cardinality(zset) <= Limit
                         THEN clock + Seconds(RetryAfter(c, Score(m))) ELSE None]
                BY <1>7, <3>2 DEF ReadOldest
            <4>2. Score(m) \in Int /\ now[c] \in Int
                BY Scores, LimiterAssumption DEF TypeOK
            <4>3. clock + Seconds(RetryAfter(c, Score(m))) \in Nat
                BY <1>0, <4>2, RetryCoversOldest
            <4> QED BY <4>1, <4>3 DEF TypeOK
        <3> QED BY <3>1, <3>2
    <2>2. /\ pc' \in [Callers -> {"idle"} \cup Busy]
          /\ now' \in [Callers -> 0..MaxClock]
          /\ member' \in [Callers -> Members \cup {None}]
        BY <1>7, EndType DEF ReadOldest
    <2> QED BY <1>7, <2>1, <2>2 DEF ReadOldest, TypeOK
<1>8. ASSUME NEW c \in Callers, Fail(c) PROVE TypeOK'
    <2>1. expiry' \in Nat \cup {None} /\ (zset' = {} => expiry' = None)
        BY <1>0, <1>8, NewExpiryType DEF Fail, TypeOK
    <2>2. /\ pc' \in [Callers -> {"idle"} \cup Busy]
          /\ now' \in [Callers -> 0..MaxClock]
          /\ member' \in [Callers -> Members \cup {None}]
        BY <1>8, EndType DEF Fail
    <2> QED BY <1>8, <2>1, <2>2 DEF Fail, TypeOK
<1>9. CASE UNCHANGED vars
    BY <1>9 DEF vars, TypeOK
<1> QED BY <1>1, <1>2, <1>3, <1>4, <1>5, <1>6, <1>7, <1>8, <1>9 DEF Next

LEMMA TimelyNext == Inv /\ TypeOK' /\ [Next]_vars => Timely'
<1> SUFFICES ASSUME TypeOK, TypeOK', Timely, [Next]_vars PROVE Timely'
    BY DEF Inv
<1> USE DEF redis, local, history
<1>0. clock \in Nat /\ clock' \in Nat /\ clock <= clock'
    <2>1. clock \in Nat /\ clock' \in Nat
        BY LimiterAssumption DEF TypeOK
    <2>2. clock' = clock \/ clock' = clock + 1
        BY DEF Next, Tick, Call, IsAllowed, GetRetryAfter, Trim, Card, Add, Expire, ReadOldest,
           Fail, vars
    <2> QED BY <2>1, <2>2
<1>1. CASE Tick
    <2>1. /\ now' = now /\ pc' = pc /\ member' = member
          /\ zset' \subseteq zset /\ admitted' \subseteq admitted
        BY <1>1 DEF Tick, InWindow
    <2>2. /\ \A d \in Callers : now[d] \in Nat /\ now[d] <= clock
          /\ \A m \in zset \cup admitted : Score(m) \in Nat /\ Score(m) <= clock
        BY Scores, LimiterAssumption DEF TypeOK, Timely
    <2>3. ASSUME NEW d \in Callers, pc[d] = "expire"
          PROVE  member[d] \in Members /\ Score(member[d]) \in Nat /\ Score(member[d]) <= clock
        BY <2>3, Scores DEF TypeOK, Timely
    <2> QED BY <1>0, <2>1, <2>2, <2>3 DEF Timely
<1>2. ASSUME NEW c \in Callers, IsAllowed(c) \/ GetRetryAfter(c) PROVE Timely'
    BY <1>0, <1>2 DEF IsAllowed, GetRetryAfter, Call, Goto, Timely, TypeOK
<1>3. ASSUME NEW c \in Callers, Trim(c) PROVE Timely'
    BY <1>3 DEF Trim, Goto, Kept, InWindow, Timely, TypeOK
<1>4. ASSUME NEW c \in Callers, End(c), UNCHANGED <<clock, zset>>,
             \/ admitted' = admitted
             \/ pc[c] = "expire" /\ admitted' \subseteq admitted \cup {member[c]}
      PROVE  Timely'
    BY <1>0, <1>4 DEF End, Goto, Timely, TypeOK
<1>5. ASSUME NEW c \in Callers, Card(c) PROVE Timely'
    <2>1. CASE End(c)
        BY <1>4, <1>5, <2>1 DEF Card
    <2>2. CASE Goto(c, "add") /\ UNCHANGED <<now, member>>
        BY <1>5, <2>2 DEF Card, Goto, Timely, TypeOK
    <2> QED BY <1>5, <2>1, <2>2 DEF Card
<1>6. ASSUME NEW c \in Callers, Add(c) PROVE Timely'
    <2>1. PICK s \in Suffixes : /\ zset' = zset \cup {<<now[c], s>>}
                                /\ member' = [member EXCEPT ![c] = <<now[c], s>>]
        BY <1>6 DEF Add
    <2>2. Score(<<now[c], s>>) <= clock /\ <<now[c], s>> \in Members
        BY DEF Score, Timely, TypeOK, Members
    <2> QED BY <1>6, <2>1, <2>2 DEF Add, Goto, Timely, TypeOK
<1>7. ASSUME NEW c \in Callers, Expire(c) PROVE Timely'
    BY <1>4, <1>7 DEF Expire, InWindow
<1>8. ASSUME NEW c \in Callers, ReadOldest(c) \/ Fail(c) PROVE Timely'
    BY <1>4, <1>8 DEF ReadOldest, Fail
<1>9. CASE UNCHANGED vars
    BY <1>9 DEF vars, Timely
<1> QED BY <1>1, <1>2, <1>3, <1>5, <1>6, <1>7, <1>8, <1>9 DEF Next

LEMMA InvInit == Init => Inv
<1> SUFFICES ASSUME Init PROVE Inv
    OBVIOUS
<1>1. 0 \in 0..MaxClock
    BY LimiterAssumption
<1>2. IsFiniteSet({})
    BY FS_EmptySet
<1> QED BY <1>1, <1>2 DEF Init, Inv, TypeOK, Timely

LEMMA InvNext == Inv /\ [Next]_vars => Inv'
BY TypeNext, TimelyNext DEF Inv

LEMMA Invariant == Spec => []Inv
BY InvInit, InvNext, PTL DEF Spec

\* Every state of the sliding-window limiter over Redis is well typed; in particular the set
\* is finite, and without members there is no key that could expire.
THEOREM TypeCorrect == Spec => []TypeOK
<1>1. Inv => TypeOK
    BY DEF Inv
<1> QED BY <1>1, Invariant, PTL

-----------------------------------------------------------------------------
(* Clients that never come back.                                           *)

LEMMA TimeToLiveNext == Inv /\ Inv' /\ KeyNeverLeaks /\ [Next]_vars => KeyNeverLeaks'
<1> SUFFICES ASSUME TypeOK, TypeOK', KeyNeverLeaks, [Next]_vars,
                    zset' # {}, expiry' = None, ~env'.failures
             PROVE  \E d \in Callers : pc'[d] = "expire"
    BY DEF Inv, KeyNeverLeaks
<1> USE DEF redis, local, history
<1>1. CASE Tick
    BY <1>1 DEF Tick, KeyNeverLeaks
<1>2. ASSUME NEW c \in Callers, IsAllowed(c) \/ GetRetryAfter(c)
      PROVE  \E d \in Callers : pc'[d] = "expire"
    BY <1>2 DEF IsAllowed, GetRetryAfter, Call, Goto, KeyNeverLeaks, TypeOK
<1>3. ASSUME NEW c \in Callers, Trim(c) PROVE \E d \in Callers : pc'[d] = "expire"
    <2>1. zset # {} /\ expiry = None
        BY <1>3 DEF Trim, Kept, InWindow
    <2> QED BY <1>3, <2>1 DEF Trim, Goto, KeyNeverLeaks, TypeOK
<1>4. ASSUME NEW c \in Callers, Card(c) \/ ReadOldest(c)
      PROVE  \E d \in Callers : pc'[d] = "expire"
    BY <1>4 DEF Card, ReadOldest, Goto, End, KeyNeverLeaks, TypeOK
<1>5. ASSUME NEW c \in Callers, Add(c) PROVE \E d \in Callers : pc'[d] = "expire"
    BY <1>5 DEF Add, Goto, TypeOK
<1>6. ASSUME NEW c \in Callers, Expire(c) PROVE FALSE
    <2>1. clock \in Nat
        BY LimiterAssumption DEF TypeOK
    <2> QED BY <1>6, <2>1, NewExpiryType DEF Expire, TypeOK
<1>7. ASSUME NEW c \in Callers, Fail(c) PROVE FALSE
    BY <1>7 DEF Fail
<1>8. CASE UNCHANGED vars
    BY <1>8 DEF vars, KeyNeverLeaks
<1> QED BY <1>1, <1>2, <1>3, <1>4, <1>5, <1>6, <1>7, <1>8 DEF Next

\* While no command fails, a key without a time to live belongs to a call that is about to
\* send EXPIRE: is_allowed leaves nothing behind for clients that never come back.
THEOREM KeysAreTended == Spec => []KeyNeverLeaks
<1>1. Init => KeyNeverLeaks
    BY DEF Init, KeyNeverLeaks
<1> QED BY <1>1, TimeToLiveNext, Invariant, PTL DEF Spec

-----------------------------------------------------------------------------
(* The size of the set.                                                    *)

AtAdd == {c \in Callers : pc[c] = "add"}

\* Whoever is about to add saw room when it counted: it is the members and these callers
\* together that the limit bounds.
RoomLeft == Cardinality(zset) + Cardinality(AtAdd) <= Limit + Cardinality(Callers) - 1

LEMMA AdderCount ==
    /\ IsFiniteSet(AtAdd) /\ Cardinality(AtAdd) \in Nat
    /\ Cardinality(Callers) \in Nat
    /\ Cardinality(AtAdd) <= Cardinality(Callers)
<1>1. AtAdd \in SUBSET Callers
    BY DEF AtAdd
<1> QED BY <1>1, LimiterAssumption, FS_Subset, FS_CardinalityType

\* A step that adds neither a member nor an adder.
LEMMA FewerStay ==
    ASSUME TypeOK, TypeOK', RoomLeft, zset' \subseteq zset, AtAdd' \subseteq AtAdd
    PROVE  RoomLeft'
<1>1. /\ Cardinality(zset) \in Nat /\ Cardinality(zset') \in Nat
      /\ Cardinality(zset') <= Cardinality(zset)
    BY FS_Subset, FS_CardinalityType DEF TypeOK
<1>2. Cardinality(AtAdd) \in Nat /\ Cardinality(AtAdd') \in Nat
      /\ Cardinality(AtAdd') <= Cardinality(AtAdd)
    BY AdderCount, FS_Subset, FS_CardinalityType
<1>3. Limit \in Nat /\ Cardinality(Callers) \in Nat
    BY AdderCount, LimiterAssumption
<1> QED BY <1>1, <1>2, <1>3 DEF RoomLeft

LEMMA RoomLeftNext == Inv /\ Inv' /\ RoomLeft /\ [Next]_vars => RoomLeft'
<1> SUFFICES ASSUME TypeOK, TypeOK', RoomLeft, [Next]_vars PROVE RoomLeft'
    BY DEF Inv
<1> USE DEF redis, local, history
<1>0. /\ Limit \in Nat /\ Cardinality(Callers) \in Nat
      /\ Cardinality(zset) \in Nat /\ Cardinality(zset') \in Nat
    BY AdderCount, FS_CardinalityType, LimiterAssumption DEF TypeOK
<1>1. CASE Tick \/ UNCHANGED vars
    <2>1. zset' \subseteq zset /\ AtAdd' \subseteq AtAdd
        BY <1>1 DEF Tick, vars, AtAdd
    <2> QED BY <2>1, FewerStay
<1>2. ASSUME NEW c \in Callers, IsAllowed(c) \/ GetRetryAfter(c) \/ Trim(c)
      PROVE  RoomLeft'
    <2>1. AtAdd' \subseteq AtAdd
        BY <1>2 DEF IsAllowed, GetRetryAfter, Call, Trim, Goto, TypeOK, AtAdd
    <2>2. zset' \subseteq zset
        BY <1>2 DEF IsAllowed, GetRetryAfter, Call, Trim, Kept, InWindow
    <2> QED BY <2>1, <2>2, FewerStay
<1>3. ASSUME NEW c \in Callers, Expire(c) \/ ReadOldest(c) \/ Fail(c) PROVE RoomLeft'
    <2>1. zset' = zset /\ AtAdd' \subseteq AtAdd
        BY <1>3 DEF Expire, ReadOldest, Fail, End, Goto, TypeOK, AtAdd
    <2> QED BY <2>1, FewerStay
<1>4. ASSUME NEW c \in Callers, Card(c) PROVE RoomLeft'
    <2>1. CASE Cardinality(zset) >= Limit
        <3>1. zset' = zset /\ AtAdd' \subseteq AtAdd
            BY <1>4, <2>1 DEF Card, End, Goto, TypeOK, AtAdd
        <3> QED BY <3>1, FewerStay
    <2>2. CASE ~(Cardinality(zset) >= Limit)
        <3>1. Cardinality(zset) <= Limit - 1
            BY <1>0, <2>2
        <3>2. zset' = zset
            BY <1>4 DEF Card
        <3>3. AtAdd' \in SUBSET Callers
            BY DEF AtAdd
        <3>4. Cardinality(AtAdd') \in Nat /\ Cardinality(AtAdd') <= Cardinality(Callers)
            BY <3>3, LimiterAssumption, FS_Subset, FS_CardinalityType
        <3> QED BY <1>0, <3>1, <3>2, <3>4 DEF RoomLeft
    <2> QED BY <2>1, <2>2
<1>5. ASSUME NEW c \in Callers, Add(c) PROVE RoomLeft'
    <2>1. PICK m : zset' = zset \cup {m}
        BY <1>5 DEF Add
    <2>2. Cardinality(zset') <= Cardinality(zset) + 1
        BY <1>0, <2>1, FS_AddElement DEF TypeOK
    <2>3. c \in AtAdd /\ AtAdd' = AtAdd \ {c}
        BY <1>5 DEF Add, Goto, TypeOK, AtAdd
    <2>4. Cardinality(AtAdd') = Cardinality(AtAdd) - 1
        BY <2>3, AdderCount, FS_RemoveElement
    <2> QED BY <1>0, <2>2, <2>4, AdderCount DEF RoomLeft
<1> QED BY <1>1, <1>2, <1>3, <1>4, <1>5 DEF Next

\* ZCARD and ZADD are two commands, so callers that count the same members all add one; the
\* overshoot is bounded by the other callers, whatever fails or is delayed.
THEOREM SetStaysBounded == Spec => []SetBounded
<1>1. Init => RoomLeft
    <2> SUFFICES ASSUME Init PROVE RoomLeft
        OBVIOUS
    <2>1. zset = {} /\ AtAdd = {}
        BY DEF Init, AtAdd
    <2>2. Cardinality(zset) = 0 /\ Cardinality(AtAdd) = 0
        BY <2>1, FS_EmptySet
    <2> QED BY <2>2, AdderCount, LimiterAssumption DEF RoomLeft
<1>2. Inv /\ RoomLeft => SetBounded
    <2> SUFFICES ASSUME TypeOK, RoomLeft PROVE SetBounded
        BY DEF Inv
    <2>1. Cardinality(zset) \in Nat
        BY FS_CardinalityType DEF TypeOK
    <2> QED BY <2>1, AdderCount, LimiterAssumption DEF RoomLeft, SetBounded
<1> QED BY <1>1, <1>2, RoomLeftNext, Invariant, PTL DEF Spec

-----------------------------------------------------------------------------
(* What a caller was told.                                                 *)

\* A promise that was kept is kept by fewer members.
LEMMA FewerKeep ==
    ASSUME TypeOK, TypeOK', zset' \subseteq zset,
           NEW c \in Callers, promise'[c] # None,
           promise[c] = promise'[c], PromiseKept
    PROVE  Cardinality(InWindow(zset', promise'[c])) < Limit
<1> DEFINE t == promise[c]
           Before == InWindow(zset, t)
           After == InWindow(zset', t)
<1>1. Cardinality(Before) < Limit
    BY DEF PromiseKept
<1>2. After \subseteq Before /\ Before \subseteq zset
    BY DEF InWindow
<1>3. IsFiniteSet(Before) /\ IsFiniteSet(After) /\ Cardinality(After) <= Cardinality(Before)
    BY <1>2, FS_Subset DEF TypeOK
<1>4. Cardinality(Before) \in Nat /\ Cardinality(After) \in Nat
    BY <1>3, FS_CardinalityType
<1> HIDE DEF Before, After
<1>5. Cardinality(After) < Limit
    BY <1>1, <1>3, <1>4, LimiterAssumption
<1> QED BY <1>5 DEF After

\* The oldest of at most Limit members has left the window by the time that is told.
LEMMA RoomByThen ==
    ASSUME Inv, NEW c \in Callers, NEW m \in zset, Cardinality(zset) <= Limit
    PROVE  Cardinality(InWindow(zset, clock + Seconds(RetryAfter(c, Score(m))))) < Limit
<1> DEFINE t == clock + Seconds(RetryAfter(c, Score(m)))
           Then == InWindow(zset, t)
<1>1. /\ Score(m) \in Int /\ now[c] \in Int /\ clock \in Int /\ now[c] <= clock
    BY Scores, LimiterAssumption DEF Inv, TypeOK, Timely
<1>2. Score(m) + Span < t /\ t \in Int
    BY <1>1, RetryCoversOldest, Spans
<1>3. ~(Score(m) > t - Span)
    BY <1>1, <1>2, Spans
<1>4. Then \subseteq zset \ {m}
    BY <1>3 DEF InWindow
<1>5. IsFiniteSet(zset \ {m}) /\ Cardinality(zset \ {m}) = Cardinality(zset) - 1
    BY FS_RemoveElement DEF Inv, TypeOK
<1>6. IsFiniteSet(Then) /\ Cardinality(Then) <= Cardinality(zset \ {m})
    BY <1>4, <1>5, FS_Subset
<1>7. Cardinality(Then) \in Nat /\ Cardinality(zset) \in Nat
    BY <1>6, FS_CardinalityType DEF Inv, TypeOK
<1> HIDE DEF Then
<1>8. Cardinality(Then) < Limit
    BY <1>5, <1>6, <1>7, LimiterAssumption
<1> QED BY <1>8 DEF Then

LEMMA PromiseNext == Inv /\ Inv' /\ PromiseKept /\ [Next]_vars => PromiseKept'
<1> SUFFICES ASSUME Inv, TypeOK, TypeOK', PromiseKept, [Next]_vars,
                    NEW d \in Callers, promise'[d] # None
             PROVE  Cardinality(InWindow(zset', promise'[d])) < Limit
    BY DEF Inv, PromiseKept, InWindow
<1> USE DEF redis, local, history
<1>1. CASE Tick \/ UNCHANGED vars
    <2>1. zset' \subseteq zset /\ promise' = promise
        BY <1>1 DEF Tick, vars
    <2> QED BY <2>1, FewerKeep
<1>2. ASSUME NEW c \in Callers, IsAllowed(c) \/ GetRetryAfter(c)
      PROVE  Cardinality(InWindow(zset', promise'[d])) < Limit
    <2>1. zset' \subseteq zset /\ promise'[d] = promise[d]
        BY <1>2 DEF IsAllowed, GetRetryAfter, Call, TypeOK
    <2> QED BY <2>1, FewerKeep
<1>3. ASSUME NEW c \in Callers, Trim(c) \/ Card(c) \/ Expire(c) \/ Fail(c)
      PROVE  Cardinality(InWindow(zset', promise'[d])) < Limit
    <2>1. zset' \subseteq zset /\ promise' = promise
        BY <1>3 DEF Trim, Kept, InWindow, Card, Expire, Fail
    <2> QED BY <2>1, FewerKeep
<1>4. ASSUME NEW c \in Callers, Add(c) PROVE FALSE
    BY <1>4 DEF Add
<1>5. ASSUME NEW c \in Callers, ReadOldest(c)
      PROVE  Cardinality(InWindow(zset', promise'[d])) < Limit
    <2>1. zset' = zset
        BY <1>5 DEF ReadOldest
    <2>2. CASE c # d
        <3>1. promise'[d] = promise[d]
            BY <1>5, <2>2 DEF ReadOldest, TypeOK
        <3> QED BY <2>1, <3>1, FewerKeep
    <2>3. CASE c = d /\ zset = {}
        <3>1. InWindow(zset', promise'[d]) = {}
            BY <2>1, <2>3 DEF InWindow
        <3> QED BY <3>1, FS_EmptySet, LimiterAssumption
    <2>4. CASE c = d /\ zset # {}
        <3>1. PICK m \in zset :
                 promise' = [promise EXCEPT ![c] =
                     IF Cardinality(zset) <= Limit
                     THEN clock + Seconds(RetryAfter(c, Score(m))) ELSE None]
            BY <1>5, <2>4 DEF ReadOldest
        <3>2. Cardinality(zset) <= Limit
              /\ promise'[d] = clock + Seconds(RetryAfter(c, Score(m)))
            BY <2>4, <3>1 DEF TypeOK
        <3> QED BY <2>1, <3>2, RoomByThen
    <2> QED BY <2>2, <2>3, <2>4
<1> QED BY <1>1, <1>2, <1>3, <1>4, <1>5 DEF Next

\* get_retry_after rounds the right way: as long as nobody is let through in between, there
\* is room at the time it named, if the set it looked at was not overfull.
THEOREM PromisesAreKept == Spec => []PromiseKept
<1>1. Init => PromiseKept
    BY DEF Init, PromiseKept
<1> QED BY <1>1, PromiseNext, Invariant, PTL DEF Spec

-----------------------------------------------------------------------------
(* Who was let through is remembered.  The time to live is a second longer *)
(* than the window, and a call that has trimmed the set sends EXPIRE       *)
(* before the old one ends, or somebody does.                              *)

\* Calls take at most that second; only calls that take no time may fail.
Steadily(d) == d.slack <= TicksPerSecond /\ (d.failures => d.slack = 0)

PastTrim == {"card", "add", "expire"}

\* The time to live does not end before c's call does.
InTime(c) == now[c] + env.slack <= expiry

Outlived(m) == Score(m) + Seconds(Window + 1) <= expiry

\* What was added is there until it is admitted, if it still counts by then.
AddedStays ==
    \A c \in Callers :
        (pc[c] = "expire" /\ Score(member[c]) > clock - Span) => member[c] \in zset

AdmittedOutlived == expiry # None => \A m \in admitted : Outlived(m)

\* A member that the time to live may cut short is that of a call about to extend it, and a
\* call past its trimming is in time, or another one is that is about to extend it.
Tended ==
    (expiry # None /\ ~env.failures) =>
        /\ \A m \in zset : Outlived(m) \/ \E c \in Callers : pc[c] = "expire" /\ member[c] = m
        /\ \A c \in Callers :
              pc[c] \in PastTrim => InTime(c) \/ \E d \in Callers : pc[d] = "expire" /\ InTime(d)

Remembering ==
    Steadily(env) /\ AddedStays /\ AdmittedOutlived /\ Tended /\ AdmittedRemembered

\* Times as the arithmetic needs them.
LEMMA Times ==
    ASSUME Inv
    PROVE  /\ clock \in Nat /\ env.slack \in Nat /\ (expiry # None => expiry \in Nat)
           /\ \A c \in Callers : now[c] \in Nat /\ now[c] <= clock
           /\ \A m \in zset \cup admitted : Score(m) \in Nat /\ Score(m) <= clock
           /\ \A c \in Callers : pc[c] = "expire" =>
                 Score(member[c]) \in Nat /\ Score(member[c]) <= clock
<1>1. clock \in Nat /\ env.slack \in Nat /\ (expiry # None => expiry \in Nat)
    BY EnvType, LimiterAssumption DEF Inv, TypeOK
<1>2. \A c \in Callers : now[c] \in Nat /\ now[c] <= clock
    BY LimiterAssumption DEF Inv, TypeOK, Timely
<1>3. \A m \in zset \cup admitted : Score(m) \in Nat /\ Score(m) <= clock
    BY Scores DEF Inv, TypeOK, Timely
<1>4. \A c \in Callers : pc[c] = "expire" =>
         Score(member[c]) \in Nat /\ Score(member[c]) <= clock
    BY Scores DEF Inv, Timely
<1> QED BY <1>1, <1>2, <1>3, <1>4

\* The key does not expire under a call that has trimmed the set.
LEMMA NoDropPastTrim ==
    ASSUME Inv, Remembering, Tick, expiry # None,
           NEW c \in Callers, pc[c] \in PastTrim
    PROVE  ~(clock' > expiry)
<1>1. clock \in Nat /\ env.slack \in Nat /\ expiry \in Nat
      /\ \A d \in Callers : now[d] \in Nat /\ now[d] <= clock
    BY Times
<1>2. \A d \in Callers : pc[d] \in PastTrim => clock < now[d] + env.slack
    BY DEF Tick, PastTrim, Busy
<1>3. clock' = clock + 1
    BY DEF Tick
<1>4. ~env.failures
    <2>1. env.slack # 0
        BY <1>1, <1>2
    <2> QED BY <2>1 DEF Remembering, Steadily
<1>5. PICK d \in Callers : pc[d] \in PastTrim /\ InTime(d)
    BY <1>4 DEF Remembering, Tended, PastTrim
<1> QED BY <1>1, <1>2, <1>3, <1>5 DEF InTime

\* A member that counts at the time of the clock counts for every call's trimming.
LEMMA TrimSpares ==
    ASSUME Inv, NEW c \in Callers, NEW m \in zset, Score(m) > clock - Span
    PROVE  m \in Kept(c)
<1>1. now[c] \in Nat /\ clock \in Nat /\ now[c] <= clock /\ Score(m) \in Nat
    BY Times
<1> QED BY <1>1, Spans DEF Kept, InWindow

LEMMA AdmittedNext ==
    Inv /\ Inv' /\ Remembering /\ [Next]_vars => AdmittedRemembered' /\ AdmittedOutlived'
<1> SUFFICES ASSUME Inv, Inv', TypeOK, Remembering, [Next]_vars
             PROVE  AdmittedRemembered' /\ AdmittedOutlived'
    BY DEF Inv
<1> USE DEF redis, local, history
<1>1. CASE Tick
    <2>1. /\ clock \in Nat /\ clock' \in Nat /\ (expiry # None => expiry \in Nat)
          /\ \A m \in admitted : Score(m) \in Nat
          /\ Span \in Nat /\ TicksPerSecond \in Nat /\ Seconds(Window + 1) = Span + TicksPerSecond
        BY Times, Spans DEF Inv, TypeOK
    <2>2. clock' = clock + 1 /\ admitted' \subseteq admitted
        BY <1>1 DEF Tick, InWindow
    <2>3. CASE expiry # None /\ clock' > expiry
        <3>1. expiry' = None /\ zset' = {}
            BY <1>1, <2>3 DEF Tick
        <3>2. \A m \in admitted : ~(Score(m) > clock' - Span)
            BY <2>1, <2>3 DEF Remembering, AdmittedOutlived, Outlived
        <3> QED BY <2>2, <3>1, <3>2 DEF AdmittedRemembered, AdmittedOutlived, InWindow
    <2>4. CASE ~(expiry # None /\ clock' > expiry)
        <3>1. expiry' = expiry /\ zset' = zset
            BY <1>1, <2>4 DEF Tick
        <3>2. \A m \in admitted : Score(m) > clock' - Span => Score(m) > clock - Span
            BY <2>1, <2>2
        <3> QED BY <2>2, <3>1, <3>2
                DEF Remembering, AdmittedRemembered, AdmittedOutlived, Outlived, InWindow
    <2> QED BY <2>3, <2>4
<1>2. ASSUME UNCHANGED <<clock, expiry, admitted>>, zset \subseteq zset'
      PROVE  AdmittedRemembered' /\ AdmittedOutlived'
    BY <1>2 DEF Remembering, AdmittedRemembered, AdmittedOutlived, Outlived, InWindow
<1>3. ASSUME NEW c \in Callers, IsAllowed(c) \/ GetRetryAfter(c) \/ Card(c) \/ ReadOldest(c)
                                \/ Add(c)
      PROVE  AdmittedRemembered' /\ AdmittedOutlived'
    BY <1>2, <1>3 DEF IsAllowed, GetRetryAfter, Call, Card, ReadOldest, Add
<1>4. ASSUME NEW c \in Callers, Trim(c) PROVE AdmittedRemembered' /\ AdmittedOutlived'
    <2>1. zset' = Kept(c) /\ clock' = clock /\ admitted' = admitted
          /\ (expiry' # None => expiry' = expiry)
        BY <1>4 DEF Trim
    <2>2. InWindow(admitted, clock) \subseteq Kept(c)
        BY TrimSpares DEF Remembering, AdmittedRemembered, InWindow
    <2> QED BY <2>1, <2>2
            DEF Remembering, AdmittedRemembered, AdmittedOutlived, Outlived, InWindow
<1>5. ASSUME UNCHANGED <<clock, zset>>, expiry' = NewExpiry PROVE AdmittedOutlived'
    <2>1. ASSUME zset # {} PROVE AdmittedOutlived'
        <3>1. expiry' = clock + Span + TicksPerSecond /\ clock' = clock
            BY <1>5, <2>1, Times, NewExpiryType DEF TypeOK
        <3>2. \A m \in admitted' : Score(m) \in Nat /\ Score(m) <= clock
            BY <3>1, Scores DEF Inv, TypeOK, Timely
        <3>3. clock \in Nat
            BY Times
        <3> QED BY <3>1, <3>2, <3>3, Spans DEF AdmittedOutlived, Outlived
    <2>2. ASSUME zset = {} PROVE expiry' = None
        BY <1>5, <2>2, Times, NewExpiryType DEF TypeOK
    <2> QED BY <2>1, <2>2 DEF AdmittedOutlived
<1>6. ASSUME NEW c \in Callers, Expire(c) PROVE AdmittedRemembered' /\ AdmittedOutlived'
    <2>1. AdmittedOutlived'
        BY <1>5, <1>6 DEF Expire
    <2>2. AdmittedRemembered'
        BY <1>6 DEF Expire, Remembering, AdmittedRemembered, AddedStays, InWindow
    <2> QED BY <2>1, <2>2
<1>7. ASSUME NEW c \in Callers, Fail(c) PROVE AdmittedRemembered' /\ AdmittedOutlived'
    <2>1. UNCHANGED <<clock, zset, admitted>>
        BY <1>7 DEF Fail
    <2>2. CASE expiry' = expiry
        BY <1>2, <2>1, <2>2
    <2>3. CASE expiry' = NewExpiry
        <3>1. AdmittedOutlived'
            BY <1>5, <2>1, <2>3
        <3>2. AdmittedRemembered'
            BY <2>1 DEF Remembering, AdmittedRemembered, InWindow
        <3> QED BY <3>1, <3>2
    <2> QED BY <1>7, <2>2, <2>3 DEF Fail
<1>8. CASE UNCHANGED vars
    BY <1>2, <1>8 DEF vars
<1> QED BY <1>1, <1>3, <1>4, <1>6, <1>7, <1>8 DEF Next

LEMMA AddedNext == Inv /\ Inv' /\ Remembering /\ [Next]_vars => AddedStays'
<1> SUFFICES ASSUME Inv, Inv', TypeOK, Remembering, [Next]_vars,
                    NEW d \in Callers, pc'[d] = "expire", Score(member'[d]) > clock' - Span
             PROVE  member'[d] \in zset'
    BY DEF Inv, AddedStays
<1> USE DEF redis, local, history
<1>1. CASE Tick
    <2>1. pc' = pc /\ member' = member /\ clock' = clock + 1
        BY <1>1 DEF Tick
    <2>2. ~(expiry # None /\ clock' > expiry)
        BY <1>1, <2>1, NoDropPastTrim DEF PastTrim
    <2>3. zset' = zset
        BY <1>1, <2>2 DEF Tick
    <2>4. clock \in Nat /\ Span \in Nat /\ Score(member[d]) \in Nat
        BY <2>1, Times, Spans
    <2>5. Score(member[d]) > clock - Span
        BY <2>1, <2>4
    <2> QED BY <2>1, <2>3, <2>5 DEF Remembering, AddedStays
<1>2. ASSUME clock' = clock, zset \subseteq zset', pc[d] = "expire", member'[d] = member[d]
      PROVE  member'[d] \in zset'
    BY <1>2 DEF Remembering, AddedStays
<1>3. ASSUME NEW c \in Callers, IsAllowed(c) \/ GetRetryAfter(c)
      PROVE  member'[d] \in zset'
    BY <1>2, <1>3 DEF IsAllowed, GetRetryAfter, Call, Goto, TypeOK
<1>4. ASSUME NEW c \in Callers, Trim(c) PROVE member'[d] \in zset'
    <2>1. pc[d] = "expire" /\ member' = member /\ clock' = clock
        BY <1>4 DEF Trim, Goto, TypeOK
    <2>2. member[d] \in zset
        BY <2>1 DEF Remembering, AddedStays
    <2> QED BY <1>4, <2>1, <2>2, TrimSpares DEF Trim
<1>5. ASSUME NEW c \in Callers, Card(c) \/ Expire(c) \/ ReadOldest(c) \/ Fail(c)
      PROVE  member'[d] \in zset'
    BY <1>2, <1>5 DEF Card, Expire, ReadOldest, Fail, End, Goto, TypeOK
<1>6. ASSUME NEW c \in Callers, Add(c) PROVE member'[d] \in zset'
    <2>1. CASE c = d
        BY <1>6, <2>1 DEF Add, TypeOK
    <2>2. CASE c # d
        BY <1>2, <1>6, <2>2 DEF Add, Goto, TypeOK
    <2> QED BY <2>1, <2>2
<1>7. CASE UNCHANGED vars
    BY <1>2, <1>7 DEF vars
<1> QED BY <1>1, <1>3, <1>4, <1>5, <1>6, <1>7 DEF Next

\* Where Tended allows a call past its trimming to be.
Attended(c) == InTime(c) \/ \E d \in Callers : pc[d] = "expire" /\ InTime(d)

\* A call that has just trimmed the set, and left members in it, is attended to.
LEMMA TrimAttends ==
    ASSUME Inv, Remembering, NEW c \in Callers, pc[c] # "expire",
           expiry # None, ~env.failures, Kept(c) # {}
    PROVE  InTime(c) \/ \E d \in Callers \ {c} : pc[d] = "expire" /\ InTime(d)
<1>1. PICK m \in zset : Score(m) > now[c] - Span
    BY DEF Kept, InWindow
<1>2. /\ now[c] \in Nat /\ Score(m) \in Nat /\ env.slack \in Nat /\ expiry \in Nat
      /\ env.slack <= TicksPerSecond
    BY Times DEF Remembering, Steadily
<1>3. CASE Outlived(m)
    BY <1>1, <1>2, <1>3, Spans DEF Outlived, InTime
<1>4. CASE \E d \in Callers : pc[d] = "expire" /\ member[d] = m
    BY <1>4 DEF Remembering, Tended, PastTrim
<1> QED BY <1>3, <1>4 DEF Remembering, Tended

LEMMA TendedNext == Inv /\ Inv' /\ Remembering /\ [Next]_vars => Tended'
<1> SUFFICES ASSUME Inv, Inv', TypeOK, Remembering, [Next]_vars,
                    expiry' # None, ~env'.failures
             PROVE  /\ \A m \in zset' : Outlived(m)' \/
                           \E d \in Callers : pc'[d] = "expire" /\ member'[d] = m
                    /\ \A x \in Callers : pc'[x] \in PastTrim => Attended(x)'
    BY DEF Inv, Tended, Attended
<1> USE DEF redis, local, history
<1> DEFINE Goal == /\ \A m \in zset' : Outlived(m)' \/
                          \E d \in Callers : pc'[d] = "expire" /\ member'[d] = m
                   /\ \A x \in Callers : pc'[x] \in PastTrim => Attended(x)'
<1>1. ASSUME UNCHANGED <<env, expiry>>, zset' \subseteq zset,
             \A d \in Callers : pc[d] = "expire" => pc'[d] = "expire",
             \A d \in Callers : pc[d] = "expire" =>
                                    member'[d] = member[d] /\ now'[d] = now[d],
             \A x \in Callers : pc'[x] \in PastTrim => pc[x] \in PastTrim /\ now'[x] = now[x]
      PROVE  Goal
    BY <1>1 DEF Remembering, Tended, Attended, InTime, Outlived
<1>2. CASE Tick
    <2>1. expiry' = expiry /\ zset' = zset /\ env' = env
        BY <1>2 DEF Tick
    <2> QED BY <1>1, <1>2, <2>1 DEF Tick
<1>3. ASSUME NEW c \in Callers, IsAllowed(c) \/ GetRetryAfter(c) PROVE Goal
    BY <1>1, <1>3 DEF IsAllowed, GetRetryAfter, Call, Goto, PastTrim, TypeOK
<1>4. ASSUME NEW c \in Callers, Trim(c) PROVE Goal
    <2>1. /\ expiry' = expiry /\ Kept(c) # {} /\ zset' = Kept(c) /\ Kept(c) \subseteq zset
          /\ UNCHANGED <<env, now, member>>
          /\ \A d \in Callers \ {c} : pc'[d] = pc[d]
          /\ pc[c] # "expire" /\ pc'[c] # "expire"
        BY <1>4 DEF Trim, Goto, Kept, InWindow, TypeOK
    <2>2. ASSUME NEW m \in zset'
          PROVE  Outlived(m)' \/ \E d \in Callers : pc'[d] = "expire" /\ member'[d] = m
        <3>1. Outlived(m) \/ \E d \in Callers \ {c} : pc[d] = "expire" /\ member[d] = m
            BY <2>1 DEF Remembering, Tended
        <3> QED BY <2>1, <3>1 DEF Outlived
    <2>3. ASSUME NEW x \in Callers, pc'[x] \in PastTrim PROVE Attended(x)'
        <3>1. InTime(x) \/ \E d \in Callers \ {c} : pc[d] = "expire" /\ InTime(d)
            <4>1. CASE x = c
                BY <2>1, <4>1, TrimAttends
            <4>2. CASE x # c
                BY <2>1, <2>3, <4>2 DEF Remembering, Tended
            <4> QED BY <4>1, <4>2
        <3> QED BY <2>1, <3>1 DEF Attended, InTime
    <2> QED BY <2>2, <2>3
<1>5. ASSUME NEW c \in Callers, Card(c) \/ ReadOldest(c) PROVE Goal
    BY <1>1, <1>5 DEF Card, ReadOldest, End, Goto, PastTrim, TypeOK
<1>6. ASSUME NEW c \in Callers, Add(c) PROVE Goal
    <2>1. PICK n : zset' = zset \cup {n} /\ member' = [member EXCEPT ![c] = n]
        BY <1>6 DEF Add
    <2>2. /\ UNCHANGED <<env, expiry, now>>
          /\ pc[c] = "add" /\ pc'[c] = "expire" /\ member'[c] = n
          /\ \A d \in Callers \ {c} : pc'[d] = pc[d] /\ member'[d] = member[d]
        BY <1>6, <2>1 DEF Add, Goto, TypeOK
    <2>3. ASSUME NEW m \in zset'
          PROVE  Outlived(m)' \/ \E d \in Callers : pc'[d] = "expire" /\ member'[d] = m
        <3>1. CASE m = n
            BY <2>2, <3>1
        <3>2. CASE m \in zset
            <4>1. Outlived(m) \/ \E d \in Callers \ {c} : pc[d] = "expire" /\ member[d] = m
                BY <2>2, <3>2 DEF Remembering, Tended
            <4> QED BY <2>2, <4>1 DEF Outlived
        <3> QED BY <2>1, <3>1, <3>2
    <2>4. ASSUME NEW x \in Callers, pc'[x] \in PastTrim PROVE Attended(x)'
        <3>1. Attended(x)
            BY <2>2, <2>4 DEF Remembering, Tended, PastTrim, Attended
        <3>2. \A d \in Callers : pc[d] = "expire" => pc'[d] = "expire"
            BY <2>2
        <3> QED BY <2>2, <3>1, <3>2 DEF Attended, InTime
    <2> QED BY <2>3, <2>4
<1>7. ASSUME NEW c \in Callers, Expire(c) PROVE Goal
    <2>1. expiry' = NewExpiry /\ UNCHANGED <<env, clock, zset>>
        BY <1>7 DEF Expire
    <2>2. expiry' = clock' + Span + TicksPerSecond
        BY <2>1, Times, NewExpiryType DEF TypeOK
    <2>3. /\ clock' \in Nat /\ env'.slack \in Nat /\ env'.slack <= TicksPerSecond
          /\ \A m \in zset' : Score(m) \in Nat /\ Score(m) <= clock'
          /\ \A x \in Callers : now'[x] \in Nat /\ now'[x] <= clock'
        <3>1. clock' \in Nat /\ env'.slack \in Nat /\ env'.slack <= TicksPerSecond
            BY <2>1, Times DEF Remembering, Steadily
        <3>2. \A m \in zset' : Score(m) \in Nat /\ Score(m) <= clock'
            BY Scores DEF Inv, TypeOK, Timely
        <3>3. \A x \in Callers : now'[x] \in Nat /\ now'[x] <= clock'
            BY LimiterAssumption DEF Inv, TypeOK, Timely
        <3> QED BY <3>1, <3>2, <3>3
    <2>4. \A m \in zset' : Outlived(m)'
        BY <2>2, <2>3, Spans DEF Outlived
    <2>5. \A x \in Callers : InTime(x)'
        BY <2>2, <2>3, Spans DEF InTime
    <2> QED BY <2>4, <2>5 DEF Attended
<1>8. ASSUME NEW c \in Callers, Fail(c) PROVE FALSE
    BY <1>8 DEF Fail
<1>9. CASE UNCHANGED vars
    BY <1>1, <1>9 DEF vars
<1> QED BY <1>2, <1>3, <1>4, <1>5, <1>6, <1>7, <1>8, <1>9 DEF Next

LEMMA RememberingNext == Inv /\ Inv' /\ Remembering /\ [Next]_vars => Remembering'
<1> SUFFICES ASSUME Inv, Inv', Remembering, [Next]_vars PROVE Remembering'
    OBVIOUS
<1>1. env' = env
    BY DEF Next, Tick, IsAllowed, GetRetryAfter, Call, Trim, Card, Add, Expire, ReadOldest,
       Fail, vars
<1> QED BY <1>1, AdmittedNext, AddedNext, TendedNext DEF Remembering, Steadily

\* Every request that is_allowed let through is remembered for a whole window, beside any
\* number of calls with older and newer times, if calls end within the second by which the
\* time to live exceeds the window, and those that may fail take no time.
THEOREM AdmissionsAreRemembered ==
    ASSUME \A d \in Regimes : Steadily(d)
    PROVE  Spec => []AdmittedRemembered
<1>1. Init => Remembering
    BY DEF Init, Remembering, AddedStays, AdmittedOutlived, Tended, AdmittedRemembered, InWindow
<1>2. Remembering => AdmittedRemembered
    BY DEF Remembering
<1> QED BY <1>1, <1>2, RememberingNext, Invariant, PTL DEF Spec
=============================================================================
