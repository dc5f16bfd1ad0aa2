----------------------- MODULE MemoryRateLimiter_proofs ----------------------
(***************************************************************************)
(* Proofs about MemoryRateLimiter, for any keys, callers, limit, window    *)
(* and resolution of the clock.                                            *)
(***************************************************************************)
EXTENDS MemoryRateLimiter, FiniteSetTheorems, TLAPS

-----------------------------------------------------------------------------
(* Spans of time, and the oldest of some times.                            *)

LEMMA Spans ==
    /\ TicksPerSecond \in Nat \ {0} /\ Window \in Nat \ {0}
    /\ Span \in Nat /\ Span > 0
<1>1. TicksPerSecond \in Nat \ {0} /\ Window \in Nat \ {0}
    BY LimiterAssumption
<1>2. Window * TicksPerSecond \in Nat /\ Window * TicksPerSecond > 0
    BY <1>1
<1> QED BY <1>1, <1>2 DEF Span, Seconds

\* A quotient by its bounds.
LEMMA Quotient ==
    ASSUME NEW n \in Int, NEW i \in Int, i > 0
    PROVE  /\ n \div i \in Int
           /\ n < ((n \div i) + 1) * i
<1>1. n \div i \in Int
    OBVIOUS
<1>2. n < ((n \div i) + 1) * i
    OBVIOUS
<1> QED BY <1>1, <1>2

\* The product of a wait, in seconds.
LEMMA Waits ==
    ASSUME NEW n \in Int, n >= 1
    PROVE  Seconds(n) \in Nat /\ \A m \in Int : m <= n => Seconds(m) <= Seconds(n)
BY LimiterAssumption DEF Seconds

\* Whoever is told to wait waits until the oldest request has left the window.
LEMMA RetryCoversOldest ==
    ASSUME NEW k \in Keys, NEW oldest \in Int, clock \in Int
    PROVE  /\ RetryAfter(k, oldest) \in Nat \ {0}
           /\ Seconds(RetryAfter(k, oldest)) \in Nat
           /\ oldest + Span < clock + Seconds(RetryAfter(k, oldest))
<1> DEFINE n == Span - (clock - oldest)
           s == n \div TicksPerSecond + 1
<1>1. n \in Int /\ TicksPerSecond \in Int /\ TicksPerSecond > 0
    BY Spans
<1>2. s \in Int
    BY <1>1, Quotient
<1>3. n < Seconds(s)
    BY <1>1, Quotient DEF Seconds
<1>4. RetryAfter(k, oldest) = IF s < 1 THEN 1 ELSE s
    BY DEF RetryAfter
<1> HIDE DEF s
<1>5. RetryAfter(k, oldest) \in Int /\ RetryAfter(k, oldest) >= 1 /\ s <= RetryAfter(k, oldest)
    BY <1>2, <1>4
<1>6. Seconds(RetryAfter(k, oldest)) \in Nat /\ Seconds(s) <= Seconds(RetryAfter(k, oldest))
    BY <1>2, <1>5, Waits
<1>7. Seconds(s) \in Int
    BY <1>2, Spans DEF Seconds
<1> QED BY <1>1, <1>3, <1>5, <1>6, <1>7, Spans

\* Times have a least one, however many they are.
LEMMA Earliest ==
    ASSUME NEW T \in SUBSET Nat, T # {}
    PROVE  \E t \in T : \A u \in T : t <= u
<1> DEFINE Before == OpToRel(<, Nat)
<1>1. IsWellFoundedOn(Before, Nat)
    BY NatLessThanWellFounded
<1>2. \A t, u \in Nat : <<t, u>> \in Before <=> t < u
    BY DEF OpToRel
<1> HIDE DEF Before
<1>3. PICK t \in T : \A u \in T : <<u, t>> \notin Before
    BY <1>1, WFMin
<1>4. \A u \in T : ~(u < t)
    BY <1>2, <1>3
<1>5. \A u \in T : t <= u
    BY <1>4
<1> QED BY <1>5

\* The operand of get_retry_after, as the model names it.
Oldest(k) == CHOOSE t \in {At(r) : r \in times[k]} : \A r \in times[k] : t <= At(r)

LEMMA OldestIsOne ==
    ASSUME NEW k \in Keys, times[k] \in SUBSET Stamps, times[k] # {}
    PROVE  /\ Oldest(k) \in Nat
           /\ \E r \in times[k] : At(r) = Oldest(k)
<1> DEFINE T == {At(r) : r \in times[k]}
<1>1. T \in SUBSET Nat /\ T # {}
    BY LimiterAssumption DEF Stamps, At
<1>2. PICK t \in T : \A u \in T : t <= u
    BY <1>1, Earliest
<1>3. \A r \in times[k] : t <= At(r)
    BY <1>2
<1>4. Oldest(k) \in T
    BY <1>3 DEF Oldest
<1> QED BY <1>1, <1>4

-----------------------------------------------------------------------------
(* Types, with threads or without.                                         *)

Active(c) == pc[c] \notin Resting

\* A call knows its key until it ends, and every list is finite.
Shape ==
    /\ \A c \in Callers : Active(c) => key[c] \in Keys
    /\ \A c \in Callers : IsFiniteSet(seen[c])
    /\ \A k \in Keys : IsFiniteSet(times[k]) /\ IsFiniteSet(admitted[k])

Inv == TypeOK /\ Shape

\* There is always a number left to tell a request from the others of its time.
LEMMA FreshIsNew ==
    ASSUME Inv, NEW c \in Callers, key[c] \in Keys
    PROVE  /\ Fresh(c) \in Stamps /\ At(Fresh(c)) = now[c]
           /\ Fresh(c) \notin seen[c] \cup times[key[c]] \cup admitted[key[c]]
<1> DEFINE others == seen[c] \cup times[key[c]] \cup admitted[key[c]]
           n == Cardinality(others) + 1
           candidates == {now[c]} \X (1..n)
<1>1. IsFiniteSet(others)
    <2>1. IsFiniteSet(seen[c]) /\ IsFiniteSet(times[key[c]]) /\ IsFiniteSet(admitted[key[c]])
        BY DEF Inv, Shape
    <2>2. IsFiniteSet(seen[c] \cup times[key[c]])
        BY <2>1, FS_Union
    <2> QED BY <2>1, <2>2, FS_Union
<1>2. n \in Nat \ {0}
    BY <1>1, FS_CardinalityType
<1>3. Cardinality(candidates) = n
    <2> HIDE DEF n
    <2>1. IsFiniteSet({now[c]}) /\ Cardinality({now[c]}) = 1
        BY FS_Singleton
    <2>2. IsFiniteSet(1..n) /\ Cardinality(1..n) = n
        BY <1>2, FS_Interval
    <2>3. Cardinality({now[c]} \X (1..n)) = Cardinality({now[c]}) * Cardinality(1..n)
        BY <2>1, <2>2, FS_Product
    <2> QED BY <1>2, <2>1, <2>2, <2>3
<1>4. ~(candidates \subseteq others)
    <2> SUFFICES ASSUME candidates \subseteq others PROVE FALSE
        OBVIOUS
    <2>1. Cardinality(candidates) <= Cardinality(others)
        BY <1>1, FS_Subset
    <2>2. Cardinality(others) \in Nat
        BY <1>1, FS_CardinalityType
    <2> QED BY <1>3, <2>1, <2>2
<1>5. Fresh(c) \in candidates /\ Fresh(c) \notin others
    <2>1. \E r \in candidates : r \notin others
        BY <1>4
    <2>2. Fresh(c) = CHOOSE r \in candidates : r \notin others
        BY DEF Fresh
    <2> QED BY <2>1, <2>2
<1>6. now[c] \in 0..MaxClock /\ \A i \in 1..n : i \in Nat
    BY <1>2 DEF Inv, TypeOK
<1> QED BY <1>5, <1>6 DEF Stamps, At

\* The local variables of a call that ends.
LEMMA EndType ==
    ASSUME TypeOK, NEW c \in Callers, NEW place \in Resting, End(c, place)
    PROVE  /\ pc' \in [Callers -> {"idle", "sweep", "mark", "delete", "read", "write", "KeyError"}]
           /\ key' \in [Callers -> Keys \cup {None}]
           /\ now' \in [Callers -> 0..MaxClock]
           /\ seen' \in [Callers -> SUBSET Stamps]
           /\ stale' \in [Callers -> SUBSET Keys]
<1>1. 0 \in 0..MaxClock
    BY LimiterAssumption
<1> QED BY <1>1 DEF End, Goto, TypeOK, Resting

LEMMA GotoType ==
    ASSUME TypeOK, NEW c \in Callers, Goto(c, "sweep") \/ Goto(c, "mark") \/ Goto(c, "delete")
                                      \/ Goto(c, "read") \/ Goto(c, "write")
    PROVE  pc' \in [Callers -> {"idle", "sweep", "mark", "delete", "read", "write", "KeyError"}]
BY DEF Goto, TypeOK

LEMMA TypeNext == Inv /\ [Next]_vars => TypeOK'
<1> SUFFICES ASSUME Inv, TypeOK, Shape, [Next]_vars PROVE TypeOK'
    BY DEF Inv
<1> USE DEF dict, local, history
<1>0. clock \in Nat
    BY LimiterAssumption DEF TypeOK
<1>1. CASE Tick
    <2>1. clock' \in 0..MaxClock
        BY <1>1, LimiterAssumption DEF Tick, TypeOK
    <2>2. admitted' \in [Keys -> SUBSET Stamps]
        BY <1>1 DEF Tick, TypeOK, InWindow
    <2> QED BY <1>1, <2>1, <2>2 DEF Tick, TypeOK
<1>2. ASSUME NEW c \in Callers, NEW k \in Keys, IsAllowed(c, k) PROVE TypeOK'
    BY <1>2, GotoType DEF IsAllowed, TypeOK
<1>3. ASSUME NEW c \in Callers, NEW k \in Keys, GetRetryAfter(c, k) PROVE TypeOK'
    <2>1. promise' = [promise EXCEPT ![k] = IF times[k] = {} THEN clock
                         ELSE clock + Seconds(RetryAfter(k, Oldest(k)))]
        BY <1>3 DEF GetRetryAfter, Oldest
    <2>2. times[k] # {} => clock + Seconds(RetryAfter(k, Oldest(k))) \in Nat
        <3> SUFFICES ASSUME times[k] # {}
                     PROVE  clock + Seconds(RetryAfter(k, Oldest(k))) \in Nat
            OBVIOUS
        <3>1. Oldest(k) \in Nat
            BY OldestIsOne DEF TypeOK
        <3>2. Seconds(RetryAfter(k, Oldest(k))) \in Nat
            BY <1>0, <3>1, RetryCoversOldest
        <3> QED BY <1>0, <3>2
    <2>3. promise' \in [Keys -> Nat \cup {None}]
        BY <1>0, <2>1, <2>2 DEF TypeOK
    <2> QED BY <1>3, <2>3 DEF GetRetryAfter, TypeOK
<1>4. ASSUME NEW c \in Callers, Sweep(c) PROVE TypeOK'
    <2>1. Goto(c, "read") \/ Goto(c, "mark")
        BY <1>4 DEF Sweep
    <2> QED BY <1>4, <2>1, GotoType DEF Sweep, TypeOK
<1>5. ASSUME NEW c \in Callers, Mark(c) PROVE TypeOK'
    BY <1>5, GotoType DEF Mark, TypeOK
<1>6. ASSUME NEW c \in Callers, Delete(c) PROVE TypeOK'
    <2>1. CASE stale[c] = {} /\ Goto(c, "read") /\ UNCHANGED <<dict, key, now, seen, stale>>
        BY <1>6, <2>1, GotoType DEF Delete, TypeOK
    <2>2. ASSUME NEW k \in stale[c] \cap present, present' = present \ {k},
                 times' = [times EXCEPT ![k] = {}], stale' = [stale EXCEPT ![c] = @ \ {k}],
                 UNCHANGED <<pc, key, now, seen>>
          PROVE  TypeOK'
        BY <1>6, <2>2 DEF Delete, TypeOK
    <2>3. CASE End(c, "KeyError") /\ UNCHANGED dict
        BY <1>6, <2>3, EndType DEF Delete, TypeOK, Resting
    <2> QED BY <1>6, <2>1, <2>2, <2>3 DEF Delete
<1>7. ASSUME NEW c \in Callers, Read(c) PROVE TypeOK'
    <2>1. key[c] \in Keys
        BY <1>7 DEF Read, Shape, Active, Resting
    <2>2. seen' \in [Callers -> SUBSET Stamps]
        BY <1>7, <2>1 DEF Read, InWindow, TypeOK
    <2> QED BY <1>7, <2>1, <2>2, GotoType DEF Read, TypeOK
<1>8. ASSUME NEW c \in Callers, Write(c) PROVE TypeOK'
    <2>1. key[c] \in Keys
        BY <1>8 DEF Write, Shape, Active, Resting
    <2>2. Fresh(c) \in Stamps
        BY <2>1, FreshIsNew
    <2>3. /\ times' \in [Keys -> SUBSET Stamps]
          /\ \A k \in Keys \ {key[c]} : times'[k] = times[k]
        BY <1>8, <2>1, <2>2 DEF Write, WriteDenied, WriteAllowed, TypeOK
    <2>4. admitted' \in [Keys -> SUBSET Stamps] /\ promise' \in [Keys -> Nat \cup {None}]
        BY <1>8, <2>1, <2>2 DEF Write, WriteDenied, WriteAllowed, TypeOK, InWindow
    <2>5. present' = present \cup {key[c]} /\ End(c, "idle") /\ UNCHANGED <<clock, lastSweep>>
        BY <1>8 DEF Write
    <2>6. present' \subseteq Keys /\ \A k \in Keys \ present' : times'[k] = {}
        BY <2>1, <2>3, <2>5 DEF TypeOK
    <2> QED BY <2>3, <2>4, <2>5, <2>6, EndType DEF TypeOK, Resting
<1>9. CASE UNCHANGED vars
    BY <1>9 DEF vars, TypeOK
<1> QED BY <1>1, <1>2, <1>3, <1>4, <1>5, <1>6, <1>7, <1>8, <1>9 DEF Next

LEMMA ShapeNext == Inv /\ [Next]_vars => Shape'
<1> SUFFICES ASSUME Inv, TypeOK, Shape, [Next]_vars PROVE Shape'
    BY DEF Inv
<1> USE DEF dict, local, history
<1>1. CASE Tick
    <2>1. \A k \in Keys : IsFiniteSet(admitted'[k])
        <3> SUFFICES ASSUME NEW k \in Keys PROVE IsFiniteSet(admitted'[k])
            OBVIOUS
        <3>1. admitted'[k] \subseteq admitted[k]
            BY <1>1 DEF Tick, InWindow
        <3> QED BY <3>1, FS_Subset DEF Shape
    <2> QED BY <1>1, <2>1 DEF Tick, Shape, Active
<1>2. ASSUME NEW c \in Callers, NEW k \in Keys, IsAllowed(c, k) PROVE Shape'
    BY <1>2 DEF IsAllowed, Goto, Shape, Active, TypeOK
<1>3. ASSUME NEW c \in Callers, NEW k \in Keys, GetRetryAfter(c, k) PROVE Shape'
    BY <1>3 DEF GetRetryAfter, Shape, Active
<1>4. ASSUME NEW c \in Callers, Sweep(c) \/ Mark(c) PROVE Shape'
    BY <1>4 DEF Sweep, Mark, Goto, Shape, Active, Resting, TypeOK
<1>5. ASSUME NEW c \in Callers, NEW place \in Resting, End(c, place),
             \A k \in Keys : IsFiniteSet(times'[k]) /\ IsFiniteSet(admitted'[k])
      PROVE  Shape'
    BY <1>5, FS_EmptySet DEF End, Goto, Shape, Active, TypeOK
<1>6. ASSUME NEW c \in Callers, Delete(c) PROVE Shape'
    <2>1. CASE Goto(c, "read") /\ UNCHANGED <<dict, key, now, seen, stale>>
        BY <1>6, <2>1 DEF Delete, Goto, Shape, Active, Resting, TypeOK
    <2>2. ASSUME NEW k \in stale[c] \cap present, times' = [times EXCEPT ![k] = {}],
                 UNCHANGED <<pc, key, now, seen>>
          PROVE  Shape'
        BY <1>6, <2>2, FS_EmptySet DEF Delete, Shape, Active, TypeOK
    <2>3. CASE End(c, "KeyError") /\ UNCHANGED dict
        BY <1>5, <1>6, <2>3 DEF Delete, Shape, Resting
    <2> QED BY <1>6, <2>1, <2>2, <2>3 DEF Delete
<1>7. ASSUME NEW c \in Callers, Read(c) PROVE Shape'
    <2>1. key[c] \in Keys
        BY <1>7 DEF Read, Shape, Active, Resting
    <2>2. IsFiniteSet(InWindow(times[key[c]], now[c]))
        BY <2>1, FS_Subset DEF InWindow, Shape
    <2> QED BY <1>7, <2>1, <2>2 DEF Read, Goto, Shape, Active, Resting, TypeOK
<1>8. ASSUME NEW c \in Callers, Write(c) PROVE Shape'
    <2>1. key[c] \in Keys
        BY <1>8 DEF Write, Shape, Active, Resting
    <2>2. \A k \in Keys : IsFiniteSet(times'[k])
        <3>1. IsFiniteSet(seen[c] \cup {Fresh(c)}) /\ IsFiniteSet(seen[c])
            BY FS_AddElement DEF Shape
        <3> QED BY <1>8, <2>1, <3>1 DEF Write, WriteDenied, WriteAllowed, Shape, TypeOK
    <2>3. \A k \in Keys : IsFiniteSet(admitted'[k])
        <3>1. IsFiniteSet(admitted[key[c]] \cup {Fresh(c)})
            BY <2>1, FS_AddElement DEF Shape
        <3>2. IsFiniteSet(InWindow(admitted[key[c]] \cup {Fresh(c)}, clock))
            BY <3>1, FS_Subset DEF InWindow
        <3> QED BY <1>8, <2>1, <3>2 DEF Write, WriteDenied, WriteAllowed, Shape, TypeOK
    <2> QED BY <1>5, <1>8, <2>2, <2>3 DEF Write, Resting
<1>9. CASE UNCHANGED vars
    BY <1>9 DEF vars, Shape, Active
<1> QED BY <1>1, <1>2, <1>3, <1>4, <1>6, <1>7, <1>8, <1>9 DEF Next

LEMMA InvInit == Init => Inv
<1> SUFFICES ASSUME Init PROVE Inv
    OBVIOUS
<1>1. 0 \in 0..MaxClock
    BY LimiterAssumption
<1>2. IsFiniteSet({})
    BY FS_EmptySet
<1> QED BY <1>1, <1>2 DEF Init, Inv, TypeOK, Shape, Active, Resting

LEMMA Invariant == Spec => []Inv
<1>1. Inv /\ [Next]_vars => Inv'
    BY TypeNext, ShapeNext DEF Inv
<1> QED BY <1>1, InvInit, PTL DEF Spec

\* Every state of the in-memory limiter is well typed, in an event loop and with threads.
THEOREM TypeCorrect == Spec => []TypeOK
<1>1. Inv => TypeOK
    BY DEF Inv
<1> QED BY <1>1, Invariant, PTL

-----------------------------------------------------------------------------
(* In an event loop: one call at a time, which takes no time.              *)

Solo ==
    /\ ~Threaded
    /\ \A c, d \in Callers : Active(c) /\ Active(d) => c = d
    /\ \A c \in Callers : Active(c) => now[c] = clock

\* The steps of a call's own, one of which ends it.
Step(c) == Sweep(c) \/ Mark(c) \/ Delete(c) \/ Read(c) \/ Write(c)

\* A step of a call leaves the others alone.
LEMMA StepIsLocal ==
    ASSUME TypeOK, NEW c \in Callers, Step(c)
    PROVE  /\ Active(c) /\ clock' = clock
           /\ Active(c)' => key'[c] = key[c] /\ now'[c] = now[c]
           /\ \A d \in Callers \ {c} :
                 /\ pc'[d] = pc[d] /\ key'[d] = key[d] /\ now'[d] = now[d]
                 /\ seen'[d] = seen[d] /\ stale'[d] = stale[d]
<1> USE DEF dict, local, history
<1>1. CASE Sweep(c) \/ Mark(c) \/ Read(c)
    BY <1>1 DEF Sweep, Mark, Read, Goto, TypeOK, Active, Resting
<1>2. CASE Delete(c)
    BY <1>2 DEF Delete, End, Goto, TypeOK, Active, Resting
<1>3. CASE Write(c)
    BY <1>3 DEF Write, End, Goto, TypeOK, Active, Resting
<1> QED BY <1>1, <1>2, <1>3 DEF Step

LEMMA SoloNext == TypeOK /\ Solo /\ [Next]_vars => Solo'
<1> SUFFICES ASSUME TypeOK, Solo, [Next]_vars PROVE Solo'
    OBVIOUS
<1> USE DEF dict, local, history
<1>1. CASE Tick
    BY <1>1 DEF Tick, Solo, Active
<1>2. ASSUME NEW c \in Callers, NEW k \in Keys, IsAllowed(c, k) PROVE Solo'
    BY <1>2 DEF IsAllowed, Free, Goto, Solo, Active, TypeOK
<1>3. ASSUME NEW c \in Callers, NEW k \in Keys, GetRetryAfter(c, k) PROVE Solo'
    BY <1>3 DEF GetRetryAfter, Solo, Active
<1>4. ASSUME NEW c \in Callers, Step(c) PROVE Solo'
    BY <1>4, StepIsLocal DEF Solo, Active
<1>5. CASE UNCHANGED vars
    BY <1>5 DEF vars, Solo, Active
<1> QED BY <1>1, <1>2, <1>3, <1>4, <1>5 DEF Next, Step

\* What has been recorded does not lie ahead of the clock.
Dated ==
    /\ lastSweep <= clock
    /\ \A k \in Keys : \A r \in times[k] : At(r) <= clock

\* What a call found out still holds when it acts on it.
Ready(c) ==
    /\ pc[c] = "delete" =>
          /\ stale[c] \subseteq present /\ lastSweep = now[c]
          /\ \A k \in stale[c] : Idle(k, now[c])
    /\ pc[c] \in {"read", "write"} => now[c] - lastSweep < Span
    /\ pc[c] = "write" => seen[c] = InWindow(times[key[c]], now[c])

Calm == Inv /\ Solo /\ Dated /\ \A c \in Callers : Ready(c)

\* Times as the arithmetic needs them.
LEMMA Times ==
    ASSUME Calm
    PROVE  /\ clock \in Nat /\ lastSweep \in Int /\ lastSweep <= clock
           /\ Span \in Nat /\ Span > 0
           /\ \A c \in Callers : Active(c) => now[c] = clock
           /\ \A k \in Keys : \A r \in times[k] : At(r) \in Nat /\ At(r) <= clock
           /\ \A k \in Keys : \A r \in admitted[k] : At(r) \in Nat
<1>1. clock \in Nat /\ lastSweep \in Int /\ Span \in Nat /\ Span > 0
    BY Spans, LimiterAssumption DEF Calm, Inv, TypeOK
<1>2. \A r \in Stamps : At(r) \in Nat
    BY LimiterAssumption DEF Stamps, At
<1>3. \A k \in Keys : times[k] \subseteq Stamps /\ admitted[k] \subseteq Stamps
    BY DEF Calm, Inv, TypeOK
<1> QED BY <1>1, <1>2, <1>3 DEF Calm, Solo, Dated

\* The return of a call changes no other key.
LEMMA WriteElsewhere ==
    ASSUME Calm, NEW c \in Callers, Write(c), NEW j \in Keys, j # key[c]
    PROVE  times'[j] = times[j] /\ admitted'[j] = admitted[j] /\ promise'[j] = promise[j]
BY DEF Write, WriteDenied, WriteAllowed, history, Calm, Inv, TypeOK

\* What the return of a call makes of the list of its key.
LEMMA WriteEffect ==
    ASSUME Calm, NEW c \in Callers, Write(c)
    PROVE  LET k == key[c]
               Filtered == InWindow(times[k], clock)
           IN  /\ k \in Keys /\ seen[c] = Filtered /\ Filtered \subseteq times[k]
               /\ IsFiniteSet(times[k]) /\ IsFiniteSet(Filtered)
               /\ Cardinality(Filtered) <= Cardinality(times[k])
               /\ Cardinality(Filtered) \in Nat /\ Cardinality(times[k]) \in Nat
               /\ At(Fresh(c)) = clock /\ Fresh(c) \notin times[k]
               /\ \/ /\ Cardinality(Filtered) >= Limit /\ times'[k] = Filtered
                     /\ UNCHANGED <<admitted, promise>>
                  \/ /\ Cardinality(Filtered) < Limit /\ times'[k] = Filtered \cup {Fresh(c)}
                     /\ admitted'[k] = InWindow(admitted[k] \cup {Fresh(c)}, clock)
                     /\ promise'[k] = None
<1> DEFINE k == key[c]
           Filtered == InWindow(times[k], clock)
<1>1. k \in Keys /\ now[c] = clock /\ seen[c] = Filtered
    BY DEF Write, Calm, Inv, Shape, Solo, Active, Resting, Ready
<1>2. IsFiniteSet(times[k]) /\ Filtered \subseteq times[k]
    BY <1>1 DEF InWindow, Calm, Inv, Shape
<1>3. /\ IsFiniteSet(Filtered) /\ Cardinality(Filtered) <= Cardinality(times[k])
      /\ Cardinality(Filtered) \in Nat /\ Cardinality(times[k]) \in Nat
    BY <1>2, FS_Subset, FS_CardinalityType
<1>4. At(Fresh(c)) = clock /\ Fresh(c) \notin times[k]
    BY <1>1, FreshIsNew DEF Calm
<1>5. CASE WriteDenied(c)
    <2>1. times'[k] = seen[c] /\ Cardinality(seen[c]) >= Limit /\ UNCHANGED <<admitted, promise>>
        BY <1>1, <1>5 DEF WriteDenied, history, Calm, Inv, TypeOK
    <2> QED BY <1>1, <1>2, <1>3, <1>4, <2>1
<1>6. CASE WriteAllowed(c)
    <2>1. /\ times'[k] = seen[c] \cup {Fresh(c)} /\ Cardinality(seen[c]) < Limit
          /\ admitted'[k] = InWindow(admitted[k] \cup {Fresh(c)}, clock)
          /\ promise'[k] = None
        BY <1>1, <1>6 DEF WriteAllowed, Calm, Inv, TypeOK
    <2> QED BY <1>1, <1>2, <1>3, <1>4, <2>1
<1> QED BY <1>5, <1>6 DEF Write

\* What a deletion makes of the dict: nothing that counts is lost, and no KeyError raised.
LEMMA DeleteEffect ==
    ASSUME Calm, NEW c \in Callers, Delete(c)
    PROVE  /\ pc[c] = "delete" /\ lastSweep = clock /\ now'[c] = now[c]
           /\ UNCHANGED <<clock, lastSweep, admitted, promise>>
           /\ \/ /\ stale[c] = {} /\ pc'[c] = "read" /\ UNCHANGED <<times, present>>
              \/ \E k \in stale[c] :
                    /\ k \in present /\ k \in Keys /\ Idle(k, clock)
                    /\ present' = present \ {k}
                    /\ times'[k] = {} /\ \A j \in Keys \ {k} : times'[j] = times[j]
                    /\ stale'[c] = stale[c] \ {k} /\ pc'[c] = "delete"
<1> USE DEF dict, local, history
<1>1. pc[c] = "delete" /\ now[c] = clock /\ lastSweep = clock
      /\ stale[c] \subseteq present /\ \A k \in stale[c] : Idle(k, clock)
    BY DEF Delete, Calm, Ready, Solo, Active, Resting
<1>2. UNCHANGED <<clock, lastSweep, admitted, promise>>
    BY DEF Delete
<1>3. CASE stale[c] = {} /\ Goto(c, "read") /\ UNCHANGED <<dict, key, now, seen, stale>>
    BY <1>1, <1>2, <1>3 DEF Goto, Calm, Inv, TypeOK
<1>4. ASSUME NEW k \in stale[c] \cap present, present' = present \ {k},
             times' = [times EXCEPT ![k] = {}], stale' = [stale EXCEPT ![c] = @ \ {k}],
             UNCHANGED <<pc, key, now, seen>>
      PROVE  /\ now'[c] = now[c]
             /\ k \in present /\ k \in Keys /\ Idle(k, clock)
             /\ times'[k] = {} /\ \A j \in Keys \ {k} : times'[j] = times[j]
             /\ stale'[c] = stale[c] \ {k} /\ pc'[c] = "delete"
    BY <1>1, <1>4 DEF Calm, Inv, TypeOK
<1>5. ~(stale[c] \ present # {})
    BY <1>1
<1> QED BY <1>1, <1>2, <1>3, <1>4, <1>5 DEF Delete

LEMMA DatedNext == Calm /\ Inv' /\ [Next]_vars => Dated'
<1> SUFFICES ASSUME Calm, Inv', [Next]_vars PROVE Dated'
    OBVIOUS
<1> USE DEF dict, local, history
<1>0. Dated /\ clock \in Nat /\ lastSweep \in Int
    BY Times DEF Calm
<1>1. CASE Tick
    <2>1. clock' = clock + 1 /\ lastSweep' = lastSweep /\ times' = times
        BY <1>1 DEF Tick
    <2>2. lastSweep' <= clock'
        BY <1>0, <2>1 DEF Dated
    <2>3. \A k \in Keys : \A r \in times[k] : At(r) <= clock + 1
        BY <1>0, Times
    <2> QED BY <2>1, <2>2, <2>3 DEF Dated
<1>2. ASSUME NEW c \in Callers, NEW k \in Keys, IsAllowed(c, k) \/ GetRetryAfter(c, k)
      PROVE  Dated'
    BY <1>0, <1>2 DEF IsAllowed, GetRetryAfter, Dated
<1>3. ASSUME NEW c \in Callers, Sweep(c) \/ Read(c) PROVE Dated'
    BY <1>0, <1>3 DEF Sweep, Read, Dated
<1>4. ASSUME NEW c \in Callers, Mark(c) PROVE Dated'
    <2>1. lastSweep' = clock /\ clock' = clock /\ times' = times
        BY <1>4 DEF Mark, Calm, Solo, Active, Resting
    <2> QED BY <1>0, <2>1 DEF Dated
<1>5. ASSUME NEW c \in Callers, Delete(c) PROVE Dated'
    BY <1>0, <1>5, DeleteEffect DEF Dated
<1>6. ASSUME NEW c \in Callers, Write(c) PROVE Dated'
    <2>1. clock' = clock /\ lastSweep' = lastSweep
        BY <1>6 DEF Write
    <2>2. ASSUME NEW k \in Keys, NEW r \in times'[k] PROVE r \in times[k] \/ At(r) = clock
        <3>1. CASE k = key[c]
            <4>1. r \in InWindow(times[k], clock) \cup {Fresh(c)} /\ At(Fresh(c)) = clock
                BY <1>6, <3>1, WriteEffect
            <4> QED BY <4>1 DEF InWindow
        <3>2. CASE k # key[c]
            BY <1>6, <3>2, WriteElsewhere
        <3> QED BY <3>1, <3>2
    <2> QED BY <1>0, <2>1, <2>2 DEF Dated
<1>7. CASE UNCHANGED vars
    BY <1>0, <1>7 DEF vars, Dated
<1> QED BY <1>1, <1>2, <1>3, <1>4, <1>5, <1>6, <1>7 DEF Next

LEMMA ReadyNext == Calm /\ Inv' /\ Solo' /\ [Next]_vars => \A c \in Callers : Ready(c)'
<1> SUFFICES ASSUME Calm, TypeOK, Inv', Solo', [Next]_vars, NEW d \in Callers PROVE Ready(d)'
    BY DEF Calm, Inv
<1> USE DEF dict, local, history
<1>0. ASSUME ~Active(d)' PROVE Ready(d)'
    BY <1>0 DEF Ready, Active, Resting
<1>1. CASE Tick
    BY <1>0, <1>1 DEF Tick, Active, Calm, Solo
<1>2. ASSUME NEW c \in Callers, NEW k \in Keys, IsAllowed(c, k) PROVE Ready(d)'
    <2>1. pc'[d] = "sweep" \/ ~Active(d)'
        BY <1>2 DEF IsAllowed, Free, Goto, Calm, Solo, Active, TypeOK
    <2> QED BY <1>0, <2>1 DEF Ready
<1>3. ASSUME UNCHANGED <<dict, lastSweep, local>> PROVE Ready(d)'
    BY <1>3 DEF Calm, Ready, InWindow, Idle
<1>4. ASSUME NEW c \in Callers, NEW k \in Keys, GetRetryAfter(c, k) PROVE Ready(d)'
    BY <1>3, <1>4 DEF GetRetryAfter
<1>5. ASSUME NEW c \in Callers, Step(c), c # d PROVE Ready(d)'
    <2>1. ~Active(d)'
        BY <1>5, StepIsLocal DEF Calm, Solo, Active
    <2> QED BY <1>0, <2>1
<1>6. ASSUME Sweep(d) PROVE Ready(d)'
    BY <1>6 DEF Sweep, Goto, TypeOK, Ready
<1>7. ASSUME Mark(d) PROVE Ready(d)'
    BY <1>7 DEF Mark, Goto, TypeOK, Ready, Idle
<1>8. ASSUME Delete(d) PROVE Ready(d)'
    <2>1. lastSweep' = clock /\ now'[d] = clock
        BY <1>8, DeleteEffect DEF Calm, Solo, Active, Resting
    <2>2. CASE pc'[d] = "read"
        BY <2>1, <2>2, Times DEF Ready
    <2>3. CASE pc'[d] # "read"
        <3>1. PICK k \in stale[d] :
                 /\ k \in Keys /\ present' = present \ {k}
                 /\ \A j \in Keys \ {k} : times'[j] = times[j]
                 /\ stale'[d] = stale[d] \ {k} /\ pc'[d] = "delete"
            BY <1>8, <2>3, DeleteEffect
        <3>2. /\ stale[d] \subseteq present /\ present \subseteq Keys
              /\ \A j \in stale[d] : Idle(j, clock)
            BY <1>8 DEF Delete, Calm, Ready, Solo, Active, Resting, TypeOK
        <3>3. stale'[d] \subseteq present' /\ \A j \in stale'[d] : Idle(j, clock)'
            BY <3>1, <3>2, <1>8, DeleteEffect DEF Idle
        <3> QED BY <2>1, <3>1, <3>3, <1>8, DeleteEffect DEF Ready, Idle
    <2> QED BY <2>2, <2>3
<1>9. ASSUME Read(d) PROVE Ready(d)'
    BY <1>9 DEF Read, Goto, TypeOK, Calm, Ready, InWindow
<1>10. ASSUME Write(d) PROVE Ready(d)'
    <2>1. ~Active(d)'
        BY <1>10 DEF Write, End, Goto, TypeOK, Active, Resting
    <2> QED BY <1>0, <2>1
<1>11. CASE UNCHANGED vars
    BY <1>3, <1>11 DEF vars
<1> QED BY <1>1, <1>2, <1>4, <1>5, <1>6, <1>7, <1>8, <1>9, <1>10, <1>11 DEF Next, Step

LEMMA CalmInit == ~Threaded /\ Init => Calm
<1> SUFFICES ASSUME ~Threaded, Init PROVE Calm
    OBVIOUS
<1>1. -Span <= 0
    BY Spans
<1> QED BY <1>1, InvInit DEF Init, Calm, Solo, Dated, Ready, Active, Resting

LEMMA CalmNext == Calm /\ [Next]_vars => Calm'
<1> SUFFICES ASSUME Calm, [Next]_vars PROVE Calm'
    OBVIOUS
<1>1. Inv'
    BY TypeNext, ShapeNext DEF Calm, Inv
<1>2. Solo'
    BY SoloNext DEF Calm, Inv
<1> QED BY <1>1, <1>2, DatedNext, ReadyNext DEF Calm

-----------------------------------------------------------------------------
(* The limit.                                                              *)

Bounded == \A k \in Keys : Cardinality(times[k]) <= Limit

\* The list remembers whoever was let through and still counts.
Counted == \A k \in Keys : admitted[k] \subseteq InWindow(times[k], clock)

LEMMA BoundedNext == Calm /\ Bounded /\ [Next]_vars => Bounded'
<1> SUFFICES ASSUME Calm, Bounded, [Next]_vars, NEW k \in Keys
             PROVE  Cardinality(times'[k]) <= Limit
    BY DEF Bounded
<1> USE DEF dict, local, history
<1>1. CASE times' = times
    BY <1>1 DEF Bounded
<1>2. ASSUME NEW c \in Callers, Delete(c) PROVE Cardinality(times'[k]) <= Limit
    <2>1. times'[k] = times[k] \/ times'[k] = {}
        BY <1>2, DeleteEffect
    <2> QED BY <2>1, FS_EmptySet, LimiterAssumption DEF Bounded
<1>3. ASSUME NEW c \in Callers, Write(c) PROVE Cardinality(times'[k]) <= Limit
    <2> DEFINE Filtered == InWindow(times[k], clock)
    <2>1. CASE k # key[c]
        BY <1>3, <2>1, WriteElsewhere DEF Bounded
    <2>2. CASE k = key[c]
        <3>1. /\ IsFiniteSet(Filtered) /\ Cardinality(Filtered) \in Nat
              /\ Cardinality(times[k]) \in Nat /\ Cardinality(Filtered) <= Cardinality(times[k])
              /\ \/ times'[k] = Filtered
                 \/ Cardinality(Filtered) < Limit /\ times'[k] = Filtered \cup {Fresh(c)}
            BY <1>3, <2>2, WriteEffect
        <3> HIDE DEF Filtered
        <3>2. Cardinality(Filtered \cup {Fresh(c)})
                  \in {Cardinality(Filtered), Cardinality(Filtered) + 1}
            BY <3>1, FS_AddElement
        <3>3. Limit \in Nat /\ Cardinality(times[k]) <= Limit
            BY LimiterAssumption DEF Bounded
        <3>4. CASE times'[k] = Filtered
            BY <3>1, <3>3, <3>4
        <3>5. CASE Cardinality(Filtered) < Limit /\ times'[k] = Filtered \cup {Fresh(c)}
            BY <3>1, <3>2, <3>3, <3>5
        <3> QED BY <3>1, <3>4, <3>5
    <2> QED BY <2>1, <2>2
<1> QED BY <1>1, <1>2, <1>3 DEF Next, Tick, IsAllowed, GetRetryAfter, Sweep, Mark, Read, vars

\* A list that is idle holds nothing that counts.
LEMMA IdleIsEmpty ==
    ASSUME Calm, NEW k \in Keys, Idle(k, clock)
    PROVE  InWindow(times[k], clock) = {}
BY Times DEF Idle, InWindow

LEMMA CountedNext == Calm /\ Counted /\ [Next]_vars => Counted'
<1> SUFFICES ASSUME Calm, Counted, [Next]_vars, NEW k \in Keys
             PROVE  admitted'[k] \subseteq InWindow(times'[k], clock')
    BY DEF Counted, InWindow
<1> USE DEF dict, local, history
<1>1. CASE Tick
    <2>1. times' = times /\ admitted'[k] = InWindow(admitted[k], clock')
        BY <1>1 DEF Tick
    <2> QED BY <2>1 DEF Counted, InWindow
<1>2. CASE UNCHANGED <<clock, times, admitted>>
    BY <1>2 DEF Counted
<1>3. ASSUME NEW c \in Callers, Delete(c) PROVE admitted'[k] \subseteq InWindow(times'[k], clock')
    <2>1. clock' = clock /\ admitted' = admitted
        BY <1>3, DeleteEffect
    <2>2. CASE times'[k] = times[k]
        BY <2>1, <2>2 DEF Counted
    <2>3. CASE times'[k] # times[k]
        <3>1. Idle(k, clock)
            BY <1>3, <2>3, DeleteEffect
        <3> QED BY <2>1, <3>1, IdleIsEmpty DEF Counted
    <2> QED BY <2>2, <2>3
<1>4. ASSUME NEW c \in Callers, Write(c) PROVE admitted'[k] \subseteq InWindow(times'[k], clock')
    <2>0. clock' = clock
        BY <1>4 DEF Write
    <2>1. CASE k # key[c]
        BY <1>4, <2>0, <2>1, WriteElsewhere DEF Counted
    <2>2. CASE k = key[c]
        <3>1. admitted[k] \subseteq InWindow(times[k], clock)
            BY DEF Counted
        <3>2. \/ times'[k] = InWindow(times[k], clock) /\ admitted' = admitted
              \/ /\ times'[k] = InWindow(times[k], clock) \cup {Fresh(c)}
                 /\ admitted'[k] = InWindow(admitted[k] \cup {Fresh(c)}, clock)
            BY <1>4, <2>2, WriteEffect
        <3> QED BY <2>0, <3>1, <3>2 DEF InWindow
    <2> QED BY <2>1, <2>2
<1> QED BY <1>1, <1>2, <1>3, <1>4 DEF Next, IsAllowed, GetRetryAfter, Sweep, Mark, Read, vars

LEMMA LimitHolds ==
    ASSUME Calm, Bounded, Counted
    PROVE  NeverOverLimit
<1> SUFFICES ASSUME NEW k \in Keys PROVE Cardinality(admitted[k]) <= Limit
    BY DEF NeverOverLimit
<1>1. admitted[k] \subseteq times[k] /\ IsFiniteSet(times[k])
    BY DEF Counted, InWindow, Calm, Inv, Shape
<1>2. /\ Cardinality(admitted[k]) <= Cardinality(times[k])
      /\ Cardinality(admitted[k]) \in Nat /\ Cardinality(times[k]) \in Nat
    BY <1>1, FS_Subset, FS_CardinalityType
<1> QED BY <1>2, LimiterAssumption DEF Bounded

LEMMA LimitInit == Init => Bounded /\ Counted
BY FS_EmptySet, LimiterAssumption DEF Init, Bounded, Counted

\* In an event loop, _is_allowed_memory lets no more requests of a key through than the
\* limit in any window of window_seconds: filtering and sweeping agree on what still counts.
THEOREM LimitIsNeverExceeded ==
    ASSUME ~Threaded
    PROVE  Spec => []NeverOverLimit
<1>1. Init => Calm /\ Bounded /\ Counted
    BY CalmInit, LimitInit
<1> QED BY <1>1, CalmNext, BoundedNext, CountedNext, LimitHolds, PTL DEF Spec

-----------------------------------------------------------------------------
(* What a client was told.                                                 *)

\* A promise that was kept is kept by fewer requests.
LEMMA FewerKeep ==
    ASSUME Calm, NEW k \in Keys, NEW few \in SUBSET times[k],
           PromiseKept, promise[k] # None
    PROVE  Cardinality(InWindow(few, promise[k])) < Limit
<1> DEFINE Before == InWindow(times[k], promise[k])
           After == InWindow(few, promise[k])
<1>1. Cardinality(Before) < Limit
    BY DEF PromiseKept
<1>2. After \subseteq Before /\ Before \subseteq times[k]
    BY DEF InWindow
<1>3. IsFiniteSet(Before) /\ IsFiniteSet(After) /\ Cardinality(After) <= Cardinality(Before)
    BY <1>2, FS_Subset DEF Calm, Inv, Shape
<1>4. Cardinality(Before) \in Nat /\ Cardinality(After) \in Nat
    BY <1>3, FS_CardinalityType
<1> HIDE DEF Before, After
<1>5. Cardinality(After) < Limit
    BY <1>1, <1>3, <1>4, LimiterAssumption
<1> QED BY <1>5 DEF After

\* The oldest of at most Limit requests has left the window by the time that is told.
LEMMA RoomByThen ==
    ASSUME Calm, Bounded, NEW k \in Keys, times[k] # {}
    PROVE  Cardinality(InWindow(times[k], clock + Seconds(RetryAfter(k, Oldest(k))))) < Limit
<1> DEFINE t == clock + Seconds(RetryAfter(k, Oldest(k)))
           Then == InWindow(times[k], t)
<1>1. Oldest(k) \in Nat /\ \E r \in times[k] : At(r) = Oldest(k)
    BY OldestIsOne DEF Calm, Inv, TypeOK
<1>2. PICK r \in times[k] : At(r) = Oldest(k)
    BY <1>1
<1>3. Oldest(k) + Span < t /\ t \in Int /\ Span \in Int
    BY <1>1, RetryCoversOldest, Times
<1>4. ~(t - At(r) < Span)
    BY <1>1, <1>2, <1>3
<1>5. Then \subseteq times[k] \ {r}
    BY <1>4 DEF InWindow
<1>6. IsFiniteSet(times[k])
    BY DEF Calm, Inv, Shape
<1>7. IsFiniteSet(times[k] \ {r}) /\ Cardinality(times[k] \ {r}) = Cardinality(times[k]) - 1
    BY <1>6, FS_RemoveElement
<1>8. IsFiniteSet(Then) /\ Cardinality(Then) <= Cardinality(times[k] \ {r})
    BY <1>5, <1>7, FS_Subset
<1>9. Cardinality(Then) \in Nat /\ Cardinality(times[k]) \in Nat
    BY <1>6, <1>8, FS_CardinalityType
<1> HIDE DEF Then
<1>10. Cardinality(Then) < Limit
    BY <1>7, <1>8, <1>9, LimiterAssumption DEF Bounded
<1> QED BY <1>10 DEF Then

LEMMA PromiseNext == Calm /\ Bounded /\ PromiseKept /\ [Next]_vars => PromiseKept'
<1> SUFFICES ASSUME Calm, Bounded, PromiseKept, [Next]_vars,
                    NEW k \in Keys, promise'[k] # None
             PROVE  Cardinality(InWindow(times'[k], promise'[k])) < Limit
    BY DEF PromiseKept, InWindow
<1> USE DEF dict, local, history
<1>1. ASSUME promise'[k] = promise[k], times'[k] \subseteq times[k]
      PROVE  Cardinality(InWindow(times'[k], promise'[k])) < Limit
    BY <1>1, FewerKeep
<1>2. ASSUME NEW c \in Callers, NEW j \in Keys, GetRetryAfter(c, j)
      PROVE  Cardinality(InWindow(times'[k], promise'[k])) < Limit
    <2>1. times' = times
          /\ promise' = [promise EXCEPT ![j] = IF times[j] = {} THEN clock
                            ELSE clock + Seconds(RetryAfter(j, Oldest(j)))]
        BY <1>2 DEF GetRetryAfter, Oldest
    <2>2. CASE j # k
        BY <1>1, <2>1, <2>2
    <2>3. CASE j = k /\ times[k] = {}
        <3>1. InWindow(times'[k], promise'[k]) = {}
            BY <2>1, <2>3 DEF InWindow
        <3> QED BY <3>1, FS_EmptySet, LimiterAssumption
    <2>4. CASE j = k /\ times[k] # {}
        <3>1. promise'[k] = clock + Seconds(RetryAfter(k, Oldest(k)))
            BY <2>1, <2>4 DEF Calm, Inv, TypeOK
        <3> QED BY <2>1, <2>4, <3>1, RoomByThen
    <2> QED BY <2>2, <2>3, <2>4
<1>3. ASSUME NEW c \in Callers, Delete(c)
      PROVE  Cardinality(InWindow(times'[k], promise'[k])) < Limit
    BY <1>1, <1>3, DeleteEffect
<1>4. ASSUME NEW c \in Callers, Write(c)
      PROVE  Cardinality(InWindow(times'[k], promise'[k])) < Limit
    <2>1. CASE k # key[c]
        BY <1>1, <1>4, <2>1, WriteElsewhere
    <2>2. CASE k = key[c]
        <3>1. times'[k] \subseteq times[k] /\ promise' = promise
            BY <1>4, <2>2, WriteEffect
        <3> QED BY <1>1, <3>1
    <2> QED BY <2>1, <2>2
<1>5. CASE UNCHANGED <<times, promise>>
    BY <1>1, <1>5
<1> QED BY <1>2, <1>3, <1>4, <1>5 DEF Next, Tick, IsAllowed, Sweep, Mark, Read, vars

\* In an event loop, a client that waits as long as _get_retry_after_memory told it finds
\* room, if it was not let in before.
THEOREM PromisesAreKept ==
    ASSUME ~Threaded
    PROVE  Spec => []PromiseKept
<1>1. Init => Calm /\ Bounded /\ PromiseKept
    BY CalmInit, LimitInit DEF Init, PromiseKept
<1> QED BY <1>1, CalmNext, BoundedNext, PromiseNext, PTL DEF Spec

-----------------------------------------------------------------------------
(* The keys of clients that never come back.                               *)

\* The calls that are about to delete k, or have made it and are about to fill it.
Handles(c, k) ==
    \/ pc[c] = "delete" /\ k \in stale[c]
    \/ pc[c] = "write" /\ key[c] = k

\* Every key has a request that was not idle at the last sweep, or is being dealt with.
Lively ==
    \A k \in present : ~Idle(k, lastSweep) \/ \E c \in Callers : Handles(c, k)

LEMMA LivelyNext == Calm /\ Lively /\ [Next]_vars => Lively'
<1> SUFFICES ASSUME Calm, TypeOK, Lively, [Next]_vars, NEW k \in present'
             PROVE  ~Idle(k, lastSweep)' \/ \E c \in Callers : Handles(c, k)'
    BY DEF Lively, Calm, Inv
<1> USE DEF dict, local, history
<1>1. CASE UNCHANGED <<dict, lastSweep, local>>
    BY <1>1 DEF Lively, Idle, Handles
<1>2. ASSUME NEW c \in Callers, Active(c), ~Handles(c, k), k \in present
      PROVE  ~Idle(k, lastSweep)
    BY <1>2 DEF Lively, Handles, Calm, Solo, Active, Resting
<1>3. ASSUME NEW c \in Callers, NEW j \in Keys, IsAllowed(c, j)
      PROVE  ~Idle(k, lastSweep)'
    BY <1>3 DEF IsAllowed, Free, Calm, Solo, Lively, Handles, Idle, Resting
<1>4. ASSUME NEW c \in Callers, Sweep(c) PROVE ~Idle(k, lastSweep)'
    BY <1>2, <1>4 DEF Sweep, Handles, Idle, Active, Resting
<1>5. ASSUME NEW c \in Callers, Mark(c)
      PROVE  ~Idle(k, lastSweep)' \/ Handles(c, k)'
    BY <1>5 DEF Mark, Goto, TypeOK, Handles, Idle
<1>6. ASSUME NEW c \in Callers, Delete(c)
      PROVE  ~Idle(k, lastSweep)' \/ Handles(c, k)'
    <2>1. pc[c] = "delete" /\ Active(c) /\ lastSweep' = lastSweep
        BY <1>6, DeleteEffect DEF Active, Resting
    <2>2. CASE stale[c] = {} /\ UNCHANGED <<times, present>>
        <3>1. ~Idle(k, lastSweep)
            BY <1>2, <2>1, <2>2 DEF Handles
        <3> QED BY <2>1, <2>2, <3>1 DEF Idle
    <2>3. ASSUME NEW j \in stale[c], present' = present \ {j},
                 \A i \in Keys \ {j} : times'[i] = times[i],
                 stale'[c] = stale[c] \ {j}, pc'[c] = "delete"
          PROVE  ~Idle(k, lastSweep)' \/ Handles(c, k)'
        <3>1. k \in present /\ k # j /\ k \in Keys
            BY <2>3 DEF TypeOK
        <3>2. CASE k \in stale[c]
            BY <2>3, <3>1, <3>2 DEF Handles
        <3>3. CASE k \notin stale[c]
            <4>1. ~Idle(k, lastSweep)
                BY <1>2, <2>1, <3>1, <3>3 DEF Handles
            <4> QED BY <2>1, <2>3, <3>1, <4>1 DEF Idle
        <3> QED BY <3>2, <3>3
    <2> QED BY <1>6, <2>2, <2>3, DeleteEffect
<1>7. ASSUME NEW c \in Callers, Read(c)
      PROVE  ~Idle(k, lastSweep)' \/ Handles(c, k)'
    <2>1. CASE k = key[c]
        BY <1>7, <2>1 DEF Read, Goto, TypeOK, Handles
    <2>2. CASE k # key[c]
        <3>1. ~Idle(k, lastSweep)
            BY <1>2, <1>7, <2>2 DEF Read, Handles, Active, Resting
        <3> QED BY <1>7, <3>1 DEF Read, Idle
    <2> QED BY <2>1, <2>2
<1>8. ASSUME NEW c \in Callers, Write(c) PROVE ~Idle(k, lastSweep)'
    <2>1. pc[c] = "write" /\ Active(c) /\ lastSweep' = lastSweep /\ present' = present \cup {key[c]}
        BY <1>8 DEF Write, Active, Resting
    <2>2. CASE k # key[c]
        <3>1. ~Idle(k, lastSweep) /\ k \in Keys
            BY <1>2, <2>1, <2>2 DEF Handles, TypeOK
        <3> QED BY <1>8, <2>1, <2>2, <3>1, WriteElsewhere DEF Idle
    <2>3. CASE k = key[c]
        <3> DEFINE Filtered == InWindow(times[k], clock)
        <3>1. PICK r \in times'[k] : At(r) = clock \/ r \in Filtered
            <4>1. At(Fresh(c)) = clock
                  /\ \/ Cardinality(Filtered) >= Limit /\ times'[k] = Filtered
                     \/ times'[k] = Filtered \cup {Fresh(c)}
                BY <1>8, <2>3, WriteEffect
            <4>2. Cardinality(Filtered) >= Limit => Filtered # {}
                BY FS_EmptySet, LimiterAssumption
            <4> QED BY <4>1, <4>2
        <3>2. At(r) \in Int /\ At(r) > clock - Span
            <4>1. CASE At(r) = clock
                BY <4>1, Times
            <4>2. CASE r \in Filtered
                <5>1. r \in times[k] /\ clock - At(r) < Span /\ k \in Keys
                    BY <1>8, <2>3, <4>2, WriteEffect DEF InWindow
                <5>2. At(r) \in Nat /\ clock \in Nat /\ Span \in Nat
                    BY <5>1, Times
                <5> QED BY <5>1, <5>2
            <4> QED BY <3>1, <4>1, <4>2
        <3>3. ~(At(r) < lastSweep - Span)
            BY <3>2, Times
        <3> QED BY <2>1, <3>1, <3>3 DEF Idle
    <2> QED BY <2>2, <2>3
<1> QED BY <1>1, <1>3, <1>4, <1>5, <1>6, <1>7, <1>8 DEF Next, Tick, GetRetryAfter, vars

\* In an event loop, a call leaves no key behind that has been idle for two windows, other
\* than its own: a sweep drops what is older than one, and the next is at most one away.
THEOREM IdleKeysAreDropped ==
    ASSUME ~Threaded
    PROVE  Spec => []IdleKeysGo
<1>1. Init => Calm /\ Lively
    BY CalmInit DEF Init, Lively
<1>2. Calm /\ Lively => IdleKeysGo
    <2> SUFFICES ASSUME Calm, Lively, NEW c \in Callers, pc[c] = "write",
                        NEW k \in present \ {key[c]}
                 PROVE  \E r \in times[k] : now[c] - At(r) <= 2 * Span
        BY DEF IdleKeysGo
    <2>1. Active(c) /\ ~Handles(c, k) /\ k \in Keys
        BY DEF Active, Resting, Handles, Calm, Inv, TypeOK
    <2>2. ~Idle(k, lastSweep)
        BY <2>1 DEF Lively, Handles, Calm, Solo, Active, Resting
    <2>3. PICK r \in times[k] : ~(At(r) < lastSweep - Span)
        BY <2>2 DEF Idle
    <2>4. now[c] = clock /\ now[c] - lastSweep < Span
        BY <2>1 DEF Calm, Solo, Ready
    <2>5. /\ clock \in Nat /\ lastSweep \in Int /\ Span \in Nat /\ At(r) \in Nat
        BY <2>1, Times
    <2>6. now[c] - At(r) <= 2 * Span
        BY <2>3, <2>4, <2>5
    <2> QED BY <2>6
<1> QED BY <1>1, <1>2, CalmNext, LivelyNext, PTL DEF Spec
=============================================================================
