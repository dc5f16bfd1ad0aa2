---------------------- MODULE MemoryTokenStorage_proofs ----------------------
(***************************************************************************)
(* Proofs about MemoryTokenStorage, for every set of tokens, clients and   *)
(* callers, every resolution of the clock and every bound on it.           *)
(***************************************************************************)
EXTENDS MemoryTokenStorage, TLAPS

-----------------------------------------------------------------------------
(* Whole seconds.                                                          *)

\* A quotient by its two bounds.
LEMMA Quotient ==
    ASSUME NEW n \in Int, NEW i \in Int, i > 0
    PROVE  /\ n \div i \in Int
           /\ i * (n \div i) <= n
           /\ n < i * ((n \div i) + 1)
<1>1. n \div i \in Int
    OBVIOUS
<1>2. i * (n \div i) <= n
    OBVIOUS
<1>3. n < i * ((n \div i) + 1)
    OBVIOUS
<1> QED BY <1>1, <1>2, <1>3

\* Factors can be compared through their products.
LEMMA Products ==
    ASSUME NEW m \in Int, NEW n \in Int, NEW i \in Int, i > 0
    PROVE  m <= n <=> i * m <= i * n
OBVIOUS

\* The truncated time has passed exp when the second that begins at exp is over.
LEMMA OverdueAtTick ==
    ASSUME NEW row \in Record, clock \in Int
    PROVE  Overdue(row) <=> Instant(row.exp + 1) <= clock
<1> DEFINE d == clock \div TicksPerSecond
           e == row.exp
<1>1. /\ TicksPerSecond \in Int /\ TicksPerSecond > 0 /\ e \in Int
      /\ row # NoRow
    BY ConstantsAssumption, NoRowAssumption DEF Record
<1>2. /\ d \in Int /\ TicksPerSecond * d <= clock
      /\ clock < TicksPerSecond * (d + 1)
    BY <1>1, Quotient
<1>3. Overdue(row) <=> e + 1 <= d
    <2>1. Overdue(row) <=> e < d
        BY <1>1 DEF Overdue
    <2> HIDE DEF d, e
    <2> QED BY <1>1, <1>2, <2>1
<1>4. Instant(row.exp + 1) = TicksPerSecond * (e + 1)
    BY <1>1 DEF Instant
<1> HIDE DEF d, e
<1>5. e + 1 <= d => TicksPerSecond * (e + 1) <= clock
    BY <1>1, <1>2, Products
<1>6. ASSUME TicksPerSecond * (e + 1) <= clock PROVE e + 1 <= d
    <2>1. ~(d + 1 <= e + 1)
        BY <1>1, <1>2, <1>6, Products
    <2> QED BY <1>1, <1>2, <2>1
<1> QED BY <1>3, <1>4, <1>5, <1>6

\* What the truncated time has passed is expired.
LEMMA OverdueIsExpired ==
    ASSUME NEW row \in Record \cup {NoRow}, clock \in Int, Overdue(row)
    PROVE  ExpiredAt(row, clock)
<1>1. row # NoRow /\ row \in Record
    BY DEF Overdue
<1>2. row.exp \in Int /\ TicksPerSecond \in Int /\ TicksPerSecond > 0
    BY <1>1, ConstantsAssumption DEF Record
<1>3. Instant(row.exp + 1) <= clock
    BY <1>1, OverdueAtTick
<1>4. Instant(row.exp) < Instant(row.exp + 1)
    BY <1>2 DEF Instant
<1>5. Instant(row.exp) \in Int /\ Instant(row.exp + 1) \in Int
    BY <1>2 DEF Instant
<1> QED BY <1>1, <1>3, <1>4, <1>5 DEF ExpiredAt

-----------------------------------------------------------------------------
(* Types, and what a closed storage holds.                                 *)

\* The fields of a request that the modules read, by its operation.
LEMMA RequestFields ==
    ASSUME NEW q \in Requests
    PROVE  /\ q # NoRequest
           /\ q.op \in {"store", "load", "delete", "cleanup", "count", "revoke"}
           /\ q.op # "revoke" => q.kind \in Kinds
           /\ q.op \in {"store", "load", "delete"} => q.token \in Tokens
           /\ q.op = "store" => q.row \in Record
BY MemoryAssumption DEF Requests

LEMMA TypeNext == TypeOK /\ [Next]_vars => TypeOK'
<1> SUFFICES ASSUME TypeOK, [Next]_vars PROVE TypeOK'
    OBVIOUS
<1>1. EmptyTables \in Tables
    BY DEF EmptyTables, Tables
<1>2. CASE Initialize \/ Close
    BY <1>1, <1>2 DEF Initialize, Close, TypeOK
<1>3. CASE Tick
    BY <1>3, MemoryAssumption DEF Tick, TypeOK
<1>4. ASSUME NEW c \in Callers, NEW q \in Requests, Ask(c, q) PROVE TypeOK'
    BY <1>4 DEF Ask, TypeOK
<1>5. ASSUME NEW c \in Callers, Refused(c) PROVE TypeOK'
    BY <1>5 DEF Refused, TypeOK
<1>6. ASSUME NEW c \in Callers, Serve(c) PROVE TypeOK'
    <2> DEFINE q == asked[c]
    <2>1. q \in Requests /\ tables \in Tables
        BY <1>6 DEF Serve, TypeOK
    <2>2. tables' \in Tables
        <3>1. CASE q.op = "store"
            BY <1>6, <2>1, <3>1, RequestFields DEF Serve, Tables
        <3>2. CASE q.op # "store"
            BY <1>6, <2>1, <3>2 DEF Serve, Tables
        <3> QED BY <3>1, <3>2
    <2>3. answer' \in [Callers -> Record \cup {NoRow}]
        <3>1. CASE q.op = "load"
            <4>1. tables[q.kind][q.token] \in Record \cup {NoRow}
                BY <2>1, <3>1, RequestFields DEF Tables
            <4> QED BY <1>6, <3>1, <4>1 DEF Serve, TypeOK
        <3>2. CASE q.op # "load"
            BY <1>6, <3>2 DEF Serve, TypeOK
        <3> QED BY <3>1, <3>2
    <2> QED BY <1>6, <2>2, <2>3 DEF Serve, TypeOK
<1>7. CASE UNCHANGED vars
    BY <1>7 DEF vars, TypeOK
<1> QED BY <1>2, <1>3, <1>4, <1>5, <1>6, <1>7 DEF Next

\* Every state of the in-memory storage is well typed: MemoryTokenStorage's dicts hold
\* records under token values only.
THEOREM TypeCorrect == Spec => []TypeOK
<1>1. Init => TypeOK
    <2>1. EmptyTables \in Tables
        BY DEF EmptyTables, Tables
    <2>2. 0 \in 0..MaxClock
        BY MemoryAssumption
    <2> QED BY <2>1, <2>2 DEF Init, TypeOK
<1> QED BY <1>1, TypeNext, PTL DEF Spec

\* A closed storage is empty and stays so: _require_initialized is passed by every method
\* before it touches a dict, also by calls that were pending when it was closed.
THEOREM ClosedIsEmpty == Spec => []EmptyUnlessInitialized
<1>1. Init => EmptyUnlessInitialized
    BY DEF Init, EmptyUnlessInitialized
<1>2. EmptyUnlessInitialized /\ [Next]_vars => EmptyUnlessInitialized'
    <2> SUFFICES ASSUME EmptyUnlessInitialized, [Next]_vars PROVE EmptyUnlessInitialized'
        OBVIOUS
    <2>1. ASSUME NEW c \in Callers, Serve(c) PROVE EmptyUnlessInitialized'
        BY <2>1 DEF Serve, EmptyUnlessInitialized
    <2> QED BY <2>1 DEF Next, Initialize, Close, Tick, Ask, Refused, vars, EmptyUnlessInitialized
<1> QED BY <1>1, <1>2, PTL DEF Spec

\* Truncation costs what is left of a second, and nothing else: _load_from serves a record
\* to the last tick before the second after expires_at, at every resolution of the clock.
THEOREM ServesToTheSecond == Spec => ServedToTheSecond
<1>1. TypeOK /\ [Next]_vars =>
          [\A c \in Callers :
              (asked[c] # NoRequest /\ asked[c].op = "load" /\ Serve(c)) =>
                  LET row == tables[asked[c].kind][asked[c].token]
                  IN  answer'[c] = IF row # NoRow /\ clock < Instant(row.exp + 1)
                                   THEN row ELSE NoRow]_vars
    <2> SUFFICES ASSUME TypeOK, NEW c \in Callers, asked[c] # NoRequest,
                        asked[c].op = "load", Serve(c)
                 PROVE  LET row == tables[asked[c].kind][asked[c].token]
                        IN  answer'[c] = IF row # NoRow /\ clock < Instant(row.exp + 1)
                                         THEN row ELSE NoRow
        OBVIOUS
    <2> DEFINE row == tables[asked[c].kind][asked[c].token]
    <2>1. asked[c] \in Requests /\ clock \in Int
        BY MemoryAssumption DEF TypeOK
    <2>2. row \in Record \cup {NoRow}
        BY <2>1, RequestFields DEF TypeOK, Tables
    <2>3. answer'[c] = IF ~Overdue(row) THEN row ELSE NoRow
        BY DEF Serve, TypeOK
    <2>4. ~Overdue(row) <=> row = NoRow \/ clock < Instant(row.exp + 1)
        <3> HIDE DEF row
        <3>1. CASE row = NoRow
            BY <3>1 DEF Overdue
        <3>2. CASE row # NoRow
            <4>1. row \in Record
                BY <2>2, <3>2
            <4>2. row.exp \in Int
                BY <4>1, ConstantsAssumption DEF Record
            <4>3. Instant(row.exp + 1) \in Int
                BY <4>2, ConstantsAssumption DEF Instant
            <4> QED BY <2>1, <3>2, <4>1, <4>3, OverdueAtTick
        <3> QED BY <3>1, <3>2
    <2> QED BY <2>3, <2>4
<1> QED BY <1>1, TypeCorrect, PTL DEF Spec, ServedToTheSecond

-----------------------------------------------------------------------------
(* The contract.                                                           *)

\* The vocabulary of the instance is that of this module.
LEMMA SameWords ==
    /\ Abstract!Kinds = Kinds /\ Abstract!Tables = Tables
    /\ Abstract!EmptyTables = EmptyTables /\ Abstract!Requests = Requests
    /\ \A row, t : Abstract!ExpiredAt(row, t) <=> ExpiredAt(row, t)
BY DEF Abstract!Kinds, Kinds, Abstract!Tables, Tables, Abstract!EmptyTables, EmptyTables,
       Abstract!Requests, Requests, Abstract!Record, Record, Abstract!ExpiredAt, ExpiredAt,
       Abstract!Instant, Instant

\* A call that is served takes the effect its request may have, or none.
LEMMA ServeIsEffect ==
    ASSUME TypeOK, TypeOK', NEW c \in Callers, Serve(c)
    PROVE  Abstract!Finish(c) \/ Abstract!Effect(c)
<1> DEFINE q == asked[c]
<1>1. q \in Requests /\ tables \in Tables /\ clock \in Int
    BY MemoryAssumption DEF Serve, TypeOK
<1>2. /\ q # NoRequest /\ asked' = [asked EXCEPT ![c] = NoRequest] /\ clock' = clock
      /\ q.op # "store" =>
            tables' = [k \in Kinds |-> [t \in Tokens |->
                          IF Removes(q, k, t) THEN NoRow ELSE tables[k][t]]]
    BY DEF Serve
<1>3. CASE q.op = "store"
    <2>1. Abstract!Put(q)
        BY <1>3 DEF Serve, Abstract!Put
    <2> QED BY <1>2, <2>1 DEF Abstract!Effect
<1>4. CASE q.op = "delete"
    <2>1. tables' = [tables EXCEPT ![q.kind][q.token] = NoRow]
        BY <1>1, <1>2, <1>4, RequestFields DEF Removes, Tables
    <2> QED BY <1>2, <1>4, <2>1 DEF Abstract!Effect, Abstract!Remove
<1>5. CASE q.op = "count" \/ (q.op = "load" /\ ~Overdue(tables[q.kind][q.token]))
    <2>1. \A k \in Kinds, t \in Tokens : ~Removes(q, k, t)
        BY <1>5 DEF Removes
    <2>2. tables' = tables
        BY <1>1, <1>2, <1>5, <2>1 DEF Tables
    <2> QED BY <1>2, <2>2 DEF Abstract!Finish
<1>6. CASE q.op = "load" /\ Overdue(tables[q.kind][q.token])
    <2>1. q.kind \in Kinds /\ q.token \in Tokens
        BY <1>1, <1>6, RequestFields
    <2>2. tables' = [tables EXCEPT ![q.kind][q.token] = NoRow]
        BY <1>1, <1>2, <1>6, <2>1 DEF Removes, Tables
    <2>3. ExpiredAt(tables[q.kind][q.token], clock)
        BY <1>1, <1>6, <2>1, OverdueIsExpired DEF Tables
    <2>4. Abstract!DropExpired(q)
        BY <1>6, <2>2, <2>3, SameWords DEF Abstract!DropExpired
    <2> QED BY <1>2, <2>4 DEF Abstract!Effect
<1>7. CASE q.op = "cleanup"
    <2>1. ASSUME NEW k \in Kinds, NEW t \in Tokens, Removes(q, k, t)
          PROVE  k = q.kind /\ ExpiredAt(tables[k][t], clock)
        BY <1>1, <1>7, <2>1, OverdueIsExpired DEF Removes, Tables
    <2>2. \A k \in Kinds, t \in Tokens :
             \/ tables'[k][t] = tables[k][t]
             \/ k = q.kind /\ ExpiredAt(tables[k][t], clock) /\ tables'[k][t] = NoRow
        BY <1>2, <1>7, <2>1
    <2>3. Abstract!Sweep(q)
        BY <1>7, <2>2, SameWords DEF Abstract!Sweep, TypeOK
    <2> QED BY <1>2, <2>3 DEF Abstract!Effect
<1>8. CASE q.op = "revoke"
    <2>1. \A k \in Kinds, t \in Tokens :
             Removes(q, k, t) <=> tables[k][t] # NoRow /\ tables[k][t].client = q.client
        BY <1>8 DEF Removes
    <2>2. Abstract!RevokeAll(q)
        BY <1>2, <1>8, <2>1, SameWords DEF Abstract!RevokeAll
    <2> QED BY <1>2, <2>2 DEF Abstract!Effect
<1> QED BY <1>1, <1>3, <1>4, <1>5, <1>6, <1>7, <1>8, RequestFields

LEMMA StepSimulation == TypeOK /\ TypeOK' /\ [Next]_vars => [Abstract!Next]_(Abstract!vars)
<1> SUFFICES ASSUME TypeOK, TypeOK', [Next]_vars PROVE [Abstract!Next]_(Abstract!vars)
    OBVIOUS
<1>1. CASE Initialize \/ UNCHANGED vars
    BY <1>1 DEF Initialize, vars, Abstract!vars
<1>2. CASE Close
    BY <1>2, SameWords DEF Close, Abstract!Close, Abstract!Next
<1>3. CASE Tick
    BY <1>3, MemoryAssumption DEF Tick, TypeOK, Abstract!Advance, Abstract!Next
<1>4. ASSUME NEW c \in Callers, NEW q \in Requests, Ask(c, q) PROVE Abstract!Next
    BY <1>4, SameWords DEF Ask, Abstract!Ask, Abstract!Next
<1>5. ASSUME NEW c \in Callers, Refused(c) PROVE Abstract!Next
    BY <1>5 DEF Refused, Abstract!Finish, Abstract!Next
<1>6. ASSUME NEW c \in Callers, Serve(c) PROVE Abstract!Next
    BY <1>6, ServeIsEffect DEF Abstract!Next
<1> QED BY <1>1, <1>2, <1>3, <1>4, <1>5, <1>6 DEF Next

\* The in-memory backend implements storage/base.py's contract, in every case: tokens may
\* be stored again, and closed and initialized again, while calls are pending.
THEOREM ImplementsContract == Spec => Contract
<1>1. Init => Abstract!Init
    BY SameWords DEF Init, Abstract!Init
<1>2. Spec => Abstract!Init /\ [][Abstract!Next]_(Abstract!vars)
    BY <1>1, StepSimulation, TypeCorrect, PTL DEF Spec
<1> QED BY <1>2 DEF Contract, Abstract!Spec
=============================================================================
