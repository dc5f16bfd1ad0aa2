--------------------- MODULE PostgresTokenStorage_proofs ---------------------
(***************************************************************************)
(* Proofs about PostgresTokenStorage, for every set of tokens, clients and *)
(* callers, every pool size and every bound on the clock.                  *)
(***************************************************************************)
EXTENDS PostgresTokenStorage, TLAPS

-----------------------------------------------------------------------------
(* Types.                                                                  *)

\* What the place of a call says about the call.
Shape ==
    \A c \in Callers :
        /\ pc[c] \notin Resting => req[c] \in Requests
        /\ pc[c] = "check" => req[c].op = "revoke"
        /\ pc[c] \in {"judge", "reacquire", "drop", "dropped", "stray"} => req[c].op = "load"
        /\ pc[c] = "adrift" => req[c].op \notin {"load", "count"}

TypeInv == TypeOK /\ Shape

\* The fields of a request that the modules read, by its operation.
LEMMA RequestFields ==
    ASSUME NEW q \in Requests
    PROVE  /\ q.op \in {"store", "load", "delete", "cleanup", "count", "revoke"}
           /\ q.op # "revoke" => q.kind \in Kinds
           /\ q.op \in {"store", "load", "delete"} => q.token \in Tokens
           /\ q.op = "store" => q.row \in Record
           /\ q.op = "revoke" => q.client \in Clients
BY DEF Requests

LEMMA RaiseTypes ==
    ASSUME TypeInv, NEW c \in Callers, Raise(c), clock' = clock
    PROVE  /\ pc' \in [Callers -> PCs] /\ req' \in [Callers -> Requests \cup {NoRequest}]
           /\ got' \in [Callers -> Record \cup {NoRow}]
           /\ both' \in [Callers -> BOOLEAN] /\ now' \in [Callers -> 0..MaxClock]
           /\ Shape'
<1>1. 0 \in 0..MaxClock
  BY PostgresAssumption
<1>2. "raised" \in PCs /\ "raised" \in Resting
  BY DEF PCs, Resting
<1>3. QED
  BY <1>1, <1>2, Zenon DEF TypeInv, TypeOK, Shape, Raise, Goto

\* A statement leaves well-typed tables and history behind.
LEMMA ApplyTypes ==
    ASSUME TypeInv, NEW c \in Callers, pc[c] \in {"run", "adrift"}, Apply(c)
    PROVE  /\ rows' \in Tables /\ refreshTable' \in BOOLEAN
           /\ issued' \in SUBSET Pairs /\ owed' \in [Callers -> SUBSET Pairs]
<1> DEFINE q == req[c]
<1>1. q \in Requests
  BY DEF TypeInv, Shape, Resting
<1>2. rows \in Tables /\ owed \in [Callers -> SUBSET Pairs]
  BY DEF TypeInv, TypeOK
<1>3. rows' \in Tables
  <2>1. CASE q.op = "store"
    <3>1. q.kind \in Kinds /\ q.token \in Tokens /\ q.row \in Record
      BY <1>1, <2>1, RequestFields
    <3>2. rows' = [rows EXCEPT ![q.kind][q.token] = q.row]
      BY <2>1 DEF Apply
    <3>3. QED
      BY <1>2, <3>1, <3>2 DEF Tables
  <2>2. CASE q.op # "store"
    <3>1. rows' = [k \in Kinds |-> [t \in Tokens |->
                      IF Deletes(c, k, t) THEN NoRow ELSE rows[k][t]]]
      BY <2>2 DEF Apply
    <3>2. QED
      BY <1>2, <3>1 DEF Tables
  <2>3. QED
    BY <2>1, <2>2
<1>4. owed' \in [Callers -> SUBSET Pairs]
  BY <1>2 DEF Apply
<1>5. QED
  BY <1>3, <1>4 DEF Apply, TypeInv, TypeOK

LEMMA DeleteRowTypes ==
    ASSUME TypeInv, NEW c \in Callers, pc[c] \in {"drop", "stray"}, DeleteRow(c)
    PROVE  rows' \in Tables
<1>1. req[c].kind \in Kinds /\ req[c].token \in Tokens
  BY RequestFields DEF TypeInv, Shape, Resting
<1>2. QED
  BY <1>1 DEF DeleteRow, TypeInv, TypeOK, Tables

LEMMA TypeInvInit == Init => TypeInv
BY PostgresAssumption
   DEF Init, TypeInv, TypeOK, Shape, EmptyTables, Tables, PCs, Resting, Pairs

LEMMA TypeInvNext == TypeInv /\ [Next]_vars => TypeInv'
<1> SUFFICES ASSUME TypeInv, [Next]_vars PROVE TypeInv'
  OBVIOUS
<1> USE DEF TypeInv
<1>1. CASE UNCHANGED vars
  BY <1>1 DEF vars, data, local, TypeOK, Shape
<1>2. CASE Initialize \/ BeginClose \/ FinishClose \/ CreateRefreshTable
  BY <1>2 DEF Initialize, BeginClose, FinishClose, CreateRefreshTable,
              data, local, TypeOK, Shape
<1>3. CASE Tick
  BY <1>3, PostgresAssumption DEF Tick, data, local, TypeOK, Shape
<1>4. ASSUME NEW c \in Callers, Refuse(c) \/ AcquireFails(c) \/ Fail(c) \/ Sink(c)
      PROVE  TypeInv'
  BY <1>4, RaiseTypes DEF Refuse, AcquireFails, Fail, Sink, data, TypeOK
<1>5. ASSUME NEW c \in Callers, NEW q \in Requests, Begin(c, q)
      PROVE  TypeInv'
  <2>1. q.op = "store" => <<q.kind, q.token>> \in Pairs
    BY RequestFields DEF Pairs
  <2>2. issued' \in SUBSET Pairs
    BY <1>5, <2>1 DEF Begin, TypeOK
  <2>3. owed' \in [Callers -> SUBSET Pairs]
    BY <1>5 DEF Begin, TypeOK, RowsOf
  <2>4. now' \in [Callers -> 0..MaxClock]
    BY <1>5, PostgresAssumption DEF Begin, TypeOK
  <2>5. /\ pc' = [pc EXCEPT ![c] = "acquire"] /\ req' = [req EXCEPT ![c] = q]
        /\ got' = [got EXCEPT ![c] = NoRow] /\ both' = [both EXCEPT ![c] = FALSE]
        /\ UNCHANGED <<rows, refreshTable, clock, pool>>
    BY <1>5 DEF Begin, Goto
  <2>6. TypeOK'
    BY <2>2, <2>3, <2>4, <2>5 DEF TypeOK, PCs, Waiting
  <2>7. Shape'
    BY <2>5 DEF TypeOK, Shape
  <2>8. QED
    BY <2>6, <2>7
<1>6. ASSUME NEW c \in Callers, Acquire(c)
      PROVE  TypeInv'
  BY <1>6 DEF Acquire, Goto, TypeOK, Shape, PCs, Waiting, Holding, Resting, data, local
<1>7. ASSUME NEW c \in Callers, Check(c)
      PROVE  TypeInv'
  BY <1>7 DEF Check, Goto, TypeOK, Shape, PCs, Holding, Resting, data
<1>8. ASSUME NEW c \in Callers, Run(c)
      PROVE  TypeInv'
  <2>1. CASE MissingTable(c)
    BY <1>8, <2>1, RaiseTypes DEF Run, data, TypeOK
  <2>2. CASE ~MissingTable(c)
    <3>1. /\ Goto(c, "done") /\ Apply(c)
          /\ UNCHANGED <<clock, pool, req, both, now>>
      BY <1>8, <2>2 DEF Run
    <3>2. got' \in [Callers -> Record \cup {NoRow}]
      <4>1. CASE req[c].op = "load"
        <5>1. req[c].kind \in Kinds /\ req[c].token \in Tokens
          BY <1>8, <4>1, RequestFields DEF Run, Shape, Resting
        <5>2. QED
          BY <1>8, <2>2, <4>1, <5>1 DEF Run, TypeOK, Tables
      <4>2. CASE req[c].op # "load"
        BY <1>8, <2>2, <4>2 DEF Run, TypeOK
      <4>3. QED
        BY <4>1, <4>2
    <3>3. pc[c] = "run"
      BY <1>8 DEF Run
    <3>4. TypeOK'
      BY <3>1, <3>2, <3>3, ApplyTypes DEF Goto, TypeOK, PCs, Holding
    <3>5. Shape'
      BY <3>1, <3>3 DEF Goto, TypeOK, Shape, Resting
    <3>6. QED
      BY <3>4, <3>5
  <2>3. QED
    BY <2>1, <2>2
<1>9. ASSUME NEW c \in Callers, Release(c)
      PROVE  TypeInv'
  BY <1>9 DEF Release, Goto, TypeOK, Shape, PCs, Resting, data, local
<1>10. ASSUME NEW c \in Callers, Judge(c)
       PROVE  TypeInv'
  <2>1. CASE ExpiredAt(got[c], clock) /\ pool = "none"
    BY <1>10, <2>1, RaiseTypes DEF Judge, data, TypeOK
  <2>2. CASE ~(ExpiredAt(got[c], clock) /\ pool = "none")
    BY <1>10, <2>2 DEF Judge, Goto, TypeOK, Shape, PCs, Waiting, Resting, data, local
  <2>3. QED
    BY <2>1, <2>2
<1>11. ASSUME NEW c \in Callers, Drop(c)
       PROVE  TypeInv'
  <2>1. rows' \in Tables
    BY <1>11, DeleteRowTypes DEF Drop
  <2>2. QED
    BY <1>11, <2>1 DEF Drop, Goto, TypeOK, Shape, PCs, Holding, Resting, local
<1>12. ASSUME NEW c \in Callers, CutOff(c)
       PROVE  TypeInv'
  BY <1>12 DEF CutOff, Goto, TypeOK, Shape, PCs, Astray, Resting, data, local
<1>13. ASSUME NEW c \in Callers, Land(c)
       PROVE  TypeInv'
  <2>1. /\ rows' \in Tables /\ refreshTable' \in BOOLEAN
        /\ issued' \in SUBSET Pairs /\ owed' \in [Callers -> SUBSET Pairs]
    BY <1>13, ApplyTypes, DeleteRowTypes DEF Land, TypeOK
  <2>2. QED
    BY <1>13, <2>1, RaiseTypes DEF Land, TypeOK
<1>14. QED
  BY <1>1, <1>2, <1>3, <1>4, <1>5, <1>6, <1>7, <1>8, <1>9, <1>10, <1>11, <1>12, <1>13
  DEF Next, Step

\* Type correctness: every variable of the storage keeps to its type.
THEOREM TypeCorrect == Spec => []TypeOK
<1>1. Spec => []TypeInv
  BY TypeInvInit, TypeInvNext, PTL DEF Spec
<1>2. TypeInv => TypeOK
  BY DEF TypeInv
<1>3. QED
  BY <1>1, <1>2, PTL

-----------------------------------------------------------------------------
(* A revoke is complete.                                                   *)

\* Without the refresh table there are no refresh rows, hence none that a
\* revoke could owe; a revoke that saw no refresh table owes none for good.
RevokeInv ==
    /\ ~refreshTable => \A t \in Tokens : rows["refresh"][t] = NoRow
    /\ \A c \in Callers, t \in Tokens : <<"refresh", t>> \in owed[c] => refreshTable
    /\ \A c \in Callers :
          (pc[c] \in {"run", "adrift"} /\ req[c].op = "revoke" /\ ~both[c]) =>
              \A t \in Tokens : <<"refresh", t>> \notin owed[c]
    /\ RevokeComplete

\* What every step but Begin does to the rows that are owed: some are forgotten,
\* the others stay as they were or go.
Erodes ==
    /\ \A d \in Callers : owed'[d] \subseteq owed[d]
    /\ \A d \in Callers : \A p \in owed'[d] :
          rows'[p[1]][p[2]] \in {NoRow, rows[p[1]][p[2]]}
    /\ refreshTable => refreshTable'
    /\ ~refreshTable' => \A t \in Tokens : rows'["refresh"][t] = NoRow

LEMMA ErodesUnchanged ==
    ASSUME TypeInv, RevokeInv, UNCHANGED <<rows, owed>>, refreshTable => refreshTable'
    PROVE  Erodes
BY DEF Erodes, RevokeInv

LEMMA ErodesApply ==
    ASSUME TypeInv, RevokeInv, NEW c \in Callers, pc[c] \in {"run", "adrift"},
           ~MissingTable(c), Apply(c)
    PROVE  Erodes
<1> DEFINE q == req[c]
<1>1. q \in Requests /\ rows \in Tables /\ owed \in [Callers -> SUBSET Pairs]
  BY DEF TypeInv, TypeOK, Shape, Resting
<1>2. CASE q.op = "store"
  <2>1. q.kind \in Kinds /\ q.token \in Tokens
    BY <1>1, <1>2, RequestFields
  <2>2. /\ rows' = [rows EXCEPT ![q.kind][q.token] = q.row]
        /\ owed' = [d \in Callers |-> owed[d] \ {<<q.kind, q.token>>}]
        /\ refreshTable' = refreshTable
    BY <1>2 DEF Apply
  <2>3. ASSUME NEW d \in Callers, NEW p \in owed'[d]
        PROVE  rows'[p[1]][p[2]] = rows[p[1]][p[2]]
    <3>1. p \in Pairs /\ p # <<q.kind, q.token>>
      BY <1>1, <2>2, <2>3
    <3>2. p = <<p[1], p[2]>> /\ p[1] \in Kinds /\ p[2] \in Tokens
      BY <3>1 DEF Pairs
    <3>3. QED
      BY <1>1, <2>1, <2>2, <3>1, <3>2 DEF Tables
  <2>4. ASSUME ~refreshTable', NEW t \in Tokens
        PROVE  rows'["refresh"][t] = NoRow
    <3>1. q.kind # "refresh"
      BY <1>2, <2>2, <2>4 DEF MissingTable
    <3>2. QED
      BY <1>1, <2>1, <2>2, <2>4, <3>1 DEF RevokeInv, Tables, Kinds
  <2>5. \A d \in Callers : owed'[d] \subseteq owed[d]
    BY <2>2
  <2>6. QED
    BY <2>2, <2>3, <2>4, <2>5 DEF Erodes
<1>3. CASE q.op # "store"
  <2>1. /\ rows' = [k \in Kinds |-> [t \in Tokens |->
                        IF Deletes(c, k, t) THEN NoRow ELSE rows[k][t]]]
        /\ owed' = owed /\ refreshTable' = refreshTable
    BY <1>3 DEF Apply
  <2>2. \A k \in Kinds, t \in Tokens : rows'[k][t] \in {NoRow, rows[k][t]}
    BY <2>1
  <2>3. \A d \in Callers : \A p \in owed'[d] : p[1] \in Kinds /\ p[2] \in Tokens
    BY <1>1, <2>1 DEF Pairs
  <2>4. "refresh" \in Kinds
    BY DEF Kinds
  <2>5. QED
    BY <2>1, <2>2, <2>3, <2>4 DEF Erodes, RevokeInv
<1>4. QED
  BY <1>2, <1>3

LEMMA ErodesDeleteRow ==
    ASSUME TypeInv, RevokeInv, NEW c \in Callers, pc[c] \in {"drop", "stray"},
           DeleteRow(c), UNCHANGED <<refreshTable, owed>>
    PROVE  Erodes
<1>1. /\ rows \in Tables /\ owed \in [Callers -> SUBSET Pairs]
      /\ req[c].kind \in Kinds /\ req[c].token \in Tokens
  BY RequestFields DEF TypeInv, TypeOK, Shape, Resting
<1>2. \A k \in Kinds, t \in Tokens : rows'[k][t] \in {NoRow, rows[k][t]}
  BY <1>1 DEF DeleteRow, Tables
<1>3. \A d \in Callers : \A p \in owed[d] : p[1] \in Kinds /\ p[2] \in Tokens
  BY <1>1 DEF Pairs
<1>4. "refresh" \in Kinds
  BY DEF Kinds
<1>5. QED
  BY <1>2, <1>3, <1>4 DEF Erodes, RevokeInv

\* Wherever a step erodes and takes no revoke to where it counts as done, or to
\* its statement, the invariant survives it.
LEMMA ErodedRevokeInv ==
    ASSUME TypeInv, TypeInv', RevokeInv, Erodes,
           NEW c \in Callers,
           \A d \in Callers \ {c} : pc'[d] = pc[d] /\ req'[d] = req[d] /\ both'[d] = both[d],
           (/\ req'[c] # NoRequest /\ req'[c].op = "revoke"
            /\ pc'[c] \in {"run", "adrift", "done", "returned"}) =>
               /\ req'[c] = req[c] /\ both'[c] = both[c]
               /\ \/ pc[c] = pc'[c]
                  \/ pc[c] = "run" /\ pc'[c] = "adrift"
                  \/ pc[c] = "done" /\ pc'[c] = "returned"
    PROVE  RevokeInv'
<1>1. /\ ~refreshTable' => \A t \in Tokens : rows'["refresh"][t] = NoRow
      /\ \A d \in Callers, t \in Tokens : <<"refresh", t>> \in owed'[d] => refreshTable'
  BY DEF RevokeInv, Erodes
<1>2. ASSUME NEW d \in Callers, pc'[d] \in {"run", "adrift"}, req'[d].op = "revoke", ~both'[d]
      PROVE  \A t \in Tokens : <<"refresh", t>> \notin owed'[d]
  <2>1. req'[d] # NoRequest
    BY <1>2, PostgresAssumption DEF TypeInv, Shape, Resting
  <2>2. pc[d] \in {"run", "adrift"} /\ req[d].op = "revoke" /\ ~both[d]
    BY <1>2, <2>1
  <2>3. QED
    BY <2>2 DEF RevokeInv, Erodes
<1>3. ASSUME NEW d \in Callers, req'[d] # NoRequest, req'[d].op = "revoke",
             pc'[d] \in {"done", "returned"}, NEW p \in owed'[d]
      PROVE  ~(rows'[p[1]][p[2]] # NoRow /\ rows'[p[1]][p[2]].client = req'[d].client)
  <2>1. req'[d] = req[d] /\ pc[d] \in {"done", "returned"}
    BY <1>3
  <2>2. p \in owed[d] /\ rows'[p[1]][p[2]] \in {NoRow, rows[p[1]][p[2]]}
    BY DEF Erodes
  <2>3. QED
    BY <1>3, <2>1, <2>2 DEF RevokeInv, RevokeComplete
<1>4. QED
  BY <1>1, <1>2, <1>3 DEF RevokeInv, RevokeComplete

LEMMA RevokeInvInit == Init => RevokeInv
BY DEF Init, RevokeInv, RevokeComplete, EmptyTables, Kinds

LEMMA RevokeInvNext == TypeInv /\ TypeInv' /\ RevokeInv /\ [Next]_vars => RevokeInv'
<1> SUFFICES ASSUME TypeInv, TypeInv', RevokeInv, [Next]_vars PROVE RevokeInv'
  OBVIOUS
<1>1. CASE UNCHANGED vars
  BY <1>1 DEF vars, data, local, RevokeInv, RevokeComplete
<1>2. CASE Initialize \/ BeginClose \/ FinishClose \/ Tick
  BY <1>2 DEF Initialize, BeginClose, FinishClose, Tick, data, local,
              RevokeInv, RevokeComplete
<1>3. CASE CreateRefreshTable
  BY <1>3 DEF CreateRefreshTable, local, RevokeInv, RevokeComplete
<1>4. ASSUME NEW c \in Callers, Refuse(c) \/ AcquireFails(c) \/ Fail(c) \/ Sink(c)
      PROVE  RevokeInv'
  <2>1. Raise(c) /\ UNCHANGED data
    BY <1>4 DEF Refuse, AcquireFails, Fail, Sink
  <2>2. Erodes
    BY <2>1, ErodesUnchanged DEF data
  <2>3. QED
    BY <2>1, <2>2, ErodedRevokeInv DEF Raise, Goto, TypeInv, TypeOK
<1>5. ASSUME NEW c \in Callers, NEW q \in Requests, Begin(c, q)
      PROVE  RevokeInv'
  <2>1. /\ pc' = [pc EXCEPT ![c] = "acquire"] /\ req' = [req EXCEPT ![c] = q]
        /\ both' = [both EXCEPT ![c] = FALSE]
        /\ owed' = [owed EXCEPT ![c] = IF q.op = "revoke" THEN RowsOf(q.client) ELSE {}]
        /\ UNCHANGED <<rows, refreshTable>>
    BY <1>5 DEF Begin, Goto
  <2>2. \A t \in Tokens : <<"refresh", t>> \in owed'[c] => refreshTable
    BY <2>1 DEF RowsOf, RevokeInv, TypeInv, TypeOK
  <2>3. QED
    BY <2>1, <2>2 DEF RevokeInv, RevokeComplete, TypeInv, TypeOK
<1>6. ASSUME NEW c \in Callers, Acquire(c)
      PROVE  RevokeInv'
  <2>1. Erodes
    BY <1>6, ErodesUnchanged DEF Acquire, data
  <2>2. /\ pc' = [pc EXCEPT ![c] = pc'[c]] /\ UNCHANGED <<req, both>>
        /\ pc'[c] \in {"drop", "check", "run"}
        /\ pc'[c] = "run" => req[c].op # "revoke"
    BY <1>6 DEF Acquire, Goto, Waiting, local, TypeInv, TypeOK
  <2>3. QED
    BY <2>1, <2>2, ErodedRevokeInv DEF TypeInv, TypeOK
<1>7. ASSUME NEW c \in Callers, Check(c)
      PROVE  RevokeInv'
  BY <1>7 DEF Check, Goto, data, RevokeInv, RevokeComplete, TypeInv, TypeOK
<1>8. ASSUME NEW c \in Callers, Run(c)
      PROVE  RevokeInv'
  <2>1. CASE MissingTable(c)
    <3>1. Raise(c) /\ UNCHANGED data
      BY <1>8, <2>1 DEF Run
    <3>2. Erodes
      BY <3>1, ErodesUnchanged DEF data
    <3>3. QED
      BY <3>1, <3>2, ErodedRevokeInv DEF Raise, Goto, TypeInv, TypeOK
  <2>2. CASE ~MissingTable(c)
    <3>1. /\ pc[c] = "run" /\ pc' = [pc EXCEPT ![c] = "done"]
          /\ Apply(c) /\ UNCHANGED <<req, both>>
      BY <1>8, <2>2 DEF Run, Goto
    <3>2. Erodes
      BY <2>2, <3>1, ErodesApply
    <3>3. CASE req[c].op # "revoke"
      BY <3>1, <3>2, <3>3, ErodedRevokeInv DEF TypeInv, TypeOK
    <3>4. CASE req[c].op = "revoke"
      <4>1. \A d \in Callers \ {c} : pc'[d] = pc[d]
        BY <3>1 DEF TypeInv, TypeOK
      <4>2. /\ rows' = [k \in Kinds |-> [t \in Tokens |->
                            IF Deletes(c, k, t) THEN NoRow ELSE rows[k][t]]]
            /\ UNCHANGED <<owed, refreshTable>>
        BY <3>1, <3>4 DEF Apply
      <4>3. ASSUME NEW p \in owed[c]
            PROVE  ~(rows'[p[1]][p[2]] # NoRow /\ rows'[p[1]][p[2]].client = req[c].client)
        <5>1. p = <<p[1], p[2]>> /\ p[1] \in Kinds /\ p[2] \in Tokens
          BY DEF Pairs, TypeInv, TypeOK
        <5>2. p[1] = "access" \/ both[c]
          BY <3>1, <3>4, <5>1 DEF RevokeInv, Kinds, TypeInv, TypeOK
        <5>3. QED
          BY <3>4, <4>2, <5>1, <5>2 DEF Deletes
      <4>4. RevokeComplete'
        <5>1. ASSUME NEW d \in Callers \ {c}, req[d] # NoRequest, req[d].op = "revoke",
                     pc[d] \in {"done", "returned"}, NEW p \in owed[d]
              PROVE  ~(rows'[p[1]][p[2]] # NoRow /\ rows'[p[1]][p[2]].client = req[d].client)
          <6>1. rows'[p[1]][p[2]] \in {NoRow, rows[p[1]][p[2]]}
            BY <3>2, <4>2, <5>1 DEF Erodes
          <6>2. QED
            BY <5>1, <6>1 DEF RevokeInv, RevokeComplete
        <5>2. req' = req /\ owed' = owed
          BY <3>1, <4>2
        <5>3. ASSUME NEW d \in Callers, req'[d] # NoRequest, req'[d].op = "revoke",
                     pc'[d] \in {"done", "returned"}, NEW p \in owed'[d]
              PROVE  ~(rows'[p[1]][p[2]] # NoRow /\ rows'[p[1]][p[2]].client = req'[d].client)
          <6>1. CASE d = c
            BY <4>3, <5>2, <5>3, <6>1
          <6>2. CASE d # c
            BY <4>1, <5>1, <5>2, <5>3, <6>2
          <6>3. QED
            BY <6>1, <6>2
        <5>4. QED
          BY <5>3 DEF RevokeComplete
      <4>5. QED
        BY <3>1, <3>2, <4>1, <4>2, <4>4 DEF RevokeInv, Erodes, TypeInv, TypeOK
    <3>5. QED
      BY <3>3, <3>4
  <2>3. QED
    BY <2>1, <2>2
<1>9. ASSUME NEW c \in Callers, Release(c)
      PROVE  RevokeInv'
  <2>1. Erodes
    BY <1>9, ErodesUnchanged DEF Release, data
  <2>2. QED
    BY <1>9, <2>1, ErodedRevokeInv DEF Release, Goto, local, TypeInv, TypeOK, Shape
<1>10. ASSUME NEW c \in Callers, Judge(c)
       PROVE  RevokeInv'
  <2>1. Erodes
    BY <1>10, ErodesUnchanged DEF Judge, data
  <2>2. /\ \A d \in Callers \ {c} : pc'[d] = pc[d] /\ req'[d] = req[d] /\ both'[d] = both[d]
        /\ req'[c] = NoRequest \/ req'[c].op = "load"
    BY <1>10 DEF Judge, Raise, Goto, local, TypeInv, TypeOK, Shape
  <2>3. QED
    BY <2>1, <2>2, ErodedRevokeInv
<1>11. ASSUME NEW c \in Callers, Drop(c)
       PROVE  RevokeInv'
  <2>1. Erodes
    BY <1>11, ErodesDeleteRow DEF Drop
  <2>2. QED
    BY <1>11, <2>1, ErodedRevokeInv DEF Drop, Goto, local, TypeInv, TypeOK
<1>12. ASSUME NEW c \in Callers, CutOff(c)
       PROVE  RevokeInv'
  <2>1. Erodes
    BY <1>12, ErodesUnchanged DEF CutOff, data
  <2>2. QED
    BY <1>12, <2>1, ErodedRevokeInv DEF CutOff, Goto, local, TypeInv, TypeOK
<1>13. ASSUME NEW c \in Callers, Land(c)
       PROVE  RevokeInv'
  <2>1. Erodes
    BY <1>13, ErodesApply, ErodesDeleteRow DEF Land
  <2>2. QED
    BY <1>13, <2>1, ErodedRevokeInv DEF Land, Raise, Goto, TypeInv, TypeOK
<1>14. QED
  BY <1>1, <1>2, <1>3, <1>4, <1>5, <1>6, <1>7, <1>8, <1>9, <1>10, <1>11, <1>12, <1>13
  DEF Next, Step

\* A revoke that has run leaves nothing the client held when it began, whatever
\* the other callers, the failures and a migration do meanwhile.
THEOREM RevokeIsComplete == Spec => []RevokeComplete
<1>1. TypeInv /\ RevokeInv /\ [Next]_vars => (TypeInv /\ RevokeInv)'
  BY TypeInvNext, RevokeInvNext
<1>2. Spec => [](TypeInv /\ RevokeInv)
  BY <1>1, TypeInvInit, RevokeInvInit, PTL DEF Spec
<1>3. RevokeInv => RevokeComplete
  BY DEF RevokeInv
<1>4. QED
  BY <1>2, <1>3, PTL
=============================================================================
