----------------------- MODULE PostgresContract_proofs -----------------------
(***************************************************************************)
(* While no token is stored twice, PostgresTokenStorage drops only expired *)
(* records, and while the refresh table is not created beside running      *)
(* calls it implements the contract of TokenStorage.                       *)
(***************************************************************************)
EXTENDS PostgresTokenStorage_proofs, MCPostgresTokenStorage

Pair(c) == <<req[c].kind, req[c].token>>

\* c's store may still be applied.
Storing(c) == pc[c] \in {"acquire", "run", "adrift"} /\ req[c].op = "store"

\* The token had its one store: no further row can appear under it.
Settled(k, t) ==
    /\ <<k, t>> \in issued
    /\ \A d \in Callers : Storing(d) => Pair(d) # <<k, t>>

\* A row that was read unexpired, or is about to be judged, is the only one its
\* token will ever have.
ReadsOnlyRow(c) ==
    (pc[c] \in {"done", "judge"} /\ req[c].op = "load" /\ got[c] # NoRow) =>
        /\ Settled(req[c].kind, req[c].token)
        /\ rows[req[c].kind][req[c].token] \in {NoRow, got[c]}

\* The delete at the end of a load finds the row it judged, or none.
DropsExpired(c) ==
    pc[c] \in {"reacquire", "drop", "stray"} =>
        /\ Settled(req[c].kind, req[c].token)
        /\ \/ rows[req[c].kind][req[c].token] = NoRow
           \/ ExpiredAt(rows[req[c].kind][req[c].token], clock)

\* Each token has at most one store, and a row only after it.
DropInv ==
    /\ \A c \in Callers : Storing(c) => Pair(c) \in issued
    /\ \A c, d \in Callers : (Storing(c) /\ Storing(d) /\ c # d) => Pair(c) # Pair(d)
    /\ \A k \in Kinds, t \in Tokens : rows[k][t] # NoRow => Settled(k, t)
    /\ \A c \in Callers : ReadsOnlyRow(c) /\ DropsExpired(c)

LEMMA InstantType == \A exp \in Expiries : Instant(exp) \in Int
<1>1. ASSUME NEW x \in Int, NEW y \in Int PROVE x * y \in Int
  OBVIOUS
<1>2. QED
  BY <1>1, ConstantsAssumption DEF Instant

LEMMA ExpiredStays ==
    ASSUME NEW row \in Record \cup {NoRow}, NEW m \in Int, NEW n \in Int, m <= n,
           ExpiredAt(row, m)
    PROVE  ExpiredAt(row, n)
<1>1. row.exp \in Expiries
  BY DEF ExpiredAt, Record
<1>2. Instant(row.exp) \in Int
  BY <1>1, InstantType
<1>3. QED
  BY <1>2 DEF ExpiredAt

\* What one step of caller c does to c's own call and to the rows it can reach:
\* a store that was under way is applied or given up, no other appears.
Settles(c) ==
    /\ \A d \in Callers \ {c} : pc'[d] = pc[d] /\ req'[d] = req[d] /\ got'[d] = got[d]
    /\ Storing(c)' => Storing(c) /\ req'[c] = req[c]
    /\ issued \subseteq issued' /\ clock' = clock
    /\ \A k \in Kinds, t \in Tokens :
          \/ rows'[k][t] \in {NoRow, rows[k][t]}
          \/ Storing(c) /\ ~Storing(c)' /\ Pair(c) = <<k, t>>

LEMMA SettledStays ==
    ASSUME TypeInv, DropInv, NEW c \in Callers, Settles(c),
           NEW k \in Kinds, NEW t \in Tokens, Settled(k, t)
    PROVE  Settled(k, t)' /\ rows'[k][t] \in {NoRow, rows[k][t]}
<1>1. ASSUME NEW d \in Callers, Storing(d)'
      PROVE  Storing(d) /\ Pair(d)' = Pair(d)
  BY <1>1 DEF Settles, Storing, Pair
<1>2. Settled(k, t)'
  BY <1>1 DEF Settled, Settles
<1>3. ~(Storing(c) /\ Pair(c) = <<k, t>>)
  BY DEF Settled
<1>4. QED
  BY <1>2, <1>3 DEF Settles

\* The invariant survives such a step, provided c's own place is accounted for.
LEMMA SettlesDropInv ==
    ASSUME TypeInv, TypeInv', DropInv, NEW c \in Callers, Settles(c),
           ReadsOnlyRow(c)', DropsExpired(c)'
    PROVE  DropInv'
<1>1. ASSUME NEW d \in Callers, Storing(d)'
      PROVE  Storing(d) /\ Pair(d)' = Pair(d)
  BY <1>1 DEF Settles, Storing, Pair
<1>2. \A d \in Callers : Storing(d)' => Pair(d)' \in issued'
  BY <1>1 DEF DropInv, Settles
<1>3. \A d, e \in Callers : (Storing(d)' /\ Storing(e)' /\ d # e) => Pair(d)' # Pair(e)'
  BY <1>1 DEF DropInv
<1>4. ASSUME NEW k \in Kinds, NEW t \in Tokens, rows'[k][t] # NoRow
      PROVE  Settled(k, t)'
  <2>1. CASE rows'[k][t] = rows[k][t]
    BY <1>4, <2>1, SettledStays DEF DropInv
  <2>2. CASE Storing(c) /\ ~Storing(c)' /\ Pair(c) = <<k, t>>
    <3>1. <<k, t>> \in issued'
      BY <2>2 DEF DropInv, Settles
    <3>2. ASSUME NEW d \in Callers, Storing(d)'
          PROVE  Pair(d)' # <<k, t>>
      <4>1. d # c
        BY <2>2, <3>2
      <4>2. Storing(d) /\ Pair(d)' = Pair(d)
        BY <1>1, <3>2
      <4>3. QED
        BY <2>2, <4>1, <4>2 DEF DropInv
    <3>3. QED
      BY <3>1, <3>2 DEF Settled
  <2>3. QED
    BY <1>4, <2>1, <2>2 DEF Settles
<1>5. ASSUME NEW d \in Callers \ {c}
      PROVE  ReadsOnlyRow(d)' /\ DropsExpired(d)'
  <2>1. /\ pc'[d] = pc[d] /\ req'[d] = req[d] /\ got'[d] = got[d] /\ clock' = clock
        /\ ReadsOnlyRow(d) /\ DropsExpired(d)
    BY DEF Settles, DropInv
  <2>2. CASE req[d].kind \in Kinds /\ req[d].token \in Tokens
    <3>1. PICK k \in Kinds, t \in Tokens : req[d].kind = k /\ req[d].token = t
      BY <2>2
    <3>2. Settled(k, t) => Settled(k, t)' /\ rows'[k][t] \in {NoRow, rows[k][t]}
      BY SettledStays
    <3>3. ReadsOnlyRow(d)'
      BY <2>1, <3>1, <3>2 DEF ReadsOnlyRow
    <3>4. DropsExpired(d)'
      BY <2>1, <3>1, <3>2 DEF DropsExpired
    <3>5. QED
      BY <3>3, <3>4
  <2>3. CASE ~(req[d].kind \in Kinds /\ req[d].token \in Tokens)
    <3>1. ~(pc[d] \in {"done", "judge", "reacquire", "drop", "stray"} /\ req[d].op = "load")
      BY <2>3, RequestFields DEF TypeInv, Shape, Resting
    <3>2. pc[d] \notin {"reacquire", "drop", "stray"}
      BY <3>1 DEF TypeInv, Shape
    <3>3. QED
      BY <2>1, <3>1, <3>2 DEF ReadsOnlyRow, DropsExpired
  <2>4. QED
    BY <2>2, <2>3
<1>6. QED
  BY <1>2, <1>3, <1>4, <1>5 DEF DropInv

\* A step that leaves the tables alone and starts no store settles.
LEMMA QuietSettles ==
    ASSUME NEW c \in Callers, UNCHANGED <<rows, issued, clock>>,
           \A d \in Callers \ {c} : pc'[d] = pc[d] /\ req'[d] = req[d] /\ got'[d] = got[d],
           Storing(c)' => Storing(c) /\ req'[c] = req[c]
    PROVE  Settles(c)
BY DEF Settles

LEMMA RaiseDropInv ==
    ASSUME TypeInv, TypeInv', DropInv, NEW c \in Callers, Raise(c),
           UNCHANGED <<rows, issued, clock>>
    PROVE  DropInv'
<1>1. /\ \A d \in Callers \ {c} : pc'[d] = pc[d] /\ req'[d] = req[d] /\ got'[d] = got[d]
      /\ pc'[c] = "raised"
  BY DEF Raise, Goto, TypeInv, TypeOK
<1>2. Settles(c)
  BY <1>1, QuietSettles DEF Storing
<1>3. QED
  BY <1>1, <1>2, SettlesDropInv DEF ReadsOnlyRow, DropsExpired

\* The statement of a call that is no load settles its token.
LEMMA ApplySettles ==
    ASSUME TypeInv, DropInv, NEW c \in Callers, pc[c] \in {"run", "adrift"}, Apply(c),
           pc'[c] \in {"done", "raised"}, clock' = clock,
           \A d \in Callers \ {c} : pc'[d] = pc[d] /\ req'[d] = req[d] /\ got'[d] = got[d]
    PROVE  Settles(c)
<1>1. req[c] \in Requests /\ rows \in Tables
  BY DEF TypeInv, TypeOK, Shape, Resting
<1>2. ~Storing(c)' /\ issued' = issued
  BY DEF Storing, Apply
<1>3. CASE req[c].op = "store"
  <2>1. /\ req[c].kind \in Kinds /\ req[c].token \in Tokens
        /\ rows' = [rows EXCEPT ![req[c].kind][req[c].token] = req[c].row]
    BY <1>1, <1>3, RequestFields DEF Apply
  <2>2. Storing(c)
    BY <1>3 DEF Storing
  <2>3. \A k \in Kinds, t \in Tokens :
           rows'[k][t] = rows[k][t] \/ Pair(c) = <<k, t>>
    BY <1>1, <2>1 DEF Pair, Tables
  <2>4. QED
    BY <1>2, <2>2, <2>3 DEF Settles
<1>4. CASE req[c].op # "store"
  <2>1. \A k \in Kinds, t \in Tokens : rows'[k][t] \in {NoRow, rows[k][t]}
    BY <1>4 DEF Apply
  <2>2. QED
    BY <1>2, <2>1 DEF Settles
<1>5. QED
  BY <1>3, <1>4

LEMMA DeleteRowSettles ==
    ASSUME TypeInv, NEW c \in Callers, pc[c] \in {"drop", "stray"}, DeleteRow(c),
           pc'[c] \in {"dropped", "raised"}, UNCHANGED <<issued, clock>>,
           \A d \in Callers \ {c} : pc'[d] = pc[d] /\ req'[d] = req[d] /\ got'[d] = got[d]
    PROVE  Settles(c)
<1>1. rows \in Tables /\ req[c].kind \in Kinds /\ req[c].token \in Tokens
  BY RequestFields DEF TypeInv, TypeOK, Shape, Resting
<1>2. \A k \in Kinds, t \in Tokens : rows'[k][t] \in {NoRow, rows[k][t]}
  BY <1>1 DEF DeleteRow, Tables
<1>3. QED
  BY <1>2 DEF Settles, Storing

LEMMA DropInvInit == Init => DropInv
BY DEF Init, DropInv, Storing, ReadsOnlyRow, DropsExpired, EmptyTables

LEMMA DropInvNext ==
    ASSUME ~Reissue, TypeInv, TypeInv', DropInv, [Next]_vars
    PROVE  DropInv'
<1>1. CASE UNCHANGED vars
  BY <1>1 DEF vars, data, local, DropInv, Storing, Pair, Settled, ReadsOnlyRow, DropsExpired
<1>2. CASE Initialize \/ BeginClose \/ FinishClose \/ CreateRefreshTable
  BY <1>2 DEF Initialize, BeginClose, FinishClose, CreateRefreshTable, data, local,
              DropInv, Storing, Pair, Settled, ReadsOnlyRow, DropsExpired
<1>3. CASE Tick
  <2>1. UNCHANGED <<rows, issued, pc, req, got>> /\ clock' = clock + 1 /\ clock \in Nat
    BY <1>3, PostgresAssumption DEF Tick, data, local, TypeInv, TypeOK
  <2>2. \A c \in Callers : Storing(c)' = Storing(c) /\ Pair(c)' = Pair(c)
    BY <2>1 DEF Storing, Pair
  <2>3. \A k \in Kinds, t \in Tokens : Settled(k, t) => Settled(k, t)'
    BY <2>1, <2>2 DEF Settled
  <2>4. ASSUME NEW c \in Callers
        PROVE  ReadsOnlyRow(c)' /\ DropsExpired(c)'
    <3>1. ReadsOnlyRow(c) /\ DropsExpired(c)
      BY DEF DropInv
    <3>2. ReadsOnlyRow(c)'
      BY <2>1, <3>1 DEF ReadsOnlyRow, Settled, Storing, Pair
    <3>3. ASSUME pc[c] \in {"reacquire", "drop", "stray"}
          PROVE  rows[req[c].kind][req[c].token] \in Record \cup {NoRow}
      BY <3>3, RequestFields DEF TypeInv, TypeOK, Shape, Resting, Tables
    <3>4. DropsExpired(c)'
      BY <2>1, <3>1, <3>3, ExpiredStays DEF DropsExpired, Settled, Storing, Pair
    <3>5. QED
      BY <3>2, <3>4
  <2>5. QED
    BY <2>1, <2>2, <2>3, <2>4 DEF DropInv
<1>4. ASSUME NEW c \in Callers, Refuse(c) \/ AcquireFails(c) \/ Fail(c) \/ Sink(c)
      PROVE  DropInv'
  BY <1>4, RaiseDropInv DEF Refuse, AcquireFails, Fail, Sink, data
<1>5. ASSUME NEW c \in Callers, NEW q \in Requests, Begin(c, q)
      PROVE  DropInv'
  <2>1. /\ pc' = [pc EXCEPT ![c] = "acquire"] /\ req' = [req EXCEPT ![c] = q]
        /\ got' = [got EXCEPT ![c] = NoRow] /\ rows' = rows /\ clock' = clock
        /\ issued' = IF q.op = "store" THEN issued \cup {<<q.kind, q.token>>} ELSE issued
        /\ q.op = "store" => <<q.kind, q.token>> \notin issued
        /\ pc[c] \in Resting
    BY <1>5 DEF Begin, Goto
  <2>2. /\ \A d \in Callers \ {c} : pc'[d] = pc[d] /\ req'[d] = req[d] /\ got'[d] = got[d]
        /\ pc'[c] = "acquire" /\ req'[c] = q /\ got'[c] = NoRow
    BY <2>1 DEF TypeInv, TypeOK
  <2>3. \A d \in Callers \ {c} : (Storing(d)' <=> Storing(d)) /\ Pair(d)' = Pair(d)
    BY <2>2 DEF Storing, Pair
  <2>4. /\ Pair(c)' = <<q.kind, q.token>>
        /\ Storing(c)' => Pair(c)' \notin issued /\ Pair(c)' \in issued'
        /\ ~Storing(c)
    BY <2>1, <2>2 DEF Storing, Pair, Resting
  <2>5. ASSUME NEW k \in Kinds, NEW t \in Tokens, Settled(k, t)
        PROVE  Settled(k, t)'
    BY <2>1, <2>3, <2>4, <2>5 DEF Settled
  <2>6. \A d \in Callers : Storing(d)' => Pair(d)' \in issued'
    BY <2>1, <2>3, <2>4 DEF DropInv
  <2>7. ASSUME NEW d \in Callers, NEW e \in Callers, Storing(d)', Storing(e)', d # e
        PROVE  Pair(d)' # Pair(e)'
    BY <2>3, <2>4, <2>7 DEF DropInv
  <2>8. ASSUME NEW d \in Callers
        PROVE  ReadsOnlyRow(d)' /\ DropsExpired(d)'
    <3>1. CASE d = c
      BY <2>2, <3>1 DEF ReadsOnlyRow, DropsExpired
    <3>2. CASE d # c
      <4>1. /\ pc'[d] = pc[d] /\ req'[d] = req[d] /\ got'[d] = got[d]
            /\ ReadsOnlyRow(d) /\ DropsExpired(d)
        BY <2>2, <3>2 DEF DropInv
      <4>2. CASE req[d].kind \in Kinds /\ req[d].token \in Tokens
        <5>1. PICK k \in Kinds, t \in Tokens : req[d].kind = k /\ req[d].token = t
          BY <4>2
        <5>2. Settled(k, t) => Settled(k, t)'
          BY <2>5
        <5>3. QED
          BY <2>1, <4>1, <5>1, <5>2 DEF ReadsOnlyRow, DropsExpired
      <4>3. CASE ~(req[d].kind \in Kinds /\ req[d].token \in Tokens)
        <5>1. ~(pc[d] \in {"done", "judge", "reacquire", "drop", "stray"} /\ req[d].op = "load")
          BY <4>3, RequestFields DEF TypeInv, Shape, Resting
        <5>2. pc[d] \notin {"reacquire", "drop", "stray"}
          BY <5>1 DEF TypeInv, Shape
        <5>3. QED
          BY <4>1, <5>1, <5>2 DEF ReadsOnlyRow, DropsExpired
      <4>4. QED
        BY <4>2, <4>3
    <3>3. QED
      BY <3>1, <3>2
  <2>9. QED
    BY <2>1, <2>5, <2>6, <2>7, <2>8 DEF DropInv
<1>6. ASSUME NEW c \in Callers, Acquire(c)
      PROVE  DropInv'
  <2>1. /\ \A d \in Callers \ {c} : pc'[d] = pc[d]
        /\ UNCHANGED <<rows, issued, clock, req, got>>
        /\ \/ pc[c] = "acquire" /\ pc'[c] \in {"check", "run"}
           \/ pc[c] = "reacquire" /\ pc'[c] = "drop"
    BY <1>6 DEF Acquire, Goto, data, local, Waiting, TypeInv, TypeOK
  <2>2. Settles(c)
    BY <2>1, QuietSettles DEF Storing
  <2>3. DropsExpired(c)'
    BY <2>1 DEF DropInv, DropsExpired, Settled, Storing, Pair
  <2>4. QED
    BY <2>1, <2>2, <2>3, SettlesDropInv DEF ReadsOnlyRow
<1>7. ASSUME NEW c \in Callers, Check(c)
      PROVE  DropInv'
  <2>1. /\ \A d \in Callers \ {c} : pc'[d] = pc[d]
        /\ UNCHANGED <<rows, issued, clock, req, got>> /\ pc'[c] = "run"
        /\ req[c].op = "revoke"
    BY <1>7 DEF Check, Goto, data, TypeInv, TypeOK, Shape
  <2>2. Settles(c)
    BY <2>1, QuietSettles DEF Storing
  <2>3. QED
    BY <2>1, <2>2, SettlesDropInv DEF ReadsOnlyRow, DropsExpired
<1>8. ASSUME NEW c \in Callers, Run(c)
      PROVE  DropInv'
  <2>1. CASE MissingTable(c)
    BY <1>8, <2>1, RaiseDropInv DEF Run, data
  <2>2. CASE ~MissingTable(c)
    <3>1. /\ pc[c] = "run" /\ Apply(c) /\ UNCHANGED <<clock, req>> /\ pc'[c] = "done"
          /\ \A d \in Callers \ {c} : pc'[d] = pc[d] /\ got'[d] = got[d]
          /\ req[c].op = "load" => got'[c] = rows[req[c].kind][req[c].token]
      BY <1>8, <2>2 DEF Run, Goto, TypeInv, TypeOK
    <3>2. Settles(c)
      BY <3>1, ApplySettles
    <3>3. ReadsOnlyRow(c)'
      <4>1. SUFFICES ASSUME req[c].op = "load", got'[c] # NoRow
                     PROVE  /\ Settled(req[c].kind, req[c].token)'
                            /\ rows'[req'[c].kind][req'[c].token] \in {NoRow, got'[c]}
        BY <3>1 DEF ReadsOnlyRow
      <4>2. PICK k \in Kinds, t \in Tokens : req[c].kind = k /\ req[c].token = t
        BY <3>1, <4>1, RequestFields DEF TypeInv, Shape, Resting
      <4>3. Settled(k, t)
        BY <3>1, <4>1, <4>2 DEF DropInv
      <4>4. Settled(k, t)' /\ rows'[k][t] \in {NoRow, rows[k][t]}
        BY <3>2, <4>3, SettledStays
      <4>5. QED
        BY <3>1, <4>1, <4>2, <4>4
    <3>4. QED
      BY <3>1, <3>2, <3>3, SettlesDropInv DEF DropsExpired
  <2>3. QED
    BY <2>1, <2>2
<1>9. ASSUME NEW c \in Callers, Release(c)
      PROVE  DropInv'
  <2>1. /\ \A d \in Callers \ {c} : pc'[d] = pc[d]
        /\ UNCHANGED <<rows, issued, clock, req, got>>
        /\ \/ pc[c] = "done" /\ pc'[c] = "judge"
           \/ pc'[c] = "returned"
    BY <1>9 DEF Release, Goto, data, local, TypeInv, TypeOK
  <2>2. Settles(c)
    BY <2>1, QuietSettles DEF Storing
  <2>3. ReadsOnlyRow(c)'
    BY <2>1 DEF DropInv, ReadsOnlyRow, Settled, Storing, Pair
  <2>4. QED
    BY <2>1, <2>2, <2>3, SettlesDropInv DEF DropsExpired
<1>10. ASSUME NEW c \in Callers, Judge(c)
       PROVE  DropInv'
  <2>1. CASE ExpiredAt(got[c], clock) /\ pool = "none"
    BY <1>10, <2>1, RaiseDropInv DEF Judge, data
  <2>2. CASE ExpiredAt(got[c], clock) /\ pool # "none"
    <3>1. /\ \A d \in Callers \ {c} : pc'[d] = pc[d] /\ got'[d] = got[d]
          /\ UNCHANGED <<rows, issued, clock, req>>
          /\ pc[c] = "judge" /\ pc'[c] = "reacquire" /\ got'[c] = NoRow
      BY <1>10, <2>2 DEF Judge, Goto, data, TypeInv, TypeOK
    <3>2. Settles(c)
      BY <3>1, QuietSettles DEF Storing
    <3>3. got[c] # NoRow /\ req[c].op = "load"
      BY <2>2, <3>1 DEF ExpiredAt, TypeInv, Shape
    <3>4. DropsExpired(c)'
      BY <2>2, <3>1, <3>2, <3>3
      DEF DropInv, ReadsOnlyRow, DropsExpired, Settled, Settles, Storing, Pair
    <3>5. QED
      BY <3>1, <3>2, <3>4, SettlesDropInv DEF ReadsOnlyRow
  <2>3. CASE ~ExpiredAt(got[c], clock)
    <3>1. /\ \A d \in Callers \ {c} : pc'[d] = pc[d]
          /\ UNCHANGED <<rows, issued, clock, req, got>> /\ pc'[c] = "returned"
      BY <1>10, <2>3 DEF Judge, Goto, data, local, TypeInv, TypeOK
    <3>2. Settles(c)
      BY <3>1, QuietSettles DEF Storing
    <3>3. QED
      BY <3>1, <3>2, SettlesDropInv DEF ReadsOnlyRow, DropsExpired
  <2>4. QED
    BY <2>1, <2>2, <2>3
<1>11. ASSUME NEW c \in Callers, Drop(c)
       PROVE  DropInv'
  <2>1. /\ pc[c] = "drop" /\ DeleteRow(c) /\ UNCHANGED <<issued, clock, req, got>>
        /\ pc'[c] = "dropped" /\ \A d \in Callers \ {c} : pc'[d] = pc[d]
    BY <1>11 DEF Drop, Goto, local, TypeInv, TypeOK
  <2>2. Settles(c)
    BY <2>1, DeleteRowSettles
  <2>3. QED
    BY <2>1, <2>2, SettlesDropInv DEF ReadsOnlyRow, DropsExpired
<1>12. ASSUME NEW c \in Callers, CutOff(c)
       PROVE  DropInv'
  <2>1. /\ \A d \in Callers \ {c} : pc'[d] = pc[d]
        /\ UNCHANGED <<rows, issued, clock, req, got>>
        /\ \/ pc[c] = "run" /\ pc'[c] = "adrift"
           \/ pc[c] = "drop" /\ pc'[c] = "stray"
    BY <1>12 DEF CutOff, Goto, data, local, TypeInv, TypeOK
  <2>2. Settles(c)
    BY <2>1, QuietSettles DEF Storing
  <2>3. DropsExpired(c)'
    BY <2>1 DEF DropInv, DropsExpired, Settled, Storing, Pair
  <2>4. QED
    BY <2>1, <2>2, <2>3, SettlesDropInv DEF ReadsOnlyRow
<1>13. ASSUME NEW c \in Callers, Land(c)
       PROVE  DropInv'
  <2>1. /\ \A d \in Callers \ {c} : pc'[d] = pc[d] /\ req'[d] = req[d] /\ got'[d] = got[d]
        /\ pc'[c] = "raised" /\ clock' = clock
        /\ \/ pc[c] = "adrift" /\ Apply(c)
           \/ pc[c] = "stray" /\ DeleteRow(c) /\ issued' = issued
    BY <1>13 DEF Land, Raise, Goto, TypeInv, TypeOK
  <2>2. Settles(c)
    BY <2>1, ApplySettles, DeleteRowSettles
  <2>3. QED
    BY <2>1, <2>2, SettlesDropInv DEF ReadsOnlyRow, DropsExpired
<1>14. QED
  BY <1>1, <1>2, <1>3, <1>4, <1>5, <1>6, <1>7, <1>8, <1>9, <1>10, <1>11, <1>12, <1>13
  DEF Next, Step

\* _load_from deletes nothing but an expired record, provided no token is ever
\* stored a second time (README.md's token endpoint draws every token at random).
THEOREM DropsAreExpired == ~Reissue => (Spec => []DropsOnlyExpired)
<1>1. SUFFICES ASSUME ~Reissue PROVE Spec => []DropsOnlyExpired
  OBVIOUS
<1>2. TypeInv /\ DropInv /\ [Next]_vars => (TypeInv /\ DropInv)'
  BY <1>1, TypeInvNext, DropInvNext
<1>3. Spec => [](TypeInv /\ DropInv)
  BY <1>2, TypeInvInit, DropInvInit, PTL DEF Spec
<1>4. DropInv => DropsOnlyExpired
  BY DEF DropInv, DropsExpired, DropsOnlyExpired
<1>5. QED
  BY <1>3, <1>4, PTL

-----------------------------------------------------------------------------
(* What a load answers, with MCPostgresTokenStorage's history of what it    *)
(* could truthfully have answered at each instant of the call.              *)

\* A load has witnessed the row that it read, unless that has expired, and the absence of
\* the row that it goes on to delete.
Truthful(c) ==
    /\ Loading(c) => LiveRow(req[c].kind, req[c].token) \in witness[c]
    /\ (pc[c] \in {"done", "judge"} /\ req[c].op = "load") =>
          got[c] \in witness[c] \/ ExpiredAt(got[c], clock)
    /\ pc[c] \in {"reacquire", "drop", "dropped"} => got[c] = NoRow /\ NoRow \in witness[c]
    /\ (pc[c] = "returned" /\ req[c].op = "load") => got[c] \in witness[c]

\* A history keeps what it has during a call, and after it.
LEMMA WitnessKeeps ==
    ASSUME MCNext, NEW c \in Callers
    PROVE  /\ Loading(c)' => LiveRow(req[c].kind, req[c].token)' \in witness'[c]
           /\ Loading(c) /\ Loading(c)' => witness[c] \subseteq witness'[c]
           /\ Loading(c) /\ pc'[c] = "returned" => witness'[c] = witness[c]
           /\ pc[c] = "returned" /\ pc'[c] = "returned" => witness'[c] = witness[c]
<1>1. witness'[c] = Witness(c)
  BY DEF MCNext
<1>2. QED
  BY <1>1 DEF Witness, Loading, Resting

\* While c waits, its answer stays true.
LEMMA TruthfulWaits ==
    ASSUME TypeInv, MCNext, NEW c \in Callers, Truthful(c), clock' \in Int, clock <= clock',
           pc'[c] = pc[c], req'[c] = req[c], got'[c] = got[c]
    PROVE  Truthful(c)'
<1>1. clock \in Int /\ got[c] \in Record \cup {NoRow}
  BY PostgresAssumption DEF TypeInv, TypeOK
<1>2. ExpiredAt(got[c], clock) => ExpiredAt(got[c], clock')
  BY <1>1, ExpiredStays
<1>3. Loading(c)' <=> Loading(c)
  BY DEF Loading
<1>4. pc[c] \in {"done", "judge"} /\ req[c].op = "load" => Loading(c)
  BY DEF Loading, Resting
<1>5. pc[c] \in {"reacquire", "drop", "dropped"} => Loading(c)
  BY DEF Loading, Resting, TypeInv, Shape
<1>6. QED
  BY <1>2, <1>3, <1>4, <1>5, WitnessKeeps DEF Truthful

\* The call of c takes a step.
LEMMA TruthfulMoves ==
    ASSUME TypeInv, DropInv, MCNext, NEW c \in Callers, Truthful(c), clock' = clock,
           \/ Refuse(c) \/ \E q \in Requests : Begin(c, q)
           \/ Acquire(c) \/ AcquireFails(c) \/ Step(c) \/ Fail(c) \/ CutOff(c)
    PROVE  Truthful(c)'
<1> DEFINE k == req[c].kind
           t == req[c].token
<1>0. /\ pc[c] \in PCs /\ rows \in Tables /\ pc[c] \notin Resting => req[c] \in Requests
      /\ pc[c] \in {"judge", "reacquire", "drop", "dropped", "stray"} => Loading(c)
      /\ Loading(c) => k \in Kinds /\ t \in Tokens
  BY RequestFields DEF TypeInv, TypeOK, Shape, Loading, Resting
<1>1. Loading(c)' => LiveRow(req[c].kind, req[c].token)' \in witness'[c]
  BY WitnessKeeps
<1>2. ASSUME pc'[c] \in {"raised", "acquire", "run", "check", "adrift", "stray"}
      PROVE  Truthful(c)'
  BY <1>1, <1>2 DEF Truthful
<1>3. ASSUME req'[c] = req[c], req[c].op # "load", pc'[c] \in {"done", "returned"}
      PROVE  Truthful(c)'
  BY <1>1, <1>3 DEF Truthful
<1>4. CASE Refuse(c) \/ AcquireFails(c) \/ Fail(c) \/ Land(c) \/ Sink(c)
  <2>1. pc'[c] = "raised"
    BY <1>4 DEF Refuse, AcquireFails, Fail, Land, Sink, Raise, Goto, TypeInv, TypeOK
  <2>2. QED
    BY <1>2, <2>1
<1>5. CASE (\E q \in Requests : Begin(c, q)) \/ Check(c) \/ CutOff(c)
  <2>1. pc'[c] \in {"acquire", "run", "adrift", "stray"}
    BY <1>5 DEF Begin, Check, CutOff, Goto, TypeInv, TypeOK
  <2>2. QED
    BY <1>2, <2>1
<1>6. CASE Acquire(c)
  <2>1. /\ pc'[c] \in {"run", "check"} \/ (pc[c] = "reacquire" /\ pc'[c] = "drop")
        /\ req' = req /\ got' = got
    BY <1>6 DEF Acquire, Goto, TypeInv, TypeOK, Waiting, local
  <2>2. CASE pc[c] = "reacquire" /\ pc'[c] = "drop"
    <3>1. Loading(c) /\ Loading(c)'
      BY <1>0, <2>1, <2>2 DEF Loading, Resting
    <3>2. QED
      BY <1>1, <2>1, <2>2, <3>1, WitnessKeeps DEF Truthful
  <2>3. QED
    BY <1>2, <2>1, <2>2
<1>7. CASE Run(c)
  <2>1. CASE MissingTable(c)
    <3>1. pc'[c] = "raised"
      BY <1>7, <2>1 DEF Run, Raise, Goto, TypeInv, TypeOK
    <3>2. QED
      BY <1>2, <3>1
  <2>2. CASE ~MissingTable(c)
    <3>1. /\ pc[c] = "run" /\ pc'[c] = "done" /\ req' = req
          /\ got' = IF req[c].op = "load" THEN [got EXCEPT ![c] = rows[k][t]] ELSE got
      BY <1>7, <2>2 DEF Run, Goto, TypeInv, TypeOK
    <3>2. CASE req[c].op = "load"
      <4>1. Loading(c) /\ Loading(c)' /\ got'[c] = rows[k][t]
        BY <3>1, <3>2 DEF Loading, Resting, TypeInv, TypeOK
      <4>2. got'[c] \in witness[c] \/ ExpiredAt(got'[c], clock)
        BY <4>1 DEF Truthful, LiveRow
      <4>3. QED
        BY <1>1, <3>1, <4>1, <4>2, WitnessKeeps DEF Truthful
    <3>3. QED
      BY <1>3, <3>1, <3>2
  <2>3. QED
    BY <2>1, <2>2
<1>8. CASE Release(c)
  <2>1. /\ req' = req /\ got' = got
        /\ \/ pc[c] = "done" /\ req[c].op = "load" /\ pc'[c] = "judge"
           \/ pc[c] = "done" /\ req[c].op # "load" /\ pc'[c] = "returned"
           \/ pc[c] = "dropped" /\ pc'[c] = "returned"
    BY <1>8 DEF Release, Goto, local, TypeInv, TypeOK
  <2>2. CASE pc[c] = "done" /\ req[c].op = "load" /\ pc'[c] = "judge"
    <3>1. Loading(c) /\ Loading(c)'
      BY <2>1, <2>2 DEF Loading, Resting
    <3>2. QED
      BY <1>1, <2>1, <2>2, <3>1, WitnessKeeps DEF Truthful
  <2>3. CASE pc[c] = "dropped" /\ pc'[c] = "returned"
    <3>1. Loading(c) /\ got[c] = NoRow /\ NoRow \in witness[c]
      BY <1>0, <2>3 DEF Truthful
    <3>2. QED
      BY <1>1, <2>1, <2>3, <3>1, WitnessKeeps DEF Truthful
  <2>4. QED
    BY <1>3, <2>1, <2>2, <2>3
<1>9. CASE Judge(c)
  <2>1. pc[c] = "judge" /\ Loading(c) /\ req[c].op = "load"
    BY <1>0, <1>9 DEF Judge, Loading
  <2>2. CASE ExpiredAt(got[c], clock) /\ pool # "none"
    <3>1. pc'[c] = "reacquire" /\ got'[c] = NoRow /\ req' = req
      BY <1>9, <2>2 DEF Judge, Goto, TypeInv, TypeOK
    <3>2. rows[k][t] \in {NoRow, got[c]}
      BY <2>1, <2>2 DEF DropInv, ReadsOnlyRow, ExpiredAt
    <3>3. LiveRow(k, t) = NoRow
      BY <2>2, <3>2 DEF LiveRow
    <3>4. Loading(c)' /\ NoRow \in witness[c]
      BY <2>1, <3>1, <3>3 DEF Truthful, Loading, Resting
    <3>5. QED
      BY <1>1, <2>1, <3>1, <3>4, WitnessKeeps DEF Truthful
  <2>3. CASE ExpiredAt(got[c], clock) /\ pool = "none"
    <3>1. pc'[c] = "raised"
      BY <1>9, <2>3 DEF Judge, Raise, Goto, TypeInv, TypeOK
    <3>2. QED
      BY <1>2, <3>1
  <2>4. CASE ~ExpiredAt(got[c], clock)
    <3>1. pc'[c] = "returned" /\ got' = got /\ req' = req
      BY <1>9, <2>4 DEF Judge, Goto, local, TypeInv, TypeOK
    <3>2. got[c] \in witness[c]
      BY <2>1, <2>4 DEF Truthful
    <3>3. QED
      BY <1>1, <2>1, <3>1, <3>2, WitnessKeeps DEF Truthful
  <2>5. QED
    BY <2>2, <2>3, <2>4
<1>10. CASE Drop(c)
  <2>1. pc[c] = "drop" /\ pc'[c] = "dropped" /\ req' = req /\ got' = got
    BY <1>10 DEF Drop, Goto, local, TypeInv, TypeOK
  <2>2. Loading(c) /\ Loading(c)'
    BY <1>0, <2>1 DEF Loading, Resting
  <2>3. QED
    BY <1>1, <2>1, <2>2, WitnessKeeps DEF Truthful
<1>11. QED
  BY <1>4, <1>5, <1>6, <1>7, <1>8, <1>9, <1>10 DEF Step

\* A step of one call leaves the others where they are.
LEMMA CallsAreApart ==
    ASSUME TypeInv, NEW d \in Callers, NEW c \in Callers, c # d,
           \/ Refuse(d) \/ \E q \in Requests : Begin(d, q)
           \/ Acquire(d) \/ AcquireFails(d) \/ Step(d) \/ Fail(d) \/ CutOff(d)
    PROVE  pc'[c] = pc[c] /\ req'[c] = req[c] /\ got'[c] = got[c] /\ clock' = clock
<1>1. CASE Refuse(d) \/ AcquireFails(d) \/ Fail(d) \/ Land(d) \/ Sink(d)
  BY <1>1 DEF Refuse, AcquireFails, Fail, Land, Sink, Raise, Goto, TypeInv, TypeOK
<1>2. CASE (\E q \in Requests : Begin(d, q)) \/ Check(d) \/ CutOff(d) \/ Acquire(d)
  BY <1>2 DEF Begin, Check, CutOff, Acquire, Goto, local, TypeInv, TypeOK
<1>3. CASE Run(d) \/ Release(d) \/ Judge(d) \/ Drop(d)
  BY <1>3 DEF Run, Release, Judge, Drop, Raise, Goto, local, TypeInv, TypeOK
<1>4. QED
  BY <1>1, <1>2, <1>3 DEF Step

LEMMA TruthfulNext ==
    ASSUME TypeInv, TypeInv', DropInv, [MCNext]_mcvars, \A c \in Callers : Truthful(c)
    PROVE  \A c \in Callers : Truthful(c)'
<1>0. SUFFICES ASSUME NEW c \in Callers PROVE Truthful(c)'
  OBVIOUS
<1>1. Truthful(c) /\ clock \in Int /\ clock' \in Int
  BY PostgresAssumption DEF TypeInv, TypeOK
<1>2. CASE UNCHANGED mcvars
  BY <1>1, <1>2 DEF mcvars, vars, data, local, Truthful, Loading, LiveRow
<1>3. CASE MCNext
  <2>1. ASSUME UNCHANGED <<pc, req, got>>, clock <= clock' PROVE Truthful(c)'
    BY <1>1, <1>3, <2>1, TruthfulWaits
  <2>2. CASE Initialize \/ BeginClose \/ FinishClose \/ CreateRefreshTable \/ Tick
    <3>1. UNCHANGED <<pc, req, got>> /\ (clock' = clock \/ clock' = clock + 1)
      BY <2>2 DEF Initialize, BeginClose, FinishClose, CreateRefreshTable, Tick, local
    <3>2. QED
      BY <1>1, <2>1, <3>1
  <2>3. ASSUME NEW d \in Callers,
               \/ Refuse(d) \/ \E q \in Requests : Begin(d, q)
               \/ Acquire(d) \/ AcquireFails(d) \/ Step(d) \/ Fail(d) \/ CutOff(d)
        PROVE  Truthful(c)'
    <3>1. clock' = clock
      BY <2>3 DEF Refuse, Begin, Acquire, AcquireFails, Step, Fail, CutOff, Check, Run, Release,
                  Judge, Drop, Land, Sink
    <3>2. CASE c = d
      BY <1>1, <1>3, <2>3, <3>1, <3>2, TruthfulMoves
    <3>3. CASE c # d
      BY <1>1, <1>3, <2>3, <3>1, <3>3, CallsAreApart, TruthfulWaits
    <3>4. QED
      BY <3>2, <3>3
  <2>4. QED
    BY <1>3, <2>2, <2>3 DEF MCNext, Next
<1>4. QED
  BY <1>2, <1>3

\* What load_token answers was the truth at some instant of the call, provided no token is
\* ever stored a second time: the comparison with the clock comes later than the SELECT, and
\* the DELETE later still, but neither can make the answer one that never held.
THEOREM LoadsAreTruthful == ~Reissue => (MCSpec => []LoadAnswerWasTrue)
<1>1. SUFFICES ASSUME ~Reissue PROVE MCSpec => []LoadAnswerWasTrue
  OBVIOUS
<1> DEFINE LoadInv == TypeInv /\ DropInv /\ \A c \in Callers : Truthful(c)
<1>2. MCInit => LoadInv
  BY TypeInvInit, DropInvInit DEF MCInit, Init, Truthful, Loading, Resting
<1>3. LoadInv /\ [MCNext]_mcvars => LoadInv'
  <2>1. [MCNext]_mcvars => [Next]_vars
    BY DEF MCNext, mcvars
  <2>2. QED
    BY <1>1, <2>1, TypeInvNext, DropInvNext, TruthfulNext
<1>4. LoadInv => LoadAnswerWasTrue
  BY DEF Truthful, LoadAnswerWasTrue
<1>5. QED
  BY <1>2, <1>3, <1>4, PTL DEF MCSpec

-----------------------------------------------------------------------------
(* The contract of TokenStorage, with tables <- rows, asked <- Outstanding. *)

\* A revoke that saw no refresh table runs while there still is none, and the
\* time a cleanup has read is not in the future.
QuietInv ==
    /\ ~refreshTable => \A t \in Tokens : rows["refresh"][t] = NoRow
    /\ \A c \in Callers :
          (pc[c] \in {"run", "adrift"} /\ req[c].op = "revoke" /\ ~both[c]) => ~refreshTable
    /\ \A c \in Callers : now[c] <= clock

LEMMA QuietInvNext ==
    ASSUME ~MigrateOnline, TypeInv, RevokeInv', QuietInv, [Next]_vars
    PROVE  QuietInv'
<1>0. ~refreshTable' => \A t \in Tokens : rows'["refresh"][t] = NoRow
  BY DEF RevokeInv
<1> USE DEF QuietInv
<1>1. CASE UNCHANGED vars
  BY <1>1 DEF vars, data, local
<1>2. CASE Initialize \/ BeginClose \/ FinishClose
  BY <1>2 DEF Initialize, BeginClose, FinishClose, data, local
<1>3. CASE CreateRefreshTable
  BY <1>0, <1>3 DEF CreateRefreshTable, local, Resting
<1>4. CASE Tick
  <2>1. clock' = clock + 1 /\ clock \in Int /\ UNCHANGED <<rows, refreshTable, pc, req, both, now>>
    BY <1>4 DEF Tick, data, local, TypeInv, TypeOK
  <2>2. \A c \in Callers : now[c] \in Int
    BY PostgresAssumption DEF TypeInv, TypeOK
  <2>3. QED
    BY <2>1, <2>2
<1>5. ASSUME NEW c \in Callers, Refuse(c) \/ AcquireFails(c) \/ Fail(c) \/ Sink(c) \/ Land(c)
      PROVE  QuietInv'
  BY <1>0, <1>5 DEF Refuse, AcquireFails, Fail, Sink, Land, Apply, Raise, Goto, data,
                    TypeInv, TypeOK
<1>6. ASSUME NEW c \in Callers, NEW q \in Requests, Begin(c, q)
      PROVE  QuietInv'
  BY <1>0, <1>6 DEF Begin, Goto, TypeInv, TypeOK
<1>7. ASSUME NEW c \in Callers, Acquire(c)
      PROVE  QuietInv'
  BY <1>7 DEF Acquire, Goto, Waiting, data, local, TypeInv, TypeOK
<1>8. ASSUME NEW c \in Callers, Check(c) \/ Release(c) \/ CutOff(c)
      PROVE  QuietInv'
  BY <1>8 DEF Check, Release, CutOff, Goto, data, local, TypeInv, TypeOK
<1>9. ASSUME NEW c \in Callers, Run(c) \/ Judge(c) \/ Drop(c)
      PROVE  QuietInv'
  BY <1>0, <1>9 DEF Run, Judge, Drop, Raise, Goto, Apply, data, local, TypeInv, TypeOK
<1>10. QED
  BY <1>1, <1>2, <1>3, <1>4, <1>5, <1>6, <1>7, <1>8, <1>9 DEF Next, Step

\* What a call has outstanding, by its place.
LEMMA OutstandingAt ==
    ASSUME NEW c \in Callers
    PROVE  /\ pc[c] \in {"acquire", "reacquire", "check", "run", "drop", "adrift", "stray"} =>
                 Outstanding[c] = req[c]
           /\ pc[c] \in {"done", "judge"} /\ req[c].op = "load" => Outstanding[c] = req[c]
           /\ pc[c] = "done" /\ req[c].op # "load" => Outstanding[c] = NoRequest
           /\ pc[c] \in {"idle", "returned", "raised", "dropped"} => Outstanding[c] = NoRequest
BY DEF Outstanding, Waiting, Astray

LEMMA OutstandingAtNext ==
    ASSUME NEW c \in Callers
    PROVE  /\ pc'[c] \in {"acquire", "reacquire", "check", "run", "drop", "adrift", "stray"} =>
                 Outstanding'[c] = req'[c]
           /\ pc'[c] \in {"done", "judge"} /\ req'[c].op = "load" => Outstanding'[c] = req'[c]
           /\ pc'[c] = "done" /\ req'[c].op # "load" => Outstanding'[c] = NoRequest
           /\ pc'[c] \in {"idle", "returned", "raised", "dropped"} => Outstanding'[c] = NoRequest
BY DEF Outstanding, Waiting, Astray

\* Only c's entry of Outstanding can change when only c moves.
LEMMA OutstandingChange ==
    ASSUME NEW c \in Callers, TypeInv,
           \A d \in Callers \ {c} : pc'[d] = pc[d] /\ req'[d] = req[d]
    PROVE  Outstanding' = [Outstanding EXCEPT ![c] = Outstanding'[c]]
BY DEF Outstanding

\* A call that ends without (further) effect.
LEMMA RaiseIsFinish ==
    ASSUME TypeInv, NEW c \in Callers, Raise(c), UNCHANGED <<rows, clock>>
    PROVE  [Abstract!Next]_(Abstract!vars)
<1>1. /\ \A d \in Callers \ {c} : pc'[d] = pc[d] /\ req'[d] = req[d]
      /\ pc'[c] = "raised"
  BY DEF Raise, Goto, TypeInv, TypeOK
<1>2. Outstanding'[c] = NoRequest
  BY <1>1 DEF Outstanding, Waiting, Astray
<1>3. Outstanding' = [Outstanding EXCEPT ![c] = NoRequest]
  BY <1>1, <1>2, OutstandingChange
<1>4. CASE Outstanding[c] = NoRequest
  <2>1. Outstanding' = Outstanding
    BY <1>3, <1>4 DEF Outstanding
  <2>2. QED
    BY <2>1 DEF Abstract!vars
<1>5. CASE Outstanding[c] # NoRequest
  BY <1>3, <1>5 DEF Abstract!Next, Abstract!Finish
<1>6. QED
  BY <1>4, <1>5

\* A step that neither touches the tables nor what c has outstanding.
LEMMA QuietIsStutter ==
    ASSUME TypeInv, NEW c \in Callers, UNCHANGED <<rows, clock>>,
           \A d \in Callers \ {c} : pc'[d] = pc[d] /\ req'[d] = req[d],
           Outstanding'[c] = Outstanding[c]
    PROVE  UNCHANGED Abstract!vars
BY OutstandingChange DEF Abstract!vars, Outstanding

\* The statement of a call that is neither load nor count takes its effect.
LEMMA ApplyIsEffect ==
    ASSUME TypeInv, TypeInv', QuietInv, NEW c \in Callers, pc[c] \in {"run", "adrift"},
           ~MissingTable(c), Apply(c), req[c].op \notin {"load", "count"},
           Outstanding' = [Outstanding EXCEPT ![c] = NoRequest], clock' = clock
    PROVE  Abstract!Next
<1> DEFINE q == req[c]
<1>1. q \in Requests /\ Outstanding[c] = q /\ q # NoRequest /\ rows \in Tables
  BY PostgresAssumption DEF TypeInv, TypeOK, Shape, Resting, Outstanding, Astray
<1>2. CASE q.op = "store"
  <2>1. Abstract!Put(q)
    BY <1>2 DEF Apply, Abstract!Put
  <2>2. QED
    BY <1>1, <2>1 DEF Abstract!Next, Abstract!Effect
<1>3. CASE q.op = "delete"
  <2>1. q.kind \in Kinds /\ q.token \in Tokens
    BY <1>1, <1>3, RequestFields
  <2>2. rows' = [k \in Kinds |-> [t \in Tokens |->
                    IF q.kind = k /\ q.token = t THEN NoRow ELSE rows[k][t]]]
    BY <1>3 DEF Apply, Deletes
  <2>3. rows' = [rows EXCEPT ![q.kind][q.token] = NoRow]
    BY <1>1, <2>1, <2>2 DEF Tables
  <2>4. QED
    BY <1>1, <1>3, <2>3 DEF Abstract!Next, Abstract!Effect, Abstract!Remove
<1>4. CASE q.op = "revoke"
  <2>1. both[c] \/ \A t \in Tokens : rows["refresh"][t] = NoRow
    BY <1>4 DEF QuietInv
  <2>2. \A k \in Kinds, t \in Tokens :
           Deletes(c, k, t) <=> rows[k][t] # NoRow /\ rows[k][t].client = q.client
    BY <1>4, <2>1 DEF Deletes, Kinds
  <2>3. rows' = [k \in Kinds |-> [t \in Tokens |->
                    IF rows[k][t] # NoRow /\ rows[k][t].client = q.client
                    THEN NoRow ELSE rows[k][t]]]
    BY <1>4, <2>2 DEF Apply
  <2>4. Abstract!RevokeAll(q)
    BY <1>4, <2>3 DEF Abstract!RevokeAll, Abstract!Kinds, Kinds
  <2>5. QED
    BY <1>1, <2>4 DEF Abstract!Next, Abstract!Effect
<1>5. CASE q.op = "cleanup"
  <2>1. rows' = [k \in Kinds |-> [t \in Tokens |->
                    IF Deletes(c, k, t) THEN NoRow ELSE rows[k][t]]]
    BY <1>5 DEF Apply
  <2>2. now[c] \in Int /\ clock \in Int /\ now[c] <= clock
    BY PostgresAssumption DEF QuietInv, TypeInv, TypeOK
  <2>3. ASSUME NEW k \in Kinds, NEW t \in Tokens, Deletes(c, k, t)
        PROVE  k = q.kind /\ ExpiredAt(rows[k][t], clock)
    <3>1. k = q.kind /\ ExpiredAt(rows[k][t], now[c])
      BY <1>5, <2>3 DEF Deletes
    <3>2. rows[k][t] \in Record \cup {NoRow}
      BY <1>1 DEF Tables
    <3>3. QED
      BY <2>2, <3>1, <3>2, ExpiredStays
  <2>4. \A k \in Kinds, t \in Tokens :
           \/ rows'[k][t] = rows[k][t]
           \/ k = q.kind /\ ExpiredAt(rows[k][t], clock) /\ rows'[k][t] = NoRow
    BY <2>1, <2>3
  <2>5. rows' \in Tables
    BY DEF TypeInv, TypeOK
  <2>6. Abstract!Sweep(q)
    BY <1>5, <2>4, <2>5
    DEF Abstract!Sweep, Abstract!Kinds, Kinds, Abstract!Tables, Tables, Abstract!Record, Record,
        Abstract!ExpiredAt, ExpiredAt, Abstract!Instant, Instant
  <2>7. QED
    BY <1>1, <2>6 DEF Abstract!Next, Abstract!Effect
<1>6. QED
  BY <1>1, <1>2, <1>3, <1>4, <1>5, RequestFields

\* The delete at the end of a load takes the load's effect.
LEMMA DropIsEffect ==
    ASSUME TypeInv, DropInv, NEW c \in Callers, pc[c] \in {"drop", "stray"}, DeleteRow(c),
           Outstanding' = [Outstanding EXCEPT ![c] = NoRequest], clock' = clock
    PROVE  Abstract!Next
<1>1. /\ req[c] \in Requests /\ req[c] # NoRequest /\ req[c].op = "load"
      /\ Outstanding[c] = req[c]
  BY PostgresAssumption DEF TypeInv, TypeOK, Shape, Resting, Outstanding, Astray
<1>2. \/ rows[req[c].kind][req[c].token] = NoRow
      \/ ExpiredAt(rows[req[c].kind][req[c].token], clock)
  BY DEF DropInv, DropsExpired
<1>3. Abstract!DropExpired(req[c])
  BY <1>1, <1>2 DEF DeleteRow, Abstract!DropExpired, Abstract!ExpiredAt, ExpiredAt,
                    Abstract!Instant, Instant
<1>4. QED
  BY <1>1, <1>3 DEF Abstract!Next, Abstract!Effect

LEMMA StepSimulation ==
    ASSUME ~MigrateOnline, TypeInv, TypeInv', DropInv, QuietInv, [Next]_vars
    PROVE  [Abstract!Next]_(Abstract!vars)
<1>1. CASE UNCHANGED vars
  BY <1>1 DEF vars, data, local, Outstanding, Abstract!vars
<1>2. CASE Initialize \/ BeginClose \/ FinishClose \/ CreateRefreshTable
  BY <1>2 DEF Initialize, BeginClose, FinishClose, CreateRefreshTable, data, local,
              Outstanding, Abstract!vars
<1>3. CASE Tick
  <2>1. clock' > clock /\ UNCHANGED <<rows, Outstanding>>
    BY <1>3, PostgresAssumption DEF Tick, data, local, Outstanding, TypeInv, TypeOK
  <2>2. QED
    BY <2>1 DEF Abstract!Next, Abstract!Advance
<1>4. ASSUME NEW c \in Callers, Refuse(c) \/ AcquireFails(c) \/ Fail(c) \/ Sink(c)
      PROVE  [Abstract!Next]_(Abstract!vars)
  BY <1>4, RaiseIsFinish DEF Refuse, AcquireFails, Fail, Sink, data
<1>5. ASSUME NEW c \in Callers, NEW q \in Requests, Begin(c, q)
      PROVE  [Abstract!Next]_(Abstract!vars)
  <2>1. /\ \A d \in Callers \ {c} : pc'[d] = pc[d] /\ req'[d] = req[d]
        /\ pc'[c] = "acquire" /\ req'[c] = q /\ pc[c] \in Resting
        /\ UNCHANGED <<rows, clock>>
    BY <1>5 DEF Begin, Goto, TypeInv, TypeOK
  <2>2. Outstanding[c] = NoRequest /\ Outstanding'[c] = q
    BY <2>1 DEF Outstanding, Resting, Waiting, Astray
  <2>3. Outstanding' = [Outstanding EXCEPT ![c] = q]
    BY <2>1, <2>2, OutstandingChange
  <2>4. QED
    BY <2>1, <2>2, <2>3 DEF Abstract!Next, Abstract!Ask, Abstract!Requests, Requests,
                            Abstract!Kinds, Kinds, Abstract!Record, Record
<1>6. ASSUME NEW c \in Callers, Acquire(c) \/ Check(c) \/ Release(c) \/ CutOff(c)
      PROVE  [Abstract!Next]_(Abstract!vars)
  <2>1. /\ req' = req /\ \A d \in Callers \ {c} : pc'[d] = pc[d]
        /\ UNCHANGED <<rows, clock>>
    BY <1>6 DEF Acquire, Check, Release, CutOff, Goto, data, local, TypeInv, TypeOK
  <2>2. \/ pc[c] = "acquire" /\ pc'[c] \in {"check", "run"}
        \/ pc[c] = "reacquire" /\ pc'[c] = "drop"
        \/ pc[c] = "check" /\ pc'[c] = "run"
        \/ pc[c] = "done" /\ req[c].op = "load" /\ pc'[c] = "judge"
        \/ pc[c] = "done" /\ req[c].op # "load" /\ pc'[c] = "returned"
        \/ pc[c] = "dropped" /\ pc'[c] = "returned"
        \/ pc[c] = "run" /\ pc'[c] = "adrift"
        \/ pc[c] = "drop" /\ pc'[c] = "stray"
    BY <1>6 DEF Acquire, Check, Release, CutOff, Goto, Waiting, TypeInv, TypeOK
  <2>3. Outstanding'[c] = Outstanding[c]
    BY <2>1, <2>2, OutstandingAt, OutstandingAtNext
  <2>4. QED
    BY <2>1, <2>3, QuietIsStutter
<1>7. ASSUME NEW c \in Callers, Run(c)
      PROVE  [Abstract!Next]_(Abstract!vars)
  <2>1. CASE MissingTable(c)
    BY <1>7, <2>1, RaiseIsFinish DEF Run, data
  <2>2. CASE ~MissingTable(c)
    <3>1. /\ req' = req /\ \A d \in Callers \ {c} : pc'[d] = pc[d]
          /\ pc[c] = "run" /\ pc'[c] = "done" /\ Apply(c) /\ clock' = clock
      BY <1>7, <2>2 DEF Run, Goto, TypeInv, TypeOK
    <3>2. CASE req[c].op = "load"
      <4>1. rows' = rows
        BY <3>1, <3>2 DEF Apply, Deletes, TypeInv, TypeOK, Tables
      <4>2. Outstanding'[c] = Outstanding[c]
        BY <3>1, <3>2, OutstandingAt, OutstandingAtNext
      <4>3. QED
        BY <3>1, <4>1, <4>2, QuietIsStutter
    <3>3. CASE req[c].op # "load"
      <4>1. Outstanding'[c] = NoRequest
        BY <3>1, <3>3, OutstandingAt, OutstandingAtNext
      <4>2. Outstanding' = [Outstanding EXCEPT ![c] = NoRequest]
        BY <3>1, <4>1, OutstandingChange
      <4>3. CASE req[c].op = "count"
        <5>1. rows' = rows
          BY <3>1, <4>3 DEF Apply, Deletes, TypeInv, TypeOK, Tables
        <5>2. Outstanding[c] # NoRequest
          BY <3>1, PostgresAssumption DEF Outstanding, TypeInv, Shape, Resting
        <5>3. QED
          BY <3>1, <4>2, <5>1, <5>2 DEF Abstract!Next, Abstract!Finish
      <4>4. CASE req[c].op # "count"
        BY <2>2, <3>1, <3>3, <4>2, <4>4, ApplyIsEffect
      <4>5. QED
        BY <4>3, <4>4
    <3>4. QED
      BY <3>2, <3>3
  <2>3. QED
    BY <2>1, <2>2
<1>8. ASSUME NEW c \in Callers, Judge(c)
      PROVE  [Abstract!Next]_(Abstract!vars)
  <2>1. CASE Raise(c)
    BY <1>8, <2>1, RaiseIsFinish DEF Judge, data
  <2>2. CASE ~Raise(c)
    <3>1. /\ req' = req /\ \A d \in Callers \ {c} : pc'[d] = pc[d]
          /\ UNCHANGED <<rows, clock>>
          /\ pc[c] = "judge" /\ pc'[c] \in {"reacquire", "returned"}
          /\ req[c].op = "load"
      BY <1>8, <2>2 DEF Judge, Goto, data, local, TypeInv, TypeOK, Shape
    <3>2. CASE pc'[c] = "reacquire"
      <4>1. Outstanding'[c] = Outstanding[c]
        BY <3>1, <3>2, OutstandingAt, OutstandingAtNext
      <4>2. QED
        BY <3>1, <4>1, QuietIsStutter
    <3>3. CASE pc'[c] = "returned"
      <4>1. Outstanding[c] # NoRequest /\ Outstanding'[c] = NoRequest
        BY <3>1, <3>3, PostgresAssumption
        DEF Outstanding, Waiting, Astray, TypeInv, Shape, Resting
      <4>2. Outstanding' = [Outstanding EXCEPT ![c] = NoRequest]
        BY <3>1, <4>1, OutstandingChange
      <4>3. QED
        BY <3>1, <4>1, <4>2 DEF Abstract!Next, Abstract!Finish
    <3>4. QED
      BY <3>1, <3>2, <3>3
  <2>3. QED
    BY <2>1, <2>2
<1>9. ASSUME NEW c \in Callers, Drop(c)
      PROVE  [Abstract!Next]_(Abstract!vars)
  <2>1. /\ req' = req /\ \A d \in Callers \ {c} : pc'[d] = pc[d]
        /\ pc[c] = "drop" /\ pc'[c] = "dropped" /\ DeleteRow(c) /\ clock' = clock
    BY <1>9 DEF Drop, Goto, local, TypeInv, TypeOK
  <2>2. Outstanding'[c] = NoRequest
    BY <2>1 DEF Outstanding, Waiting, Astray
  <2>3. Outstanding' = [Outstanding EXCEPT ![c] = NoRequest]
    BY <2>1, <2>2, OutstandingChange
  <2>4. QED
    BY <2>1, <2>3, DropIsEffect
<1>10. ASSUME NEW c \in Callers, Land(c)
       PROVE  [Abstract!Next]_(Abstract!vars)
  <2>1. /\ \A d \in Callers \ {c} : pc'[d] = pc[d] /\ req'[d] = req[d]
        /\ pc'[c] = "raised" /\ clock' = clock
    BY <1>10 DEF Land, Raise, Goto, TypeInv, TypeOK
  <2>2. Outstanding'[c] = NoRequest
    BY <2>1 DEF Outstanding, Waiting, Astray
  <2>3. Outstanding' = [Outstanding EXCEPT ![c] = NoRequest]
    BY <2>1, <2>2, OutstandingChange
  <2>4. CASE pc[c] = "adrift" /\ ~MissingTable(c) /\ Apply(c)
    <3>1. req[c].op \notin {"load", "count"}
      BY <2>4 DEF TypeInv, Shape
    <3>2. QED
      BY <2>1, <2>3, <2>4, <3>1, ApplyIsEffect
  <2>5. CASE pc[c] = "stray" /\ DeleteRow(c)
    BY <2>1, <2>3, <2>5, DropIsEffect
  <2>6. QED
    BY <1>10, <2>4, <2>5 DEF Land
<1>11. QED
  BY <1>1, <1>2, <1>3, <1>4, <1>5, <1>6, <1>7, <1>8, <1>9, <1>10 DEF Next, Step

LEMMA InitSimulation == Init => Abstract!Init /\ QuietInv
<1> SUFFICES ASSUME Init PROVE Abstract!Init /\ QuietInv
  OBVIOUS
<1>1. rows = Abstract!EmptyTables
  BY DEF Init, EmptyTables, Abstract!EmptyTables, Kinds, Abstract!Kinds
<1>2. Outstanding = [c \in Callers |-> NoRequest]
  BY DEF Init, Outstanding, Waiting, Astray
<1>3. QuietInv
  BY DEF Init, QuietInv, EmptyTables, Kinds
<1>4. QED
  BY <1>1, <1>2, <1>3 DEF Init, Abstract!Init

\* The PostgreSQL backend implements storage/base.py's contract: every call takes
\* effect at most once and at one instant, a revoke empties both tables in that
\* instant, and a record is lost to nothing but a delete, a revoke or its expiry.
THEOREM ImplementsContract == ~Reissue /\ ~MigrateOnline => (Spec => Contract)
<1> SUFFICES ASSUME ~Reissue, ~MigrateOnline PROVE Spec => Contract
  OBVIOUS
<1> DEFINE AllInv == TypeInv /\ RevokeInv /\ DropInv /\ QuietInv
<1>1. AllInv /\ [Next]_vars => AllInv'
  BY TypeInvNext, RevokeInvNext, DropInvNext, QuietInvNext
<1>2. Init => AllInv /\ Abstract!Init
  BY TypeInvInit, RevokeInvInit, DropInvInit, InitSimulation
<1>3. AllInv /\ AllInv' /\ [Next]_vars => [Abstract!Next]_(Abstract!vars)
  BY StepSimulation
<1> HIDE DEF AllInv
<1>4. Spec => Abstract!Init /\ [][Abstract!Next]_(Abstract!vars)
  BY <1>1, <1>2, <1>3, PTL DEF Spec
<1>5. QED
  BY <1>4 DEF Contract, Abstract!Spec
=============================================================================
