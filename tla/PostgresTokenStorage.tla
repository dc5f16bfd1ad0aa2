------------------------ MODULE PostgresTokenStorage ------------------------
(***************************************************************************)
(* storage/postgres.py: token records in two PostgreSQL tables, reached    *)
(* through a connection pool.  Every method is a coroutine that suspends   *)
(* while it waits for a connection and while a statement runs, so the      *)
(* calls of several tasks interleave statement by statement.  asyncpg and  *)
(* the server are external: a statement is atomic, a call that fails while *)
(* its statement is under way does not know whether that was applied, and  *)
(* such a statement may still be applied after the call has raised.        *)
(*                                                                         *)
(* pc[c] follows one call of caller c:                                     *)
(*   acquire -> (check ->) run -> done -> returned        every method     *)
(*   done -> judge -> reacquire -> drop -> dropped        a load that      *)
(*                                       -> returned      found it expired *)
(*   run -> adrift, drop -> stray   the call raised, its statement did not *)
(*                                  yet reach, or not yet end in, the table*)
(***************************************************************************)
EXTENDS TokenRequests, FiniteSets

CONSTANTS Callers,        \* tasks that call the storage
          NoRequest,      \* req of a caller that never called
          PoolSize,       \* max_size of the pool (10 in the code)
          MaxClock,       \* bound on the clock
          Reissue,        \* may a token that was stored be stored again?
          MigrateOnline   \* may mcp_refresh_tokens be created while calls run?

ASSUME PostgresAssumption ==
    /\ PoolSize \in Nat \ {0}
    /\ MaxClock \in Nat
    /\ Reissue \in BOOLEAN /\ MigrateOnline \in BOOLEAN
    /\ NoRequest \notin Requests

VARIABLES rows,          \* rows[k][t]: the row of table k with primary key t
          refreshTable,  \* does mcp_refresh_tokens exist?
          clock,
          pool,          \* self._pool: "none", "open" or being closed
          pc, req,       \* where each caller is, and the call it makes
          got,           \* got[c]: the row its SELECT returned
          both,          \* both[c]: has_refresh_table, as its revoke read it
          now,           \* now[c]: the time its cleanup read
          issued,        \* history: <<kind, token>> a store was asked for
          owed           \* history: the rows present when c's revoke began
                         \* that nobody has stored again since

data == <<rows, refreshTable, issued, owed>>
local == <<req, got, both, now>>
vars == <<data, clock, pool, pc, local>>

Resting == {"idle", "returned", "raised"}
Waiting == {"acquire", "reacquire"}
HoldingNested ==  \* a seeded fault: _delete_from is called inside the async with
    {"check", "run", "done", "judge", "reacquire", "drop", "dropped"}
Holding == {"check", "run", "done", "drop", "dropped"}  \* has a connection
Astray  == {"adrift", "stray"}
PCs == Resting \cup Waiting \cup Holding \cup Astray \cup {"judge"}

Pairs == Kinds \X Tokens

TypeOK ==
    /\ rows \in Tables
    /\ refreshTable \in BOOLEAN
    /\ clock \in 0..MaxClock
    /\ pool \in {"none", "open", "closing"}
    /\ pc \in [Callers -> PCs]
    /\ req \in [Callers -> Requests \cup {NoRequest}]
    /\ got \in [Callers -> Record \cup {NoRow}]
    /\ both \in [Callers -> BOOLEAN]
    /\ now \in [Callers -> 0..MaxClock]
    /\ issued \in SUBSET Pairs
    /\ owed \in [Callers -> SUBSET Pairs]

Init ==
    /\ rows = EmptyTables
    /\ refreshTable \in BOOLEAN
    /\ clock = 0
    /\ pool = "none"
    /\ pc = [c \in Callers |-> "idle"]
    /\ req = [c \in Callers |-> NoRequest]
    /\ got = [c \in Callers |-> NoRow]
    /\ both = [c \in Callers |-> FALSE]
    /\ now = [c \in Callers |-> 0]
    /\ issued = {}
    /\ owed = [c \in Callers |-> {}]

Goto(c, place) == pc' = [pc EXCEPT ![c] = place]

\* The coroutine raises: its arguments and locals are gone.
Raise(c) ==
    /\ Goto(c, "raised")
    /\ req' = [req EXCEPT ![c] = NoRequest]
    /\ got' = [got EXCEPT ![c] = NoRow]
    /\ both' = [both EXCEPT ![c] = FALSE]
    /\ now' = [now EXCEPT ![c] = 0]

-----------------------------------------------------------------------------
(* The lifespan of the storage.                                            *)

\* initialize(): the pool is assigned before _verify_schema() runs and stays
\* assigned if that raises SchemaDriftError, so both outcomes look alike here.
\* Callers still queued on a pool that was closed give up before the next one.
Initialize ==
    /\ pool = "none"
    /\ \A c \in Callers : pc[c] \notin Waiting
    /\ pool' = "open"
    /\ UNCHANGED <<data, clock, pc, local>>

\* close() waits, in pool.close(), for every connection to come back.
BeginClose ==
    /\ pool = "open"
    /\ pool' = "closing"
    /\ UNCHANGED <<data, clock, pc, local>>

FinishCloseKeepingPool ==  \* a seeded fault: _pool is not reset to None
    /\ pool = "closing"
    /\ \A c \in Callers : pc[c] \notin Holding
    /\ pool' = "closed"
    /\ UNCHANGED <<data, clock, pc, local>>

FinishClose ==
    /\ pool = "closing"
    /\ \A c \in Callers : pc[c] \notin Holding
    /\ pool' = "none"
    /\ UNCHANGED <<data, clock, pc, local>>

\* The operator applies the DDL of the refresh-token table.
CreateRefreshTable ==
    /\ ~refreshTable
    /\ MigrateOnline \/ \A c \in Callers : pc[c] \in Resting
    /\ refreshTable' = TRUE
    /\ UNCHANGED <<rows, issued, owed, clock, pool, pc, local>>

-----------------------------------------------------------------------------
(* One call, from the _require_pool check to the connection it works on.   *)

Refuse(c) ==
    /\ pc[c] \in Resting
    /\ pool = "none"
    /\ Raise(c)
    /\ UNCHANGED <<data, clock, pool>>

RowsOf(client) ==
    {p \in Pairs : /\ rows[p[1]][p[2]] # NoRow
                   /\ rows[p[1]][p[2]].client = client}

Begin(c, q) ==
    /\ pc[c] \in Resting
    /\ pool # "none"
    /\ q.op = "store" => Reissue \/ <<q.kind, q.token>> \notin issued
    /\ Goto(c, "acquire")
    /\ req' = [req EXCEPT ![c] = q]
    /\ got' = [got EXCEPT ![c] = NoRow]
    /\ both' = [both EXCEPT ![c] = FALSE]
    /\ now' = [now EXCEPT ![c] = IF q.op = "cleanup" THEN clock ELSE 0]
    /\ issued' = IF q.op = "store" THEN issued \cup {<<q.kind, q.token>>} ELSE issued
    /\ owed' = [owed EXCEPT ![c] = IF q.op = "revoke" THEN RowsOf(q.client) ELSE {}]
    /\ UNCHANGED <<rows, refreshTable, clock, pool>>

\* pool.acquire(): the connection is lent to at most PoolSize calls at a time.
\* A pool that is closing may still serve a caller that was queued.
Acquire(c) ==
    /\ pc[c] \in Waiting
    /\ pool # "none"
    /\ Cardinality({d \in Callers : pc[d] \in Holding}) < PoolSize
    /\ Goto(c, CASE pc[c] = "reacquire" -> "drop"
                 [] pc[c] = "acquire" /\ req[c].op = "revoke" -> "check"
                 [] OTHER -> "run")
    /\ UNCHANGED <<data, clock, pool, local>>

AcquireFails(c) ==
    /\ pc[c] \in Waiting
    /\ pool # "open"
    /\ Raise(c)
    /\ UNCHANGED <<data, clock, pool>>

-----------------------------------------------------------------------------
(* Statements.                                                             *)

\* revoke_client_tokens: SELECT to_regclass('mcp_refresh_tokens') IS NOT NULL.
Check(c) ==
    /\ pc[c] = "check"
    /\ Goto(c, "run")
    /\ both' = [both EXCEPT ![c] = refreshTable]
    /\ UNCHANGED <<data, clock, pool, req, got, now>>

MissingTable(c) ==
    req[c].op # "revoke" /\ req[c].kind = "refresh" /\ ~refreshTable

DeletesAccessOnly(c, k, t) ==  \* a seeded fault: the refresh branch is never taken
    LET q == req[c]
    IN  \/ q.op = "delete" /\ q.kind = k /\ q.token = t
        \/ q.op = "cleanup" /\ q.kind = k /\ ExpiredAt(rows[k][t], now[c])
        \/ /\ q.op = "revoke" /\ k = "access"
           /\ rows[k][t] # NoRow /\ rows[k][t].client = q.client

DeletesEitherKind(c, k, t) ==  \* a seeded fault: a cleanup goes through both tables
    LET q == req[c]
    IN  \/ q.op = "delete" /\ q.kind = k /\ q.token = t
        \/ q.op = "cleanup" /\ ExpiredAt(rows[k][t], now[c])
        \/ /\ q.op = "revoke" /\ (k = "access" \/ both[c])
           /\ rows[k][t] # NoRow /\ rows[k][t].client = q.client

\* The rows the statement of c's call removes.
Deletes(c, k, t) ==
    LET q == req[c]
    IN  \/ q.op = "delete" /\ q.kind = k /\ q.token = t
        \/ q.op = "cleanup" /\ q.kind = k /\ ExpiredAt(rows[k][t], now[c])
        \/ /\ q.op = "revoke" /\ (k = "access" \/ both[c])
           /\ rows[k][t] # NoRow /\ rows[k][t].client = q.client

\* INSERT .. ON CONFLICT DO UPDATE, the DELETE statements, and the SELECTs.
Apply(c) ==
    LET q == req[c]
    IN  /\ rows' = IF q.op = "store"
                   THEN [rows EXCEPT ![q.kind][q.token] = q.row]
                   ELSE [k \in Kinds |-> [t \in Tokens |->
                            IF Deletes(c, k, t) THEN NoRow ELSE rows[k][t]]]
        /\ owed' = IF q.op = "store"
                   THEN [d \in Callers |-> owed[d] \ {<<q.kind, q.token>>}]
                   ELSE owed
        /\ UNCHANGED <<refreshTable, issued>>

Run(c) ==
    /\ pc[c] = "run"
    /\ IF MissingTable(c)
       THEN Raise(c) /\ UNCHANGED data
       ELSE /\ Goto(c, "done")
            /\ Apply(c)
            /\ got' = IF req[c].op = "load"
                      THEN [got EXCEPT ![c] = rows[req[c].kind][req[c].token]]
                      ELSE got
            /\ UNCHANGED <<req, both, now>>
    /\ UNCHANGED <<clock, pool>>

\* Leaving "async with pool.acquire()" gives the connection back.
Release(c) ==
    /\ pc[c] \in {"done", "dropped"}
    /\ Goto(c, IF pc[c] = "done" /\ req[c].op = "load" THEN "judge" ELSE "returned")
    /\ UNCHANGED <<data, clock, pool, local>>

\* The rest of _load_from: the row read earlier is compared with the time now;
\* an expired one is deleted by a second call, which looks for the pool anew.
JudgeEarly(c) ==  \* a seeded fault: the comparison is off by one instant
    /\ pc[c] = "judge"
    /\ IF got[c] # NoRow /\ Instant(got[c].exp) <= clock
       THEN IF pool = "none" THEN Raise(c)
            ELSE /\ Goto(c, "reacquire")
                 /\ got' = [got EXCEPT ![c] = NoRow]
                 /\ UNCHANGED <<req, both, now>>
       ELSE Goto(c, "returned") /\ UNCHANGED local
    /\ UNCHANGED <<data, clock, pool>>

JudgeFallsThrough(c) ==  \* a seeded fault: no "return None" after the delete
    /\ pc[c] = "judge"
    /\ IF ExpiredAt(got[c], clock)
       THEN IF pool = "none" THEN Raise(c) ELSE Goto(c, "reacquire") /\ UNCHANGED local
       ELSE Goto(c, "returned") /\ UNCHANGED local
    /\ UNCHANGED <<data, clock, pool>>

Judge(c) ==
    /\ pc[c] = "judge"
    /\ IF ExpiredAt(got[c], clock)
       THEN IF pool = "none" THEN Raise(c)
            ELSE /\ Goto(c, "reacquire")
                 /\ got' = [got EXCEPT ![c] = NoRow]
                 /\ UNCHANGED <<req, both, now>>
       ELSE Goto(c, "returned") /\ UNCHANGED local
    /\ UNCHANGED <<data, clock, pool>>

\* DELETE FROM {table} WHERE token = $1: the statement does not look at the
\* expiry of the row it finds.
DeleteRow(c) == rows' = [rows EXCEPT ![req[c].kind][req[c].token] = NoRow]

Drop(c) ==
    /\ pc[c] = "drop"
    /\ Goto(c, "dropped")
    /\ DeleteRow(c)
    /\ UNCHANGED <<refreshTable, issued, owed, clock, pool, local>>

-----------------------------------------------------------------------------
(* Failures: command_timeout, a lost connection, a cancelled task.         *)

Fail(c) ==
    /\ pc[c] \in Waiting \cup Holding
    /\ Raise(c)
    /\ UNCHANGED <<data, clock, pool>>

\* The call raises while its statement is on the wire.
CutOff(c) ==
    /\ \/ pc[c] = "run" /\ req[c].op \notin {"load", "count"} /\ Goto(c, "adrift")
       \/ pc[c] = "drop" /\ Goto(c, "stray")
    /\ UNCHANGED <<data, clock, pool, local>>

\* ... and the statement is applied nevertheless,
Land(c) ==
    /\ Raise(c)
    /\ \/ pc[c] = "adrift" /\ ~MissingTable(c) /\ Apply(c)
       \/ pc[c] = "stray" /\ DeleteRow(c) /\ UNCHANGED <<refreshTable, issued, owed>>
    /\ UNCHANGED <<clock, pool>>

\* ... or never is.
Sink(c) ==
    /\ pc[c] \in Astray
    /\ Raise(c)
    /\ UNCHANGED <<data, clock, pool>>

Tick ==
    /\ clock < MaxClock
    /\ clock' = clock + 1
    /\ UNCHANGED <<data, pool, pc, local>>

-----------------------------------------------------------------------------
Step(c) == Check(c) \/ Run(c) \/ Release(c) \/ Judge(c) \/ Drop(c) \/ Land(c) \/ Sink(c)

Next ==
    \/ Initialize \/ BeginClose \/ FinishClose \/ CreateRefreshTable \/ Tick
    \/ \E c \in Callers :
          \/ Refuse(c)
          \/ \E q \in Requests : Begin(c, q)
          \/ Acquire(c) \/ AcquireFails(c)
          \/ Step(c)
          \/ Fail(c) \/ CutOff(c)

Spec == Init /\ [][Next]_vars

\* The event loop resumes a coroutine whose statement has ended, the server
\* ends every statement (or command_timeout does), and asyncpg serves the
\* waiters of pool.acquire() in the order in which they queued.
Fairness ==
    \A c \in Callers : /\ WF_vars(Step(c))
                       /\ SF_vars(Acquire(c) \/ AcquireFails(c))

FairSpec == Spec /\ Fairness

-----------------------------------------------------------------------------
(* Properties.                                                             *)

\* _load_from drops a record only "if expired": whatever its DELETE finds under
\* the token when it runs, early or late, is expired.  (True while no token is
\* ever stored twice; the DELETE does not repeat the comparison.)
DropsOnlyExpired ==
    \A c \in Callers :
        pc[c] \in {"drop", "stray"} =>
            \/ rows[req[c].kind][req[c].token] = NoRow
            \/ ExpiredAt(rows[req[c].kind][req[c].token], clock)

\* A revoke that has run leaves none of the rows the client held when the call
\* began, in either table, unless somebody stored that token anew: also when the
\* refresh table comes into being after the call looked for it.
RevokeComplete ==
    \A c \in Callers :
        (req[c] # NoRequest /\ req[c].op = "revoke" /\ pc[c] \in {"done", "returned"}) =>
            \A p \in owed[c] : ~(/\ rows[p[1]][p[2]] # NoRow
                                  /\ rows[p[1]][p[2]].client = req[c].client)

\* The calls that may still change a table.
Outstanding ==
    [c \in Callers |->
        IF \/ pc[c] \in Waiting \cup Astray \cup {"check", "run", "drop"}
           \/ pc[c] \in {"done", "judge"} /\ req[c].op = "load"
        THEN req[c] ELSE NoRequest]

Abstract == INSTANCE TokenStorage WITH tables <- rows, asked <- Outstanding

\* The backend implements storage/base.py's contract: each call takes effect at
\* most once and at one instant, and nothing else removes a record.  (True while
\* no token is stored twice and no migration runs beside the calls.)
Contract == Abstract!Spec

\* No call waits for ever for a connection or for an answer, whatever the other
\* calls do and however small the pool is.
EveryCallReturns ==
    \A c \in Callers : pc[c] \notin Resting ~> pc[c] \in Resting
=============================================================================
