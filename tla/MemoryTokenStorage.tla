------------------------- MODULE MemoryTokenStorage -------------------------
(***************************************************************************)
(* storage/memory.py: two dicts in one process.  No method awaits anything *)
(* once it runs, so under asyncio each call is one atomic step; asked[c]   *)
(* is the call a task is scheduled to make.  Time is read as               *)
(* int(time.time()), whole seconds, while the clock also ticks in between. *)
(***************************************************************************)
EXTENDS TokenRequests

CONSTANTS Callers,      \* tasks that call the storage
          NoRequest,    \* a task with nothing to do
          MaxClock      \* bound on the clock, in ticks

ASSUME MemoryAssumption == MaxClock \in Nat /\ NoRequest \notin Requests

VARIABLES tables,        \* _access_tokens and _refresh_tokens
          initialized,   \* _initialized
          clock,
          asked,
          answer         \* what the last load of each task returned

vars == <<tables, initialized, clock, asked, answer>>

TypeOK ==
    /\ tables \in Tables
    /\ initialized \in BOOLEAN
    /\ clock \in 0..MaxClock
    /\ asked \in [Callers -> Requests \cup {NoRequest}]
    /\ answer \in [Callers -> Record \cup {NoRow}]

Init ==
    /\ tables = EmptyTables
    /\ initialized = FALSE
    /\ clock = 0
    /\ asked = [c \in Callers |-> NoRequest]
    /\ answer = [c \in Callers |-> NoRow]

Initialize ==
    /\ initialized' = TRUE
    /\ UNCHANGED <<tables, clock, asked, answer>>

CloseKeepingRefresh ==  \* a seeded fault: one dict is not cleared
    /\ tables' = [tables EXCEPT !["access"] = EmptyTables["access"]]
    /\ initialized' = FALSE
    /\ UNCHANGED <<clock, asked, answer>>

CloseDropsDict ==  \* a seeded fault: a dict is deleted instead of cleared
    /\ tables' = [k \in {"access"} |-> EmptyTables[k]]
    /\ initialized' = FALSE
    /\ UNCHANGED <<clock, asked, answer>>

\* close() empties both dicts.
Close ==
    /\ tables' = EmptyTables
    /\ initialized' = FALSE
    /\ UNCHANGED <<clock, asked, answer>>

Ask(c, q) ==
    /\ asked[c] = NoRequest
    /\ asked' = [asked EXCEPT ![c] = q]
    /\ answer' = [answer EXCEPT ![c] = NoRow]
    /\ UNCHANGED <<tables, initialized, clock>>

Refused(c) ==  \* _require_initialized raises
    /\ asked[c] # NoRequest
    /\ ~initialized
    /\ asked' = [asked EXCEPT ![c] = NoRequest]
    /\ UNCHANGED <<tables, initialized, clock, answer>>

\* expires_at < int(time.time())
OverdueLate(row) == row # NoRow /\ row.exp + 1 < clock \div TicksPerSecond  \* seeded fault
OverdueEarly(row) == row # NoRow /\ row.exp <= clock \div TicksPerSecond  \* seeded fault
Overdue(row) == row # NoRow /\ row.exp < clock \div TicksPerSecond

\* The records the call takes out of the dicts.
Removes(q, k, t) ==
    \/ q.op = "delete" /\ q.kind = k /\ q.token = t
    \/ q.op = "load" /\ q.kind = k /\ q.token = t /\ Overdue(tables[k][t])
    \/ q.op = "cleanup" /\ q.kind = k /\ Overdue(tables[k][t])
    \/ q.op = "revoke" /\ tables[k][t] # NoRow /\ tables[k][t].client = q.client

Serve(c) ==
    LET q == asked[c]
    IN  /\ q # NoRequest
        /\ initialized
        /\ asked' = [asked EXCEPT ![c] = NoRequest]
        /\ tables' = IF q.op = "store"
                     THEN [tables EXCEPT ![q.kind][q.token] = q.row]
                     ELSE [k \in Kinds |-> [t \in Tokens |->
                              IF Removes(q, k, t) THEN NoRow ELSE tables[k][t]]]
        /\ answer' = [answer EXCEPT ![c] =
                         IF q.op = "load" /\ ~Overdue(tables[q.kind][q.token])
                         THEN tables[q.kind][q.token] ELSE NoRow]
        /\ UNCHANGED <<initialized, clock>>

Tick ==
    /\ clock < MaxClock
    /\ clock' = clock + 1
    /\ UNCHANGED <<tables, initialized, asked, answer>>

Next ==
    \/ Initialize \/ Close \/ Tick
    \/ \E c \in Callers :
          \/ \E q \in Requests : Ask(c, q)
          \/ Refused(c)
          \/ Serve(c)

Spec == Init /\ [][Next]_vars

-----------------------------------------------------------------------------
(* Properties.                                                             *)

\* A storage that was closed, or never initialized, holds nothing: no token of
\* an earlier life of the storage answers a load of the next one.
EmptyUnlessInitialized == ~initialized => tables = EmptyTables

\* Truncating the time to whole seconds costs exactly this: a record is served
\* through the second that begins at expires_at, and to its last tick, and not
\* one tick longer (PostgresTokenStorage stops at the instant expires_at).
ServedToTheSecond ==
    [][\A c \in Callers :
          (asked[c] # NoRequest /\ asked[c].op = "load" /\ Serve(c)) =>
              LET row == tables[asked[c].kind][asked[c].token]
              IN  answer'[c] = IF row # NoRow /\ clock < Instant(row.exp + 1)
                               THEN row ELSE NoRow]_vars

Abstract == INSTANCE TokenStorage

\* The backend implements storage/base.py's contract.
Contract == Abstract!Spec
=============================================================================
