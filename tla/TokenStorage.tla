---------------------------- MODULE TokenStorage ----------------------------
(***************************************************************************)
(* What storage/base.py promises of every token storage backend, stated    *)
(* over the records and the calls alone.  A call takes effect at most once *)
(* and at one instant; a record appears only through a store and leaves    *)
(* its table only because a delete or a revoke that was asked for removes  *)
(* it (a revoke out of both tables at once), because the storage is        *)
(* closed, or because it has expired and a load or a cleanup comes by.     *)
(* MemoryTokenStorage and PostgresTokenStorage implement this module.      *)
(***************************************************************************)
EXTENDS TokenRequests

CONSTANTS Callers,     \* the tasks that call the storage
          NoRequest    \* "this caller has nothing outstanding"

VARIABLES tables,      \* tables[k][t]: the record stored under token t
          asked,       \* asked[c]: the call of c that may still take effect
          clock        \* the time, in ticks

vars == <<tables, asked, clock>>

Init == /\ tables = EmptyTables
        /\ asked = [c \in Callers |-> NoRequest]
        /\ clock \in Int

Ask(c, q) == /\ asked[c] = NoRequest
             /\ asked' = [asked EXCEPT ![c] = q]
             /\ UNCHANGED <<tables, clock>>

\* The call ends without (further) effect: it raised, or had nothing to do.
Finish(c) == /\ asked[c] # NoRequest
             /\ asked' = [asked EXCEPT ![c] = NoRequest]
             /\ UNCHANGED <<tables, clock>>

Put(q) == q.op = "store" /\ tables' = [tables EXCEPT ![q.kind][q.token] = q.row]

Remove(q) == q.op = "delete" /\ tables' = [tables EXCEPT ![q.kind][q.token] = NoRow]

\* Both tables in the same instant, and nothing of another client.
RevokeAll(q) ==
    /\ q.op = "revoke"
    /\ tables' = [k \in Kinds |-> [t \in Tokens |->
                     IF tables[k][t] # NoRow /\ tables[k][t].client = q.client
                     THEN NoRow ELSE tables[k][t]]]

\* "Token data dict if found and not expired": a load may drop the token it
\* was asked for, if that has expired.
DropExpired(q) ==
    /\ q.op = "load"
    /\ tables[q.kind][q.token] = NoRow \/ ExpiredAt(tables[q.kind][q.token], clock)
    /\ tables' = [tables EXCEPT ![q.kind][q.token] = NoRow]

\* A cleanup removes expired tokens of its own kind and no others.
Sweep(q) ==
    /\ q.op = "cleanup"
    /\ tables' \in Tables
    /\ \A k \in Kinds, t \in Tokens :
          \/ tables'[k][t] = tables[k][t]
          \/ k = q.kind /\ ExpiredAt(tables[k][t], clock) /\ tables'[k][t] = NoRow

Effect(c) ==
    /\ asked[c] # NoRequest
    /\ LET q == asked[c]
       IN  Put(q) \/ Remove(q) \/ RevokeAll(q) \/ DropExpired(q) \/ Sweep(q)
    /\ asked' = [asked EXCEPT ![c] = NoRequest]
    /\ UNCHANGED clock

Close == tables' = EmptyTables /\ UNCHANGED <<asked, clock>>

Advance == clock' > clock /\ UNCHANGED <<tables, asked>>

Next ==
    \/ \E c \in Callers, q \in Requests : Ask(c, q)
    \/ \E c \in Callers : Finish(c) \/ Effect(c)
    \/ Close
    \/ Advance

Spec == Init /\ [][Next]_vars
=============================================================================
