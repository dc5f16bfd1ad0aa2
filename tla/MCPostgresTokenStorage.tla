----------------------- MODULE MCPostgresTokenStorage -----------------------
(* PostgresTokenStorage for TLC, with a history of the answers that a load  *)
(* could truthfully give: witness[c] collects what was stored, unexpired,   *)
(* under the token c asks for at the instants of its call.                  *)
EXTENDS PostgresTokenStorage, TLC

VARIABLE witness

Symmetry == Permutations(Callers) \cup Permutations(Clients)

mcvars == <<vars, witness>>

Loading(c) == pc[c] \notin Resting /\ req[c].op = "load"

LiveRow(k, t) == IF ExpiredAt(rows[k][t], clock) THEN NoRow ELSE rows[k][t]

Witness(c) ==
    IF Loading(c)'
    THEN (IF Loading(c) THEN witness[c] ELSE {}) \cup {LiveRow(req[c].kind, req[c].token)'}
    ELSE IF Loading(c) /\ pc'[c] = "returned" THEN witness[c]
    ELSE IF pc'[c] = "returned" THEN witness[c] ELSE {}

MCInit == Init /\ witness = [c \in Callers |-> {}]

MCNext == Next /\ witness' = [c \in Callers |-> Witness(c)]

MCSpec == MCInit /\ [][MCNext]_mcvars

\* What load_token answers (a record or None) was the truth at some instant
\* between the call and the answer: a load never reports as absent a token that
\* was good all along, nor hands out one that was gone or expired all along.
LoadAnswerWasTrue ==
    \A c \in Callers :
        (pc[c] = "returned" /\ req[c].op = "load") => got[c] \in witness[c]
=============================================================================
