--------------------------- MODULE MCRegistration ---------------------------
(* Registration for TLC.  A rewriter adds a debug variant to one URI, which  *)
(* the validator does not accept; without URIs the default applies.          *)
EXTENDS Registration, TLC

Symmetry == Permutations(Requests) \cup Permutations(IPs)

MCURIs == {"web", "app", "debug"}
MCRewrite == [u \in SUBSET MCURIs |-> u \cup (IF "app" \in u THEN {"debug"} ELSE {})]
MCValid == {"web", "app"}
MCDefaults == {"web"}

MCPayloads ==
    {[wellFormed |-> FALSE, uris |-> {}, machine |-> FALSE],
     [wellFormed |-> TRUE, uris |-> {}, machine |-> TRUE],
     [wellFormed |-> TRUE, uris |-> {"app"}, machine |-> FALSE]}
=============================================================================
