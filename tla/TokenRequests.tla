---------------------------- MODULE TokenRequests ---------------------------
(***************************************************************************)
(* The vocabulary the token storage modules share: what is stored, what    *)
(* may be asked of a storage, and when a record counts as expired.         *)
(***************************************************************************)
EXTENDS Integers

CONSTANTS Tokens,          \* token values; hash_token is taken to be injective
          Clients,         \* OAuth client ids
          Expiries,        \* expires_at values, whole seconds
          TicksPerSecond,  \* resolution of the clock, for the fractions of a second
          NoRow            \* "there is no record under this token"

ASSUME ConstantsAssumption ==
    /\ Expiries \subseteq Int
    /\ TicksPerSecond \in Int /\ TicksPerSecond > 0

Kinds == {"access", "refresh"}

\* The fields the storage itself looks at: scopes, resource, user_id and
\* created_at are carried along unread.
Record == [client : Clients, exp : Expiries]

ASSUME NoRowAssumption == NoRow \notin Record

Tables == [Kinds -> [Tokens -> Record \cup {NoRow}]]
EmptyTables == [k \in Kinds |-> [t \in Tokens |-> NoRow]]

\* A call of the storage interface; get_token_count and get_refresh_token_count
\* are "count", the two cleanup methods are "cleanup".
Requests ==
    [op : {"store"}, kind : Kinds, token : Tokens, row : Record]
        \cup [op : {"load", "delete"}, kind : Kinds, token : Tokens]
        \cup [op : {"cleanup", "count"}, kind : Kinds]
        \cup [op : {"revoke"}, client : Clients]

\* A token is good up to and including the instant expires_at.
Instant(exp) == exp * TicksPerSecond
ExpiredAt(row, now) == row # NoRow /\ Instant(row.exp) < now
=============================================================================
