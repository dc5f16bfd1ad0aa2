-------------------------- MODULE RedisRateLimiter --------------------------
(***************************************************************************)
(* rate_limiting.py with a Redis client: the requests of one client id in  *)
(* the window are the members of one sorted set, <<score, suffix>>, that   *)
(* all replicas of the server share (other client ids have other keys).    *)
(* is_allowed() and get_retry_after() send one command after another, so   *)
(* the commands of several calls interleave.  Redis is external: a command *)
(* is atomic, a set without members is no key, and a key with a time to    *)
(* live is gone when that is over.  The clock runs in ticks of a second.   *)
(***************************************************************************)
EXTENDS Integers, FiniteSets

CONSTANTS Callers,    \* calls that may be under way at once, in all replicas
          Suffixes,   \* values of secrets.token_hex(4)
          Limit,      \* requests_per_window
          Window,     \* window_seconds
          TicksPerSecond,
          Regimes,    \* the deployments considered, see env
          None,       \* "no time"
          MaxClock    \* bound on the clock

ASSUME LimiterAssumption ==
    /\ IsFiniteSet(Callers) /\ IsFiniteSet(Suffixes)
    /\ Limit \in Nat \ {0} /\ Window \in Nat \ {0}
    /\ TicksPerSecond \in Nat \ {0} /\ MaxClock \in Nat
    /\ Regimes \subseteq [slack : Nat, failures : BOOLEAN]
    /\ None \notin Int

VARIABLES
    env,       \* .slack: how many ticks a call may take, .failures: may commands fail?
    clock,
    zset,      \* the sorted set
    expiry,    \* when its key expires
    pc,
    now,       \* now[c]: the time c's call read when it began
    member,    \* member[c]: what c added to the set
    admitted,  \* history: the members of the calls that returned True, while in the window
    promise    \* history: promise[c], the time from which c was told to retry, until a
               \* member is added; told while the set had at most Limit members

redis == <<zset, expiry>>
local == <<pc, now, member>>
history == <<admitted, promise>>
vars == <<env, clock, redis, local, history>>

Seconds(n) == n * TicksPerSecond
Span == Seconds(Window)

Members == Nat \X Suffixes
Score(m) == m[1]
Busy == {"trim", "card", "add", "expire", "retrim", "range"}

TypeOK ==
    /\ env \in Regimes
    /\ clock \in 0..MaxClock
    /\ zset \subseteq Members /\ IsFiniteSet(zset)
    /\ expiry \in Nat \cup {None}
    /\ zset = {} => expiry = None
    /\ pc \in [Callers -> {"idle"} \cup Busy]
    /\ now \in [Callers -> 0..MaxClock]
    /\ member \in [Callers -> Members \cup {None}]
    /\ admitted \subseteq Members
    /\ promise \in [Callers -> Nat \cup {None}]

Init ==
    /\ env \in Regimes
    /\ clock = 0
    /\ zset = {}
    /\ expiry = None
    /\ pc = [c \in Callers |-> "idle"]
    /\ now = [c \in Callers |-> 0]
    /\ member = [c \in Callers |-> None]
    /\ admitted = {}
    /\ promise = [c \in Callers |-> None]

Goto(c, place) == pc' = [pc EXCEPT ![c] = place]

\* The call returns or raises.
End(c) ==
    /\ Goto(c, "idle")
    /\ now' = [now EXCEPT ![c] = 0]
    /\ member' = [member EXCEPT ![c] = None]

\* The members a window that ends at time t holds.
InWindow(set, t) == {m \in set : Score(m) > t - Span}

-----------------------------------------------------------------------------
(* is_allowed() and get_retry_after().                                     *)

Call(c, first) ==
    /\ pc[c] = "idle"
    /\ Goto(c, first)
    /\ now' = [now EXCEPT ![c] = clock]
    /\ promise' = [promise EXCEPT ![c] = None]
    /\ UNCHANGED <<env, clock, redis, member, admitted>>

IsAllowed(c) == Call(c, "trim")
GetRetryAfter(c) == Call(c, "retrim")

\* What ZREMRANGEBYSCORE key -inf window_start leaves.
KeptTooFew(c) == {m \in zset : Score(m) > now[c] - Span + 1}  \* seeded fault: off by one
Kept(c) == InWindow(zset, now[c])

\* ZREMRANGEBYSCORE; with its last member the key loses its time to live.
Trim(c) ==
    /\ pc[c] \in {"trim", "retrim"}
    /\ Goto(c, IF pc[c] = "trim" THEN "card" ELSE "range")
    /\ zset' = Kept(c)
    /\ expiry' = IF Kept(c) = {} THEN None ELSE expiry
    /\ UNCHANGED <<env, clock, now, member, history>>

CardLate(c) ==  \* a seeded fault: the comparison is > instead of >=
    /\ pc[c] = "card"
    /\ IF Cardinality(zset) > Limit
       THEN End(c)
       ELSE Goto(c, "add") /\ UNCHANGED <<now, member>>
    /\ UNCHANGED <<env, clock, redis, history>>

\* ZCARD: at the limit, return False.
Card(c) ==
    /\ pc[c] = "card"
    /\ IF Cardinality(zset) >= Limit
       THEN End(c)
       ELSE Goto(c, "add") /\ UNCHANGED <<now, member>>
    /\ UNCHANGED <<env, clock, redis, history>>

\* ZADD key {now:suffix} now; no two suffixes drawn are alike.
Add(c) ==
    /\ pc[c] = "add"
    /\ Goto(c, "expire")
    /\ \E s \in Suffixes :
          /\ <<now[c], s>> \notin zset \cup admitted
          /\ \A d \in Callers : member[d] # <<now[c], s>>
          /\ zset' = zset \cup {<<now[c], s>>}
          /\ member' = [member EXCEPT ![c] = <<now[c], s>>]
    /\ promise' = [d \in Callers |-> None]
    /\ UNCHANGED <<env, clock, expiry, now, admitted>>

ExpireForgotten == expiry  \* a seeded fault: EXPIRE is not sent
ExpireNegative == -1       \* a seeded fault: a negative time to live

\* EXPIRE key window+1, which does nothing when the key is gone.
NewExpiry == IF zset = {} THEN expiry ELSE clock + Seconds(Window + 1)

\* ... and True is returned.
Expire(c) ==
    /\ pc[c] = "expire"
    /\ expiry' = NewExpiry
    /\ admitted' = InWindow(admitted \cup {member[c]}, clock)
    /\ End(c)
    /\ UNCHANGED <<env, clock, zset, promise>>

\* int(window - (now - oldest)) + 1, and at least 1.
RetryAfterShort(c, oldest) ==  \* a seeded fault: without the + 1
    (Span - (now[c] - oldest)) \div TicksPerSecond

RetryAfter(c, oldest) ==
    LET seconds == (Span - (now[c] - oldest)) \div TicksPerSecond + 1
    IN  IF seconds < 1 THEN 1 ELSE seconds

\* ZRANGE key 0 0 WITHSCORES, and the answer; without members that is 0.
ReadOldest(c) ==
    /\ pc[c] = "range"
    /\ \/ zset = {} /\ promise' = [promise EXCEPT ![c] = clock]
       \/ \E m \in zset :
             /\ \A n \in zset : Score(m) <= Score(n)
             /\ promise' = [promise EXCEPT ![c] =
                   IF Cardinality(zset) <= Limit
                   THEN clock + Seconds(RetryAfter(c, Score(m))) ELSE None]
    /\ End(c)
    /\ UNCHANGED <<env, clock, redis, admitted>>

\* A command fails, or its reply is lost, or the replica crashes: the call raises.
Fail(c) ==
    /\ env.failures
    /\ pc[c] \in Busy
    /\ \/ UNCHANGED expiry
       \/ pc[c] = "expire" /\ expiry' = NewExpiry  \* EXPIRE was applied
    /\ End(c)
    /\ UNCHANGED <<env, clock, zset, history>>

\* Time passes, and Redis drops the key when its time to live is over.
Tick ==
    /\ clock < MaxClock
    /\ \A c \in Callers : pc[c] \in Busy => clock < now[c] + env.slack
    /\ clock' = clock + 1
    /\ IF expiry # None /\ clock' > expiry
       THEN zset' = {} /\ expiry' = None
       ELSE UNCHANGED redis
    /\ admitted' = InWindow(admitted, clock')
    /\ UNCHANGED <<env, local, promise>>

-----------------------------------------------------------------------------
Next ==
    \/ Tick
    \/ \E c \in Callers :
          \/ IsAllowed(c) \/ GetRetryAfter(c)
          \/ Trim(c) \/ Card(c) \/ Add(c) \/ Expire(c) \/ ReadOldest(c)
          \/ Fail(c)

Spec == Init /\ [][Next]_vars

-----------------------------------------------------------------------------
(* Properties.                                                             *)

\* The set is never larger than the limit by more than the number of the other calls
\* under way, however the commands interleave, fail, or are delayed.
SetBounded == Cardinality(zset) <= Limit + Cardinality(Callers) - 1

\* A request that was let through is remembered for a whole window: no trimming by a
\* call with an older or a newer time, and no time to live, takes it out early.
AdmittedRemembered == InWindow(admitted, clock) \subseteq zset

\* A set has a time to live, or a call that is about to give it one, or there was a
\* failure: clients that never come back leave nothing behind.
KeyNeverLeaks ==
    (zset # {} /\ expiry = None /\ ~env.failures) => \E c \in Callers : pc[c] = "expire"

\* A caller who was told when to retry, by a set that was not overfull, will find room
\* at that time, if nobody has been let through in between.
PromiseKept ==
    \A c \in Callers :
        promise[c] # None => Cardinality(InWindow(zset, promise[c])) < Limit
=============================================================================
