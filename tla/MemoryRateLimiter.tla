-------------------------- MODULE MemoryRateLimiter -------------------------
(***************************************************************************)
(* rate_limiting.py without Redis: a dict from client ids to the times of  *)
(* their requests in the window, swept of idle keys at most once a window. *)
(* In one event loop a call is one atomic step.  With threads, as in the   *)
(* tests of the limiter, a call can be interrupted between any two of its  *)
(* accesses to the dict: there is no lock.  (A comprehension over the dict *)
(* is one access here.)  Requests of one key at one time are numbered.     *)
(***************************************************************************)
EXTENDS Integers, FiniteSets

CONSTANTS Keys,       \* client ids, or the IPs of those who register
          Callers,    \* tasks or threads
          Threaded,   \* do threads call the limiter?
          Limit,      \* requests_per_window
          Window,     \* window_seconds
          TicksPerSecond,
          None,       \* "no time", "no key"
          MaxClock    \* bound on the clock

ASSUME LimiterAssumption ==
    /\ Limit \in Nat \ {0} /\ Window \in Nat \ {0}
    /\ TicksPerSecond \in Nat \ {0} /\ MaxClock \in Nat
    /\ Threaded \in BOOLEAN
    /\ None \notin Int /\ None \notin Keys

VARIABLES
    clock,
    times,      \* _clients: times[k] is the list of k, as a set of <<time, number>>
    present,    \* the keys of _clients
    lastSweep,  \* _last_sweep
    pc,
    key, now,   \* key[c], now[c]: the client c asks for, the time it read
    seen,       \* seen[c]: the filtered list that c will write back
    stale,      \* stale[c]: the keys that c is about to delete
    admitted,   \* history: admitted[k], the requests let through, while in the window
    promise     \* history: promise[k], from when on k was told to retry, until k is let in

dict == <<times, present>>
local == <<pc, key, now, seen, stale>>
history == <<admitted, promise>>
vars == <<clock, dict, lastSweep, local, history>>

Seconds(n) == n * TicksPerSecond
Span == Seconds(Window)
Stamps == (0..MaxClock) \X Nat
At(r) == r[1]

TypeOK ==
    /\ clock \in 0..MaxClock
    /\ present \subseteq Keys
    /\ times \in [Keys -> SUBSET Stamps]
    /\ \A k \in Keys \ present : times[k] = {}
    /\ lastSweep \in {-Span} \cup 0..MaxClock
    /\ pc \in [Callers -> {"idle", "sweep", "mark", "delete", "read", "write", "KeyError"}]
    /\ key \in [Callers -> Keys \cup {None}]
    /\ now \in [Callers -> 0..MaxClock]
    /\ seen \in [Callers -> SUBSET Stamps]
    /\ stale \in [Callers -> SUBSET Keys]
    /\ admitted \in [Keys -> SUBSET Stamps]
    /\ promise \in [Keys -> Nat \cup {None}]

\* _last_sweep starts at 0.0, which is long ago.
Init ==
    /\ clock = 0
    /\ times = [k \in Keys |-> {}]
    /\ present = {}
    /\ lastSweep = -Span
    /\ pc = [c \in Callers |-> "idle"]
    /\ key = [c \in Callers |-> None]
    /\ now = [c \in Callers |-> 0]
    /\ seen = [c \in Callers |-> {}]
    /\ stale = [c \in Callers |-> {}]
    /\ admitted = [k \in Keys |-> {}]
    /\ promise = [k \in Keys |-> None]

Goto(c, place) == pc' = [pc EXCEPT ![c] = place]

End(c, place) ==
    /\ Goto(c, place)
    /\ key' = [key EXCEPT ![c] = None]
    /\ now' = [now EXCEPT ![c] = 0]
    /\ seen' = [seen EXCEPT ![c] = {}]
    /\ stale' = [stale EXCEPT ![c] = {}]

Resting == {"idle", "KeyError"}
Free(c) == pc[c] \in Resting /\ (Threaded \/ \A d \in Callers : pc[d] \in Resting)

InWindow(set, t) == {r \in set : t - At(r) < Span}

-----------------------------------------------------------------------------
(* _is_allowed_memory().                                                   *)

IsAllowed(c, k) ==
    /\ Free(c)
    /\ Goto(c, "sweep")
    /\ key' = [key EXCEPT ![c] = k]
    /\ now' = [now EXCEPT ![c] = clock]
    /\ UNCHANGED <<clock, dict, lastSweep, seen, stale, history>>

\* Keys whose list is empty or older than the cutoff.
IdleTooSoon(k, t) == \A r \in times[k] : t - At(r) > 0    \* seeded fault: no window
IdleLate(k, t) == times[k] = {}  \* seeded fault: only lists already empty are dropped
Idle(k, t) == \A r \in times[k] : At(r) < t - Span

\* _sweep_expired(): at most once per window.
Sweep(c) ==
    /\ pc[c] = "sweep"
    /\ Goto(c, IF now[c] - lastSweep < Span THEN "read" ELSE "mark")
    /\ UNCHANGED <<clock, dict, lastSweep, key, now, seen, stale, history>>

MarkCutoff(c) ==  \* a seeded fault: the cutoff is noted instead of the time
    /\ pc[c] = "mark"
    /\ Goto(c, "delete")
    /\ lastSweep' = now[c] - Span
    /\ stale' = [stale EXCEPT ![c] = {k \in present : Idle(k, now[c])}]
    /\ UNCHANGED <<clock, dict, key, now, seen, history>>

\* The sweep notes its time and lists the stale keys.
Mark(c) ==
    /\ pc[c] = "mark"
    /\ Goto(c, "delete")
    /\ lastSweep' = now[c]
    /\ stale' = [stale EXCEPT ![c] = {k \in present : Idle(k, now[c])}]
    /\ UNCHANGED <<clock, dict, key, now, seen, history>>

\* The deletions, one by one; a key that is no longer there raises KeyError.
Delete(c) ==
    /\ pc[c] = "delete"
    /\ \/ /\ stale[c] = {}
          /\ Goto(c, "read")
          /\ UNCHANGED <<dict, key, now, seen, stale>>
       \/ \E k \in stale[c] \cap present :
             /\ present' = present \ {k}
             /\ times' = [times EXCEPT ![k] = {}]
             /\ stale' = [stale EXCEPT ![c] = @ \ {k}]
             /\ UNCHANGED <<pc, key, now, seen>>
       \/ stale[c] \ present # {} /\ End(c, "KeyError") /\ UNCHANGED dict
    /\ UNCHANGED <<clock, lastSweep, history>>

ReadBoundary(c) ==  \* a seeded fault: the window is a tick short
    /\ pc[c] = "read"
    /\ Goto(c, "write")
    /\ present' = present \cup {key[c]}
    /\ seen' = [seen EXCEPT ![c] = {r \in times[key[c]] : now[c] - At(r) < Span - 1}]
    /\ UNCHANGED <<clock, times, lastSweep, key, now, stale, history>>

\* The requests of the key that are still in the window; reading _clients[client_id]
\* makes the key.
Read(c) ==
    /\ pc[c] = "read"
    /\ Goto(c, "write")
    /\ present' = present \cup {key[c]}
    /\ seen' = [seen EXCEPT ![c] = InWindow(times[key[c]], now[c])]
    /\ UNCHANGED <<clock, times, lastSweep, key, now, stale, history>>

\* A request at the time c read, told apart from others of the same time.
Fresh(c) ==
    LET others == seen[c] \cup times[key[c]] \cup admitted[key[c]]
    IN  CHOOSE r \in {now[c]} \X (1..(Cardinality(others) + 1)) : r \notin others

WriteDenied(c) ==
    /\ Cardinality(seen[c]) >= Limit
    /\ times' = [times EXCEPT ![key[c]] = seen[c]]
    /\ UNCHANGED history

WriteAllowed(c) ==
    /\ Cardinality(seen[c]) < Limit
    /\ times' = [times EXCEPT ![key[c]] = seen[c] \cup {Fresh(c)}]
    /\ admitted' = [admitted EXCEPT ![key[c]] = InWindow(@ \cup {Fresh(c)}, clock)]
    /\ promise' = [promise EXCEPT ![key[c]] = None]

\* The list is stored, with the new request if there was room, and the call returns.
Write(c) ==
    /\ pc[c] = "write"
    /\ WriteDenied(c) \/ WriteAllowed(c)
    /\ present' = present \cup {key[c]}
    /\ End(c, "idle")
    /\ UNCHANGED <<clock, lastSweep>>

-----------------------------------------------------------------------------
RetryAfterShort(k, oldest) ==  \* a seeded fault: without the + 1
    (Span - (clock - oldest)) \div TicksPerSecond

\* int(window - (now - oldest)) + 1, and at least 1.
RetryAfter(k, oldest) ==
    LET seconds == (Span - (clock - oldest)) \div TicksPerSecond + 1
    IN  IF seconds < 1 THEN 1 ELSE seconds

\* _get_retry_after_memory(): reads the list as it was stored, filtered or not.
GetRetryAfter(c, k) ==
    /\ Free(c)
    /\ promise' = [promise EXCEPT ![k] =
          IF times[k] = {} THEN clock
          ELSE LET oldest == CHOOSE t \in {At(r) : r \in times[k]} :
                                 \A r \in times[k] : t <= At(r)
               IN  clock + Seconds(RetryAfter(k, oldest))]
    /\ UNCHANGED <<clock, dict, lastSweep, local, admitted>>

\* Time passes; in an event loop a call takes none.
Tick ==
    /\ clock < MaxClock
    /\ Threaded \/ \A c \in Callers : pc[c] \in Resting
    /\ clock' = clock + 1
    /\ admitted' = [k \in Keys |-> InWindow(admitted[k], clock')]
    /\ UNCHANGED <<dict, lastSweep, local, promise>>

-----------------------------------------------------------------------------
Next ==
    \/ Tick
    \/ \E c \in Callers :
          \/ \E k \in Keys : IsAllowed(c, k) \/ GetRetryAfter(c, k)
          \/ Sweep(c) \/ Mark(c) \/ Delete(c) \/ Read(c) \/ Write(c)

Spec == Init /\ [][Next]_vars

-----------------------------------------------------------------------------
(* Properties.                                                             *)

\* In an event loop no window of window_seconds sees more requests of one key than the
\* limit: neither filtering nor sweeping forgets one that still counts.
NeverOverLimit == \A k \in Keys : Cardinality(admitted[k]) <= Limit

\* Who was told to retry at some time will find room then, if not let in before.
PromiseKept ==
    \A k \in Keys :
        promise[k] # None => Cardinality(InWindow(times[k], promise[k])) < Limit

\* A call, whoever's it is, leaves behind no other key that has been idle for two
\* windows: the dict does not outgrow the clients of the last two windows.
IdleKeysGo ==
    \A c \in Callers :
        pc[c] = "write" =>
            \A k \in present \ {key[c]} :
                \E r \in times[k] : now[c] - At(r) <= 2 * Span

\* "2x is a conservative ceiling; the property that matters is no vast over-admission",
\* says the test with threads.  (Each thread that read the list early may overwrite it.)
TwiceTheLimit == \A k \in Keys : Cardinality(admitted[k]) <= 2 * Limit
=============================================================================
