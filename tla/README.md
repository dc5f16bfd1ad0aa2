# mcp-authflow in TLA+

A verification development of `mcp_authflow`, a framework for the authorization-server
side of OAuth in MCP deployments: TLA+ modules translated from its source, TLC
configurations that check them on small instances, and proofs, checked by TLAPS, for
every value of the constants. `PROJECT.json` maps every definition to the source lines it
stands for. Paths below are relative to the repository.

## 1. Inventory of the system

The package is a library. A host application (an ASGI authorization server, the example in
`README.md`) calls it from coroutines in one event loop per process, usually in several
replicas; state is in PostgreSQL, in Redis, or in dicts of the process. The parts do not call
each other, with one exception (registration calls the rate limiter); the endpoints of the
host compose them, and they meet in time, in shared storage and in the order of calls.

| Component | State | Operations | What is hard | What makes it correct |
|---|---|---|---|---|
| Storage contract, `storage/base.py` | two tables of token records | store, load, delete, cleanup, count for access and refresh tokens; revoke a client; initialize, close | – | a call takes effect at most once, at one instant; a record goes only if deleted, revoked, expired, or at close |
| PostgreSQL storage, `storage/postgres.py` | two SQL tables, a connection pool, whether the refresh table exists | as above, each one to three statements | interleaved statements; a pool of limited size that may be closing; calls that raise while their statement lives on; a table that appears | it implements the contract; a revoke misses nothing; answers were true at some instant; no call waits for ever |
| In-memory storage, `storage/memory.py` | two dicts, `_initialized` | as above, one step each | whole seconds; close with calls pending | it implements the contract |
| Client authentication, `client_auth/jwt.py` | replay cache: dict with lock and sweep time, or Redis keys | `authenticate` | five readings of the clock with suspensions between; leeway; capped deadlines; restarts; lost replies; threads; keys that change | no second use; no unjustified replay verdict; a bounded cache; the named key is found |
| Rate limiter over Redis, `rate_limiting.py` | a sorted set with a time to live, shared by replicas | `is_allowed`, `get_retry_after` | four commands that interleave, fail, or are late | bounded over-admission; no admission forgotten; no key without a time to live; retry_after is enough |
| Rate limiter in memory, `rate_limiting.py` | dict of lists, sweep time | the same | boundary comparisons; throttled sweep; threads without a lock | the limit; a bounded dict; retry_after is enough |
| Device grant, `device.py` | none of its own: rows of the host | `evaluate_device_poll`, code generation, response | the host's load–decide–update loop, the interval, expiry, one token per code | a bounded number of tokens per code; a polite poller is never slowed down; who keeps polling is answered |
| Registration, `registration/` | clients of the registry | the handler, `create_client`, hooks | order of checks, failure after a step that took effect | what is answered matches what is stored; a refused request stores nothing; the limiter bounds the clients stored |
| Validation, PKCE, responses, CORS, exceptions | none | pure functions | – | see section 8 |

The hazards, each at its line and with the properties that cover it or the reason none does,
are listed in `PROJECT.json`.

## 2. Modules

| Module | Models | Role |
|---|---|---|
| `TokenRequests` | records, requests, expiry | the vocabulary of the storage modules |
| `TokenStorage` | `storage/base.py` | abstract specification: what a backend promises |
| `PostgresTokenStorage` | `storage/postgres.py` | detailed specification; implements `TokenStorage` |
| `MemoryTokenStorage` | `storage/memory.py` | detailed specification; implements `TokenStorage` |
| `JWTClientAuthenticator` | `client_auth/jwt.py` | detailed specification |
| `DeviceFlow` | `device.py` and the loop around it | detailed specification, with the host's endpoint, the user and the device as environment |
| `RedisRateLimiter` | `rate_limiting.py`, Redis path | detailed specification |
| `MemoryRateLimiter` | `rate_limiting.py`, dict path | detailed specification |
| `Registration` | `registration/`, the answers of `responses.py` it gives | composition: the handler, an instance of `MemoryRateLimiter`, a registry, the host's callbacks |
| `MC...` | | constants, symmetry and one history variable for TLC |
| `..._proofs` | | theorems and proofs, of the module whose name they bear; `PostgresContract_proofs` is the second about `PostgresTokenStorage`: the drops, the answers of the loads (with the history of `MCPostgresTokenStorage`) and the contract |

### PostgresTokenStorage
`rows` is the two tables, `pool` is `self._pool`, `pc[c]` the await at which the call of task
`c` stands: queued for a connection (`acquire`, `reacquire`), before a statement (`check`,
`run`, `drop`), after it with the connection still held (`done`, `dropped`), and `judge`, the
code of `_load_from` between the SELECT and the second call that deletes. `req`, `got`, `both`
and `now` are the locals that survive an await (arguments, the SELECT's row,
`has_refresh_table`, the time a cleanup read). One action runs from one await to the next.
asyncpg and the server are external, as the code uses them: a statement is atomic; a call may
fail before its statement is applied (`Fail`), or while it is under way (`CutOff`), in which case
the statement is applied later (`Land`) or never (`Sink`). `FinishClose` needs every connection
back, as `Pool.close()` does. `issued` and `owed` are history variables. `_verify_schema` is not
told apart: `_pool` is set before it runs and stays set when it raises.

### MemoryTokenStorage
No method awaits once it runs, so `Serve` is a whole call; `Ask` schedules it. The clock has
`TicksPerSecond` ticks per second and the code sees `clock \div TicksPerSecond`.

### JWTClientAuthenticator
An assertion is the times, `jti`, `kid` and `alg` it carries, the key of its signer, and `claims`,
which stands for every check that depends neither on time, nor on the keys, nor on the cache. The
actions follow one call: `Present`, `Fetched` (the provider answered with one of `KeySets`, the `alg` is
looked at, the first matching key is taken, and `now` is read), `Verify` (the signature, PyJWT's
check of `exp` and `iat` with leeway at its own reading of the clock, the age check on the earlier
one, and the next reading), `Sweep` (dict only), `Record` (the test and the insertion under the lock,
or `SET NX PX`), `Reply` (Redis's answer). A key set is a sequence of entries; `KeyMatches` and
`Candidates` are `_key_matches` and the loop of `_find_signing_key`, in which an entry that cannot be
made a key of is passed over and the first other match is final. The provider may answer each call
with another set, so keys may be exchanged while calls run. `env` is frozen at `Init`: is there a Redis
client, are the clients' clocks not ahead, do calls take no time. One specification therefore covers
eight deployments, and properties name the ones they need. Synced clocks only restrict who presents what, so `MCRegimes`
has them where `RedisOnce` asks for them; the two violated runs have all eight. `count` and `last` are histories of
recorded uses.

### DeviceFlow
`evaluate_device_poll` is a pure decision; what matters is how the row it reads comes to be. A poll
looks the row up (`Load`), decides with the time of its replica (`Evaluate`, whose `Decision` has the
order of the code: existence and client, expiry, interval, status), then notes the time, claims the
row, and answers (`Conclude`). The endpoint is the host's and is modelled as the docstrings and the
example in `CHANGELOG.md` have it; where they leave a choice `env` has both sides. In particular the
class says that `last_poll_at` is not updated after `SlowDown` (`device.py:131`), the function that it is
(`device.py:205`): `env.slowUpdates`. `env.claims` says whether the endpoint marks the row used when it
mints a token, which the package cannot enforce. A device is serial (one poll at a time) or not, polite
(waits for the interval after each answer) or not, prompt or not; its answers may be lost, other clients
may poll with the same code, and a replica's clock may be ahead by `env.skew`. `minted` and `prior` are
histories.

### Registration
One action per await of the handler: `Authorize`, `AskLimiter` to `Refuse`, `Parse` (body, type checks,
rewriters, defaults, validator), `Create`, `RunHooks`. The limiter is `MemoryRateLimiter`, instantiated
with the requests as its callers and the addresses as its keys; its accesses remain steps of their own, and
`Alone` keeps other requests out meanwhile, because the in-memory limiter never suspends the coroutine. The
registry may fail before or after it has stored (`MemoryClientRegistry` fails at neither), a hook may
fail, and any await may end the request (`Break`). `get_client_ip` answers with any address. The response is
`answer`: its status, the client it tells of, and the `Retry-After`.

### RedisRateLimiter and MemoryRateLimiter
The Redis module has one action per command, for one client id (keys are independent), shared by
all replicas' calls. `env.slack` is the time a call may take, `env.failures` says whether commands
fail. `promise` remembers what `get_retry_after` told a caller. The in-memory module has one action
per access to the dict; `Threaded = FALSE` lets a call start only when none is under way and time
pass only between calls, which is the event loop.

## 3. Runs

| Run | Checks | Shows |
|---|---|---|
| `pg_storage` | `TypeOK`, `DropsOnlyExpired`, `RevokeComplete`, `LoadAnswerWasTrue`, `Contract` | the backend implements the contract while no token is stored twice and no migration runs beside the calls |
| `pg_liveness` | `RevokeComplete`, `EveryCallReturns` | every call ends, also with one connection, reissued tokens and a migration; the revoke stays complete |
| `memory_storage` | `TypeOK`, `EmptyUnlessInitialized`, `ServedToTheSecond`, `Contract` | the backend implements the contract and truncation costs less than a second |
| `jwt` | `TypeOK`, `RedisOnce`, `CacheBounded`, `UniqueWhileValid`, `ReplayVerdictJustified`, `NamedKeyIsFound` | the replay cache with dict or Redis, calls prompt or slow, clocks ahead or not, and the choice of the key while keys are exchanged |
| `device` | `TypeOK`, `PoliteKeepsPace`, `TokensBounded`, `Served` | polls of one code against the user, other clients, lost answers and replicas |
| `registration` | `TypeOK`, `AnsweredAsStored`, `ClientsPaced`, `RefusedJustly` | handler, limiter, registry and hooks together, each failing |
| `redis_limiter` | `TypeOK`, `SetBounded`, `AdmittedRemembered`, `KeyNeverLeaks`, `PromiseKept` | the limiter's bound, memory and promise, with failures or with delays |
| `memory_limiter` | `TypeOK`, `NeverOverLimit`, `PromiseKept`, `IdleKeysGo` | the limiter in an event loop |
| `pg_reissue` | `DropsOnlyExpired`, violated | a load can delete a record stored after its SELECT |
| `jwt_memory_cache` | `MemoryOnce`, violated | the dict forgets a jti at `exp`, acceptance lasts `exp` + 60 s |
| `jwt_clock_ahead` | `AgeCheckTakesOver`, violated | the capped key of an assertion dated ahead ends before the age check takes over |
| `memory_threads` | `TwiceTheLimit`, violated | threads overwrite each other's lists |

The four violated runs check what a docstring, a comment or a test says; `PROJECT.json` quotes it
under `findings`.

Some safety results are conditional, and the condition is the point. `Contract` and
`DropsOnlyExpired` hold of the PostgreSQL backend only while no token value is stored twice
(`Reissue = FALSE`): hosts generate tokens at random, so that is the normal case; storing a
token anew, which `ON CONFLICT DO UPDATE` supports, is the case `pg_reissue` refutes. `Contract`
also needs that the refresh table is not created beside running calls: a revoke that did not see
the table removes the access tokens only, which is complete (nothing else was there when it began)
but not one instant for both tables. `RedisOnce` needs prompt calls and no client clock ahead.
The limiter over Redis is checked with calls that take up to a second, the margin between the window and the time to live
(`expire(key, window_seconds + 1)`): a call that takes longer can find its key gone between ZADD and EXPIRE. `TokensBounded`
promises one token per code only if the endpoint claims the row; without that, the interval alone bounds the tokens, and
only for a device with one poll at a time. `Served` is promised to a device that polls too fast only under the class's rule for
`last_poll_at`: under the function's every early poll renews the wait, and a device that never waits is told to slow down until the code expires.

### Bounds
- Storage: two tasks, one token value per table, one or two clients, one connection, clock 0–1.
  Records interact only through their token, their client and their expiry, so the races need two
  calls on one token or one client, and an expiry that passes between them. Two tasks and one
  connection already give a full pool with a caller queued.
- In-memory storage: two ticks per second, so that a fraction of a second exists; expiries 0 and 1
  and a clock to 4 let a record go through its last second and the next.
- JWT: leeway 2, lifetime 1, sweep interval 1, clock 0–5. The leeway is the longer of the first two
  so that the interval between `exp` and the end of acceptance spans a sweep; the ratios of the code
  (60, 300, 60) add only quiet time between. One assertion is short and names a new key, one is dated ahead,
  lives past the cap and names none; two are forged with the jti of the first, one of them with a symmetric
  algorithm. The key sets are those before, during and after an exchange of keys, with an entry for encryption, one of
  another type and an unreadable one under the new key's `kid`. The clock's end lies after every window.
- Device: interval 2, lifetime 4, clock to 6: three polls in pace, the last of them at `expires_at`, and time after it.
  Two polls of the device, so that they may overlap, and one of a stranger. `MCRegimes` names the deployments.
- Registration: three requests, two addresses, limit 1, window of one second in two ticks, clock to 3: a refusal,
  two full windows, and requests held up from one window to the next. Three bodies: malformed, one for a
  machine client with default URIs, one whose rewriting adds a URI the validator refuses. One hook: hooks do not
  see each other.
- Rate limiters: limit 2, window of one second, two ticks per second, clock to 7 or 8 (three windows,
  and more than window + 1, the time to live). Three calls is one more than the limit, so that
  over-admission happens; four suffixes leave a fresh one for every member of one instant.
- Violated runs use the smallest instance that shows the behaviour.

Symmetry is used for tasks, clients, suffixes, requests and addresses, never in a run with a liveness property. Deadlock is
checked in every run but `device` and `registration`, which stop when the clock has run out and every poll or request has ended.

### Fairness
`pg_liveness`: each statement ends (`WF` of `Step`): the server answers or `command_timeout=30` ends the call, and the event
loop resumes the coroutine. A queued caller is eventually served (`SF` of `Acquire \/ AcquireFails`): asyncpg hands
connections to waiters in the order in which they queued. Nothing is assumed of `Initialize`, `BeginClose`, failures or new calls.

`device`: time passes (`WF` of `Tick`), a device that has had no final answer polls again (`WF` of `Load`), and its calls
end (`WF` of `Evaluate` and `Conclude`), for the device's own polls only. Nothing is assumed of the user or of strangers, so
`Served` says that the device gets *an* answer to stop at, and its token if the user has approved an interval before the end.
It is claimed of prompt devices that lose no answer: a lost answer may be the last one the code had to give.

## 4. Properties worth reading

- `LoadAnswerWasTrue` (with the history `witness` of `MCPostgresTokenStorage`): the SELECT, the
  comparison with the time and the answer are three moments; what is answered was true at one instant
  of the call.
- `RevokeComplete`: relates the rows at the beginning of a revoke to those after its statement, through
  a table check that may be out of date.
- `Contract`: refinement. `Outstanding` maps a call to "may still take effect", so `Land` after a
  raised call must match the effect of that one call.
- `UniqueWhileValid`, `RedisOnce`: relate uses to the cache's deadlines and to four clock readings.
- `AdmittedRemembered`: trimming by calls with old and new times, and the key's time to live, never
  remove a member that counts.
- `PromiseKept`: rounding, on a promise made by one call and relied on by a later one.
- `NamedKeyIsFound`: the first match is final, and still no other entry hides the key that is named.
- `PoliteKeepsPace`: what the device may count on, across overlapping calls of others, either rule for `last_poll_at`, and
  replicas whose clocks differ by up to the interval (told to slow down once, not twice in a row).
- `TokensBounded`: how often an answer that is given again and again becomes a token.
- `AnsweredAsStored`: relates every response to the registry, through rewriting, failures after storing, and hooks.
- `ClientsPaced`: the limiter counts requests when they pass it, clients are stored much later.
- `RefusedJustly`: nobody is refused on account of requests that were themselves turned away.
- `IdleKeysGo`: the throttled sweep, whose comparison differs from the filter's at the boundary.

## 5. Proofs

Every safety invariant, action property and refinement that a passing run checks is also a theorem, for every value of the
constants. The assumptions are the named `ASSUME`s on the constants, which TLC evaluates in the runs; a theorem that needs more
says so in the table. The rate limiters and the registration need more of the constants than the other modules, all of
it about kinds and signs: limits, windows and ticks are positive, callers and suffixes are finite sets (Redis limiter only, whose
bound counts the callers), and `None` is not a time, an address, a body or an answer.

| Theorem | States | By |
|---|---|---|
| `PostgresTokenStorage_proofs!TypeCorrect` | `[]TypeOK` | `TypeInv`: `TypeOK` and `Shape`, which ties `pc` to the kind of request (only a load judges and drops, only a revoke checks) |
| `RevokeIsComplete` | `[]RevokeComplete` | `RevokeInv` |
| `PostgresContract_proofs!DropsAreExpired` | `~Reissue => (Spec => []DropsOnlyExpired)` | `DropInv` |
| `LoadsAreTruthful` | `~Reissue => (MCSpec => []LoadAnswerWasTrue)` | `DropInv`, `Truthful` |
| `ImplementsContract` | `~Reissue /\ ~MigrateOnline => (Spec => Contract)` | `StepSimulation` |
| `MemoryTokenStorage_proofs!TypeCorrect` | `[]TypeOK` | itself |
| `ClosedIsEmpty` | `[]EmptyUnlessInitialized` | itself |
| `ServesToTheSecond` | `Spec => ServedToTheSecond` | `TypeOK`, division |
| `ImplementsContract` | `Spec => Contract` | `ServeIsEffect` |
| `JWTClientAuthenticator_proofs!TypeCorrect` | `[]TypeOK` | `Inv`: types and `CallShape` |
| `ReplayVerdictsAreJustified` | `Spec => ReplayVerdictJustified` | `Witnessed` |
| `NamedKeysAreFound` | `Spec => NamedKeyIsFound` | `Inv`, `KidAssumption` |
| `UsesAreUniqueWhileValid` | `Spec => UniqueWhileValid` | `Covered` |
| `RedisUsesOnce` | `Spec => []RedisOnce` | `OnTime`, `Spent` |
| `CacheStaysBounded` | `Spec => []CacheBounded` | `Capped`, `Tidy` |
| `DeviceFlow_proofs!TypeCorrect` | `[]TypeOK` | `Inv`: types and the shape of a poll under way |
| `PoliteDevicesKeepPace` | `Spec => []PoliteKeepsPace` | `OneAtATime`, `Pace` |
| `TokensAreBounded` | `Spec => []TokensBounded` | `OneAtATime`, `Minted` |
| `RedisRateLimiter_proofs!TypeCorrect` | `[]TypeOK` | `Inv`: types and `Timely` (no time read or recorded lies ahead) |
| `KeysAreTended` | `[]KeyNeverLeaks` | itself, with `Inv` |
| `SetStaysBounded` | `[]SetBounded` | `RoomLeft` |
| `PromisesAreKept` | `[]PromiseKept` | itself, with `Inv` |
| `AdmissionsAreRemembered` | `[]AdmittedRemembered`, if every regime is `Steadily` | `Remembering` |
| `MemoryRateLimiter_proofs!TypeCorrect` | `[]TypeOK`, with threads too | `Inv`: types and `Shape` |
| `LimitIsNeverExceeded` | `~Threaded`: `[]NeverOverLimit` | `Calm`, `Bounded`, `Counted` |
| `PromisesAreKept` | `~Threaded`: `[]PromiseKept` | `Calm`, `Bounded` |
| `IdleKeysAreDropped` | `~Threaded`: `[]IdleKeysGo` | `Calm`, `Lively` |
| `Registration_proofs!TypeCorrect` | `[]TypeOK` | `Places`, `Judging`, `Records` |
| `ClientsAreAsAnswered` | `[]AnsweredAsStored` | `Records` |
| `RefusalsAreJust` | `[]RefusedJustly` | `Tally` |
| `ClientsAreFew` | `[]ClientsPaced` | `Tally`, `Paced` |

**Revoke.** `RevokeComplete` is not inductive: it says nothing of a revoke that has not run. `RevokeInv`
adds that without the refresh table there are no refresh rows and nobody owes any, and that a revoke about to
run (or whose statement is adrift) that saw no refresh table owes no refresh row for good, even if the table
exists by now. Every step but `Begin` at most *erodes* what is owed (`Erodes`): some pairs are struck from
`owed` because a token is stored anew, the rows of the others stay as they were or go.

**Dropping.** An expired row stays expired, since the clock does not run back; it can be replaced only
by a store, and `~Reissue` makes the store of a token a thing of the past (`issued`) by the time it has
been read. `DropInv` states
this for every place a load can be at from its SELECT on: a token whose one store has been applied is *settled*,
and the row of a settled token can only disappear.

**Loads.** `Truthful` says at each await what has been witnessed: the row that was read, or, if that has expired since, the
absence of it that the load will answer with. It has expired before the answer is chosen and cannot come back (`DropInv`), so that
the instant in which the clock passed its expiry was one of the call's.

**Contract.** Each step of the backend is matched with one action of `TokenStorage` or a stutter: `Begin`
with `Ask`, `Run`, `Land` and `Drop` with `Effect`, a raising step with `Finish` (`RaiseIsFinish`), and all
waiting, checking and releasing with a stutter. A drop needs `DropInv`; a revoke that did not see the refresh
table needs that there is none (`QuietInv`), which is where `~MigrateOnline` enters.

The in-memory storage takes no condition: a method is one step, and it is the abstract effect with the time in whole seconds,
because both sides compare the same truncated time (`ServeIsEffect`).

**Replay.** `Witnessed`: for every jti in the cache a genuine assertion has been recorded. `Covered`: what has been
recorded is in the cache, to a deadline no earlier than the lesser of `exp` and the time it was recorded plus
`MaxTTL`, or that has passed. For `RedisOnce`, `OnTime` says that in a prompt deployment the time a working call holds is the
present, and that an assertion about to be recorded is inside its window; `Spent` says that a recorded assertion is outside its window for good, or its key lives until the leeway after `exp` or the end of the age window;
`KeyOutlivesWindow` and `UnseenIsClosed` then show that whoever finds no key fails one of the checks of the time.

**Keys.** `KidAssumption` is what a provider owes: of the entries of one key set that can be read and may sign, no two of one
type share a `kid` and differ. The entries that match a named `kid` then hold the same key, so that it does not matter which is first.

**Size of the cache.** `CacheBounded` says what a recording call finds; that is true because of what its sweep did a moment
before. `Tidy` adds that a call about to record has swept, or found a sweep, less than an interval ago, and that every entry is
younger than the last sweep by all but the leeway, which an assertion recorded after its `exp` may lack.

**Device flow.** `OneAtATime`: a serial device has one poll under way, whose copy of the row has the row's time, since nobody
else's poll writes it. `Pace` then relates the time noted to the time at which the device polls next, on which the difference
of clocks enters once; after a `slow_down` the next poll is due an interval after the time noted whatever the difference. `Minted`
counts intervals: every token but the first was decided an interval after the one before, and the last no later than the end.
The assumption that clocks differ by no more than the interval is part of `FlowAssumption`.

**Rate limiter over Redis.** `SetBounded` counts members, but what ZADD adds was decided at ZCARD: `RoomLeft` counts the members
and the callers about to add together, and only `Card` can raise that number, when it saw room. `Remembering` is about the race of
the key's time to live with EXPIRE. While nothing fails (`Tended`) every member outlives its window or belongs to a call that is about to send
EXPIRE, and a call past its trimming ends before the key does, or another is about to prolong it; `AdmittedOutlived` and
`AddedStays` say what follows for those let through and those about to be. The hypothesis `Steadily` (calls take at most the
second by which the time to live exceeds the window, and calls that may fail take no time) cannot be dropped: with slow calls that may also fail,
TLC finds a call that fails after ZADD, whose member outlives its key's time to live, and a slow call that trims, adds beside that member, and sends
EXPIRE to a key that has gone; it lets a request through that nothing remembers. `SetBounded`, `KeyNeverLeaks`, `PromiseKept` and the types need no such condition.

**Rate limiter in memory.** `Calm` is the event loop: one call is under way, at the present time, and what it found out (the stale
keys, the list it read) still holds when it acts on it (`Ready`). This is what threads break, so that the theorems but the first assume `~Threaded`,
and `memory_threads` shows one of them false without. `Bounded`: no list is longer than the limit. `Counted`: whoever was let
through in the last window is in the list; the two together bound what is let through. `Lively`: every key has a request that was not idle
at the last sweep, or is in the hands of the call; with a sweep at most a window ago (`Ready`) that is two windows.

**Registration.** The handler's module is a composition, and so is its proof: `Proved` instantiates `MemoryRateLimiter_proofs` with the same
substitution as the handler's limiter, with whose actions its own are equal (`SameSteps`). `LimiterSteps` shows that every step of the handler is a
step of that limiter or leaves it alone, and what was proved of the limiter alone carries over (`Judging`). `Places` says where a
request is: at most one is with the limiter, and what the handler and the limiter know of it agrees. `Records` says, for each stage of
a request, which clients are stored for it; a registry that fails after storing is why the 500 has a case of its own. `Tally`: the
requests made so far are finitely many, those that passed the limiter are at least as many as its list has entries, and whoever is denied found
the list full. For `ClientsPaced` the list is not enough, since it forgets: `Paced` bounds all that ever passed by the limit times the
whole windows behind and those that came in since the last one began (`Late`), all of whom the list still has. The clients of an IP then map one to one
to requests that passed.

Only model-checked: liveness (`EveryCallReturns`, `Served`; neither fairness nor ENABLED is within the provers' reach) and the
violated properties, which are refuted and not proved.

## 6. Seeded faults

Every property of a passing run has a mutant in `PROJECT.json`: a definition with a plausible bug beside the one it
replaces (its comment begins "a seeded fault"), with which TLC finds that property violated.

## 7. Plan

Done: the storage contract and both backends, client authentication with key selection, both limiters, the device flow, registration
with its limiter. Next:

1. Proofs: the bound that does hold of threads in the in-memory limiter, where every thread may have read the list before the
   first store, as a property of its own.
2. `AuthServer`: the example endpoints of the repository's `README.md` as one system of limiter, storage and introspection; what
   they add to the modules above is the host's, which is why they come last.
3. A limiter with a clock that may step back: it needs bounds of its own, the code states none.

## 8. Not modelled

`cors.py` and all of `responses.py` but the answers to a registration format headers and JSON. `validation.py` and `pkce.py` are
stateless predicates that the host calls; nothing in the package depends on the order or the time of those calls. Of `device.py`, the
generation and normalisation of codes and the verification URI are formatting. The exception modules and package exports hold no
behaviour. Cryptography is taken to work: `hash_token` is injective, device codes are not guessed, and a signature verifies with its
signer's key and no other. Log lines, returned counts, and record fields that nobody reads are left out. `_verify_schema`'s comparison of
columns is left out, its effect on the pool is not. With a limiter over Redis instead of the one in memory the registration handler would be
suspended inside it; `RedisRateLimiter` models such calls by themselves.
