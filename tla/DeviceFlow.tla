------------------------------ MODULE DeviceFlow -----------------------------
(***************************************************************************)
(* device.py: the polls of one device authorization.  The package decides  *)
(* each poll (evaluate_device_poll) from a row that its caller stores; the *)
(* token endpoint around it, the user and the device are external, and     *)
(* modelled as the module's documentation and the example in CHANGELOG.md  *)
(* describe them: look the row up, decide, note the poll, answer.          *)
(***************************************************************************)
EXTENDS Integers

CONSTANTS Own,        \* polls that the device may have under way at once
          Strangers,  \* polls of other clients, or with other device codes
          Lifetime,   \* expires_in
          Interval,   \* interval
          Regimes,    \* the deployments considered, see env
          None,       \* "no row", "no time", "no verdict"
          MaxClock    \* bound on the clock

Deployments ==
    [serial : BOOLEAN,       \* does the device wait for each answer before it polls again,
     polite : BOOLEAN,       \*   and then for the interval?
     prompt : BOOLEAN,       \* do its calls take no time, and does it poll when it may?
     lossy : BOOLEAN,        \* may answers be lost?
     strangers : BOOLEAN,   \* do others poll as well?
     skew : Nat,             \* how far may the clocks of two replicas differ?
     claims : BOOLEAN,       \* does the endpoint mark the row used when it mints a token?
     slowUpdates : BOOLEAN]  \* is last_poll_at updated after SLOW_DOWN too (as the function's
                             \*   docstring says), or not (as the record's says)?

ASSUME FlowAssumption ==
    /\ Own \cap Strangers = {}
    /\ Lifetime \in Nat /\ Interval \in Nat \ {0} /\ MaxClock \in Nat
    /\ Regimes \subseteq Deployments
    /\ \A d \in Regimes : d.skew <= Interval
    /\ None \notin Int /\ None # "slow_down"

VARIABLES
    env,      \* the deployment
    clock,
    row,      \* the DeviceCodeRecord: .status and .last, that is, last_poll_at
    pc,
    seen,     \* seen[p]: the row that p's lookup returned
    now,      \* now[p]: the time at which p was decided
    verdict,  \* verdict[p]: the decision
    due,      \* when the device polls next
    done,     \* has it had an answer that ends its polling?
    prior,    \* history: the verdict on its last poll
    minted    \* history: how many tokens the code has yielded

local == <<pc, seen, now, verdict>>
device == <<due, done, prior>>
vars == <<env, clock, row, local, device, minted>>

Polls == Own \cup Strangers

\* _STATUS_TO_DECISION_KIND; a status it does not have is an invalid grant.
Outcome == [pending |-> "authorization_pending", denied |-> "access_denied",
            approved |-> "approved", used |-> "invalid_grant"]

Verdicts == {Outcome[s] : s \in DOMAIN Outcome} \cup {"slow_down", "expired_token"}
Final == Verdicts \ {"authorization_pending", "slow_down"}

Rows == [status : DOMAIN Outcome, last : 0..(MaxClock + Interval) \cup {None}]

TypeOK ==
    /\ env \in Regimes
    /\ clock \in 0..MaxClock
    /\ row \in Rows
    /\ row.last # None => row.last <= clock + env.skew
    /\ pc \in [Polls -> {"idle", "loaded", "decided"}]
    /\ seen \in [Polls -> Rows \cup {None}]
    /\ now \in [Polls -> 0..(MaxClock + Interval)]
    /\ verdict \in [Polls -> Verdicts \cup {None}]
    /\ due \in 0..(MaxClock + Interval)
    /\ done \in BOOLEAN
    /\ prior \in Verdicts \cup {None}
    /\ minted \in Nat

\* The device authorization response has been sent: the row is stored.
Init ==
    /\ env \in Regimes
    /\ clock = 0
    /\ row = [status |-> "pending", last |-> None]
    /\ pc = [p \in Polls |-> "idle"]
    /\ seen = [p \in Polls |-> None]
    /\ now = [p \in Polls |-> 0]
    /\ verdict = [p \in Polls |-> None]
    /\ due = 0
    /\ done = FALSE
    /\ prior = None
    /\ minted = 0

-----------------------------------------------------------------------------
(* The token endpoint.                                                     *)

\* The device polls until it has had a final answer.
DevicePolls ==
    /\ ~done
    /\ env.serial => (clock >= due /\ \A p \in Own : pc[p] = "idle")

\* store.lookup_by_device_code(); a stranger may know the device code or not.
Load(p) ==
    /\ pc[p] = "idle"
    /\ \/ p \in Own /\ DevicePolls /\ seen' = [seen EXCEPT ![p] = row]
       \/ p \in Strangers /\ env.strangers /\ \E r \in {row, None} : seen' = [seen EXCEPT ![p] = r]
    /\ pc' = [pc EXCEPT ![p] = "loaded"]
    /\ UNCHANGED <<env, clock, row, now, verdict, device, minted>>

TooFastEager(r, t) ==  \* a seeded fault: at the end of the interval it is still too early
    r.last # None /\ t - r.last <= Interval
TooFastPending(r, t) ==  \* a seeded fault: the interval is enforced of pending codes only
    r.last # None /\ t - r.last < Interval /\ r.status = "pending"
TooFast(r, t) == r.last # None /\ t - r.last < Interval

OverEarly(t) == Lifetime <= t  \* a seeded fault: expired at expires_at, not after it
Over(t) == Lifetime < t

DecisionAsIs(p, t) ==  \* a seeded fault: a status that is not known is passed on
    IF seen[p] = None \/ p \notin Own THEN "invalid_grant"
    ELSE IF Over(t) THEN "expired_token"
    ELSE IF TooFast(seen[p], t) THEN "slow_down"
    ELSE IF seen[p].status = "used" THEN "used" ELSE Outcome[seen[p].status]

\* evaluate_device_poll(): existence and client, then expiry, then the interval, then
\* the status, all from the row as it was looked up.
Decision(p, t) ==
    IF seen[p] = None \/ p \notin Own THEN "invalid_grant"
    ELSE IF Over(t) THEN "expired_token"
    ELSE IF TooFast(seen[p], t) THEN "slow_down"
    ELSE Outcome[seen[p].status]

\* The lookup has returned; the time is read, on whichever replica this is.
Evaluate(p) ==
    /\ pc[p] = "loaded"
    /\ pc' = [pc EXCEPT ![p] = "decided"]
    /\ \E t \in {clock, clock + env.skew} :
          /\ now' = [now EXCEPT ![p] = t]
          /\ verdict' = [verdict EXCEPT ![p] = Decision(p, t)]
    /\ UNCHANGED <<env, clock, row, seen, device, minted>>

\* A row marked used in the meantime yields nothing.
Answer(p) ==
    IF verdict[p] = "approved" /\ env.claims /\ row.status = "used"
    THEN "invalid_grant" ELSE verdict[p]

\* last_poll_at, after a decision that it is to be updated after.
Noted(p) ==
    IF verdict[p] = "invalid_grant" \/ (verdict[p] = "slow_down" /\ ~env.slowUpdates)
    THEN row.last ELSE now[p]

\* The device has the answer, or gives the call up; it polls again after a while.
Receive(answer, lost) ==
    /\ prior' = answer
    /\ due' = IF env.serial THEN clock + (IF env.polite THEN Interval ELSE 1) ELSE 0
    /\ done' = (done \/ (answer \in Final /\ ~lost))

\* The row is updated, a token minted, and the answer sent.
Conclude(p) ==
    /\ pc[p] = "decided"
    /\ row' = [last |-> Noted(p),
               status |-> IF Answer(p) = "approved" /\ env.claims THEN "used" ELSE row.status]
    /\ minted' = minted + (IF Answer(p) = "approved" THEN 1 ELSE 0)
    /\ IF p \in Own
       THEN Receive(Answer(p), FALSE) \/ (env.lossy /\ Receive(Answer(p), TRUE))
       ELSE UNCHANGED device
    /\ pc' = [pc EXCEPT ![p] = "idle"]
    /\ seen' = [seen EXCEPT ![p] = None]
    /\ now' = [now EXCEPT ![p] = 0]
    /\ verdict' = [verdict EXCEPT ![p] = None]
    /\ UNCHANGED <<env, clock>>

-----------------------------------------------------------------------------
(* The user, at the verification URI, and the time.                        *)

\* The user entered the user code and approves or denies, once and in time.
Decide(status) ==
    /\ row.status = "pending" /\ ~Over(clock)
    /\ row' = [row EXCEPT !.status = status]
    /\ UNCHANGED <<env, clock, local, device, minted>>

Tick ==
    /\ clock < MaxClock
    /\ env.prompt => (\A p \in Own : pc[p] = "idle") /\ (done \/ clock < due)
    /\ clock' = clock + 1
    /\ UNCHANGED <<env, row, local, device, minted>>

Next ==
    \/ Tick
    \/ Decide("approved") \/ Decide("denied")
    \/ \E p \in Polls : Load(p) \/ Evaluate(p) \/ Conclude(p)

\* A device that polls goes on polling; the endpoint's awaits end.
Fairness ==
    /\ WF_vars(Tick)
    /\ \A p \in Own : WF_vars(Load(p)) /\ WF_vars(Evaluate(p)) /\ WF_vars(Conclude(p))

Spec == Init /\ [][Next]_vars /\ Fairness

-----------------------------------------------------------------------------
(* Properties.                                                             *)

\* A device that waits for each answer, and then for the interval, is never told to slow
\* down: not on account of what others poll, how long its calls take, or which update
\* rule is followed.  When the replicas' clocks differ by up to the interval it may be, but
\* not twice in a row.
PoliteKeepsPace ==
    \A p \in Own :
        (env.serial /\ env.polite /\ verdict[p] = "slow_down") =>
            env.skew > 0 /\ prior # "slow_down"

\* The decision answers APPROVED again and again.  An endpoint that marks the row used
\* mints one token however polls overlap; one that does not, but has one poll at a time,
\* mints at most one in an interval.  In any case the user has approved.
TokensBounded ==
    /\ env.claims => minted <= 1
    /\ (env.serial /\ env.skew = 0) => (minted - 1) * Interval <= Lifetime
    /\ minted > 0 => row.status \in {"approved", "used"}

\* A device that keeps polling gets its token when the user has approved an interval
\* before the end, and in any case an answer to stop at.  One that polls too fast does if
\* SLOW_DOWN does not renew the wait.
Served ==
    LET fair == env.serial /\ env.prompt /\ ~env.lossy /\ (env.polite \/ ~env.slowUpdates)
    IN  /\ (fair /\ ~done) ~> done
        /\ (fair /\ env.skew = 0 /\ row.status = "approved" /\ clock + Interval <= Lifetime)
               ~> (done /\ minted = 1)
=============================================================================
