-------------------------- MODULE DeviceFlow_proofs --------------------------
(***************************************************************************)
(* Proofs about DeviceFlow, for any polls, lifetime and interval, and any  *)
(* deployments whose clocks differ by at most the interval.                *)
(***************************************************************************)
EXTENDS DeviceFlow, TLAPS

-----------------------------------------------------------------------------
(* Types, and what each place in a poll says of its locals.                *)

Busy(p) == pc[p] # "idle"

\* A decision is the one for the row and the time it was made with, and a row that was
\* looked up approved is approved still, or used.
Shape ==
    \A p \in Polls :
        /\ pc[p] = "decided" => verdict[p] = Decision(p, now[p]) /\ now[p] <= clock + env.skew
        /\ pc[p] # "decided" => verdict[p] = None
        /\ (Busy(p) /\ p \in Own) =>
               /\ seen[p] \in Rows
               /\ seen[p].status = "approved" => row.status \in {"approved", "used"}

Inv == TypeOK /\ Shape

LEMMA EnvType ==
    ASSUME env \in Regimes
    PROVE  /\ env \in Deployments /\ env.skew \in Nat /\ env.skew <= Interval
           /\ env.serial \in BOOLEAN /\ env.polite \in BOOLEAN
           /\ env.claims \in BOOLEAN /\ env.slowUpdates \in BOOLEAN
BY FlowAssumption DEF Deployments

\* What can be said of a decision from its name.
LEMMA Decisions ==
    ASSUME NEW p \in Polls, NEW t \in Int, seen[p] \in Rows \cup {None},
           p \in Own => seen[p] \in Rows
    PROVE  /\ Decision(p, t) \in Verdicts
           /\ p \notin Own => Decision(p, t) = "invalid_grant"
           /\ Decision(p, t) = "slow_down" => p \in Own /\ TooFast(seen[p], t)
           /\ Decision(p, t) = "approved" =>
                  /\ p \in Own /\ seen[p].status = "approved"
                  /\ ~Over(t) /\ ~TooFast(seen[p], t)
<1>1. Outcome["pending"] = "authorization_pending" /\ Outcome["denied"] = "access_denied"
      /\ Outcome["approved"] = "approved" /\ Outcome["used"] = "invalid_grant"
      /\ DOMAIN Outcome = {"pending", "denied", "approved", "used"}
    BY DEF Outcome
<1>2. p \in Own => seen[p].status \in DOMAIN Outcome
    BY DEF Rows
<1>3. Verdicts = {"authorization_pending", "access_denied", "approved", "invalid_grant",
                  "slow_down", "expired_token"}
    BY <1>1 DEF Verdicts
<1> QED BY <1>1, <1>2, <1>3 DEF Decision

\* The answer that is sent is the decision, unless the row has been used.
LEMMA Answers ==
    ASSUME Inv, NEW p \in Polls, pc[p] = "decided"
    PROVE  /\ verdict[p] = Decision(p, now[p]) /\ now[p] \in Nat
           /\ verdict[p] \in Verdicts /\ Answer(p) \in Verdicts
           /\ Answer(p) = "approved" => verdict[p] = "approved"
           /\ Answer(p) = "slow_down" <=> verdict[p] = "slow_down"
           /\ p \notin Own => verdict[p] = "invalid_grant" /\ Answer(p) = "invalid_grant"
           /\ verdict[p] = "slow_down" => p \in Own /\ TooFast(seen[p], now[p])
           /\ verdict[p] = "approved" =>
                  /\ p \in Own /\ seen[p].status = "approved"
                  /\ ~Over(now[p]) /\ ~TooFast(seen[p], now[p])
<1>1. /\ now[p] \in 0..(MaxClock + Interval) /\ seen[p] \in Rows \cup {None}
      /\ p \in Own => seen[p] \in Rows
      /\ verdict[p] = Decision(p, now[p])
    BY DEF Inv, TypeOK, Shape, Busy
<1>2. now[p] \in Nat
    BY <1>1, FlowAssumption
<1>3. "invalid_grant" \in Verdicts
    BY DEF Verdicts, Outcome
<1> QED BY <1>1, <1>2, <1>3, Decisions DEF Answer

LEMMA InvInit == Init => Inv
<1> SUFFICES ASSUME Init PROVE Inv
    OBVIOUS
<1>1. [status |-> "pending", last |-> None] \in Rows
    BY DEF Rows, Outcome
<1>2. row \in Rows /\ row.last = None
    BY <1>1 DEF Init
<1>3. /\ env \in Regimes /\ clock \in 0..MaxClock /\ due \in 0..(MaxClock + Interval)
      /\ minted \in Nat /\ prior \in Verdicts \cup {None}
    BY FlowAssumption DEF Init
<1>8. done \in BOOLEAN
    BY DEF Init
<1>5. /\ pc \in [Polls -> {"idle", "loaded", "decided"}]
      /\ seen \in [Polls -> Rows \cup {None}] /\ verdict \in [Polls -> Verdicts \cup {None}]
    BY DEF Init
<1>6. now \in [Polls -> 0..(MaxClock + Interval)]
    BY FlowAssumption DEF Init
<1>7. TypeOK
    BY <1>2, <1>3, <1>5, <1>6, <1>8 DEF TypeOK
<1>4. Shape
    BY DEF Init, Shape, Busy
<1> QED BY <1>4, <1>7 DEF Inv

\* What a poll that ends does to the row.
LEMMA RowAfter ==
    ASSUME Inv, NEW p \in Polls, Conclude(p)
    PROVE  /\ row' \in Rows
           /\ row'.last \in {row.last, now[p]}
           /\ row'.last # None => row'.last <= clock + env.skew
           /\ row'.status = row.status \/ (Answer(p) = "approved" /\ row'.status = "used")
<1>1. /\ row \in Rows /\ now[p] \in 0..(MaxClock + Interval)
      /\ row.last # None => row.last <= clock + env.skew
      /\ now[p] <= clock + env.skew
    BY DEF Inv, TypeOK, Shape, Conclude
<1>2. Noted(p) \in {row.last, now[p]}
    BY DEF Noted
<1>3. row' = [last |-> Noted(p), status |-> IF Answer(p) = "approved" /\ env.claims
                                           THEN "used" ELSE row.status]
    BY DEF Conclude
<1>4. row.status \in DOMAIN Outcome /\ "used" \in DOMAIN Outcome
      /\ row.last \in 0..(MaxClock + Interval) \cup {None}
    BY <1>1 DEF Rows, Outcome
<1> QED BY <1>1, <1>2, <1>3, <1>4 DEF Rows

LEMMA InvNext == Inv /\ [Next]_vars => Inv'
<1> SUFFICES ASSUME Inv, [Next]_vars PROVE Inv'
    OBVIOUS
<1> USE FlowAssumption DEF Inv, TypeOK
<1>e. env.skew \in Nat /\ env.skew <= Interval
    BY EnvType
<1>r. row.last # None => row.last \in Nat
    BY DEF Rows
<1>1. CASE Tick
    <2>1. clock' \in 0..MaxClock /\ (row.last # None => row.last <= clock' + env.skew)
        BY <1>1, <1>e, <1>r DEF Tick
    <2>3. TypeOK'
        BY <1>1, <2>1 DEF Tick, local, device
    <2>2. Shape'
        BY <1>1, <1>e DEF Tick, local, Shape, Busy, Decision
    <2> QED BY <2>2, <2>3
<1>2. ASSUME NEW status \in {"approved", "denied"}, Decide(status) PROVE Inv'
    <2>1. row' \in Rows /\ row'.last = row.last /\ row'.status = status
          /\ row.status = "pending"
        BY <1>2 DEF Decide, Rows, Outcome
    <2>2. TypeOK'
        BY <1>2, <2>1 DEF Decide, local, device
    <2>3. Shape'
        BY <1>2, <2>1 DEF Decide, local, Shape, Busy, Decision
    <2> QED BY <2>2, <2>3
<1>3. ASSUME NEW p \in Polls, Load(p) PROVE Inv'
    <2>1. /\ pc[p] = "idle" /\ pc' = [pc EXCEPT ![p] = "loaded"]
          /\ \E r \in {row, None} : seen' = [seen EXCEPT ![p] = r] /\ (p \in Own => r = row)
          /\ UNCHANGED <<env, clock, row, now, verdict, device, minted>>
        BY <1>3 DEF Load
    <2>2. TypeOK'
        BY <2>1 DEF device
    <2>3. Shape'
        <3> SUFFICES ASSUME NEW q \in Polls
                     PROVE  (/\ pc[q] = "decided" => /\ verdict[q] = Decision(q, now[q])
                                                     /\ now[q] <= clock + env.skew
                             /\ pc[q] # "decided" => verdict[q] = None
                             /\ (Busy(q) /\ q \in Own) =>
                                    /\ seen[q] \in Rows
                                    /\ seen[q].status = "approved" =>
                                           row.status \in {"approved", "used"})'
            BY DEF Shape
        <3>1. CASE q = p
            BY <2>1, <3>1 DEF Shape, Busy
        <3>2. CASE q # p
            BY <2>1, <3>2 DEF Shape, Busy, Decision
        <3> QED BY <3>1, <3>2
    <2> QED BY <2>2, <2>3
<1>4. ASSUME NEW p \in Polls, Evaluate(p) PROVE Inv'
    <2>1. PICK t \in {clock, clock + env.skew} :
              /\ now' = [now EXCEPT ![p] = t]
              /\ verdict' = [verdict EXCEPT ![p] = Decision(p, t)]
        BY <1>4 DEF Evaluate
    <2>2. /\ pc[p] = "loaded" /\ pc' = [pc EXCEPT ![p] = "decided"]
          /\ UNCHANGED <<env, clock, row, seen, device, minted>>
        BY <1>4 DEF Evaluate
    <2>3. t \in 0..(MaxClock + Interval) /\ t <= clock + env.skew
        BY <1>e
    <2>4. Decision(p, t) \in Verdicts
        BY <2>2, <2>3, Decisions DEF Shape, Busy
    <2>5. TypeOK'
        BY <2>1, <2>2, <2>3, <2>4 DEF device
    <2>6. Shape'
        BY <2>1, <2>2, <2>3 DEF Shape, Busy, Decision
    <2> QED BY <2>5, <2>6
<1>5. ASSUME NEW p \in Polls, Conclude(p) PROVE Inv'
    <2>1. /\ pc[p] = "decided" /\ pc' = [pc EXCEPT ![p] = "idle"]
          /\ seen' = [seen EXCEPT ![p] = None] /\ now' = [now EXCEPT ![p] = 0]
          /\ verdict' = [verdict EXCEPT ![p] = None] /\ UNCHANGED <<env, clock>>
          /\ minted' \in {minted, minted + 1}
        BY <1>5 DEF Conclude
    <2>2. due' \in 0..(MaxClock + Interval) /\ done' \in BOOLEAN /\ prior' \in Verdicts \cup {None}
        <3>1. CASE p \in Own
            <4>1. Answer(p) \in Verdicts
                BY <2>1, Answers
            <4>2. \E lost \in BOOLEAN : Receive(Answer(p), lost)
                BY <1>5, <3>1 DEF Conclude
            <4>3. PICK lost \in BOOLEAN : Receive(Answer(p), lost)
                BY <4>2
            <4> QED BY <4>1, <4>3, EnvType DEF Receive
        <3>2. CASE p \notin Own
            BY <1>5, <3>2 DEF Conclude, device
        <3> QED BY <3>1, <3>2
    <2>3. TypeOK'
        BY <1>5, <2>1, <2>2, RowAfter
    <2>4. Shape'
        BY <1>5, <2>1, RowAfter DEF Shape, Busy, Decision
    <2> QED BY <2>3, <2>4
<1>6. CASE UNCHANGED vars
    BY <1>6 DEF vars, local, device, Shape, Busy, Decision
<1> QED BY <1>1, <1>2, <1>3, <1>4, <1>5, <1>6 DEF Next

LEMMA InvHolds == Spec => []Inv
BY InvInit, InvNext, PTL DEF Spec

\* Every variable keeps to its type, and no poll is noted at a time still to come.
THEOREM TypeCorrect == Spec => []TypeOK
<1>1. Inv => TypeOK
    BY DEF Inv
<1> QED BY <1>1, InvHolds, PTL
-----------------------------------------------------------------------------
(* A device that has one poll at a time under way.                         *)

\* Only the device's own polls move the row's time.
OneAtATime ==
    env.serial =>
        /\ \A p, q \in Own : Busy(p) /\ Busy(q) => p = q
        /\ \A p \in Own :
              /\ Busy(p) => seen[p].last = row.last /\ due <= clock
              /\ (pc[p] = "decided" /\ row.last # None) => row.last <= now[p] + env.skew

\* Types that the steps below need.
LEMMA Numbers ==
    ASSUME Inv
    PROVE  /\ clock \in Nat /\ env.skew \in Nat /\ Interval \in Nat /\ Interval >= 1
           /\ env.skew <= Interval /\ due \in Nat /\ Lifetime \in Nat
           /\ row.last # None => row.last \in Nat /\ row.last <= clock + env.skew
           /\ \A p \in Polls : now[p] \in Nat
           /\ None \notin Int
BY FlowAssumption, EnvType DEF Inv, TypeOK, Rows

\* The ways in which a step of the device's own poll, or another, moves the row's time.
LEMMA NotedTime ==
    ASSUME Inv, NEW p \in Polls, Conclude(p)
    PROVE  /\ p \notin Own => row'.last = row.last
           /\ row'.last = now[p] \/ row'.last = row.last
           /\ verdict[p] = "slow_down" =>
                  row'.last = IF env.slowUpdates THEN now[p] ELSE row.last
           /\ verdict[p] = "approved" /\ Answer(p) = "approved" => row'.last = now[p]
<1>1. row'.last = Noted(p) /\ pc[p] = "decided"
    BY DEF Conclude
<1> QED BY <1>1, Answers DEF Noted

LEMMA OneAtATimeNext == Inv /\ OneAtATime /\ [Next]_vars => OneAtATime'
<1> SUFFICES ASSUME Inv, OneAtATime, [Next]_vars, env'.serial PROVE OneAtATime'
    BY DEF OneAtATime
<1>0. env' = env
    BY DEF Next, vars, Tick, Decide, Load, Evaluate, Conclude
<1>a. /\ \A p, q \in Own : Busy(p) /\ Busy(q) => p = q
      /\ \A p \in Own :
            /\ Busy(p) => seen[p].last = row.last /\ due <= clock
            /\ (pc[p] = "decided" /\ row.last # None) => row.last <= now[p] + env.skew
    BY <1>0 DEF OneAtATime
<1>b. /\ pc \in [Polls -> {"idle", "loaded", "decided"}]
      /\ now \in [Polls -> 0..(MaxClock + Interval)]
      /\ seen \in [Polls -> Rows \cup {None}] /\ Own \subseteq Polls
    BY DEF Inv, TypeOK, Polls
<1> USE <1>a, <1>b, Numbers DEF OneAtATime, Busy
<1>1. CASE Tick
    BY <1>1 DEF Tick, local, device
<1>2. ASSUME NEW status \in {"approved", "denied"}, Decide(status) PROVE OneAtATime'
    <2>1. row'.last = row.last
        BY <1>2 DEF Decide, Inv, TypeOK, Rows
    <2> QED BY <1>2, <2>1 DEF Decide, local, device
<1>3. ASSUME NEW p \in Polls, Load(p) PROVE OneAtATime'
    <2>1. /\ pc[p] = "idle" /\ pc' = [pc EXCEPT ![p] = "loaded"]
          /\ UNCHANGED <<env, clock, row, now, due>>
          /\ \E r \in Rows \cup {None} : seen' = [seen EXCEPT ![p] = r]
          /\ p \in Own => /\ seen' = [seen EXCEPT ![p] = row] /\ due <= clock
                          /\ \A q \in Own : pc[q] = "idle"
        <3>1. p \in Own => p \notin Strangers
            BY FlowAssumption
        <3> QED BY <1>0, <1>3, <3>1 DEF Load, DevicePolls, device, Inv, TypeOK
    <2>2. CASE p \in Own
        BY <2>1, <2>2
    <2>3. CASE p \notin Own
        BY <2>1, <2>3
    <2> QED BY <2>2, <2>3
<1>4. ASSUME NEW p \in Polls, Evaluate(p) PROVE OneAtATime'
    <2>1. PICK t \in {clock, clock + env.skew} : now' = [now EXCEPT ![p] = t]
        BY <1>4 DEF Evaluate
    <2>2. /\ pc[p] = "loaded" /\ pc' = [pc EXCEPT ![p] = "decided"]
          /\ UNCHANGED <<env, clock, row, seen, due>>
        BY <1>4 DEF Evaluate, device
    <2> QED BY <2>1, <2>2
<1>5. ASSUME NEW p \in Polls, Conclude(p) PROVE OneAtATime'
    <2>1. /\ pc[p] = "decided" /\ pc' = [pc EXCEPT ![p] = "idle"]
          /\ seen' = [seen EXCEPT ![p] = None] /\ now' = [now EXCEPT ![p] = 0]
          /\ UNCHANGED <<env, clock>>
        BY <1>5 DEF Conclude
    <2>2. CASE p \in Own
        <3>1. \A q \in Own : pc'[q] = "idle"
            BY <1>0, <2>1, <2>2
        <3> QED BY <3>1
    <2>3. CASE p \notin Own
        <3>1. row'.last = row.last /\ due' = due
            BY <1>5, <2>3, NotedTime DEF Conclude, device
        <3> QED BY <2>1, <2>3, <3>1
    <2> QED BY <2>2, <2>3
<1>6. CASE UNCHANGED vars
    BY <1>6 DEF vars, local, device
<1> QED BY <1>1, <1>2, <1>3, <1>4, <1>5, <1>6 DEF Next

-----------------------------------------------------------------------------
(* A device that waits for the interval after each answer.                 *)

\* The next poll is due an interval after the time that was noted, but for the clocks'
\* difference, and if it was told to slow down, in any case.
Pace ==
    (env.serial /\ env.polite) =>
        /\ row.last # None => row.last + Interval <= due + env.skew
        /\ (row.last # None /\ prior = "slow_down") => row.last + Interval <= due
        /\ \A p \in Own :
              pc[p] = "decided" =>
                  due <= now[p] /\ (now[p] <= clock \/ now[p] >= due + env.skew)

LEMMA PaceNext == Inv /\ OneAtATime /\ Pace /\ [Next]_vars => Pace'
<1> SUFFICES ASSUME Inv, OneAtATime, Pace, [Next]_vars, env'.serial, env'.polite PROVE Pace'
    BY DEF Pace
<1>0. env' = env
    BY DEF Next, vars, Tick, Decide, Load, Evaluate, Conclude
<1>a. /\ row.last # None => row.last + Interval <= due + env.skew
      /\ (row.last # None /\ prior = "slow_down") => row.last + Interval <= due
      /\ \A p \in Own :
            pc[p] = "decided" =>
                due <= now[p] /\ (now[p] <= clock \/ now[p] >= due + env.skew)
    BY <1>0 DEF Pace
<1>b. /\ pc \in [Polls -> {"idle", "loaded", "decided"}]
      /\ now \in [Polls -> 0..(MaxClock + Interval)]
      /\ Own \subseteq Polls
    BY DEF Inv, TypeOK, Polls
<1>c. /\ \A p, q \in Own : Busy(p) /\ Busy(q) => p = q
      /\ \A p \in Own : Busy(p) => seen[p].last = row.last /\ due <= clock
    BY <1>0 DEF OneAtATime
<1> USE <1>a, <1>b, Numbers DEF Pace
<1>1. CASE Tick
    BY <1>1 DEF Tick, local, device
<1>2. ASSUME NEW status \in {"approved", "denied"}, Decide(status) PROVE Pace'
    <2>1. row'.last = row.last
        BY <1>2 DEF Decide, Inv, TypeOK, Rows
    <2> QED BY <1>2, <2>1 DEF Decide, local, device
<1>3. ASSUME NEW p \in Polls, Load(p) PROVE Pace'
    <2>1. pc' = [pc EXCEPT ![p] = "loaded"] /\ UNCHANGED <<env, clock, row, now, due, prior>>
        BY <1>3 DEF Load, device
    <2> QED BY <2>1
<1>4. ASSUME NEW p \in Polls, Evaluate(p) PROVE Pace'
    <2>1. PICK t \in {clock, clock + env.skew} : now' = [now EXCEPT ![p] = t]
        BY <1>4 DEF Evaluate
    <2>2. /\ pc[p] = "loaded" /\ pc' = [pc EXCEPT ![p] = "decided"]
          /\ UNCHANGED <<env, clock, row, due, prior>>
        BY <1>4 DEF Evaluate, device
    <2>3. p \in Own => due <= clock
        BY <1>c, <2>2 DEF Busy
    <2> QED BY <2>1, <2>2, <2>3
<1>5. ASSUME NEW p \in Polls, Conclude(p) PROVE Pace'
    <2>1. /\ pc[p] = "decided" /\ pc' = [pc EXCEPT ![p] = "idle"]
          /\ now' = [now EXCEPT ![p] = 0] /\ UNCHANGED <<env, clock>>
        BY <1>5 DEF Conclude
    <2>2. CASE p \notin Own
        <3>1. row'.last = row.last /\ due' = due /\ prior' = prior
            BY <1>5, <2>2, NotedTime DEF Conclude, device
        <3> QED BY <2>1, <2>2, <3>1
    <2>3. CASE p \in Own
        <3>1. due' = clock + Interval /\ prior' = Answer(p)
            BY <1>0, <1>5, <2>3 DEF Conclude, Receive
        <3>2. /\ due <= clock /\ due <= now[p] /\ now[p] <= clock + env.skew
              /\ now[p] <= clock \/ now[p] >= due + env.skew
            BY <1>c, <2>1, <2>3 DEF Busy, Inv, Shape
        <3>3. row'.last # None => row'.last + Interval <= due' + env.skew
            BY <1>5, <3>1, <3>2, NotedTime
        <3>4. ASSUME prior' = "slow_down", row'.last # None
              PROVE  row'.last + Interval <= due'
            <4>1. verdict[p] = "slow_down"
                BY <2>1, <3>1, <3>4, Answers
            <4>2. TooFast(seen[p], now[p]) /\ seen[p].last = row.last
                BY <1>c, <2>1, <2>3, <4>1, Answers DEF Busy
            <4>3. row.last # None /\ now[p] - row.last < Interval
                BY <4>2 DEF TooFast
            <4>4. now[p] < due + env.skew
                BY <4>3
            <4>5. now[p] <= clock
                BY <3>2, <4>4
            <4> QED BY <1>5, <3>1, <3>2, <4>1, <4>3, <4>5, NotedTime
        <3>5. \A q \in Own : pc'[q] # "decided"
            BY <1>c, <2>1, <2>3 DEF Busy
        <3> QED BY <2>1, <3>3, <3>4, <3>5
    <2> QED BY <2>2, <2>3
<1>6. CASE UNCHANGED vars
    BY <1>6 DEF vars, local, device
<1> QED BY <1>1, <1>2, <1>3, <1>4, <1>5, <1>6 DEF Next

\* A device that keeps the interval is never told to slow down, or, with clocks that
\* differ, never twice in a row: for any interval, lifetime, and number of strangers.
THEOREM PoliteDevicesKeepPace == Spec => []PoliteKeepsPace
<1>1. Init => OneAtATime /\ Pace
    BY DEF Init, OneAtATime, Pace, Busy, Polls
<1>2. Inv /\ OneAtATime /\ Pace => PoliteKeepsPace
    <2> SUFFICES ASSUME Inv, OneAtATime, Pace, NEW p \in Own,
                        env.serial, env.polite, verdict[p] = "slow_down"
                 PROVE  env.skew > 0 /\ prior # "slow_down"
        BY DEF PoliteKeepsPace
    <2>1. p \in Polls /\ pc[p] = "decided"
        BY FlowAssumption DEF Polls, Inv, Shape
    <2>2. TooFast(seen[p], now[p]) /\ seen[p].last = row.last
        BY <2>1, Answers DEF OneAtATime, Busy
    <2>3. row.last # None /\ now[p] - row.last < Interval
        BY <2>2 DEF TooFast
    <2>4. /\ due <= now[p] /\ row.last + Interval <= due + env.skew
          /\ prior = "slow_down" => row.last + Interval <= due
        BY <2>1, <2>3 DEF Pace
    <2> QED BY <2>1, <2>3, <2>4, Numbers
<1> QED BY <1>1, <1>2, OneAtATimeNext, PaceNext, InvHolds, PTL DEF Spec
-----------------------------------------------------------------------------
(* Tokens.                                                                 *)

\* Tokens are minted of an approved code; one that is claimed is used from then on; and a
\* device with one poll at a time has let an interval pass between any two.
Minted ==
    /\ minted > 0 => row.status \in {"approved", "used"}
    /\ env.claims => minted <= 1 /\ (minted > 0 => row.status = "used")
    /\ (env.serial /\ env.skew = 0 /\ minted > 0) =>
          /\ row.last # None
          /\ (minted - 1) * Interval <= row.last
          /\ (minted - 1) * Interval <= Lifetime

LEMMA MintedNext == Inv /\ OneAtATime /\ Minted /\ [Next]_vars => Minted'
<1> SUFFICES ASSUME Inv, OneAtATime, Minted, [Next]_vars PROVE Minted'
    OBVIOUS
<1>a. /\ minted \in Nat /\ minted' \in Nat /\ env' = env
      /\ pc \in [Polls -> {"idle", "loaded", "decided"}] /\ Own \subseteq Polls
    BY InvNext DEF Inv, TypeOK, Polls, Next, vars, Tick, Decide, Load, Evaluate, Conclude
<1> USE <1>a, Numbers
<1>1. CASE UNCHANGED <<row, minted>>
    BY <1>1 DEF Minted
<1>2. ASSUME NEW status \in {"approved", "denied"}, Decide(status) PROVE Minted'
    <2>1. row.status = "pending" /\ minted' = minted
        BY <1>2 DEF Decide
    <2>2. ~(minted > 0)
        BY <2>1 DEF Minted
    <2> QED BY <2>1, <2>2 DEF Minted
<1>3. ASSUME NEW p \in Polls, Conclude(p) PROVE Minted'
    <2>1. /\ pc[p] = "decided" /\ row' \in Rows
          /\ minted' = minted + (IF Answer(p) = "approved" THEN 1 ELSE 0)
          /\ row'.status = IF Answer(p) = "approved" /\ env.claims THEN "used" ELSE row.status
        BY <1>3, RowAfter DEF Conclude
    <2>2. CASE Answer(p) = "approved"
        <3>1. /\ verdict[p] = "approved" /\ p \in Own /\ seen[p].status = "approved"
              /\ ~Over(now[p]) /\ ~TooFast(seen[p], now[p])
            BY <2>1, <2>2, Answers
        <3>2. row.status \in {"approved", "used"} /\ minted' = minted + 1
            BY <2>1, <2>2, <3>1 DEF Inv, Shape, Busy
        <3>3. env.claims => minted = 0
            BY <2>2, <3>1 DEF Answer, Minted
        <3>4. row'.last = now[p] /\ now[p] <= Lifetime
            BY <1>3, <2>2, <3>1, NotedTime DEF Over
        <3>5. ASSUME env.serial, env.skew = 0
              PROVE  /\ (minted' - 1) * Interval <= now[p]
                     /\ (minted' - 1) * Interval <= Lifetime
            <4>1. CASE minted = 0
                BY <3>2, <3>4, <4>1
            <4>2. CASE minted > 0
                <5>1. row.last # None /\ (minted - 1) * Interval <= row.last
                    BY <3>5, <4>2 DEF Minted
                <5>2. now[p] - row.last >= Interval
                    BY <2>1, <3>1, <3>5, <5>1 DEF OneAtATime, Busy, TooFast
                <5>3. (minted' - 1) * Interval = (minted - 1) * Interval + Interval
                    BY <3>2
                <5>4. (minted - 1) * Interval \in Int
                    OBVIOUS
                <5> QED BY <3>4, <5>1, <5>2, <5>3, <5>4
            <4> QED BY <4>1, <4>2
        <3> QED BY <2>1, <2>2, <3>2, <3>3, <3>4, <3>5 DEF Minted
    <2>3. CASE Answer(p) # "approved"
        <3>1. minted' = minted /\ row'.status = row.status
            BY <2>1, <2>3
        <3>2. ASSUME env.serial, env.skew = 0, row.last # None
              PROVE  row'.last # None /\ row.last <= row'.last
            BY <1>3, <2>1, <3>2, NotedTime DEF OneAtATime
        <3>3. (minted - 1) * Interval \in Int /\ (row'.last # None => row'.last \in Nat)
            BY <2>1 DEF Rows
        <3> QED BY <3>1, <3>2, <3>3 DEF Minted
    <2> QED BY <2>2, <2>3
<1> QED BY <1>1, <1>2, <1>3 DEF Next, Tick, Load, Evaluate, vars

\* A code yields one token if the endpoint claims it, and no more than one in an interval
\* if it does not but has one poll at a time: for any lifetime and interval.
THEOREM TokensAreBounded == Spec => []TokensBounded
<1>1. Init => OneAtATime /\ Minted
    BY DEF Init, OneAtATime, Minted, Busy, Polls
<1>2. Inv /\ Minted => TokensBounded
    <2> SUFFICES ASSUME Inv, Minted PROVE TokensBounded
        OBVIOUS
    <2>1. minted \in Nat
        BY DEF Inv, TypeOK
    <2>2. ASSUME minted = 0 PROVE (minted - 1) * Interval <= Lifetime
        <3>1. (minted - 1) * Interval = -Interval
            BY <2>2, Numbers
        <3> QED BY <3>1, Numbers
    <2>3. CASE minted = 0
        BY <2>2, <2>3 DEF Minted, TokensBounded
    <2>4. CASE minted > 0
        BY <2>4 DEF Minted, TokensBounded
    <2> QED BY <2>1, <2>3, <2>4
<1> QED BY <1>1, <1>2, OneAtATimeNext, MintedNext, InvHolds, PTL DEF Spec
=============================================================================
