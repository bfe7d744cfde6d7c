----------------------------- MODULE GateProofs -----------------------------
(***************************************************************************)
(* The gate keeps its types, and the half-open probe is never lost when    *)
(* cached answers do not outlive the breaker's cooldown, for any number of *)
(* calls, URLs and attempts.                                               *)
(***************************************************************************)
EXTENDS Gate, TLAPS

\* A call that has yet to report to the breaker.
reports(c) == call[c].at \in {"allowed", "queued", "wire"}

\* While the service is shut nothing is stored, so the answers in the cache age
\* with the breaker and are stale once it has cooled.
Stale(k) == age[k] = TTL

CacheOK ==
    /\ breaker.state = "open" =>
          \A k \in Keys : age[k] >= breaker.opened_for \/ Stale(k)
    /\ breaker.state = "half_open" => \A k \in Keys : Stale(k)

\* The probe is free while the breaker is open, and has its owner later.
ProbeOK ==
    /\ breaker.state = "open" => ~breaker.probe_in_flight
    /\ ProbeHasOwner

GInv == TypeOK /\ CacheOK /\ ProbeOK

\* The breaker's four operations return a breaker.
LEMMA BreakerType ==
    ASSUME NEW b \in Breaker
    PROVE  /\ check(b) \in Breaker /\ peek(b) \in Breaker
           /\ on_success(b) \in Breaker /\ on_failure(b) \in Breaker
<1>1. check(b) \in Breaker /\ peek(b) \in Breaker
  BY DEF check, peek, Breaker
<1>2. on_success(b) \in Breaker
  BY GateAssumption DEF on_success, Breaker
<1>3. on_failure(b) \in Breaker
  <2>1. b.failures \in 0 .. Threshold
    BY DEF Breaker
  <2>2. CASE b.state = "half_open" \/ b.failures + 1 >= Threshold
    BY <2>2, GateAssumption DEF on_failure, Breaker
  <2>3. CASE ~ (b.state = "half_open" \/ b.failures + 1 >= Threshold)
    <3>1. b.failures + 1 \in 0 .. Threshold /\ b.failures + 1 # Threshold
      BY <2>1, <2>3, GateAssumption
    <3>2. on_failure(b) = [b EXCEPT !.failures = b.failures + 1,
                                    !.probe_in_flight = FALSE]
      BY <2>3, <3>1 DEF on_failure
    <3> QED
      BY <3>1, <3>2 DEF Breaker
  <2> QED
    BY <2>2, <2>3
<1> QED
  BY <1>1, <1>2, <1>3

\* A failure opens the breaker, or leaves it closed with one more to its name;
\* either way nobody holds the probe.
LEMMA AfterFailure ==
    ASSUME NEW b \in Breaker
    PROVE  /\ ~on_failure(b).probe_in_flight
           /\ \/ on_failure(b).state = "open" /\ on_failure(b).opened_for = 0
              \/ /\ on_failure(b).state = b.state /\ b.state # "half_open"
                 /\ on_failure(b).opened_for = b.opened_for
BY GateAssumption DEF on_failure, Breaker

\* The steps of a call keep its record a call.
LEMMA CallType ==
    ASSUME NEW r \in Call
    PROVE  /\ idle(r.key) \in Call
           /\ \A at \in {"wire", "failed"} : [r EXCEPT !.at = at] \in Call
           /\ [r EXCEPT !.at = "queued", !.attempt = 1] \in Call
           /\ r.attempt < MaxAttempts =>
                 [r EXCEPT !.at = "queued", !.attempt = @ + 1] \in Call
<1>1. /\ r.attempt \in 0 .. MaxAttempts /\ r.key \in Keys
      /\ 0 \in 0 .. MaxAttempts /\ 1 \in 0 .. MaxAttempts
  BY GateAssumption DEF Call
<1>2. r.attempt < MaxAttempts => r.attempt + 1 \in 0 .. MaxAttempts
  BY <1>1, GateAssumption
<1> QED
  BY <1>1, <1>2 DEF Call, idle

\* No call's answer or failure takes the breaker, the ages or a call out of its
\* type: no count passes its bound.
LEMMA TypesKept == TypeOK /\ [Next]_vars => TypeOK'
<1> SUFFICES ASSUME TypeOK, [Next]_vars PROVE TypeOK'
  OBVIOUS
<1>1. breaker \in Breaker /\ age \in [Keys -> 0 .. TTL] /\ call \in [Calls -> Call]
  BY DEF TypeOK
<1>2. CASE UNCHANGED vars
  BY <1>1, <1>2 DEF vars, TypeOK
<1>3. ASSUME NEW c \in Calls, NEW k \in Keys, NEW cached \in BOOLEAN, Ask(c, k, cached)
      PROVE  TypeOK'
  <2>1. breaker' \in Breaker
    BY <1>1, <1>3, BreakerType DEF Ask
  <2>2. call' \in [Calls -> Call]
    BY <1>1, <1>3, GateAssumption DEF Ask, Call
  <2> QED
    BY <1>1, <1>3, <2>1, <2>2 DEF Ask, TypeOK
<1>4. ASSUME NEW c \in Calls, Succeed(c) \/ Refuse(c) \/ Fail(c)
      PROVE  TypeOK'
  <2>1. breaker' \in Breaker
    BY <1>1, <1>4, BreakerType DEF Succeed, Refuse, Fail
  <2>2. idle(call[c].key) \in Call /\ [call[c] EXCEPT !.at = "failed"] \in Call
    BY <1>1, CallType
  <2>3. call' \in [Calls -> Call]
    BY <1>1, <1>4, <2>2 DEF Succeed, Refuse, Fail
  <2>4. age' \in [Keys -> 0 .. TTL]
    BY <1>1, <1>4, GateAssumption DEF Succeed, Refuse, Fail
  <2> QED
    BY <2>1, <2>3, <2>4 DEF TypeOK
<1>5. ASSUME NEW c \in Calls, Lookup(c) \/ Acquire(c) \/ GoRound(c)
      PROVE  TypeOK'
  <2> DEFINE r == call[c]
  <2>1. /\ idle(r.key) \in Call /\ [r EXCEPT !.at = "wire"] \in Call
        /\ [r EXCEPT !.at = "queued", !.attempt = 1] \in Call
        /\ r.attempt < MaxAttempts =>
              [r EXCEPT !.at = "queued", !.attempt = @ + 1] \in Call
    BY <1>1, CallType
  <2>2. CASE Lookup(c)
    BY <1>1, <2>1, <2>2 DEF Lookup, TypeOK
  <2>3. CASE Acquire(c)
    BY <1>1, <2>1, <2>3 DEF Acquire, TypeOK
  <2>4. CASE GoRound(c)
    BY <1>1, <2>1, <2>4 DEF GoRound, TypeOK
  <2> QED
    BY <1>5, <2>2, <2>3, <2>4
<1>6. CASE would_allow
  BY <1>1, <1>6, BreakerType DEF would_allow, TypeOK
<1>7. CASE Tick
  <2>1. breaker' \in Breaker
    BY <1>1, <1>7, GateAssumption DEF Tick, Breaker
  <2>2. age' \in [Keys -> 0 .. TTL]
    BY <1>1, <1>7, GateAssumption DEF Tick
  <2> QED
    BY <1>1, <1>7, <2>1, <2>2 DEF Tick, TypeOK
<1> QED
  BY <1>2, <1>3, <1>4, <1>5, <1>6, <1>7 DEF Next, CallStep

\* Breaker, cache and calls keep their types, whatever the lives of cached answers:
\* the failures stay within the threshold and the attempts within MaxAttempts.
THEOREM TypeCorrect == Spec => []TypeOK
<1>1. Init => TypeOK
  BY GateAssumption DEF Init, TypeOK, Breaker, Call, idle
<1> QED
  BY <1>1, TypesKept, PTL DEF Spec

-----------------------------------------------------------------------------
\* Before any call nothing is shut and nothing is cached.
LEMMA GateInitOK == Init => GInv
BY GateAssumption DEF Init, GInv, TypeOK, Breaker, Call, idle, CacheOK, ProbeOK,
                      ProbeHasOwner, Stale

\* A call that starts: if it is the trial, it owns the probe.
LEMMA AskOK ==
    ASSUME TTL <= Cooldown, GInv, NEW c \in Calls, NEW k \in Keys,
           NEW cached \in BOOLEAN, Ask(c, k, cached)
    PROVE  CacheOK' /\ ProbeOK'
<1>2. call'[c].at = "allowed"
  BY DEF Ask, GInv, TypeOK
<1>3. CacheOK'
  <2>1. CASE breaker.state = "open"
    <3>1. \A l \in Keys : age[l] >= Cooldown \/ Stale(l)
      BY <2>1 DEF Ask, allows, cooled, GInv, CacheOK
    <3>2. \A l \in Keys : Stale(l)
      BY <3>1, GateAssumption DEF GInv, TypeOK, Stale
    <3> QED
      BY <2>1, <3>2 DEF Ask, check, GInv, TypeOK, Breaker, CacheOK, Stale
  <2>2. CASE breaker.state # "open"
    BY <2>2 DEF Ask, check, GInv, TypeOK, Breaker, CacheOK, Stale
  <2> QED
    BY <2>1, <2>2
<1>4. ProbeOK'
  BY <1>2 DEF Ask, check, GInv, TypeOK, Breaker, ProbeOK, ProbeHasOwner
<1> QED
  BY <1>3, <1>4

\* The queue's question moves the breaker, and spends nothing.
LEMMA WouldAllowOK ==
    ASSUME TTL <= Cooldown, GInv, would_allow
    PROVE  CacheOK' /\ ProbeOK'
<1>2. CASE breaker.state = "open" /\ cooled(breaker)
  <2>1. \A l \in Keys : Stale(l)
    BY <1>2, GateAssumption DEF cooled, GInv, TypeOK, CacheOK, Stale
  <2> QED
    BY <1>2, <2>1 DEF would_allow, peek, GInv, TypeOK, Breaker, CacheOK,
                            ProbeOK, ProbeHasOwner, Stale
<1>3. CASE ~ (breaker.state = "open" /\ cooled(breaker))
  BY <1>3 DEF would_allow, peek, GInv, TypeOK, CacheOK, ProbeOK, ProbeHasOwner, Stale
<1> QED
  BY <1>2, <1>3

\* Time passes for the breaker and the cache alike.
LEMMA TickOK ==
    ASSUME GInv, Tick
    PROVE  CacheOK' /\ ProbeOK'
<1>3. /\ breaker'.state = breaker.state
      /\ breaker'.probe_in_flight = breaker.probe_in_flight
      /\ breaker'.opened_for <= breaker.opened_for + 1
      /\ breaker.opened_for \in Nat /\ breaker'.opened_for \in Nat
  BY GateAssumption DEF Tick, GInv, TypeOK, Breaker
<1>4. CacheOK'
  <2>1. \A k \in Keys : /\ age[k] \in 0 .. TTL
                        /\ Stale(k) => age'[k] = TTL
                        /\ ~Stale(k) => age'[k] = age[k] + 1
    BY GateAssumption DEF Tick, GInv, TypeOK, Stale
  <2> QED
    BY <1>3, <2>1, GateAssumption DEF GInv, CacheOK, Stale
<1>5. ProbeOK'
  BY <1>3 DEF Tick, GInv, ProbeOK, ProbeHasOwner
<1> QED
  BY <1>4, <1>5

\* A call that reports: whatever it says, the probe is nobody's.
LEMMA ReportOK ==
    ASSUME GInv, NEW c \in Calls, Succeed(c) \/ Refuse(c) \/ Fail(c)
    PROVE  CacheOK' /\ ProbeOK'
<1>1. ~breaker'.probe_in_flight
  <2>1. breaker \in Breaker
    BY DEF GInv, TypeOK
  <2>2. breaker' = on_success(breaker) \/ breaker' = on_failure(breaker)
    BY DEF Succeed, Refuse, Fail
  <2>3. ~on_success(breaker).probe_in_flight
    BY DEF on_success
  <2> QED
    BY <2>1, <2>2, <2>3, AfterFailure
<1>4. CacheOK'
  <2>1. CASE Succeed(c) \/ Refuse(c)
    BY <2>1 DEF Succeed, Refuse, on_success, CacheOK
  <2>2. CASE Fail(c)
    <3>1. breaker \in Breaker /\ UNCHANGED age
      BY <2>2 DEF Fail, GInv, TypeOK
    <3>2. breaker' = on_failure(breaker)
      BY <2>2 DEF Fail
    <3>3. \A k \in Keys : age[k] >= 0
      BY GateAssumption DEF GInv, TypeOK
    <3> QED
      BY <3>1, <3>2, <3>3, AfterFailure DEF GInv, CacheOK, Stale
  <2> QED
    BY <2>1, <2>2
<1>5. ProbeOK'
  BY <1>1 DEF ProbeOK, ProbeHasOwner
<1> QED
  BY <1>4, <1>5

\* A call that moves on without reporting does not own the probe, or keeps it:
\* on a half-open service no cached answer is fresh, and the limiter's check
\* turns back only from an open one.
LEMMA MoveOnOK ==
    ASSUME GInv, NEW c \in Calls, Lookup(c) \/ Acquire(c) \/ GoRound(c)
    PROVE  CacheOK' /\ ProbeOK'
<1>1. UNCHANGED <<breaker, age>>
  BY DEF Lookup, Acquire, GoRound
<1>3. \A d \in Calls \ {c} : call'[d] = call[d]
  BY DEF Lookup, Acquire, GoRound, GInv, TypeOK
<1>4. ASSUME breaker.state = "half_open", reports(c)
      PROVE  reports(c)'
  <2>1. CASE Lookup(c)
    <3>1. age[call[c].key] = TTL
      BY <1>4 DEF GInv, CacheOK, TypeOK, Call, Stale
    <3>2. ~ (age[call[c].key] < TTL)
      BY <3>1, GateAssumption
    <3> QED
      BY <2>1, <3>2 DEF Lookup, reports, GInv, TypeOK, Call
  <2>2. CASE Acquire(c)
    BY <1>4, <2>2 DEF Acquire, reports, GInv, TypeOK, Call
  <2>3. CASE GoRound(c)
    BY <1>4, <2>3 DEF GoRound, reports
  <2> QED
    BY <2>1, <2>2, <2>3
<1>5. ProbeOK'
  BY <1>1, <1>3, <1>4 DEF GInv, ProbeOK, ProbeHasOwner, reports
<1> QED
  BY <1>1, <1>5 DEF GInv, CacheOK, Stale

\* Where cached answers do not outlive the cooldown (Nyaa: 10 against 15
\* minutes; qBittorrent: no cache), a caller is turned away from a half-open
\* service only while a trial is really under way.
THEOREM TrialIsUnderWay ==
    ASSUME TTL <= Cooldown
    PROVE  Spec => []ProbeHasOwner
<1>1. GInv /\ [Next]_vars => GInv'
  <2> SUFFICES ASSUME GInv, [Next]_vars PROVE GInv'
    OBVIOUS
  <2>1. CASE UNCHANGED vars
    BY <2>1 DEF vars, GInv, TypeOK, CacheOK, ProbeOK, ProbeHasOwner, Stale
  <2> QED
    BY <2>1, TypesKept, AskOK, WouldAllowOK, TickOK, ReportOK, MoveOnOK DEF Next, CallStep, GInv
<1>2. GInv => ProbeHasOwner
  BY DEF GInv, ProbeOK
<1> QED
  BY <1>1, <1>2, GateInitOK, PTL DEF Spec

=============================================================================
