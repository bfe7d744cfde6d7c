-------------------------------- MODULE Gate --------------------------------
(***************************************************************************)
(* The HTTP gate in front of one service: its circuit breaker, the cache,  *)
(* and the concurrent calls that pass through them.                        *)
(*                                                                         *)
(* A call asks the breaker, looks in the cache, waits its turn on the      *)
(* limiter, goes out on the wire and, when it fails, may go round again.   *)
(* The breaker sits behind a lock that is held for one question only, so   *)
(* between two steps of a call any other call may move it.                 *)
(*                                                                         *)
(* Time is the age of the two things that wait for it: the opening of the  *)
(* breaker and each cached answer, both counted up to the point where they *)
(* no longer matter.  The limiter's token buckets and the retry's sleep    *)
(* are a wait of any length.                                               *)
(***************************************************************************)
EXTENDS Naturals, FiniteSets

CONSTANTS
    Calls,         \* tasks that talk to the service
    Keys,          \* URLs they ask for
    Threshold,     \* policy.breaker_threshold
    Cooldown,      \* policy.breaker_cooldown, in ticks
    TTL,           \* policy.cache_ttl, in ticks; 0 when nothing is cached
    MaxAttempts    \* policy.retry.max_attempts

ASSUME GateAssumption ==
    /\ Threshold \in Nat \ {0} /\ Cooldown \in Nat \ {0} /\ TTL \in Nat
    /\ MaxAttempts \in Nat \ {0}

VARIABLES
    breaker,   \* the CircuitBreaker of the service
    age,       \* age of the cached answer to each key; TTL: none, or stale
    call       \* each task's call

vars == <<breaker, age, call>>

Breaker == [state : {"closed", "open", "half_open"},
            failures : 0 .. Threshold,
            opened_for : 0 .. Cooldown,     \* now - opened_at
            probe_in_flight : BOOLEAN]

\* at: "idle" (no call), "allowed" (past the breaker), "queued" (at the
\* limiter), "wire" (request sent), "failed" (failure recorded).
Call == [at : {"idle", "allowed", "queued", "wire", "failed"},
         key : Keys,
         cached : BOOLEAN,                  \* neither a form nor skip_cache
         attempt : 0 .. MaxAttempts]

TypeOK ==
    /\ breaker \in Breaker
    /\ age \in [Keys -> 0 .. TTL]
    /\ call \in [Calls -> Call]

idle(k) == [at |-> "idle", key |-> k, cached |-> FALSE, attempt |-> 0]

Init ==
    /\ breaker = [state |-> "closed", failures |-> 0, opened_for |-> 0,
                  probe_in_flight |-> FALSE]
    /\ age = [k \in Keys |-> TTL]
    /\ \E k \in Keys : call = [c \in Calls |-> idle(k)]

-----------------------------------------------------------------------------
(* http/breaker.rs.                                                        *)

cooled(b) == b.opened_for = Cooldown

\* CircuitBreaker::check, when it answers Allow.
allows(b) ==
    \/ b.state = "closed"
    \/ b.state = "open" /\ cooled(b)
    \/ b.state = "half_open" /\ ~b.probe_in_flight

check(b) ==
    IF b.state = "closed" THEN b
    ELSE [b EXCEPT !.state = "half_open", !.probe_in_flight = TRUE]

\* CircuitBreaker::peek: the same answer, without claiming the probe.
peek(b) ==
    IF b.state = "open" /\ cooled(b) THEN [b EXCEPT !.state = "half_open"] ELSE b

on_success(b) ==
    [state |-> "closed", failures |-> 0, opened_for |-> 0,
     probe_in_flight |-> FALSE]

\* Mutant: a failed trial forgets to hand the probe back.
on_failure_keeps_probe(b) ==
    LET failures == IF b.state = "half_open" \/ b.failures + 1 >= Threshold
                    THEN Threshold ELSE b.failures + 1
    IN  IF failures = Threshold
        THEN [b EXCEPT !.state = "open", !.failures = failures, !.opened_for = 0]
        ELSE [b EXCEPT !.failures = failures]

\* The count stops at the threshold: beyond it nothing tells the counts apart.
on_failure(b) ==
    LET failures == IF b.state = "half_open" \/ b.failures + 1 >= Threshold
                    THEN Threshold ELSE b.failures + 1
    IN  IF failures = Threshold
        THEN [state |-> "open", failures |-> failures, opened_for |-> 0,
              probe_in_flight |-> FALSE]
        ELSE [b EXCEPT !.failures = failures, !.probe_in_flight = FALSE]

-----------------------------------------------------------------------------
(* http/gate.rs.                                                           *)

\* get_with and post_form: the breaker first.  A rejected call changes nothing.
Ask(c, k, cached) ==
    /\ call[c].at = "idle" /\ allows(breaker)
    /\ breaker' = check(breaker)
    /\ call' = [call EXCEPT ![c] = [at |-> "allowed", key |-> k,
                                    cached |-> cached, attempt |-> 0]]
    /\ age' = age

\* get_with: a fresh answer is returned at once; anything else is dispatched.
Lookup(c) ==
    /\ call[c].at = "allowed"
    /\ call' = [call EXCEPT ![c] =
           IF @.cached /\ age[@.key] < TTL THEN idle(@.key)
           ELSE [@ EXCEPT !.at = "queued", !.attempt = 1]]
    /\ UNCHANGED <<breaker, age>>

\* dispatch: the limiter lets the call go; it bails out if the breaker was
\* opened while it waited.
Acquire(c) ==
    /\ call[c].at = "queued"
    /\ call' = [call EXCEPT ![c] = IF breaker.state = "open" THEN idle(@.key)
                                   ELSE [@ EXCEPT !.at = "wire"]]
    /\ UNCHANGED <<breaker, age>>

\* An answer, or a 304 that confirms the cached one.
Succeed(c) ==
    /\ call[c].at = "wire"
    /\ breaker' = on_success(breaker)
    /\ \E stored \in {call[c].cached, TRUE} :
          age' = IF stored THEN [age EXCEPT ![call[c].key] = 0] ELSE age
    /\ call' = [call EXCEPT ![c] = idle(@.key)]

\* A 4xx, or a body over the cap: the service is up.
Refuse(c) ==
    /\ call[c].at = "wire"
    /\ breaker' = on_success(breaker)
    /\ call' = [call EXCEPT ![c] = idle(@.key)]
    /\ age' = age

\* 429, 408, 425, 5xx, a timeout or no connection.
Fail(c) ==
    /\ call[c].at = "wire"
    /\ breaker' = on_failure(breaker)
    /\ call' = [call EXCEPT ![c].at = "failed"]
    /\ age' = age

\* Mutants: one attempt too many; the attempts are not counted.
GoRound_late(c) ==
    /\ call[c].at = "failed"
    /\ \/ call' = [call EXCEPT ![c] = idle(@.key)]
       \/ /\ breaker.state # "open" /\ call[c].attempt <= MaxAttempts
          /\ call' = [call EXCEPT ![c].at = "queued", ![c].attempt = @ + 1]
    /\ UNCHANGED <<breaker, age>>

GoRound_uncounted(c) ==
    /\ call[c].at = "failed"
    /\ call' = [call EXCEPT ![c] = IF breaker.state = "open" THEN idle(@.key)
                                   ELSE [@ EXCEPT !.at = "queued"]]
    /\ UNCHANGED <<breaker, age>>

\* Give up when the breaker is open or the attempts or the time are used up;
\* otherwise sleep and queue again.
GoRound(c) ==
    /\ call[c].at = "failed"
    /\ \/ call' = [call EXCEPT ![c] = idle(@.key)]
       \/ /\ breaker.state # "open" /\ call[c].attempt < MaxAttempts
          /\ call' = [call EXCEPT ![c].at = "queued", ![c].attempt = @ + 1]
    /\ UNCHANGED <<breaker, age>>

\* Gate::would_allow, asked on every tick of the queue.
would_allow ==
    /\ breaker' = peek(breaker)
    /\ UNCHANGED <<age, call>>

\* Time passes.
Tick ==
    /\ breaker' = [breaker EXCEPT !.opened_for =
                      IF breaker.state = "open" /\ @ < Cooldown THEN @ + 1 ELSE @]
    /\ age' = [k \in Keys |-> IF age[k] < TTL THEN age[k] + 1 ELSE TTL]
    /\ call' = call

CallStep(c) ==
    Lookup(c) \/ Acquire(c) \/ Succeed(c) \/ Refuse(c) \/ Fail(c) \/ GoRound(c)

Next ==
    \/ \E c \in Calls : CallStep(c)
    \/ \E c \in Calls, k \in Keys, cached \in BOOLEAN : Ask(c, k, cached)
    \/ would_allow
    \/ Tick

Spec == Init /\ [][Next]_vars

\* Every request has a timeout, every sleep an end, and time does not stop;
\* nobody has to make a call.
FairSpec ==
    /\ Spec
    /\ WF_vars(Tick)
    /\ \A c \in Calls : WF_vars(CallStep(c))

-----------------------------------------------------------------------------
(* What the gate promises.                                                 *)

\* breaker.rs, where a second caller is turned away from a half-open service:
\* "Another trial is already running".  Whenever the probe is taken, some call
\* is under way that has yet to report success or failure.
ProbeHasOwner ==
    breaker.state = "half_open" /\ breaker.probe_in_flight =>
        \E c \in Calls : call[c].at \in {"allowed", "queued", "wire"}

\* A service that fails is not given up for good: again and again the breaker
\* would let a request through (peek, on_success, on_failure).
ServiceRecovers == []<>allows(breaker)

\* No call goes round for ever, whatever the service and the other calls do.
CallsEnd == \A c \in Calls : []<>(call[c].at = "idle")

=============================================================================
