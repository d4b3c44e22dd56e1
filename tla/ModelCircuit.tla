------------------------------ MODULE ModelCircuit ------------------------------
(***************************************************************************)
(* SwitchableModel of packages/harness/model_runtime.py: the threads that  *)
(* run agent tasks (the job worker, the synchronous task route, the        *)
(* confirmation route) call generate concurrently.  The circuit breaker is *)
(* read and written under the lock; the remote request between the two is  *)
(* not, so an answer may meet a circuit that others have moved on.         *)
(***************************************************************************)
EXTENDS Integers, FiniteSets

CONSTANTS
    Callers,           \* threads that may be inside generate
    RetryAttempts,     \* tries of one logical request
    FailureThreshold,  \* consecutive failures that open the circuit
    Cooldown,          \* time an open circuit skips the remote model
    Fallback,          \* is the offline fallback enabled
    MaxRequests,       \* bound on logical remote requests
    MaxSwitches,       \* bound on set_mode calls
    MaxEscapes,        \* bound on exceptions that are not ModelGatewayError
    MaxTicks           \* bound on the clock

ASSUME CircuitAssumption ==
    /\ IsFiniteSet(Callers)
    /\ RetryAttempts \in 1..3 /\ FailureThreshold \in 1..10 /\ Cooldown \in Nat \ {0}
    /\ Fallback \in BOOLEAN
    /\ MaxRequests \in Nat /\ MaxSwitches \in Nat /\ MaxEscapes \in Nat /\ MaxTicks \in Nat

VARIABLES
    mode,          \* self._active_mode, one of the two models
    circuit,       \* self._circuit_state
    openedAt,      \* self._circuit_opened_at, -1 for None
    probeInFlight, \* self._probe_in_flight, "up" for True
    failures,      \* self._consecutive_failures
    sent, successes, failed,   \* the public counters of remote requests
    ticks,
    pc,            \* where each caller is
    attempt,       \* the try a caller is at
    probes,        \* history: callers admitted as the half-open probe
    switches, escapes

circuitVars == <<circuit, openedAt, probeInFlight, failures>>
counters    == <<sent, successes, failed>>
modelVars == <<mode, circuitVars, counters, ticks, pc, attempt, probes,
          switches, escapes>>

InFlight == {c \in Callers : pc[c] = "requesting"}

--------------------------------------------------------------------------------
CircuitInit ==
    /\ mode = "remote"     \* a remote model is configured; else there is no circuit
    /\ circuit = "CLOSED" /\ openedAt = -1 /\ probeInFlight = "down" /\ failures = 0
    /\ sent = 0 /\ successes = 0 /\ failed = 0
    /\ ticks = 0 /\ pc = [c \in Callers |-> "idle"] /\ attempt = [c \in Callers |-> 0]
    /\ probes = {} /\ switches = 0 /\ escapes = 0

FaultyResetCircuit ==      \* the flag of a probe survives
    /\ circuit' = "CLOSED" /\ openedAt' = -1 /\ failures' = 0
    /\ UNCHANGED probeInFlight

\* _reset_circuit_locked
ResetCircuit ==
    /\ circuit' = "CLOSED" /\ openedAt' = -1
    /\ probeInFlight' = "down" /\ failures' = 0

\* set_mode: choosing "remote" also resets the circuit.
SetMode(m) ==
    /\ switches < MaxSwitches
    /\ mode' = m /\ switches' = switches + 1
    /\ IF m = "remote" THEN ResetCircuit
                       ELSE UNCHANGED circuitVars
    /\ UNCHANGED <<counters, ticks, pc, attempt, probes, escapes>>

\* _generate picks the model under the lock and leaves it; the circuit is
\* looked at later.
Generate(c) ==
    /\ pc[c] = "idle" /\ sent < MaxRequests
    /\ pc' = [pc EXCEPT ![c] = IF mode = "offline" THEN "offline" ELSE "admission"]
    /\ UNCHANGED <<mode, circuitVars, counters, ticks, attempt, probes,
                   switches, escapes>>

Cooling == ticks < openedAt + Cooldown \/ probeInFlight = "up"

FaultySkip(c) == circuit = "OPEN" /\ Cooling    \* a half-open circuit is waited for
\* The circuit keeps the request local: open and cooling, or being probed.
Skip(c) == (circuit = "OPEN" /\ Cooling) \/ circuit = "HALF_OPEN"

\* _fallback answers from the offline model, or raises MODEL_CIRCUIT_OPEN.
Skipped(c) ==
    /\ pc[c] = "admission" /\ Skip(c)
    /\ pc' = [pc EXCEPT ![c] = IF Fallback THEN "offline" ELSE "raised"]
    /\ UNCHANGED <<mode, circuitVars, counters, ticks, attempt, probes,
                   switches, escapes>>

\* The request goes out; from OPEN it is the half-open probe.
Admitted(c) ==
    /\ pc[c] = "admission"
    /\ \/ /\ circuit = "OPEN" /\ ~Cooling
          /\ circuit' = "HALF_OPEN" /\ probeInFlight' = "up"
          /\ probes' = probes \cup {c}
       \/ /\ circuit = "CLOSED"
          /\ UNCHANGED <<circuit, probeInFlight, probes>>
    /\ sent' = sent + 1
    /\ pc' = [pc EXCEPT ![c] = "requesting"]
    /\ attempt' = [attempt EXCEPT ![c] = 1]
    /\ UNCHANGED <<mode, openedAt, failures, successes, failed, ticks,
                   switches, escapes>>

FaultyMayRetry(c) == attempt[c] <= RetryAttempts
MayRetry(c)       == attempt[c] < RetryAttempts

\* A retryable error before the last try: back off and try again.
Retries(c) ==
    /\ pc[c] = "requesting" /\ MayRetry(c)
    /\ attempt' = [attempt EXCEPT ![c] = @ + 1]
    /\ UNCHANGED <<mode, circuitVars, counters, ticks, pc, probes,
                   switches, escapes>>

Succeeds(c) ==
    /\ pc[c] = "requesting"
    /\ successes' = successes + 1
    /\ ResetCircuit
    /\ pc' = [pc EXCEPT ![c] = "answered"]
    /\ probes' = probes \ {c}
    /\ UNCHANGED <<mode, sent, failed, ticks, attempt, switches, escapes>>

FaultyOpens(retryable) == failures + 1 > FailureThreshold \/ circuit = "HALF_OPEN"
\* Whether a final failure opens the circuit, whatever its state is by now.
Opens(retryable) ==
    ~retryable \/ failures + 1 >= FailureThreshold \/ circuit = "HALF_OPEN"

FaultyCountsFailure == UNCHANGED failed
CountsFailure       == failed' = failed + 1

\* The last try failed, or the error is not retryable (authentication, an
\* invalid response): the circuit opens or is set CLOSED.
Fails(c) ==
    /\ pc[c] = "requesting"
    /\ \E retryable \in BOOLEAN :
        /\ retryable => ~MayRetry(c)
        /\ CountsFailure /\ failures' = failures + 1
        /\ probeInFlight' = "down"
        /\ IF Opens(retryable)
           THEN circuit' = "OPEN" /\ openedAt' = ticks
           ELSE circuit' = "CLOSED" /\ UNCHANGED openedAt
    /\ pc' = [pc EXCEPT ![c] = IF Fallback THEN "offline" ELSE "raised"]
    /\ probes' = probes \ {c}
    /\ UNCHANGED <<mode, sent, successes, ticks, attempt, switches, escapes>>

\* An exception the gateway does not translate, such as http.client's
\* IncompleteRead or a response whose "message" is null, passes through.
Escapes(c) ==
    /\ pc[c] = "requesting" /\ escapes < MaxEscapes
    /\ escapes' = escapes + 1
    /\ pc' = [pc EXCEPT ![c] = "raised"]
    /\ probes' = probes \ {c}
    /\ UNCHANGED <<mode, circuitVars, counters, ticks, attempt, switches>>

\* The offline model always answers; the caller goes on with the task.
Returns(c) ==
    /\ pc[c] \in {"offline", "answered", "raised"}
    /\ pc' = [pc EXCEPT ![c] = "idle"]
    /\ attempt' = [attempt EXCEPT ![c] = 0]
    /\ UNCHANGED <<mode, circuitVars, counters, ticks, probes, switches,
                   escapes>>

CircuitTick ==
    /\ ticks < MaxTicks /\ ticks' = ticks + 1
    /\ UNCHANGED <<mode, circuitVars, counters, pc, attempt, probes,
                   switches, escapes>>

Progress(c) ==
    \/ Skipped(c) \/ Admitted(c) \/ Retries(c) \/ Succeeds(c) \/ Fails(c)
    \/ Escapes(c) \/ Returns(c)

CircuitNext ==
    \/ \E m \in {"offline", "remote"} : SetMode(m)
    \/ \E c \in Callers : Generate(c) \/ Progress(c)
    \/ CircuitTick

CircuitSpec == CircuitInit /\ [][CircuitNext]_modelVars

\* Requests have a timeout, so every try ends.
FairCircuitSpec == CircuitSpec /\ \A c \in Callers : WF_modelVars(Progress(c))

--------------------------------------------------------------------------------
(* Properties                                                              *)

CircuitTypeOK ==
    /\ mode \in {"offline", "remote"} /\ circuit \in {"CLOSED", "OPEN", "HALF_OPEN"}
    /\ openedAt \in Nat \cup {-1}
    /\ probeInFlight \in {"up", "down"} /\ failures \in Nat
    /\ sent \in Nat /\ successes \in Nat /\ failed \in Nat /\ ticks \in Nat
    /\ pc \in [Callers -> {"idle", "offline", "admission", "requesting", "answered", "raised"}]
    /\ attempt \in [Callers -> 0..RetryAttempts]
    /\ probes \in SUBSET Callers /\ switches \in Nat /\ escapes \in Nat

\* The fields of the circuit agree however late an answer comes: the probe
\* flag is up exactly while half open, and an open circuit knows since when
\* (the admission adds the cooldown to that time).
CircuitCoherent ==
    /\ probeInFlight = "up" <=> circuit = "HALF_OPEN"
    /\ circuit = "OPEN" => openedAt # -1

\* A closed circuit has room for another failure.
ClosedBelowThreshold == circuit = "CLOSED" => failures < FailureThreshold

\* Half open means that a probe is on its way which will decide, whoever else
\* answers late, unless an untranslated exception ended one.
ProbeDecides == circuit = "HALF_OPEN" /\ escapes = 0 => probes # {}

\* All three: what the circuit promises its next caller.
CircuitIsSound == CircuitCoherent /\ ClosedBelowThreshold /\ ProbeDecides

\* The counters shown by /health account for every request: each is in
\* flight, succeeded, failed, or left by an untranslated exception.
RequestsAccounted == sent = successes + failed + escapes + Cardinality(InFlight)

\* A call of generate always comes back, with an answer or an error, even
\* when the half-open probe was lost and the circuit stays half open.
CallsReturn == \A c \in Callers : pc[c] # "idle" ~> pc[c] = "idle"

================================================================================
