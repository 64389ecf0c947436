--------------------------- MODULE CircuitBreaker ---------------------------
(***************************************************************************)
(* The circuit breaker in front of an upstream MCP server: send_request,   *)
(* record_success and record_error of UpstreamHandle (src/src/hub.rs).     *)
(*                                                                         *)
(* A member of Calls is one call_tool: it asks the breaker, hands its      *)
(* request to the supervisor over a channel and waits for the answer under *)
(* two timers of 30 s, call_tool's and, started a little later,            *)
(* send_request's own.  Breaker and calls only meet in the critical        *)
(* sections of the breaker's lock.  What the supervisor does with a        *)
(* request is module Supervisor; here it answers, fails, or says nothing.  *)
(*                                                                         *)
(* Clocks are countdowns.  The code's four limits are all 30 s: Period.    *)
(* A definition named X_Y is X with the bug Y (see Vault).                 *)
(***************************************************************************)
EXTENDS Integers, FiniteSets

CONSTANTS Calls,        \* runs of call_tool
          ErrorLimit,   \* errors that open the breaker (3)
          Period        \* 30 seconds, in ticks

ASSUME BreakerAssumption ==
    /\ IsFiniteSet(Calls)
    /\ ErrorLimit \in Nat \ {0}
    /\ Period \in Nat \ {0}

VARIABLES circuit,   \* CircuitBreakerState.state
          errors,    \* consecutive_errors
          spell,     \* until the error window is over: 0 for None as well
          cooling,   \* while open: until a probe is let through
          phase,     \* phase[c]: where call c is
          answer,    \* answer[c]: what is in c's oneshot
          limit,     \* limit[c]: what is left of c's timers
          probe,     \* calls that were let through as a probe (history)
          fresh      \* fresh[c]: how long c's error still counts as recent;
                     \* 0 if it is old or a success came since (history)

breakerVars == <<circuit, errors, spell, cooling>>
callVars == <<phase, answer, limit>>
history == <<probe, fresh>>
vars == <<breakerVars, callVars, history>>

InFlight == {"sending", "waiting"}
Phases == InFlight \cup {"idle", "ok", "failed", "refused", "dropped"}

TypeOK ==
    /\ circuit \in {"closed", "open", "halfOpen"}
    /\ errors \in 0 .. ErrorLimit
    /\ spell \in 0 .. Period + 1
    /\ cooling \in 0 .. Period
    /\ phase \in [Calls -> Phases]
    /\ answer \in [Calls -> {"none", "ok", "err"}]
    /\ limit \in [Calls -> 0 .. Period]
    /\ probe \subseteq Calls
    /\ fresh \in [Calls -> 0 .. Period + 1]

Init ==
    /\ circuit = "closed"
    /\ errors = 0
    /\ spell = 0
    /\ cooling = 0
    /\ phase = [c \in Calls |-> "idle"]
    /\ answer = [c \in Calls |-> "none"]
    /\ limit = [c \in Calls |-> 0]
    /\ probe = {}
    /\ fresh = [c \in Calls |-> 0]

Goes(c, p) == phase' = [phase EXCEPT ![c] = p]

(***************************************************************************)
(* The breaker's answer to a new call.                                     *)
(***************************************************************************)
Enter(c) ==
    /\ phase[c] = "idle"
    /\ Goes(c, "sending")
    /\ limit' = [limit EXCEPT ![c] = Period]
    /\ UNCHANGED <<errors, spell, cooling, answer, fresh>>

Admit(c) ==
    /\ circuit = "closed"
    /\ Enter(c)
    /\ UNCHANGED <<circuit, probe>>

Probe(c) ==
    /\ circuit = "open" /\ cooling = 0
    /\ Enter(c)
    /\ circuit' = "halfOpen"
    /\ probe' = probe \cup {c}

FailFast(c) ==
    /\ phase[c] = "idle"
    /\ \/ circuit = "open" /\ cooling > 0
       \/ circuit = "halfOpen"
    /\ Goes(c, "refused")
    /\ UNCHANGED <<breakerVars, answer, limit, history>>

(***************************************************************************)
(* record_success and record_error, on behalf of c.                        *)
(***************************************************************************)
RecordSuccess ==
    /\ circuit' = "closed"
    /\ errors' = 0
    /\ spell' = 0
    /\ cooling' = 0
    /\ fresh' = [d \in Calls |-> 0]

ReopenAfterProbe_KeepsInstant ==
    /\ circuit = "halfOpen"
    /\ circuit' = "open"
    /\ errors' = ErrorLimit
    /\ spell' = Period + 1
    /\ UNCHANGED cooling

ReopenAfterProbe ==
    /\ circuit = "halfOpen"
    /\ circuit' = "open"
    /\ errors' = ErrorLimit
    /\ spell' = Period + 1
    /\ cooling' = Period

\* The window starts with the first error and does not slide.
Counted_NeverLapses == errors + 1

Counted == IF spell = 0 THEN 1 ELSE errors + 1

CountError ==
    /\ circuit = "closed"
    /\ errors' = Counted
    /\ spell' = IF spell = 0 THEN Period + 1 ELSE spell
    /\ IF Counted >= ErrorLimit
       THEN circuit' = "open" /\ cooling' = Period
       ELSE UNCHANGED <<circuit, cooling>>

RecordError(c) ==
    /\ \/ ReopenAfterProbe
       \/ CountError
       \/ circuit = "open" /\ UNCHANGED breakerVars
    /\ fresh' = [fresh EXCEPT ![c] = Period + 1]

(***************************************************************************)
(* send_request after the breaker let it through.                          *)
(***************************************************************************)
Enqueue(c) ==
    /\ phase[c] = "sending"
    /\ Goes(c, "waiting")
    /\ UNCHANGED <<breakerVars, answer, limit, history>>

\* The supervisor has stopped: its end of the channel is gone.
SendFails(c) ==
    /\ phase[c] = "sending"
    /\ Goes(c, "failed")
    /\ RecordError(c)
    /\ UNCHANGED <<answer, limit, probe>>

Upstream(c, a) ==
    /\ phase[c] = "waiting"
    /\ answer[c] = "none"
    /\ answer' = [answer EXCEPT ![c] = a]
    /\ UNCHANGED <<breakerVars, phase, limit, history>>

TakeAnswer(c) ==
    /\ phase[c] = "waiting"
    /\ \/ answer[c] = "ok" /\ Goes(c, "ok") /\ RecordSuccess
       \/ answer[c] = "err" /\ Goes(c, "failed") /\ RecordError(c)
    /\ UNCHANGED <<answer, limit, probe>>

\* send_request's own timer fires first.
TimeOut(c) ==
    /\ phase[c] = "waiting" /\ answer[c] = "none" /\ limit[c] = 0
    /\ Goes(c, "failed")
    /\ RecordError(c)
    /\ UNCHANGED <<answer, limit, probe>>

\* call_tool's timer fires first: send_request is dropped where it stands
\* and records nothing.
CallTimeOut(c) ==
    /\ phase[c] \in InFlight /\ answer[c] = "none" /\ limit[c] = 0
    /\ Goes(c, "dropped")
    /\ UNCHANGED <<breakerVars, answer, limit, history>>

\* So it is when the client cancels the tools/call (ToolCall!TaskSeesToken).
Cancelled(c) ==
    /\ phase[c] \in InFlight
    /\ Goes(c, "dropped")
    /\ UNCHANGED <<breakerVars, answer, limit, history>>

Down(n) == IF n > 0 THEN n - 1 ELSE 0

Tick ==
    /\ \/ spell > 0
       \/ cooling > 0
       \/ \E c \in Calls : limit[c] > 0 \/ fresh[c] > 0
    /\ spell' = Down(spell)
    /\ cooling' = Down(cooling)
    /\ limit' = [c \in Calls |-> Down(limit[c])]
    /\ fresh' = [c \in Calls |-> Down(fresh[c])]
    /\ UNCHANGED <<circuit, errors, phase, answer, probe>>

Next ==
    \/ \E c \in Calls :
          \/ Admit(c) \/ Probe(c) \/ FailFast(c)
          \/ Enqueue(c) \/ SendFails(c)
          \/ \E a \in {"ok", "err"} : Upstream(c, a)
          \/ TakeAnswer(c) \/ TimeOut(c) \/ CallTimeOut(c)
          \/ Cancelled(c)
    \/ Tick

Spec == Init /\ [][Next]_vars
-----------------------------------------------------------------------------
(* Properties.                                                             *)

\* At most one probe is under way, even when an error of an older call
\* reopens the breaker under a probe: by the time the next probe is due the
\* timers of the last one have run out.
OneLiveProbe ==
    \A c, d \in probe :
        /\ phase[c] \in InFlight /\ limit[c] > 0
        /\ phase[d] \in InFlight /\ limit[d] > 0
        => c = d

\* The breaker opens only on a burst: ErrorLimit calls have failed within
\* the last 30 s and none has succeeded since the first of them.  And a burst
\* within one window does open it: a step that leaves it closed leaves fewer
\* failures than that as young as the window's first error.
OpensOnBurst ==
    [][circuit = "closed" =>
         IF circuit' = "open"
         THEN Cardinality({c \in Calls : fresh'[c] > 0}) >= ErrorLimit
         ELSE spell' > 0 =>
                Cardinality({c \in Calls : fresh'[c] >= spell'}) < ErrorLimit]_vars

\* The breaker is half-open only while a probe is in flight that will
\* decide, provided no call is dropped before its result is recorded, and
\* whatever the older calls record meanwhile.
HalfOpenHasProbe ==
    circuit = "halfOpen" /\ (\A c \in Calls : phase[c] # "dropped") =>
        \E c \in probe : phase[c] \in InFlight

\* A half-open breaker has its one probe.
ProbesInOrder == TypeOK /\ OneLiveProbe /\ HalfOpenHasProbe

\* "HALF-OPEN (probe in flight)", hub.rs, the error every call gets while
\* the breaker is half-open.
HalfOpenMeansProbeInFlight ==
    circuit = "halfOpen" => \E c \in probe : phase[c] \in InFlight

=============================================================================
