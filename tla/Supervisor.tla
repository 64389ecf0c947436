----------------------------- MODULE Supervisor -----------------------------
(***************************************************************************)
(* The task that owns one upstream process: UpstreamSupervisor::run        *)
(* (src/src/hub.rs).  It starts the process, copies requests from a        *)
(* bounded channel to its stdin, has a reader task match the answers on    *)
(* its stdout with the waiting callers, and when the process fails it      *)
(* fails the callers, kills the process and starts another after a pause.  *)
(*                                                                         *)
(* A member of Calls is one request with an id of its own (request_counter *)
(* never repeats one).  What the callers' timers and the circuit breaker   *)
(* do is module CircuitBreaker: here a caller may leave at any moment.     *)
(* A definition named X_Y is X with the bug Y (see Vault).                 *)
(***************************************************************************)
EXTENDS Integers, Sequences, FiniteSets

CONSTANTS Calls,
          ChannelSize,   \* capacity of the channel (32)
          Pauses,        \* number of backoff delays (3)
          MaxFailures    \* bound on the failures of the upstream per run

ASSUME SupervisorAssumption ==
    /\ ChannelSize \in Nat \ {0}
    /\ Pauses \in Nat
    /\ MaxFailures \in Nat

VARIABLES state,      \* where run is
          reading,    \* the reader task of the current process has not ended
          attempts,   \* respawn_attempts
          channel,    \* the requests in the mpsc channel
          pending,    \* pending_map of the current process
          alive,      \* processes of this upstream that are alive
          caller,     \* caller[c]: what the caller of c does
          slot,       \* slot[c]: what is in c's oneshot
          delivered,  \* delivered[c]: processes c was written to (history)
          failures    \* failures of the upstream so far (bound)

vars == <<state, reading, attempts, channel, pending, alive, caller, slot,
          delivered, failures>>

\* serving: at the select; writing: in the arm that writes a request, which
\* awaits; broken: a write failed; closed: the end of the reader was seen.
Failed == {"broken", "closed"}
States == Failed \cup {"starting", "serving", "writing", "resting", "stopped"}

TypeOK ==
    /\ state \in States
    /\ reading \in BOOLEAN
    /\ attempts \in 0 .. Pauses
    /\ channel \in Seq(Calls)
    /\ pending \subseteq Calls
    /\ alive \in Nat
    /\ caller \in [Calls -> {"idle", "waiting", "answered", "failed", "gone"}]
    /\ slot \in [Calls -> {"empty", "response", "error"}]
    /\ delivered \in [Calls -> Nat]
    /\ failures \in 0 .. MaxFailures

Init ==
    /\ state = "starting"
    /\ reading = FALSE
    /\ attempts = 0
    /\ channel = <<>>
    /\ pending = {}
    /\ alive = 0
    /\ caller = [c \in Calls |-> "idle"]
    /\ slot = [c \in Calls |-> "empty"]
    /\ delivered = [c \in Calls |-> 0]
    /\ failures = 0

InChannel == {channel[i] : i \in 1 .. Len(channel)}

\* The senders of these calls are used or dropped: who waits, wakes.
FailSlots(S) ==
    slot' = [c \in Calls |->
                IF c \in S /\ slot[c] = "empty" THEN "error" ELSE slot[c]]

UpstreamFails ==
    /\ failures < MaxFailures
    /\ failures' = failures + 1

(***************************************************************************)
(* The callers.                                                            *)
(***************************************************************************)
Submit(c) ==
    /\ caller[c] = "idle"
    /\ caller' = [caller EXCEPT ![c] =
                     IF state = "stopped" THEN "failed" ELSE "waiting"]
    /\ IF state = "stopped"
       THEN UNCHANGED channel
       ELSE /\ Len(channel) < ChannelSize
            /\ channel' = Append(channel, c)
    /\ UNCHANGED <<state, reading, attempts, pending, alive, slot, delivered,
                   failures>>

Leave(c) ==
    /\ caller[c] = "waiting"
    /\ caller' = [caller EXCEPT ![c] = "gone"]
    /\ UNCHANGED <<state, reading, attempts, channel, pending, alive, slot,
                   delivered, failures>>

Wake(c) ==
    /\ caller[c] = "waiting"
    /\ slot[c] # "empty"
    /\ caller' = [caller EXCEPT ![c] =
                     IF slot[c] = "response" THEN "answered" ELSE "failed"]
    /\ UNCHANGED <<state, reading, attempts, channel, pending, alive, slot,
                   delivered, failures>>

(***************************************************************************)
(* spawn_process, and the pause before the next one.                       *)
(***************************************************************************)
Start ==
    /\ state = "starting"
    /\ state' = "serving"
    /\ reading' = TRUE
    /\ attempts' = 0
    /\ alive' = alive + 1
    /\ pending' = {}
    /\ UNCHANGED <<channel, caller, slot, delivered, failures>>

Pause ==
    /\ attempts < Pauses
    /\ state' = "resting"
    /\ attempts' = attempts + 1

Abandoned == InChannel

Stop ==
    /\ attempts = Pauses
    /\ state' = "stopped"
    /\ channel' = <<>>
    /\ UNCHANGED attempts

StartFails ==
    /\ state = "starting"
    /\ UpstreamFails
    /\ \/ Pause /\ UNCHANGED <<channel, slot>>
       \/ Stop /\ FailSlots(Abandoned)
    /\ UNCHANGED <<reading, pending, alive, caller, delivered>>

Resume ==
    /\ state = "resting"
    /\ state' = "starting"
    /\ UNCHANGED <<reading, attempts, channel, pending, alive, caller, slot,
                   delivered, failures>>

(***************************************************************************)
(* The select loop: a request, or the end of the reader task.  If both are *)
(* there either is taken, and while a request is written neither is looked *)
(* at.                                                                     *)
(***************************************************************************)
\* The request is with the process from when its write begins.
Forward ==
    /\ state = "serving"
    /\ channel # <<>>
    /\ state' = "writing"
    /\ channel' = Tail(channel)
    /\ pending' = pending \cup {Head(channel)}
    /\ delivered' = [delivered EXCEPT ![Head(channel)] = @ + 1]
    /\ UNCHANGED <<reading, attempts, alive, caller, slot, failures>>

WriteEnds(s) ==
    /\ state = "writing"
    /\ state' = s
    /\ UNCHANGED <<reading, attempts, channel, pending, alive, caller, slot, delivered>>

WriteOk == WriteEnds("serving") /\ UNCHANGED failures

\* It may have reached the process although the write or the flush fails.
WriteFails ==
    /\ WriteEnds("broken")
    /\ IF reading THEN UpstreamFails ELSE UNCHANGED failures

\* The reader task takes an answer off stdout.
Answer(c) ==
    /\ reading
    /\ c \in pending
    /\ pending' = pending \ {c}
    /\ slot' = [slot EXCEPT ![c] = "response"]
    /\ UNCHANGED <<state, reading, attempts, channel, alive, caller, delivered,
                   failures>>

\* stdout is closed: the process died, or gave up its stdout and lives.
ReaderEnds ==
    /\ state \in {"serving", "writing"}
    /\ reading
    /\ UpstreamFails
    /\ reading' = FALSE
    /\ alive' \in {alive, alive - 1}
    /\ UNCHANGED <<state, attempts, channel, pending, caller, slot, delivered>>

\* The select sees that.
Notice ==
    /\ state = "serving"
    /\ ~reading
    /\ state' = "closed"
    /\ UNCHANGED <<reading, attempts, channel, pending, alive, caller, slot,
                   delivered, failures>>

(***************************************************************************)
(* After the loop: kill the process group, fail the callers, pause.        *)
(***************************************************************************)
Kill == alive' = 0

\* What is left in the channel is for the next process, and nothing else.
Requeued_Retry ==
    channel' = IF pending = {} THEN channel
               ELSE Append(channel, CHOOSE c \in pending : TRUE)
Requeued == UNCHANGED channel

\* The requests that were with the process are failed.
Drained_Nobody == {}
Drained_Everybody == pending \cup InChannel
Drained == pending

Recover ==
    /\ state \in Failed
    /\ reading' = FALSE
    /\ Kill
    /\ pending' = {}
    /\ \/ Pause /\ FailSlots(Drained) /\ Requeued
       \/ Stop /\ FailSlots(Drained \cup Abandoned)
    /\ UNCHANGED <<caller, delivered, failures>>

Proceed == Start \/ Resume \/ Notice \/ Recover

Next ==
    \/ \E c \in Calls : Submit(c) \/ Leave(c) \/ Wake(c) \/ Answer(c)
    \/ Proceed
    \/ Forward
    \/ WriteOk
    \/ WriteFails
    \/ StartFails
    \/ ReaderEnds

Spec == Init /\ [][Next]_vars

\* The supervisor's task is polled and its pauses end; a write to a process
\* that is dead returns.  No caller must leave, no upstream must answer, and a
\* write to a process that lives and does not read may never complete.
Fairness ==
    /\ WF_vars(Proceed)
    /\ WF_vars(alive = 0 /\ (WriteOk \/ WriteFails))
    /\ \A c \in Calls : WF_vars(Wake(c))

FairSpec == Spec /\ Fairness
-----------------------------------------------------------------------------
(* Properties.                                                             *)

\* A request is written to at most one process, so that what one may have
\* executed the next does not execute again; and killing comes before
\* respawning (CHANGELOG AUDIT-06): no two processes of one upstream are
\* alive at a time.
AtMostOnce ==
    /\ \A c \in Calls : delivered[c] <= 1
    /\ alive <= 1

\* A caller whose answer is still out is known to the supervisor, which can
\* still wake it: no request falls between channel, table and process.
NoCallerForgotten ==
    \A c \in Calls :
        caller[c] = "waiting" /\ slot[c] = "empty" =>
            \/ c \in InChannel
            \/ c \in pending /\ state \in Failed \cup {"serving", "writing"}

\* Both: a call is neither executed twice nor lost sight of.
EachCallOnce == TypeOK /\ AtMostOnce /\ NoCallerForgotten

Promise == INSTANCE UpstreamPromise WITH
    given <- state # "stopped", outcome <- slot, executed <- delivered

\* The supervisor implements what a connection promises: with a process fail
\* the calls that were with it, though their callers may have left, and no
\* call that is still in the channel; and when it gives up, all that are open.
ImplementsPromise == Promise!PromiseSpec

\* Whoever waits on a process to which a write failed, or whose stdout is
\* closed, is woken, unless that process lives on and does not read what is
\* being written to it: then only the caller's own time limit is left.
FailureReachesCallers ==
    \A c \in Calls :
        c \in pending /\ (state = "broken" \/ ~reading)
            ~> \/ caller[c] # "waiting"
               \/ [](state = "writing" /\ alive > 0)

=============================================================================
