-------------------------- MODULE UpstreamPromise --------------------------
(***************************************************************************)
(* What a connection to an upstream promises to those who call through it, *)
(* whatever queues, tables and processes are behind it: a call is executed *)
(* at most once, and only while its outcome is open; only a call that was  *)
(* executed gets a response; a failure of the upstream decides all calls   *)
(* that were executed and no other; and when the connection is given up    *)
(* every open call is failed and nothing is taken any more.                *)
(* UpstreamSupervisor (module Supervisor) is shown to implement this.      *)
(***************************************************************************)
EXTENDS Naturals

CONSTANT Calls

VARIABLES given,     \* the connection has not been given up
          caller,    \* caller[c]: what the caller of c does
          outcome,   \* outcome[c]: what was decided about c
          executed   \* executed[c]: how often a process may have executed c

promiseVars == <<given, caller, outcome, executed>>

PromiseInit ==
    /\ given = TRUE
    /\ caller = [c \in Calls |-> "idle"]
    /\ outcome = [c \in Calls |-> "empty"]
    /\ executed = [c \in Calls |-> 0]

\* The calls that were taken and not decided, whether the caller still
\* waits or not.
Open == {c \in Calls : caller[c] \in {"waiting", "gone"} /\ outcome[c] = "empty"}
Begun == {c \in Open : executed[c] > 0}

Take(c) ==
    /\ caller[c] = "idle"
    /\ caller' = [caller EXCEPT ![c] = IF given THEN "waiting" ELSE "failed"]
    /\ UNCHANGED <<given, outcome, executed>>

Execute(c) ==
    /\ given
    /\ c \in Open \ Begun
    /\ executed' = [executed EXCEPT ![c] = 1]
    /\ UNCHANGED <<given, caller, outcome>>

Respond(c) ==
    /\ given
    /\ c \in Begun
    /\ outcome' = [outcome EXCEPT ![c] = "response"]
    /\ UNCHANGED <<given, caller, executed>>

FailAll(S) == outcome' = [c \in Calls |-> IF c \in S THEN "error" ELSE outcome[c]]

\* The calls that were not executed wait for the next process.
Break ==
    /\ given
    /\ FailAll(Begun)
    /\ UNCHANGED <<given, caller, executed>>

GiveUp ==
    /\ given
    /\ given' = FALSE
    /\ FailAll(Open)
    /\ UNCHANGED <<caller, executed>>

Return(c) ==
    /\ caller[c] = "waiting"
    /\ outcome[c] # "empty"
    /\ caller' = [caller EXCEPT ![c] =
                     IF outcome[c] = "response" THEN "answered" ELSE "failed"]
    /\ UNCHANGED <<given, outcome, executed>>

\* Also in the moment the outcome is decided.
Abandon(c) ==
    /\ caller[c] = "waiting"
    /\ caller' = [caller EXCEPT ![c] = "gone"]
    /\ UNCHANGED <<given, outcome, executed>>

PromiseNext ==
    \/ \E c \in Calls :
          Take(c) \/ Execute(c) \/ Respond(c) \/ Return(c) \/ Abandon(c)
    \/ Break
    \/ GiveUp

PromiseSpec == PromiseInit /\ [][PromiseNext]_promiseVars

=============================================================================
