------------------------------ MODULE ToolCall ------------------------------
(***************************************************************************)
(* One tools/call after another and beside another: the "tools/call" arm   *)
(* of Server::handle_request (src/src/server.rs) composed with what the    *)
(* vault promises (ApprovalGate, which Vault implements).                  *)
(*                                                                         *)
(* A member of Requests is one tools/call.  Its handler runs the checks,   *)
(* waits at the gate, looks into the cache, registers a cancellation token *)
(* under the text of its JSON-RPC id, spawns the tool as a task of its own *)
(* and waits for the task or the token, whichever it sees first.  Handlers *)
(* of one HTTP server, or of one batch, run concurrently and share the     *)
(* cancellations map, the logs and the cache.                              *)
(*                                                                         *)
(* A member of Tools is a tool together with its arguments, the key of the *)
(* cache.  A definition named X_Y is X with the bug Y (see Vault).         *)
(***************************************************************************)
EXTENDS ApprovalGate, Naturals, FiniteSets

CONSTANTS Keys,          \* id texts, Id::to_string_key
          Tools,
          KeyOf,         \* KeyOf[r]: the text of r's JSON-RPC id
          ToolOf,        \* ToolOf[r]: the tool r names
          Registered,    \* tools the server has
          Cacheable,     \* tools with is_cacheable()
          LogsFail,      \* calls for which appending to the logs may fail
          MaxCalls,      \* bound on the calls that are made
          NoRequest      \* no entry

ASSUME ToolCallAssumption ==
    /\ Protected \subseteq Requests
    /\ KeyOf \in [Requests -> Keys]
    /\ ToolOf \in [Requests -> Tools]
    /\ Registered \subseteq Tools
    /\ Cacheable \subseteq Tools
    /\ LogsFail \subseteq Requests
    /\ MaxCalls \in Nat
    /\ NoRequest \notin Requests

VARIABLES handler,         \* handler[r]: the future running handle_request
          task,            \* task[r]: the spawned task that runs the tool
          token,           \* token[r]: r's CancellationToken is cancelled
          cancellations,   \* cancellations[k]: whose token is stored under k
          reply,           \* reply[r]: what the client was answered
          receipts,        \* receipts written: <<request, status>>
          smac,            \* requests with a SMAC entry
          cache,           \* cache[t]: the request whose result is cached
          wanted           \* whether, and when, r's client asked to cancel r

callVars == <<handler, task, token, cancellations, reply, receipts, smac,
              cache, wanted>>
vars == <<gateVars, callVars>>

TaskOutcomes == {"ok", "err", "panic"}
TaskStates == TaskOutcomes \cup {"none", "running", "aborting", "cancelled", "aborted"}
Replies == {"none", "refused", "notFound", "result", "cached", "toolError",
            "withheld", "cancelled", "panic"}
Statuses == {"Success", "ToolError"}

TypeOK ==
    /\ stage \in [Requests -> {"unasked", "held", "admitted", "refused"}]
    /\ verdict \in [Requests -> {"none", "approve", "reject"}]
    /\ handler \in [Requests -> {"idle", "gate", "executing", "answered", "dropped"}]
    /\ task \in [Requests -> TaskStates]
    /\ token \in [Requests -> BOOLEAN]
    /\ cancellations \in [Keys -> Requests \cup {NoRequest}]
    /\ reply \in [Requests -> Replies]
    /\ receipts \subseteq Requests \X Statuses
    /\ smac \subseteq Requests
    /\ cache \in [Tools -> Requests \cup {NoRequest}]
    /\ wanted \in [Requests -> {"no", "early", "inTime"}]

Init ==
    /\ GateInit
    /\ handler = [r \in Requests |-> "idle"]
    /\ task = [r \in Requests |-> "none"]
    /\ token = [r \in Requests |-> FALSE]
    /\ cancellations = [k \in Keys |-> NoRequest]
    /\ reply = [r \in Requests |-> "none"]
    /\ receipts = {}
    /\ smac = {}
    /\ cache = [t \in Tools |-> NoRequest]
    /\ wanted = [r \in Requests |-> "no"]

Answer(r, a) ==
    /\ handler' = [handler EXCEPT ![r] = "answered"]
    /\ reply' = [reply EXCEPT ![r] = a]

\* An append to a log for r: its error, if any, is warned of or dropped.
Logged(r, log, entry) ==
    {log \cup {entry}} \cup (IF r \in LogsFail THEN {log} ELSE {})

Unlogged == UNCHANGED <<receipts, smac, cache>>

(***************************************************************************)
(* Rate limit, policy, guardrails and taint: any of them may refuse.       *)
(***************************************************************************)
Made == {r \in Requests : handler[r] # "idle"}

Arrives(r) == handler[r] = "idle" /\ Cardinality(Made) < MaxCalls

FailChecks(r) ==
    /\ Arrives(r)
    /\ Answer(r, "refused")
    /\ Unlogged
    /\ UNCHANGED <<gateVars, task, token, cancellations, wanted>>

PassChecks(r) ==
    /\ Arrives(r)
    /\ handler' = [handler EXCEPT ![r] = "gate"]
    /\ IF r \in Protected THEN Ask(r) ELSE UNCHANGED gateVars
    /\ Unlogged
    /\ UNCHANGED <<task, token, cancellations, reply, wanted>>

\* vault.check_or_wait returned Ok(false), or Err when the vault is full.
GateRefuses(r) ==
    /\ handler[r] = "gate"
    /\ Refuse(r)
    /\ Answer(r, "refused")
    /\ Unlogged
    /\ UNCHANGED <<task, token, cancellations, wanted>>

Supervise(r, d) == Decide(r, d) /\ UNCHANGED callVars

(***************************************************************************)
(* check_or_wait returned Ok(true).  No await separates its return from    *)
(* the spawning of the task.                                               *)
(***************************************************************************)
GateAdmits_Unasked(r) == handler[r] = "gate" /\ UNCHANGED gateVars

GateAdmits(r) == handler[r] = "gate" /\ Admit(r)

CacheHit(r) == ToolOf[r] \in Cacheable /\ cache[ToolOf[r]] # NoRequest

ReplyUnknownTool(r) ==
    /\ GateAdmits(r)
    /\ ToolOf[r] \notin Registered
    /\ Answer(r, "notFound")
    /\ Unlogged
    /\ UNCHANGED <<task, token, cancellations, wanted>>

ReplyFromCache(r) ==
    /\ GateAdmits(r)
    /\ ToolOf[r] \in Registered
    /\ CacheHit(r)
    /\ Answer(r, "cached")
    /\ Unlogged
    /\ UNCHANGED <<task, token, cancellations, wanted>>

Register(r) == cancellations' = [cancellations EXCEPT ![KeyOf[r]] = r]

Unregister_Never(r) == UNCHANGED cancellations
Unregister(r) == cancellations' = [cancellations EXCEPT ![KeyOf[r]] = NoRequest]

Launch(r) ==
    /\ GateAdmits(r)
    /\ ToolOf[r] \in Registered
    /\ ~CacheHit(r)
    /\ handler' = [handler EXCEPT ![r] = "executing"]
    /\ task' = [task EXCEPT ![r] = "running"]
    /\ Register(r)
    /\ Unlogged
    /\ UNCHANGED <<token, reply, wanted>>

(***************************************************************************)
(* The spawned task.  An aborted task stops at its next await; until then  *)
(* it may still complete.                                                  *)
(***************************************************************************)
TaskStep(r, from, to) ==
    /\ task[r] \in from
    /\ task' = [task EXCEPT ![r] = to]
    /\ UNCHANGED <<gateVars, handler, token, cancellations, reply, receipts,
                   smac, cache, wanted>>

TaskEnds(r, o) == TaskStep(r, {"running", "aborting"}, o)
TaskSeesToken_Unwatched(r) == token[r] /\ TaskStep(r, {"aborting"}, "cancelled")
TaskSeesToken(r) == token[r] /\ TaskStep(r, {"running"}, "cancelled")
TaskAborts(r) == TaskStep(r, {"aborting"}, "aborted")

(***************************************************************************)
(* notifications/cancelled from the client of r, naming r's id while r is  *)
(* unanswered: the token under that text is cancelled, if there is one.    *)
(* While r waits at the gate no token is registered yet.                   *)
(***************************************************************************)
Holder(r) == cancellations[KeyOf[r]]

Cancel(r) ==
    /\ handler[r] \in {"gate", "executing"}
    /\ wanted' = [wanted EXCEPT ![r] =
                     IF handler[r] = "executing" THEN "inTime" ELSE "early"]
    /\ token' = IF Holder(r) = NoRequest THEN token
                ELSE [token EXCEPT ![Holder(r)] = TRUE]
    /\ UNCHANGED <<gateVars, handler, task, cancellations, reply, receipts,
                   smac, cache>>

(***************************************************************************)
(* The handler's select: the token or the task, whichever it polls ready.  *)
(***************************************************************************)
Abort(r) == task' = [task EXCEPT ![r] = IF @ = "running" THEN "aborting" ELSE @]

AnswerCancelled(r) ==
    /\ handler[r] = "executing"
    /\ token[r]
    /\ Abort(r)
    /\ Unregister(r)
    /\ Answer(r, "cancelled")
    /\ Unlogged
    /\ UNCHANGED <<gateVars, token, wanted>>

\* The task is over and the handler takes its outcome.
Collect(r, outcomes) ==
    /\ handler[r] = "executing"
    /\ task[r] \in outcomes
    /\ Unregister(r)
    /\ UNCHANGED <<gateVars, task, token, wanted>>

AnswerPanic(r) ==
    /\ Collect(r, {"panic"})
    /\ Answer(r, "panic")
    /\ Unlogged

AnswerToolError(r) ==
    /\ Collect(r, {"err", "cancelled"})
    /\ Answer(r, "toolError")
    /\ receipts' \in Logged(r, receipts, <<r, "ToolError">>)
    /\ UNCHANGED <<smac, cache>>

StoreInCache(r) ==
    cache' = IF ToolOf[r] \in Cacheable
             THEN [cache EXCEPT ![ToolOf[r]] = r] ELSE cache

\* The entry's time to live is over, or it is evicted to make room.
CacheForgets(t) ==
    /\ cache[t] # NoRequest
    /\ cache' = [cache EXCEPT ![t] = NoRequest]
    /\ UNCHANGED <<gateVars, handler, task, token, cancellations, reply,
                   receipts, smac, wanted>>

\* The output is larger than the policy allows, or over the token budget.
WithholdResult_CachesFirst(r) ==
    /\ Collect(r, {"ok"})
    /\ Answer(r, "withheld")
    /\ StoreInCache(r)
    /\ UNCHANGED <<receipts, smac>>

WithholdResult(r) ==
    /\ Collect(r, {"ok"})
    /\ Answer(r, "withheld")
    /\ Unlogged

Record(r) ==
    /\ smac' \in Logged(r, smac, r)
    /\ receipts' \in Logged(r, receipts, <<r, "Success">>)

AnswerResult(r) ==
    /\ Collect(r, {"ok"})
    /\ Answer(r, "result")
    /\ Record(r)
    /\ StoreInCache(r)

(***************************************************************************)
(* The future that runs the handler is dropped: its HTTP connection        *)
(* reached the time limit.  The task is detached, not stopped, and the     *)
(* token stays in the map.                                                 *)
(***************************************************************************)
Drop(r) ==
    /\ \/ handler[r] = "gate" /\ Refuse(r)
       \/ handler[r] = "executing" /\ UNCHANGED gateVars
    /\ handler' = [handler EXCEPT ![r] = "dropped"]
    /\ Unlogged
    /\ UNCHANGED <<task, token, cancellations, reply, wanted>>

Gated(r) == ReplyUnknownTool(r) \/ ReplyFromCache(r) \/ Launch(r) \/ GateRefuses(r)

Select(r) ==
    \/ AnswerCancelled(r) \/ AnswerPanic(r) \/ AnswerToolError(r)
    \/ WithholdResult(r) \/ AnswerResult(r)

Next ==
    \/ \E r \in Requests :
          \/ FailChecks(r) \/ PassChecks(r)
          \/ \E d \in {"approve", "reject"} : Supervise(r, d)
          \/ Gated(r)
          \/ \E o \in TaskOutcomes : TaskEnds(r, o)
          \/ TaskSeesToken(r) \/ TaskAborts(r)
          \/ Cancel(r)
          \/ Select(r)
          \/ Drop(r)
    \/ \E t \in Tools : CacheForgets(t)

Spec == Init /\ [][Next]_vars

(***************************************************************************)
(* The runtime keeps polling handlers and tasks, and the vault answers     *)
(* whoever waits (Vault!EveryCallEnds).      A tool need never end by      *)
(* itself, and neither clients nor supervisors need do anything.           *)
(***************************************************************************)
Fairness ==
    \A r \in Requests :
        /\ WF_vars(Gated(r))
        /\ WF_vars(TaskSeesToken(r))
        /\ WF_vars(TaskAborts(r))
        /\ WF_vars(Select(r))

FairSpec == Spec /\ Fairness
-----------------------------------------------------------------------------
(* Properties.                                                             *)

HasOwnKey(r) == \A q \in Made : KeyOf[q] = KeyOf[r] => q = r

\* No tool runs, and nothing is served from the cache, for a call the gate
\* did not let through; a protected call among them had been approved.
OnlyAdmittedCallsServed ==
    \A r \in Requests :
        task[r] # "none" \/ reply[r] = "cached" =>
            /\ stage[r] = "admitted"
            /\ r \in Protected => verdict[r] = "approve"

\* The cancellations map never points at a call that has been answered, so
\* that a late notification finds nothing and no entry outlives its call,
\* also when calls share an id; only a dropped handler leaves one behind.
NoStaleCancellation ==
    \A k \in Keys :
        cancellations[k] # NoRequest =>
            /\ handler[cancellations[k]] \in {"executing", "dropped"}
            /\ KeyOf[cancellations[k]] = k

\* A call whose id no other call uses can be cancelled as long as it executes,
\* and is cancelled only when its own client asked.
CancelHitsItsCall ==
    \A r \in Requests :
        HasOwnKey(r) =>
            /\ handler[r] = "executing" => cancellations[KeyOf[r]] = r
            /\ token[r] => wanted[r] # "no"

\* Both: while a call executes its id is the way to cancel it, and when it is
\* over there is none.
CancellationExact == NoStaleCancellation /\ CancelHitsItsCall

\* The audit trail and the answers agree: a receipt of success and a SMAC
\* entry stand for a result that was answered in full, a receipt of failure
\* for a tool error, and unless a log could not be written none is missing.
ReceiptsMatchAnswers ==
    \A r \in Requests :
        /\ <<r, "Success">> \in receipts => reply[r] = "result"
        /\ <<r, "ToolError">> \in receipts => reply[r] = "toolError"
        /\ r \in smac => reply[r] = "result"
        /\ r \notin LogsFail =>
              /\ reply[r] = "result" =>
                     <<r, "Success">> \in receipts /\ r \in smac
              /\ reply[r] = "toolError" => <<r, "ToolError">> \in receipts

\* What the cache serves passed the output limits when it was produced: it
\* was answered in full to the call that produced it.
CacheHoldsReleasedResults ==
    \A t \in Tools :
        cache[t] # NoRequest =>
            /\ reply[cache[t]] = "result"
            /\ ToolOf[cache[t]] = t /\ t \in Cacheable

\* Both: what is kept of a call, to be shown or served later, agrees with
\* what its client was told.
RecordsAgree == ReceiptsMatchAnswers /\ CacheHoldsReleasedResults

\* A call its client cancels while it executes, under an id of its own, is
\* answered although its tool never ends, and its task stops ("fixed task
\* orphanage", CHANGELOG F-06), also if the handler is dropped meanwhile and
\* nobody is left to abort it.
CancellationTakesEffect ==
    \A r \in Requests :
        wanted[r] = "inTime"
            ~> \/ /\ handler[r] # "executing"
                  /\ task[r] \notin {"running", "aborting"}
               \/ ~HasOwnKey(r)

\* A call that is cancelled while the vault holds it, before anybody has
\* decided it, leaves no task running ("fixed task orphanage on client
\* cancellation", CHANGELOG F-06), unless its handler is dropped.
NoTaskOrphaned ==
    \A r \in Requests :
        wanted[r] = "early" /\ r \in Protected /\ verdict[r] = "none"
            ~> \/ handler[r] = "dropped"
               \/ [](task[r] \notin {"running", "aborting"})

=============================================================================
