------------------------------- MODULE Vault -------------------------------
(***************************************************************************)
(* The time-locked approval vault, src/src/vault_lock.rs.                  *)
(*                                                                         *)
(* A tools/call task that names a protected tool runs check_or_wait: it    *)
(* looks at the size of the pending table under one lock, inserts its      *)
(* entry under another, then waits on a oneshot channel for at most        *)
(* `window`.  A supervisor's HTTP request approves or rejects an entry by  *)
(* its id; a background task drops expired entries.                        *)
(*                                                                         *)
(* A member of Requests is one run of check_or_wait and stands for the     *)
(* 128-bit random id that run draws: ids never repeat.  Clocks are         *)
(* countdowns: expiry[r] is the life left of the entry (expires_at - now)  *)
(* and timer[r] what is left of the caller's own timeout, which starts     *)
(* later than the entry's life and so may outlive it.                      *)
(*                                                                         *)
(* A definition named X_Y is X with the bug Y.  It is not part of the      *)
(* specification: it shows that some property tells X from X_Y.            *)
(***************************************************************************)
EXTENDS Integers, FiniteSets

CONSTANTS Requests,     \* runs of check_or_wait
          Protected,    \* those whose tool is on the protected list
          MaxPending,   \* MAX_PENDING
          Workers,      \* threads of the runtime that poll tasks
          Window        \* the approval window, in ticks

ASSUME VaultAssumption ==
    /\ IsFiniteSet(Requests)
    /\ Protected \subseteq Requests
    /\ MaxPending \in Nat
    /\ Workers \in Nat \ {0}
    /\ Window \in Nat

VARIABLES phase,        \* phase[r]: where the run r of check_or_wait is
          pending,      \* the ids in the pending table
          expiry,       \* expiry[r]: what is left of entry r's life
          timer,        \* timer[r]: what is left of r's timeout
          channel,      \* channel[r]: the oneshot between entry and caller
          told          \* told[r]: decisions acknowledged with success

vars == <<phase, pending, expiry, timer, channel, told>>

Decisions == {"approve", "reject"}
Phases == {"idle", "passed", "waiting", "gaveUp",
           "granted", "vetoed", "saturated", "dropped"}
Finished == {"granted", "vetoed", "saturated", "dropped"}

TypeOK ==
    /\ phase \in [Requests -> Phases]
    /\ pending \subseteq Requests
    /\ expiry \in [Requests -> 0 .. Window]
    /\ timer \in [Requests -> 0 .. Window]
    /\ channel \in [Requests -> Decisions \cup {"empty", "closed"}]
    /\ told \in [Requests -> SUBSET Decisions]

Init ==
    /\ phase = [r \in Requests |-> "idle"]
    /\ pending = {}
    /\ expiry = [r \in Requests |-> 0]
    /\ timer = [r \in Requests |-> 0]
    /\ channel = [r \in Requests |-> "empty"]
    /\ told = [r \in Requests |-> {}]

(***************************************************************************)
(* check_or_wait.  There is no await between the capacity check and the    *)
(* insertion, so at most one run per worker thread is between the two.     *)
(***************************************************************************)
BetweenLocks == {r \in Requests : phase[r] = "passed"}

HasRoom_OffByOne == Cardinality(pending) <= MaxPending

HasRoom == Cardinality(pending) < MaxPending

Bypass(r) ==
    /\ phase[r] = "idle"
    /\ r \notin Protected
    /\ phase' = [phase EXCEPT ![r] = "granted"]
    /\ UNCHANGED <<pending, expiry, timer, channel, told>>

CheckCapacity(r) ==
    /\ phase[r] = "idle"
    /\ r \in Protected
    /\ Cardinality(BetweenLocks) < Workers
    /\ IF HasRoom
       THEN /\ phase' = [phase EXCEPT ![r] = "passed"]
            /\ expiry' = [expiry EXCEPT ![r] = Window]
       ELSE /\ phase' = [phase EXCEPT ![r] = "saturated"]
            /\ UNCHANGED expiry
    /\ UNCHANGED <<pending, timer, channel, told>>

Insert(r) ==
    /\ phase[r] = "passed"
    /\ phase' = [phase EXCEPT ![r] = "waiting"]
    /\ pending' = pending \cup {r}
    /\ timer' = [timer EXCEPT ![r] = Window]
    /\ UNCHANGED <<expiry, channel, told>>

\* timeout() polls the channel before the deadline: a decision that has
\* arrived is taken even when the deadline has passed as well.
TakeDecision(r) ==
    /\ phase[r] = "waiting"
    /\ channel[r] \in Decisions
    /\ phase' = [phase EXCEPT ![r] =
                    IF channel[r] = "approve" THEN "granted" ELSE "vetoed"]
    /\ timer' = [timer EXCEPT ![r] = 0]
    /\ UNCHANGED <<pending, expiry, channel, told>>

\* The wait ends without a decision: the deadline, or the entry was reaped.
NoDecision_DeadlineFirst(r) == timer[r] = 0 \/ channel[r] = "closed"

NoDecision(r) ==
    \/ channel[r] = "empty" /\ timer[r] = 0
    \/ channel[r] = "closed"

GiveUp(r) ==
    /\ phase[r] = "waiting"
    /\ NoDecision(r)
    /\ phase' = [phase EXCEPT ![r] = "gaveUp"]
    /\ timer' = [timer EXCEPT ![r] = 0]
    /\ UNCHANGED <<pending, expiry, channel, told>>

\* pending.lock().remove(&id), then Ok(false).
RemoveOwn_FailsOpen(r) ==
    /\ phase[r] = "gaveUp"
    /\ phase' = [phase EXCEPT ![r] = "granted"]
    /\ pending' = pending \ {r}
    /\ expiry' = [expiry EXCEPT ![r] = 0]
    /\ UNCHANGED <<timer, channel, told>>

RemoveOwn(r) ==
    /\ phase[r] = "gaveUp"
    /\ phase' = [phase EXCEPT ![r] = "vetoed"]
    /\ pending' = pending \ {r}
    /\ expiry' = [expiry EXCEPT ![r] = 0]
    /\ UNCHANGED <<timer, channel, told>>

\* The future that awaits is dropped with its HTTP connection.
Abandon(r) ==
    /\ phase[r] = "waiting"
    /\ phase' = [phase EXCEPT ![r] = "dropped"]
    /\ timer' = [timer EXCEPT ![r] = 0]
    /\ UNCHANGED <<pending, expiry, channel, told>>

(***************************************************************************)
(* approve(id) and reject(id).  Their reply is true whenever the entry was *)
(* there, whether or not somebody still listens on the channel.  An        *)
(* unknown id changes nothing and is answered with false.                  *)
(***************************************************************************)
Decide_KeepsEntry(r, d) ==
    /\ r \in pending
    /\ channel' = [channel EXCEPT ![r] = IF phase[r] = "waiting" THEN d ELSE @]
    /\ told' = [told EXCEPT ![r] = @ \cup {d}]
    /\ UNCHANGED <<phase, pending, expiry, timer>>

Decide(r, d) ==
    /\ r \in pending
    /\ pending' = pending \ {r}
    /\ expiry' = [expiry EXCEPT ![r] = 0]
    /\ channel' = [channel EXCEPT ![r] = IF phase[r] = "waiting" THEN d ELSE @]
    /\ told' = [told EXCEPT ![r] = @ \cup {d}]
    /\ UNCHANGED <<phase, timer>>

\* retain(|_, e| e.expires_at > now): an entry that goes takes its sender
\* with it.
Expired_OneEarly == {r \in pending : expiry[r] <= 1}
Expired_OnlyAwaited == {r \in pending : expiry[r] = 0 /\ phase[r] = "waiting"}

Expired == {r \in pending : expiry[r] = 0}

Reap ==
    /\ Expired # {}
    /\ pending' = pending \ Expired
    /\ channel' = [r \in Requests |->
                      IF r \in Expired THEN "closed" ELSE channel[r]]
    /\ UNCHANGED <<phase, expiry, timer, told>>

CountDown(f) == [r \in Requests |-> IF f[r] > 0 THEN f[r] - 1 ELSE 0]

Tick ==
    /\ \E r \in Requests : expiry[r] > 0 \/ timer[r] > 0
    /\ expiry' = CountDown(expiry)
    /\ timer' = CountDown(timer)
    /\ UNCHANGED <<phase, pending, channel, told>>

Run(r) == Insert(r) \/ TakeDecision(r) \/ GiveUp(r) \/ RemoveOwn(r)

Next ==
    \/ \E r \in Requests :
          \/ Bypass(r)
          \/ CheckCapacity(r)
          \/ Run(r)
          \/ Abandon(r)
          \/ \E d \in Decisions : Decide(r, d)
    \/ Reap
    \/ Tick

Spec == Init /\ [][Next]_vars

(***************************************************************************)
(* Once a run has started the runtime keeps polling it, time passes and    *)
(* the background task's interval keeps firing.  Nobody has to start a     *)
(* call, to decide, or to hang up.                                         *)
(***************************************************************************)
Fairness ==
    /\ \A r \in Requests : WF_vars(Run(r))
    /\ WF_vars(Reap)
    /\ WF_vars(Tick)

FairSpec == Spec /\ Fairness
-----------------------------------------------------------------------------
(* Properties.                                                             *)

\* A protected call gets Ok(true) only if a supervisor was told that it is
\* approved, and nobody was told that it is rejected (check_or_wait fails
\* closed against timeouts, reaping and a racing reject).
GrantedOnlyIfApproved ==
    \A r \in Protected : phase[r] = "granted" => told[r] = {"approve"}

\* approve and reject race for the same entry, but only one of them is ever
\* answered with success (test_vault_idempotent_approve, for any pair).
OneDecision == \A r \in Requests : Cardinality(told[r]) <= 1

\* The capacity check and the insertion are two critical sections, so the
\* table may exceed MAX_PENDING, but never by more than the number of
\* threads that can be between the two, less one.
BoundedOvershoot ==
    Cardinality(pending) + Cardinality(BetweenLocks)
        <= MaxPending + Workers - 1

\* A caller that still waits can still be reached: it has an entry a
\* supervisor can decide, or the channel already says how the wait ends.
NobodyWaitsInVain ==
    \A r \in Requests :
        phase[r] = "waiting" => (r \in pending <=> channel[r] = "empty")

\* A decision that reached a caller before it gave up is never replaced by
\* a veto: timeout() looks at the channel first.
DeliveredApprovalHolds ==
    \A r \in Requests :
        channel[r] = "approve" => phase[r] \in {"waiting", "granted", "dropped"}

\* Both: a decision in the table is one its caller can get, and one it got
\* stands.
DecisionsArrive == NobodyWaitsInVain /\ DeliveredApprovalHolds

\* An entry leaves the table only on an acknowledged decision or when its
\* life is over: neither the reaper nor the caller, whose own timeout runs
\* on another clock, takes away a decision the supervisor could still make.
EntryLeavesForCause ==
    [][\A r \in pending \ pending' : told'[r] # told[r] \/ expiry[r] = 0]_vars

\* Every call that got past the capacity check is answered, with the
\* decision or with a veto when its window is over; and the entry of one
\* whose caller hung up does not stay in the table for ever.
EveryCallEnds ==
    \A r \in Requests :
        /\ phase[r] = "passed" ~> phase[r] \in Finished
        /\ (phase[r] = "dropped" /\ r \in pending) ~> r \notin pending

-----------------------------------------------------------------------------
(* The vault implements the approval gate.                                 *)

GateStage ==
    [r \in Requests |->
        IF phase[r] = "idle" THEN "unasked"
        ELSE IF phase[r] = "granted" THEN "admitted"
        ELSE IF phase[r] \in Finished THEN "refused" ELSE "held"]

GateVerdict ==
    [r \in Requests |->
        IF told[r] = {} THEN "none"
        ELSE IF told[r] = {"approve"} THEN "approve"
        ELSE IF told[r] = {"reject"} THEN "reject" ELSE "both"]

Gate == INSTANCE ApprovalGate WITH stage <- GateStage, verdict <- GateVerdict

\* Every behaviour of the vault is one of the abstract approval gate; that a
\* second decision about a call is acknowledged has no counterpart there.
ImplementsGate == Gate!GateSpec

=============================================================================
