------------------------------- MODULE Limits -------------------------------
(***************************************************************************)
(* The limits a call passes in Server::handle_request: the rate limit of   *)
(* the policy engine (src/src/policy.rs), the rate limit, loop breaker and *)
(* output budget of the guardrail (src/src/guardrails.rs), and the         *)
(* "shutdown" notification, which resets the guardrail piece by piece.     *)
(*                                                                         *)
(* Every check is one section under a lock, but its thread has read the    *)
(* clock before it got the lock, up to Skew ticks earlier.  A time is kept *)
(* as its age, which ends at Oldest, when no check can see it any more.    *)
(* No await separates the checks of a call, nor the charges for its texts; *)
(* other threads come between them all the same.                           *)
(*                                                                         *)
(* Within check_call the history's lock is held from start to end, and the *)
(* clearing of a later piece by reset commutes with the part before that   *)
(* piece: check_call is one step.  X_Y is X with the bug Y (see Vault).    *)
(***************************************************************************)
EXTENDS Integers, Sequences, Functions, FiniteSets, FiniteSetsExt

CONSTANTS Threads,      \* threads that run handlers
          Signatures,   \* a tool with its normalized arguments
          Tools,
          ToolOf,       \* ToolOf[x]: the tool of signature x
          Configs,      \* ways the server may be set up
          Minute,       \* the window of both rate limits, in ticks
          Hour,         \* the window of the budget, in ticks
          Recent,       \* RECENT_WINDOW
          Outputs,      \* what tools put out: the lengths of the texts
          Skew          \* how late a thread may use an instant

Config == [called : SUBSET Signatures,   \* what its clients call,
           calls : Nat,            \* and how often: a bound
           engine : BOOLEAN,       \* there is a policy engine,
           enforcing : BOOLEAN,    \* in mode enforcing, not permissive
           policyRate : Nat,       \* limits.max_calls_per_minute, 0 for none
           guardrail : BOOLEAN,    \* there is a guardrail,
           rate : Nat,             \* max_calls_per_minute
           threshold : Nat,        \* loop_detection_threshold
           budgeted : BOOLEAN,     \* with a budget,
           budget : Nat]           \* max_session_chars

ASSUME LimitsAssumption ==
    /\ IsFiniteSet(Threads)
    /\ ToolOf \in [Signatures -> Tools]
    /\ Configs \subseteq Config
    /\ Minute \in Nat \ {0} /\ Hour \in Nat \ {0}
    /\ Recent \in Nat \ {0} /\ Skew \in Nat
    /\ Outputs \subseteq Seq(Nat)

VARIABLES config,
          slot,        \* slot[w]: the call thread w is at, and how far it is
          made,        \* calls made so far
          hits,        \* rate_limits[t] of the engine: ages, as queued
          history,     \* history[t] of the guardrail: a count for each age
          last,        \* last_signature and its count
          recent,      \* recent_signatures
          charged,     \* char_history: ages and lengths, as queued
          clearing,    \* pieces a reset has cleared
          \* History variables: a count, or a sum of lengths, for each age.
          passed,      \* passed[t]: calls the enforcing engine let pass
          admitted,    \* admitted[t]: calls check_call let pass, since reset
          examined,    \* what the loop breaker said of the latest signatures
          since,       \* since[x]: calls it saw since its last reset
          released     \* text released, since reset

engineVars == <<hits, passed>>
guardVars == <<history, last, recent, admitted, examined, since>>
budgetVars == <<charged, released>>
vars == <<config, slot, made, engineVars, guardVars, budgetVars, clearing>>

Oldest == Max({Minute, Hour}) + Skew + 1
Ages == 0 .. Oldest
None == [a \in Ages |-> 0]
Free == [at |-> "free"]
Steps == [at : {"limited", "checked"}, sig : Signatures]
Charges == [at : {"charging"}, texts : Seq(Nat), due : Seq(Nat)]

TypeOK ==
    /\ config \in Configs
    /\ slot \in [Threads -> {Free} \cup Steps \cup Charges]
    /\ made \in 0 .. config.calls
    /\ hits \in [Tools -> Seq(Ages)]
    /\ \A t \in Tools : Len(hits[t]) <= config.policyRate
    /\ history \in [Tools -> [Ages -> Nat]]
    /\ last = <<>> \/ last \in Signatures \X (1 .. config.threshold)
    /\ recent \in Seq(Signatures) /\ Len(recent) <= Recent
    /\ charged \in Seq(Ages \X Nat)
    /\ clearing \in 0 .. 3
    /\ passed \in [Tools -> [Ages -> Nat]] /\ admitted \in [Tools -> [Ages -> Nat]]
    /\ released \in [Ages -> Nat] /\ since \in [Signatures -> Nat]
    /\ examined \in Seq(Signatures \X BOOLEAN)

Init ==
    /\ config \in Configs
    /\ slot = [w \in Threads |-> Free]
    /\ made = 0
    /\ hits = [t \in Tools |-> <<>>]
    /\ history = [t \in Tools |-> None]
    /\ last = <<>> /\ recent = <<>> /\ charged = <<>> /\ clearing = 0
    /\ passed = [t \in Tools |-> None] /\ admitted = [t \in Tools |-> None]
    /\ examined = <<>> /\ since = [x \in Signatures |-> 0] /\ released = None

\* What the ages sum up to, for those a window of w ticks reaches.
Within(f, w) == SumFunctionOnSet(f, {a \in Ages : a < w})

Lags == 0 .. Skew
Moves(w, place) == slot' = [slot EXCEPT ![w] = place]

(***************************************************************************)
(* PolicyEngine::check_rate_limit, by a thread that read the clock k ticks *)
(* ago.  Entries are dropped from the front, as long as they are old.      *)
(***************************************************************************)
FromFirst(s, kept) == IF kept = {} THEN <<>> ELSE SubSeq(s, Min(kept), Len(s))

Live_Early(k, a) == a - k + 1 < Minute
Live(k, a) == a - k < Minute

Queued(t, k) == FromFirst(hits[t], {i \in DOMAIN hits[t] : Live(k, hits[t][i])})

\* The engine does not limit the tool, or its window has room, or the engine
\* only takes note.
LimitRate(w, x, k) ==
    LET t == ToolOf[x]
        queue == Queued(t, k)
        limited == config.engine /\ config.policyRate > 0
        room == Len(queue) < config.policyRate
    IN  /\ slot[w] = Free /\ made < config.calls
        /\ made' = made + 1
        /\ hits' = IF ~limited THEN hits
                   ELSE [hits EXCEPT ![t] = IF room THEN Append(queue, k) ELSE queue]
        /\ IF limited /\ ~room /\ config.enforcing
           THEN UNCHANGED <<slot, passed>>
           ELSE /\ Moves(w, [at |-> "limited", sig |-> x])
                /\ passed' = IF limited THEN [passed EXCEPT ![t][0] = @ + 1] ELSE passed
        /\ UNCHANGED <<config, guardVars, budgetVars, clearing>>

(***************************************************************************)
(* GuardrailPolicy::check_call.  Every hundredth call drops what is old    *)
(* for all tools, the others for their own.  The time of a call is noted   *)
(* before the loop breaker looks at it.                                    *)
(***************************************************************************)
Dropped(h, k) == [a \in Ages |-> IF Live(k, a) THEN h[a] ELSE 0]

Pruned(t, k, all) ==
    [u \in Tools |-> IF u = t \/ all THEN Dropped(history[u], k) ELSE history[u]]

Streak(x) == IF last # <<>> /\ last[1] = x THEN last[2] + 1 ELSE 1

Trim(s) == IF Len(s) > Recent THEN Tail(s) ELSE s

Count(s, x) == Cardinality({i \in DOMAIN s : s[i] = x})

Repeats_BeforePush(x) == Count(recent, x) > config.threshold
Repeats(x) == Count(Trim(Append(recent, x)), x) > config.threshold

Latest(s) == IF Len(s) > Recent THEN Tail(s) ELSE s

CheckCall(w, k, all) ==
    LET x == slot[w].sig
        t == ToolOf[x]
        kept == Pruned(t, k, all)
        loops == Streak(x) > config.threshold
        passes == ~loops /\ ~Repeats(x)
    IN  /\ slot[w].at = "limited"
        /\ config.guardrail
        /\ IF SumFunction(kept[t]) >= config.rate
           THEN /\ history' = kept
                /\ Moves(w, Free)
                /\ UNCHANGED <<last, recent, admitted, examined, since>>
           ELSE /\ history' = [kept EXCEPT ![t][k] = @ + 1]
                /\ IF loops THEN UNCHANGED <<last, recent>>
                   ELSE /\ last' = <<x, Streak(x)>>
                        /\ recent' = Trim(Append(recent, x))
                /\ Moves(w, IF passes THEN [slot[w] EXCEPT !.at = "checked"] ELSE Free)
                /\ admitted' = IF passes THEN [admitted EXCEPT ![t][0] = @ + 1]
                               ELSE admitted
                /\ examined' = Latest(Append(examined, <<x, passes>>))
                /\ since' = [since EXCEPT ![x] = @ + 1]
        /\ UNCHANGED <<config, made, engineVars, budgetVars, clearing>>

NoGuardrail(w) ==
    /\ slot[w].at = "limited" /\ ~config.guardrail
    /\ Moves(w, [slot[w] EXCEPT !.at = "checked"])
    /\ UNCHANGED <<config, made, engineVars, guardVars, budgetVars, clearing>>

(***************************************************************************)
(* A call ends without new output: a path, command, taint or vault check   *)
(* refuses it, the tool fails, the output is too large, or the answer      *)
(* comes from the cache, which is not charged again.                       *)
(***************************************************************************)
Leave(w) ==
    /\ slot[w].at \in {"limited", "checked"}
    /\ Moves(w, Free)
    /\ UNCHANGED <<config, made, engineVars, guardVars, budgetVars, clearing>>

\* The tool's output has come; it is released as it is if there is no budget.
Produce(w, output) ==
    /\ slot[w].at = "checked"
    /\ Moves(w, IF config.guardrail /\ config.budgeted
                THEN [at |-> "charging", texts |-> output, due |-> output] ELSE Free)
    /\ UNCHANGED <<config, made, engineVars, guardVars, budgetVars, clearing>>

(***************************************************************************)
(* GuardrailPolicy::record_output for the next text.  If one is refused    *)
(* the call is answered with an error; what was charged remains charged.   *)
(***************************************************************************)
Billed(k) == FromFirst(charged, {i \in DOMAIN charged : charged[i][1] - k <= Hour})

Owed(bill) == SumFunction([i \in DOMAIN bill |-> bill[i][2]])

Affordable_Alone(bill, n) == n <= config.budget
Affordable(bill, n) == Owed(bill) + n <= config.budget

Charge(w, k) ==
    LET bill == Billed(k)
        n == Head(slot[w].due)
    IN  /\ slot[w].at = "charging" /\ slot[w].due # <<>>
        /\ IF Affordable(bill, n)
           THEN /\ charged' = Append(bill, <<k, n>>)
                /\ Moves(w, [slot[w] EXCEPT !.due = Tail(@)])
           ELSE /\ charged' = bill
                /\ Moves(w, Free)
        /\ UNCHANGED <<config, made, engineVars, guardVars, released, clearing>>

Release(w) ==
    /\ slot[w].at = "charging" /\ slot[w].due = <<>>
    /\ released' = [released EXCEPT ![0] = @ + SumFunction(slot[w].texts)]
    /\ Moves(w, Free)
    /\ UNCHANGED <<config, made, engineVars, guardVars, charged, clearing>>

(***************************************************************************)
(* "shutdown": GuardrailPolicy::reset, four pieces under four locks.       *)
(***************************************************************************)
ClearHistory ==
    /\ config.guardrail /\ clearing = 0
    /\ clearing' = 1
    /\ history' = [t \in Tools |-> None] /\ admitted' = [t \in Tools |-> None]
    /\ UNCHANGED <<config, slot, made, engineVars, last, recent, examined, since,
                   budgetVars>>

\* What was charged before is no longer counted, in a result under way either.
ClearCharged ==
    /\ clearing = 1 /\ clearing' = 2
    /\ charged' = <<>> /\ released' = None
    /\ slot' = [w \in Threads |-> IF slot[w].at = "charging"
                                  THEN [slot[w] EXCEPT !.texts = slot[w].due]
                                  ELSE slot[w]]
    /\ UNCHANGED <<config, made, engineVars, guardVars>>

ClearLast ==
    /\ clearing = 2 /\ clearing' = 3
    /\ last' = <<>> /\ since' = [x \in Signatures |-> 0]
    /\ UNCHANGED <<config, slot, made, engineVars, history, recent, admitted, examined,
                   budgetVars>>

Forgotten(s) == <<>>

ClearRecent ==
    /\ clearing = 3 /\ clearing' = 0
    /\ recent' = Forgotten(recent) /\ examined' = <<>>
    /\ UNCHANGED <<config, slot, made, engineVars, history, last, admitted, since,
                   budgetVars>>

(***************************************************************************)
(* Time.  The charges of one result take less than a tick.                 *)
(***************************************************************************)
Age(a) == Min({a + 1, Oldest})
Aged(f) == [a \in Ages |-> IF a \in {0, Oldest} THEN 0 ELSE f[a - 1]]

Tick ==
    /\ \A w \in Threads : slot[w].at # "charging"
    /\ hits' = [t \in Tools |-> [i \in DOMAIN hits[t] |-> Age(hits[t][i])]]
    /\ charged' = [i \in DOMAIN charged |-> <<Age(charged[i][1]), charged[i][2]>>]
    /\ history' = [t \in Tools |-> Aged(history[t])]
    /\ passed' = [t \in Tools |-> Aged(passed[t])]
    /\ admitted' = [t \in Tools |-> Aged(admitted[t])]
    /\ released' = Aged(released)
    /\ UNCHANGED <<config, slot, made, last, recent, examined, since, clearing>>

Next ==
    \/ \E w \in Threads :
          \/ \E x \in config.called, k \in Lags : LimitRate(w, x, k)
          \/ \E k \in Lags, all \in BOOLEAN : CheckCall(w, k, all)
          \/ NoGuardrail(w) \/ Leave(w) \/ Release(w)
          \/ \E output \in Outputs : Produce(w, output)
          \/ \E k \in Lags : Charge(w, k)
    \/ ClearHistory \/ ClearCharged \/ ClearLast \/ ClearRecent
    \/ Tick

Spec == Init /\ [][Next]_vars
-----------------------------------------------------------------------------
(* Properties.                                                             *)

\* No tool is called more often than a rate limit allows in any window, less
\* the time a thread may lag behind, however the calls interleave; and the
\* engine refuses a tool only if it let that many calls pass in the last
\* window and the lag.
RatesHold ==
    /\ TypeOK
    /\ \A t \in Tools :
        /\ config.engine /\ config.enforcing /\ config.policyRate > 0
              => Within(passed[t], Minute - Skew) <= config.policyRate
        /\ Within(admitted[t], Minute - Skew) <= config.rate
        /\ \A k \in Lags :
              config.engine /\ config.enforcing
                  => Len(Queued(t, k)) <= Within(passed[t], Minute + Skew)

\* Of the latest calls the loop breaker saw it let at most the threshold pass
\* for each signature, whatever was called between them; and it stops a
\* signature only if it saw it that often since the last reset.
LoopsBreak ==
    \A x \in Signatures :
        /\ Count(examined, <<x, TRUE>>) <= config.threshold
        /\ Streak(x) - 1 <= since[x]
        /\ clearing # 3 => Count(recent, x) <= since[x]

\* The text that leaves the server within an hour, less the lag, fits the
\* budget, also when results of several texts are charged at the same time.
BudgetHolds ==
    config.budgeted => Within(released, Hour - Skew) <= config.budget

=============================================================================
