---------------------------- MODULE VaultProofs ----------------------------
(***************************************************************************)
(* What holds of the vault for every set of calls, every table size,       *)
(* every number of threads and every window.                               *)
(***************************************************************************)
EXTENDS Vault, FiniteSetTheorems, TLAPS

USE VaultAssumption

(***************************************************************************)
(* The inductive invariant.  Knowledge says how the three places that know *)
(* about a decision (the table, the channel, the supervisor) agree with    *)
(* the phase of the call; Clocks says that the caller's own timeout never  *)
(* ends before the life of its entry.                                      *)
(***************************************************************************)
Untouched(r) == r \notin pending /\ told[r] = {} /\ channel[r] = "empty"

Knowledge ==
    \A r \in Requests :
        /\ phase[r] \in {"idle", "passed", "saturated"} => Untouched(r)
        /\ r \notin Protected => phase[r] \in {"idle", "granted"} /\ Untouched(r)
        /\ r \in pending => told[r] = {} /\ channel[r] = "empty"
        /\ channel[r] \in Decisions => told[r] = {channel[r]}
        /\ phase[r] = "waiting" => (r \in pending <=> channel[r] = "empty")
        /\ phase[r] = "granted" /\ r \in Protected => channel[r] = "approve"
        /\ channel[r] = "approve" => phase[r] \in {"waiting", "granted", "dropped"}
        /\ told[r] = {} \/ \E d \in Decisions : told[r] = {d}
        /\ phase[r] \in Finished /\ r \in pending => phase[r] = "dropped"

Clocks ==
    \A r \in Requests :
        /\ phase[r] = "waiting" /\ r \in pending => expiry[r] <= timer[r]
        /\ phase[r] = "gaveUp" /\ r \in pending => expiry[r] = 0

IInv == TypeOK /\ Knowledge /\ Clocks

\* Types are respected by every step of the vault.
THEOREM TypeCorrect == Spec => []TypeOK
<1>1. Init => TypeOK
  BY DEF Init, TypeOK, Phases, Decisions
<1>2. TypeOK /\ [Next]_vars => TypeOK'
  <2> SUFFICES ASSUME TypeOK, [Next]_vars PROVE TypeOK'
    OBVIOUS
  <2> USE DEF TypeOK, Phases, Decisions
  <2>1. ASSUME NEW r \in Requests, Bypass(r) PROVE TypeOK'
    BY <2>1 DEF Bypass
  <2>2. ASSUME NEW r \in Requests, CheckCapacity(r) PROVE TypeOK'
    BY <2>2 DEF CheckCapacity
  <2>3. ASSUME NEW r \in Requests, Insert(r) PROVE TypeOK'
    BY <2>3 DEF Insert
  <2>4. ASSUME NEW r \in Requests, TakeDecision(r) PROVE TypeOK'
    BY <2>4 DEF TakeDecision
  <2>5. ASSUME NEW r \in Requests, GiveUp(r) PROVE TypeOK'
    BY <2>5 DEF GiveUp
  <2>6. ASSUME NEW r \in Requests, RemoveOwn(r) PROVE TypeOK'
    BY <2>6 DEF RemoveOwn
  <2>7. ASSUME NEW r \in Requests, Abandon(r) PROVE TypeOK'
    BY <2>7 DEF Abandon
  <2>8. ASSUME NEW r \in Requests, NEW d \in Decisions, Decide(r, d) PROVE TypeOK'
    BY <2>8 DEF Decide
  <2>9. CASE Reap
    BY <2>9 DEF Reap, Expired
  <2>10. CASE Tick
    BY <2>10 DEF Tick, CountDown
  <2>11. CASE UNCHANGED vars
    BY <2>11 DEF vars
  <2> QED
    BY <2>1, <2>2, <2>3, <2>4, <2>5, <2>6, <2>7, <2>8, <2>9, <2>10, <2>11
       DEF Next, Run
<1> QED
  BY <1>1, <1>2, PTL DEF Spec

\* Every step preserves the agreement of table, channel and supervisor.
LEMMA KnowledgeStep == IInv /\ [Next]_vars => Knowledge'
<1> SUFFICES ASSUME IInv, [Next]_vars, NEW q \in Requests
             PROVE  Knowledge!(q)'
  BY DEF Knowledge
<1> USE DEF IInv, TypeOK, Knowledge, Untouched, Decisions, Phases, Finished
<1>1. ASSUME NEW r \in Requests, Bypass(r) PROVE Knowledge!(q)'
  BY <1>1 DEF Bypass
<1>2. ASSUME NEW r \in Requests, CheckCapacity(r) PROVE Knowledge!(q)'
  BY <1>2 DEF CheckCapacity
<1>3. ASSUME NEW r \in Requests, Insert(r) PROVE Knowledge!(q)'
  BY <1>3 DEF Insert
<1>4. ASSUME NEW r \in Requests, TakeDecision(r) PROVE Knowledge!(q)'
  BY <1>4 DEF TakeDecision
<1>5. ASSUME NEW r \in Requests, GiveUp(r) PROVE Knowledge!(q)'
  BY <1>5 DEF GiveUp, NoDecision
<1>6. ASSUME NEW r \in Requests, RemoveOwn(r) PROVE Knowledge!(q)'
  BY <1>6 DEF RemoveOwn
<1>7. ASSUME NEW r \in Requests, Abandon(r) PROVE Knowledge!(q)'
  BY <1>7 DEF Abandon
<1>8. ASSUME NEW r \in Requests, NEW d \in Decisions, Decide(r, d)
      PROVE Knowledge!(q)'
  BY <1>8 DEF Decide
<1>9. CASE Reap
  BY <1>9 DEF Reap, Expired
<1>10. CASE Tick
  BY <1>10 DEF Tick
<1>11. CASE UNCHANGED vars
  BY <1>11 DEF vars
<1> QED
  BY <1>1, <1>2, <1>3, <1>4, <1>5, <1>6, <1>7, <1>8, <1>9, <1>10, <1>11
     DEF Next, Run

\* Every step keeps the caller's timeout at or behind the life of its entry.
LEMMA ClocksStep == IInv /\ [Next]_vars => Clocks'
<1> SUFFICES ASSUME IInv, [Next]_vars, NEW q \in Requests
             PROVE  Clocks!(q)'
  BY DEF Clocks
<1> USE DEF IInv, TypeOK, Clocks, Phases, Decisions
<1>1. ASSUME NEW r \in Requests, Bypass(r) PROVE Clocks!(q)'
  BY <1>1 DEF Bypass
<1>2. ASSUME NEW r \in Requests, CheckCapacity(r) PROVE Clocks!(q)'
  BY <1>2 DEF CheckCapacity
<1>3. ASSUME NEW r \in Requests, Insert(r) PROVE Clocks!(q)'
  BY <1>3 DEF Insert
<1>4. ASSUME NEW r \in Requests, TakeDecision(r) PROVE Clocks!(q)'
  BY <1>4 DEF TakeDecision
<1>5. ASSUME NEW r \in Requests, GiveUp(r) PROVE Clocks!(q)'
  BY <1>5 DEF GiveUp, NoDecision, Knowledge
<1>6. ASSUME NEW r \in Requests, RemoveOwn(r) PROVE Clocks!(q)'
  BY <1>6 DEF RemoveOwn
<1>7. ASSUME NEW r \in Requests, Abandon(r) PROVE Clocks!(q)'
  BY <1>7 DEF Abandon
<1>8. ASSUME NEW r \in Requests, NEW d \in Decisions, Decide(r, d)
      PROVE Clocks!(q)'
  BY <1>8 DEF Decide
<1>9. CASE Reap
  BY <1>9 DEF Reap, Expired
<1>10. CASE Tick
  BY <1>10 DEF Tick, CountDown
<1>11. CASE UNCHANGED vars
  BY <1>11 DEF vars
<1> QED
  BY <1>1, <1>2, <1>3, <1>4, <1>5, <1>6, <1>7, <1>8, <1>9, <1>10, <1>11
     DEF Next, Run

\* The invariant holds in every reachable state.
THEOREM Invariance == Spec => []IInv
<1>1. Init => IInv
  BY DEF Init, IInv, TypeOK, Knowledge, Clocks, Untouched, Phases, Decisions,
         Finished
<1>2. IInv /\ TypeOK' /\ [Next]_vars => IInv'
  BY KnowledgeStep, ClocksStep DEF IInv
<1> QED
  BY <1>1, <1>2, TypeCorrect, PTL DEF Spec

\* The vault fails closed: without an acknowledged approval, and with an
\* acknowledged rejection, a protected call is never let through.
THEOREM FailsClosed == Spec => []GrantedOnlyIfApproved
<1>1. IInv => GrantedOnlyIfApproved
  BY DEF IInv, Knowledge, GrantedOnlyIfApproved, Decisions
<1> QED
  BY <1>1, Invariance, PTL

\* Of all the approvals and rejections that race for an entry at most one
\* is acknowledged.
THEOREM DecidedOnce == Spec => []OneDecision
<1>1. IInv => OneDecision
  <2> SUFFICES ASSUME IInv, NEW r \in Requests
               PROVE  Cardinality(told[r]) <= 1
    BY DEF OneDecision
  <2>1. CASE told[r] = {}
    BY <2>1, FS_EmptySet
  <2>2. CASE \E d \in Decisions : told[r] = {d}
    BY <2>2, FS_Singleton
  <2> QED
    BY <2>1, <2>2 DEF IInv, Knowledge
<1> QED
  BY <1>1, Invariance, PTL

\* A waiting caller is reachable, and a decision it has received stands.
THEOREM DecisionsReachCallers == Spec => []DecisionsArrive
<1>1. IInv => DecisionsArrive
  BY DEF IInv, Knowledge, DecisionsArrive, NobodyWaitsInVain, DeliveredApprovalHolds
<1> QED
  BY <1>1, Invariance, PTL

\* No entry is taken from the table before its life is over, except by an
\* acknowledged decision.
THEOREM EntriesLeaveForCause == Spec => EntryLeavesForCause
<1>1. IInv /\ [Next]_vars =>
        [\A r \in pending \ pending' : told'[r] # told[r] \/ expiry[r] = 0]_vars
  <2> SUFFICES ASSUME IInv, [Next]_vars, NEW r \in pending, r \notin pending'
               PROVE  told'[r] # told[r] \/ expiry[r] = 0
    OBVIOUS
  <2> r \in Requests
    BY DEF IInv, TypeOK
  <2>1. ASSUME NEW q \in Requests, RemoveOwn(q) PROVE expiry[r] = 0
    BY <2>1 DEF RemoveOwn, IInv, Clocks
  <2>2. ASSUME NEW q \in Requests, NEW d \in Decisions, Decide(q, d)
        PROVE told'[r] # told[r]
    <3>1. r = q /\ told[r] = {}
      BY <2>2 DEF Decide, IInv, Knowledge
    <3> QED
      BY <2>2, <3>1 DEF Decide, IInv, TypeOK
  <2>3. CASE Reap
    BY <2>3 DEF Reap, Expired
  <2> QED
    BY <2>1, <2>2, <2>3
       DEF Next, Run, vars, Bypass, CheckCapacity, Insert, TakeDecision,
           GiveUp, Abandon, Tick
<1> QED
  BY <1>1, Invariance, PTL DEF Spec, EntryLeavesForCause

(***************************************************************************)
(* The pending table.  What the capacity check admits is inserted later;   *)
(* only the threads between the two locks can carry the table over its     *)
(* ceiling.                                                                *)
(***************************************************************************)
\* A step that adds to neither the table nor the gap keeps the bound.
LEMMA ShrinkKeepsBound ==
    ASSUME TypeOK, BoundedOvershoot,
           pending' \subseteq pending, BetweenLocks' \subseteq BetweenLocks
    PROVE  BoundedOvershoot'
<1>1. IsFiniteSet(pending) /\ IsFiniteSet(BetweenLocks)
  BY FS_Subset DEF TypeOK, BetweenLocks
<1>2. /\ Cardinality(pending') <= Cardinality(pending)
      /\ Cardinality(BetweenLocks') <= Cardinality(BetweenLocks)
      /\ IsFiniteSet(pending') /\ IsFiniteSet(BetweenLocks')
  BY <1>1, FS_Subset
<1>3. /\ Cardinality(pending) \in Nat /\ Cardinality(BetweenLocks) \in Nat
      /\ Cardinality(pending') \in Nat /\ Cardinality(BetweenLocks') \in Nat
  BY <1>1, <1>2, FS_CardinalityType
<1> QED
  BY <1>2, <1>3 DEF BoundedOvershoot

\* MAX_PENDING is exceeded by fewer entries than there are threads.
THEOREM CapacityOvershoot == Spec => []BoundedOvershoot
<1>1. Init => BoundedOvershoot
  <2> SUFFICES ASSUME Init PROVE BoundedOvershoot
    OBVIOUS
  <2>1. pending = {} /\ BetweenLocks = {}
    BY DEF Init, BetweenLocks
  <2> QED
    BY <2>1, FS_EmptySet DEF BoundedOvershoot
<1>2. TypeOK /\ BoundedOvershoot /\ [Next]_vars => BoundedOvershoot'
  <2> SUFFICES ASSUME TypeOK, BoundedOvershoot, [Next]_vars
               PROVE  BoundedOvershoot'
    OBVIOUS
  <2>0. /\ IsFiniteSet(pending) /\ Cardinality(pending) \in Nat
        /\ IsFiniteSet(BetweenLocks) /\ Cardinality(BetweenLocks) \in Nat
    BY FS_Subset, FS_CardinalityType DEF TypeOK, BetweenLocks
  <2>1. ASSUME NEW r \in Requests, CheckCapacity(r), HasRoom
        PROVE  BoundedOvershoot'
    <3>1. r \notin BetweenLocks /\ BetweenLocks' = BetweenLocks \cup {r}
      BY <2>1 DEF CheckCapacity, BetweenLocks, TypeOK
    <3>2. Cardinality(BetweenLocks') = Cardinality(BetweenLocks) + 1
      BY <2>0, <3>1, FS_AddElement
    <3>3. /\ pending' = pending
          /\ Cardinality(pending) < MaxPending
          /\ Cardinality(BetweenLocks) < Workers
      BY <2>1 DEF CheckCapacity, HasRoom
    <3> QED
      BY <2>0, <3>2, <3>3 DEF BoundedOvershoot
  <2>2. ASSUME NEW r \in Requests, Insert(r) PROVE BoundedOvershoot'
    <3>1. r \in BetweenLocks /\ BetweenLocks' = BetweenLocks \ {r}
      BY <2>2 DEF Insert, BetweenLocks, TypeOK
    <3>2. Cardinality(BetweenLocks') = Cardinality(BetweenLocks) - 1
      BY <2>0, <3>1, FS_RemoveElement
    <3>3. /\ Cardinality(pending') <= Cardinality(pending) + 1
          /\ Cardinality(pending') \in Nat
      <4>1. Cardinality(pending \cup {r}) =
              IF r \in pending THEN Cardinality(pending)
                               ELSE Cardinality(pending) + 1
        BY <2>0, FS_AddElement
      <4> QED
        BY <2>0, <2>2, <4>1 DEF Insert
    <3> QED
      BY <2>0, <3>2, <3>3 DEF BoundedOvershoot
  <2>3. ASSUME NEW r \in Requests,
               \/ CheckCapacity(r) /\ ~HasRoom
               \/ Bypass(r) \/ TakeDecision(r) \/ GiveUp(r)
               \/ RemoveOwn(r) \/ Abandon(r)
               \/ \E d \in Decisions : Decide(r, d)
        PROVE  BoundedOvershoot'
    <3>1. pending' \subseteq pending /\ BetweenLocks' \subseteq BetweenLocks
      BY <2>3 DEF CheckCapacity, Bypass, TakeDecision, GiveUp, RemoveOwn,
                  Abandon, Decide, BetweenLocks, TypeOK
    <3> QED
      BY <3>1, ShrinkKeepsBound
  <2>4. CASE Reap \/ Tick \/ UNCHANGED vars
    <3>1. pending' \subseteq pending /\ BetweenLocks' \subseteq BetweenLocks
      BY <2>4 DEF Reap, Tick, vars, BetweenLocks
    <3> QED
      BY <3>1, ShrinkKeepsBound
  <2> QED
    BY <2>1, <2>2, <2>3, <2>4 DEF Next, Run
<1> QED
  BY <1>1, <1>2, TypeCorrect, PTL DEF Spec

(***************************************************************************)
(* Refinement: a step of the vault is a step of the abstract gate, or      *)
(* leaves what the gate sees unchanged.                                    *)
(***************************************************************************)
\* Every behaviour of the vault is a behaviour of the approval gate.
THEOREM VaultImplementsGate == Spec => ImplementsGate
<1>1. Init => Gate!GateInit
  BY DEF Init, Gate!GateInit, GateStage, GateVerdict
<1>2. IInv /\ [Next]_vars => [Gate!GateNext]_(Gate!gateVars)
  <2> SUFFICES ASSUME IInv, [Next]_vars
               PROVE  Gate!GateNext \/ UNCHANGED Gate!gateVars
    OBVIOUS
  <2> USE DEF Gate!gateVars, Gate!GateNext
  <2>0. told' = told => GateVerdict' = GateVerdict
    BY DEF GateVerdict
  <2>1. ASSUME NEW r \in Requests, Bypass(r) PROVE Gate!Admit(r)
    BY <2>0, <2>1 DEF Bypass, Gate!Admit, GateStage, Finished, IInv, TypeOK
  <2>2. ASSUME NEW r \in Requests, CheckCapacity(r)
        PROVE  Gate!Ask(r) \/ Gate!Refuse(r)
    BY <2>0, <2>2 DEF CheckCapacity, Gate!Ask, Gate!Refuse, GateStage, IInv,
                      TypeOK
  <2>3. ASSUME NEW r \in Requests, Insert(r) \/ GiveUp(r)
        PROVE  UNCHANGED Gate!gateVars
    BY <2>0, <2>3 DEF Insert, GiveUp, GateStage, Finished, IInv, TypeOK
  <2>4. ASSUME NEW r \in Requests, TakeDecision(r)
        PROVE  Gate!Admit(r) \/ Gate!Refuse(r)
    <3>1. GateVerdict[r] = channel[r] /\ r \in Protected
      BY <2>4 DEF TakeDecision, IInv, Knowledge, GateVerdict, Decisions
    <3> QED
      BY <2>0, <2>4, <3>1 DEF TakeDecision, Gate!Admit, Gate!Refuse, GateStage,
                              Finished, IInv, TypeOK
  <2>5. ASSUME NEW r \in Requests, RemoveOwn(r) \/ Abandon(r)
        PROVE  Gate!Refuse(r)
    <3>1. r \in Protected /\ GateStage[r] = "held"
      BY <2>5 DEF RemoveOwn, Abandon, GateStage, Finished, IInv, Knowledge
    <3>2. /\ GateStage' = [GateStage EXCEPT ![r] = "refused"]
          /\ UNCHANGED told
      <4>1. CASE RemoveOwn(r)
        BY <4>1 DEF RemoveOwn, GateStage, Finished, IInv, TypeOK
      <4>2. CASE Abandon(r)
        BY <4>2 DEF Abandon, GateStage, Finished, IInv, TypeOK
      <4> QED
        BY <2>5, <4>1, <4>2
    <3> QED
      BY <2>0, <3>1, <3>2 DEF Gate!Refuse
  <2>6. ASSUME NEW r \in Requests, NEW d \in Decisions, Decide(r, d)
        PROVE  Gate!Decide(r, d)
    <3>1. /\ told[r] = {} /\ told'[r] = {d}
          /\ \A q \in Requests \ {r} : told'[q] = told[q]
      BY <2>6 DEF Decide, IInv, Knowledge, TypeOK
    <3>2. GateVerdict[r] = "none"
      BY <3>1 DEF GateVerdict
    <3>3. GateVerdict' = [GateVerdict EXCEPT ![r] = d]
      BY <3>1 DEF GateVerdict, Decisions
    <3>4. GateStage' = GateStage /\ GateStage[r] # "unasked"
      BY <2>6 DEF Decide, GateStage, Finished, IInv, Knowledge, Untouched
    <3> QED
      BY <3>2, <3>3, <3>4 DEF Gate!Decide
  <2>7. CASE Reap \/ Tick \/ UNCHANGED vars
    BY <2>0, <2>7 DEF Reap, Tick, vars, GateStage
  <2> QED
    BY <2>1, <2>2, <2>3, <2>4, <2>5, <2>6, <2>7 DEF Next, Run, Decisions
<1> QED
  BY <1>1, <1>2, Invariance, PTL DEF Spec, ImplementsGate, Gate!GateSpec
=============================================================================
