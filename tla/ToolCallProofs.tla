--------------------------- MODULE ToolCallProofs ---------------------------
(***************************************************************************)
(* What holds of tools/call for every set of calls, ids and tools, and,    *)
(* below, of the redactions of what is logged and of what tools return     *)
(* for every text and every environment.                                   *)
(***************************************************************************)
EXTENDS ToolCall, Redaction, Sums, SequenceTheorems, TLAPS

USE ToolCallAssumption

(***************************************************************************)
(* The inductive invariant.  What is promised of served calls rests on     *)
(* what the gate knows of admitted ones; what is promised of receipts and  *)
(* of the cache rests on replies being final.                              *)
(***************************************************************************)
Admitted ==
    \A r \in Requests :
        /\ task[r] # "none" \/ reply[r] = "cached" => stage[r] = "admitted"
        /\ stage[r] = "admitted" /\ r \in Protected => verdict[r] = "approve"

Final == \A r \in Requests : reply[r] # "none" <=> handler[r] = "answered"

Served == Admitted /\ Final
Tokens == NoStaleCancellation /\ CancelHitsItsCall
Logs == ReceiptsMatchAnswers /\ CacheHoldsReleasedResults

IInv == TypeOK /\ Served /\ Tokens /\ Logs

(***************************************************************************)
(* The steps, as one list to be gone through.                              *)
(***************************************************************************)
Acts(r) ==
    \/ FailChecks(r) \/ PassChecks(r)
    \/ \E d \in {"approve", "reject"} : Supervise(r, d)
    \/ ReplyUnknownTool(r) \/ ReplyFromCache(r) \/ Launch(r) \/ GateRefuses(r)
    \/ \E o \in TaskOutcomes : TaskEnds(r, o)
    \/ TaskSeesToken(r) \/ TaskAborts(r)
    \/ Cancel(r)
    \/ AnswerCancelled(r) \/ AnswerPanic(r) \/ AnswerToolError(r)
    \/ WithholdResult(r) \/ AnswerResult(r)
    \/ Drop(r)

\* The next-state relation is the list Acts, the cache's losses, or a stutter.
LEMMA Steps ==
    [Next]_vars <=> \/ \E r \in Requests : Acts(r)
                    \/ \E t \in Tools : CacheForgets(t)
                    \/ UNCHANGED vars
  BY DEF Next, Acts, Gated, Select

\* Types are respected by every step.
LEMMA TypeStep == TypeOK /\ [Next]_vars => TypeOK'
<1> SUFFICES ASSUME TypeOK, [Next]_vars PROVE TypeOK'
  OBVIOUS
<1> USE DEF TypeOK, Replies, TaskStates, TaskOutcomes, Statuses
<1>1. ASSUME NEW r \in Requests, FailChecks(r) PROVE TypeOK'
  BY <1>1 DEF FailChecks, Arrives, Answer, Unlogged, gateVars
<1>2. ASSUME NEW r \in Requests, PassChecks(r) PROVE TypeOK'
  BY <1>2 DEF PassChecks, Arrives, Ask, Unlogged, gateVars
<1>3. ASSUME NEW r \in Requests, NEW d \in {"approve", "reject"}, Supervise(r, d)
      PROVE TypeOK'
  BY <1>3 DEF Supervise, Decide, callVars
<1>4. ASSUME NEW r \in Requests, ReplyUnknownTool(r) PROVE TypeOK'
  BY <1>4 DEF ReplyUnknownTool, GateAdmits, Admit, Answer, Unlogged
<1>5. ASSUME NEW r \in Requests, ReplyFromCache(r) PROVE TypeOK'
  BY <1>5 DEF ReplyFromCache, GateAdmits, Admit, Answer, Unlogged
<1>6. ASSUME NEW r \in Requests, Launch(r) PROVE TypeOK'
  BY <1>6 DEF Launch, GateAdmits, Admit, Register, Unlogged
<1>7. ASSUME NEW r \in Requests, GateRefuses(r) PROVE TypeOK'
  BY <1>7 DEF GateRefuses, Refuse, Answer, Unlogged
<1>8. ASSUME NEW r \in Requests, NEW o \in TaskOutcomes, TaskEnds(r, o)
      PROVE TypeOK'
  BY <1>8 DEF TaskEnds, TaskStep, gateVars
<1>9. ASSUME NEW r \in Requests, TaskSeesToken(r) PROVE TypeOK'
  BY <1>9 DEF TaskSeesToken, TaskStep, gateVars
<1>10. ASSUME NEW r \in Requests, TaskAborts(r) PROVE TypeOK'
  BY <1>10 DEF TaskAborts, TaskStep, gateVars
<1>11. ASSUME NEW r \in Requests, Cancel(r) PROVE TypeOK'
  BY <1>11 DEF Cancel, Holder, gateVars
<1>12. ASSUME NEW r \in Requests, AnswerCancelled(r) PROVE TypeOK'
  BY <1>12 DEF AnswerCancelled, Abort, Unregister, Answer, Unlogged, gateVars
<1>13. ASSUME NEW r \in Requests, AnswerPanic(r) PROVE TypeOK'
  BY <1>13 DEF AnswerPanic, Collect, Unregister, Answer, Unlogged, gateVars
<1>14. ASSUME NEW r \in Requests, AnswerToolError(r) PROVE TypeOK'
  BY <1>14 DEF AnswerToolError, Collect, Unregister, Answer, Logged, gateVars
<1>15. ASSUME NEW r \in Requests, WithholdResult(r) PROVE TypeOK'
  BY <1>15 DEF WithholdResult, Collect, Unregister, Answer, Unlogged, gateVars
<1>16. ASSUME NEW r \in Requests, AnswerResult(r) PROVE TypeOK'
  BY <1>16 DEF AnswerResult, Collect, Unregister, Answer, Record, Logged,
               StoreInCache, gateVars
<1>17. ASSUME NEW r \in Requests, Drop(r) PROVE TypeOK'
  BY <1>17 DEF Drop, Refuse, Unlogged, gateVars
<1>18. ASSUME NEW t \in Tools, CacheForgets(t) PROVE TypeOK'
  BY <1>18 DEF CacheForgets, gateVars
<1>19. CASE UNCHANGED vars
  BY <1>19 DEF vars, gateVars, callVars
<1> QED
  BY <1>1, <1>2, <1>3, <1>4, <1>5, <1>6, <1>7, <1>8, <1>9, <1>10, <1>11,
     <1>12, <1>13, <1>14, <1>15, <1>16, <1>17, <1>18, <1>19, Steps DEF Acts

\* Admission outlives every step, and a reply stays what it is.
LEMMA AdmissionStep == IInv /\ [Next]_vars => Served'
<1> SUFFICES ASSUME IInv, [Next]_vars PROVE Served'
  OBVIOUS
<1> USE DEF IInv, TypeOK, Served, Admitted, Final, TaskOutcomes
<1>1. ASSUME NEW r \in Requests, FailChecks(r) PROVE Served'
  BY <1>1 DEF FailChecks, Arrives, Answer, Unlogged, gateVars
<1>2. ASSUME NEW r \in Requests, PassChecks(r) PROVE Served'
  BY <1>2 DEF PassChecks, Arrives, Ask, Unlogged, gateVars
<1>3. ASSUME NEW r \in Requests, NEW d \in {"approve", "reject"}, Supervise(r, d)
      PROVE Served'
  BY <1>3 DEF Supervise, Decide, callVars
<1>4. ASSUME NEW r \in Requests, ReplyUnknownTool(r) PROVE Served'
  BY <1>4 DEF ReplyUnknownTool, GateAdmits, Admit, Answer, Unlogged
<1>5. ASSUME NEW r \in Requests, ReplyFromCache(r) PROVE Served'
  BY <1>5 DEF ReplyFromCache, GateAdmits, Admit, Answer, Unlogged
<1>6. ASSUME NEW r \in Requests, Launch(r) PROVE Served'
  BY <1>6 DEF Launch, GateAdmits, Admit, Register, Unlogged
<1>7. ASSUME NEW r \in Requests, GateRefuses(r) PROVE Served'
  BY <1>7 DEF GateRefuses, Refuse, Answer, Unlogged
<1>8. ASSUME NEW r \in Requests, NEW o \in TaskOutcomes, TaskEnds(r, o)
      PROVE Served'
  BY <1>8 DEF TaskEnds, TaskStep, gateVars
<1>9. ASSUME NEW r \in Requests, TaskSeesToken(r) PROVE Served'
  BY <1>9 DEF TaskSeesToken, TaskStep, gateVars
<1>10. ASSUME NEW r \in Requests, TaskAborts(r) PROVE Served'
  BY <1>10 DEF TaskAborts, TaskStep, gateVars
<1>11. ASSUME NEW r \in Requests, Cancel(r) PROVE Served'
  BY <1>11 DEF Cancel, Holder, gateVars
<1>12. ASSUME NEW r \in Requests, AnswerCancelled(r) PROVE Served'
  BY <1>12 DEF AnswerCancelled, Abort, Unregister, Answer, Unlogged, gateVars
<1>13. ASSUME NEW r \in Requests, AnswerPanic(r) PROVE Served'
  BY <1>13 DEF AnswerPanic, Collect, Unregister, Answer, Unlogged, gateVars
<1>14. ASSUME NEW r \in Requests, AnswerToolError(r) PROVE Served'
  BY <1>14 DEF AnswerToolError, Collect, Unregister, Answer, Logged, gateVars
<1>15. ASSUME NEW r \in Requests, WithholdResult(r) PROVE Served'
  BY <1>15 DEF WithholdResult, Collect, Unregister, Answer, Unlogged, gateVars
<1>16. ASSUME NEW r \in Requests, AnswerResult(r) PROVE Served'
  BY <1>16 DEF AnswerResult, Collect, Unregister, Answer, Record, Logged,
              StoreInCache, gateVars
<1>17. ASSUME NEW r \in Requests, Drop(r) PROVE Served'
  BY <1>17 DEF Drop, Refuse, Unlogged, gateVars
<1>18. ASSUME NEW t \in Tools, CacheForgets(t) PROVE Served'
  BY <1>18 DEF CacheForgets, gateVars
<1>19. CASE UNCHANGED vars
  BY <1>19 DEF vars, gateVars, callVars
<1> QED
  BY <1>1, <1>2, <1>3, <1>4, <1>5, <1>6, <1>7, <1>8, <1>9, <1>10, <1>11,
     <1>12, <1>13, <1>14, <1>15, <1>16, <1>17, <1>18, <1>19, Steps DEF Acts

\* The cancellations map and the tokens stay right.
LEMMA CancellationStep == IInv /\ [Next]_vars => Tokens'
<1> SUFFICES ASSUME IInv, [Next]_vars PROVE Tokens'
  OBVIOUS
<1> USE DEF IInv, TypeOK, Tokens, NoStaleCancellation, CancelHitsItsCall,
      Made, HasOwnKey, TaskOutcomes
<1>1. ASSUME NEW r \in Requests, FailChecks(r) PROVE Tokens'
  BY <1>1 DEF FailChecks, Arrives, Answer, Unlogged, gateVars
<1>2. ASSUME NEW r \in Requests, PassChecks(r) PROVE Tokens'
  BY <1>2 DEF PassChecks, Arrives, Ask, Unlogged, gateVars
<1>3. ASSUME NEW r \in Requests, NEW d \in {"approve", "reject"}, Supervise(r, d)
      PROVE Tokens'
  BY <1>3 DEF Supervise, Decide, callVars
<1>4. ASSUME NEW r \in Requests, ReplyUnknownTool(r) PROVE Tokens'
  BY <1>4 DEF ReplyUnknownTool, GateAdmits, Admit, Answer, Unlogged
<1>5. ASSUME NEW r \in Requests, ReplyFromCache(r) PROVE Tokens'
  BY <1>5 DEF ReplyFromCache, GateAdmits, Admit, Answer, Unlogged
<1>6. ASSUME NEW r \in Requests, Launch(r) PROVE Tokens'
  BY <1>6 DEF Launch, GateAdmits, Admit, Register, Unlogged
<1>7. ASSUME NEW r \in Requests, GateRefuses(r) PROVE Tokens'
  BY <1>7 DEF GateRefuses, Refuse, Answer, Unlogged
<1>8. ASSUME NEW r \in Requests, NEW o \in TaskOutcomes, TaskEnds(r, o)
      PROVE Tokens'
  BY <1>8 DEF TaskEnds, TaskStep, gateVars
<1>9. ASSUME NEW r \in Requests, TaskSeesToken(r) PROVE Tokens'
  BY <1>9 DEF TaskSeesToken, TaskStep, gateVars
<1>10. ASSUME NEW r \in Requests, TaskAborts(r) PROVE Tokens'
  BY <1>10 DEF TaskAborts, TaskStep, gateVars
<1>11. ASSUME NEW r \in Requests, Cancel(r) PROVE Tokens'
  <2> USE <1>11 DEF Cancel, gateVars, Holder
  <2>1. NoStaleCancellation'
    OBVIOUS
  <2>2. ASSUME NEW q \in Requests, HasOwnKey(q)', token'[q]
        PROVE wanted'[q] # "no"
    <3>1. HasOwnKey(q)
      BY <2>2
    <3>2. CASE token[q]
      BY <3>1, <3>2
    <3>3. CASE ~token[q]
      <4>1. q = cancellations[KeyOf[r]]
        BY <2>2, <3>3
      <4>2. KeyOf[q] = KeyOf[r]
        BY <4>1
      <4> QED
        BY <2>2, <4>2
    <3> QED
      BY <3>2, <3>3
  <2>3. ASSUME NEW q \in Requests, HasOwnKey(q)', handler'[q] = "executing"
        PROVE cancellations'[KeyOf[q]] = q
    BY <2>3
  <2> QED
    BY <2>1, <2>2, <2>3
<1>12. ASSUME NEW r \in Requests, AnswerCancelled(r) PROVE Tokens'
  BY <1>12 DEF AnswerCancelled, Abort, Unregister, Answer, Unlogged, gateVars
<1>13. ASSUME NEW r \in Requests, AnswerPanic(r) PROVE Tokens'
  BY <1>13 DEF AnswerPanic, Collect, Unregister, Answer, Unlogged, gateVars
<1>14. ASSUME NEW r \in Requests, AnswerToolError(r) PROVE Tokens'
  BY <1>14 DEF AnswerToolError, Collect, Unregister, Answer, Logged, gateVars
<1>15. ASSUME NEW r \in Requests, WithholdResult(r) PROVE Tokens'
  BY <1>15 DEF WithholdResult, Collect, Unregister, Answer, Unlogged, gateVars
<1>16. ASSUME NEW r \in Requests, AnswerResult(r) PROVE Tokens'
  BY <1>16 DEF AnswerResult, Collect, Unregister, Answer, Record, Logged,
              StoreInCache, gateVars
<1>17. ASSUME NEW r \in Requests, Drop(r) PROVE Tokens'
  BY <1>17 DEF Drop, Refuse, Unlogged, gateVars
<1>18. ASSUME NEW t \in Tools, CacheForgets(t) PROVE Tokens'
  BY <1>18 DEF CacheForgets, gateVars
<1>19. CASE UNCHANGED vars
  BY <1>19 DEF vars, gateVars, callVars
<1> QED
  BY <1>1, <1>2, <1>3, <1>4, <1>5, <1>6, <1>7, <1>8, <1>9, <1>10, <1>11,
     <1>12, <1>13, <1>14, <1>15, <1>16, <1>17, <1>18, <1>19, Steps DEF Acts

\* An answer that is neither a result nor a tool error leaves the logs and the
\* cache right: no entry was made for the call before.
LEMMA QuietAnswer ==
    ASSUME IInv, NEW r \in Requests,
           NEW a \in Replies \ {"none", "result", "toolError"},
           handler[r] # "answered", Answer(r, a), Unlogged
    PROVE  Logs'
<1> USE DEF IInv, TypeOK, Served, Final, Logs, Answer, Unlogged
<1>1. /\ reply[r] = "none"
      /\ \A q \in Requests : reply'[q] = IF q = r THEN a ELSE reply[q]
  OBVIOUS
<1>2. ReceiptsMatchAnswers'
  BY <1>1 DEF ReceiptsMatchAnswers
<1>3. CacheHoldsReleasedResults'
  BY <1>1 DEF CacheHoldsReleasedResults
<1> QED
  BY <1>2, <1>3 DEF Logs

\* The logs and the cache stay right.
LEMMA LogStep == IInv /\ [Next]_vars => Logs'
<1> SUFFICES ASSUME IInv, [Next]_vars PROVE Logs'
  OBVIOUS
<1> USE DEF IInv, TypeOK, Logs
<1>1. ASSUME NEW r \in Requests, FailChecks(r) PROVE Logs'
  BY <1>1, QuietAnswer DEF FailChecks, Arrives, Replies
<1>2. ASSUME NEW r \in Requests, PassChecks(r) PROVE Logs'
  BY <1>2 DEF PassChecks, Arrives, Ask, Unlogged, gateVars, ReceiptsMatchAnswers,
          CacheHoldsReleasedResults
<1>3. ASSUME NEW r \in Requests, NEW d \in {"approve", "reject"}, Supervise(r, d)
      PROVE Logs'
  BY <1>3 DEF Supervise, Decide, callVars, ReceiptsMatchAnswers,
          CacheHoldsReleasedResults
<1>4. ASSUME NEW r \in Requests, ReplyUnknownTool(r) PROVE Logs'
  BY <1>4, QuietAnswer DEF ReplyUnknownTool, GateAdmits, Replies
<1>5. ASSUME NEW r \in Requests, ReplyFromCache(r) PROVE Logs'
  BY <1>5, QuietAnswer DEF ReplyFromCache, GateAdmits, Replies
<1>6. ASSUME NEW r \in Requests, Launch(r) PROVE Logs'
  BY <1>6 DEF Launch, GateAdmits, Admit, Register, Unlogged,
          ReceiptsMatchAnswers, CacheHoldsReleasedResults
<1>7. ASSUME NEW r \in Requests, GateRefuses(r) PROVE Logs'
  BY <1>7, QuietAnswer DEF GateRefuses, Replies
<1>8. ASSUME NEW r \in Requests, NEW o \in TaskOutcomes, TaskEnds(r, o)
      PROVE Logs'
  BY <1>8 DEF TaskEnds, TaskStep, gateVars, ReceiptsMatchAnswers,
          CacheHoldsReleasedResults
<1>9. ASSUME NEW r \in Requests, TaskSeesToken(r) PROVE Logs'
  BY <1>9 DEF TaskSeesToken, TaskStep, gateVars, ReceiptsMatchAnswers,
          CacheHoldsReleasedResults
<1>10. ASSUME NEW r \in Requests, TaskAborts(r) PROVE Logs'
  BY <1>10 DEF TaskAborts, TaskStep, gateVars, ReceiptsMatchAnswers,
          CacheHoldsReleasedResults
<1>11. ASSUME NEW r \in Requests, Cancel(r) PROVE Logs'
  BY <1>11 DEF Cancel, Holder, gateVars, ReceiptsMatchAnswers,
          CacheHoldsReleasedResults
<1>12. ASSUME NEW r \in Requests, AnswerCancelled(r) PROVE Logs'
  BY <1>12, QuietAnswer DEF AnswerCancelled, Replies
<1>13. ASSUME NEW r \in Requests, AnswerPanic(r) PROVE Logs'
  BY <1>13, QuietAnswer DEF AnswerPanic, Collect, Replies
<1>14. ASSUME NEW r \in Requests, AnswerToolError(r) PROVE Logs'
  <2> USE <1>14 DEF AnswerToolError, Collect, Answer, Logged
  <2>1. /\ reply[r] = "none"
        /\ \A q \in Requests : reply'[q] = IF q = r THEN "toolError" ELSE reply[q]
    BY DEF Served, Final
  <2>2. /\ \A q \in Requests, s \in Statuses :
              q # r \/ s # "ToolError" => (<<q, s>> \in receipts' <=> <<q, s>> \in receipts)
        /\ r \notin LogsFail => <<r, "ToolError">> \in receipts'
    OBVIOUS
  <2>3. UNCHANGED smac
    OBVIOUS
  <2>4. ReceiptsMatchAnswers'
    <3> SUFFICES ASSUME NEW q \in Requests PROVE ReceiptsMatchAnswers!(q)'
      BY DEF ReceiptsMatchAnswers
    <3>1. CASE q = r
      BY <3>1, <2>1, <2>2, <2>3 DEF ReceiptsMatchAnswers, Statuses
    <3>2. CASE q # r
      BY <3>2, <2>1, <2>2, <2>3 DEF ReceiptsMatchAnswers, Statuses
    <3> QED
      BY <3>1, <3>2
  <2>5. CacheHoldsReleasedResults'
    BY <2>1 DEF CacheHoldsReleasedResults
  <2> QED
    BY <2>4, <2>5
<1>15. ASSUME NEW r \in Requests, WithholdResult(r) PROVE Logs'
  BY <1>15, QuietAnswer DEF WithholdResult, Collect, Replies
<1>16. ASSUME NEW r \in Requests, AnswerResult(r) PROVE Logs'
  <2> USE <1>16 DEF AnswerResult, Collect, Answer, Record, Logged,
               StoreInCache
  <2>1. /\ reply[r] = "none"
        /\ \A q \in Requests : reply'[q] = IF q = r THEN "result" ELSE reply[q]
    BY DEF Served, Final
  <2>2. /\ \A q \in Requests, s \in Statuses :
              q # r \/ s # "Success" => (<<q, s>> \in receipts' <=> <<q, s>> \in receipts)
        /\ r \notin LogsFail => <<r, "Success">> \in receipts'
    OBVIOUS
  <2>3. /\ smac \subseteq smac' /\ smac' \subseteq smac \cup {r}
        /\ r \notin LogsFail => r \in smac'
    OBVIOUS
  <2>4. ReceiptsMatchAnswers'
    <3> SUFFICES ASSUME NEW q \in Requests PROVE ReceiptsMatchAnswers!(q)'
      BY DEF ReceiptsMatchAnswers
    <3>1. CASE q = r
      BY <3>1, <2>1, <2>2, <2>3 DEF ReceiptsMatchAnswers, Statuses
    <3>2. CASE q # r
      BY <3>2, <2>1, <2>2, <2>3 DEF ReceiptsMatchAnswers, Statuses
    <3> QED
      BY <3>1, <3>2
  <2>5. CacheHoldsReleasedResults'
    BY <2>1 DEF CacheHoldsReleasedResults
  <2> QED
    BY <2>4, <2>5
<1>17. ASSUME NEW r \in Requests, Drop(r) PROVE Logs'
  BY <1>17 DEF Drop, Refuse, Unlogged, gateVars, ReceiptsMatchAnswers,
          CacheHoldsReleasedResults
<1>18. ASSUME NEW t \in Tools, CacheForgets(t) PROVE Logs'
  BY <1>18 DEF CacheForgets, ReceiptsMatchAnswers, CacheHoldsReleasedResults
<1>19. CASE UNCHANGED vars
  BY <1>19 DEF vars, callVars, ReceiptsMatchAnswers, CacheHoldsReleasedResults
<1> QED
  BY <1>1, <1>2, <1>3, <1>4, <1>5, <1>6, <1>7, <1>8, <1>9, <1>10, <1>11,
     <1>12, <1>13, <1>14, <1>15, <1>16, <1>17, <1>18, <1>19, Steps DEF Acts

\* The inductive invariant holds in every reachable state.
THEOREM Invariance == Spec => []IInv
<1>1. Init => IInv
  <2> SUFFICES ASSUME Init PROVE IInv
    OBVIOUS
  <2> USE DEF Init, GateInit
  <2>1. TypeOK
    BY DEF TypeOK, Replies, TaskStates
  <2>2. Served
    BY DEF Served, Admitted, Final
  <2>3. Tokens
    BY DEF Tokens, NoStaleCancellation, CancelHitsItsCall
  <2>4. Logs
    BY DEF Logs, ReceiptsMatchAnswers, CacheHoldsReleasedResults
  <2> QED
    BY <2>1, <2>2, <2>3, <2>4 DEF IInv
<1>2. IInv /\ [Next]_vars => IInv'
  BY TypeStep, AdmissionStep, CancellationStep, LogStep DEF IInv
<1> QED
  BY <1>1, <1>2, PTL DEF Spec

\* Types are respected: every state variable keeps to its range.
THEOREM TypeCorrect == Spec => []TypeOK
<1>1. IInv => TypeOK
  BY DEF IInv
<1> QED
  BY <1>1, Invariance, PTL

\* No tool runs and nothing is served from the cache for a call the gate did
\* not admit, and of protected calls only approved ones.
THEOREM ServedOnlyIfAdmitted == Spec => []OnlyAdmittedCallsServed
<1>1. IInv => OnlyAdmittedCallsServed
  BY DEF IInv, Served, Admitted, OnlyAdmittedCallsServed
<1> QED
  BY <1>1, Invariance, PTL

\* The cancellations map never points at an answered call, also when calls
\* share an id.
THEOREM TokensLeaveWithCalls == Spec => []NoStaleCancellation
<1>1. IInv => NoStaleCancellation
  BY DEF IInv, Tokens
<1> QED
  BY <1>1, Invariance, PTL

\* Under an id of its own a call can be cancelled while it executes, and only
\* at its client's wish; and no token outlives its call.
THEOREM CancellationIsPrecise == Spec => []CancellationExact
<1>1. IInv => CancellationExact
  BY DEF IInv, Tokens, CancellationExact
<1> QED
  BY <1>1, Invariance, PTL

\* The receipts, the SMAC entries and the cache say of a call what its client
\* was told.
THEOREM AuditAgrees == Spec => []RecordsAgree
<1>1. IInv => RecordsAgree
  BY DEF IInv, Logs, RecordsAgree
<1> QED
  BY <1>1, Invariance, PTL

\* The cache holds only results that were answered in full.
THEOREM CacheIsReleased == Spec => []CacheHoldsReleasedResults
<1>1. IInv => CacheHoldsReleasedResults
  BY DEF IInv, Logs
<1> QED
  BY <1>1, Invariance, PTL

-----------------------------------------------------------------------------
(***************************************************************************)
(* Redaction.  The spans to replace are apart from one another; what they  *)
(* cover together with the spans that are still to merge is what the scan  *)
(* has found, and every secret either lies ahead or meets one of them.     *)
(* FlattenSeq is a fold over positions: w[k] is what the first k pieces    *)
(* give.  Both ways to write the result down, span by span and sign by     *)
(* sign, are compared at the end of each span.                             *)
(***************************************************************************)
HIDE ToolCallAssumption

\* The function that FlattenSeq defines.
IsFlat(f, bs) == f = [i \in 1 .. Len(bs) |-> IF i = 1 THEN bs[i] ELSE f[i - 1] \o bs[i]]
FlatOf(bs) == CHOOSE f : IsFlat(f, bs)

\* w[k] is the first k of the sequences bs, one behind the other.
Joins(w, bs, A) ==
    /\ w \in [0 .. Len(bs) -> Seq(A)] /\ w[0] = <<>>
    /\ \A k \in 1 .. Len(bs) : w[k] = w[k - 1] \o bs[k]

\* The partial results exist, for any number of pieces.
LEMMA JoinsExist ==
    ASSUME NEW A, NEW bs \in Seq(Seq(A))
    PROVE  \E w : Joins(w, bs, A)
<1> DEFINE n == Len(bs)
           D == Seq(A)
           step == [k \in 1 .. n |-> [d \in D |-> d \o bs[k]]]
<1>1. n \in Nat /\ \A k \in 1 .. n : bs[k] \in D
  BY LenProperties, ElementOfSeq
<1>2. <<>> \in D
  BY EmptySeq
<1>3. ASSUME NEW k \in 1 .. n, NEW d \in D PROVE step[k][d] \in D /\ step[k][d] = d \o bs[k]
  <2>1. bs[k] \in D
    BY <1>1
  <2>2. d \o bs[k] \in D
    BY <2>1, ConcatProperties
  <2>3. step[k][d] = d \o bs[k]
    OBVIOUS
  <2> QED
    BY <2>2, <2>3
<1>4. PICK w : GoesOn(w, n, D, <<>>, step)
  <2> HIDE DEF step, D, n
  <2> QED
    BY <1>1, <1>2, <1>3, Stepping
<1>5. w = [k \in 0 .. n |-> w[k]] /\ (\A k \in 0 .. n : w[k] \in D) /\ w[0] = <<>>
  BY <1>4 DEF GoesOn
<1>6. ASSUME NEW k \in 1 .. n PROVE w[k] = w[k - 1] \o bs[k]
  <2>1. w[k] = step[k][w[k - 1]]
    BY <1>4 DEF GoesOn
  <2>2. w[k - 1] \in D
    BY <1>1, <1>5
  <2> HIDE DEF step
  <2> QED
    BY <1>3, <2>1, <2>2
<1>7. w \in [0 .. n -> D]
  <2> HIDE DEF D
  <2> QED
    BY <1>5
<1> QED
  BY <1>5, <1>6, <1>7 DEF Joins

\* FlattenSeq, unfolded: the last value of that function.
LEMMA FlattenIs ==
    ASSUME NEW bs
    PROVE  FlattenSeq(bs) = IF Len(bs) = 0 THEN bs ELSE FlatOf(bs)[Len(bs)]
BY DEF FlattenSeq, FlatOf, IsFlat

\* FlattenSeq returns all of them.
LEMMA FlattenJoins ==
    ASSUME NEW A, NEW bs \in Seq(Seq(A)), NEW w, Joins(w, bs, A)
    PROVE  FlattenSeq(bs) = w[Len(bs)]
<1> DEFINE n == Len(bs)
<1>1. n \in Nat /\ \A k \in 1 .. n : bs[k] \in Seq(A)
  BY LenProperties, ElementOfSeq
<1>2. CASE n = 0
  <2>1. bs = <<>>
    BY <1>2, EmptySeq
  <2> QED
    BY <1>2, <2>1, FlattenIs DEF Joins
<1>3. CASE n # 0
  <2> DEFINE g == [i \in 1 .. n |-> w[i]]
             f == FlatOf(bs)
  <2>1. ASSUME NEW i \in 1 .. n PROVE w[i] = IF i = 1 THEN bs[i] ELSE w[i - 1] \o bs[i]
    <3>1. w[i] = w[i - 1] \o bs[i]
      BY DEF Joins
    <3>2. CASE i = 1
      <4>1. w[i] = <<>> \o bs[i]
        <5>1. i - 1 = 0 /\ w[0] = <<>>
          BY <3>2 DEF Joins
        <5> QED
          BY <3>1, <5>1
      <4>2. bs[i] \in Seq(A)
        BY <1>1
      <4> QED
        BY <3>2, <4>1, <4>2, ConcatEmptySeq
    <3> QED
      BY <3>1, <3>2
  <2>2. IsFlat(g, bs)
    <3>1. \A i \in 1 .. n : i # 1 => i - 1 \in 1 .. n
      BY <1>1
    <3>2. \A i \in 1 .. n : g[i] = w[i]
      OBVIOUS
    <3>3. g = [i \in 1 .. n |-> g[i]]
      OBVIOUS
    <3> HIDE DEF g
    <3>4. \A i \in 1 .. n : g[i] = IF i = 1 THEN bs[i] ELSE g[i - 1] \o bs[i]
      BY <2>1, <3>1, <3>2
    <3> QED
      BY <3>3, <3>4 DEF IsFlat
  <2>3. IsFlat(f, bs)
    <3> HIDE DEF g
    <3> QED
      BY <2>2 DEF FlatOf
  <2> DEFINE P == {k \in 0 .. n : k = 0 \/ f[k] = w[k]}
  <2> HIDE DEF f, g
  <2>4. 0 \in P
    BY <1>1
  <2>5. ASSUME NEW k \in 1 .. n, k - 1 \in P PROVE k \in P
    <3>1. f[k] = IF k = 1 THEN bs[k] ELSE f[k - 1] \o bs[k]
      BY <2>3 DEF IsFlat
    <3>2. k # 1 => f[k - 1] = w[k - 1]
      BY <2>5
    <3> QED
      BY <2>1, <3>1, <3>2
  <2>6. \A k \in 0 .. n : k \in P
    <3> HIDE DEF P
    <3> QED
      BY <1>1, <2>4, <2>5, UpTo, Zenon
  <2>7. f[n] = w[n]
    BY <1>1, <1>3, <2>6
  <2> QED
    BY <1>3, <2>7, FlattenIs DEF f
<1> QED
  BY <1>2, <1>3

\* The least of a set of pairs of numbers, by their ends or by their beginnings.
LEMMA LeastPair ==
    ASSUME NEW S \in SUBSET (Nat \X Nat), S # {}
    PROVE  /\ \E s \in S : \A r \in S : s[2] < r[2] \/ (s[2] = r[2] /\ s[1] <= r[1])
           /\ \E s \in S : \A r \in S : s[1] < r[1] \/ (s[1] = r[1] /\ s[2] <= r[2])
<1>0. \A s \in S : s[1] \in Nat /\ s[2] \in Nat
  OBVIOUS
<1>1. PICK t \in S : \A r \in S : t[2] <= r[2]
  <2> DEFINE E == {s[2] : s \in S}
  <2>1. E \in SUBSET Nat /\ E # {}
    BY <1>0
  <2>2. PICK e \in E : \A y \in E : e <= y
    <3> HIDE DEF E
    <3> QED
      BY <2>1, LeastNumber
  <2> QED
    BY <2>2
<1>2. PICK s \in {x \in S : x[2] = t[2]} : \A r \in {x \in S : x[2] = t[2]} : s[1] <= r[1]
  <2> DEFINE E == {x[1] : x \in {y \in S : y[2] = t[2]}}
  <2>1. E \in SUBSET Nat /\ E # {}
    BY <1>0, <1>1
  <2>2. PICK e \in E : \A y \in E : e <= y
    <3> HIDE DEF E
    <3> QED
      BY <2>1, LeastNumber
  <2> QED
    BY <2>2
<1>3. \A r \in S : s[2] < r[2] \/ (s[2] = r[2] /\ s[1] <= r[1])
  BY <1>0, <1>1, <1>2
<1>4. PICK u \in S : \A r \in S : u[1] <= r[1]
  <2> DEFINE E == {x[1] : x \in S}
  <2>1. E \in SUBSET Nat /\ E # {}
    BY <1>0
  <2>2. PICK e \in E : \A y \in E : e <= y
    <3> HIDE DEF E
    <3> QED
      BY <2>1, LeastNumber
  <2> QED
    BY <2>2
<1>5. PICK v \in {x \in S : x[1] = u[1]} : \A r \in {x \in S : x[1] = u[1]} : v[2] <= r[2]
  <2> DEFINE E == {x[2] : x \in {y \in S : y[1] = u[1]}}
  <2>1. E \in SUBSET Nat /\ E # {}
    BY <1>0, <1>4
  <2>2. PICK e \in E : \A y \in E : e <= y
    <3> HIDE DEF E
    <3> QED
      BY <2>1, LeastNumber
  <2> QED
    BY <2>2
<1>6. \A r \in S : v[1] < r[1] \/ (v[1] = r[1] /\ v[2] <= r[2])
  BY <1>0, <1>4, <1>5
<1> QED
  BY <1>2, <1>3, <1>5, <1>6

\* What a text and a result are made of, and where spans begin and end.
Alphabet == Signs \cup {"#"} \cup UNION {ToSet(e.value) : e \in Environment}

Places == (1 .. Len(text)) \X (1 .. Len(text))

\* Spans that stand one behind the other, and what is between them.
Apart ==
    /\ text \in Seq(Alphabet) /\ merged \in Seq(Places)
    /\ \A a \in 1 .. Len(merged) : merged[a][1] <= merged[a][2]
    /\ \A a, b \in 1 .. Len(merged) : a < b => merged[a][2] < merged[b][1]

\* Between(k) goes from Start(k) to Stop(k), and Mark(k) stands behind it.
Start(k) == IF k = 1 THEN 1 ELSE merged[k - 1][2] + 1
Stop(k) == IF k > Len(merged) THEN Len(text) ELSE merged[k][1] - 1
Mark(k) == IF k <= Len(merged) THEN <<"#">> ELSE <<>>
Blocks == [k \in 1 .. Len(merged) + 1 |-> Between(k) \o Mark(k)]

\* Spans are of places of the text.
LEMMA MergedAre ==
    ASSUME Apart
    PROVE  /\ Len(text) \in Nat /\ Len(merged) \in Nat
           /\ \A x \in 1 .. Len(text) : text[x] \in Alphabet
           /\ \A a \in 1 .. Len(merged) :
                 /\ merged[a] = <<merged[a][1], merged[a][2]>>
                 /\ merged[a][1] \in 1 .. Len(text) /\ merged[a][2] \in 1 .. Len(text)
                 /\ merged[a][1] <= merged[a][2]
<1>1. Len(text) \in Nat /\ Len(merged) \in Nat
  BY LenProperties DEF Apart
<1>2. \A x \in 1 .. Len(text) : text[x] \in Alphabet
  BY ElementOfSeq DEF Apart
<1>3. \A a \in 1 .. Len(merged) : merged[a] \in Places
  BY ElementOfSeq DEF Apart
<1>4. \A a \in 1 .. Len(merged) : merged[a][1] <= merged[a][2]
  BY DEF Apart
<1> QED
  BY <1>1, <1>2, <1>3, <1>4 DEF Places

\* The pieces of the result are sequences, and what each of them holds.
LEMMA BlocksAre ==
    ASSUME Apart
    PROVE  /\ Blocks \in Seq(Seq(Alphabet)) /\ Len(Blocks) = Len(merged) + 1
           /\ \A k \in 1 .. Len(merged) + 1 :
                 /\ Blocks[k] = Between(k) \o Mark(k)
                 /\ Start(k) \in 1 .. Len(text) + 1 /\ Stop(k) \in 0 .. Len(text)
                 /\ Start(k) <= Stop(k) + 1
                 /\ Between(k) = SubSeq(text, Start(k), Stop(k))
                 /\ Between(k) \in Seq(Alphabet) /\ Mark(k) \in Seq(Alphabet)
                 /\ Len(Between(k)) = Stop(k) - Start(k) + 1
                 /\ \A x \in 1 .. Len(Between(k)) : Between(k)[x] = text[Start(k) + x - 1]
                 /\ Len(Mark(k)) = IF k <= Len(merged) THEN 1 ELSE 0
                 /\ k <= Len(merged) => Mark(k)[1] = "#"
<1> DEFINE n == Len(merged)
<1>0. /\ Len(text) \in Nat /\ n \in Nat
      /\ \A x \in 1 .. Len(text) : text[x] \in Alphabet
      /\ \A a \in 1 .. n : /\ merged[a][1] \in 1 .. Len(text) /\ merged[a][2] \in 1 .. Len(text)
                           /\ merged[a][1] <= merged[a][2]
      /\ \A a, b \in 1 .. n : a < b => merged[a][2] < merged[b][1]
  BY MergedAre DEF Apart
<1>1. ASSUME NEW k \in 1 .. n + 1
      PROVE  /\ Start(k) \in 1 .. Len(text) + 1 /\ Stop(k) \in 0 .. Len(text)
             /\ Start(k) <= Stop(k) + 1
  <2>1. Start(k) \in 1 .. Len(text) + 1 /\ (k # 1 => k - 1 \in 1 .. n)
    <3>1. CASE k = 1
      BY <1>0, <3>1 DEF Start
    <3>2. CASE k # 1
      <4>1. k - 1 \in 1 .. n
        BY <1>0, <3>2
      <4>2. merged[k - 1][2] \in 1 .. Len(text)
        BY <1>0, <4>1
      <4>3. Start(k) = merged[k - 1][2] + 1
        BY <3>2 DEF Start
      <4> QED
        BY <1>0, <4>1, <4>2, <4>3
    <3> QED
      BY <3>1, <3>2
  <2>2. Stop(k) \in 0 .. Len(text)
    BY <1>0 DEF Stop
  <2>3. Start(k) <= Stop(k) + 1
    <3>1. CASE k = 1
      BY <2>2, <3>1 DEF Start
    <3>2. CASE k # 1 /\ k = n + 1
      BY <1>0, <2>1, <3>2 DEF Start, Stop
    <3>3. CASE k # 1 /\ k # n + 1
      <4>1. k \in 1 .. n /\ k - 1 \in 1 .. n /\ k - 1 < k
        BY <1>0, <3>3
      <4>2. merged[k - 1][2] < merged[k][1]
        BY <1>0, <4>1
      <4> QED
        BY <1>0, <4>1, <4>2, <3>3 DEF Start, Stop
    <3> QED
      BY <3>1, <3>2, <3>3
  <2> QED
    BY <2>1, <2>2, <2>3
<1>2. ASSUME NEW k \in 1 .. n + 1
      PROVE  /\ Between(k) = SubSeq(text, Start(k), Stop(k))
             /\ Between(k) \in Seq(Alphabet)
             /\ Len(Between(k)) = Stop(k) - Start(k) + 1
             /\ \A x \in 1 .. Len(Between(k)) : Between(k)[x] = text[Start(k) + x - 1]
  <2>1. Between(k) = SubSeq(text, Start(k), Stop(k))
    BY DEF Between, Start, Stop
  <2>2. Start(k) \in Int /\ Stop(k) \in Int /\ \A i \in Start(k) .. Stop(k) : text[i] \in Alphabet
    BY <1>0, <1>1
  <2>3. /\ SubSeq(text, Start(k), Stop(k)) \in Seq(Alphabet)
        /\ Len(SubSeq(text, Start(k), Stop(k))) = IF Start(k) <= Stop(k) THEN Stop(k) - Start(k) + 1 ELSE 0
        /\ \A i \in 1 .. Stop(k) - Start(k) + 1 :
              SubSeq(text, Start(k), Stop(k))[i] = text[Start(k) + i - 1]
    BY <2>2, SubSeqProperties
  <2>4. Len(Between(k)) = Stop(k) - Start(k) + 1
    BY <1>1, <2>1, <2>3
  <2> QED
    BY <2>1, <2>3, <2>4
<1>3. ASSUME NEW k \in 1 .. n + 1
      PROVE  /\ Mark(k) \in Seq(Alphabet)
             /\ Len(Mark(k)) = IF k <= n THEN 1 ELSE 0
             /\ k <= n => Mark(k)[1] = "#"
  <2>1. "#" \in Alphabet
    BY DEF Alphabet
  <2> QED
    BY <2>1 DEF Mark
<1>4. ASSUME NEW k \in 1 .. n + 1 PROVE Blocks[k] = Between(k) \o Mark(k) /\ Blocks[k] \in Seq(Alphabet)
  <2>1. Between(k) \o Mark(k) \in Seq(Alphabet)
    BY <1>2, <1>3, ConcatProperties
  <2> QED
    BY <2>1 DEF Blocks
<1>5. Blocks \in [1 .. n + 1 -> Seq(Alphabet)]
  <2>1. Blocks = [k \in 1 .. n + 1 |-> Blocks[k]]
    BY DEF Blocks
  <2> QED
    BY <1>4, <2>1
<1>6. Blocks \in Seq(Seq(Alphabet)) /\ Len(Blocks) = n + 1
  BY <1>0, <1>5
<1> QED
  BY <1>1, <1>2, <1>3, <1>4, <1>6

\* Three sequences, one behind the other.
LEMMA ThreeJoined ==
    ASSUME NEW A, NEW u \in Seq(A), NEW B \in Seq(A), NEW m \in Seq(A), NEW s, s = u \o (B \o m)
    PROVE  /\ s \in Seq(A) /\ Len(s) = Len(u) + Len(B) + Len(m)
           /\ \A x \in 1 .. Len(u) : s[x] = u[x]
           /\ \A y \in 1 .. Len(B) : s[Len(u) + y] = B[y]
           /\ \A y \in 1 .. Len(m) : s[Len(u) + Len(B) + y] = m[y]
<1> DEFINE c == B \o m
<1>1. /\ c \in Seq(A) /\ Len(c) = Len(B) + Len(m)
      /\ \A x \in 1 .. Len(B) + Len(m) : c[x] = IF x <= Len(B) THEN B[x] ELSE m[x - Len(B)]
  BY ConcatProperties
<1>2. Len(u) \in Nat /\ Len(B) \in Nat /\ Len(m) \in Nat
  BY LenProperties
<1>a. c \in Seq(A)
  BY <1>1
<1> HIDE DEF c
<1>3. /\ s \in Seq(A) /\ Len(s) = Len(u) + Len(c)
      /\ \A x \in 1 .. Len(u) + Len(c) : s[x] = IF x <= Len(u) THEN u[x] ELSE c[x - Len(u)]
  <2>1. s = u \o c
    BY DEF c
  <2> QED
    BY <1>a, <2>1, ConcatProperties
<1>4. Len(s) = Len(u) + Len(B) + Len(m)
  BY <1>1, <1>2, <1>3
<1>5. \A x \in 1 .. Len(u) : s[x] = u[x]
  BY <1>1, <1>2, <1>3
<1>6. ASSUME NEW z \in 1 .. Len(c) PROVE s[Len(u) + z] = c[z]
  <2>1. PICK x : x = Len(u) + z
    OBVIOUS
  <2>2. x \in 1 .. Len(u) + Len(c) /\ ~(x <= Len(u)) /\ x - Len(u) = z
    BY <1>1, <1>2, <2>1
  <2> QED
    BY <1>3, <2>1, <2>2
<1>7. ASSUME NEW y \in 1 .. Len(B) PROVE s[Len(u) + y] = B[y]
  <2>1. y \in 1 .. Len(c) /\ y \in 1 .. Len(B) + Len(m) /\ y <= Len(B)
    BY <1>1, <1>2
  <2> QED
    BY <1>1, <1>6, <2>1
<1>8. ASSUME NEW y \in 1 .. Len(m) PROVE s[Len(u) + Len(B) + y] = m[y]
  <2>1. PICK z : z = Len(B) + y
    OBVIOUS
  <2>2. z \in 1 .. Len(c) /\ z \in 1 .. Len(B) + Len(m) /\ ~(z <= Len(B)) /\ z - Len(B) = y
        /\ Len(u) + Len(B) + y = Len(u) + z
    BY <1>1, <1>2, <2>1
  <2>3. c[z] = m[y]
    BY <1>1, <2>2
  <2> QED
    BY <1>6, <2>2, <2>3
<1> QED
  BY <1>3, <1>4, <1>5, <1>7, <1>8

\* One block more.
LEMMA BlockAdded ==
    ASSUME Apart, NEW w, Joins(w, Blocks, Alphabet), NEW k \in 1 .. Len(merged) + 1
    PROVE  /\ w[k - 1] \in Seq(Alphabet) /\ w[k] \in Seq(Alphabet)
           /\ Len(w[k]) = Len(w[k - 1]) + Len(Between(k)) + (IF k <= Len(merged) THEN 1 ELSE 0)
           /\ \A x \in 1 .. Len(w[k - 1]) : w[k][x] = w[k - 1][x]
           /\ \A y \in 1 .. Len(Between(k)) : w[k][Len(w[k - 1]) + y] = text[Start(k) + y - 1]
           /\ k <= Len(merged) => w[k][Len(w[k])] = "#"
<1> DEFINE n == Len(merged)
           u == w[k - 1]
           B == Between(k)
           m == Mark(k)
           s == w[k]
<1>0. n \in Nat /\ k - 1 \in 0 .. n + 1 /\ k \in 0 .. n + 1
  BY MergedAre
<1>1. /\ B \in Seq(Alphabet) /\ m \in Seq(Alphabet) /\ Blocks[k] = B \o m /\ Len(Blocks) = n + 1
      /\ \A x \in 1 .. Len(B) : B[x] = text[Start(k) + x - 1]
      /\ Len(m) = IF k <= n THEN 1 ELSE 0
      /\ k <= n => m[1] = "#"
  BY BlocksAre
<1>2. u \in Seq(Alphabet) /\ s \in Seq(Alphabet) /\ s = u \o (B \o m)
  BY <1>0, <1>1 DEF Joins
<1>3. Len(u) \in Nat /\ Len(B) \in Nat
  BY <1>1, <1>2, LenProperties
<1> HIDE DEF u, B, m, s
<1>4. /\ Len(s) = Len(u) + Len(B) + Len(m)
      /\ \A x \in 1 .. Len(u) : s[x] = u[x]
      /\ \A y \in 1 .. Len(B) : s[Len(u) + y] = B[y]
      /\ \A y \in 1 .. Len(m) : s[Len(u) + Len(B) + y] = m[y]
  <2>1. u \in Seq(Alphabet) /\ B \in Seq(Alphabet) /\ m \in Seq(Alphabet)
    BY <1>1, <1>2
  <2>2. s = u \o (B \o m)
    BY <1>2
  <2> QED
    BY <2>1, <2>2, ThreeJoined
<1>5. Len(s) = Len(u) + Len(B) + (IF k <= n THEN 1 ELSE 0)
  BY <1>1, <1>4
<1>6. \A y \in 1 .. Len(B) : s[Len(u) + y] = text[Start(k) + y - 1]
  BY <1>1, <1>4
<1>7. ASSUME k <= n PROVE s[Len(s)] = "#"
  <2>1. Len(m) = 1 /\ m[1] = "#" /\ 1 \in 1 .. Len(m)
    BY <1>1, <1>7
  <2>2. Len(s) = Len(u) + Len(B) + 1
    BY <1>4, <2>1
  <2> QED
    BY <1>4, <2>1, <2>2
<1> QED
  BY <1>2, <1>4, <1>5, <1>6, <1>7 DEF u, B, s

\* The signs from i to j of s are those of block q of the text.
WithinBlock(s, i, j, q) ==
    \E d \in Int : /\ Start(q) <= i + d /\ j + d <= Stop(q)
                   /\ \A x \in i .. j : s[x] = text[x + d]

\* What has no mark in it is of one block.
LEMMA OneBlock ==
    ASSUME Apart, NEW w, Joins(w, Blocks, Alphabet), NEW k \in 0 .. Len(merged) + 1,
           NEW i \in 1 .. Len(w[k]), NEW j \in i .. Len(w[k]), \A x \in i .. j : w[k][x] # "#"
    PROVE  \E q \in 1 .. Len(merged) + 1 : WithinBlock(w[k], i, j, q)
<1> DEFINE n == Len(merged)
           Fine(a) ==
             \A e \in 1 .. Len(w[a]) : \A f \in e .. Len(w[a]) :
                (\A x \in e .. f : w[a][x] # "#") => \E q \in 1 .. n + 1 : WithinBlock(w[a], e, f, q)
           P == {a \in 0 .. n + 1 : Fine(a)}
<1>0. n \in Nat /\ Len(Blocks) = n + 1 /\ \A a \in 0 .. n + 1 : w[a] \in Seq(Alphabet) /\ Len(w[a]) \in Nat
  <2>1. n \in Nat /\ Len(Blocks) = n + 1
    BY MergedAre, BlocksAre
  <2>2. \A a \in 0 .. n + 1 : w[a] \in Seq(Alphabet)
    BY <2>1 DEF Joins
  <2> QED
    BY <2>1, <2>2, LenProperties
<1>1. 0 \in P
  <2>1. w[0] = <<>> /\ Len(w[0]) = 0
    BY DEF Joins
  <2>2. 1 .. Len(w[0]) = {}
    BY <2>1
  <2>3. Fine(0)
    BY <2>2
  <2> HIDE DEF Fine
  <2> QED
    BY <1>0, <2>3
<1>2. ASSUME NEW a \in 1 .. n + 1, a - 1 \in P PROVE a \in P
  <2> DEFINE L == Len(w[a - 1])
             B == Len(Between(a))
             M == Len(w[a])
             first == Start(a)
             final == Stop(a)
             old == w[a - 1]
             all == w[a]
  <2>0. a - 1 \in 0 .. n + 1 /\ a \in 0 .. n + 1
    BY <1>0
  <2>1. /\ L \in Nat /\ M \in Nat /\ B \in Nat
        /\ M = L + B + (IF a <= n THEN 1 ELSE 0)
        /\ B = final - first + 1 /\ first \in Nat /\ final \in Nat
    <3>1. L \in Nat /\ M \in Nat
      BY <1>0, <2>0
    <3>2. /\ B = final - first + 1 /\ Between(a) \in Seq(Alphabet)
          /\ first \in 1 .. Len(text) + 1 /\ final \in 0 .. Len(text) /\ Len(text) \in Nat
      BY BlocksAre, MergedAre
    <3>3. B \in Nat /\ first \in Nat /\ final \in Nat
      BY <3>2, LenProperties
    <3>4. M = L + B + (IF a <= n THEN 1 ELSE 0)
      BY BlockAdded
    <3> QED
      BY <3>1, <3>2, <3>3, <3>4
  <2>a. /\ \A x \in 1 .. L : all[x] = old[x]
        /\ \A y \in 1 .. B : all[L + y] = text[first + y - 1]
        /\ a <= n => all[M] = "#"
    BY BlockAdded, Zenon
  <2>2. L >= 1 => old[L] = "#"
    <3>1. CASE a = 1
      <4>1. w[a - 1] = <<>>
        BY <3>1 DEF Joins
      <4> QED
        BY <4>1
    <3>2. CASE a # 1
      <4>1. a - 1 \in 1 .. n + 1 /\ a - 1 <= n
        BY <1>0, <3>2
      <4> QED
        BY <4>1, BlockAdded
    <3> QED
      BY <3>1, <3>2
  <2>b. \A e \in 1 .. L : \A f \in e .. L :
          (\A x \in e .. f : old[x] # "#") => \E q \in 1 .. n + 1 : WithinBlock(old, e, f, q)
    BY <1>2
  <2> HIDE DEF L, B, M, first, final, old, all
  <2>3. ASSUME NEW e \in 1 .. M, NEW f \in e .. M, \A x \in e .. f : all[x] # "#"
        PROVE  \E q \in 1 .. n + 1 : WithinBlock(all, e, f, q)
    <3>1. CASE f <= L
      <4>1. e \in 1 .. L /\ f \in e .. L /\ \A x \in e .. f : x \in 1 .. L
        BY <2>1, <3>1
      <4>2. \A x \in e .. f : old[x] = all[x]
        BY <2>a, <4>1
      <4>3. \A x \in e .. f : old[x] # "#"
        BY <2>3, <4>2
      <4>4. PICK q \in 1 .. n + 1 : WithinBlock(old, e, f, q)
        BY <2>b, <4>1, <4>3
      <4>5. WithinBlock(all, e, f, q)
        BY <4>2, <4>4 DEF WithinBlock
      <4> QED
        BY <4>5
    <3>2. CASE ~(f <= L)
      <4>1. e > L
        <5> SUFFICES ASSUME e <= L PROVE FALSE
          BY <2>1
        <5>1. L \in e .. f /\ L \in 1 .. L /\ L >= 1
          BY <2>1, <3>2
        <5>2. all[L] # "#" /\ all[L] = old[L]
          BY <2>a, <2>3, <5>1
        <5> QED
          BY <2>2, <5>1, <5>2
      <4>2. f <= L + B
        <5> SUFFICES ASSUME f > L + B PROVE FALSE
          BY <2>1
        <5>1. a <= n /\ f = M /\ M \in e .. f
          BY <2>1
        <5> QED
          BY <2>a, <2>3, <5>1
      <4> DEFINE d == first - L - 1
      <4>3. d \in Int /\ first <= e + d /\ f + d <= final
        BY <2>1, <4>1, <4>2
      <4>4. ASSUME NEW x \in e .. f PROVE all[x] = text[x + d]
        <5>1. PICK y : y = x - L
          OBVIOUS
        <5>2. y \in 1 .. B /\ L + y = x /\ first + y - 1 = x + d
          BY <2>1, <4>1, <4>2, <5>1
        <5>3. all[L + y] = text[first + y - 1]
          BY <2>a, <5>2
        <5> QED
          BY <5>2, <5>3
      <4>5. WithinBlock(all, e, f, a)
        <5> HIDE DEF d
        <5> QED
          BY <4>3, <4>4 DEF WithinBlock, first, final
      <4> QED
        BY <4>5
    <3> QED
      BY <3>1, <3>2
  <2>4. Fine(a)
    BY <2>3 DEF all, M
  <2> HIDE DEF Fine
  <2> QED
    BY <2>0, <2>4
<1> HIDE DEF Fine
<1>3. \A a \in 0 .. n + 1 : a \in P
  <2>1. n + 1 \in Nat
    BY <1>0
  <2> HIDE DEF P
  <2> QED
    BY <1>1, <1>2, <2>1, UpTo, Zenon
<1>4. Fine(k)
  BY <1>3
<1> QED
  BY <1>4 DEF Fine

\* What a block holds is away from every span.
LEMMA BlockAway ==
    ASSUME Apart, NEW q \in 1 .. Len(merged) + 1, NEW i \in Int, NEW j \in Int,
           Start(q) <= i, i <= j, j <= Stop(q), NEW a \in 1 .. Len(merged)
    PROVE  /\ i \in 1 .. Len(text) /\ j \in 1 .. Len(text)
           /\ j < merged[a][1] \/ merged[a][2] < i
<1>1. /\ Len(text) \in Nat /\ Len(merged) \in Nat
      /\ \A b \in 1 .. Len(merged) : /\ merged[b][1] \in 1 .. Len(text) /\ merged[b][2] \in 1 .. Len(text)
                                     /\ merged[b][1] <= merged[b][2]
      /\ \A b, c \in 1 .. Len(merged) : b < c => merged[b][2] < merged[c][1]
  BY MergedAre DEF Apart
<1>2. Start(q) \in 1 .. Len(text) + 1 /\ Stop(q) \in 0 .. Len(text)
  BY BlocksAre
<1>3. i \in 1 .. Len(text) /\ j \in 1 .. Len(text)
  BY <1>1, <1>2
<1>4. CASE a < q
  <2>1. q - 1 \in 1 .. Len(merged) /\ q # 1
    BY <1>1, <1>4
  <2>2. Start(q) = merged[q - 1][2] + 1
    BY <2>1 DEF Start
  <2>3. merged[a][2] <= merged[q - 1][2]
    <3>1. CASE a = q - 1
      BY <1>1, <2>1, <3>1
    <3>2. CASE a # q - 1
      <4>1. a < q - 1
        BY <1>1, <1>4, <3>2
      <4>2. merged[a][2] < merged[q - 1][1]
        BY <1>1, <2>1, <4>1
      <4> QED
        BY <1>1, <2>1, <4>2
    <3> QED
      BY <3>1, <3>2
  <2>4. merged[a][2] < i
    <3>1. merged[a][2] \in Int /\ merged[q - 1][2] \in Int
      BY <1>1, <2>1
    <3>2. merged[q - 1][2] + 1 <= i
      BY <2>2
    <3> QED
      BY <2>3, <3>1, <3>2
  <2> QED
    BY <1>3, <2>4
<1>5. CASE ~(a < q)
  <2>1. q \in 1 .. Len(merged) /\ ~(q > Len(merged))
    BY <1>1, <1>5
  <2>2. Stop(q) = merged[q][1] - 1
    BY <2>1 DEF Stop
  <2>3. merged[q][1] <= merged[a][1]
    <3>1. CASE a = q
      BY <1>1, <2>1, <3>1
    <3>2. CASE a # q
      <4>1. q < a
        BY <1>1, <1>5, <3>2
      <4>2. merged[q][2] < merged[a][1]
        BY <1>1, <2>1, <4>1
      <4> QED
        BY <1>1, <2>1, <4>2
    <3> QED
      BY <3>1, <3>2
  <2>4. j < merged[a][1]
    <3>1. merged[a][1] \in Int /\ merged[q][1] \in Int
      BY <1>1, <2>1
    <3>2. j <= merged[q][1] - 1
      BY <2>2
    <3> QED
      BY <2>3, <3>1, <3>2
  <2> QED
    BY <1>3, <2>4
<1> QED
  BY <1>3, <1>4, <1>5

\* Two spans that have a place in common.
Meets(o, m) == o[1] <= m[2] /\ m[1] <= o[2]

\* Every secret is still ahead, or meets a span that is replaced.
MaskReady ==
    job = "mask" =>
        /\ todo = {} /\ \A k \in 1 .. Len(merged) : merged[k] \in Occurrences
        /\ \A o \in Occurrences : o \in Ahead \/ \E k \in 1 .. Len(merged) : Meets(o, merged[k])
        /\ phase # "scan" => Ahead = {}

\* No secret is empty.
LEMMA SecretIs ==
    ASSUME NEW s \in Secrets
    PROVE  Len(s) \in Nat /\ Len(s) >= 1 /\ DOMAIN s = 1 .. Len(s)
<1>1. PICK e \in Environment : s = e.value /\ Len(e.value) >= MinSecret
  BY DEF Secrets
<1>2. e.value \in Seq(STRING) /\ MinSecret \in Nat \ {0}
  BY RedAssumption
<1>3. Len(s) \in Nat /\ DOMAIN s = 1 .. Len(s)
  BY <1>1, <1>2, LenProperties
<1> QED
  BY <1>1, <1>2, <1>3

\* So an occurrence of one holds at least a sign.
LEMMA OccurrenceIs ==
    ASSUME text \in Seq(Alphabet), NEW o \in Occurrences
    PROVE  /\ o \in Places /\ o = <<o[1], o[2]>> /\ o[1] \in 1 .. Len(text) /\ o[2] \in 1 .. Len(text)
           /\ o[1] <= o[2]
<1>1. /\ o \in Places /\ o = <<o[1], o[2]>> /\ o[1] \in 1 .. Len(text) /\ o[2] \in 1 .. Len(text)
      /\ SubSeq(text, o[1], o[2]) \in Secrets
  BY DEF Occurrences, Places
<1>2. Len(text) \in Nat
  BY LenProperties
<1>3. o[1] <= o[2]
  <2> SUFFICES ASSUME o[2] < o[1] PROVE FALSE
    BY <1>1, <1>2
  <2>1. SubSeq(text, o[1], o[2]) = <<>>
    BY <1>1, <1>2, SubSeqEmpty
  <2>2. Len(<<>>) >= 1
    BY <1>1, <2>1, SecretIs
  <2> QED
    BY <2>2, EmptySeq
<1> QED
  BY <1>1, <1>3

\* Between the spans of mask_secrets no secret is left.
LEMMA Masked ==
    ASSUME Apart, MaskReady, job = "mask", phase = "done", out = FlattenSeq(Blocks)
    PROVE  MaskHidesSecrets
<1> DEFINE n == Len(merged)
<1>1. PICK w : Joins(w, Blocks, Alphabet)
  BY BlocksAre, JoinsExist
<1>2. /\ out = w[n + 1] /\ n + 1 \in 0 .. n + 1 /\ out \in Seq(Alphabet)
      /\ Len(out) \in Nat /\ DOMAIN out = 1 .. Len(out)
  <2>1. Blocks \in Seq(Seq(Alphabet)) /\ Len(Blocks) = n + 1 /\ n \in Nat
    BY BlocksAre, MergedAre
  <2>2. out = w[n + 1]
    <3>1. FlattenSeq(Blocks) = w[Len(Blocks)]
      BY <1>1, <2>1, FlattenJoins, Zenon
    <3> QED
      BY <2>1, <3>1, Zenon
  <2>3. out \in Seq(Alphabet)
    <3>1. w \in [0 .. n + 1 -> Seq(Alphabet)] /\ n + 1 \in 0 .. n + 1
      BY <1>1, <2>1 DEF Joins
    <3> QED
      BY <2>2, <3>1
  <2> QED
    BY <2>1, <2>2, <2>3, LenProperties
<1>3. ASSUME NEW i \in 1 .. Len(out), NEW j \in 1 .. Len(out), NEW s \in Secrets,
             "#" \notin ToSet(s), SubSeq(out, i, j) = s
      PROVE  FALSE
  <2>1. Len(s) \in Nat /\ Len(s) >= 1 /\ DOMAIN s = 1 .. Len(s)
    BY SecretIs
  <2>2. i <= j
    <3> SUFFICES ASSUME j < i PROVE FALSE
      BY <1>2
    <3>1. s = <<>>
      BY <1>2, <1>3, SubSeqEmpty
    <3> QED
      BY <2>1, <3>1, EmptySeq
  <2>3. /\ Len(s) = j - i + 1 /\ s \in Seq(Alphabet)
        /\ \A x \in 1 .. j - i + 1 : s[x] = out[i + x - 1]
    <3>1. \A x \in i .. j : out[x] \in Alphabet
      BY <1>2, ElementOfSeq
    <3> DEFINE t == SubSeq(out, i, j)
    <3>2. /\ t \in Seq(Alphabet)
          /\ Len(t) = IF i <= j THEN j - i + 1 ELSE 0
          /\ \A x \in 1 .. j - i + 1 : t[x] = out[i + x - 1]
      <4>1. i \in Int /\ j \in Int
        OBVIOUS
      <4> QED
        BY <3>1, <4>1, SubSeqProperties
    <3>3. t = s
      BY <1>3
    <3> HIDE DEF t
    <3> QED
      BY <2>2, <3>2, <3>3
  <2>4. ASSUME NEW x \in i .. j PROVE out[x] # "#"
    <3>1. PICK y : y = x - i + 1
      OBVIOUS
    <3>2. y \in 1 .. j - i + 1 /\ i + y - 1 = x
      BY <3>1
    <3>3. s[y] = out[x] /\ y \in DOMAIN s
      BY <2>1, <2>3, <3>2
    <3> QED
      BY <1>3, <3>3 DEF ToSet
  <2>5. PICK q \in 1 .. n + 1 : WithinBlock(out, i, j, q)
    <3>1. i \in 1 .. Len(w[n + 1]) /\ j \in i .. Len(w[n + 1]) /\ \A x \in i .. j : w[n + 1][x] # "#"
      BY <1>2, <2>2, <2>4
    <3> QED
      BY <1>1, <1>2, <3>1, OneBlock
  <2>6. PICK d \in Int : /\ Start(q) <= i + d /\ j + d <= Stop(q)
                         /\ \A x \in i .. j : out[x] = text[x + d]
    BY <2>5 DEF WithinBlock
  <2>7. PICK a, b : a = i + d /\ b = j + d
    OBVIOUS
  <2>8. a \in Int /\ b \in Int /\ a <= b /\ Start(q) <= a /\ b <= Stop(q)
    BY <2>2, <2>6, <2>7
  <2>9. a \in 1 .. Len(text) /\ b \in 1 .. Len(text)
    <3>1. Start(q) \in 1 .. Len(text) + 1 /\ Stop(q) \in 0 .. Len(text) /\ Len(text) \in Nat
      BY BlocksAre, MergedAre
    <3> QED
      BY <2>8, <3>1
  <2>10. SubSeq(text, a, b) = s
    <3>1. \A x \in a .. b : text[x] \in Alphabet
      BY <2>9, MergedAre
    <3> DEFINE t == SubSeq(text, a, b)
    <3>a. /\ t \in Seq(Alphabet) /\ Len(t) = IF a <= b THEN b - a + 1 ELSE 0
          /\ \A x \in 1 .. b - a + 1 : t[x] = text[a + x - 1]
      <4>1. a \in Int /\ b \in Int
        BY <2>8
      <4> QED
        BY <3>1, <4>1, SubSeqProperties
    <3>b. SubSeq(text, a, b) = t
      OBVIOUS
    <3> HIDE DEF t
    <3>2. t \in Seq(Alphabet) /\ Len(t) = b - a + 1 /\ \A x \in 1 .. b - a + 1 : t[x] = text[a + x - 1]
      BY <2>8, <3>a
    <3>3. b - a + 1 = j - i + 1
      BY <2>7
    <3>4. ASSUME NEW x \in 1 .. j - i + 1 PROVE t[x] = s[x]
      <4>1. PICK y : y = i + x - 1
        OBVIOUS
      <4>2. y \in i .. j /\ a + x - 1 = y + d
        BY <2>7, <4>1
      <4>3. s[x] = out[y]
        BY <2>3, <4>1
      <4>4. out[y] = text[y + d]
        BY <2>6, <4>2
      <4> QED
        BY <3>2, <3>3, <4>2, <4>3, <4>4
    <3>5. t = s
      <4>1. s \in Seq(Alphabet) /\ Len(t) = Len(s) /\ \A x \in 1 .. Len(t) : t[x] = s[x]
        BY <2>3, <3>2, <3>3, <3>4
      <4> QED
        BY <3>2, <4>1, SeqEqual, Zenon
    <3> QED
      BY <3>5, <3>b
  <2>11. <<a, b>> \in Occurrences
    BY <2>9, <2>10 DEF Occurrences
  <2>12. PICK k \in 1 .. n : Meets(<<a, b>>, merged[k])
    BY <2>11 DEF MaskReady
  <2>13. b < merged[k][1] \/ merged[k][2] < a
    BY <2>8, BlockAway
  <2>14. merged[k][1] \in Int /\ merged[k][2] \in Int
    BY MergedAre
  <2> QED
    BY <2>8, <2>12, <2>13, <2>14 DEF Meets
<1>4. \A x \in DOMAIN text :
         (\A s \in Occurrences : x \notin s[1] .. s[2]) => \A s \in ToSet(merged) : x \notin s[1] .. s[2]
  <2>1. DOMAIN merged = 1 .. n
    BY LenProperties DEF Apart
  <2>2. \A s \in ToSet(merged) : s \in Occurrences
    BY <2>1 DEF ToSet, MaskReady
  <2> QED
    BY <2>2
<1> QED
  BY <1>2, <1>3, <1>4 DEF MaskHidesSecrets

\* The next match is ahead, and none ends before it.
LEMMA FirstMatchIs ==
    ASSUME text \in Seq(Alphabet), Ahead # {}
    PROVE  /\ FirstMatch(Ahead) \in Ahead
           /\ \A r \in Ahead : FirstMatch(Ahead)[2] <= r[2]
<1>1. Ahead \in SUBSET (Nat \X Nat)
  BY DEF Ahead, Occurrences
<1> DEFINE S == Ahead
<1>2. \A r \in S : r[2] \in Nat
  BY <1>1
<1> HIDE DEF S
<1>3. \E s \in S : \A r \in S : s[2] < r[2] \/ (s[2] = r[2] /\ s[1] <= r[1])
  BY <1>1, LeastPair DEF S
<1>4. FirstMatch(S) \in S /\ \A r \in S : FirstMatch(S)[2] < r[2] \/ (FirstMatch(S)[2] = r[2] /\ FirstMatch(S)[1] <= r[1])
  BY <1>3 DEF FirstMatch
<1> QED
  BY <1>2, <1>4 DEF S

\* A match more.
LEMMA Appended ==
    ASSUME Apart, text' = text, NEW f \in Places, f[1] <= f[2], merged' = Append(merged, f),
           \A a \in 1 .. Len(merged) : merged[a][2] < f[1]
    PROVE  /\ Apart' /\ Len(merged') = Len(merged) + 1 /\ merged'[Len(merged) + 1] = f
           /\ \A a \in 1 .. Len(merged) : merged'[a] = merged[a]
<1> DEFINE n == Len(merged)
           m == merged'
<1>1. merged \in Seq(Places) /\ n \in Nat
  BY MergedAre DEF Apart
<1>2. /\ m \in Seq(Places) /\ Len(m) = n + 1 /\ m[n + 1] = f
      /\ \A a \in 1 .. n : m[a] = merged[a]
  BY <1>1
<1>3. Places' = Places
  BY DEF Places
<1>4. \A a \in 1 .. n + 1 : m[a][1] <= m[a][2]
  BY <1>1, <1>2 DEF Apart
<1>5. ASSUME NEW a \in 1 .. n + 1, NEW b \in 1 .. n + 1, a < b PROVE m[a][2] < m[b][1]
  <2>1. a \in 1 .. n
    BY <1>1, <1>5
  <2>2. CASE b = n + 1
    BY <1>2, <2>1, <2>2
  <2>3. CASE b # n + 1
    <3>1. b \in 1 .. n
      BY <1>1, <2>3
    <3> QED
      BY <1>2, <1>5, <2>1, <3>1 DEF Apart
  <2> QED
    BY <2>2, <2>3
<1> QED
  BY <1>2, <1>3, <1>4, <1>5 DEF Apart

\* A match of mask_secrets leaves no secret that neither meets it nor is ahead.
LEMMA MaskNextKeeps ==
    ASSUME Apart, MaskReady, MaskNext
    PROVE  Apart' /\ MaskReady'
<1>1. /\ job = "mask" /\ text' = text /\ job' = job /\ todo' = todo /\ out' = out /\ phase = "scan"
  BY DEF MaskNext
<1>2. Occurrences' = Occurrences /\ text \in Seq(Alphabet) /\ text' \in Seq(Alphabet)
  BY <1>1 DEF Occurrences, Apart
<1>3. CASE Ahead = {}
  <2>1. merged' = merged
    BY <1>3 DEF MaskNext
  <2>2. Ahead' = Ahead
    BY <1>2, <2>1 DEF Ahead
  <2>3. Apart'
    BY <1>1, <2>1 DEF Apart, Places
  <2> QED
    BY <1>1, <1>2, <1>3, <2>1, <2>2, <2>3 DEF MaskReady
<1>4. CASE Ahead # {}
  <2> DEFINE f == FirstMatch(Ahead)
             n == Len(merged)
  <2>1. merged' = Append(merged, f) /\ phase' = "scan"
    BY <1>1, <1>4 DEF MaskNext
  <2>2. f \in Ahead /\ \A r \in Ahead : f[2] <= r[2]
    BY <1>2, <1>4, FirstMatchIs
  <2>3. f \in Occurrences /\ (merged = <<>> \/ f[1] > Last(merged)[2])
    BY <2>2 DEF Ahead
  <2>4. f \in Places /\ f[1] \in Nat /\ f[2] \in Nat /\ f[1] <= f[2]
    BY <1>2, <2>3, OccurrenceIs
  <2> HIDE DEF f
  <2>5. \A a \in 1 .. n : merged[a][2] < f[1]
    <3> SUFFICES ASSUME NEW a \in 1 .. n PROVE merged[a][2] < f[1]
      OBVIOUS
    <3>0. /\ n \in Nat /\ merged # <<>>
          /\ \A b \in 1 .. n : merged[b][1] \in Nat /\ merged[b][2] \in Nat /\ merged[b][1] <= merged[b][2]
      <4>1. merged = <<>> => Len(merged) = 0
        OBVIOUS
      <4> QED
        BY <4>1, MergedAre
    <3>1. n \in 1 .. n /\ merged[n][2] < f[1]
      <4>1. f[1] > merged[n][2]
        BY <2>3, <3>0 DEF Last
      <4> QED
        BY <2>4, <3>0, <4>1
    <3> HIDE DEF n
    <3>2. CASE ~(a < n)
      <4>1. a = n
        BY <3>0, <3>2
      <4> QED
        BY <3>1, <4>1
    <3>3. CASE a < n
      <4>2. merged[a][2] < merged[n][1]
        BY <3>1, <3>3 DEF Apart, n
      <4> QED
        BY <2>4, <3>0, <3>1, <4>2
    <3> QED
      BY <3>2, <3>3
  <2>6. /\ Apart' /\ Len(merged') = n + 1 /\ merged'[n + 1] = f
        /\ \A a \in 1 .. n : merged'[a] = merged[a]
    BY <1>1, <2>1, <2>4, <2>5, Appended
  <2>7. n \in Nat
    BY MergedAre
  <2>8. \A k \in 1 .. n + 1 : merged'[k] \in Occurrences
    BY <1>1, <2>3, <2>6, <2>7 DEF MaskReady
  <2>9. ASSUME NEW o \in Occurrences
        PROVE  o \in Ahead' \/ \E k \in 1 .. n + 1 : Meets(o, merged'[k])
    <3>0. o[1] \in Nat /\ o[2] \in Nat /\ o[1] <= o[2]
      BY <1>2, OccurrenceIs
    <3>1. CASE o \in Ahead /\ o[1] > f[2]
      <4>1. Last(merged') = f
        BY <2>6, <2>7 DEF Last
      <4> QED
        BY <1>2, <3>1, <4>1 DEF Ahead
    <3>2. CASE o \in Ahead /\ ~(o[1] > f[2])
      <4>1. f[2] <= o[2]
        BY <2>2, <3>2
      <4>2. Meets(o, f)
        BY <2>4, <3>0, <3>2, <4>1 DEF Meets
      <4> QED
        BY <2>6, <2>7, <4>2
    <3>3. CASE o \notin Ahead
      <4>1. PICK k \in 1 .. n : Meets(o, merged[k])
        BY <1>1, <3>3 DEF MaskReady
      <4>2. k \in 1 .. n + 1 /\ Meets(o, merged'[k])
        BY <2>6, <2>7, <4>1
      <4> QED
        BY <4>2
    <3> QED
      BY <3>1, <3>2, <3>3
  <2>10. MaskReady'
    BY <1>1, <1>2, <2>1, <2>6, <2>8, <2>9 DEF MaskReady
  <2> QED
    BY <2>6, <2>10
<1> QED
  BY <1>3, <1>4

\* Where a loop that skips signs stops.
LEMMA SkipIs ==
    ASSUME Len(text) \in Nat, NEW set, NEW i \in 1 .. Len(text) + 1
    PROVE  /\ Skip(set, i) \in i .. Len(text) + 1
           /\ Skip(set, i) = Len(text) + 1 \/ text[Skip(set, i)] \notin set
           /\ \A k \in i .. Len(text) + 1 : (\A x \in i .. k - 1 : text[x] \in set) => k <= Skip(set, i)
<1> DEFINE n == Len(text) + 1
           S == {j \in i .. n : j = n \/ text[j] \notin set}
           m == Skip(set, i)
<1>1. S \in SUBSET Nat /\ S # {}
  <2>1. n \in S
    OBVIOUS
  <2> QED
    BY <2>1
<1>2. m = Min(S)
  BY DEF Skip
<1>3. \E x \in S : \A y \in S : x <= y
  <2> HIDE DEF S
  <2> QED
    BY <1>1, LeastNumber
<1>4. m \in S /\ \A y \in S : m <= y
  <2> HIDE DEF S, m
  <2> QED
    BY <1>2, <1>3 DEF Min
<1> HIDE DEF m
<1>5. m \in i .. n /\ (m = n \/ text[m] \notin set)
  BY <1>4
<1>6. ASSUME NEW k \in i .. n, \A x \in i .. k - 1 : text[x] \in set PROVE k <= m
  <2> SUFFICES ASSUME m < k PROVE FALSE
    BY <1>5
  <2>1. m \in i .. k - 1 /\ m # n
    BY <1>5
  <2> QED
    BY <1>5, <1>6, <2>1
<1> QED
  BY <1>5, <1>6 DEF m

\* It stops where something else stands.
LEMMA SkipTo ==
    ASSUME Len(text) \in Nat, NEW set, NEW i \in 1 .. Len(text) + 1, NEW k \in i .. Len(text),
           \A x \in i .. k - 1 : text[x] \in set, text[k] \notin set
    PROVE  Skip(set, i) = k
<1> DEFINE m == Skip(set, i)
<1>1. m \in i .. Len(text) + 1 /\ k <= m
  BY SkipIs
<1>2. \A l \in i .. Len(text) + 1 : (\A x \in i .. l - 1 : text[x] \in set) => l <= m
  BY SkipIs
<1>3. Skip(set, i) = Min({j \in i .. Len(text) + 1 : j = Len(text) + 1 \/ text[j] \notin set})
  BY DEF Skip
<1>4. \A y \in {j \in i .. Len(text) + 1 : j = Len(text) + 1 \/ text[j] \notin set} : m <= y
  <2> DEFINE S == {j \in i .. Len(text) + 1 : j = Len(text) + 1 \/ text[j] \notin set}
  <2>1. S \in SUBSET Nat /\ k \in S
    OBVIOUS
  <2>2. \E x \in S : \A y \in S : x <= y
    <3> HIDE DEF S
    <3> QED
      BY <2>1, LeastNumber
  <2>3. \A y \in S : Min(S) <= y
    <3> HIDE DEF S
    <3> QED
      BY <2>2 DEF Min
  <2> QED
    BY <1>3, <2>3
<1>5. m <= k
  BY <1>4
<1> HIDE DEF m
<1>6. m = k
  BY <1>1, <1>5
<1> QED
  BY <1>6 DEF m

\* What redact_for_log finds.
Spans == HeaderSpans \cup BearerSpans \cup KeySpans

\* Where a loop that skips signs stops is a place of the text, or behind it.
LEMMA SkipsFrom ==
    ASSUME NEW n \in Nat, Len(text) = n, NEW set, NEW i \in 1 .. n + 1, NEW m, m = Skip(set, i)
    PROVE  m \in 1 .. n + 1 /\ i <= m
<1>1. Skip(set, i) \in i .. Len(text) + 1
  BY SkipIs
<1> QED
  BY <1>1

\* A span of a header ends behind its beginning.
LEMMA HeaderSpanIs ==
    ASSUME NEW n \in Nat, Len(text) = n, DOMAIN text = 1 .. n, NEW s \in HeaderSpans
    PROVE  \E k \in 1 .. n : \E e \in 1 .. n + 1 : k < e /\ s = <<k, e - 1>>
<1>1. PICK k \in 1 .. n :
         /\ From(Skip({" "}, k + 1), "bearer")
         /\ From(Skip({" "}, k + 1) + 1, " ")
         /\ s = <<k, Skip(NoSpace, Skip({" "}, Skip({" "}, k + 1) + 1)) - 1>>
  BY DEF HeaderSpans
<1>2. PICK word : word = Skip({" "}, k + 1)
  OBVIOUS
<1>3. PICK after : after = Skip({" "}, word + 1)
  OBVIOUS
<1>4. PICK e : e = Skip(NoSpace, after)
  OBVIOUS
<1>5. s = <<k, e - 1>> /\ From(word + 1, " ")
  BY <1>1, <1>2, <1>3, <1>4
<1>6. k + 1 \in 1 .. n + 1
  OBVIOUS
<1>7. word \in 1 .. n + 1 /\ k + 1 <= word
  BY <1>2, <1>6, SkipsFrom
<1>8. word + 1 \in 1 .. n + 1
  <2>1. word + 1 <= Len(text)
    BY <1>5 DEF From
  <2>2. word + 1 <= n
    BY <2>1
  <2> QED
    BY <1>7, <2>2
<1>9. after \in 1 .. n + 1 /\ word + 1 <= after
  BY <1>3, <1>8, SkipsFrom
<1>10. e \in 1 .. n + 1 /\ after <= e
  BY <1>4, <1>9, SkipsFrom
<1>11. k < e
  BY <1>7, <1>9, <1>10
<1> QED
  BY <1>5, <1>10, <1>11

\* So does that of a bare bearer token, ...
LEMMA BearerSpanIs ==
    ASSUME NEW n \in Nat, Len(text) = n, DOMAIN text = 1 .. n, NEW s \in BearerSpans
    PROVE  \E k \in 1 .. n : \E e \in 1 .. n + 1 : k < e /\ s = <<k, e - 1>>
<1>1. PICK k \in 1 .. n : From(k + 1, " ") /\ s = <<k, Skip(Value, k + 2) - 1>>
  BY DEF BearerSpans
<1>2. PICK e : e = Skip(Value, k + 2)
  OBVIOUS
<1>3. k + 2 \in 1 .. n + 1
  <2>1. k + 1 <= Len(text)
    BY <1>1 DEF From
  <2>2. k + 1 <= n
    BY <2>1
  <2> QED
    BY <2>2
<1>4. e \in 1 .. n + 1 /\ k + 2 <= e
  BY <1>2, <1>3, SkipsFrom
<1>5. k < e
  BY <1>4
<1> QED
  BY <1>1, <1>2, <1>4, <1>5

\* ... and that of a key.
LEMMA KeySpanIs ==
    ASSUME NEW n \in Nat, Len(text) = n, DOMAIN text = 1 .. n, NEW s \in KeySpans
    PROVE  \E k \in 1 .. n : \E e \in 1 .. n + 1 : k < e /\ s = <<k, e - 1>>
<1>1. PICK k \in 1 .. n : s = <<k, Skip(Value, Skip(Separator, k + 1)) - 1>>
  BY DEF KeySpans
<1>2. PICK value : value = Skip(Separator, k + 1)
  OBVIOUS
<1>3. PICK e : e = Skip(Value, value)
  OBVIOUS
<1>4. k + 1 \in 1 .. n + 1
  OBVIOUS
<1>5. value \in 1 .. n + 1 /\ k + 1 <= value
  BY <1>2, <1>4, SkipsFrom
<1>6. e \in 1 .. n + 1 /\ value <= e
  BY <1>3, <1>5, SkipsFrom
<1>7. k < e
  BY <1>5, <1>6
<1> QED
  BY <1>1, <1>2, <1>3, <1>6, <1>7

\* A span is of places of the text and holds at least one.
LEMMA SpansAre ==
    ASSUME text \in Seq(Alphabet), NEW s \in Spans
    PROVE  /\ s \in Places /\ s = <<s[1], s[2]>> /\ s[1] \in 1 .. Len(text) /\ s[2] \in 1 .. Len(text)
           /\ s[1] <= s[2]
<1>1. PICK n \in Nat : Len(text) = n /\ DOMAIN text = 1 .. n
  BY LenProperties
<1>2. \E k \in 1 .. n : \E e \in 1 .. n + 1 : k < e /\ s = <<k, e - 1>>
  BY <1>1, HeaderSpanIs, BearerSpanIs, KeySpanIs DEF Spans
<1>3. PICK k \in 1 .. n : \E e \in 1 .. n + 1 : k < e /\ s = <<k, e - 1>>
  BY <1>2
<1>4. PICK e \in 1 .. n + 1 : k < e /\ s = <<k, e - 1>>
  BY <1>3
<1>5. PICK f : f = e - 1
  OBVIOUS
<1>6. f \in 1 .. n /\ k <= f /\ s = <<k, f>>
  BY <1>4, <1>5
<1> QED
  BY <1>1, <1>6 DEF Places

\* The value of a credential is skipped as a whole.
LEMMA ValueSkipped ==
    ASSUME NEW n \in Nat, Len(text) = n, NEW k \in 1 .. n, NEW j \in k .. n,
           \A x \in k .. j : text[x] \in Value, NEW set, Value \subseteq set, NEW e, e = Skip(set, k)
    PROVE  e \in 1 .. n + 1 /\ j + 1 <= e
<1>1. k \in 1 .. Len(text) + 1 /\ j + 1 \in k .. Len(text) + 1 /\ Len(text) \in Nat
  OBVIOUS
<1>2. \A x \in k .. (j + 1) - 1 : text[x] \in set
  OBVIOUS
<1>3. \A l \in k .. Len(text) + 1 : (\A x \in k .. l - 1 : text[x] \in set) => l <= Skip(set, k)
  BY <1>1, SkipIs
<1>4. j + 1 <= Skip(set, k)
  BY <1>1, <1>2, <1>3
<1>5. e \in 1 .. n + 1
  BY <1>1, SkipsFrom
<1> QED
  BY <1>4, <1>5

\* A credential is within one span, which begins with it.
LEMMA CredentialIn ==
    ASSUME text \in Seq(Alphabet), NEW i \in 1 .. Len(text), NEW j \in 1 .. Len(text), NEW k \in i + 2 .. j,
           IsCredential(i, k, j)
    PROVE  \E e \in j .. Len(text) : <<i, e>> \in Spans
<1>1. PICK n \in Nat : Len(text) = n /\ DOMAIN text = 1 .. n
  BY LenProperties
<1>2. /\ i \in 1 .. n /\ j \in k .. n /\ k \in 1 .. n /\ i + 2 <= k /\ i + 1 \in 1 .. n + 1
      /\ i + 1 <= n /\ k <= n
  BY <1>1
<1>3. \A x \in k .. j : text[x] \in Value
  BY DEF IsCredential
<1>4. MinKey \in Nat /\ MinBearer \in Nat
  BY RedAssumption
<1>5. ASSUME NEW e \in 1 .. n + 1, j + 1 <= e, NEW kind, kind \subseteq Spans, <<i, e - 1>> \in kind
      PROVE  \E f \in j .. Len(text) : <<i, f>> \in Spans
  <2>1. PICK f : f = e - 1
    OBVIOUS
  <2>2. f \in j .. Len(text) /\ <<i, f>> \in Spans
    BY <1>1, <1>2, <1>5, <2>1
  <2> QED
    BY <2>2
<1>6. CASE /\ text[i] = "key" /\ \A x \in i + 1 .. k - 1 : text[x] \in Separator
           /\ text[k] \notin Separator /\ j - k + 1 >= MinKey
  <2>1. Skip(Separator, i + 1) = k
    <3>1. Len(text) \in Nat /\ i + 1 \in 1 .. Len(text) + 1 /\ k \in i + 1 .. Len(text)
      BY <1>1, <1>2
    <3> QED
      BY <1>6, <3>1, SkipTo
  <2>2. PICK e : e = Skip(Value, k)
    OBVIOUS
  <2>3. e \in 1 .. n + 1 /\ j + 1 <= e
    BY <1>1, <1>2, <1>3, <2>2, ValueSkipped
  <2>4. e - k >= MinKey /\ k > i + 1
    BY <1>2, <1>4, <1>6, <2>3
  <2>5. <<i, e - 1>> \in KeySpans
    <3>1. Skip(Separator, i + 1) > i + 1
      BY <2>1, <2>4
    <3>2. Skip(Value, Skip(Separator, i + 1)) - Skip(Separator, i + 1) >= MinKey
      BY <2>1, <2>2, <2>4
    <3>3. <<i, e - 1>> = <<i, Skip(Value, Skip(Separator, i + 1)) - 1>>
      BY <2>1, <2>2
    <3> QED
      BY <1>1, <1>6, <3>1, <3>2, <3>3 DEF KeySpans
  <2>6. KeySpans \subseteq Spans
    BY DEF Spans
  <2> QED
    BY <1>5, <2>3, <2>5, <2>6
<1>7. CASE text[i] = "bearer" /\ k = i + 2 /\ text[i + 1] = " " /\ j - k + 1 >= MinBearer
  <2>1. PICK e : e = Skip(Value, k)
    OBVIOUS
  <2>2. e \in 1 .. n + 1 /\ j + 1 <= e
    BY <1>1, <1>2, <1>3, <2>1, ValueSkipped
  <2>3. e - k >= MinBearer
    <3>1. j - k + 1 >= MinBearer
      BY <1>7
    <3>2. j \in Int /\ k \in Int /\ e \in Int /\ MinBearer \in Int /\ j + 1 <= e
      BY <1>2, <1>4, <2>2
    <3> QED
      BY <3>1, <3>2
  <2>4. <<i, e - 1>> \in BearerSpans
    <3>1. e = Skip(Value, i + 2) /\ e - (i + 2) >= MinBearer
      BY <1>7, <2>1, <2>3
    <3>2. From(i + 1, " ")
      BY <1>1, <1>2, <1>7 DEF From
    <3> QED
      BY <1>1, <1>7, <3>1, <3>2 DEF BearerSpans
  <2>5. BearerSpans \subseteq Spans
    BY DEF Spans
  <2> QED
    BY <1>5, <2>2, <2>4, <2>5
<1>8. CASE /\ text[i] = "auth"
           /\ \E w \in i + 1 .. k - 2 :
                /\ text[w] = "bearer" /\ \A x \in (i + 1 .. k - 1) \ {w} : text[x] = " "
  <2>1. PICK w \in i + 1 .. k - 2 :
           text[w] = "bearer" /\ \A x \in (i + 1 .. k - 1) \ {w} : text[x] = " "
    BY <1>8
  <2>2. /\ w \in i + 1 .. n /\ w + 1 \in 1 .. n + 1 /\ w + 1 <= n /\ k \in w + 1 .. n /\ w <= n
        /\ w + 1 # w /\ w + 1 \in i + 1 .. k - 1
    BY <1>2
  <2>3. Skip({" "}, i + 1) = w
    <3>1. ASSUME NEW x \in i + 1 .. w - 1 PROVE text[x] \in {" "}
      <4>1. x \in i + 1 .. k - 1 /\ x # w
        BY <1>2
      <4>2. text[x] = " "
        BY <2>1, <4>1
      <4> QED
        BY <4>2
    <3>2. text[w] \notin {" "}
      BY <2>1
    <3>3. Len(text) \in Nat /\ i + 1 \in 1 .. Len(text) + 1 /\ w \in i + 1 .. Len(text)
      BY <1>1, <1>2, <2>2
    <3> QED
      BY <3>1, <3>2, <3>3, SkipTo
  <2>4. Skip({" "}, w + 1) = k
    <3>1. ASSUME NEW x \in w + 1 .. k - 1 PROVE text[x] \in {" "}
      <4>1. x \in i + 1 .. k - 1 /\ x # w
        BY <1>2
      <4>2. text[x] = " "
        BY <2>1, <4>1
      <4> QED
        BY <4>2
    <3>2. text[k] \notin {" "}
      <4>1. text[k] \in Value
        BY <1>2, <1>3
      <4> QED
        BY <4>1 DEF Value
    <3>3. Len(text) \in Nat /\ w + 1 \in 1 .. Len(text) + 1 /\ k \in w + 1 .. Len(text)
      BY <1>1, <2>2
    <3> QED
      BY <3>1, <3>2, <3>3, SkipTo
  <2>5. PICK e : e = Skip(NoSpace, k)
    OBVIOUS
  <2>6. e \in 1 .. n + 1 /\ j + 1 <= e
    <3>1. Value \subseteq NoSpace
      BY DEF NoSpace
    <3> QED
      BY <1>1, <1>2, <1>3, <2>5, <3>1, ValueSkipped
  <2>7. e > k
    BY <1>2, <2>6
  <2>8. <<i, e - 1>> \in HeaderSpans
    <3>1. From(w, "bearer") /\ From(w + 1, " ")
      BY <1>1, <2>1, <2>2 DEF From
    <3> QED
      BY <1>1, <1>8, <2>3, <2>4, <2>5, <2>7, <3>1 DEF HeaderSpans
  <2>9. HeaderSpans \subseteq Spans
    BY DEF Spans
  <2> QED
    BY <1>5, <2>6, <2>8, <2>9
<1> QED
  BY <1>6, <1>7, <1>8 DEF IsCredential

\* The places that are to be hidden, and those that merged spans hide.
Hidden == UNION {s[1] .. s[2] : s \in Spans}

Covered == UNION {merged[a][1] .. merged[a][2] : a \in 1 .. Len(merged)}

\* Spans that do not even touch.
Gaps == \A a, b \in 1 .. Len(merged) : a < b => merged[a][2] + 1 < merged[b][1]

\* What the log has for each sign, and the signs one behind the other.
ShownAt(x) ==
    IF x \notin Hidden THEN <<text[x]>> ELSE IF x - 1 \in Hidden THEN <<>> ELSE <<"#">>

Cells == [x \in DOMAIN text |-> ShownAt(x)]

\* Where parentheses stand makes no difference.
LEMMA Regrouped ==
    ASSUME NEW A, NEW u \in Seq(A), NEW v \in Seq(A), NEW z \in Seq(A), NEW r, r = u \o v,
           NEW t, t = v \o z
    PROVE  r \o z = u \o t
BY ConcatAssociative

\* The cells are sequences too.
LEMMA CellsAre ==
    ASSUME text \in Seq(Alphabet)
    PROVE  /\ Cells \in Seq(Seq(Alphabet)) /\ Len(Cells) = Len(text) /\ Len(text) \in Nat
           /\ \A x \in 1 .. Len(text) : Cells[x] = ShownAt(x) /\ text[x] \in Alphabet
<1>1. PICK n \in Nat : Len(text) = n /\ DOMAIN text = 1 .. n
  BY LenProperties
<1>2. \A x \in 1 .. n : text[x] \in Alphabet
  BY <1>1, ElementOfSeq
<1>3. ASSUME NEW x \in 1 .. n PROVE ShownAt(x) \in Seq(Alphabet)
  <2>1. "#" \in Alphabet
    BY DEF Alphabet
  <2>2. <<text[x]>> \in Seq(Alphabet) /\ <<"#">> \in Seq(Alphabet) /\ <<>> \in Seq(Alphabet)
    BY <1>2, <2>1, EmptySeq
  <2> QED
    BY <2>2 DEF ShownAt
<1>4. Cells \in [1 .. n -> Seq(Alphabet)] /\ \A x \in 1 .. n : Cells[x] = ShownAt(x)
  BY <1>1, <1>3 DEF Cells
<1>5. Cells \in Seq(Seq(Alphabet)) /\ Len(Cells) = n
  BY <1>4
<1> QED
  BY <1>1, <1>2, <1>4, <1>5

\* The first c cells, one behind the other.
LEMMA CellAdded ==
    ASSUME text \in Seq(Alphabet), NEW h, Joins(h, Cells, Alphabet),
           NEW n \in Nat, Len(text) = n
    PROVE  /\ \A c \in 0 .. n : h[c] \in Seq(Alphabet)
           /\ h[0] = <<>>
           /\ \A c \in 1 .. n : h[c] = h[c - 1] \o ShownAt(c)
<1>1. Len(Cells) = n /\ \A x \in 1 .. n : Cells[x] = ShownAt(x)
  BY CellsAre
<1> QED
  BY <1>1 DEF Joins

\* Where nothing is hidden they are the text.
LEMMA PlainStretch ==
    ASSUME text \in Seq(Alphabet), NEW h, Joins(h, Cells, Alphabet), NEW n \in Nat, Len(text) = n,
           NEW a \in 0 .. n, NEW b \in a .. n, \A x \in a + 1 .. b : x \notin Hidden
    PROVE  h[b] = h[a] \o SubSeq(text, a + 1, b)
<1>0. /\ \A c \in 0 .. n : h[c] \in Seq(Alphabet)
      /\ \A c \in 1 .. n : h[c] = h[c - 1] \o ShownAt(c)
  BY CellAdded
<1> DEFINE Same(c) == h[c] = h[a] \o SubSeq(text, a + 1, c)
           P == {c \in 0 .. n : a <= c /\ c <= b => Same(c)}
<1>1. Same(a)
  <2>1. SubSeq(text, a + 1, a) = <<>>
    BY SubSeqEmpty
  <2>2. h[a] \o <<>> = h[a]
    BY <1>0, ConcatEmptySeq
  <2> QED
    BY <2>1, <2>2
<1>2. ASSUME NEW c \in 1 .. n, a < c, c <= b, Same(c - 1) PROVE Same(c)
  <2>1. c - 1 \in 0 .. n /\ c \in a + 1 .. b /\ a + 1 \in 1 .. Len(text) /\ c \in a + 1 .. Len(text)
        /\ c \in 1 .. Len(text)
    BY <1>2
  <2>2. c \notin Hidden
    BY <2>1
  <2>3. ShownAt(c) = <<text[c]>>
    BY <2>2 DEF ShownAt
  <2>4. h[c] = h[c - 1] \o <<text[c]>> /\ h[c - 1] = h[a] \o SubSeq(text, a + 1, c - 1)
    BY <1>0, <1>2, <2>3
  <2>5. SubSeq(text, a + 1, c) = SubSeq(text, a + 1, c - 1) \o <<text[c]>>
    BY <2>1, SubSeqRecursiveSecond
  <2>6. h[a] \in Seq(Alphabet) /\ SubSeq(text, a + 1, c - 1) \in Seq(Alphabet) /\ <<text[c]>> \in Seq(Alphabet)
    <3>1. \A x \in 1 .. Len(text) : text[x] \in Alphabet
      BY CellsAre
    <3>2. \A x \in a + 1 .. c - 1 : text[x] \in Alphabet
      BY <2>1, <3>1
    <3>3. SubSeq(text, a + 1, c - 1) \in Seq(Alphabet)
      <4>1. a + 1 \in Int /\ c - 1 \in Int
        OBVIOUS
      <4> QED
        BY <3>2, <4>1, SubSeqProperties
    <3>4. text[c] \in Alphabet
      BY <2>1, <3>1
    <3>5. <<text[c]>> \in Seq(Alphabet)
      BY <3>4
    <3> QED
      BY <1>0, <3>3, <3>5
  <2>7. h[c - 1] \o <<text[c]>> = h[a] \o SubSeq(text, a + 1, c)
    <3>1. PICK u \in Seq(Alphabet), v \in Seq(Alphabet), z \in Seq(Alphabet) :
             u = h[a] /\ v = SubSeq(text, a + 1, c - 1) /\ z = <<text[c]>>
      BY <2>6
    <3>2. PICK r, t : r = h[c - 1] /\ t = SubSeq(text, a + 1, c)
      OBVIOUS
    <3>3. r = u \o v /\ t = v \o z
      BY <2>4, <2>5, <3>1, <3>2
    <3>4. r \o z = u \o t
      BY <3>3, Regrouped
    <3> QED
      BY <3>1, <3>2, <3>4
  <2> QED
    BY <2>4, <2>7
<1> HIDE DEF Same
<1>3. 0 \in P
  <2>1. a <= 0 => a = 0
    OBVIOUS
  <2> QED
    BY <1>1, <2>1
<1>4. ASSUME NEW c \in 1 .. n, c - 1 \in P PROVE c \in P
  <2> SUFFICES ASSUME a <= c, c <= b PROVE Same(c)
    OBVIOUS
  <2>1. CASE a = c
    BY <1>1, <2>1
  <2>2. CASE a # c
    <3>1. a < c /\ a <= c - 1 /\ c - 1 <= b
      BY <2>2
    <3>2. Same(c - 1)
      BY <1>4, <3>1
    <3> QED
      BY <1>2, <3>1, <3>2
  <2> QED
    BY <2>1, <2>2
<1>5. \A c \in 0 .. n : c \in P
  <2> HIDE DEF P
  <2> QED
    BY <1>3, <1>4, UpTo, Zenon
<1>6. Same(b)
  <2>1. b \in P /\ a <= b /\ b <= b
    BY <1>5
  <2> QED
    BY <2>1
<1> QED
  BY <1>6 DEF Same

\* Behind the first place of a run that is hidden they add nothing.
LEMMA HiddenStretch ==
    ASSUME text \in Seq(Alphabet), NEW h, Joins(h, Cells, Alphabet), NEW n \in Nat, Len(text) = n,
           NEW a \in 0 .. n, NEW b \in a .. n,
           \A x \in a + 1 .. b : x \in Hidden /\ x - 1 \in Hidden
    PROVE  h[b] = h[a]
<1>0. /\ \A c \in 0 .. n : h[c] \in Seq(Alphabet)
      /\ \A c \in 1 .. n : h[c] = h[c - 1] \o ShownAt(c)
  BY CellAdded
<1> DEFINE P == {c \in 0 .. n : a <= c /\ c <= b => h[c] = h[a]}
<1>3. 0 \in P
  <2>1. a <= 0 => a = 0
    OBVIOUS
  <2> QED
    BY <2>1
<1>4. ASSUME NEW c \in 1 .. n, c - 1 \in P PROVE c \in P
  <2> SUFFICES ASSUME a <= c, c <= b PROVE h[c] = h[a]
    OBVIOUS
  <2>1. CASE a = c
    BY <2>1
  <2>2. CASE a # c
    <3>1. a <= c - 1 /\ c - 1 <= b /\ c \in a + 1 .. b /\ c - 1 \in 0 .. n
      BY <2>2
    <3>2. h[c - 1] = h[a]
      BY <1>4, <3>1
    <3>3. ShownAt(c) = <<>>
      BY <3>1 DEF ShownAt
    <3>4. h[c - 1] \o <<>> = h[c - 1]
      BY <1>0, <3>1, ConcatEmptySeq
    <3> QED
      BY <1>0, <3>2, <3>3, <3>4
  <2> QED
    BY <2>1, <2>2
<1>5. \A c \in 0 .. n : c \in P
  <2> HIDE DEF P
  <2> QED
    BY <1>3, <1>4, UpTo, Zenon
<1>6. b \in P /\ a <= b /\ b <= b
  BY <1>5
<1> QED
  BY <1>6

\* What is hidden are the spans, apart from one another.
LEMMA HiddenIs ==
    ASSUME Apart, Gaps, Covered = Hidden
    PROVE  /\ \A k \in 1 .. Len(merged) :
                 /\ merged[k][1] - 1 \notin Hidden
                 /\ \A x \in merged[k][1] .. merged[k][2] : x \in Hidden
           /\ \A k \in 1 .. Len(merged) + 1 : \A x \in Start(k) .. Stop(k) : x \notin Hidden
<1>1. PICK n \in Nat : Len(merged) = n
  BY MergedAre
<1>2. \A a \in 1 .. n : merged[a][1] \in Int /\ merged[a][2] \in Int /\ merged[a][1] <= merged[a][2]
  BY <1>1, MergedAre
<1>3. \A x : x \in Hidden <=> \E a \in 1 .. n : x \in merged[a][1] .. merged[a][2]
  <2>1. \A x : x \in Covered <=> \E a \in 1 .. n : x \in merged[a][1] .. merged[a][2]
    BY <1>1 DEF Covered
  <2> QED
    BY <2>1
<1>4. ASSUME NEW k \in 1 .. n PROVE merged[k][1] - 1 \notin Hidden
  <2> SUFFICES ASSUME NEW a \in 1 .. n, merged[k][1] - 1 \in merged[a][1] .. merged[a][2] PROVE FALSE
    BY <1>3
  <2>1. merged[a][1] <= merged[k][1] - 1 /\ merged[k][1] - 1 <= merged[a][2]
    OBVIOUS
  <2>2. CASE a < k
    <3>1. merged[a][2] + 1 < merged[k][1]
      BY <1>1, <2>2 DEF Gaps
    <3> QED
      BY <1>2, <2>1, <3>1
  <2>3. CASE a = k
    BY <1>2, <2>1, <2>3
  <2>4. CASE k < a
    <3>1. merged[k][2] + 1 < merged[a][1]
      BY <1>1, <2>4 DEF Gaps
    <3> QED
      BY <1>2, <2>1, <3>1
  <2> QED
    BY <2>2, <2>3, <2>4
<1>5. ASSUME NEW k \in 1 .. n + 1, NEW x \in Start(k) .. Stop(k) PROVE x \notin Hidden
  <2>0. Start(k) \in Int /\ Stop(k) \in Int
    <3>1. k \in 1 .. Len(merged) + 1 /\ Len(text) \in Nat
      BY <1>1, MergedAre
    <3>2. Start(k) \in 1 .. Len(text) + 1 /\ Stop(k) \in 0 .. Len(text)
      BY <3>1, BlocksAre
    <3> QED
      BY <3>1, <3>2
  <2>1. x \in Int /\ Start(k) <= x /\ x <= Stop(k) /\ x <= x /\ k \in 1 .. Len(merged) + 1
    BY <1>1, <2>0
  <2> SUFFICES ASSUME NEW a \in 1 .. n, x \in merged[a][1] .. merged[a][2] PROVE FALSE
    BY <1>3
  <2>2. x < merged[a][1] \/ merged[a][2] < x
    <3>1. a \in 1 .. Len(merged)
      BY <1>1
    <3> QED
      BY <2>1, <3>1, BlockAway
  <2> QED
    BY <1>2, <2>1, <2>2
<1> QED
  BY <1>1, <1>3, <1>4, <1>5

\* The text between the spans with a mark for each is what the cells hold.
LEMMA MarkedOut ==
    ASSUME Apart, Gaps, Covered = Hidden
    PROVE  FlattenSeq(Blocks) = FlattenSeq(Cells)
<1>0. PICK n \in Nat, N \in Nat : Len(merged) = n /\ Len(text) = N
  BY MergedAre
<1>1. /\ text \in Seq(Alphabet) /\ Blocks \in Seq(Seq(Alphabet)) /\ Len(Blocks) = n + 1
      /\ Cells \in Seq(Seq(Alphabet)) /\ Len(Cells) = N
  BY <1>0, BlocksAre, CellsAre DEF Apart
<1>2. PICK w : Joins(w, Blocks, Alphabet)
  BY <1>1, JoinsExist
<1>3. PICK h : Joins(h, Cells, Alphabet)
  BY <1>1, JoinsExist
<1>4. /\ \A k \in 1 .. n : /\ merged[k][1] \in 1 .. N /\ merged[k][2] \in 1 .. N
                           /\ merged[k][1] <= merged[k][2]
                           /\ merged[k][1] - 1 \notin Hidden
                           /\ \A x \in merged[k][1] .. merged[k][2] : x \in Hidden
      /\ \A k \in 1 .. n + 1 : \A x \in Start(k) .. Stop(k) : x \notin Hidden
  BY <1>0, MergedAre, HiddenIs
<1>5. ASSUME NEW k \in 1 .. n + 1
      PROVE  /\ Start(k) \in 1 .. N + 1 /\ Stop(k) \in 0 .. N /\ Start(k) <= Stop(k) + 1
             /\ w[k] = w[k - 1] \o (SubSeq(text, Start(k), Stop(k)) \o Mark(k))
             /\ SubSeq(text, Start(k), Stop(k)) \in Seq(Alphabet)
             /\ w[k - 1] \in Seq(Alphabet)
  <2>1. k \in 1 .. Len(merged) + 1
    BY <1>0
  <2>2. /\ Blocks[k] = Between(k) \o Mark(k) /\ Between(k) = SubSeq(text, Start(k), Stop(k))
        /\ Between(k) \in Seq(Alphabet)
        /\ Start(k) \in 1 .. Len(text) + 1 /\ Stop(k) \in 0 .. Len(text) /\ Start(k) <= Stop(k) + 1
    BY <2>1, BlocksAre
  <2>3. w[k] = w[k - 1] \o Blocks[k]
    BY <1>1, <1>2 DEF Joins
  <2>4. w[k - 1] \in Seq(Alphabet)
    <3>1. k - 1 \in 0 .. n + 1
      OBVIOUS
    <3> QED
      BY <1>1, <1>2, <3>1 DEF Joins
  <2> QED
    BY <1>0, <2>2, <2>3, <2>4
<1>6. ASSUME NEW k \in 1 .. n + 1, NEW a \in 0 .. N, a = Start(k) - 1, w[k - 1] = h[a]
      PROVE  h[Stop(k)] = w[k - 1] \o SubSeq(text, Start(k), Stop(k))
  <2>1. PICK b \in 0 .. N : b = Stop(k)
    BY <1>5
  <2>2. b \in a .. N /\ a + 1 = Start(k)
    <3>1. Start(k) \in Int /\ Start(k) <= b + 1
      BY <1>5, <2>1
    <3> QED
      BY <1>6, <3>1
  <2>3. \A x \in a + 1 .. b : x \notin Hidden
    BY <1>4, <2>1, <2>2
  <2>4. h[b] = h[a] \o SubSeq(text, a + 1, b)
    BY <1>0, <1>1, <1>3, <2>2, <2>3, PlainStretch
  <2> QED
    BY <1>6, <2>1, <2>2, <2>4
<1>7. ASSUME NEW k \in 1 .. n, NEW a \in 0 .. N, a = Start(k) - 1, w[k - 1] = h[a]
      PROVE  w[k] = h[merged[k][2]]
  <2>1. PICK f \in 1 .. N, l \in 1 .. N : f = merged[k][1] /\ l = merged[k][2]
    BY <1>4
  <2>2. f <= l /\ f - 1 \notin Hidden /\ \A x \in f .. l : x \in Hidden
    BY <1>4, <2>1
  <2>3. Stop(k) = f - 1 /\ Mark(k) = <<"#">> /\ k \in 1 .. n + 1
    BY <1>0, <2>1 DEF Stop, Mark
  <2>4. h[f - 1] = w[k - 1] \o SubSeq(text, Start(k), Stop(k))
    BY <1>6, <1>7, <2>3
  <2>5. w[k] = w[k - 1] \o (SubSeq(text, Start(k), Stop(k)) \o <<"#">>)
    BY <1>5, <2>3
  <2>6. h[f] = h[f - 1] \o <<"#">>
    <3>1. ShownAt(f) = <<"#">>
      BY <2>2 DEF ShownAt
    <3>2. \A c \in 1 .. N : h[c] = h[c - 1] \o ShownAt(c)
      BY <1>0, <1>1, <1>3, CellAdded
    <3> QED
      BY <3>1, <3>2
  <2>7. h[l] = h[f]
    <3>0. text \in Seq(Alphabet) /\ Joins(h, Cells, Alphabet)
      BY <1>1, <1>3
    <3>1. \A x \in f + 1 .. l : x \in Hidden /\ x - 1 \in Hidden
      BY <2>2
    <3>2. f \in 0 .. N /\ l \in f .. N /\ N \in Nat
      BY <1>0, <2>2
    <3>3. Len(text) = N
      BY <1>0
    <3> QED
      BY <3>0, <3>1, <3>2, <3>3, HiddenStretch
  <2>8. <<"#">> \in Seq(Alphabet) /\ w[k - 1] \in Seq(Alphabet) /\ SubSeq(text, Start(k), Stop(k)) \in Seq(Alphabet)
    <3>1. "#" \in Alphabet
      BY DEF Alphabet
    <3> QED
      BY <1>5, <2>3, <3>1
  <2>9. h[f - 1] \o <<"#">> = w[k - 1] \o (SubSeq(text, Start(k), Stop(k)) \o <<"#">>)
    <3>1. PICK u \in Seq(Alphabet), v \in Seq(Alphabet), z \in Seq(Alphabet) :
             u = w[k - 1] /\ v = SubSeq(text, Start(k), Stop(k)) /\ z = <<"#">>
      BY <2>8
    <3>2. PICK r, t : r = h[f - 1] /\ t = v \o z
      OBVIOUS
    <3>3. r = u \o v
      BY <2>4, <3>1, <3>2
    <3>4. r \o z = u \o t
      BY <3>2, <3>3, Regrouped
    <3> QED
      BY <3>1, <3>2, <3>4
  <2>10. h[l] = w[k]
    BY <2>4, <2>5, <2>6, <2>7, <2>9, Zenon
  <2> QED
    BY <2>1, <2>10
<1>8. \A k \in 1 .. n : Start(k + 1) - 1 = merged[k][2]
  <2> SUFFICES ASSUME NEW k \in 1 .. n PROVE Start(k + 1) - 1 = merged[k][2]
    OBVIOUS
  <2>1. merged[k][2] \in 1 .. N
    BY <1>4
  <2>2. Start(k + 1) = merged[k][2] + 1
    <3>1. k + 1 # 1 /\ (k + 1) - 1 = k
      OBVIOUS
    <3> QED
      BY <3>1 DEF Start
  <2> QED
    BY <2>1, <2>2
<1> DEFINE P == {k \in 0 .. n : \E a \in 0 .. N : a = Start(k + 1) - 1 /\ w[k] = h[a]}
<1>9. 0 \in P
  <2>1. Start(0 + 1) - 1 = 0 /\ 0 \in 0 .. N
    BY DEF Start
  <2>2. w[0] = h[0]
    BY <1>2, <1>3 DEF Joins
  <2> QED
    BY <2>1, <2>2
<1>10. ASSUME NEW k \in 1 .. n, k - 1 \in P PROVE k \in P
  <2>1. (k - 1) + 1 = k
    OBVIOUS
  <2>2. PICK a \in 0 .. N : a = Start(k) - 1 /\ w[k - 1] = h[a]
    BY <1>10, <2>1
  <2>3. w[k] = h[merged[k][2]]
    BY <1>7, <2>2
  <2>4. PICK b \in 0 .. N : b = merged[k][2]
    BY <1>4
  <2>5. b = Start(k + 1) - 1 /\ w[k] = h[b]
    BY <1>8, <2>3, <2>4
  <2> QED
    BY <2>5
<1>11. n \in P
  <2> HIDE DEF P
  <2>1. \A k \in 0 .. n : k \in P
    BY <1>9, <1>10, UpTo, Zenon
  <2> QED
    BY <2>1
<1>12. PICK a \in 0 .. N : a = Start(n + 1) - 1 /\ w[n] = h[a]
  BY <1>11
<1>13. w[n + 1] = h[N]
  <2>1. n + 1 \in 1 .. n + 1 /\ (n + 1) - 1 = n
    OBVIOUS
  <2>2. Stop(n + 1) = N /\ Mark(n + 1) = <<>>
    BY <1>0 DEF Stop, Mark
  <2>3. h[N] = w[n] \o SubSeq(text, Start(n + 1), N)
    BY <1>6, <1>12, <2>1, <2>2
  <2>4. w[n + 1] = w[n] \o (SubSeq(text, Start(n + 1), N) \o <<>>)
    BY <1>5, <2>1, <2>2
  <2>5. SubSeq(text, Start(n + 1), N) \in Seq(Alphabet)
    BY <1>5, <2>1, <2>2
  <2>6. SubSeq(text, Start(n + 1), N) \o <<>> = SubSeq(text, Start(n + 1), N)
    BY <2>5, ConcatEmptySeq
  <2> QED
    BY <2>3, <2>4, <2>6
<1>14. FlattenSeq(Blocks) = w[n + 1]
  <2>1. FlattenSeq(Blocks) = w[Len(Blocks)]
    BY <1>1, <1>2, FlattenJoins, Zenon
  <2> QED
    BY <1>1, <2>1, Zenon
<1>15. FlattenSeq(Cells) = h[N]
  <2>1. FlattenSeq(Cells) = h[Len(Cells)]
    BY <1>1, <1>3, FlattenJoins, Zenon
  <2> QED
    BY <1>1, <2>1, Zenon
<1> QED
  BY <1>13, <1>14, <1>15

\* What the spans that are still to merge would hide.
Left == UNION {t[1] .. t[2] : t \in todo}

\* What is merged and what is left hide the same as the spans, and what is
\* left does not begin before what is merged.
LogReady ==
    job = "log" =>
        /\ phase = "scan" => merged = <<>>
        /\ Gaps /\ todo \subseteq Spans
        /\ \A t \in todo : \A a \in 1 .. Len(merged) : merged[a][1] <= t[1]
        /\ phase # "scan" => Covered \cup Left = Hidden
        /\ phase = "done" => todo = {}

\* At the end the log shows what it should.
LEMMA LogIsClean ==
    ASSUME Apart, LogReady, job = "log", phase = "done", out = FlattenSeq(Blocks)
    PROVE  LogHidesCredentials
<1>1. Gaps /\ Covered = Hidden
  <2>1. Gaps /\ Covered \cup Left = Hidden /\ todo = {}
    BY DEF LogReady
  <2>2. Left = {}
    BY <2>1 DEF Left
  <2> QED
    BY <2>1, <2>2
<1>2. out = FlattenSeq(Cells)
  BY <1>1, MarkedOut
<1>3. ASSUME NEW i \in DOMAIN text, NEW j \in DOMAIN text, NEW k \in i + 2 .. j, IsCredential(i, k, j)
      PROVE  i .. j \subseteq Hidden
  <2>1. DOMAIN text = 1 .. Len(text) /\ Len(text) \in Nat /\ text \in Seq(Alphabet)
    BY LenProperties DEF Apart
  <2>2. i \in 1 .. Len(text) /\ j \in 1 .. Len(text)
    BY <2>1
  <2>3. PICK e \in j .. Len(text) : <<i, e>> \in Spans
    BY <1>3, <2>1, <2>2, CredentialIn
  <2>4. i .. e \subseteq Hidden
    <3>1. PICK s \in Spans : s = <<i, e>>
      BY <2>3
    <3>2. s[1] .. s[2] \subseteq Hidden
      BY DEF Hidden
    <3> QED
      BY <3>1, <3>2
  <2>5. i .. j \subseteq i .. e
    BY <2>1, <2>2
  <2> QED
    BY <2>4, <2>5
<1>4. out = FlattenSeq([x \in DOMAIN text |->
              IF x \notin Hidden THEN <<text[x]>> ELSE IF x - 1 \in Hidden THEN <<>> ELSE <<"#">>])
  BY <1>2 DEF Cells, ShownAt
<1>5. Hidden = UNION {s[1] .. s[2] : s \in HeaderSpans \cup BearerSpans \cup KeySpans}
  BY DEF Hidden, Spans
<1>6. \A i, j \in DOMAIN text : (\E k \in i + 2 .. j : IsCredential(i, k, j)) => i .. j \subseteq Hidden
  BY <1>3
<1> QED
  BY <1>4, <1>5, <1>6 DEF LogHidesCredentials

\* What is found depends on the text only.
LEMMA TextKept ==
    ASSUME text' = text
    PROVE  Spans' = Spans /\ Hidden' = Hidden /\ Occurrences' = Occurrences /\ Places' = Places
<1>1. ASSUME NEW set, NEW i PROVE Skip(set, i)' = Skip(set, i) /\ From(i, set)' = From(i, set)
  BY DEF Skip, From
<1>2. HeaderSpans' = HeaderSpans
  <2> DEFINE span(i) == <<i, Skip(NoSpace, Skip({" "}, Skip({" "}, i + 1) + 1)) - 1>>
             Good(k) == /\ text[k] = "auth"
                        /\ From(Skip({" "}, k + 1), "bearer")
                        /\ LET word == Skip({" "}, k + 1)
                           IN  /\ From(word + 1, " ")
                               /\ Skip(NoSpace, Skip({" "}, word + 1)) > Skip({" "}, word + 1)
  <2>1. HeaderSpans = {span(i) : i \in {k \in DOMAIN text : Good(k)}}
    BY DEF HeaderSpans
  <2>2. HeaderSpans' = {span(i)' : i \in {k \in DOMAIN text' : Good(k)'}}
    BY DEF HeaderSpans
  <2>3. ASSUME NEW k PROVE span(k)' = span(k) /\ (Good(k)' <=> Good(k))
    BY <1>1
  <2> HIDE DEF span, Good
  <2> QED
    BY <2>1, <2>2, <2>3
<1>3. BearerSpans' = BearerSpans
  BY <1>1 DEF BearerSpans
<1>4. KeySpans' = KeySpans
  BY <1>1 DEF KeySpans
<1>5. Spans' = Spans
  BY <1>2, <1>3, <1>4 DEF Spans
<1>6. Hidden' = Hidden
  BY <1>5 DEF Hidden
<1> QED
  BY <1>5, <1>6 DEF Occurrences, Places

\* The span that Merge takes is one of them, and none begins before it.
LEMMA FirstSpanIs ==
    ASSUME text \in Seq(Alphabet), todo \subseteq Spans, todo # {}
    PROVE  /\ FirstSpan(todo) \in todo
           /\ \A r \in todo : FirstSpan(todo)[1] <= r[1]
<1>1. todo \in SUBSET (Nat \X Nat)
  BY SpansAre DEF Places
<1> DEFINE S == todo
<1>2. \A r \in S : r[1] \in Nat
  BY <1>1
<1> HIDE DEF S
<1>3. \E s \in S : \A r \in S : s[1] < r[1] \/ (s[1] = r[1] /\ s[2] <= r[2])
  BY <1>1, LeastPair DEF S
<1>4. FirstSpan(S) \in S /\ \A r \in S : FirstSpan(S)[1] < r[1] \/ (FirstSpan(S)[1] = r[1] /\ FirstSpan(S)[2] <= r[2])
  BY <1>3 DEF FirstSpan, Precedes
<1> QED
  BY <1>2, <1>4 DEF S

\* The last span made longer.
LEMMA LastReplaced ==
    ASSUME Apart, text' = text, NEW n \in Nat, Len(merged) = n, n # 0,
           NEW f \in Places, f[1] <= f[2], f[1] = merged[n][1], merged' = Append(Front(merged), f)
    PROVE  /\ Apart' /\ Len(merged') = n /\ merged'[n] = f
           /\ \A a \in 1 .. n : a # n => merged'[a] = merged[a]
<1> DEFINE m == merged'
<1>1. merged \in Seq(Places) /\ \A a \in 1 .. n : merged[a] \in Places
  BY ElementOfSeq DEF Apart
<1>2. PICK r : r = Front(merged)
  OBVIOUS
<1>3. r \in Seq(Places) /\ Len(r) = n - 1 /\ \A a \in 1 .. n - 1 : r[a] = merged[a]
  <2>1. r = SubSeq(merged, 1, n - 1)
    BY <1>2 DEF Front
  <2>2. \A i \in 1 .. n - 1 : merged[i] \in Places
    BY <1>1
  <2>3. /\ SubSeq(merged, 1, n - 1) \in Seq(Places)
        /\ Len(SubSeq(merged, 1, n - 1)) = IF 1 <= n - 1 THEN (n - 1) - 1 + 1 ELSE 0
        /\ \A i \in 1 .. (n - 1) - 1 + 1 : SubSeq(merged, 1, n - 1)[i] = merged[1 + i - 1]
    <3>1. 1 \in Int /\ n - 1 \in Int
      OBVIOUS
    <3> QED
      BY <2>2, <3>1, SubSeqProperties
  <2>4. \A i \in 1 .. n - 1 : r[i] = merged[i]
    <3> SUFFICES ASSUME NEW i \in 1 .. n - 1 PROVE r[i] = merged[i]
      OBVIOUS
    <3>1. i \in 1 .. (n - 1) - 1 + 1 /\ 1 + i - 1 = i
      OBVIOUS
    <3> QED
      BY <2>1, <2>3, <3>1
  <2>5. Len(r) = n - 1
    BY <2>1, <2>3
  <2> QED
    BY <2>1, <2>3, <2>4, <2>5
<1>4. /\ m \in Seq(Places) /\ Len(m) = n /\ m[n] = f
      /\ \A a \in 1 .. n : a # n => m[a] = merged[a]
  <2>1. m = Append(r, f)
    BY <1>2
  <2>2. /\ m \in Seq(Places) /\ Len(m) = Len(r) + 1
        /\ \A i \in 1 .. Len(r) : m[i] = r[i] /\ m[Len(r) + 1] = f
    BY <1>3, <2>1, AppendProperties
  <2>3. m[Len(r) + 1] = f
    BY <1>3, <2>1, AppendProperties
  <2>4. (n - 1) + 1 = n /\ \A a \in 1 .. n : a # n => a \in 1 .. n - 1
    OBVIOUS
  <2> HIDE DEF m
  <2> QED
    BY <1>3, <2>2, <2>3, <2>4
<1>5. Places' = Places
  BY DEF Places
<1> HIDE DEF m
<1>6. \A a \in 1 .. n : m[a][1] = merged[a][1] /\ m[a][1] <= m[a][2] /\ (a # n => m[a][2] = merged[a][2])
  BY <1>4 DEF Apart
<1>7. ASSUME NEW a \in 1 .. n, NEW b \in 1 .. n, a < b PROVE m[a][2] < m[b][1]
  <2>1. a # n
    BY <1>7
  <2>2. merged[a][2] < merged[b][1]
    BY <1>7 DEF Apart
  <2> QED
    BY <1>6, <2>1, <2>2
<1> QED
  BY <1>4, <1>5, <1>6, <1>7 DEF Apart, m

\* A span that begins where the last one has not ended yet, or right there.
LEMMA MergeJoins ==
    ASSUME Apart, LogReady, job = "log", Merge, NEW n \in Nat, Len(merged) = n, n # 0,
           FirstSpan(todo)[1] <= merged[n][2] + 1
    PROVE  /\ Apart' /\ Gaps' /\ (Covered \cup Left)' = Covered \cup Left
           /\ \A t \in todo' : \A a \in 1 .. Len(merged') : merged'[a][1] <= t[1]
<1>1. /\ text' = text /\ todo # {} /\ todo \subseteq Spans /\ text \in Seq(Alphabet) /\ merged \in Seq(Places)
      /\ Gaps /\ \A t \in todo : \A a \in 1 .. n : merged[a][1] <= t[1]
  BY DEF Merge, LogReady, Apart
<1>2. PICK f : f = FirstSpan(todo)
  OBVIOUS
<1>3. f \in todo /\ (\A r \in todo : f[1] <= r[1]) /\ f[1] <= merged[n][2] + 1
  BY <1>1, <1>2, FirstSpanIs
<1>4. PICK l : l = merged[n]
  OBVIOUS
<1>5. /\ l = <<l[1], l[2]>> /\ l[1] \in 1 .. Len(text) /\ l[2] \in 1 .. Len(text) /\ l[1] <= l[2]
      /\ n \in 1 .. n /\ Len(text) \in Nat
  <2>1. n \in 1 .. Len(merged)
    OBVIOUS
  <2> QED
    BY <1>4, <2>1, MergedAre
<1>6. f[1] \in 1 .. Len(text) /\ f[2] \in 1 .. Len(text) /\ f[1] <= f[2]
  BY <1>1, <1>3, SpansAre
<1>7. l[1] <= f[1] /\ f[1] <= l[2] + 1
  BY <1>1, <1>3, <1>4, <1>5
<1>8. PICK e : e = IF f[2] > l[2] THEN f[2] ELSE l[2]
  OBVIOUS
<1>9. e \in 1 .. Len(text) /\ l[1] <= e /\ l[1] .. e = (l[1] .. l[2]) \cup (f[1] .. f[2])
  <2>1. PICK a, b, c, d : a = l[1] /\ b = l[2] /\ c = f[1] /\ d = f[2]
    OBVIOUS
  <2>2. /\ a \in Int /\ b \in Int /\ c \in Int /\ d \in Int /\ a <= b /\ c <= d /\ a <= c /\ c <= b + 1
        /\ e = IF d > b THEN d ELSE b
    BY <1>5, <1>6, <1>7, <1>8, <2>1
  <2>3. a .. e = (a .. b) \cup (c .. d)
    BY <2>2
  <2>4. e \in 1 .. Len(text) /\ l[1] <= e
    BY <1>5, <1>6, <1>8
  <2> QED
    BY <2>1, <2>3, <2>4
<1>10. PICK g : g = <<l[1], e>>
  OBVIOUS
<1>11. g \in Places /\ g[1] = l[1] /\ g[2] = e /\ g[1] <= g[2] /\ g[1] = merged[n][1]
  BY <1>4, <1>5, <1>9, <1>10 DEF Places
<1>12. merged' = Append(Front(merged), g) /\ todo' = todo \ {f}
  <2>1. Last(merged) = l
    BY <1>4 DEF Last
  <2>2. merged # <<>>
    <3>1. Len(<<>>) = 0
      OBVIOUS
    <3> QED
      BY <3>1
  <2>3. Joined(l, f) = g
    BY <1>8, <1>10 DEF Joined
  <2>4. f[1] <= Last(merged)[2] + 1
    BY <1>3, <1>4, <2>1
  <2> QED
    BY <1>2, <2>1, <2>2, <2>3, <2>4 DEF Merge
<1>13. /\ Apart' /\ Len(merged') = n /\ merged'[n] = g
       /\ \A a \in 1 .. n : a # n => merged'[a] = merged[a]
  BY <1>1, <1>11, <1>12, LastReplaced
<1>14. \A a \in 1 .. n : merged'[a][1] = merged[a][1] /\ (a # n => merged'[a][2] = merged[a][2])
  BY <1>11, <1>13
<1>15. Gaps'
  <2> SUFFICES ASSUME NEW a \in 1 .. n, NEW b \in 1 .. n, a < b PROVE merged'[a][2] + 1 < merged'[b][1]
    BY <1>13 DEF Gaps
  <2>1. a # n
    OBVIOUS
  <2>2. merged[a][2] + 1 < merged[b][1]
    BY <1>1 DEF Gaps
  <2> QED
    BY <1>14, <2>1, <2>2
<1>16. (Covered \cup Left)' = Covered \cup Left
  <2>1. \A x : x \in Covered <=> \E a \in 1 .. n : x \in merged[a][1] .. merged[a][2]
    BY DEF Covered
  <2>2. \A x : x \in Covered' <=> \E a \in 1 .. n : x \in merged'[a][1] .. merged'[a][2]
    BY <1>13 DEF Covered
  <2>3. \A x : x \in Left <=> \E t \in todo : x \in t[1] .. t[2]
    BY DEF Left
  <2>4. \A x : x \in Left' <=> \E t \in todo \ {f} : x \in t[1] .. t[2]
    BY <1>12 DEF Left
  <2>5. merged'[n][1] .. merged'[n][2] = (merged[n][1] .. merged[n][2]) \cup (f[1] .. f[2])
    BY <1>4, <1>9, <1>11, <1>13
  <2>6. \A a \in 1 .. n : a # n => merged'[a][1] .. merged'[a][2] = merged[a][1] .. merged[a][2]
    BY <1>14
  <2>7. ASSUME NEW x \in Covered \cup Left PROVE x \in Covered' \cup Left'
    <3>1. CASE x \in Covered
      <4>1. PICK a \in 1 .. n : x \in merged[a][1] .. merged[a][2]
        BY <2>1, <3>1
      <4>2. x \in merged'[a][1] .. merged'[a][2]
        BY <2>5, <2>6, <4>1
      <4> QED
        BY <2>2, <4>2
    <3>2. CASE x \in Left
      <4>1. PICK t \in todo : x \in t[1] .. t[2]
        BY <2>3, <3>2
      <4>2. CASE t = f
        <5>1. x \in merged'[n][1] .. merged'[n][2]
          BY <2>5, <4>1, <4>2
        <5> QED
          BY <1>5, <2>2, <5>1
      <4>3. CASE t # f
        BY <2>4, <4>1, <4>3
      <4> QED
        BY <4>2, <4>3
    <3> QED
      BY <3>1, <3>2
  <2>8. ASSUME NEW x \in Covered' \cup Left' PROVE x \in Covered \cup Left
    <3>1. CASE x \in Covered'
      <4>1. PICK a \in 1 .. n : x \in merged'[a][1] .. merged'[a][2]
        BY <2>2, <3>1
      <4>2. x \in merged[a][1] .. merged[a][2] \/ x \in f[1] .. f[2]
        BY <2>5, <2>6, <4>1
      <4> QED
        BY <1>3, <2>1, <2>3, <4>2
    <3>2. CASE x \in Left'
      BY <2>3, <2>4, <3>2
    <3> QED
      BY <3>1, <3>2
  <2> QED
    BY <2>7, <2>8
<1>17. \A t \in todo' : \A a \in 1 .. n : merged'[a][1] <= t[1]
  BY <1>1, <1>12, <1>14
<1> QED
  BY <1>13, <1>15, <1>16, <1>17

\* One that begins behind a gap.
LEMMA MergeAppends ==
    ASSUME Apart, LogReady, job = "log", Merge, NEW n \in Nat, Len(merged) = n,
           n # 0 => ~(FirstSpan(todo)[1] <= merged[n][2] + 1)
    PROVE  /\ Apart' /\ Gaps' /\ (Covered \cup Left)' = Covered \cup Left
           /\ \A t \in todo' : \A a \in 1 .. Len(merged') : merged'[a][1] <= t[1]
<1>1. /\ text' = text /\ todo # {} /\ todo \subseteq Spans /\ text \in Seq(Alphabet) /\ merged \in Seq(Places)
      /\ Gaps /\ \A t \in todo : \A a \in 1 .. n : merged[a][1] <= t[1]
  BY DEF Merge, LogReady, Apart
<1>2. PICK f : f = FirstSpan(todo)
  OBVIOUS
<1>3. f \in todo /\ (\A r \in todo : f[1] <= r[1]) /\ (n # 0 => ~(f[1] <= merged[n][2] + 1))
  BY <1>1, <1>2, FirstSpanIs
<1>4. f \in Places /\ f[1] \in 1 .. Len(text) /\ f[2] \in 1 .. Len(text) /\ f[1] <= f[2] /\ Len(text) \in Nat
  BY <1>1, <1>3, SpansAre, LenProperties
<1>5. \A a \in 1 .. n : merged[a][1] \in 1 .. Len(text) /\ merged[a][2] \in 1 .. Len(text)
                        /\ merged[a][1] <= merged[a][2]
  BY MergedAre
<1>6. ASSUME NEW a \in 1 .. n PROVE merged[a][2] + 1 < f[1]
  <2>1. n \in 1 .. n /\ n # 0
    OBVIOUS
  <2>2. merged[n][2] + 1 < f[1]
    <3>1. merged[n][2] \in Int /\ f[1] \in Int
      BY <1>4, <1>5, <2>1
    <3>2. ~(f[1] <= merged[n][2] + 1)
      BY <1>3, <2>1
    <3> QED
      BY <3>1, <3>2
  <2>3. CASE a = n
    BY <2>2, <2>3
  <2>4. CASE a # n
    <3>1. a < n
      BY <2>4
    <3>2. merged[a][2] + 1 < merged[n][1]
      BY <1>1, <2>1, <3>1 DEF Gaps
    <3> QED
      BY <1>4, <1>5, <2>1, <2>2, <3>2
  <2> QED
    BY <2>3, <2>4
<1>7. merged' = Append(merged, f) /\ todo' = todo \ {f}
  <2>1. merged # <<>> => ~(f[1] <= Last(merged)[2] + 1)
    <3>1. merged # <<>> => n # 0
      BY <1>1, EmptySeq
    <3>2. Last(merged) = merged[n]
      BY DEF Last
    <3> QED
      BY <1>3, <3>1, <3>2
  <2> QED
    BY <1>2, <2>1 DEF Merge
<1>8. /\ Apart' /\ Len(merged') = n + 1 /\ merged'[n + 1] = f
      /\ \A a \in 1 .. n : merged'[a] = merged[a]
  <2>1. \A a \in 1 .. Len(merged) : merged[a][2] < f[1]
    BY <1>4, <1>5, <1>6
  <2> QED
    BY <1>1, <1>4, <1>7, <2>1, Appended
<1>9. \A a \in 1 .. n + 1 : a = n + 1 \/ a \in 1 .. n
  OBVIOUS
<1>10. Gaps'
  <2> SUFFICES ASSUME NEW a \in 1 .. n + 1, NEW b \in 1 .. n + 1, a < b PROVE merged'[a][2] + 1 < merged'[b][1]
    BY <1>8 DEF Gaps
  <2>1. a \in 1 .. n
    OBVIOUS
  <2>2. CASE b = n + 1
    BY <1>6, <1>8, <2>1, <2>2
  <2>3. CASE b \in 1 .. n
    <3>1. merged[a][2] + 1 < merged[b][1]
      BY <1>1, <2>1, <2>3 DEF Gaps
    <3> QED
      BY <1>8, <2>1, <2>3, <3>1
  <2> QED
    BY <1>9, <2>2, <2>3
<1>11. (Covered \cup Left)' = Covered \cup Left
  <2>1. \A x : x \in Covered <=> \E a \in 1 .. n : x \in merged[a][1] .. merged[a][2]
    BY DEF Covered
  <2>2. \A x : x \in Covered' <=> \E a \in 1 .. n + 1 : x \in merged'[a][1] .. merged'[a][2]
    BY <1>8 DEF Covered
  <2>3. \A x : x \in Left <=> \E t \in todo : x \in t[1] .. t[2]
    BY DEF Left
  <2>4. \A x : x \in Left' <=> \E t \in todo \ {f} : x \in t[1] .. t[2]
    BY <1>7 DEF Left
  <2>5. ASSUME NEW x \in Covered \cup Left PROVE x \in Covered' \cup Left'
    <3>1. CASE x \in Covered
      <4>1. PICK a \in 1 .. n : x \in merged[a][1] .. merged[a][2]
        BY <2>1, <3>1
      <4>2. a \in 1 .. n + 1 /\ x \in merged'[a][1] .. merged'[a][2]
        BY <1>8, <4>1
      <4> QED
        BY <2>2, <4>2
    <3>2. CASE x \in Left
      <4>1. PICK t \in todo : x \in t[1] .. t[2]
        BY <2>3, <3>2
      <4>2. CASE t = f
        <5>1. n + 1 \in 1 .. n + 1 /\ x \in merged'[n + 1][1] .. merged'[n + 1][2]
          BY <1>8, <4>1, <4>2
        <5> QED
          BY <2>2, <5>1
      <4>3. CASE t # f
        BY <2>4, <4>1, <4>3
      <4> QED
        BY <4>2, <4>3
    <3> QED
      BY <3>1, <3>2
  <2>6. ASSUME NEW x \in Covered' \cup Left' PROVE x \in Covered \cup Left
    <3>1. CASE x \in Covered'
      <4>1. PICK a \in 1 .. n + 1 : x \in merged'[a][1] .. merged'[a][2]
        BY <2>2, <3>1
      <4>2. CASE a = n + 1
        BY <1>3, <1>8, <2>3, <4>1, <4>2
      <4>3. CASE a \in 1 .. n
        BY <1>8, <2>1, <4>1, <4>3
      <4> QED
        BY <1>9, <4>2, <4>3
    <3>2. CASE x \in Left'
      BY <2>3, <2>4, <3>2
    <3> QED
      BY <3>1, <3>2
  <2> QED
    BY <2>5, <2>6
<1>12. ASSUME NEW t \in todo', NEW a \in 1 .. n + 1 PROVE merged'[a][1] <= t[1]
  <2>1. t \in todo
    BY <1>7
  <2>2. CASE a = n + 1
    BY <1>3, <1>8, <2>1, <2>2
  <2>3. CASE a \in 1 .. n
    BY <1>1, <1>8, <2>1, <2>3
  <2> QED
    BY <1>9, <2>2, <2>3
<1> QED
  BY <1>8, <1>10, <1>11, <1>12

\* Both ways to merge lose no place and leave gaps.
LEMMA MergeKeeps ==
    ASSUME Apart, LogReady, job = "log", Merge
    PROVE  Apart' /\ LogReady'
<1>1. /\ text' = text /\ job' = job /\ phase' = phase /\ phase = "merge" /\ todo' \subseteq todo
      /\ todo \subseteq Spans /\ Covered \cup Left = Hidden
  BY DEF Merge, LogReady
<1>2. Spans' = Spans /\ Hidden' = Hidden
  BY <1>1, TextKept
<1>3. PICK n \in Nat : Len(merged) = n
  BY MergedAre
<1>4. /\ Apart' /\ Gaps' /\ (Covered \cup Left)' = Covered \cup Left
      /\ \A t \in todo' : \A a \in 1 .. Len(merged') : merged'[a][1] <= t[1]
  <2>1. CASE n # 0 /\ FirstSpan(todo)[1] <= merged[n][2] + 1
    BY <1>3, <2>1, MergeJoins
  <2>2. CASE ~(n # 0 /\ FirstSpan(todo)[1] <= merged[n][2] + 1)
    BY <1>3, <2>2, MergeAppends
  <2> QED
    BY <2>1, <2>2
<1>5. todo' \subseteq Spans'
  BY <1>1, <1>2
<1>6. (Covered \cup Left)' = Hidden'
  BY <1>1, <1>2, <1>4
<1>7. phase' = "merge"
  BY <1>1
<1> QED
  BY <1>4, <1>5, <1>6, <1>7 DEF LogReady

\* The inductive invariant.
RedIInv ==
    /\ RedTypeOK
    /\ Apart
    /\ phase = "done" => out = FlattenSeq(Blocks)
    /\ MaskReady
    /\ LogReady

\* It holds of every text before the scan.
LEMMA RedInitially == RedInit => RedIInv
<1> SUFFICES ASSUME RedInit PROVE RedIInv
  OBVIOUS
<1>1. phase = "scan" /\ todo = {} /\ merged = <<>> /\ out = <<>> /\ job \in {"log", "mask"}
  BY DEF RedInit
<1>2. text \in Seq(Alphabet)
  <2>1. ASSUME NEW S, S \subseteq Alphabet, NEW N, N \in Nat, text \in BoundedSeq(S, N)
        PROVE  text \in Seq(Alphabet)
    <3>1. PICK m \in 0 .. N : text \in [1 .. m -> S]
      BY <2>1 DEF BoundedSeq, SeqOf
    <3>2. m \in Nat /\ text \in [1 .. m -> Alphabet]
      BY <2>1, <3>1
    <3> QED
      BY <3>2
  <2>2. TextLength \in Nat /\ OutputLength \in Nat
    BY RedAssumption
  <2>3. Signs \subseteq Alphabet /\ UNION {ToSet(e.value) : e \in Environment} \subseteq Alphabet
    BY DEF Alphabet
  <2>4. \/ text \in BoundedSeq(Signs, TextLength)
        \/ text \in BoundedSeq(UNION {ToSet(e.value) : e \in Environment}, OutputLength)
    BY DEF RedInit
  <2> QED
    BY <2>1, <2>2, <2>3, <2>4
<1>3. merged \in Seq(Places) /\ Len(merged) = 0
  BY <1>1, EmptySeq
<1>4. Apart
  BY <1>2, <1>3 DEF Apart
<1>5. MaskReady
  BY <1>1, <1>3 DEF MaskReady, Ahead
<1>6. LogReady
  BY <1>1, <1>3 DEF LogReady, Gaps
<1>7. RedTypeOK
  BY <1>1, <1>3 DEF RedTypeOK, Places
<1> QED
  BY <1>1, <1>4, <1>5, <1>6, <1>7 DEF RedIInv

\* What the scan finds is what is to be hidden.
LEMMA ScanLogKeeps ==
    ASSUME RedIInv, ScanLog
    PROVE  RedIInv'
<1>1. /\ job = "log" /\ phase = "scan" /\ phase' = "merge" /\ text' = text /\ job' = job
      /\ merged' = merged /\ merged = <<>> /\ todo' = Spans /\ text \in Seq(Alphabet) /\ merged \in Seq(Places)
  BY DEF ScanLog, RedIInv, LogReady, Apart, Spans
<1>2. Spans' = Spans /\ Hidden' = Hidden /\ Places' = Places
  BY <1>1, TextKept
<1>3. Apart'
  BY <1>1, <1>2 DEF Apart, RedIInv
<1>4. Len(merged') = 0
  BY <1>1, EmptySeq
<1>5. (Covered \cup Left)' = Hidden'
  <2>1. Covered' = {}
    BY <1>4 DEF Covered
  <2>2. Left' = Hidden'
    BY <1>1, <1>2 DEF Left, Hidden
  <2> QED
    BY <2>1, <2>2
<1>6. Gaps' /\ \A t \in todo' : \A a \in 1 .. Len(merged') : merged'[a][1] <= t[1]
  BY <1>4 DEF Gaps
<1>7. LogReady'
  BY <1>1, <1>2, <1>5, <1>6 DEF LogReady
<1>8. MaskReady'
  BY <1>1 DEF MaskReady
<1>9. RedTypeOK'
  <2>1. \A s \in Spans : s \in Places
    BY <1>1, SpansAre
  <2>2. todo' \subseteq Places' /\ merged' \in Seq(Places')
    BY <1>1, <1>2, <2>1
  <2> QED
    BY <1>1, <2>2 DEF RedTypeOK, Places
<1> QED
  BY <1>1, <1>3, <1>7, <1>8, <1>9 DEF RedIInv

\* Merging and masking keep it.
LEMMA MergeAndMaskKeep ==
    ASSUME RedIInv, Merge \/ MaskNext
    PROVE  RedIInv'
<1>1. /\ text' = text /\ job' = job /\ phase' \in {"scan", "merge"} /\ todo' \subseteq todo
      /\ job \in {"log", "mask"} /\ Apart /\ MaskReady /\ LogReady
      /\ todo \subseteq Places
  BY DEF Merge, MaskNext, RedIInv, RedTypeOK, Places
<1>2. Apart' /\ MaskReady' /\ LogReady'
  <2>1. CASE job = "log"
    <3>1. Merge
      BY <2>1 DEF MaskNext
    <3>2. Apart' /\ LogReady'
      BY <1>1, <2>1, <3>1, MergeKeeps
    <3>3. MaskReady'
      BY <1>1, <2>1 DEF MaskReady
    <3> QED
      BY <3>2, <3>3
  <2>2. CASE job = "mask"
    <3>1. MaskNext
      BY <1>1, <2>2 DEF Merge, MaskReady
    <3>2. Apart' /\ MaskReady'
      BY <1>1, <3>1, MaskNextKeeps
    <3>3. LogReady'
      BY <1>1, <2>2 DEF LogReady
    <3> QED
      BY <3>2, <3>3
  <2> QED
    BY <1>1, <2>1, <2>2
<1>3. Places' = Places
  BY <1>1, TextKept
<1>4. RedTypeOK'
  <2>1. todo' \subseteq Places' /\ merged' \in Seq(Places')
    BY <1>1, <1>2, <1>3 DEF Apart
  <2> QED
    BY <1>1, <2>1 DEF RedTypeOK, Places
<1> QED
  BY <1>1, <1>2, <1>4 DEF RedIInv

\* So does the last step, which writes the pieces one behind the other.
LEMMA ReplaceKeeps ==
    ASSUME RedIInv, Replace
    PROVE  RedIInv'
<1>1. /\ text' = text /\ job' = job /\ merged' = merged /\ todo' = todo /\ todo = {}
      /\ phase = "merge" /\ phase' = "done"
  BY DEF Replace
<1>2. Spans' = Spans /\ Hidden' = Hidden /\ Occurrences' = Occurrences /\ Places' = Places
  BY <1>1, TextKept
<1>3. Blocks' = Blocks
  BY <1>1 DEF Blocks, Between, Mark
<1>4. out' = FlattenSeq(Blocks')
  <2>1. out' = FlattenSeq(Blocks)
    BY DEF Replace, Blocks, Mark
  <2> QED
    BY <1>3, <2>1
<1>5. Apart'
  BY <1>1, <1>2 DEF RedIInv, Apart
<1>6. MaskReady'
  <2>1. Ahead' = Ahead
    BY <1>1, <1>2 DEF Ahead
  <2>2. MaskReady
    BY DEF RedIInv
  <2> QED
    BY <1>1, <1>2, <2>1, <2>2 DEF MaskReady, Meets
<1>7. LogReady'
  <2>1. Covered' = Covered /\ Left' = Left
    BY <1>1 DEF Covered, Left
  <2>2. Gaps' <=> Gaps
    BY <1>1 DEF Gaps
  <2>3. LogReady
    BY DEF RedIInv
  <2> QED
    BY <1>1, <1>2, <2>1, <2>2, <2>3 DEF LogReady
<1>8. RedTypeOK'
  BY <1>1 DEF RedIInv, RedTypeOK
<1> QED
  BY <1>4, <1>5, <1>6, <1>7, <1>8 DEF RedIInv

\* It does not depend on anything else.
LEMMA RedKept ==
    ASSUME RedIInv, UNCHANGED redVars
    PROVE  RedIInv'
<1>1. text' = text /\ job' = job /\ merged' = merged /\ todo' = todo /\ phase' = phase /\ out' = out
  BY DEF redVars
<1>2. Spans' = Spans /\ Hidden' = Hidden /\ Occurrences' = Occurrences /\ Places' = Places
  BY <1>1, TextKept
<1>3. Blocks' = Blocks
  BY <1>1 DEF Blocks, Between, Mark
<1>4. Ahead' = Ahead /\ Covered' = Covered /\ Left' = Left /\ (Gaps' <=> Gaps)
  BY <1>1, <1>2 DEF Ahead, Covered, Left, Gaps
<1>5. Apart'
  BY <1>1, <1>2 DEF RedIInv, Apart
<1>6. MaskReady'
  BY <1>1, <1>2, <1>4 DEF RedIInv, MaskReady, Meets
<1>7. LogReady'
  BY <1>1, <1>2, <1>4 DEF RedIInv, LogReady
<1>8. RedTypeOK'
  BY <1>1 DEF RedIInv, RedTypeOK
<1> QED
  BY <1>1, <1>3, <1>5, <1>6, <1>7, <1>8 DEF RedIInv

\* Types, the order of spans and the accounts of what they cover hold in every
\* state of redact_for_log and mask_secrets.
THEOREM RedInductive == RedSpec => []RedIInv
<1>1. RedIInv /\ [RedNext]_redVars => RedIInv'
  BY ScanLogKeeps, MergeAndMaskKeep, ReplaceKeeps, RedKept DEF RedNext
<1> QED
  BY RedInitially, <1>1, PTL DEF RedSpec

\* The spans are of the text.
THEOREM RedTypeCorrect == RedSpec => []RedTypeOK
  BY RedInductive, PTL DEF RedIInv

\* mask_secrets: what a tool returns has no whole secret left in it, and has
\* lost nothing that is not part of one, for every text and environment.
THEOREM MaskHides == RedSpec => []MaskHidesSecrets
<1>1. RedIInv => MaskHidesSecrets
  <2>1. ~(job = "mask" /\ phase = "done") => MaskHidesSecrets
    BY DEF MaskHidesSecrets
  <2> QED
    BY <2>1, Masked DEF RedIInv
<1> QED
  BY RedInductive, <1>1, PTL

\* redact_for_log: every run of places that spans cover is one mark, whatever
\* way they overlap, the rest is the text, and every credential is covered.
THEOREM LogHides == RedSpec => []LogHidesCredentials
<1>1. RedIInv => LogHidesCredentials
  <2>1. ~(job = "log" /\ phase = "done") => LogHidesCredentials
    BY DEF LogHidesCredentials
  <2> QED
    BY <2>1, LogIsClean DEF RedIInv
<1> QED
  BY RedInductive, <1>1, PTL
=============================================================================
