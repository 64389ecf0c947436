-------------------------- MODULE SupervisorProofs --------------------------
(***************************************************************************)
(* What holds of the supervisor for every set of calls, every capacity of  *)
(* its channel, every number of pauses and however often the upstream      *)
(* fails.                                                                  *)
(***************************************************************************)
EXTENDS Supervisor, SequenceTheorems, TLAPS

USE SupervisorAssumption

(***************************************************************************)
(* The inductive invariant.  Processes says in which states of run there   *)
(* is a process, and that nothing is with it or waits for it when there is *)
(* none.  Requests says that a request is in the channel once, and only    *)
(* until it is written.  Placed says where the open calls are: those that  *)
(* were written in the table of the process, the others in the channel,    *)
(* and nothing else is in either.                                          *)
(***************************************************************************)
Elements(s) == {s[i] : i \in 1 .. Len(s)}
Distinct(s) == \A i, j \in 1 .. Len(s) : s[i] = s[j] => i = j

Processes ==
    /\ state \in {"starting", "resting", "stopped"} => alive = 0 /\ pending = {}
    /\ state \in {"starting", "resting", "stopped"} => ~reading
    /\ reading => alive = 1
    /\ alive <= 1
    /\ state = "stopped" => channel = <<>>

Requests ==
    \A c \in Calls :
        /\ delivered[c] <= 1
        /\ c \in InChannel => delivered[c] = 0
        /\ caller[c] = "idle" => delivered[c] = 0 /\ c \notin InChannel

Undecided(c) == caller[c] \in {"waiting", "gone"} /\ slot[c] = "empty"

Placed ==
    \A c \in Calls :
        /\ c \in pending <=> Undecided(c) /\ delivered[c] > 0
        /\ c \in InChannel <=> Undecided(c) /\ delivered[c] = 0
        /\ caller[c] = "idle" => slot[c] = "empty"

IInv ==
    /\ TypeOK
    /\ Processes
    /\ Distinct(channel)
    /\ Requests
    /\ Placed
    /\ NoCallerForgotten

(***************************************************************************)
(* What the channel holds after a request is added, and after the first    *)
(* one is taken.                                                           *)
(***************************************************************************)
LEMMA AddedLast ==
    ASSUME NEW S, NEW s \in Seq(S), NEW c \in S
    PROVE  /\ Append(s, c) \in Seq(S)
           /\ Elements(Append(s, c)) = Elements(s) \cup {c}
           /\ Distinct(s) /\ c \notin Elements(s) => Distinct(Append(s, c))
<1>1. /\ Append(s, c) \in Seq(S)
      /\ Len(Append(s, c)) = Len(s) + 1
      /\ \A i \in 1 .. Len(s) : Append(s, c)[i] = s[i]
      /\ Append(s, c)[Len(s) + 1] = c
  BY AppendProperties
<1>2. Len(s) \in Nat
  BY LenProperties
<1>3. Elements(Append(s, c)) = Elements(s) \cup {c}
  BY <1>1, <1>2 DEF Elements
<1>4. Distinct(s) /\ c \notin Elements(s) => Distinct(Append(s, c))
  BY <1>1, <1>2 DEF Elements, Distinct
<1> QED
  BY <1>1, <1>3, <1>4

LEMMA TakenFirst ==
    ASSUME NEW S, NEW s \in Seq(S), s # <<>>, Distinct(s)
    PROVE  /\ Head(s) \in Elements(s)
           /\ Head(s) \in S
           /\ Tail(s) \in Seq(S)
           /\ Elements(Tail(s)) = Elements(s) \ {Head(s)}
           /\ Distinct(Tail(s))
<1>1. /\ Head(s) = s[1]
      /\ Tail(s) \in Seq(S)
      /\ Len(Tail(s)) = Len(s) - 1
      /\ \A i \in 1 .. Len(Tail(s)) : Tail(s)[i] = s[i + 1]
  BY HeadTailProperties
<1>2. Len(s) \in Nat \ {0}
  BY LenProperties, EmptySeq
<1>3. Head(s) \in Elements(s) /\ Head(s) \in S
  BY <1>1, <1>2, ElementOfSeq DEF Elements
<1>4. Elements(Tail(s)) \subseteq Elements(s) \ {Head(s)}
  BY <1>1, <1>2 DEF Elements, Distinct
<1>5. ASSUME NEW e \in Elements(s) \ {Head(s)} PROVE e \in Elements(Tail(s))
  <2>1. PICK i \in 1 .. Len(s) : e = s[i]
    BY DEF Elements
  <2>2. i - 1 \in 1 .. Len(Tail(s)) /\ Tail(s)[i - 1] = s[i]
    BY <2>1, <1>1, <1>2
  <2> QED
    BY <2>1, <2>2 DEF Elements
<1>6. Distinct(Tail(s))
  BY <1>1, <1>2 DEF Distinct
<1> QED
  BY <1>1, <1>3, <1>4, <1>5, <1>6

\* Types are respected by every step: a process that ends was there.
LEMMA TypeStep == TypeOK /\ Processes /\ [Next]_vars => TypeOK'
<1> SUFFICES ASSUME TypeOK, Processes, [Next]_vars PROVE TypeOK'
  OBVIOUS
<1> USE DEF TypeOK, Processes, States, Failed
<1>1. ASSUME NEW c \in Calls, Submit(c) PROVE TypeOK'
  <2>1. channel' \in Seq(Calls)
    <3>1. Append(channel, c) \in Seq(Calls)
      BY AddedLast
    <3> QED
      BY <1>1, <3>1 DEF Submit
  <2>2. caller' \in [Calls -> {"idle", "waiting", "answered", "failed", "gone"}]
    BY <1>1 DEF Submit
  <2>3. UNCHANGED <<state, reading, attempts, pending, alive, slot, delivered, failures>>
    BY <1>1 DEF Submit
  <2> QED
    BY <2>1, <2>2, <2>3
<1>2. ASSUME NEW c \in Calls, Leave(c) PROVE TypeOK'
  BY <1>2 DEF Leave
<1>3. ASSUME NEW c \in Calls, Wake(c) PROVE TypeOK'
  BY <1>3 DEF Wake
<1>4. ASSUME NEW c \in Calls, Answer(c) PROVE TypeOK'
  BY <1>4 DEF Answer
<1>5. CASE Start
  BY <1>5 DEF Start
<1>6. CASE Resume
  BY <1>6 DEF Resume
<1>7. CASE Recover
  <2>1. channel' \in Seq(Calls)
    BY <1>7, EmptySeq DEF Recover, Requeued, Stop
  <2>2. slot' \in [Calls -> {"empty", "response", "error"}]
    BY <1>7 DEF Recover, FailSlots
  <2>3. attempts' \in 0 .. Pauses
    BY <1>7 DEF Recover, Pause, Stop
  <2> QED
    BY <1>7, <2>1, <2>2, <2>3 DEF Recover, Pause, Stop, Kill
<1>8. CASE Forward
  <2>1. /\ channel' \in Seq(Calls)
        /\ Head(channel) \in Calls
    BY <1>8, HeadTailProperties DEF Forward
  <2>2. state' \in States
    BY <1>8 DEF Forward
  <2>3. pending' \subseteq Calls /\ delivered' \in [Calls -> Nat]
    BY <1>8, <2>1 DEF Forward
  <2>4. UNCHANGED <<reading, attempts, alive, caller, slot, failures>>
    BY <1>8 DEF Forward
  <2> QED
    BY <2>1, <2>2, <2>3, <2>4
<1>9. CASE StartFails
  <2>1. channel' \in Seq(Calls)
    BY <1>9, EmptySeq DEF StartFails, Stop
  <2>2. slot' \in [Calls -> {"empty", "response", "error"}]
    BY <1>9 DEF StartFails, FailSlots
  <2>3. attempts' \in 0 .. Pauses
    BY <1>9 DEF StartFails, Pause, Stop
  <2> QED
    BY <1>9, <2>1, <2>2, <2>3 DEF StartFails, UpstreamFails, Pause, Stop
<1>10. CASE ReaderEnds
  <2>1. /\ state' \in States /\ reading' = FALSE /\ alive' \in Nat
        /\ failures' \in 0 .. MaxFailures
    BY <1>10 DEF ReaderEnds, UpstreamFails
  <2>2. UNCHANGED <<attempts, channel, pending, caller, slot, delivered>>
    BY <1>10 DEF ReaderEnds
  <2> QED
    BY <2>1, <2>2
<1>11. CASE UNCHANGED vars
  BY <1>11 DEF vars
<1>12. CASE WriteOk \/ WriteFails
  BY <1>12 DEF WriteOk, WriteFails, WriteEnds, UpstreamFails
<1>13. CASE Notice
  BY <1>13 DEF Notice
<1> QED
  BY <1>1, <1>2, <1>3, <1>4, <1>5, <1>6, <1>7, <1>8, <1>9, <1>10, <1>11, <1>12, <1>13
     DEF Next, Proceed

\* A process is started when there is none, and only then.
LEMMA ProcessesStep == TypeOK /\ Processes /\ [Next]_vars => Processes'
<1> SUFFICES ASSUME TypeOK, Processes, [Next]_vars PROVE Processes'
  OBVIOUS
<1> USE DEF TypeOK, Processes, States, Failed
<1>1. ASSUME NEW c \in Calls, Submit(c) \/ Leave(c) \/ Wake(c) \/ Answer(c)
      PROVE Processes'
  BY <1>1 DEF Submit, Leave, Wake, Answer
<1>2. CASE Proceed
  BY <1>2 DEF Proceed, Start, Resume, Notice, Recover, Kill, Pause, Stop
<1>3. CASE Forward \/ WriteOk \/ WriteFails
  BY <1>3 DEF Forward, WriteOk, WriteFails, WriteEnds
<1>4. CASE StartFails
  BY <1>4 DEF StartFails, Pause, Stop
<1>5. CASE ReaderEnds
  BY <1>5 DEF ReaderEnds
<1>6. CASE UNCHANGED vars
  BY <1>6 DEF vars
<1> QED
  BY <1>1, <1>2, <1>3, <1>4, <1>5, <1>6 DEF Next

\* What the steps do to the channel: Submit adds a request that was not in
\* it, Forward takes the first, the others keep all or none.
LEMMA ChannelStep ==
    ASSUME IInv, [Next]_vars
    PROVE  /\ Distinct(channel)'
           /\ \A c \in Calls : Submit(c) =>
                InChannel' = IF state = "stopped" THEN InChannel
                             ELSE InChannel \cup {c}
           /\ Forward => /\ Head(channel) \in InChannel \cap Calls
                         /\ InChannel' = InChannel \ {Head(channel)}
           /\ UNCHANGED channel => InChannel' = InChannel
           /\ channel' = <<>> => InChannel' = {}
<1> USE DEF IInv, TypeOK
<1>0. InChannel = Elements(channel)
  BY DEF InChannel, Elements
<1>1. ASSUME UNCHANGED channel
      PROVE  Distinct(channel)' /\ InChannel' = InChannel
  BY <1>1 DEF InChannel, Distinct
<1>2. ASSUME channel' = <<>> PROVE Distinct(channel)' /\ InChannel' = {}
  BY <1>2, EmptySeq DEF InChannel, Distinct
<1>3. ASSUME NEW c \in Calls, Submit(c)
      PROVE  /\ Distinct(channel)'
             /\ InChannel' = IF state = "stopped" THEN InChannel
                             ELSE InChannel \cup {c}
  <2>1. CASE state = "stopped"
    BY <1>1, <1>3, <2>1 DEF Submit
  <2>2. CASE state # "stopped"
    <3>1. channel' = Append(channel, c) /\ c \notin Elements(channel)
      BY <1>0, <1>3, <2>2 DEF Requests, Submit
    <3>2. /\ Elements(Append(channel, c)) = Elements(channel) \cup {c}
          /\ Distinct(Append(channel, c))
      BY <3>1, AddedLast
    <3>3. /\ InChannel' = Elements(Append(channel, c))
          /\ Distinct(channel)' = Distinct(Append(channel, c))
      BY <3>1 DEF InChannel, Elements, Distinct
    <3> QED
      BY <1>0, <2>2, <3>2, <3>3
  <2> QED
    BY <2>1, <2>2
<1>4. ASSUME Forward
      PROVE  /\ Distinct(channel)'
             /\ Head(channel) \in InChannel \cap Calls
             /\ InChannel' = InChannel \ {Head(channel)}
  <2>1. /\ Elements(Tail(channel)) = Elements(channel) \ {Head(channel)}
        /\ Head(channel) \in Elements(channel) \cap Calls
        /\ Distinct(Tail(channel))
    BY <1>4, TakenFirst DEF Forward
  <2>2. /\ InChannel' = Elements(Tail(channel))
        /\ Distinct(channel)' = Distinct(Tail(channel))
    BY <1>4 DEF Forward, InChannel, Elements, Distinct
  <2> QED
    BY <1>0, <2>1, <2>2
<1>5. Distinct(channel)'
  <2>1. ASSUME NEW c \in Calls, Leave(c) \/ Wake(c) \/ Answer(c)
        PROVE  UNCHANGED channel
    BY <2>1 DEF Leave, Wake, Answer
  <2>2. CASE Proceed \/ StartFails
    <3>1. UNCHANGED channel \/ channel' = <<>>
      BY <2>2 DEF Proceed, Start, Resume, Notice, Recover, Requeued, StartFails, Stop
    <3> QED
      BY <3>1, <1>1, <1>2
  <2>3. CASE Forward
    BY <1>4, <2>3
  <2>4. CASE WriteOk \/ WriteFails \/ ReaderEnds \/ UNCHANGED vars
    BY <1>1, <2>4 DEF WriteOk, WriteFails, WriteEnds, ReaderEnds, vars
  <2> QED
    BY <1>1, <1>3, <2>1, <2>2, <2>3, <2>4 DEF Next
<1> QED
  BY <1>1, <1>2, <1>3, <1>4, <1>5

\* A request is written by taking it out of the channel, where it was once,
\* and never put back.
LEMMA RequestsStep == IInv /\ [Next]_vars => Requests'
<1> SUFFICES ASSUME IInv, [Next]_vars, NEW q \in Calls
             PROVE  Requests!(q)'
  BY DEF Requests
<1> USE ChannelStep DEF IInv, TypeOK, Requests
<1>1. ASSUME NEW c \in Calls, Submit(c) PROVE Requests!(q)'
  <2>1. caller'[c] # "idle"
    BY <1>1 DEF Submit
  <2>2. /\ InChannel' \subseteq InChannel \cup {c}
        /\ delivered' = delivered
        /\ q # c => caller'[q] = caller[q]
    BY <1>1 DEF Submit
  <2>3. delivered[c] = 0
    BY <1>1 DEF Submit
  <2> QED
    BY <2>1, <2>2, <2>3
<1>2. ASSUME NEW c \in Calls, Leave(c) \/ Wake(c) \/ Answer(c)
      PROVE  Requests!(q)'
  <2>1. UNCHANGED channel
    BY <1>2 DEF Leave, Wake, Answer
  <2>2. delivered' = delivered /\ (caller'[q] = "idle" => caller[q] = "idle")
    BY <1>2 DEF Leave, Wake, Answer
  <2> QED
    BY <2>1, <2>2
<1>3. CASE Proceed \/ StartFails
  <2>1. UNCHANGED channel \/ channel' = <<>>
    BY <1>3 DEF Proceed, Start, Resume, Notice, Recover, Requeued, StartFails, Stop
  <2>2. UNCHANGED <<delivered, caller>>
    BY <1>3 DEF Proceed, Start, Resume, Notice, Recover, StartFails
  <2> QED
    BY <2>1, <2>2
<1>4. CASE Forward
  <2>1. /\ caller' = caller
        /\ delivered' = [delivered EXCEPT ![Head(channel)] = @ + 1]
    BY <1>4 DEF Forward
  <2>2. Head(channel) \in Calls /\ delivered[Head(channel)] = 0
    BY <1>4
  <2> QED
    BY <1>4, <2>1, <2>2
<1>5. CASE WriteOk \/ WriteFails \/ ReaderEnds \/ UNCHANGED vars
  <2>1. UNCHANGED <<channel, delivered, caller>>
    BY <1>5 DEF WriteOk, WriteFails, WriteEnds, ReaderEnds, vars
  <2> QED
    BY <2>1
<1> QED
  BY <1>1, <1>2, <1>3, <1>4, <1>5 DEF Next

\* A request leaves the channel for the table of the process, and the table
\* only with an answer or an error.
LEMMA ForgottenStep == IInv /\ [Next]_vars => NoCallerForgotten'
<1> SUFFICES ASSUME IInv, [Next]_vars, NEW q \in Calls,
                    caller'[q] = "waiting", slot'[q] = "empty"
             PROVE  \/ q \in InChannel'
                    \/ q \in pending' /\ state' \in Failed \cup {"serving", "writing"}
  BY DEF NoCallerForgotten
<1> USE ChannelStep DEF IInv, TypeOK, NoCallerForgotten, States, Failed
<1> DEFINE Goal == \/ q \in InChannel'
                   \/ q \in pending' /\ state' \in Failed \cup {"serving", "writing"}
<1>1. ASSUME NEW c \in Calls, Submit(c) PROVE Goal
  <2>1. UNCHANGED <<state, pending, slot>>
    BY <1>1 DEF Submit
  <2>2. CASE q = c
    BY <1>1, <2>2 DEF Submit
  <2>3. CASE q # c
    <3>1. caller[q] = "waiting"
      BY <1>1, <2>3 DEF Submit
    <3>2. InChannel \subseteq InChannel'
      BY <1>1
    <3> QED
      BY <2>1, <3>1, <3>2
  <2> QED
    BY <2>2, <2>3
<1>2. ASSUME NEW c \in Calls, Leave(c) \/ Wake(c) PROVE Goal
  <2>1. UNCHANGED <<state, channel, pending, slot>> /\ caller[q] = "waiting"
    BY <1>2 DEF Leave, Wake
  <2> QED
    BY <2>1
<1>3. ASSUME NEW c \in Calls, Answer(c) PROVE Goal
  <2>1. UNCHANGED <<state, channel, caller>>
    BY <1>3 DEF Answer
  <2>2. q # c /\ slot[q] = "empty" /\ (q \in pending => q \in pending')
    BY <1>3 DEF Answer
  <2> QED
    BY <2>1, <2>2
<1>4. CASE Start \/ Resume
  <2>1. UNCHANGED <<channel, caller, slot>> /\ state \notin Failed \cup {"serving", "writing"}
    BY <1>4 DEF Start, Resume
  <2> QED
    BY <2>1
<1>5. CASE Recover
  <2>1. UNCHANGED caller
    BY <1>5 DEF Recover
  <2>2. slot[q] = "empty" /\ q \notin pending
    BY <1>5 DEF Recover, FailSlots, Drained
  <2>3. UNCHANGED channel \/ q \notin InChannel
    BY <1>5 DEF Recover, Requeued, FailSlots, Abandoned
  <2> QED
    BY <2>1, <2>2, <2>3
<1>6. CASE StartFails
  <2>1. UNCHANGED caller /\ state \notin Failed \cup {"serving", "writing"}
    BY <1>6 DEF StartFails
  <2>2. slot[q] = "empty" /\ (UNCHANGED channel \/ q \notin InChannel)
    BY <1>6 DEF StartFails, FailSlots, Abandoned
  <2> QED
    BY <2>1, <2>2
<1>7. CASE Forward
  <2>1. /\ UNCHANGED <<caller, slot>> /\ pending' = pending \cup {Head(channel)}
        /\ state' = "writing"
    BY <1>7 DEF Forward
  <2> QED
    BY <1>7, <2>1
<1>8. CASE WriteOk \/ WriteFails \/ ReaderEnds \/ Notice
  <2>1. /\ UNCHANGED <<channel, caller, slot, pending>>
        /\ state' \in Failed \cup {"serving", "writing"}
    BY <1>8 DEF WriteOk, WriteFails, WriteEnds, ReaderEnds, Notice
  <2> QED
    BY <2>1
<1>9. CASE UNCHANGED vars
  <2>1. UNCHANGED <<state, channel, caller, slot, pending>>
    BY <1>9 DEF vars
  <2> QED
    BY <2>1
<1> QED
  BY <1>1, <1>2, <1>3, <1>4, <1>5, <1>6, <1>7, <1>8, <1>9 DEF Next, Proceed

\* A call is in the channel until it is written, then in the table, and
\* leaves either with its outcome.
LEMMA PlacedStep == IInv /\ [Next]_vars => Placed'
<1> SUFFICES ASSUME IInv, [Next]_vars, NEW q \in Calls
             PROVE  Placed!(q)'
  BY DEF Placed
<1> USE ChannelStep DEF IInv, TypeOK, Placed, Undecided
<1>1. ASSUME NEW c \in Calls, Submit(c) PROVE Placed!(q)'
  <2>1. UNCHANGED <<pending, slot, delivered>> /\ delivered[c] = 0 /\ slot[c] = "empty"
    BY <1>1 DEF Submit, Requests
  <2>2. /\ caller[c] = "idle"
        /\ caller'[c] = IF state = "stopped" THEN "failed" ELSE "waiting"
        /\ q # c => caller'[q] = caller[q]
    BY <1>1 DEF Submit
  <2>3. InChannel' = IF state = "stopped" THEN InChannel ELSE InChannel \cup {c}
    BY <1>1
  <2> QED
    BY <2>1, <2>2, <2>3
<1>2. ASSUME NEW c \in Calls, Leave(c) \/ Wake(c) PROVE Placed!(q)'
  <2>1. UNCHANGED <<channel, pending, slot, delivered>> /\ InChannel' = InChannel
    BY <1>2 DEF Leave, Wake
  <2>2. /\ caller[c] = "waiting"
        /\ \/ caller'[c] = "gone"
           \/ slot[c] # "empty" /\ caller'[c] \in {"answered", "failed"}
        /\ q # c => caller'[q] = caller[q]
    BY <1>2 DEF Leave, Wake
  <2> QED
    BY <2>1, <2>2
<1>3. ASSUME NEW c \in Calls, Answer(c) PROVE Placed!(q)'
  <2>1. UNCHANGED <<channel, caller, delivered>> /\ InChannel' = InChannel
    BY <1>3 DEF Answer
  <2>2. /\ pending' = pending \ {c} /\ slot'[c] = "response" /\ c \in pending
        /\ q # c => slot'[q] = slot[q]
    BY <1>3 DEF Answer
  <2> QED
    BY <2>1, <2>2
<1>4. CASE Start \/ Resume
  <2>1. UNCHANGED <<channel, caller, slot, delivered>> /\ InChannel' = InChannel
    BY <1>4 DEF Start, Resume
  <2>2. UNCHANGED pending
    BY <1>4 DEF Start, Resume, Processes
  <2> QED
    BY <2>1, <2>2
<1>5. ASSUME NEW S, FailSlots(S), UNCHANGED <<caller, delivered>>, pending' = {},
             \/ UNCHANGED channel /\ S = pending
             \/ channel' = <<>> /\ S = pending \cup InChannel
      PROVE  Placed!(q)'
  <2>1. slot'[q] = IF q \in S /\ slot[q] = "empty" THEN "error" ELSE slot[q]
    BY <1>5 DEF FailSlots
  <2>2. \/ InChannel' = InChannel /\ S = pending
        \/ InChannel' = {} /\ S = pending \cup InChannel
    BY <1>5
  <2>3. /\ caller' = caller /\ delivered' = delivered /\ delivered[q] \in Nat
        /\ pending' = {}
    BY <1>5
  <2>4. CASE InChannel' = InChannel /\ S = pending
    BY <2>1, <2>3, <2>4
  <2>5. CASE InChannel' = {} /\ S = pending \cup InChannel
    BY <2>1, <2>3, <2>5
  <2> QED
    BY <2>2, <2>4, <2>5
<1>6. CASE Recover
  <2>1. UNCHANGED <<caller, delivered>> /\ pending' = {}
    BY <1>6 DEF Recover
  <2>2. CASE FailSlots(Drained) /\ Requeued
    BY <1>5, <2>1, <2>2 DEF Drained, Requeued
  <2>3. CASE Stop /\ FailSlots(Drained \cup Abandoned)
    BY <1>5, <2>1, <2>3 DEF Drained, Abandoned, Stop
  <2> QED
    BY <1>6, <2>2, <2>3 DEF Recover
<1>7. CASE StartFails
  <2>1. UNCHANGED <<caller, delivered, pending>> /\ pending = {}
    BY <1>7 DEF StartFails, Processes
  <2>2. CASE UNCHANGED <<channel, slot>>
    <3>1. InChannel' = InChannel
      BY <2>2
    <3> QED
      BY <2>1, <2>2, <3>1
  <2>3. CASE Stop /\ FailSlots(Abandoned)
    BY <1>5, <2>1, <2>3 DEF Abandoned, Stop
  <2> QED
    BY <1>7, <2>2, <2>3 DEF StartFails
<1>8. CASE Forward
  <2> DEFINE h == Head(channel)
  <2>1. h \in InChannel \cap Calls /\ InChannel' = InChannel \ {h}
    BY <1>8
  <2>2. /\ UNCHANGED <<caller, slot>> /\ pending' = pending \cup {h}
        /\ delivered' = [delivered EXCEPT ![h] = @ + 1]
    BY <1>8 DEF Forward
  <2> HIDE DEF h
  <2>3. delivered'[q] = IF q = h THEN 1 ELSE delivered[q]
    BY <2>1, <2>2
  <2> QED
    BY <2>1, <2>2, <2>3
<1>9. CASE WriteOk \/ WriteFails \/ ReaderEnds \/ Notice \/ UNCHANGED vars
  <2>1. UNCHANGED <<channel, caller, slot, pending, delivered>>
    BY <1>9 DEF WriteOk, WriteFails, WriteEnds, ReaderEnds, Notice, vars
  <2>2. InChannel' = InChannel
    BY <2>1
  <2> QED
    BY <2>1, <2>2
<1> QED
  BY <1>1, <1>2, <1>3, <1>4, <1>6, <1>7, <1>8, <1>9 DEF Next, Proceed

LEMMA Invariance == Spec => []IInv
<1>1. Init => IInv
  <2> SUFFICES ASSUME Init PROVE IInv
    OBVIOUS
  <2>1. channel \in Seq(Calls) /\ InChannel = {} /\ Distinct(channel)
    BY EmptySeq DEF Init, InChannel, Distinct
  <2>2. TypeOK
    <3>1. state \in States
      BY DEF Init, States
    <3>2. reading \in BOOLEAN
      BY DEF Init
    <3>3. attempts \in 0 .. Pauses
      BY DEF Init
    <3>4. pending \subseteq Calls /\ alive \in Nat /\ failures \in 0 .. MaxFailures
      BY DEF Init
    <3>5. /\ caller \in [Calls -> {"idle", "waiting", "answered", "failed", "gone"}]
          /\ slot \in [Calls -> {"empty", "response", "error"}]
          /\ delivered \in [Calls -> Nat]
      BY DEF Init
    <3> QED
      BY <2>1, <3>1, <3>2, <3>3, <3>4, <3>5 DEF TypeOK
  <2>3. Processes
    <3>1. state = "starting" /\ alive = 0 /\ pending = {} /\ ~reading
      BY DEF Init
    <3> QED
      BY <3>1 DEF Processes
  <2>4. Requests /\ Placed /\ NoCallerForgotten
    BY <2>1 DEF Init, Requests, Placed, Undecided, NoCallerForgotten
  <2> QED
    BY <2>1, <2>2, <2>3, <2>4 DEF IInv
<1>2. IInv /\ [Next]_vars => IInv'
  BY TypeStep, ProcessesStep, ChannelStep, RequestsStep, PlacedStep, ForgottenStep DEF IInv
<1> QED
  BY <1>1, <1>2, PTL DEF Spec

\* However the upstream fails, a request is written to at most one process,
\* at most one process of the upstream is alive, and no caller that still
\* waits falls between channel, table and process.
THEOREM CallsOnce == Spec => []EachCallOnce
<1>1. IInv => EachCallOnce
  BY DEF IInv, EachCallOnce, AtMostOnce, Processes, Requests
<1> QED
  BY <1>1, Invariance, PTL

-----------------------------------------------------------------------------
(***************************************************************************)
(* The promise is kept.  Writing a request is executing the call, and the  *)
(* table holds what was begun, the channel what was not: so to fail the    *)
(* table is Break, and to fail both is GiveUp.                             *)
(***************************************************************************)
LEMMA WhereOpen ==
    ASSUME IInv
    PROVE  /\ pending = Promise!Begun
           /\ InChannel = Promise!Open \ Promise!Begun
<1>1. pending \subseteq Calls /\ InChannel \subseteq Calls /\ delivered \in [Calls -> Nat]
  BY ElementOfSeq DEF IInv, TypeOK, InChannel
<1> QED
  BY <1>1 DEF IInv, Placed, Undecided, Promise!Begun, Promise!Open

\* The senders that are dropped are those of open calls.
LEMMA FailsOpen ==
    ASSUME IInv, NEW S, S \subseteq Promise!Open, FailSlots(S)
    PROVE  Promise!FailAll(S)
<1>1. \A c \in S : slot[c] = "empty"
  BY DEF Promise!Open
<1> QED
  BY <1>1 DEF FailSlots, Promise!FailAll

\* Every step of the supervisor is one of the connection, or none.
LEMMA StepKeepsPromise ==
    ASSUME IInv, [Next]_vars
    PROVE  [Promise!PromiseNext]_Promise!promiseVars
<1> USE DEF Promise!PromiseNext, Promise!promiseVars
<1>1. ASSUME NEW c \in Calls, Submit(c) PROVE Promise!Take(c)
  BY <1>1 DEF Submit, Promise!Take
<1>2. ASSUME NEW c \in Calls, Leave(c) PROVE Promise!Abandon(c)
  BY <1>2 DEF Leave, Promise!Abandon
<1>3. ASSUME NEW c \in Calls, Wake(c) PROVE Promise!Return(c)
  BY <1>3 DEF Wake, Promise!Return
<1>4. ASSUME NEW c \in Calls, Answer(c) PROVE Promise!Respond(c)
  <2>1. state # "stopped"
    BY <1>4 DEF Answer, IInv, Processes
  <2> QED
    BY <1>4, <2>1, WhereOpen DEF Answer, Promise!Respond
<1>5. CASE Start \/ Resume \/ WriteOk \/ WriteFails \/ ReaderEnds \/ Notice \/ UNCHANGED vars
  BY <1>5 DEF Start, Resume, WriteOk, WriteFails, WriteEnds, ReaderEnds, Notice, vars
<1>6. CASE Forward
  <2> DEFINE h == Head(channel)
  <2>1. state # "stopped" /\ state' # "stopped"
    BY <1>6 DEF Forward
  <2>2. h \in Calls /\ h \in Promise!Open \ Promise!Begun /\ delivered[h] = 0
    BY <1>6, ChannelStep, WhereOpen DEF IInv, Requests
  <2>3. delivered' = [delivered EXCEPT ![h] = 1] /\ UNCHANGED <<caller, slot>>
    BY <1>6, <2>2 DEF Forward
  <2> HIDE DEF h
  <2>4. Promise!Execute(h)
    BY <2>1, <2>2, <2>3 DEF Promise!Execute
  <2> QED
    BY <2>2, <2>4
<1>7. CASE Recover
  <2>1. UNCHANGED <<caller, delivered>> /\ state # "stopped"
    BY <1>7 DEF Recover, Failed
  <2>2. CASE Pause /\ FailSlots(Drained)
    <3>1. Promise!FailAll(Promise!Begun)
      BY <2>2, WhereOpen, FailsOpen DEF Drained, Promise!Begun
    <3>2. Promise!Break
      BY <2>1, <2>2, <3>1 DEF Pause, Promise!Break
    <3> QED
      BY <3>2
  <2>3. CASE Stop /\ FailSlots(Drained \cup Abandoned)
    <3>1. Drained \cup Abandoned = Promise!Open
      BY WhereOpen DEF Drained, Abandoned, Promise!Begun
    <3>2. Promise!GiveUp
      BY <2>1, <2>3, <3>1, FailsOpen DEF Stop, Promise!GiveUp
    <3> QED
      BY <3>2
  <2> QED
    BY <1>7, <2>2, <2>3 DEF Recover
<1>8. CASE StartFails
  <2>1. UNCHANGED <<caller, delivered>> /\ state # "stopped" /\ pending = {}
    BY <1>8 DEF StartFails, IInv, Processes
  <2>2. CASE Pause /\ UNCHANGED slot
    BY <2>1, <2>2 DEF Pause
  <2>3. CASE Stop /\ FailSlots(Abandoned)
    <3>1. Abandoned = Promise!Open
      BY <2>1, WhereOpen DEF Abandoned
    <3>2. Promise!GiveUp
      BY <2>1, <2>3, <3>1, FailsOpen DEF Stop, Promise!GiveUp
    <3> QED
      BY <3>2
  <2> QED
    BY <1>8, <2>2, <2>3 DEF StartFails
<1> QED
  BY <1>1, <1>2, <1>3, <1>4, <1>5, <1>6, <1>7, <1>8 DEF Next, Proceed

\* However the upstream fails and whoever leaves: with a process fail the
\* calls that were with it and no others, when the supervisor stops all that
\* are open, and a call is executed once, before it is decided.
THEOREM PromiseKept == Spec => ImplementsPromise
<1>1. Init => Promise!PromiseInit
  BY DEF Init, Promise!PromiseInit
<1>2. IInv /\ [Next]_vars => [Promise!PromiseNext]_Promise!promiseVars
  BY StepKeepsPromise
<1> QED
  BY <1>1, <1>2, Invariance, PTL DEF Spec, ImplementsPromise, Promise!PromiseSpec

=============================================================================
