---------------------------- MODULE SessionsProofs ----------------------------
(***************************************************************************)
(* Proofs about the HTTP/SSE transport (Sessions), for any connections,    *)
(* permits and limits: the table of sessions follows the streams, and what *)
(* a post is told 202 for reaches its stream once.                         *)
(***************************************************************************)
EXTENDS Sessions, Sums, SequenceTheorems

(***************************************************************************)
(* The inductive invariant.  The tasks that hold a permit are counted; a   *)
(* post that is told 202 has a target, whose stream was greeted; and what  *)
(* was received, is being written and waits in the channel is, in this     *)
(* order, one sequence without doubles.                                    *)
(***************************************************************************)
Places == Live \cup Over \cup {"absent", "new"}

Types ==
    /\ stage \in [Conns -> Places]
    /\ life \in [Conns -> 0 .. Life]
    /\ permits \in [all : Nat, free : Nat]
    /\ target \in [Posts -> Streams \cup {Nobody}]
    /\ accepted \subseteq Posts

RecordTypes ==
    /\ DOMAIN onRecord \subseteq Addresses
    /\ \A a \in DOMAIN onRecord :
          onRecord[a] \in [age : 0 .. Minute + 1, count : Nat]
    /\ starts \in [Addresses -> [0 .. Minute - 1 -> Nat]]

FlowTypes ==
    /\ channel \in [Streams -> Seq(Posts)]
    /\ writing \in [Streams -> Seq(Posts)]
    /\ received \in [Streams -> Seq(Posts)]
    /\ \A c \in Streams : Len(channel[c]) <= Capacity /\ Len(writing[c]) <= 1

Holders == {c \in Conns : stage[c] \in Live}

Counted ==
    /\ IsFiniteSet(Holders)
    /\ permits.free = permits.all - Cardinality(Holders)

Table ==
    /\ sessions \subseteq Streams
    /\ IsFiniteSet(sessions) /\ Cardinality(sessions) <= MaxSessions
    /\ \A c \in Streams : Listening(c) => c \in sessions
    /\ \A c \in sessions : Listening(c) \/ stage[c] = "cut"

Posted ==
    /\ \A p \in Posts : target[p] # Nobody => stage[target[p]] \in Open \cup Over
    /\ \A p \in Posts : stage[p] = "sending" => target[p] # Nobody
    /\ \A p \in accepted :
          target[p] # Nobody /\ stage[p] \in {"replying"} \cup Over

Flow(c) == (received[c] \o writing[c]) \o channel[c]
Own(c) == {p \in accepted : target[p] = c}
NoDoubles(s) == \A i, j \in 1 .. Len(s) : s[i] = s[j] => i = j

FlowIsOwn(c) ==
    /\ NoDoubles(Flow(c))
    /\ Range(Flow(c)) \subseteq Own(c)
    /\ Listening(c) => Own(c) \subseteq Range(Flow(c))

Flows == \A c \in Streams : FlowIsOwn(c)

\* The streams an address began in the last k ticks; and those that the count
\* of its window stands for.
Begun(f, k) == SumFunctionOnSet(f, 0 .. k - 1)
LetIn(n) == IF n < PerAddress THEN n ELSE PerAddress

Spent(f) == Begun(f, Minute) <= PerAddress - 1

Fits(f, e) ==
    /\ e.count >= 1
    /\ IF e.age < Minute
       THEN /\ Begun(f, e.age) <= LetIn(e.count) - 1
            /\ Begun(f, Minute) <= PerAddress - 1 + LetIn(e.count)
       ELSE Begun(f, Minute) <= LetIn(e.count) - 1

Windows ==
    \A a \in Addresses :
        IF a \in DOMAIN onRecord THEN Fits(starts[a], onRecord[a]) ELSE Spent(starts[a])

IInv == Types /\ RecordTypes /\ FlowTypes /\ Counted /\ Table /\ Posted /\ Flows /\ Windows

(***************************************************************************)
(* Sequences without doubles.                                              *)
(***************************************************************************)
LEMMA DoublesCounted ==
    ASSUME NEW S, NEW s \in Seq(S), NoDoubles(s)
    PROVE  Cardinality(Range(s)) = Len(s)
<1>1. Len(s) \in Nat /\ DOMAIN s = 1 .. Len(s)
  BY LenProperties
<1>2. IsFiniteSet(1 .. Len(s)) /\ Cardinality(1 .. Len(s)) = Len(s)
  BY <1>1, FS_Interval
<1>3. s \in Bijection(1 .. Len(s), Range(s))
  <2>1. s \in [1 .. Len(s) -> Range(s)]
    BY <1>1, SeqDef DEF Range
  <2>2. Range(s) = {s[i] : i \in 1 .. Len(s)}
    BY <1>1 DEF Range
  <2> QED
    BY <2>1, <2>2 DEF Bijection, Injection, Surjection, IsInjective, NoDoubles
<1>4. ExistsBijection(1 .. Len(s), Range(s))
  BY <1>3 DEF ExistsBijection
<1> QED
  BY <1>2, <1>4, FS_Bijection

\* One more at the end.
LEMMA OneMore ==
    ASSUME NEW S, NEW s \in Seq(S), NEW e \in S
    PROVE  /\ Append(s, e) \in Seq(S)
           /\ Range(Append(s, e)) = Range(s) \cup {e}
           /\ NoDoubles(s) /\ e \notin Range(s) => NoDoubles(Append(s, e))
<1>1. /\ Append(s, e) \in Seq(S)
      /\ Len(s) \in Nat /\ Len(Append(s, e)) = Len(s) + 1
      /\ \A i \in 1 .. Len(s) : Append(s, e)[i] = s[i]
      /\ Append(s, e)[Len(s) + 1] = e
  BY AppendProperties, LenProperties
<1>2. /\ Range(s) = {s[i] : i \in 1 .. Len(s)}
      /\ Range(Append(s, e)) = {Append(s, e)[i] : i \in 1 .. Len(s) + 1}
  BY <1>1, RangeEquality
<1>3. Range(Append(s, e)) = Range(s) \cup {e}
  <2>1. Range(Append(s, e)) \subseteq Range(s) \cup {e}
    BY <1>1, <1>2
  <2>2. e \in Range(Append(s, e))
    BY <1>1, <1>2
  <2>3. Range(s) \subseteq Range(Append(s, e))
    BY <1>1, <1>2
  <2> QED
    BY <2>1, <2>2, <2>3
<1>4. NoDoubles(s) /\ e \notin Range(s) => NoDoubles(Append(s, e))
  BY <1>1, <1>2 DEF NoDoubles
<1> QED
  BY <1>1, <1>3, <1>4

\* A beginning of a sequence.
LEMMA Beginning ==
    ASSUME NEW S, NEW s \in Seq(S), NEW t \in Seq(S)
    PROVE  /\ Range(s) \subseteq Range(s \o t)
           /\ NoDoubles(s \o t) => NoDoubles(s)
<1>1. Range(s) \subseteq Range(s \o t)
  BY RangeConcatenation
<1>2. NoDoubles(s \o t) => NoDoubles(s)
  BY ConcatProperties, LenProperties DEF NoDoubles
<1> QED
  BY <1>1, <1>2

(***************************************************************************)
(* The flow to a stream, when its parts change.                            *)
(***************************************************************************)
LEMMA FlowIsTaken ==
    ASSUME NEW S, NEW r \in Seq(S), NEW ch \in Seq(S), ch # <<>>
    PROVE  /\ <<Head(ch)>> \in Seq(S) /\ Tail(ch) \in Seq(S)
           /\ Len(<<Head(ch)>>) = 1 /\ Len(Tail(ch)) = Len(ch) - 1
           /\ (r \o <<Head(ch)>>) \o Tail(ch) = (r \o <<>>) \o ch
<1>1. /\ Head(ch) \in S /\ Tail(ch) \in Seq(S) /\ Len(Tail(ch)) = Len(ch) - 1
      /\ \A i \in 1 .. Len(Tail(ch)) : Tail(ch)[i] = ch[i + 1]
      /\ Len(ch) \in Nat /\ ch[1] = Head(ch)
  BY HeadTailProperties, LenProperties
<1>2. <<Head(ch)>> \in Seq(S) /\ Len(<<Head(ch)>>) = 1 /\ <<Head(ch)>>[1] = Head(ch)
  BY <1>1
<1>3. <<Head(ch)>> \o Tail(ch) = ch
  <2> DEFINE h == <<Head(ch)>>
  <2> HIDE DEF h
  <2>1. /\ h \o Tail(ch) \in Seq(S) /\ Len(h \o Tail(ch)) = Len(ch)
        /\ \A i \in 1 .. Len(ch) :
             (h \o Tail(ch))[i] = IF i <= 1 THEN h[i] ELSE Tail(ch)[i - 1]
    BY <1>1, <1>2, ConcatProperties DEF h
  <2>2. \A i \in 1 .. Len(ch) : (h \o Tail(ch))[i] = ch[i]
    <3> SUFFICES ASSUME NEW i \in 1 .. Len(ch) PROVE (h \o Tail(ch))[i] = ch[i]
      OBVIOUS
    <3>1. CASE i = 1
      BY <1>1, <1>2, <2>1, <3>1 DEF h
    <3>2. CASE i > 1
      <4>1. /\ (h \o Tail(ch))[i] = Tail(ch)[i - 1]
            /\ i - 1 \in 1 .. Len(Tail(ch)) /\ (i - 1) + 1 = i
        BY <1>1, <2>1, <3>2
      <4> QED
        BY <1>1, <4>1
    <3>3. i = 1 \/ i > 1
      OBVIOUS
    <3> QED
      BY <3>1, <3>2, <3>3
  <2> QED
    BY <1>1, <2>1, <2>2, SeqEqual
<1>4. (r \o <<Head(ch)>>) \o Tail(ch) = r \o (<<Head(ch)>> \o Tail(ch))
  BY <1>1, <1>2, ConcatAssociative
<1>5. r \o <<>> = r
  BY ConcatEmptySeq
<1> QED
  BY <1>1, <1>2, <1>3, <1>4, <1>5

LEMMA FlowIsSent ==
    ASSUME NEW S, NEW f \in Seq(S), NEW ch \in Seq(S), NEW p \in S
    PROVE  f \o Append(ch, p) = Append(f \o ch, p)
<1>1. <<p>> \in Seq(S) /\ f \o ch \in Seq(S)
  BY ConcatProperties
<1>2. Append(ch, p) = ch \o <<p>> /\ Append(f \o ch, p) = (f \o ch) \o <<p>>
  BY <1>1, AppendIsConcat
<1> QED
  BY <1>1, <1>2, ConcatAssociative

(***************************************************************************)
(* What a step does to its task.                                           *)
(***************************************************************************)
Enters(c) ==
    /\ stage[c] = "new" /\ Moves(c, "handshake")
    /\ permits.free > 0
    /\ permits' = [permits EXCEPT !.free = @ - 1]
    /\ UNCHANGED life

Leaves(c) ==
    /\ stage[c] \in Live
    /\ \E place \in Over : Ends(c, place)
    /\ stage[c] \in Timed \/ stage'[c] = "over"

Proceeds(c) ==
    \E place \in Places :
        /\ stage[c] \notin Over \cup {"absent"}
        /\ Moves(c, place)
        /\ stage[c] \in Live <=> place \in Live
        /\ stage[c] \in Open \/ place = "greeting" <=> place \in Open
        /\ UNCHANGED permits
        /\ life' \in {life, [life EXCEPT ![c] = Life]}

StaysPut ==
    /\ UNCHANGED <<stage, permits>>
    /\ life' = life \/ life' = [c \in Conns |-> IF life[c] > 0 THEN life[c] - 1 ELSE 0]

LEMMA TaskSteps ==
    ASSUME [Next]_vars, stage \in [Conns -> Places]
    PROVE  (\E c \in Conns : Enters(c) \/ Leaves(c) \/ Proceeds(c)) \/ StaysPut
<1> USE DEF Places, Live, Timed, Open, Over, Conns
<1>1. ASSUME NEW c \in Conns, Accept(c) PROVE Enters(c)
  BY <1>1 DEF Accept, Enters
<1>2. ASSUME NEW c \in Conns, HandshakeFails(c) \/ HangUp(c) \/ Replied(c) \/ Cut(c)
      PROVE  Leaves(c)
  BY <1>2 DEF HandshakeFails, HangUp, Replied, Cut, Leaves, Ends, Moves
<1>3. ASSUME NEW c \in Conns, TurnAway(c) \/ HandshakeOk(c) \/ Refuse(c) \/ Answer(c)
      PROVE  Proceeds(c)
  BY <1>3 DEF TurnAway, HandshakeOk, Refuse, Answer, Proceeds, Goes
<1>4. ASSUME NEW c \in Streams, OpenSession(c) \/ RefuseFull(c) \/ RefuseAddress(c) \/ Greet(c)
      PROVE  Proceeds(c)
  BY <1>4 DEF OpenSession, RefuseFull, RefuseAddress, Greet, Proceeds, Goes
<1>5. ASSUME NEW c \in Streams, TakeAnswer(c) \/ Written(c) PROVE StaysPut
  BY <1>5 DEF TakeAnswer, Written, StaysPut, taskVars
<1>6. ASSUME NEW c \in Streams, WriteFails(c) PROVE Leaves(c)
  BY <1>6 DEF WriteFails, Listening, Leaves, Ends, Moves
<1>7. ASSUME NEW p \in Posts,
             (\E c \in Streams : Lookup(p, c)) \/ Direct(p) \/ Handled(p) \/ Send(p)
      PROVE  Proceeds(p)
  BY <1>7 DEF Lookup, Direct, Handled, Send, Proceeds, Goes
<1>8. CASE Tick
  BY <1>8 DEF Tick, StaysPut
<1>9. CASE UNCHANGED vars
  BY <1>9 DEF vars, taskVars, StaysPut
<1> QED
  BY <1>1, <1>2, <1>3, <1>4, <1>5, <1>6, <1>7, <1>8, <1>9 DEF Next

\* The free permits are those that no task holds.
LEMMA CountedStep == Types /\ Counted /\ [Next]_vars => Counted'
<1> SUFFICES ASSUME Types, Counted, [Next]_vars PROVE Counted'
  OBVIOUS
<1>0. /\ stage \in [Conns -> Places] /\ permits \in [all : Nat, free : Nat]
      /\ IsFiniteSet(Holders) /\ Cardinality(Holders) \in Nat
  BY FS_CardinalityType DEF Types, Counted
<1>1. ASSUME NEW c \in Conns, Enters(c) PROVE Counted'
  <2>1. Holders' = Holders \cup {c} /\ c \notin Holders
    BY <1>0, <1>1 DEF Enters, Moves, Holders, Live, Timed, Open
  <2>2. permits'.all = permits.all /\ permits'.free = permits.free - 1
    BY <1>0, <1>1 DEF Enters
  <2>3. IsFiniteSet(Holders') /\ Cardinality(Holders') = Cardinality(Holders) + 1
    BY <1>0, <2>1, FS_AddElement
  <2> QED
    BY <1>0, <2>2, <2>3 DEF Counted
<1>2. ASSUME NEW c \in Conns, Leaves(c) PROVE Counted'
  <2>1. Holders' = Holders \ {c} /\ c \in Holders
    BY <1>0, <1>2 DEF Leaves, Ends, Moves, Holders, Live, Timed, Open, Over
  <2>2. permits'.all = permits.all /\ permits'.free = permits.free + 1
    BY <1>0, <1>2 DEF Leaves, Ends
  <2>3. IsFiniteSet(Holders') /\ Cardinality(Holders') = Cardinality(Holders) - 1
    BY <1>0, <2>1, FS_RemoveElement
  <2> QED
    BY <1>0, <2>2, <2>3 DEF Counted
<1>3. ASSUME NEW c \in Conns, Proceeds(c) PROVE Counted'
  <2>1. Holders' = Holders /\ permits' = permits
    BY <1>0, <1>3 DEF Proceeds, Moves, Holders
  <2> QED
    BY <2>1 DEF Counted
<1>4. CASE StaysPut
  BY <1>4 DEF StaysPut, Counted, Holders
<1> QED
  BY <1>0, <1>1, <1>2, <1>3, <1>4, TaskSteps

LEMMA TypesStep == Types /\ Counted /\ [Next]_vars => Types'
<1> SUFFICES ASSUME Types, Counted, [Next]_vars PROVE Types'
  OBVIOUS
<1> DEFINE TaskTyped ==
      /\ stage \in [Conns -> Places]
      /\ life \in [Conns -> 0 .. Life]
      /\ permits \in [all : Nat, free : Nat]
<1>0. TaskTyped /\ Life \in Nat
  BY SessionsAssumption DEF Types
<1>1. TaskTyped'
  <2>1. ASSUME NEW c \in Conns, Enters(c) PROVE TaskTyped'
    <3>1. permits.free - 1 \in Nat
      BY <1>0, <2>1 DEF Enters
    <3> QED
      BY <1>0, <2>1, <3>1 DEF Enters, Moves, Places, Live
  <2>2. ASSUME NEW c \in Conns, Leaves(c) PROVE TaskTyped'
    <3>1. permits.free + 1 \in Nat
      BY <1>0
    <3> QED
      BY <1>0, <2>2, <3>1 DEF Leaves, Ends, Moves, Places, Over
  <2>3. ASSUME NEW c \in Conns, Proceeds(c) PROVE TaskTyped'
    BY <1>0, <2>3 DEF Proceeds, Moves
  <2>4. CASE StaysPut
    BY <1>0, <2>4 DEF StaysPut
  <2> QED
    BY <1>0, <2>1, <2>2, <2>3, <2>4, TaskSteps
<1>2. target' \in [Posts -> Streams \cup {Nobody}] /\ accepted' \subseteq Posts
  <2>1. target' = target \/ \E p \in Posts, c \in Streams : target' = [target EXCEPT ![p] = c]
    BY DEF Next, Accept, TurnAway, HandshakeOk, HandshakeFails, HangUp, Refuse, Answer,
           Replied, Cut, OpenSession, RefuseFull, RefuseAddress, Greet, TakeAnswer,
           Written, WriteFails, Lookup, Direct, Handled, Send, Tick, vars, postVars
  <2>2. accepted' = accepted \/ \E p \in Posts : accepted' = accepted \cup {p}
    BY DEF Next, Accept, TurnAway, HandshakeOk, HandshakeFails, HangUp, Refuse, Answer,
           Replied, Cut, OpenSession, RefuseFull, RefuseAddress, Greet, TakeAnswer,
           Written, WriteFails, Lookup, Direct, Handled, Send, Tick, vars, postVars
  <2> QED
    BY <2>1, <2>2 DEF Types
<1> QED
  BY <1>1, <1>2 DEF Types

(***************************************************************************)
(* What a step does to sessions and answers.  Most do nothing to them.     *)
(***************************************************************************)
Quiet(c) ==
    \E place \in Places :
        /\ Moves(c, place)
        /\ stage[c] \notin Over
        /\ place \in Open => stage[c] \in Open
        /\ stage[c] \in Open => place \in Open \cup {"cut"}
        /\ stage[c] = "replying" => place \in Over
        /\ place = "sending" => c \in Posts /\ target[c] # Nobody
        /\ UNCHANGED <<sessionVars, postVars>>

Still == UNCHANGED <<stage, sessionVars, postVars>>

LEMMA SessionSteps ==
    ASSUME [Next]_vars
    PROVE  \/ \E c \in Conns : Quiet(c)
           \/ \E c \in Streams :
                 OpenSession(c) \/ TakeAnswer(c) \/ Written(c) \/ WriteFails(c) \/ Cut(c)
           \/ \E p \in Posts : Send(p) \/ \E c \in Streams : Lookup(p, c)
           \/ Still
<1> USE DEF Places, Live, Timed, Open, Over, Conns
<1>1. ASSUME NEW c \in Conns,
             \/ Accept(c) \/ TurnAway(c) \/ HandshakeOk(c) \/ HandshakeFails(c)
             \/ HangUp(c) \/ Refuse(c) \/ Answer(c) \/ Replied(c)
      PROVE  Quiet(c)
  BY <1>1 DEF Accept, TurnAway, HandshakeOk, HandshakeFails, HangUp, Refuse, Answer,
              Replied, Quiet, Goes, Ends
<1>2. ASSUME NEW c \in Conns, Cut(c), c \notin Streams PROVE Quiet(c)
  BY <1>2 DEF Cut, Quiet, Ends, sessionVars
<1>3. ASSUME NEW c \in Streams, RefuseFull(c) \/ RefuseAddress(c) \/ Greet(c)
      PROVE  Quiet(c)
  BY <1>3 DEF RefuseFull, RefuseAddress, Greet, Quiet, Goes
<1>4. ASSUME NEW p \in Posts, Direct(p) \/ Handled(p) PROVE Quiet(p)
  BY <1>4 DEF Direct, Handled, Quiet, Goes
<1>5. CASE Tick
  BY <1>5 DEF Tick, Still
<1>6. CASE UNCHANGED vars
  BY <1>6 DEF vars, taskVars, Still
<1> QED
  BY <1>1, <1>2, <1>3, <1>4, <1>5, <1>6 DEF Next

LEMMA FlowTypesStep == FlowTypes /\ [Next]_vars => FlowTypes'
<1> SUFFICES ASSUME FlowTypes, [Next]_vars PROVE FlowTypes'
  OBVIOUS
<1>0. <<>> \in Seq(Posts) /\ Len(<<>>) = 0 /\ Capacity \in Nat
  BY EmptySeq, SessionsAssumption
<1>1. ASSUME NEW c \in Conns, Quiet(c) PROVE FlowTypes'
  BY <1>1 DEF Quiet, sessionVars, FlowTypes
<1>2. ASSUME NEW c \in Streams, OpenSession(c) PROVE FlowTypes'
  BY <1>2 DEF OpenSession, FlowTypes
<1>3. ASSUME NEW c \in Streams, TakeAnswer(c) PROVE FlowTypes'
  <2>1. /\ <<Head(channel[c])>> \in Seq(Posts) /\ Tail(channel[c]) \in Seq(Posts)
        /\ Len(<<Head(channel[c])>>) = 1
        /\ Len(Tail(channel[c])) = Len(channel[c]) - 1
        /\ Len(channel[c]) \in Nat
    BY <1>3, <1>0, FlowIsTaken, LenProperties DEF TakeAnswer, FlowTypes
  <2>2. Len(Tail(channel[c])) <= Capacity
    BY <1>0, <2>1 DEF FlowTypes
  <2> QED
    BY <1>3, <2>1, <2>2 DEF TakeAnswer, FlowTypes
<1>4. ASSUME NEW c \in Streams, Written(c) PROVE FlowTypes'
  <2>1. received[c] \o writing[c] \in Seq(Posts)
    BY ConcatProperties DEF FlowTypes
  <2> QED
    BY <1>0, <1>4, <2>1 DEF Written, FlowTypes
<1>5. ASSUME NEW c \in Streams, Drops(c) PROVE FlowTypes'
  BY <1>0, <1>5 DEF Drops, FlowTypes
<1>6. ASSUME NEW c \in Streams, WriteFails(c) \/ Cut(c) PROVE FlowTypes'
  BY <1>5, <1>6 DEF WriteFails, Cut
<1>7. ASSUME NEW p \in Posts, Send(p) PROVE FlowTypes'
  <2>1. UNCHANGED <<writing, received>>
    BY <1>7 DEF Send
  <2>2. CASE UNCHANGED channel
    BY <2>1, <2>2 DEF FlowTypes
  <2>3. CASE Offer(p, target[p])
    <3>1. CASE target[p] \in Streams
      <4>1. /\ Append(channel[target[p]], p) \in Seq(Posts)
            /\ Len(Append(channel[target[p]], p)) = Len(channel[target[p]]) + 1
            /\ Len(channel[target[p]]) \in Nat
        BY <3>1, AppendProperties, LenProperties DEF FlowTypes
      <4>2. Len(Append(channel[target[p]], p)) <= Capacity
        BY <1>0, <2>3, <4>1 DEF Offer
      <4> QED
        BY <2>1, <2>3, <3>1, <4>1, <4>2 DEF Offer, FlowTypes
    <3>2. CASE target[p] \notin Streams
      BY <2>1, <2>3, <3>2 DEF Offer, FlowTypes
    <3> QED
      BY <3>1, <3>2
  <2> QED
    BY <1>7, <2>2, <2>3 DEF Send
<1>8. ASSUME NEW p \in Posts, NEW c \in Streams, Lookup(p, c) PROVE FlowTypes'
  BY <1>8 DEF Lookup, sessionVars, FlowTypes
<1>9. CASE Still
  BY <1>9 DEF Still, sessionVars, FlowTypes
<1> QED
  BY <1>1, <1>2, <1>3, <1>4, <1>6, <1>7, <1>8, <1>9, SessionSteps

\* The entry comes before the greeting, and every failing write takes it
\* along.
LEMMA TableStep == Types /\ Table /\ [Next]_vars => Table'
<1> SUFFICES ASSUME Types, Table, [Next]_vars PROVE Table'
  OBVIOUS
<1>0. /\ stage \in [Conns -> Places] /\ Streams \subseteq Conns
      /\ MaxSessions \in Nat /\ Cardinality(sessions) \in Nat
  BY SessionsAssumption, FS_CardinalityType DEF Types, Table, Conns
<1>1. ASSUME NEW c \in Conns, NEW place, Moves(c, place), sessions' = sessions,
             place \in Open => stage[c] \in Open,
             stage[c] \in Open => place \in Open \cup {"cut"},
             stage[c] # "cut"
      PROVE  Table'
  BY <1>0, <1>1 DEF Moves, Table, Listening
<1>2. ASSUME NEW c \in Conns, Quiet(c) PROVE Table'
  BY <1>1, <1>2 DEF Quiet, Over, sessionVars
<1>3. ASSUME NEW c \in Streams, OpenSession(c) PROVE Table'
  <2>1. sessions' = sessions \cup {c} /\ Cardinality(sessions) < MaxSessions
    BY <1>0, <1>3 DEF OpenSession, Full
  <2>2. IsFiniteSet(sessions') /\ Cardinality(sessions') <= MaxSessions
    <3>1. /\ IsFiniteSet(sessions \cup {c})
          /\ Cardinality(sessions \cup {c}) \in {Cardinality(sessions), Cardinality(sessions) + 1}
      BY FS_AddElement DEF Table
    <3> QED
      BY <1>0, <2>1, <3>1
  <2>3. Moves(c, "greeting") /\ stage[c] = "reading"
    BY <1>3 DEF OpenSession, Goes
  <2> QED
    BY <1>0, <2>1, <2>2, <2>3 DEF Moves, Table, Listening, Open
<1>4. ASSUME NEW c \in Streams, TakeAnswer(c) \/ Written(c) PROVE Table'
  BY <1>4 DEF TakeAnswer, Written, taskVars, Table, Listening
<1>5. ASSUME NEW c \in Streams, WriteFails(c) PROVE Table'
  <2>1. sessions' = sessions \ {c} /\ Moves(c, "over")
    BY <1>5 DEF WriteFails, Removed, Ends
  <2>2. IsFiniteSet(sessions') /\ Cardinality(sessions') <= MaxSessions
    <3>1. /\ IsFiniteSet(sessions \ {c})
          /\ Cardinality(sessions \ {c}) \in {Cardinality(sessions), Cardinality(sessions) - 1}
      BY FS_RemoveElement DEF Table
    <3> QED
      BY <1>0, <2>1, <3>1 DEF Table
  <2> QED
    BY <1>0, <2>1, <2>2 DEF Moves, Table, Listening, Open
<1>6. ASSUME NEW c \in Streams, Cut(c) PROVE Table'
  BY <1>0, <1>1, <1>6 DEF Cut, Ends, Timed, Open
<1>7. ASSUME NEW p \in Posts, Send(p) PROVE Table'
  BY <1>0, <1>1, <1>7 DEF Send, Goes, Open, Conns
<1>8. ASSUME NEW p \in Posts, NEW c \in Streams, Lookup(p, c) PROVE Table'
  BY <1>0, <1>1, <1>8 DEF Lookup, Goes, Open, Conns, sessionVars
<1>9. CASE Still
  BY <1>9 DEF Still, sessionVars, Table, Listening
<1> QED
  BY <1>2, <1>3, <1>4, <1>5, <1>6, <1>7, <1>8, <1>9, SessionSteps

\* A session that a post has found was greeted, whatever became of it.
LEMMA PostedStep == Types /\ Table /\ Posted /\ [Next]_vars => Posted'
<1> SUFFICES ASSUME Types, Table, Posted, [Next]_vars PROVE Posted'
  OBVIOUS
<1>0. /\ stage \in [Conns -> Places] /\ Streams \subseteq Conns /\ Posts \subseteq Conns
      /\ target \in [Posts -> Streams \cup {Nobody}] /\ accepted \subseteq Posts
      /\ Nobody \notin Streams
  BY SessionsAssumption DEF Types, Conns
<1>1. ASSUME NEW c \in Conns, NEW place, Moves(c, place), UNCHANGED <<target, accepted>>,
             stage[c] \in Open \cup Over => place \in Open \cup Over,
             stage[c] \in {"replying"} \cup Over => place \in {"replying"} \cup Over,
             place = "sending" => c \in Posts /\ target[c] # Nobody
      PROVE  Posted'
  BY <1>0, <1>1 DEF Moves, Posted
<1>2. ASSUME NEW c \in Conns, Quiet(c) PROVE Posted'
  BY <1>1, <1>2 DEF Quiet, Over, postVars
<1>3. ASSUME NEW c \in Streams, OpenSession(c) PROVE Posted'
  BY <1>0, <1>1, <1>3 DEF OpenSession, Goes, Over, Open, postVars
<1>4. ASSUME NEW c \in Streams, TakeAnswer(c) \/ Written(c) PROVE Posted'
  BY <1>4 DEF TakeAnswer, Written, taskVars, postVars, Posted
<1>5. ASSUME NEW c \in Streams, WriteFails(c) \/ Cut(c) PROVE Posted'
  BY <1>0, <1>1, <1>5 DEF WriteFails, Cut, Ends, Over, Open, postVars
<1>6. ASSUME NEW p \in Posts, Send(p) PROVE Posted'
  <2>1. stage' = [stage EXCEPT ![p] = "replying"] /\ stage[p] = "sending"
    BY <1>6 DEF Send, Goes, Moves
  <2>2. accepted' = accepted \cup {p} /\ target' = target /\ target[p] # Nobody
    BY <1>6 DEF Send, Posted
  <2>3. \A d \in Streams : stage[d] \in Open \cup Over => stage'[d] \in Open \cup Over
    BY <1>0, <2>1 DEF Open, Over
  <2> QED
    BY <1>0, <2>1, <2>2, <2>3 DEF Posted
<1>7. ASSUME NEW p \in Posts, NEW c \in Streams, Lookup(p, c) PROVE Posted'
  <2>1. CASE c \notin sessions
    BY <1>0, <1>1, <1>7, <2>1 DEF Lookup, Goes, Open, Over
  <2>2. CASE c \in sessions
    <3>1. /\ stage' = [stage EXCEPT ![p] = "working"] /\ stage[p] = "reading"
          /\ target' = [target EXCEPT ![p] = c] /\ accepted' = accepted
      BY <1>7, <2>2 DEF Lookup, Goes, Moves
    <3>2. stage[c] \in Open \cup Over
      BY <2>2 DEF Table, Listening, Over
    <3>3. \A d \in Conns : stage[d] \in Open \cup Over => stage'[d] \in Open \cup Over
      BY <1>0, <3>1 DEF Open, Over
    <3>4. p \notin accepted
      BY <3>1 DEF Posted, Over
    <3> QED
      BY <1>0, <3>1, <3>2, <3>3, <3>4 DEF Posted
  <2> QED
    BY <2>1, <2>2
<1>8. CASE Still
  BY <1>8 DEF Still, postVars, Posted
<1> QED
  BY <1>2, <1>3, <1>4, <1>5, <1>6, <1>7, <1>8, SessionSteps

\* An answer enters the flow once, at its end, and no step changes the order.
LEMMA FlowsStep == Types /\ FlowTypes /\ Table /\ Posted /\ Flows /\ [Next]_vars => Flows'
<1> SUFFICES ASSUME Types, FlowTypes, Table, Posted, Flows, [Next]_vars PROVE Flows'
  OBVIOUS
<1>0. /\ stage \in [Conns -> Places] /\ Streams \subseteq Conns /\ Posts \subseteq Conns
      /\ target \in [Posts -> Streams \cup {Nobody}] /\ accepted \subseteq Posts
      /\ channel \in [Streams -> Seq(Posts)] /\ writing \in [Streams -> Seq(Posts)]
      /\ received \in [Streams -> Seq(Posts)]
  BY DEF Types, FlowTypes, Conns
<1>1. \A c \in Streams : received[c] \o writing[c] \in Seq(Posts) /\ Flow(c) \in Seq(Posts)
  BY <1>0, ConcatProperties DEF Flow
<1>2. ASSUME \A c \in Streams : Flow(c)' = Flow(c),
             UNCHANGED <<target, accepted>>,
             \A c \in Streams : Listening(c)' => Listening(c) \/ Own(c) = {}
      PROVE  Flows'
  BY <1>2 DEF Flows, FlowIsOwn, Own
<1>3. ASSUME UNCHANGED <<channel, writing, received>> PROVE \A c \in Streams : Flow(c)' = Flow(c)
  BY <1>3 DEF Flow
<1>4. ASSUME NEW c \in Conns, Quiet(c) PROVE Flows'
  <2>1. \A d \in Streams : Listening(d)' => Listening(d)
    BY <1>0, <1>4 DEF Quiet, Moves, Listening
  <2> QED
    BY <1>2, <1>3, <1>4, <2>1 DEF Quiet, sessionVars, postVars
<1>5. ASSUME NEW c \in Streams, OpenSession(c) PROVE Flows'
  <2>1. stage[c] = "reading" /\ Moves(c, "greeting")
    BY <1>5 DEF OpenSession, Goes
  <2>2. Own(c) = {}
    BY <1>0, <2>1, SessionsAssumption DEF Posted, Own, Open, Over
  <2>3. \A d \in Streams \ {c} : Listening(d)' => Listening(d)
    BY <1>0, <2>1 DEF Moves, Listening
  <2> QED
    BY <1>2, <1>3, <1>5, <2>2, <2>3 DEF OpenSession, postVars
<1>6. ASSUME NEW c \in Streams, TakeAnswer(c) PROVE Flows'
  <2>1. /\ writing[c] = <<>> /\ channel[c] # <<>>
        /\ writing' = [writing EXCEPT ![c] = <<Head(channel[c])>>]
        /\ channel' = [channel EXCEPT ![c] = Tail(channel[c])]
        /\ UNCHANGED <<stage, received, target, accepted>>
    BY <1>6 DEF TakeAnswer, taskVars, postVars
  <2>2. (received[c] \o <<Head(channel[c])>>) \o Tail(channel[c]) = Flow(c)
    BY <1>0, <2>1, FlowIsTaken DEF Flow
  <2>3. Flow(c)' = Flow(c)
    BY <1>0, <2>1, <2>2 DEF Flow
  <2>4. \A d \in Streams \ {c} : Flow(d)' = Flow(d)
    BY <1>0, <2>1 DEF Flow
  <2> QED
    BY <1>2, <2>1, <2>3, <2>4 DEF Listening
<1>7. ASSUME NEW c \in Streams, Written(c) PROVE Flows'
  <2>1. /\ received' = [received EXCEPT ![c] = received[c] \o writing[c]]
        /\ writing' = [writing EXCEPT ![c] = <<>>]
        /\ UNCHANGED <<stage, channel, target, accepted>>
    BY <1>7 DEF Written, taskVars, postVars
  <2>2. (received[c] \o writing[c]) \o <<>> = received[c] \o writing[c]
    BY <1>1, ConcatEmptySeq
  <2>3. Flow(c)' = Flow(c)
    BY <1>0, <2>1, <2>2 DEF Flow
  <2>4. \A d \in Streams \ {c} : Flow(d)' = Flow(d)
    BY <1>0, <2>1 DEF Flow
  <2> QED
    BY <1>2, <2>1, <2>3, <2>4 DEF Listening
<1>8. ASSUME NEW c \in Streams, WriteFails(c) \/ Cut(c) PROVE Flows'
  <2>1. /\ Drops(c) /\ UNCHANGED <<target, accepted>>
        /\ Moves(c, "over") \/ Moves(c, "cut")
    BY <1>8 DEF WriteFails, Cut, Ends, postVars
  <2>2. \A d \in Streams : Listening(d)' => Listening(d) /\ d # c
    BY <1>0, <2>1 DEF Moves, Listening, Open
  <2>3. Flow(c)' = received[c]
    <3>1. Flow(c)' = (received[c] \o <<>>) \o <<>>
      BY <1>0, <2>1 DEF Drops, Flow
    <3> QED
      BY <1>0, <3>1, ConcatEmptySeq
  <2>4. \A d \in Streams \ {c} : Flow(d)' = Flow(d)
    BY <1>0, <2>1 DEF Drops, Flow
  <2>5. Range(received[c]) \subseteq Range(Flow(c)) /\ NoDoubles(received[c])
    <3>1. NoDoubles(Flow(c))
      BY DEF Flows, FlowIsOwn
    <3>2. /\ Range(received[c]) \subseteq Range(received[c] \o writing[c])
          /\ NoDoubles(received[c] \o writing[c]) => NoDoubles(received[c])
      BY <1>0, Beginning
    <3>3. /\ Range(received[c] \o writing[c]) \subseteq Range(Flow(c))
          /\ NoDoubles(Flow(c)) => NoDoubles(received[c] \o writing[c])
      BY <1>0, <1>1, Beginning DEF Flow
    <3> QED
      BY <3>1, <3>2, <3>3
  <2>6. \A d \in Streams : Own(d)' = Own(d)
    BY <2>1 DEF Own
  <2> QED
    BY <2>2, <2>3, <2>4, <2>5, <2>6 DEF Flows, FlowIsOwn
<1>9. ASSUME NEW p \in Posts, NEW c \in Streams, Lookup(p, c) PROVE Flows'
  <2>1. /\ UNCHANGED <<sessionVars, accepted>> /\ p \notin accepted
        /\ stage[p] = "reading" /\ (Moves(p, "working") \/ Moves(p, "replying"))
    BY <1>9 DEF Lookup, Goes, Posted, Over
  <2>2. \A d \in Streams : Own(d)' = Own(d)
    <3>1. \A q \in Posts \ {p} : target'[q] = target[q]
      BY <1>0, <1>9 DEF Lookup
    <3> QED
      BY <1>0, <2>1, <3>1 DEF Own
  <2>3. \A d \in Streams : Listening(d)' => Listening(d)
    BY <1>0, <2>1 DEF Moves, Listening, Open
  <2>4. \A d \in Streams : Flow(d)' = Flow(d)
    BY <1>3, <2>1 DEF sessionVars
  <2> QED
    BY <2>2, <2>3, <2>4 DEF Flows, FlowIsOwn
<1>10. ASSUME NEW p \in Posts, Send(p) PROVE Flows'
  <2>0. PICK to \in Streams : to = target[p]
    BY <1>0, <1>10 DEF Send, Posted
  <2>1. /\ stage[p] = "sending" /\ Moves(p, "replying")
        /\ accepted' = accepted \cup {p} /\ p \notin accepted
        /\ UNCHANGED <<target, writing, received>>
    BY <1>0, <1>10 DEF Send, Goes, Posted, Over
  <2>2. \A d \in Streams : Listening(d)' => Listening(d)
    BY <1>0, <2>1 DEF Moves, Listening, Open
  <2>3. /\ Own(to)' = Own(to) \cup {p} /\ p \notin Own(to)
        /\ \A d \in Streams \ {to} : Own(d)' = Own(d)
    BY <1>0, <2>0, <2>1 DEF Own
  <2>4. CASE Listening(to)
    <3>1. channel' = [channel EXCEPT ![to] = Append(channel[to], p)]
      BY <1>10, <2>0, <2>4 DEF Send, Offer
    <3>2. Flow(to)' = Append(Flow(to), p)
      <4>1. (received[to] \o writing[to]) \o Append(channel[to], p) = Append(Flow(to), p)
        BY <1>0, <1>1, <2>1, FlowIsSent DEF Flow
      <4> QED
        BY <1>0, <2>1, <3>1, <4>1 DEF Flow
    <3>3. \A d \in Streams \ {to} : Flow(d)' = Flow(d)
      BY <1>0, <2>1, <3>1 DEF Flow
    <3>4. NoDoubles(Flow(to)) /\ Range(Flow(to)) = Own(to)
      BY <2>1, <2>4 DEF Flows, FlowIsOwn
    <3>5. NoDoubles(Append(Flow(to), p)) /\ Range(Append(Flow(to), p)) = Own(to) \cup {p}
      BY <1>1, <2>1, <2>3, <3>4, OneMore
    <3>6. FlowIsOwn(to)'
      BY <2>3, <3>2, <3>5 DEF FlowIsOwn
    <3>7. \A d \in Streams \ {to} : FlowIsOwn(d)'
      BY <2>2, <2>3, <3>3 DEF Flows, FlowIsOwn
    <3> QED
      BY <3>6, <3>7 DEF Flows
  <2>5. CASE ~Listening(to)
    <3>1. \A d \in Streams : Flow(d)' = Flow(d)
      BY <1>3, <1>10, <2>0, <2>1, <2>5 DEF Send
    <3> QED
      BY <2>1, <2>2, <2>3, <2>5, <3>1 DEF Flows, FlowIsOwn
  <2> QED
    BY <2>4, <2>5
<1>11. CASE Still
  <2>1. \A d \in Streams : Flow(d)' = Flow(d)
    BY <1>3, <1>11 DEF Still, sessionVars
  <2> QED
    BY <1>2, <1>11, <2>1 DEF Still, postVars, Listening
<1> QED
  BY <1>4, <1>5, <1>6, <1>7, <1>8, <1>9, <1>10, <1>11, SessionSteps

LEMMA RecordSteps ==
    ASSUME [Next]_vars
    PROVE  \/ UNCHANGED recordVars
           \/ Tick
           \/ \E c \in Streams : OpenSession(c) \/ RefuseAddress(c)
BY DEF Next, Accept, TurnAway, HandshakeOk, HandshakeFails, HangUp, Refuse, Answer,
       Replied, Cut, RefuseFull, Greet, TakeAnswer, Written, WriteFails, Lookup,
       Direct, Handled, Send, vars

\* A window opens with its first stream and closes when it is over, and the
\* ages of both tables stay in their bounds.
LEMMA RecordTypesStep == RecordTypes /\ [Next]_vars => RecordTypes'
<1> SUFFICES ASSUME RecordTypes, [Next]_vars PROVE RecordTypes'
  OBVIOUS
<1>0. /\ Minute \in Nat \ {0} /\ AddressOf \in [Streams -> Addresses]
      /\ starts \in [Addresses -> [0 .. Minute - 1 -> Nat]]
  BY SessionsAssumption DEF RecordTypes
<1> DEFINE Entry == [age : 0 .. Minute + 1, count : Nat]
<1>1. /\ DOMAIN Remembered \subseteq Addresses
      /\ \A a \in DOMAIN Remembered : Remembered[a] \in Entry
  BY DEF Remembered, Restrict, RecordTypes
<1>2. ASSUME NEW a \in Addresses, Record(a)
      PROVE  /\ DOMAIN onRecord' \subseteq Addresses
             /\ \A b \in DOMAIN onRecord' : onRecord'[b] \in Entry
  <2>1. Recorded(a) \in Entry
    <3>1. CASE a \in DOMAIN Remembered /\ Remembered[a].age <= Minute
      BY <1>1, <3>1 DEF Recorded
    <3>2. CASE ~(a \in DOMAIN Remembered /\ Remembered[a].age <= Minute)
      <4>1. [age |-> 0, count |-> 1] \in Entry
        BY <1>0
      <4> QED
        BY <3>2, <4>1 DEF Recorded
    <3> QED
      BY <3>1, <3>2
  <2> QED
    BY <1>1, <1>2, <2>1 DEF Record
<1>3. ASSUME NEW c \in Streams, OpenSession(c) PROVE RecordTypes'
  <2>1. 0 \in 0 .. Minute - 1 /\ AddressOf[c] \in Addresses
    BY <1>0
  <2>2. Record(AddressOf[c]) /\ starts' = [starts EXCEPT ![AddressOf[c]][0] = @ + 1]
    BY <1>3 DEF OpenSession
  <2>3. starts' \in [Addresses -> [0 .. Minute - 1 -> Nat]]
    <3>1. [starts[AddressOf[c]] EXCEPT ![0] = @ + 1] \in [0 .. Minute - 1 -> Nat]
      BY <1>0, <2>1
    <3> QED
      BY <1>0, <2>1, <2>2, <3>1
  <2> QED
    BY <1>2, <2>1, <2>2, <2>3 DEF RecordTypes
<1>4. ASSUME NEW c \in Streams, RefuseAddress(c) PROVE RecordTypes'
  BY <1>0, <1>2, <1>4 DEF RefuseAddress, RecordTypes
<1>5. CASE Tick
  <2>1. \A e \in Entry : Older(e) \in Entry
    BY <1>0 DEF Older
  <2>2. onRecord' = [a \in DOMAIN onRecord |-> Older(onRecord[a])]
    BY <1>5 DEF Tick
  <2>3. starts' \in [Addresses -> [0 .. Minute - 1 -> Nat]]
    <3>1. \A a \in Addresses : [i \in 0 .. Minute - 1 |-> IF i = 0 THEN 0 ELSE starts[a][i - 1]]
                                 \in [0 .. Minute - 1 -> Nat]
      BY <1>0
    <3> QED
      BY <1>5, <3>1 DEF Tick
  <2> QED
    BY <2>1, <2>2, <2>3 DEF RecordTypes
<1>6. ASSUME UNCHANGED recordVars PROVE RecordTypes'
  BY <1>6 DEF recordVars, RecordTypes
<1> QED
  BY <1>3, <1>4, <1>5, <1>6, RecordSteps

(***************************************************************************)
(* The streams of an address.                                              *)
(***************************************************************************)
Counts == [0 .. Minute - 1 -> Nat]
Moment(f) == [i \in 0 .. Minute - 1 |-> IF i = 0 THEN 0 ELSE f[i - 1]]

LEMMA BegunTyped ==
    ASSUME NEW f \in Counts, NEW k \in 0 .. Minute
    PROVE  Begun(f, k) \in Nat /\ Begun(f, k) <= Begun(f, Minute) /\ Begun(f, 0) = 0
<1>1. Minute \in Nat \ {0}
  BY SessionsAssumption
<1>2. IsFiniteSet(0 .. k - 1) /\ IsFiniteSet(0 .. Minute - 1)
  BY <1>1, FS_Interval
<1>3. 0 .. k - 1 \subseteq 0 .. Minute - 1 /\ 0 .. 0 - 1 = {}
  BY <1>1
<1>4. \A i \in 0 .. Minute - 1 : f[i] \in Nat
  BY DEF Counts
<1>5. SumFunctionOnSet(f, 0 .. k - 1) \in Nat
  BY <1>2, <1>3, <1>4, SumNatural
<1>6. SumFunctionOnSet(f, 0 .. k - 1) <= SumFunctionOnSet(f, 0 .. Minute - 1)
  BY <1>2, <1>3, <1>4, SumOfPart
<1>7. SumFunctionOnSet(f, 0 .. 0 - 1) = 0
  BY <1>3, SumNone
<1> QED
  BY <1>5, <1>6, <1>7 DEF Begun

\* One stream begins now.
LEMMA BegunNow ==
    ASSUME NEW f \in Counts, NEW k \in 1 .. Minute
    PROVE  Begun([f EXCEPT ![0] = @ + 1], k) = Begun(f, k) + 1
<1> DEFINE g == [f EXCEPT ![0] = @ + 1]
<1>1. Minute \in Nat \ {0}
  BY SessionsAssumption
<1>2. IsFiniteSet(0 .. k - 1) /\ 0 \in 0 .. k - 1
  BY <1>1, FS_Interval
<1>3. \A i \in 0 .. k - 1 : f[i] \in Int
  BY <1>1 DEF Counts
<1>4. g[0] = f[0] + 1 /\ \A i \in 0 .. k - 1 \ {0} : g[i] = f[i]
  BY <1>1 DEF Counts
<1> HIDE DEF g
<1>5. SumFunctionOnSet(g, 0 .. k - 1) = SumFunctionOnSet(f, 0 .. k - 1) + 1
  BY <1>2, <1>3, <1>4, SumRaised
<1> QED
  BY <1>5 DEF Begun, g

\* A tick passes.
LEMMA BegunBefore ==
    ASSUME NEW f \in Counts, NEW k \in 0 .. Minute - 1
    PROVE  /\ Moment(f) \in Counts
           /\ Begun(Moment(f), k + 1) = Begun(f, k)
           /\ Begun(Moment(f), Minute) <= Begun(f, Minute)
<1>1. Minute \in Nat \ {0}
  BY SessionsAssumption
<1>2. Moment(f) \in Counts
  <2>1. \A i \in 0 .. Minute - 1 : i # 0 => i - 1 \in 0 .. Minute - 1
    BY <1>1
  <2>2. \A i \in 0 .. Minute - 1 : (IF i = 0 THEN 0 ELSE f[i - 1]) \in Nat
    BY <2>1 DEF Counts
  <2> QED
    BY <2>2 DEF Counts, Moment
<1>3. ASSUME NEW j \in 0 .. Minute - 1
      PROVE  Begun(Moment(f), j + 1) = Begun(f, j)
  <2> DEFINE b == [i \in 0 .. j - 1 |-> i + 1]
             later == {b[i] : i \in 0 .. j - 1}
  <2>1. IsFiniteSet(0 .. j - 1) /\ IsFiniteSet(1 .. j)
    BY FS_Interval
  <2>2. later = 1 .. j
    <3>1. \A i \in 1 .. j : i - 1 \in 0 .. j - 1 /\ b[i - 1] = i
      OBVIOUS
    <3>2. \A i \in 0 .. j - 1 : b[i] \in 1 .. j
      OBVIOUS
    <3> QED
      BY <3>1, <3>2
  <2>3. \A i \in 0 .. j - 1 : f[i] \in Int /\ Moment(f)[b[i]] = f[i]
    BY <1>1 DEF Counts, Moment
  <2>4. \A x, y \in 0 .. j - 1 : b[x] = b[y] => x = y
    OBVIOUS
  <2>5. SumFunctionOnSet(Moment(f), later) = SumFunctionOnSet(f, 0 .. j - 1)
    <3> HIDE DEF b
    <3> QED
      BY <2>1, <2>3, <2>4, SumRenamed
  <2>6. 0 \notin 1 .. j /\ 1 .. j \cup {0} = 0 .. j + 1 - 1
    OBVIOUS
  <2>7. Moment(f)[0] = 0 /\ \A i \in 1 .. j : Moment(f)[i] \in Int
    BY <1>1, <1>2 DEF Moment, Counts
  <2>8. SumFunctionOnSet(Moment(f), 1 .. j \cup {0})
          = 0 + SumFunctionOnSet(Moment(f), 1 .. j)
    <3> DEFINE part == 1 .. j
               m == Moment(f)
    <3>1. /\ IsFiniteSet(part) /\ 0 \notin part /\ m[0] = 0
          /\ \A i \in part : m[i] \in Int
      BY <2>1, <2>6, <2>7
    <3> HIDE DEF part, m
    <3>2. SumFunctionOnSet(m, part \cup {0}) = m[0] + SumFunctionOnSet(m, part)
      BY <3>1, SumWith
    <3>3. SumFunctionOnSet(m, part \cup {0}) = 0 + SumFunctionOnSet(m, part)
      BY <3>1, <3>2, Zenon
    <3> QED
      BY <3>3 DEF part, m
  <2>9. SumFunctionOnSet(Moment(f), 1 .. j) \in Int
    BY <2>1, <2>7, SumTaken
  <2>10. \A n \in Int : 0 + n = n
    OBVIOUS
  <2>11. SumFunctionOnSet(Moment(f), 0 .. j + 1 - 1)
           = SumFunctionOnSet(Moment(f), 1 .. j)
    BY <2>6, <2>8, <2>9, <2>10
  <2>12. SumFunctionOnSet(Moment(f), 1 .. j) = SumFunctionOnSet(f, 0 .. j - 1)
    BY <2>2, <2>5
  <2> QED
    BY <2>11, <2>12 DEF Begun
<1>4. Begun(Moment(f), Minute) <= Begun(f, Minute)
  <2>1. Minute - 1 \in 0 .. Minute - 1 /\ Minute - 1 + 1 = Minute /\ Minute - 1 \in 0 .. Minute
    BY <1>1
  <2>2. Begun(Moment(f), Minute) = Begun(f, Minute - 1)
    BY <1>3, <2>1
  <2> QED
    BY <2>1, <2>2, BegunTyped
<1> QED
  BY <1>2, <1>3, <1>4

\* A window that is over stands for fewer streams than an address may begin.
LEMMA OverIsSpent ==
    ASSUME NEW f \in Counts, NEW e \in [age : 0 .. Minute + 1, count : Nat],
           Fits(f, e), e.age >= Minute
    PROVE  Spent(f)
<1>1. PerAddress \in Nat \ {0} /\ Minute \in Nat \ {0}
  BY SessionsAssumption
<1>2. Begun(f, Minute) \in Nat /\ Begun(f, Minute) <= LetIn(e.count) - 1
  BY <1>1, BegunTyped DEF Fits
<1> QED
  BY <1>1, <1>2 DEF Spent, LetIn

LEMMA FitsTwice ==
    ASSUME NEW f \in Counts, NEW e \in [age : 0 .. Minute + 1, count : Nat],
           Fits(f, e)
    PROVE  Begun(f, Minute) <= 2 * PerAddress - 1
<1>1. PerAddress \in Nat \ {0} /\ Minute \in Nat \ {0}
  BY SessionsAssumption
<1>2. Begun(f, Minute) \in Nat /\ Begun(f, Minute) <= PerAddress - 1 + LetIn(e.count)
  BY <1>1, BegunTyped DEF Fits, LetIn
<1> QED
  BY <1>1, <1>2 DEF LetIn

\* The first stream of a window, one more in it, one that is refused, a tick.
LEMMA FitsFirst ==
    ASSUME NEW f \in Counts, Spent(f)
    PROVE  Fits([f EXCEPT ![0] = @ + 1], [age |-> 0, count |-> 1])
<1> DEFINE g == [f EXCEPT ![0] = @ + 1]
           e == [age |-> 0, count |-> 1]
<1>1. PerAddress \in Nat \ {0} /\ Minute \in Nat \ {0}
  BY SessionsAssumption
<1>2. g \in Counts
  BY <1>1 DEF Counts
<1>3. Begun(g, Minute) = Begun(f, Minute) + 1 /\ Begun(f, Minute) \in Nat
  BY <1>1, BegunNow, BegunTyped
<1>4. Begun(g, 0) = 0
  BY <1>1, <1>2, BegunTyped
<1> HIDE DEF g
<1>5. e.age = 0 /\ e.count = 1
  OBVIOUS
<1> HIDE DEF e
<1>6. LetIn(e.count) = 1
  BY <1>1, <1>5 DEF LetIn
<1>7. Fits(g, e)
  BY <1>1, <1>3, <1>4, <1>5, <1>6 DEF Fits, Spent
<1> QED
  BY <1>7 DEF g, e

LEMMA FitsNext ==
    ASSUME NEW f \in Counts, NEW e \in [age : 0 .. Minute + 1, count : Nat],
           Fits(f, e), e.count + 1 <= PerAddress
    PROVE  Fits([f EXCEPT ![0] = @ + 1], [e EXCEPT !.count = @ + 1])
<1> DEFINE g == [f EXCEPT ![0] = @ + 1]
           d == [e EXCEPT !.count = @ + 1]
<1>1. PerAddress \in Nat \ {0} /\ Minute \in Nat \ {0}
  BY SessionsAssumption
<1>2. g \in Counts
  BY <1>1 DEF Counts
<1>3. Begun(g, Minute) = Begun(f, Minute) + 1 /\ Begun(f, Minute) \in Nat
  BY <1>1, BegunNow, BegunTyped
<1>4. ASSUME e.age < Minute
      PROVE  Begun(g, e.age) <= Begun(f, e.age) + 1 /\ Begun(f, e.age) \in Nat
  <2>1. e.age \in 0 .. Minute
    BY <1>1, <1>4
  <2>2. Begun(f, e.age) \in Nat /\ Begun(g, 0) = 0
    BY <1>2, <2>1, BegunTyped
  <2>3. CASE e.age = 0
    BY <2>2, <2>3
  <2>4. CASE e.age # 0
    BY <2>1, <2>2, <2>4, BegunNow
  <2> QED
    BY <2>3, <2>4
<1>5. d.age = e.age /\ d.count = e.count + 1 /\ e.count \in Nat /\ e.age \in Nat
  OBVIOUS
<1> HIDE DEF g, d
<1>6. LetIn(d.count) = e.count + 1 /\ LetIn(e.count) = e.count
  BY <1>1, <1>5 DEF LetIn
<1>7. e.count >= 1
  BY DEF Fits
<1>8. Fits(g, d)
  <2>1. CASE e.age < Minute
    <3>1. /\ Begun(f, e.age) <= e.count - 1
          /\ Begun(f, Minute) <= PerAddress - 1 + e.count
      BY <1>6, <2>1 DEF Fits
    <3>2. Begun(g, e.age) \in Nat
      BY <1>1, <1>2, <1>5, <2>1, BegunTyped
    <3>3. /\ Begun(g, e.age) <= e.count + 1 - 1
          /\ Begun(g, Minute) <= PerAddress - 1 + (e.count + 1)
      BY <1>1, <1>3, <1>4, <1>5, <2>1, <3>1, <3>2
    <3> QED
      BY <1>5, <1>6, <1>7, <2>1, <3>3 DEF Fits
  <2>2. CASE ~(e.age < Minute)
    <3>1. Begun(f, Minute) <= e.count - 1
      BY <1>6, <2>2 DEF Fits
    <3>2. Begun(g, Minute) <= e.count + 1 - 1
      BY <1>3, <1>5, <3>1
    <3> QED
      BY <1>5, <1>6, <1>7, <2>2, <3>2 DEF Fits
  <2> QED
    BY <2>1, <2>2
<1> QED
  BY <1>8 DEF g, d

LEMMA FitsRefused ==
    ASSUME NEW f \in Counts, NEW e \in [age : 0 .. Minute + 1, count : Nat], Fits(f, e)
    PROVE  Fits(f, [e EXCEPT !.count = @ + 1])
<1> DEFINE d == [e EXCEPT !.count = @ + 1]
<1>1. PerAddress \in Nat \ {0} /\ Minute \in Nat \ {0}
  BY SessionsAssumption
<1>2. d.age = e.age /\ d.count = e.count + 1 /\ e.count \in Nat /\ e.age \in Nat
  OBVIOUS
<1> HIDE DEF d
<1>3. /\ LetIn(e.count) <= LetIn(d.count)
      /\ LetIn(e.count) \in Nat /\ LetIn(d.count) \in Nat
  BY <1>1, <1>2 DEF LetIn
<1>4. Begun(f, Minute) \in Nat
  BY <1>1, BegunTyped
<1>5. Fits(f, d)
  <2>1. CASE e.age < Minute
    <3>1. Begun(f, e.age) \in Nat
      BY <1>1, <1>2, <2>1, BegunTyped
    <3>2. /\ e.count >= 1 /\ Begun(f, e.age) <= LetIn(e.count) - 1
          /\ Begun(f, Minute) <= PerAddress - 1 + LetIn(e.count)
      BY <2>1 DEF Fits
    <3>3. /\ d.count >= 1 /\ Begun(f, e.age) <= LetIn(d.count) - 1
          /\ Begun(f, Minute) <= PerAddress - 1 + LetIn(d.count)
      BY <1>1, <1>2, <1>3, <1>4, <3>1, <3>2
    <3> QED
      BY <1>2, <2>1, <3>3 DEF Fits
  <2>2. CASE ~(e.age < Minute)
    <3>1. e.count >= 1 /\ Begun(f, Minute) <= LetIn(e.count) - 1
      BY <2>2 DEF Fits
    <3>2. d.count >= 1 /\ Begun(f, Minute) <= LetIn(d.count) - 1
      BY <1>2, <1>3, <1>4, <3>1
    <3> QED
      BY <1>2, <2>2, <3>2 DEF Fits
  <2> QED
    BY <2>1, <2>2
<1> QED
  BY <1>5 DEF d

LEMMA FitsOlder ==
    ASSUME NEW f \in Counts, NEW e \in [age : 0 .. Minute + 1, count : Nat], Fits(f, e)
    PROVE  Fits(Moment(f), Older(e))
<1> DEFINE g == Moment(f)
           d == Older(e)
<1>1. PerAddress \in Nat \ {0} /\ Minute \in Nat \ {0}
  BY SessionsAssumption
<1>2. d.age = (IF e.age > Minute THEN e.age ELSE e.age + 1) /\ d.count = e.count
  BY DEF Older
<1>3. e.count \in Nat /\ e.age \in Nat
  OBVIOUS
<1>4. Begun(g, Minute) <= Begun(f, Minute) /\ g \in Counts
  <2>1. 0 \in 0 .. Minute - 1
    BY <1>1
  <2> QED
    BY <2>1, BegunBefore
<1>5. Begun(f, Minute) \in Nat /\ Begun(g, Minute) \in Nat
  BY <1>1, <1>4, BegunTyped
<1>6. ASSUME e.age < Minute
      PROVE  Begun(g, e.age + 1) = Begun(f, e.age) /\ Begun(f, e.age) \in Nat
  <2>1. e.age \in 0 .. Minute - 1 /\ e.age \in 0 .. Minute
    BY <1>1, <1>3, <1>6
  <2> QED
    BY <2>1, BegunBefore, BegunTyped
<1> HIDE DEF g, d
<1>7. LetIn(d.count) = LetIn(e.count) /\ LetIn(e.count) \in Nat /\ e.count >= 1
  BY <1>1, <1>2, <1>3 DEF LetIn, Fits
<1>8. Fits(g, d)
  <2>1. CASE e.age < Minute
    <3>1. /\ Begun(f, e.age) <= LetIn(e.count) - 1
          /\ Begun(f, Minute) <= PerAddress - 1 + LetIn(e.count)
          /\ d.age = e.age + 1
      BY <1>1, <1>2, <1>3, <2>1 DEF Fits
    <3>2. /\ Begun(g, d.age) <= LetIn(d.count) - 1
          /\ Begun(g, Minute) <= PerAddress - 1 + LetIn(d.count)
      BY <1>1, <1>4, <1>5, <1>6, <1>7, <2>1, <3>1
    <3>3. CASE d.age < Minute
      BY <1>2, <1>7, <3>2, <3>3 DEF Fits
    <3>4. CASE ~(d.age < Minute)
      <4>1. d.age = Minute
        BY <1>1, <1>3, <2>1, <3>1, <3>4
      <4> QED
        BY <1>2, <1>7, <3>2, <3>4, <4>1 DEF Fits
    <3> QED
      BY <3>3, <3>4
  <2>2. CASE ~(e.age < Minute)
    <3>1. ~(d.age < Minute) /\ Begun(f, Minute) <= LetIn(e.count) - 1
      BY <1>1, <1>2, <1>3, <2>2 DEF Fits
    <3>2. Begun(g, Minute) <= LetIn(d.count) - 1
      BY <1>4, <1>5, <1>7, <3>1
    <3> QED
      BY <1>2, <1>7, <3>1, <3>2 DEF Fits
  <2> QED
    BY <2>1, <2>2
<1> QED
  BY <1>8 DEF g, d

LEMMA WindowsStep == RecordTypes /\ Windows /\ [Next]_vars => Windows'
<1> SUFFICES ASSUME RecordTypes, Windows, [Next]_vars PROVE Windows'
  OBVIOUS
<1>0. /\ PerAddress \in Nat \ {0} /\ Minute \in Nat \ {0}
      /\ AddressOf \in [Streams -> Addresses]
      /\ starts \in [Addresses -> Counts] /\ DOMAIN onRecord \subseteq Addresses
  BY SessionsAssumption DEF RecordTypes, Counts
<1> DEFINE Entry == [age : 0 .. Minute + 1, count : Nat]
           Kept(r) == /\ DOMAIN r \subseteq Addresses
                      /\ \A a \in DOMAIN r : r[a] \in Entry /\ Fits(starts[a], r[a])
                      /\ \A a \in Addresses \ DOMAIN r : Spent(starts[a])
\* What an eviction removes are windows that are over.
<1>1. Kept(Remembered)
  <2>1. Kept(onRecord)
    BY <1>0 DEF RecordTypes, Windows
  <2>2. CASE Remembered = onRecord
    BY <2>1, <2>2
  <2>3. CASE Remembered = Restrict(onRecord, {a \in DOMAIN onRecord : onRecord[a].age < Minute})
    <3>1. /\ DOMAIN Remembered = {a \in DOMAIN onRecord : onRecord[a].age < Minute}
          /\ \A a \in DOMAIN Remembered : Remembered[a] = onRecord[a]
      BY <2>3 DEF Restrict
    <3>2. ASSUME NEW a \in Addresses, a \notin DOMAIN Remembered PROVE Spent(starts[a])
      <4>1. CASE a \notin DOMAIN onRecord
        BY <2>1, <4>1
      <4>2. CASE a \in DOMAIN onRecord
        <5>1. onRecord[a].age >= Minute /\ onRecord[a] \in Entry /\ starts[a] \in Counts
          BY <1>0, <2>1, <3>1, <3>2, <4>2
        <5> QED
          BY <2>1, <4>2, <5>1, OverIsSpent
      <4> QED
        BY <4>1, <4>2
    <3> QED
      BY <2>1, <3>1, <3>2
  <2> QED
    BY <2>2, <2>3 DEF Remembered
<1>2. ASSUME NEW a \in Addresses
      PROVE  \/ /\ a \in DOMAIN Remembered
                /\ Recorded(a) = [Remembered[a] EXCEPT !.count = @ + 1]
             \/ /\ Recorded(a) = [age |-> 0, count |-> 1]
                /\ Spent(starts[a])
  <2>1. CASE a \in DOMAIN Remembered /\ Remembered[a].age <= Minute
    BY <2>1 DEF Recorded
  <2>2. CASE a \in DOMAIN Remembered /\ ~(Remembered[a].age <= Minute)
    <3>1. Remembered[a] \in Entry /\ Fits(starts[a], Remembered[a]) /\ starts[a] \in Counts
      BY <1>0, <1>1, <2>2
    <3>2. Remembered[a].age >= Minute
      BY <1>0, <2>2, <3>1
    <3>3. Spent(starts[a])
      BY <3>1, <3>2, OverIsSpent
    <3> QED
      BY <2>2, <3>3 DEF Recorded
  <2>3. CASE a \notin DOMAIN Remembered
    BY <1>1, <2>3 DEF Recorded
  <2> QED
    BY <2>1, <2>2, <2>3
<1>3. ASSUME NEW a \in Addresses, Record(a), Fits(starts'[a], Recorded(a)),
             \A b \in Addresses \ {a} : starts'[b] = starts[b]
      PROVE  Windows'
  <2>1. /\ DOMAIN onRecord' = DOMAIN Remembered \cup {a}
        /\ onRecord'[a] = Recorded(a)
        /\ \A b \in DOMAIN Remembered \ {a} : onRecord'[b] = Remembered[b]
    BY <1>3 DEF Record
  <2> SUFFICES ASSUME NEW b \in Addresses
               PROVE  IF b \in DOMAIN onRecord' THEN Fits(starts'[b], onRecord'[b])
                                                ELSE Spent(starts'[b])
    BY DEF Windows
  <2>2. CASE b = a
    BY <1>3, <2>1, <2>2
  <2>3. CASE b # a
    <3>1. starts'[b] = starts[b]
      BY <1>3, <2>3
    <3>2. CASE b \in DOMAIN Remembered
      BY <1>1, <2>1, <2>3, <3>1, <3>2
    <3>3. CASE b \notin DOMAIN Remembered
      BY <1>1, <2>1, <2>3, <3>1, <3>3
    <3> QED
      BY <3>2, <3>3
  <2> QED
    BY <2>2, <2>3
<1>4. ASSUME NEW c \in Streams, OpenSession(c) PROVE Windows'
  <2> DEFINE a == AddressOf[c]
             f == starts[AddressOf[c]]
  <2>1. /\ Record(a) /\ Recorded(a).count <= PerAddress
        /\ starts' = [starts EXCEPT ![a][0] = @ + 1]
    BY <1>4 DEF OpenSession
  <2>2. a \in Addresses /\ f \in Counts
    BY <1>0
  <2>3. starts'[a] = [f EXCEPT ![0] = @ + 1]
    BY <1>0, <2>1, <2>2
  <2>4. \A b \in Addresses \ {a} : starts'[b] = starts[b]
    BY <1>0, <2>1
  <2>5. Fits(starts'[a], Recorded(a))
    <3>1. CASE /\ a \in DOMAIN Remembered
               /\ Recorded(a) = [Remembered[a] EXCEPT !.count = @ + 1]
      <4>1. Remembered[a] \in Entry /\ Fits(f, Remembered[a])
        BY <1>1, <3>1
      <4>2. Remembered[a].count + 1 <= PerAddress
        BY <2>1, <3>1, <4>1
      <4>3. Fits([f EXCEPT ![0] = @ + 1], [Remembered[a] EXCEPT !.count = @ + 1])
        BY <2>2, <4>1, <4>2, FitsNext
      <4> QED
        BY <2>3, <3>1, <4>3
    <3>2. CASE Recorded(a) = [age |-> 0, count |-> 1] /\ Spent(f)
      <4>1. Fits([f EXCEPT ![0] = @ + 1], [age |-> 0, count |-> 1])
        BY <2>2, <3>2, FitsFirst
      <4> QED
        BY <2>3, <3>2, <4>1
    <3> QED
      BY <1>2, <2>2, <3>1, <3>2
  <2> HIDE DEF a
  <2> QED
    BY <1>3, <2>1, <2>2, <2>4, <2>5
<1>5. ASSUME NEW c \in Streams, RefuseAddress(c) PROVE Windows'
  <2> DEFINE a == AddressOf[c]
  <2>1. Record(a) /\ Recorded(a).count > PerAddress /\ starts' = starts
    BY <1>5 DEF RefuseAddress
  <2>2. a \in Addresses /\ starts[a] \in Counts
    BY <1>0
  <2>3. Recorded(a) # [age |-> 0, count |-> 1]
    BY <1>0, <2>1
  <2>4. /\ a \in DOMAIN Remembered
        /\ Recorded(a) = [Remembered[a] EXCEPT !.count = @ + 1]
    BY <1>2, <2>2, <2>3
  <2>5. Remembered[a] \in Entry /\ Fits(starts[a], Remembered[a])
    BY <1>1, <2>4
  <2>6. Fits(starts[a], [Remembered[a] EXCEPT !.count = @ + 1])
    BY <2>2, <2>5, FitsRefused
  <2>7. Fits(starts'[a], Recorded(a))
    BY <2>1, <2>4, <2>6
  <2> HIDE DEF a
  <2> QED
    BY <1>3, <2>1, <2>2, <2>7
<1>6. CASE Tick
  <2>1. /\ onRecord' = [a \in DOMAIN onRecord |-> Older(onRecord[a])]
        /\ \A a \in Addresses : starts'[a] = Moment(starts[a])
    BY <1>6 DEF Tick, Moment
  <2> SUFFICES ASSUME NEW a \in Addresses
               PROVE  IF a \in DOMAIN onRecord' THEN Fits(starts'[a], onRecord'[a])
                                                ELSE Spent(starts'[a])
    BY DEF Windows
  <2>2. starts[a] \in Counts /\ DOMAIN onRecord' = DOMAIN onRecord
    BY <1>0, <2>1
  <2>3. CASE a \in DOMAIN onRecord
    <3>1. onRecord[a] \in Entry /\ Fits(starts[a], onRecord[a])
      BY <2>3 DEF RecordTypes, Windows
    <3>2. Fits(Moment(starts[a]), Older(onRecord[a]))
      BY <2>2, <3>1, FitsOlder
    <3> QED
      BY <2>1, <2>2, <2>3, <3>2
  <2>4. CASE a \notin DOMAIN onRecord
    <3>1. Begun(starts[a], Minute) <= PerAddress - 1
      BY <2>4 DEF Windows, Spent
    <3>2. 0 \in 0 .. Minute - 1 /\ Minute \in 0 .. Minute
      BY <1>0
    <3>3. Begun(Moment(starts[a]), Minute) <= Begun(starts[a], Minute)
      BY <2>2, <3>2, BegunBefore
    <3>4. Begun(starts[a], Minute) \in Nat /\ Begun(Moment(starts[a]), Minute) \in Nat
      BY <2>2, <3>2, BegunBefore, BegunTyped
    <3>5. Begun(Moment(starts[a]), Minute) <= PerAddress - 1
      BY <1>0, <3>1, <3>3, <3>4
    <3> QED
      BY <2>1, <2>2, <2>4, <3>5 DEF Spent
  <2> QED
    BY <2>3, <2>4
<1>7. ASSUME UNCHANGED recordVars PROVE Windows'
  BY <1>7 DEF recordVars, Windows
<1> QED
  BY <1>4, <1>5, <1>6, <1>7, RecordSteps

LEMMA Initially == Init => IInv
<1> SUFFICES ASSUME Init PROVE IInv
  OBVIOUS
<1> USE SessionsAssumption
<1>1. PICK crowd \in Crowds :
        /\ permits = [all |-> crowd.permits, free |-> crowd.permits]
        /\ stage = [c \in Conns |-> IF c \in crowd.who THEN "new" ELSE "absent"]
  BY DEF Init
<1>2. crowd.permits \in Nat /\ Streams \subseteq Conns
  BY DEF Conns
<1>3. Types
  BY <1>1, <1>2 DEF Init, Types, Places
<1>4. RecordTypes
  BY DEF Init, RecordTypes
<1>5. <<>> \in Seq(Posts) /\ Len(<<>>) = 0
  BY EmptySeq
<1>6. FlowTypes
  BY <1>5 DEF Init, FlowTypes
<1>7. Counted
  <2>1. Holders = {}
    BY <1>1 DEF Holders, Live, Timed, Open
  <2> QED
    BY <1>1, <1>2, <2>1, FS_EmptySet DEF Counted
<1>8. \A c \in Conns : ~Listening(c)
  BY <1>1 DEF Listening, Open
<1>9. Table
  BY <1>2, <1>8, FS_EmptySet DEF Init, Table
<1>10. Posted
  BY <1>1 DEF Init, Posted, Conns
<1>11. Flows
  <2> SUFFICES ASSUME NEW c \in Streams PROVE FlowIsOwn(c)
    BY DEF Flows
  <2>1. Flow(c) = <<>>
    BY <1>5, ConcatEmptySeq DEF Init, Flow
  <2>2. ASSUME NEW e \in Seq(Posts), Len(e) = 0 PROVE Range(e) = {} /\ NoDoubles(e)
    <3>1. Range(e) = {e[i] : i \in 1 .. Len(e)}
      BY RangeEquality
    <3> QED
      BY <2>2, <3>1 DEF NoDoubles
  <2>3. Own(c) = {}
    BY DEF Init, Own
  <2> QED
    BY <1>2, <1>5, <1>8, <2>1, <2>2, <2>3 DEF FlowIsOwn
<1>12. Windows
  <2>1. starts \in [Addresses -> Counts] /\ DOMAIN onRecord = {}
    BY DEF Init, Counts
  <2> SUFFICES ASSUME NEW a \in Addresses PROVE Begun(starts[a], Minute) <= PerAddress - 1
    BY <2>1 DEF Windows, Spent
  <2>2. IsFiniteSet(0 .. Minute - 1) /\ \A i \in 0 .. Minute - 1 : starts[a][i] = 0
    BY FS_Interval DEF Init
  <2>3. SumFunctionOnSet(starts[a], 0 .. Minute - 1) = 0
    BY <2>2, SumZero
  <2> QED
    BY <2>3 DEF Begun
<1> QED
  BY <1>3, <1>4, <1>6, <1>7, <1>9, <1>10, <1>11, <1>12 DEF IInv

LEMMA Invariance == Spec => []IInv
<1>1. IInv /\ [Next]_vars => IInv'
  BY TypesStep, RecordTypesStep, FlowTypesStep, CountedStep, TableStep, PostedStep,
     FlowsStep, WindowsStep DEF IInv
<1> QED
  BY <1>1, Initially, PTL DEF Spec

\* Whatever connections come, hang up, time out or fail to be written to, and
\* in which order: the permits are those that no task holds, and an entry of
\* the table outlives its stream only if the limit of its life ended it.
THEOREM TableFollows == Spec => []SessionsFollowStreams
<1>1. IInv => SessionsFollowStreams
  BY DEF IInv, Types, RecordTypes, FlowTypes, Counted, Table, Holders, Places,
         TypeOK, SessionsFollowStreams
<1> QED
  BY <1>1, Invariance, PTL

\* However full a channel was, and whatever ends a stream: until then each
\* answer whose post was told 202 is with it once, or on the way.
THEOREM AnswersArrive == Spec => []AnswersReachTheirStream
<1>1. IInv => AnswersReachTheirStream
  <2> SUFFICES ASSUME IInv, NEW c \in Streams
               PROVE  /\ Cardinality(Range(Flow(c))) = Len(Flow(c))
                      /\ Range(Flow(c)) \subseteq Own(c)
                      /\ Listening(c) => Own(c) \subseteq Range(Flow(c))
    BY DEF AnswersReachTheirStream, Flow, Own
  <2>1. FlowIsOwn(c)
    BY DEF IInv, Flows
  <2>2. Flow(c) \in Seq(Posts)
    BY ConcatProperties DEF IInv, FlowTypes, Flow
  <2> QED
    BY <2>1, <2>2, DoublesCounted DEF FlowIsOwn
<1> QED
  BY <1>1, Invariance, PTL

\* However the streams of an address come, are refused and end, and whatever
\* the evictions remove: no more begin within a minute than two windows admit
\* that meet.
THEOREM StartsHold == Spec => []StartsBounded
<1>1. IInv => StartsBounded
  <2> SUFFICES ASSUME IInv, NEW a \in Addresses
               PROVE  SumFunctionOnSet(starts[a], DOMAIN starts[a]) <= 2 * PerAddress - 1
    BY DEF StartsBounded, SumFunction
  <2>1. PerAddress \in Nat \ {0} /\ Minute \in Nat \ {0}
    BY SessionsAssumption
  <2>2. starts[a] \in Counts /\ DOMAIN starts[a] = 0 .. Minute - 1
    BY DEF IInv, RecordTypes, Counts
  <2>3. Begun(starts[a], Minute) <= 2 * PerAddress - 1
    <3>1. CASE a \in DOMAIN onRecord
      <4>1. /\ onRecord[a] \in [age : 0 .. Minute + 1, count : Nat]
            /\ Fits(starts[a], onRecord[a])
        BY <3>1 DEF IInv, RecordTypes, Windows
      <4> QED
        BY <2>2, <4>1, FitsTwice
    <3>2. CASE a \notin DOMAIN onRecord
      <4>1. Spent(starts[a])
        BY <3>2 DEF IInv, Windows
      <4>2. Begun(starts[a], Minute) \in Nat
        BY <2>1, <2>2, BegunTyped
      <4> QED
        BY <2>1, <4>1, <4>2 DEF Spent
    <3> QED
      BY <3>1, <3>2
  <2> QED
    BY <2>2, <2>3 DEF Begun
<1> QED
  BY <1>1, Invariance, PTL

===============================================================================
