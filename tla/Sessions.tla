------------------------------- MODULE Sessions -------------------------------
(***************************************************************************)
(* The connections of the HTTP/SSE transport (src/src/http_server.rs): one *)
(* task for each, which holds a permit of the semaphore while it lives; a  *)
(* GET of /sse opens a session, a POST names one and has its answer sent   *)
(* there over a bounded channel.                                           *)
(*                                                                         *)
(* A connection is one of Streams, if what it asks for is an event stream, *)
(* or of Posts.  Why a request is refused, and all that is answered on its *)
(* own connection without touching sessions (dashboard, health, approvals: *)
(* for these see Vault), comes down to a response that is written.         *)
(*                                                                         *)
(* A write waits for as long as the client does not read.  What ends it is *)
(* the client or the limit of 3600 s, which drops the task's future where  *)
(* it stands and covers all but the TLS handshake.  Every section between  *)
(* two awaits is one step.  X_Y is X with the bug Y (see Vault).           *)
(***************************************************************************)
EXTENDS Integers, Sequences, FiniteSets, Functions

CONSTANTS Streams,       \* connections that GET /sse
          Posts,         \* connections that POST a message
          Crowds,        \* which connections may come, to how many permits
          Addresses,
          AddressOf,     \* AddressOf[c]: the address stream c comes from
          MaxSessions,   \* MAX_SSE_SESSIONS
          Capacity,      \* of a session's channel
          PerAddress,    \* streams of one address in a window
          Minute,        \* that window, in ticks
          Crowded,       \* addresses on record before old ones are evicted
          Life           \* the limit of a connection, in ticks

Conns == Streams \cup Posts
Nobody == "nobody"

ASSUME SessionsAssumption ==
    /\ Streams \cap Posts = {} /\ Nobody \notin Streams
    /\ Crowds \subseteq [who : SUBSET Conns, permits : Nat]
    /\ AddressOf \in [Streams -> Addresses]
    /\ MaxSessions \in Nat /\ Crowded \in Nat
    /\ Capacity \in Nat \ {0} /\ PerAddress \in Nat \ {0}
    /\ Minute \in Nat \ {0} /\ Life \in Nat \ {0}

VARIABLES stage,       \* stage[c]: where the task of connection c stands
          life,        \* life[c]: what is left to it of its 3600 s
          permits,     \* of the semaphore: all (max_conns), and free ones
          sessions,    \* SseState::sessions: streams with an entry
          onRecord,    \* SseState::ip_connections: ages and counts
          channel,     \* channel[c]: what posts have sent to stream c
          writing,     \* writing[c]: the answer that is being written to c
          target,      \* target[p]: the stream whose session post p named
          \* History variables.
          received,    \* received[c]: the answers written to stream c
          accepted,    \* posts with an answer that were told 202
          starts       \* starts[a][i]: streams of a begun i ticks ago

taskVars == <<stage, life, permits>>
sessionVars == <<sessions, channel, writing, received>>
recordVars == <<onRecord, starts>>
postVars == <<target, accepted>>
vars == <<taskVars, sessionVars, recordVars, postVars>>

Open == {"greeting", "serving"}
Timed == Open \cup {"reading", "working", "sending", "replying"}
Live == Timed \cup {"handshake"}
Over == {"over", "cut"}

Listening(c) == stage[c] \in Open

\* The table of sessions, the channels and the connections keep to their
\* limits: the permits are those that no task holds.
TypeOK ==
    /\ stage \in [Conns -> Live \cup Over \cup {"absent", "new"}]
    /\ life \in [Conns -> 0 .. Life]
    /\ permits \in [all : Nat, free : Nat]
    /\ permits.free = permits.all - Cardinality({c \in Conns : stage[c] \in Live})
    /\ sessions \subseteq Streams /\ Cardinality(sessions) <= MaxSessions
    /\ DOMAIN onRecord \subseteq Addresses
    /\ \A a \in DOMAIN onRecord :
          onRecord[a] \in [age : 0 .. Minute + 1, count : Nat]
    /\ channel \in [Streams -> Seq(Posts)] /\ writing \in [Streams -> Seq(Posts)]
    /\ \A c \in Streams : Len(channel[c]) <= Capacity /\ Len(writing[c]) <= 1
    /\ target \in [Posts -> Streams \cup {Nobody}]
    /\ received \in [Streams -> Seq(Posts)]
    /\ accepted \subseteq Posts
    /\ starts \in [Addresses -> [0 .. Minute - 1 -> Nat]]

Init ==
    /\ \E crowd \in Crowds :
          /\ permits = [all |-> crowd.permits, free |-> crowd.permits]
          /\ stage = [c \in Conns |->
                        IF c \in crowd.who THEN "new" ELSE "absent"]
    /\ life = [c \in Conns |-> 0]
    /\ sessions = {} /\ onRecord = <<>>
    /\ channel = [c \in Streams |-> <<>>]
    /\ writing = [c \in Streams |-> <<>>]
    /\ target = [p \in Posts |-> Nobody]
    /\ received = [c \in Streams |-> <<>>]
    /\ accepted = {}
    /\ starts = [a \in Addresses |-> [i \in 0 .. Minute - 1 |-> 0]]

Moves(c, place) == stage' = [stage EXCEPT ![c] = place]
Goes(c, place) == Moves(c, place) /\ UNCHANGED <<life, permits>>

\* The task ends and gives its permit back.
Ends(c, place) ==
    /\ Moves(c, place)
    /\ permits' = [permits EXCEPT !.free = @ + 1]
    /\ life' = [life EXCEPT ![c] = 0]

(***************************************************************************)
(* The accept loop.                                                        *)
(***************************************************************************)
Accept(c) ==
    /\ stage[c] = "new"
    /\ permits.free > 0
    /\ permits' = [permits EXCEPT !.free = @ - 1]
    /\ Moves(c, "handshake")
    /\ UNCHANGED <<life, sessionVars, recordVars, postVars>>

\* There is no permit; or there is, and the address has had its 60
\* connections in a minute, which the library counts.
TurnAway(c) ==
    /\ stage[c] = "new"
    /\ Goes(c, "over")
    /\ UNCHANGED <<sessionVars, recordVars, postVars>>

\* Nothing limits the handshake.  Without TLS there is none.
HandshakeOk(c) ==
    /\ stage[c] = "handshake"
    /\ Moves(c, "reading")
    /\ life' = [life EXCEPT ![c] = Life]
    /\ UNCHANGED <<permits, sessionVars, recordVars, postVars>>

HandshakeFails(c) ==
    /\ stage[c] = "handshake"
    /\ Ends(c, "over")
    /\ UNCHANGED <<sessionVars, recordVars, postVars>>

(***************************************************************************)
(* The request is read, checked and answered, or the client is gone.       *)
(***************************************************************************)
HangUp(c) ==
    /\ stage[c] \in {"reading", "replying"}
    /\ Ends(c, "over")
    /\ UNCHANGED <<sessionVars, recordVars, postVars>>

\* The head is too long (431), malformed (400), of a stranger (401), or
\* announces too long a body (413); or the body is not there in 30 s (408).
Refuse(c) ==
    /\ stage[c] = "reading"
    /\ Goes(c, "replying")
    /\ UNCHANGED <<sessionVars, recordVars, postVars>>

\* Whatever has no await before its response: dashboard, health, the list of
\* pending approvals and the decisions on them, and what is not found.
Answer(c) == Refuse(c)

Replied(c) ==
    /\ stage[c] = "replying"
    /\ Ends(c, "over")
    /\ UNCHANGED <<sessionVars, recordVars, postVars>>

(***************************************************************************)
(* GET /sse, under the lock of the table: the limit of sessions, then      *)
(* check_and_record_sse_ip, then the entry.                                *)
(***************************************************************************)
Full == Cardinality(sessions) >= MaxSessions

Remembered_Clears ==
    IF Cardinality(DOMAIN onRecord) > Crowded THEN <<>> ELSE onRecord

\* A table that has grown loses the entries whose window is over.
Remembered ==
    IF Cardinality(DOMAIN onRecord) > Crowded
    THEN Restrict(onRecord, {a \in DOMAIN onRecord : onRecord[a].age < Minute})
    ELSE onRecord

\* The window starts with its first stream, and refused ones count.
Recorded(a) ==
    IF a \in DOMAIN Remembered /\ Remembered[a].age <= Minute
    THEN [Remembered[a] EXCEPT !.count = @ + 1]
    ELSE [age |-> 0, count |-> 1]

Record(a) ==
    onRecord' = [b \in DOMAIN Remembered \cup {a} |->
                    IF b = a THEN Recorded(a) ELSE Remembered[b]]

OpenSession(c) ==
    /\ stage[c] = "reading"
    /\ ~Full
    /\ LET a == AddressOf[c]
       IN  /\ Record(a)
           /\ Recorded(a).count <= PerAddress
           /\ starts' = [starts EXCEPT ![a][0] = @ + 1]
    /\ sessions' = sessions \cup {c}
    /\ Goes(c, "greeting")
    /\ UNCHANGED <<channel, writing, received, postVars>>

RefuseFull(c) ==
    /\ stage[c] = "reading"
    /\ Full
    /\ Goes(c, "replying")
    /\ UNCHANGED <<sessionVars, recordVars, postVars>>

RefuseAddress(c) ==
    /\ stage[c] = "reading"
    /\ ~Full
    /\ Record(AddressOf[c])
    /\ Recorded(AddressOf[c]).count > PerAddress
    /\ Goes(c, "replying")
    /\ UNCHANGED <<sessionVars, starts, postVars>>

(***************************************************************************)
(* The stream: header and endpoint event, then the select loop.  A ping    *)
(* that waits for the client is a loop that does not take its next step.   *)
(***************************************************************************)
Greet(c) ==
    /\ stage[c] = "greeting"
    /\ Goes(c, "serving")
    /\ UNCHANGED <<sessionVars, recordVars, postVars>>

TakeAnswer(c) ==
    /\ stage[c] = "serving"
    /\ writing[c] = <<>>
    /\ channel[c] # <<>>
    /\ writing' = [writing EXCEPT ![c] = <<Head(channel[c])>>]
    /\ channel' = [channel EXCEPT ![c] = Tail(@)]
    /\ UNCHANGED <<taskVars, sessions, received, recordVars, postVars>>

Written(c) ==
    /\ stage[c] = "serving"
    /\ writing[c] # <<>>
    /\ received' = [received EXCEPT ![c] = @ \o writing[c]]
    /\ writing' = [writing EXCEPT ![c] = <<>>]
    /\ UNCHANGED <<taskVars, sessions, channel, recordVars, postVars>>

\* The receiver goes, and what is in the channel with it.
Drops(c) ==
    /\ channel' = [channel EXCEPT ![c] = <<>>]
    /\ writing' = [writing EXCEPT ![c] = <<>>]
    /\ UNCHANGED received

Removed_AfterLoopOnly(c) == IF stage[c] = "serving" THEN {c} ELSE {}
Removed(c) == {c}

\* A write fails: of the header, the endpoint event, an answer or a ping.
WriteFails(c) ==
    /\ Listening(c)
    /\ sessions' = sessions \ Removed(c)
    /\ Drops(c)
    /\ Ends(c, "over")
    /\ UNCHANGED <<recordVars, postVars>>

(***************************************************************************)
(* POST.  The sender is cloned from the table under its lock; what happens *)
(* to the session after that is not seen before the answer is sent.        *)
(***************************************************************************)
Lookup(p, c) ==
    /\ stage[p] = "reading"
    /\ \/ /\ c \in sessions
          /\ Goes(p, "working")
          /\ target' = [target EXCEPT ![p] = c]
       \/ /\ c \notin sessions
          /\ Goes(p, "replying")
          /\ UNCHANGED target
    /\ UNCHANGED <<sessionVars, recordVars, accepted>>

\* /mcp, or /message without a session: the answer is the response.
Direct(p) ==
    /\ stage[p] = "reading"
    /\ Goes(p, "working")
    /\ UNCHANGED <<sessionVars, recordVars, postVars>>

\* handle_raw_message returns.  A notification has no answer.
Handled(p) ==
    /\ stage[p] = "working"
    /\ \/ Goes(p, "replying")
       \/ target[p] # Nobody /\ Goes(p, "sending")
    /\ UNCHANGED <<sessionVars, recordVars, postVars>>

Offer_Dropping(p, c) ==
    channel' = IF Len(channel[c]) < Capacity
               THEN [channel EXCEPT ![c] = Append(@, p)]
               ELSE channel

Offer(p, c) ==
    /\ Len(channel[c]) < Capacity
    /\ channel' = [channel EXCEPT ![c] = Append(@, p)]

\* The send waits for room.  If the receiver is gone the answer is lost,
\* and the post is told 202 all the same.
Send(p) ==
    /\ stage[p] = "sending"
    /\ IF Listening(target[p]) THEN Offer(p, target[p]) ELSE UNCHANGED channel
    /\ accepted' = accepted \cup {p}
    /\ Goes(p, "replying")
    /\ UNCHANGED <<sessions, writing, received, recordVars, target>>

(***************************************************************************)
(* Time.                                                                   *)
(***************************************************************************)
\* The limit fires: the future is dropped, and nobody removes the session.
Cut(c) ==
    /\ stage[c] \in Timed
    /\ life[c] = 0
    /\ Ends(c, "cut")
    /\ IF c \in Streams THEN Drops(c) ELSE UNCHANGED <<channel, writing, received>>
    /\ UNCHANGED <<sessions, recordVars, postVars>>

Older(e) == [e EXCEPT !.age = IF @ > Minute THEN @ ELSE @ + 1]

Tick ==
    /\ \/ \E c \in Conns : life[c] > 0
       \/ \E a \in DOMAIN onRecord : onRecord[a].age <= Minute
    /\ life' = [c \in Conns |-> IF life[c] > 0 THEN life[c] - 1 ELSE 0]
    /\ onRecord' = [a \in DOMAIN onRecord |-> Older(onRecord[a])]
    /\ starts' = [a \in Addresses |-> [i \in 0 .. Minute - 1 |->
                     IF i = 0 THEN 0 ELSE starts[a][i - 1]]]
    /\ UNCHANGED <<stage, permits, sessionVars, postVars>>

Next ==
    \/ \E c \in Conns :
          \/ Accept(c) \/ TurnAway(c) \/ HandshakeOk(c) \/ HandshakeFails(c)
          \/ HangUp(c) \/ Refuse(c) \/ Answer(c) \/ Replied(c) \/ Cut(c)
    \/ \E c \in Streams :
          \/ OpenSession(c) \/ RefuseFull(c) \/ RefuseAddress(c)
          \/ Greet(c) \/ TakeAnswer(c) \/ Written(c) \/ WriteFails(c)
    \/ \E p \in Posts :
          \/ \E c \in Streams : Lookup(p, c)
          \/ Direct(p) \/ Handled(p) \/ Send(p)
    \/ Tick

Spec == Init /\ [][Next]_vars
-----------------------------------------------------------------------------
(* Properties.                                                             *)

\* A stream that can still be written to is in the table, from before its
\* client learns the session's name; an entry outlives its stream only if
\* the 3600 s ended it: every failing write takes its entry along.
SessionsFollowStreams ==
    /\ TypeOK
    /\ \A c \in Streams : Listening(c) => c \in sessions
    /\ \A c \in sessions : Listening(c) \/ stage[c] = "cut"

\* Until its stream ends, each answer whose post was told 202 has reached it
\* once or is on the way, however full the channel was; and nothing reaches
\* it but the answers to posts that named its session.
AnswersReachTheirStream ==
    \A c \in Streams :
        LET flow == received[c] \o writing[c] \o channel[c]
            own == {p \in accepted : target[p] = c}
        IN  /\ Cardinality(Range(flow)) = Len(flow)
            /\ Range(flow) \subseteq own
            /\ Listening(c) => own \subseteq Range(flow)

\* "Refuse 4th SSE from same IP within 60s" (check_and_record_sse_ip), as
\* far as it goes with windows that do not slide: what two windows that meet
\* can let pass, and the eviction of old entries lets no more.
StartsBounded ==
    \A a \in Addresses :
        SumFunction(starts[a]) <= 2 * PerAddress - 1

=============================================================================
