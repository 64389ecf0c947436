------------------------------ MODULE Dispatch ------------------------------
(***************************************************************************)
(* How messages become answers (src/src/server.rs): run_stdio or an HTTP   *)
(* handler hands a message to handle_raw_message, which records it, parses *)
(* it, gives each request in it to handle_request and records the answer;  *)
(* and the replay of what was recorded (src/src/record.rs).                *)
(*                                                                         *)
(* A frame is a message that came, with how far its handling got.  On      *)
(* stdio the next line is read when the one before is done with; HTTP      *)
(* handlers run side by side, and one is cut where it awaits when its      *)
(* connection's time is up.  The requests of a batch run up to Slots at a  *)
(* time.  What a tools/call does is in ToolCall: here it is a request that *)
(* takes time, as the reading of a resource or a prompt is.                *)
(***************************************************************************)
EXTENDS Integers, Sequences, SequencesExt, FiniteSetsExt

CONSTANTS Transports,  \* "stdio", "http"
          Messages,    \* what clients send
          MaxFrames,   \* bound on the messages sent
          MaxBatch,    \* requests in a batch: 100
          Slots        \* of buffer_unordered: 8

Tables == {"ping", "logging/setLevel", "completion/complete", "tools/list",
           "resources/list", "prompts/list"}
Lookups == {"tools/call", "resources/read", "prompts/get"}

\* form: whether it has jsonrpc "2.0" and deserializes; id: whether it has
\* one; params: what they name.
RequestType ==
    [form   : {"good", "noVersion", "undecodable"},
     id     : BOOLEAN,
     method : Tables \cup Lookups \cup {"initialize", "notifications/cancelled", "other"},
     params : {"none", "known", "mutating", "unknown", "failing", "endless"}]

\* unreadable: not UTF-8.  An HTTP handler reads that as garbage.
Shapes == {"blank", "huge", "unreadable", "garbage", "single", "batch"}

ASSUME DispatchAssumption ==
    /\ Transports \subseteq {"stdio", "http"}
    /\ \A m \in Messages :
        /\ m.shape \in Shapes
        /\ m.items \in Seq(RequestType)
        /\ m.shape # "batch" => Len(m.items) = IF m.shape = "single" THEN 1 ELSE 0
    /\ MaxFrames \in Nat /\ MaxBatch \in Nat \ {0} /\ Slots \in Nat \ {0}

VARIABLES transport,
          frames,    \* what came, in order: [msg, stage, done, reply]
          reading,   \* run_stdio has not returned
          level,     \* GLOBAL_LOG_LEVEL
          trace      \* the recorder's file: [dir, frame]

vars == <<transport, frames, reading, level, trace>>

Stages == {"queued", "running", "replying", "answered", "silent", "skipped",
           "lost", "unread", "cut"}
Levels == {"info", "debug"}

TypeOK ==
    /\ transport \in Transports
    /\ \A f \in DOMAIN frames :
        /\ frames[f].msg \in Messages
        /\ frames[f].stage \in Stages
        /\ frames[f].done \in Seq(DOMAIN frames[f].msg.items)
        /\ frames[f].reply \in Seq(0 .. MaxBatch)
    /\ reading \in BOOLEAN
    /\ level \in Levels
    /\ trace \in Seq([dir : {"in", "out"}, frame : DOMAIN frames])

Init ==
    /\ transport \in Transports
    /\ frames = <<>>
    /\ reading = TRUE
    /\ level = "info"
    /\ trace = <<>>

-----------------------------------------------------------------------------
(***************************************************************************)
(* One request.                                                            *)
(***************************************************************************)

\* A request without an id.  A cancellation is answered, with an error and
\* without an id, when its params name no call.
Notification(q) ==
    IF q.method = "notifications/cancelled" /\ q.params \in {"unknown", "failing"}
    THEN "error" ELSE "none"

\* It has to name a protocol version the server supports.
Initialize(q) == IF q.params = "known" THEN "result" ELSE "error"

\* What is looked up by name and awaited.
Lookup(q) == IF q.params \in {"known", "mutating"} THEN "result" ELSE "error"

\* Methods in Tables are answered from what the server was built with.
Outcome(q) ==
    IF q.form # "good" THEN "error"
    ELSE IF ~q.id THEN Notification(q)
    ELSE CASE q.method = "initialize" -> Initialize(q)
           [] q.method \in Tables -> "result"
           [] q.method \in Lookups -> Lookup(q)
           [] OTHER -> "error"

Awaits(q) ==
    /\ q.form = "good" /\ q.id
    /\ q.method \in Lookups
    /\ q.params \in {"known", "mutating", "failing", "endless"}

Endless(q) == Awaits(q) /\ q.params = "endless"

\* logging/setLevel, whose level is "info" unless params name one.
SetsLevel(q) == q.form = "good" /\ q.id /\ q.method = "logging/setLevel"

LevelAfter(q, l) ==
    IF SetsLevel(q) THEN IF q.params = "known" THEN "debug" ELSE "info" ELSE l

-----------------------------------------------------------------------------
(***************************************************************************)
(* One message.                                                            *)
(***************************************************************************)
Items(f) == frames[f].msg.items
Done(f) == ToSet(frames[f].done)
Stage(f) == frames[f].stage

IsJson(m) == m.shape \in {"single", "batch"}

\* What is parsed into requests; anything else is one error without an id.
Accepted(m) == IsJson(m) /\ Len(m.items) \in 1 .. MaxBatch

InFlight_NoRefill(f) == (1 .. Min({Len(Items(f)), Slots})) \ Done(f)

\* buffer_unordered starts the next when one of Slots is done, in order.
InFlight(f) ==
    (1 .. Min({Len(Items(f)), Len(frames[f].done) + Slots})) \ Done(f)

\* The futures are polled in the order they were started, so that requests
\* which never await are done in that order, and before any later one.
Pollable(f, i) ==
    \A j \in InFlight(f) : j < i => Awaits(Items(f)[j])

Owed(f, i) == Outcome(Items(f)[i]) # "none"

Reply_Unsorted(f) ==
    IF Accepted(frames[f].msg)
    THEN SelectSeq(frames[f].done, LAMBDA i : Owed(f, i))
    ELSE <<0>>
-----------------------------------------------------------------------------
(***************************************************************************)
(* The handling of a frame.                                                *)
(***************************************************************************)
Sorted(S) ==
    CHOOSE r \in [1 .. Cardinality(S) -> S] :
        ToSet(r) = S /\ \A i, j \in DOMAIN r : i < j => r[i] < r[j]

Frame(m) == [msg |-> m, stage |-> "queued", done |-> <<>>, reply |-> <<>>]

\* The answers of a batch, sorted by the place of their requests; <<0>> is
\* the error that has no request, <<>> no answer at all.
Reply(f) ==
    IF Accepted(frames[f].msg) THEN Sorted({i \in Done(f) : Owed(f, i)}) ELSE <<0>>

Send(m) ==
    /\ Len(frames) < MaxFrames
    /\ transport = "http" => m.shape \notin {"huge", "unreadable"}
    /\ frames' = Append(frames, Frame(m))
    /\ UNCHANGED <<transport, reading, level, trace>>

Over == {"answered", "silent", "skipped"}

MayBegin_Spawned(f) ==
    /\ Stage(f) = "queued"
    /\ transport = "stdio" => reading

\* run_stdio reads the next line; an HTTP handler has its body.
MayBegin(f) ==
    /\ Stage(f) = "queued"
    /\ transport = "stdio" => reading /\ \A g \in 1 .. f - 1 : Stage(g) \in Over

Moved(f, s) == frames' = [frames EXCEPT ![f].stage = s]

\* On stdio a line of more than 10 MiB; blank ones on both.
Skip(f) ==
    /\ MayBegin(f)
    /\ frames[f].msg.shape \in {"huge", "blank"}
    /\ Moved(f, IF frames[f].msg.shape = "huge" THEN "skipped" ELSE "silent")
    /\ UNCHANGED <<transport, reading, level, trace>>

\* next_line fails, where the line is not UTF-8 or stdin cannot be read: the
\* error ends run_stdio.
ReadFails(f) ==
    /\ transport = "stdio"
    /\ MayBegin(f)
    /\ Moved(f, "unread")
    /\ reading' = FALSE
    /\ UNCHANGED <<transport, level, trace>>

Record(dir, f) == trace' = Append(trace, [dir |-> dir, frame |-> f])

Begin(f) ==
    /\ MayBegin(f)
    /\ frames[f].msg.shape \notin {"huge", "blank", "unreadable"}
    /\ Moved(f, "running")
    /\ IF IsJson(frames[f].msg) THEN Record("in", f) ELSE UNCHANGED trace
    /\ UNCHANGED <<transport, reading, level>>

Finish(f, i) ==
    /\ Stage(f) = "running"
    /\ Accepted(frames[f].msg)
    /\ i \in InFlight(f)
    /\ Pollable(f, i)
    /\ ~Endless(Items(f)[i])
    /\ frames' = [frames EXCEPT ![f].done = Append(@, i)]
    /\ level' = LevelAfter(Items(f)[i], level)
    /\ UNCHANGED <<transport, reading, trace>>

End(f) ==
    /\ Stage(f) = "running"
    /\ Accepted(frames[f].msg) => Done(f) = DOMAIN Items(f)
    /\ frames' = [frames EXCEPT ![f] =
            [@ EXCEPT !.reply = Reply(f),
                      !.stage = IF Reply(f) = <<>> THEN "silent" ELSE "replying"]]
    /\ IF Reply(f) # <<>> THEN Record("out", f) ELSE UNCHANGED trace
    /\ UNCHANGED <<transport, reading, level>>

Write(f) ==
    /\ Stage(f) = "replying"
    /\ Moved(f, "answered")
    /\ UNCHANGED <<transport, reading, level, trace>>

\* An error on stdout ends run_stdio; HTTP drops the error.
WriteFails(f) ==
    /\ Stage(f) = "replying"
    /\ Moved(f, "lost")
    /\ reading' = (transport = "http")
    /\ UNCHANGED <<transport, level, trace>>

\* The 3600 s of the connection are over (see Sessions).
Cut(f) ==
    /\ transport = "http"
    /\ Stage(f) \in {"running", "replying"}
    /\ Moved(f, "cut")
    /\ UNCHANGED <<transport, reading, level, trace>>

\* What the server does by itself: a write waits for the client.
Handle(f) ==
    \/ Skip(f)
    \/ ReadFails(f)
    \/ Begin(f)
    \/ \E i \in DOMAIN Items(f) : Finish(f, i)
    \/ End(f)

Next ==
    \/ \E m \in Messages : Send(m)
    \/ \E f \in DOMAIN frames : Handle(f) \/ Write(f) \/ WriteFails(f) \/ Cut(f)

\* The executor polls what is ready, and what is awaited ends unless it is
\* endless.  Nothing is assumed of the client: it need not read its answers.
Fairness == \A f \in 1 .. MaxFrames : WF_vars(f \in DOMAIN frames /\ Handle(f))

Spec == Init /\ [][Next]_vars
FairSpec == Spec /\ Fairness
-----------------------------------------------------------------------------
(***************************************************************************)
(* Properties.                                                             *)
(***************************************************************************)

\* A client tells its requests apart by the ids and the places of the
\* answers: of a message that could be parsed, each request that is owed an
\* answer has exactly one, in the order of the message whatever order the
\* requests were done in; of any other message the answer is one error.
AnswersMatchRequests ==
    TypeOK /\ \A f \in DOMAIN frames :
        LET msg == frames[f].msg
            r == frames[f].reply
            owed == {i \in DOMAIN msg.items : Owed(f, i)}
        IN  /\ Stage(f) \in {"replying", "answered", "lost"} =>
                 IF Accepted(msg)
                 THEN /\ ToSet(r) = owed
                      /\ \A i, j \in DOMAIN r : i < j => r[i] < r[j]
                 ELSE r = <<0>>
            /\ Stage(f) = "silent" => owed = {} \/ ~Accepted(msg)

Recorded ==
    {[dir |-> "in", frame |-> f] :
        f \in {g \in DOMAIN frames : Stage(g) \notin {"queued", "skipped", "unread"}
                                     /\ IsJson(frames[g].msg)}}
    \cup {[dir |-> "out", frame |-> f] : f \in {g \in DOMAIN frames : frames[g].reply # <<>>}}

\* Where the level was set.
LevelSet == {p \in (DOMAIN frames) \X (1 .. MaxBatch) :
                p[2] \in Done(p[1]) /\ SetsLevel(Items(p[1])[p[2]])}

\* The recording is the session: of every frame what was parsed, and after
\* it what was answered, once each; on stdio these stand together and in the
\* order the client sent them, and the log level is the last one it set,
\* though requests of one batch run side by side.
TraceTellsSession ==
    /\ ToSet(trace) = Recorded /\ IsInjective(trace)
    /\ \A n, k \in DOMAIN trace :
        n < k => IF trace[n].frame = trace[k].frame THEN trace[n].dir = "in"
                 ELSE transport = "stdio" => trace[n].frame < trace[k].frame
    /\ transport = "stdio" =>
        \/ LevelSet = {} /\ level = "info"
        \/ \E p \in LevelSet :
            /\ level = LevelAfter(Items(p[1])[p[2]], level)
            /\ \A q \in LevelSet : q[1] < p[1] \/ (q[1] = p[1] /\ q[2] <= p[2])

Stuck(f) == \E i \in DOMAIN Items(f) : Endless(Items(f)[i])

\* The frames whose handling f has to wait for, its own among them.
WaitsOn(f) == IF transport = "stdio" THEN 1 .. f ELSE {f}

\* What may end the handling of f without an answer, or keep it for ever: a
\* request that never ends; a line that could not be read or an answer that
\* could not be written, which on stdio end everything; on HTTP the
\* connection's time limit.
Excused(f) == \E g \in WaitsOn(f) : Stuck(g) \/ Stage(g) \in {"unread", "lost", "cut"}

\* A client is not reading the answer that is being written to it.
Unheard(f) == \E g \in WaitsOn(f) : Stage(g) = "replying"

\* Every frame is handled to its end, with its answer delivered if it is
\* owed one, unless it is excused or a client stops reading for ever.  On
\* stdio the blame is with the frame or with one before it, one line that is
\* not UTF-8 is enough, and nothing that comes later can harm it; on HTTP no
\* other frame matters.
AnsweredUnlessStuck ==
    \A f \in 1 .. MaxFrames :
        f \in DOMAIN frames ~>
            \/ f \in DOMAIN frames /\ (Stage(f) \in Over \/ Excused(f))
            \/ [](f \in DOMAIN frames /\ Unheard(f))
=============================================================================
