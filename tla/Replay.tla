------------------------------- MODULE Replay -------------------------------
(***************************************************************************)
(* The replay of a recorded session (SessionReplayer in src/src/record.rs) *)
(* against a server that answers every request as the recorded one did.    *)
(* Its ReplaySummary is a fold over the frames of the trace.               *)
(***************************************************************************)
EXTENDS Dispatch

\* What an answer says besides its id.
Said(q) ==
    IF Outcome(q) = "result" /\ q.method \in {"ping", "logging/setLevel"}
    THEN <<"{}">>
    ELSE <<Outcome(q), q.form, q.method, q.params>>

\* What the replaying server answers to m; <<>> if nothing.
Actual(m) ==
    IF Accepted(m)
    THEN LET owed == SelectSeq(m.items, LAMBDA q : Outcome(q) # "none")
         IN  [i \in DOMAIN owed |-> Said(owed[i])]
    ELSE <<<<"invalid">>>>

\* Without their ids, as those of single answers are removed; the batches of
\* a session are taken to differ in more than their ids.
ResponsesMatch(expected, actual) == expected = actual

\* tools/call of a tool that is not read-only, as far as it is recognized:
\* a batch has no method of its own.
IsMutatingRequest(m) ==
    /\ m.shape = "single"
    /\ m.items[1].method = "tools/call"
    /\ m.items[1].params = "mutating"

NothingExpected == 0

ReplayStart ==
    [expected |-> NothingExpected, matched |-> 0, mismatched |-> 0, errors |-> 0,
     ran |-> {}]

ReplayOutbound(s, f) == [s EXCEPT !.expected = f]

ReplaySkipped(s) == [s EXCEPT !.mismatched = @ + 1, !.errors = @ + 1]

ReplayInbound(s, f) ==
    LET answer == Actual(frames[f].msg)
        ranHere == [s EXCEPT !.expected = NothingExpected, !.ran = @ \cup {f}]
    IN  IF s.expected = NothingExpected
        THEN IF answer # <<>> THEN [ranHere EXCEPT !.matched = @ + 1] ELSE ranHere
        ELSE IF answer = <<>>
        THEN [ranHere EXCEPT !.mismatched = @ + 1]
        ELSE IF ResponsesMatch(Actual(frames[s.expected].msg), answer)
        THEN [ranHere EXCEPT !.matched = @ + 1]
        ELSE [ranHere EXCEPT !.mismatched = @ + 1, !.errors = @ + 1]

\* replay_with_options, whose allow_mutations is allow.
Replayed(allow) ==
    FoldLeft(LAMBDA s, e :
                IF e.dir = "out" THEN ReplayOutbound(s, e.frame)
                ELSE IF ~allow /\ IsMutatingRequest(frames[e.frame].msg) THEN ReplaySkipped(s)
                ELSE ReplayInbound(s, e.frame),
             ReplayStart, trace)

\* "100% deterministic trace replay verified" (main.rs): a session on stdio
\* of single requests, each owed an answer, which were all handled to their
\* ends, replays without a mismatch on a server that answers as the recorded
\* one did.
ReplayVerifies ==
    (/\ transport = "stdio"
     /\ \A f \in DOMAIN frames :
        /\ Stage(f) = "answered"
        /\ frames[f].msg.shape = "single"
        /\ ~IsMutatingRequest(frames[f].msg))
    => Replayed(FALSE).mismatched = 0
=============================================================================
