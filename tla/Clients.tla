------------------------------ MODULE Clients ------------------------------
(***************************************************************************)
(* The clients for Node, Python, Go and PHP (src/index.js,                 *)
(* src/python/intermcp/client.py, src/go/intermcp/client.go and            *)
(* src/php/src/Client.php), each with the server it has started, over      *)
(* stdio: how they pair responses with requests when timers fire and       *)
(* processes end.                                                          *)
(*                                                                         *)
(* Node keeps its requests in a map and looks at the id of a response; the *)
(* others hold a lock, or are used by one thread, and take the next line   *)
(* for the answer.  The server answers in order (Dispatch) and may be as   *)
(* slow as it likes.  A request is its number; answer 0 is an empty result *)
(* that no response had.  Names start with Cl, for use beside other        *)
(* modules; X_Y is X with the bug Y (see Vault).                           *)
(***************************************************************************)
EXTENDS Integers, Sequences, FiniteSets

CONSTANTS ClRequests, ClStarts    \* bounds on requests and on starts

ASSUME ClAssumption == {ClRequests, ClStarts} \subseteq Nat

VARIABLES clSdk,        \* whose client it is
          clProcess,    \* the server
          clStarts,     \* starts so far
          clSent,       \* requests the server has not answered
          clLines,      \* responses in the pipe; 0 is the rest of a line
          clReaders,    \* requests whose thread still reads a line
          clCalls       \* what became of each request

clPipes == <<clSent, clLines>>
clVars == <<clSdk, clProcess, clStarts, clPipes, clReaders, clCalls>>

Calls == 1 .. ClRequests
ClNew == [how |-> "new", of |-> 0, start |-> 0]

ClTypeOK ==
    /\ clSdk \in {"node", "python", "go", "php"}
    /\ clProcess \in {"up", "gone", "stopped"}
    /\ clStarts \in 0 .. ClStarts
    /\ clSent \in Seq(Calls)
    /\ clLines \in Seq(Calls \cup {0})
    /\ clReaders \subseteq Calls
    /\ clCalls \in [Calls -> [how : {"new", "waiting", "answered", "timeout", "failed"},
                              of : 0 .. ClRequests, start : 0 .. ClStarts]]

ClInit ==
    /\ clSdk \in {"node", "python", "go", "php"}
    /\ clProcess = "stopped"
    /\ clStarts = 0
    /\ clSent = <<>> /\ clLines = <<>>
    /\ clReaders = {}
    /\ clCalls = [r \in Calls |-> ClNew]

Waiting == {r \in Calls : clCalls[r].how = "waiting"}
Unlocked == clSdk = "node" \/ Waiting = {}

Becomes(r, how, of) ==
    clCalls' = [clCalls EXCEPT ![r] = [how |-> how, of |-> of, start |-> clStarts]]

(***************************************************************************)
(* Requests.  Numbers are given in order.                                  *)
(***************************************************************************)
ClNext(r) ==
    /\ clCalls[r].how = "new"
    /\ \A q \in 1 .. r - 1 : clCalls[q].how # "new"
    /\ Unlocked

\* What is written to a process that has just ended may vanish.
Written(r) ==
    /\ Becomes(r, "waiting", 0)
    /\ clSent' = IF clProcess = "up" THEN Append(clSent, r) ELSE clSent

WriteError(r) == Becomes(r, "failed", 0) /\ UNCHANGED clSent

NodeRequest(r) ==
    /\ clSdk = "node" /\ ClNext(r)
    /\ \/ clProcess # "stopped" /\ Written(r)
       \/ clProcess # "up" /\ WriteError(r)
    /\ UNCHANGED <<clSdk, clProcess, clStarts, clLines, clReaders>>

\* Starts a thread that reads one line, as Go does.
PythonRequest(r) ==
    /\ clSdk = "python" /\ ClNext(r)
    /\ \/ clProcess # "stopped" /\ Written(r) /\ clReaders' = clReaders \cup {r}
       \/ clProcess = "gone" /\ WriteError(r) /\ UNCHANGED clReaders
    /\ UNCHANGED <<clSdk, clProcess, clStarts, clLines>>

GoRequest(r) ==
    /\ clSdk = "go" /\ clStarts > 0 /\ ClNext(r)
    /\ \/ clProcess # "stopped" /\ Written(r) /\ clReaders' = clReaders \cup {r}
       \/ clProcess # "up" /\ WriteError(r) /\ UNCHANGED clReaders
    /\ UNCHANGED <<clSdk, clProcess, clStarts, clLines>>

\* Errors of the write are not looked at.
PhpRequest(r) ==
    /\ clSdk = "php" /\ ClNext(r)
    /\ clProcess # "stopped" /\ Written(r)
    /\ UNCHANGED <<clSdk, clProcess, clStarts, clLines, clReaders>>

(***************************************************************************)
(* Responses.                                                              *)
(***************************************************************************)
NextLine == Head(clLines)
TakesLine == clLines # <<>> /\ clLines' = Tail(clLines)

NodeLine_AnyPending ==
    /\ clSdk = "node" /\ TakesLine
    /\ IF Waiting # {} THEN \E r \in Waiting : Becomes(r, "answered", NextLine)
       ELSE UNCHANGED clCalls
    /\ UNCHANGED <<clSdk, clProcess, clStarts, clSent, clReaders>>

\* A response nobody waits for any more is dropped.
NodeLine ==
    /\ clSdk = "node" /\ TakesLine
    /\ IF NextLine \in Waiting
       THEN clCalls' = [clCalls EXCEPT ![NextLine] =
                           [how |-> "answered", of |-> NextLine, start |-> @.start]]
       ELSE UNCHANGED clCalls
    /\ UNCHANGED <<clSdk, clProcess, clStarts, clSent, clReaders>>

\* One of the threads that read: also one whose request has timed out.
ThreadReads(r) ==
    /\ r \in clReaders /\ TakesLine
    /\ clReaders' = clReaders \ {r}
    /\ IF r \in Waiting THEN Becomes(r, "answered", NextLine) ELSE UNCHANGED clCalls
    /\ UNCHANGED <<clSdk, clProcess, clStarts, clSent>>

PythonLine(r) == clSdk = "python" /\ ThreadReads(r)
GoLine(r) == clSdk = "go" /\ ThreadReads(r)

\* What is no JSON, like the rest of a line, passes for an empty result.
PhpLine(r) ==
    /\ clSdk = "php" /\ r \in Waiting /\ TakesLine
    /\ Becomes(r, "answered", NextLine)
    /\ UNCHANGED <<clSdk, clProcess, clStarts, clSent, clReaders>>

\* The timeout of the stream strikes in the middle of a line.
PhpPartOfLine(r) ==
    /\ clSdk = "php" /\ r \in Waiting
    /\ clLines # <<>>
    /\ Becomes(r, "answered", 0)
    /\ clLines' = <<0>> \o Tail(clLines)
    /\ UNCHANGED <<clSdk, clProcess, clStarts, clSent, clReaders>>

\* The end of the output: an error, except in Node, which waits on.
EndOfOutput(r) ==
    /\ clProcess = "gone" /\ clLines = <<>>
    /\ clSdk # "node" /\ r \in Waiting
    /\ Becomes(r, "failed", 0)
    /\ clReaders' = clReaders \ {r}
    /\ UNCHANGED <<clSdk, clProcess, clStarts, clPipes>>

(***************************************************************************)
(* The timers, of 30 s.                                                    *)
(***************************************************************************)
TimedOut(r) == r \in Waiting /\ Becomes(r, "timeout", 0)

\* Takes the request out of the map.
NodeTimer(r) ==
    /\ clSdk = "node" /\ TimedOut(r)
    /\ UNCHANGED <<clSdk, clProcess, clStarts, clPipes, clReaders>>

\* Calls close(), which there is not: the process stays.
PythonTimer(r) ==
    /\ clSdk = "python" /\ TimedOut(r)
    /\ UNCHANGED <<clSdk, clProcess, clStarts, clPipes, clReaders>>

GoTimer(r) ==
    /\ clSdk = "go" /\ TimedOut(r)
    /\ clProcess' = IF clProcess = "up" THEN "gone" ELSE clProcess
    /\ clSent' = <<>>
    /\ UNCHANGED <<clSdk, clStarts, clLines, clReaders>>

PhpTimer(r) ==
    /\ clSdk = "php" /\ TimedOut(r)
    /\ UNCHANGED <<clSdk, clProcess, clStarts, clPipes, clReaders>>

(***************************************************************************)
(* The server, and its start and end.  Only Node's old listener survives a *)
(* new start.                                                              *)
(***************************************************************************)
ClientStart ==
    /\ clProcess # "up" /\ Unlocked
    /\ clStarts < ClStarts
    /\ clStarts' = clStarts + 1
    /\ clProcess' = "up"
    /\ clSent' = <<>>
    /\ clLines' = IF clSdk = "node" THEN clLines ELSE <<>>
    /\ clReaders' = {}
    /\ UNCHANGED <<clSdk, clCalls>>

ClientStop ==
    /\ clProcess # "stopped" /\ Unlocked
    /\ clProcess' = "stopped"
    /\ clSent' = <<>>
    /\ UNCHANGED <<clSdk, clStarts, clLines, clReaders, clCalls>>

ServerAnswers ==
    /\ clSent # <<>>
    /\ clSent' = Tail(clSent)
    /\ clLines' = Append(clLines, Head(clSent))
    /\ UNCHANGED <<clSdk, clProcess, clStarts, clReaders, clCalls>>

ServerEnds ==
    /\ clProcess = "up"
    /\ clProcess' = "gone"
    /\ clSent' = <<>>
    /\ UNCHANGED <<clSdk, clStarts, clLines, clReaders, clCalls>>

ClientsNext ==
    \/ \E r \in Calls :
        \/ NodeRequest(r) \/ PythonRequest(r) \/ GoRequest(r) \/ PhpRequest(r)
        \/ PythonLine(r) \/ GoLine(r) \/ PhpLine(r) \/ PhpPartOfLine(r)
        \/ EndOfOutput(r)
        \/ NodeTimer(r) \/ PythonTimer(r) \/ GoTimer(r) \/ PhpTimer(r)
    \/ NodeLine
    \/ ClientStart \/ ClientStop \/ ServerAnswers \/ ServerEnds

ClSpec == ClInit /\ [][ClientsNext]_clVars
-----------------------------------------------------------------------------
(* Properties.                                                             *)

Answered == {r \in Calls : clCalls[r].how = "answered"}

\* A request after which a line is left for another.
Unread(q) == clCalls[q].how = "timeout" \/ (q \in Answered /\ clCalls[q].of = 0)

\* A Node client gives every request its own response.  So do the others,
\* but for what a timer leaves behind: a wrong answer is that of an earlier
\* request to the same process, and one at least as early was not waited
\* for; only PHP makes an answer up.  No response is given twice.
AnswersAreOwn ==
    /\ \A r \in Answered :
        LET of == clCalls[r].of
            left == {q \in 1 .. r : Unread(q) /\ clCalls[q].start = clCalls[r].start}
        IN  of # r =>
            /\ clSdk # "node"
            /\ of = 0 => clSdk = "php"
            /\ of # 0 => of < r /\ \E q \in left : q <= of
    /\ \A q, r \in Answered : clCalls[q].of = clCalls[r].of /\ q # r => clCalls[q].of = 0
=============================================================================
