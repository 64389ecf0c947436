---------------------------- MODULE ShellProcess ----------------------------
(***************************************************************************)
(* One command run by the tool system_run_command                          *)
(* (src/src/tools/system.rs) and what becomes of its processes             *)
(* (src/src/reaper.rs), on Linux.                                          *)
(*                                                                         *)
(* The leader is the process the tool has spawned, in a group of its own;  *)
(* it may fork one kin, which may leave the group.  Both write to pipes    *)
(* until they close them, the two pipes being one here.  The tool reads to *)
(* the end of the pipes, or as far as it can, waits for the leader and     *)
(* makes a text of what it has read; after 30 s it kills instead, and its  *)
(* caller may drop it at any await.  A process that is killed is gone at   *)
(* once.  What is written and read is counted, not kept.  Names start with *)
(* Sh, for use beside other modules; X_Y is X with the bug Y (see Vault).  *)
(***************************************************************************)
EXTENDS Integers

CONSTANTS ShWrites,    \* bound on what is written
          ShCap,       \* what is read at most (MAX_READ_CAP)
          ShCut        \* the length of a text that is not cut (MAX_OUTPUT_CHARS)

ASSUME ShAssumption ==
    ShWrites \in Nat /\ ShCap \in Nat /\ ShCut \in Nat /\ ShCut < ShCap

VARIABLES shTool,      \* where the tool is, or how its call has ended
          shServer,    \* the server lives
          shAlive,     \* processes that run, ...
          shGroup,     \* ... those in the leader's group, ...
          shPiped,     \* ... and those with the pipes open
          shForked,
          shWritten, shRead,
          shFaulted,   \* a read has failed
          shOutput     \* the text that is answered: of all that was read, or cut

shProcesses == <<shAlive, shGroup, shPiped, shForked>>
shPipe == <<shWritten, shRead, shFaulted, shOutput>>
shVars == <<shTool, shServer, shProcesses, shPipe>>

ShFailed == {"timed_out", "dropped", "failed"}
ShOver == ShFailed \cup {"succeeded", "panicked"}

ShTypeOK ==
    /\ shTool \in ShOver \cup {"idle", "reading", "waiting", "killing"}
    /\ shServer \in BOOLEAN
    /\ shPiped \subseteq shAlive
    /\ shAlive \cup shGroup \subseteq {"leader", "kin"}
    /\ shForked \in BOOLEAN
    /\ shRead \in 0 .. ShCap
    /\ shWritten \in shRead .. ShWrites
    /\ shFaulted \in BOOLEAN
    /\ shOutput \in {"none", "whole", "cut"}

ShInit ==
    /\ shTool = "idle"
    /\ shServer = TRUE
    /\ shAlive = {} /\ shGroup = {} /\ shPiped = {}
    /\ shForked = FALSE
    /\ shWritten = 0 /\ shRead = 0
    /\ shFaulted = FALSE
    /\ shOutput = "none"

(***************************************************************************)
(* The tool.                                                               *)
(***************************************************************************)
ShSpawn ==
    /\ shServer
    /\ shTool = "idle"
    /\ \/ /\ shTool' = "reading"
          /\ shAlive' = {"leader"} /\ shGroup' = {"leader"} /\ shPiped' = {"leader"}
       \/ shTool' = "failed" /\ UNCHANGED <<shAlive, shGroup, shPiped>>
    /\ UNCHANGED <<shServer, shForked, shPipe>>

ShRead ==
    /\ shTool = "reading" /\ ~shFaulted
    /\ shRead < shWritten /\ shRead < ShCap
    /\ shRead' = shRead + 1
    /\ UNCHANGED <<shTool, shServer, shProcesses, shWritten, shFaulted, shOutput>>

\* The error is dropped: to the tool it is the end of the pipes.
ShReadFails ==
    /\ shTool = "reading" /\ ~shFaulted
    /\ shFaulted' = TRUE
    /\ UNCHANGED <<shTool, shServer, shProcesses, shWritten, shRead, shOutput>>

ShStreamEnds_WithTheLeader ==
    \/ shPiped \subseteq {"kin"} /\ shRead = shWritten
    \/ shFaulted

\* Everybody has closed the pipes, or enough was read, or no more can be.
ShStreamEnds ==
    \/ shPiped = {} /\ shRead = shWritten
    \/ shRead = ShCap
    \/ shFaulted

ShReadAll ==
    /\ shTool = "reading"
    /\ ShStreamEnds
    /\ shTool' = "waiting"
    /\ UNCHANGED <<shServer, shProcesses, shPipe>>

\* First the guard is disarmed: who is left in the group lives on.  Then the
\* text is made, with three bytes for one that is no UTF-8; if it is too long
\* it is cut at a byte, which panics when that is inside a character.
ShSucceed ==
    /\ shTool = "waiting"
    /\ "leader" \notin shAlive
    /\ \E length \in shRead .. 3 * shRead :
        \/ length <= ShCut /\ shTool' = "succeeded" /\ shOutput' = "whole"
        \/ length > ShCut /\ shTool' = "succeeded" /\ shOutput' = "cut"
        \/ length > ShCut /\ shTool' = "panicked" /\ UNCHANGED shOutput
    /\ UNCHANGED <<shServer, shProcesses, shWritten, shRead, shFaulted>>

Kill(whom) ==
    /\ shAlive' = shAlive \ whom
    /\ shPiped' = shPiped \ whom
    /\ UNCHANGED <<shGroup, shForked>>

ShWaitFails ==
    /\ shTool = "waiting"
    /\ shTool' = "failed"
    /\ Kill(shGroup)
    /\ UNCHANGED <<shServer, shPipe>>

\* After 30 s: child.kill() first, ...
ShTimesOut ==
    /\ shTool \in {"reading", "waiting"}
    /\ shTool' = "killing"
    /\ Kill({"leader"})
    /\ UNCHANGED <<shServer, shPipe>>

ShKilled_LeaderOnly ==
    /\ shTool = "killing"
    /\ shTool' = "timed_out"
    /\ UNCHANGED <<shServer, shProcesses, shPipe>>

\* ... and when that has been awaited, the group.
ShKilled ==
    /\ shTool = "killing"
    /\ shTool' = "timed_out"
    /\ Kill(shGroup)
    /\ UNCHANGED <<shServer, shPipe>>

\* The task is aborted: the guard's drop, and kill_on_drop.
ShDropped ==
    /\ shTool \in {"reading", "waiting", "killing"}
    /\ shTool' = "dropped"
    /\ Kill(shGroup \cup {"leader"})
    /\ UNCHANGED <<shServer, shPipe>>

\* The server is killed: only the leader has asked to go with it.
ShServerDies ==
    /\ shServer
    /\ shServer' = FALSE
    /\ shTool' = IF shTool \in ShOver THEN shTool ELSE "dropped"
    /\ Kill({"leader"})
    /\ UNCHANGED shPipe

(***************************************************************************)
(* The processes.                                                          *)
(***************************************************************************)
ShFork ==
    /\ "leader" \in shAlive
    /\ ~shForked
    /\ shForked' = TRUE
    /\ shAlive' = shAlive \cup {"kin"}
    /\ shGroup' = shGroup \cup {"kin"}
    /\ shPiped' = IF "leader" \in shPiped THEN shPiped \cup {"kin"} ELSE shPiped
    /\ UNCHANGED <<shTool, shServer, shPipe>>

ShLeaveGroup ==
    /\ "kin" \in shAlive \cap shGroup
    /\ shGroup' = shGroup \ {"kin"}
    /\ UNCHANGED <<shTool, shServer, shAlive, shPiped, shForked, shPipe>>

ShClose(q) ==
    /\ q \in shPiped
    /\ shPiped' = shPiped \ {q}
    /\ UNCHANGED <<shTool, shServer, shAlive, shGroup, shForked, shPipe>>

\* Nothing is written once the reading end is closed.
ShWrite(q) ==
    /\ q \in shPiped
    /\ shTool = "reading"
    /\ shWritten < ShWrites
    /\ shWritten' = shWritten + 1
    /\ UNCHANGED <<shTool, shServer, shProcesses, shRead, shFaulted, shOutput>>

ShExit(q) ==
    /\ q \in shAlive
    /\ Kill({q})
    /\ UNCHANGED <<shTool, shServer, shPipe>>

ShNext ==
    \/ ShSpawn \/ ShRead \/ ShReadFails \/ ShReadAll \/ ShSucceed \/ ShWaitFails
    \/ ShTimesOut \/ ShKilled \/ ShDropped \/ ShServerDies
    \/ ShFork \/ ShLeaveGroup
    \/ \E q \in {"leader", "kin"} : ShClose(q) \/ ShWrite(q) \/ ShExit(q)

ShSpec == ShInit /\ [][ShNext]_shVars

-----------------------------------------------------------------------------
(* Properties.                                                             *)

\* Of a call that times out, is cancelled or fails no process is left, but
\* one that has left the group; when the server itself was killed, at least
\* the leader is gone.  The exception is a call that fails by a panic: the
\* command has ended, its text may have been too long, and the rest of its
\* group, which the guard no longer holds, may live on.
NoneSurvivesFailure ==
    /\ shTool \in ShFailed => shAlive \subseteq
        IF shServer THEN {"kin"} \ shGroup ELSE {"kin"}
    /\ shTool = "panicked" => "leader" \notin shAlive /\ 3 * shRead > ShCut

\* A success means that the command itself has ended.  If its text does not
\* say that it was cut, it is the whole output of all processes that could
\* write it, unless a read has failed, which nobody is told.
SuccessIsWhole ==
    shTool = "succeeded" =>
        /\ "leader" \notin shAlive
        /\ shOutput = "whole" /\ ~shFaulted => shPiped = {} /\ shRead = shWritten
=============================================================================
