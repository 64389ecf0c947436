------------------------------ MODULE HostProofs ------------------------------
(***************************************************************************)
(* What holds of the parts that share no state with others: the shell tool *)
(* and its processes, whatever the cap on what is read (ShellProcess); the *)
(* configuration of an IDE, for any number of setups and saves             *)
(* (ConfigFile); the clients, for any number of requests and starts        *)
(* (Clients); the result cache, for any keys, sizes and limits             *)
(* (ToolCache); the chain of receipts, however many are signed and         *)
(* wherever writes fail or the process dies (ReceiptBook); the file tools, *)
(* whatever the tree and the request (FileTools); the audit log, which is  *)
(* written through a buffer, however much of it each write gets to the     *)
(* file (AuditLog); and the messages, of any size and number (Dispatch).   *)
(***************************************************************************)
EXTENDS ShellProcess, ReceiptBook, ConfigFile, Clients, ToolCache, FileTools,
        AuditLog, Dispatch, Sums, SequenceTheorems

-----------------------------------------------------------------------------
(***************************************************************************)
(* ShellProcess.                                                           *)
(***************************************************************************)
\* Who may be alive, and in which group, where the tool is.
Leadership ==
    /\ shTool = "idle" => shAlive = {}
    /\ "leader" \in shAlive => "leader" \in shGroup
    /\ shTool = "killing" => "leader" \notin shAlive
    /\ ~shServer => shTool \in ShOver \cup {"idle"} /\ "leader" \notin shAlive

\* Once the tool has seen the end of the pipes there is no more to come, and
\* a text that is not cut is below the cap.
Drained ==
    /\ shTool \in {"waiting", "succeeded"} => ShStreamEnds
    /\ shTool = "succeeded" /\ shOutput = "whole" => shRead < ShCap

ShIInv ==
    ShTypeOK /\ Leadership /\ Drained /\ NoneSurvivesFailure /\ SuccessIsWhole

LEMMA ShInitially == ShInit => ShIInv
  <1> SUFFICES ASSUME ShInit PROVE ShIInv
    OBVIOUS
  <1> USE DEF ShInit, ShFailed, ShOver
  <1>1. ShTypeOK
    <2>1. shRead \in 0 .. ShCap /\ shWritten \in shRead .. ShWrites
      BY ShAssumption
    <2> QED
      BY <2>1 DEF ShTypeOK
  <1>2. Leadership
    BY DEF Leadership
  <1>3. Drained
    BY DEF Drained
  <1>4. NoneSurvivesFailure /\ SuccessIsWhole
    BY DEF NoneSurvivesFailure, SuccessIsWhole
  <1> QED
    BY <1>1, <1>2, <1>3, <1>4 DEF ShIInv

\* The processes of a command are "leader" and "kin", and Kill takes of them
\* whom it names.
LEMMA ShStep == ShIInv /\ [ShNext]_shVars => ShIInv'
  <1> USE ShAssumption
          DEF ShIInv, ShTypeOK, Leadership, Drained, ShStreamEnds,
              NoneSurvivesFailure, SuccessIsWhole, ShFailed, ShOver,
              shProcesses, shPipe
  <1> SUFFICES ASSUME ShIInv, [ShNext]_shVars PROVE ShIInv'
    OBVIOUS
  <1>1. CASE ShSpawn
    BY <1>1 DEF ShSpawn
  <1>2. CASE ShRead
    BY <1>2 DEF ShRead
  <1>3. CASE ShReadAll
    BY <1>3 DEF ShReadAll
  <1>4. CASE ShSucceed
    <2>1. PICK length \in shRead .. 3 * shRead :
            \/ length <= ShCut /\ shTool' = "succeeded" /\ shOutput' = "whole"
            \/ length > ShCut /\ shTool' = "succeeded" /\ shOutput' = "cut"
            \/ length > ShCut /\ shTool' = "panicked" /\ UNCHANGED shOutput
      BY <1>4 DEF ShSucceed
    <2>2. /\ shTool = "waiting" /\ "leader" \notin shAlive
          /\ UNCHANGED <<shServer, shProcesses, shWritten, shRead, shFaulted>>
      BY <1>4 DEF ShSucceed
    <2> QED
      BY <2>1, <2>2
  <1>5. CASE ShWaitFails
    BY <1>5 DEF ShWaitFails, Kill
  <1>6. CASE ShTimesOut
    BY <1>6 DEF ShTimesOut, Kill
  <1>7. CASE ShKilled
    BY <1>7 DEF ShKilled, Kill
  <1>8. CASE ShDropped
    BY <1>8 DEF ShDropped, Kill
  <1>9. CASE ShServerDies
    BY <1>9 DEF ShServerDies, Kill
  <1>10. CASE ShFork
    BY <1>10 DEF ShFork
  <1>11. CASE ShLeaveGroup
    BY <1>11 DEF ShLeaveGroup
  <1>12. ASSUME NEW q \in {"leader", "kin"}, ShClose(q) PROVE ShIInv'
    BY <1>12 DEF ShClose
  <1>13. ASSUME NEW q \in {"leader", "kin"}, ShWrite(q) PROVE ShIInv'
    BY <1>13 DEF ShWrite
  <1>14. ASSUME NEW q \in {"leader", "kin"}, ShExit(q) PROVE ShIInv'
    BY <1>14 DEF ShExit, Kill
  <1>15. CASE ShReadFails
    BY <1>15 DEF ShReadFails
  <1>16. CASE UNCHANGED shVars
    BY <1>16 DEF shVars
  <1> QED
    BY <1>1, <1>2, <1>3, <1>4, <1>5, <1>6, <1>7, <1>8, <1>9, <1>10, <1>11,
       <1>12, <1>13, <1>14, <1>15, <1>16
       DEF ShNext

LEMMA ShInvariance == ShSpec => []ShIInv
  BY ShInitially, ShStep, PTL DEF ShSpec

\* What is read stays within the cap, and the pipes belong to the living.
THEOREM ShTypeCorrect == ShSpec => []ShTypeOK
  BY ShInvariance, PTL DEF ShIInv

\* Of a call that fails nobody is left in the group, and while the server
\* lives nobody but who has left the group; but for a call that panics after
\* the command has ended, which can only be one with a text that is too long.
THEOREM FailureKillsGroup == ShSpec => []NoneSurvivesFailure
  BY ShInvariance, PTL DEF ShIInv

\* A success that was not cut was read to the end, or to a failed read.
THEOREM SuccessIsComplete == ShSpec => []SuccessIsWhole
  BY ShInvariance, PTL DEF ShIInv

-----------------------------------------------------------------------------
(***************************************************************************)
(* ConfigFile.  The inductive invariant: a run that has read the file to   *)
(* compare it, and was not disturbed since, has read what is in the file,  *)
(* and once it has compared it, so is the backup; and what a run works on  *)
(* is the file as it is, for as long as nobody disturbs it.                *)
(***************************************************************************)
CfBackedUp ==
    \A s \in CfSetups :
        /\ setup[s] = "reread" => original[s] = config \/ disturbed[s] = "since"
        /\ setup[s] \in {"merging", "temp"} => ReplacedIsBackedUp(s)

CfUnderWay == {"parsed", "copying", "copied", "reread", "merging"}

CfWhole == IF config = CfAbsent THEN CfEmpty ELSE config

CfUpToDate ==
    \A s \in CfSetups : disturbed[s] = "no" =>
        /\ setup[s] \in CfUnderWay => doc[s] = CfWhole
        /\ setup[s] = "temp" => doc[s] = CfMerged(CfWhole)

CfIInv == CfTypeOK /\ CfBackedUp /\ CfUpToDate

\* Who the steps of run s disturb: it alone knows of what it does itself.
LEMMA CfOthersDisturbed ==
    ASSUME CfTypeOK, NEW S \in SUBSET CfSetups, CfDisturbs(S)
    PROVE  /\ disturbed' \in [CfSetups -> {"no", "before", "since"}]
           /\ \A t \in S : disturbed'[t] = disturbed[t]
           /\ \A t \in CfSetups :
                /\ disturbed[t] = "since" => disturbed'[t] = "since"
                /\ disturbed'[t] = "no" => disturbed[t] = "no"
                /\ t \notin S /\ CfHasReread(t) => disturbed'[t] = "since"
                /\ t \notin S /\ setup[t] \in CfUnderWay \cup {"temp"}
                     => disturbed'[t] # "no"
<1> USE DEF CfTypeOK, CfDisturbs, CfHasReread, CfOver, CfPlaces, CfUnderWay
<1>1. disturbed' \in [CfSetups -> {"no", "before", "since"}]
  OBVIOUS
<1>2. \A t \in S : disturbed'[t] = disturbed[t]
  OBVIOUS
<1>3. ASSUME NEW t \in CfSetups
      PROVE  /\ disturbed[t] = "since" => disturbed'[t] = "since"
             /\ disturbed'[t] = "no" => disturbed[t] = "no"
             /\ t \notin S /\ CfHasReread(t) => disturbed'[t] = "since"
             /\ t \notin S /\ setup[t] \in CfUnderWay \cup {"temp"}
                  => disturbed'[t] # "no"
  OBVIOUS
<1> QED
  BY <1>1, <1>2, <1>3

\* A content stays one when it is torn or merged.
LEMMA CfContents ==
    /\ CfAbsent \notin CfContent
    /\ CfEmpty \in CfContent
    /\ \A c \in CfContent : [c EXCEPT !.form = "torn"] \in CfContent
    /\ \A c \in CfContent \cup {CfAbsent} : CfMerged(c) \in CfContent \cup {CfAbsent}
<1> USE CfAssumption DEF CfContent, CfForms, CfAbsent, CfMerged
<1>1. CfAbsent \notin CfContent
  OBVIOUS
<1>2. CfEmpty \in CfContent
  BY DEF CfEmpty
<1>3. ASSUME NEW c \in CfContent PROVE [c EXCEPT !.form = "torn"] \in CfContent
  OBVIOUS
<1>4. ASSUME NEW c \in CfContent \cup {CfAbsent}
      PROVE  CfMerged(c) \in CfContent \cup {CfAbsent}
  <2>1. CASE c.form = "object"
    <3>1. c \in CfContent
      BY <2>1
    <3>2. [c EXCEPT !.entry = TRUE] \in CfContent
      BY <3>1, Zenon
    <3> QED
      BY <2>1, <3>2
  <2> QED
    BY <2>1
<1> QED
  BY <1>1, <1>2, <1>3, <1>4

\* Types are respected by every step.
LEMMA CfTypeStep == CfTypeOK /\ [CfNext]_cfVars => CfTypeOK'
<1> SUFFICES ASSUME CfTypeOK, [CfNext]_cfVars PROVE CfTypeOK'
  OBVIOUS
<1> USE CfAssumption DEF CfTypeOK, CfOver, CfPlaces, CfGoes
<1>1. ASSUME NEW s \in CfSetups, CfStart(s) PROVE CfTypeOK'
  BY <1>1 DEF CfStart
<1>2. ASSUME NEW s \in CfSetups, CfRead(s) PROVE CfTypeOK'
  BY <1>2, CfContents DEF CfRead
<1>3. ASSUME NEW s \in CfSetups, CfCopyStarts(s) \/ CfCopyEnds(s) PROVE CfTypeOK'
  <2>1. disturbed' \in [CfSetups -> {"no", "before", "since"}]
    BY <1>3, CfOthersDisturbed DEF CfCopyStarts, CfCopyEnds
  <2>2. backup' \in CfContent \cup {CfAbsent}
    BY <1>3, CfContents DEF CfCopyStarts, CfCopyEnds
  <2>3. setup' \in [CfSetups -> CfPlaces]
    BY <1>3 DEF CfCopyStarts, CfCopyEnds
  <2>4. original' \in [CfSetups -> CfContent \cup {CfAbsent}]
    BY <1>3 DEF CfCopyStarts, CfCopyEnds
  <2>5. UNCHANGED <<config, hasDir, key, saves, doc>>
    BY <1>3 DEF CfCopyStarts, CfCopyEnds
  <2> QED
    BY <2>1, <2>2, <2>3, <2>4, <2>5
<1>4. ASSUME NEW s \in CfSetups,
             CfReread(s) \/ CfVerify(s) \/ CfNoBackup(s) \/ CfFail(s) \/ CfDie(s)
      PROVE  CfTypeOK'
  BY <1>4 DEF CfReread, CfVerify, CfNoBackup, CfFail, CfDie
<1>5. ASSUME NEW s \in CfSetups, CfWriteTemp(s) PROVE CfTypeOK'
  BY <1>5, CfContents DEF CfWriteTemp
<1>6. ASSUME NEW s \in CfSetups, CfRename(s) PROVE CfTypeOK'
  <2>1. disturbed' \in [CfSetups -> {"no", "before", "since"}]
    BY <1>6, CfOthersDisturbed DEF CfRename
  <2>2. /\ config' = doc[s] /\ setup' = [setup EXCEPT ![s] = "done"]
        /\ UNCHANGED <<backup, hasDir, key, saves, doc, original>>
    BY <1>6 DEF CfRename
  <2> QED
    BY <2>1, <2>2
<1>7. CASE IdeSaves
  <2>1. disturbed' \in [CfSetups -> {"no", "before", "since"}]
    BY <1>7, CfOthersDisturbed DEF IdeSaves
  <2>2. config' \in CfContent /\ saves' \in 0 .. CfSaves
    <3>1. saves + 1 \in 0 .. CfSaves
      BY <1>7 DEF IdeSaves
    <3>2. config.entry \in BOOLEAN
      <4>1. CASE config \in CfContent
        BY <4>1 DEF CfContent
      <4>2. CASE config = CfAbsent
        BY <4>2 DEF CfAbsent
      <4> QED
        BY <4>1, <4>2
    <3> QED
      BY <1>7, <3>1, <3>2 DEF IdeSaves, CfContent, CfForms
  <2> QED
    BY <1>7, <2>1, <2>2 DEF IdeSaves
<1>8. CASE UNCHANGED cfVars
  BY <1>8 DEF cfVars
<1> QED
  BY <1>1, <1>2, <1>3, <1>4, <1>5, <1>6, <1>7, <1>8
     DEF CfNext, ConfigureMcpJson, ConfigureZedJson, CfStep

\* Every change of the file or of its backup is marked on the runs that have
\* read the file to compare it, but for the one that makes it, which has not
\* yet done so or is done.
LEMMA CfBackedUpStep == CfIInv /\ [CfNext]_cfVars => CfBackedUp'
<1> SUFFICES ASSUME CfIInv, [CfNext]_cfVars, NEW t \in CfSetups
             PROVE  /\ setup'[t] = "reread" =>
                          original'[t] = config' \/ disturbed'[t] = "since"
                    /\ setup'[t] \in {"merging", "temp"} =>
                          config' \in {backup', CfAbsent} \/ disturbed'[t] = "since"
  BY DEF CfBackedUp, ReplacedIsBackedUp
<1> USE DEF CfIInv, CfTypeOK, CfOver, CfPlaces, CfGoes
<1> DEFINE Goal ==
      /\ setup'[t] = "reread" => original'[t] = config' \/ disturbed'[t] = "since"
      /\ setup'[t] \in {"merging", "temp"} =>
            config' \in {backup', CfAbsent} \/ disturbed'[t] = "since"
<1>0. /\ setup[t] = "reread" => original[t] = config \/ disturbed[t] = "since"
      /\ setup[t] \in {"merging", "temp"} =>
            config \in {backup, CfAbsent} \/ disturbed[t] = "since"
  BY DEF CfBackedUp, ReplacedIsBackedUp
<1>1. ASSUME NEW s \in CfSetups,
             CfStart(s) \/ CfRead(s) \/ CfWriteTemp(s) \/ CfFail(s) \/ CfDie(s)
      PROVE  Goal
  <2>1. UNCHANGED <<config, backup, original, disturbed>>
    BY <1>1 DEF CfStart, CfRead, CfWriteTemp, CfFail, CfDie
  <2>2. /\ setup'[t] = "reread" => setup[t] = "reread"
        /\ setup'[t] \in {"merging", "temp"} => setup[t] \in {"merging", "temp"}
    BY <1>1 DEF CfStart, CfRead, CfWriteTemp, CfFail, CfDie
  <2> QED
    BY <1>0, <2>1, <2>2
<1>2. ASSUME NEW s \in CfSetups, CfCopyStarts(s) \/ CfCopyEnds(s) \/ CfRename(s)
      PROVE  Goal
  <2>1. CASE t = s
    BY <1>2, <2>1 DEF CfCopyStarts, CfCopyEnds, CfRename
  <2>2. CASE t # s
    <3>1. CfDisturbs({s}) /\ setup'[t] = setup[t]
      BY <1>2, <2>2 DEF CfCopyStarts, CfCopyEnds, CfRename
    <3>2. CfHasReread(t) => disturbed'[t] = "since"
      BY <2>2, <3>1, CfOthersDisturbed
    <3> QED
      BY <3>1, <3>2 DEF CfHasReread
  <2> QED
    BY <2>1, <2>2
<1>3. ASSUME NEW s \in CfSetups, CfReread(s) PROVE Goal
  BY <1>0, <1>3 DEF CfReread
<1>4. ASSUME NEW s \in CfSetups, CfVerify(s) PROVE Goal
  <2>1. UNCHANGED <<config, backup, original, disturbed>>
    BY <1>4 DEF CfVerify
  <2>2. CASE t = s
    <3>1. setup[t] = "reread" /\ setup'[t] \in {"merging", "failed"}
      BY <1>4, <2>2 DEF CfVerify
    <3>2. setup'[t] = "merging" => backup = original[t]
      BY <1>4, <2>2 DEF CfVerify
    <3> QED
      BY <1>0, <2>1, <3>1, <3>2
  <2>3. CASE t # s
    <3>1. setup'[t] = setup[t]
      BY <1>4, <2>3 DEF CfVerify
    <3> QED
      BY <1>0, <2>1, <3>1
  <2> QED
    BY <2>2, <2>3
<1>5. ASSUME NEW s \in CfSetups, CfNoBackup(s) PROVE Goal
  BY <1>0, <1>5 DEF CfNoBackup
<1>6. CASE IdeSaves
  <2>1. CfDisturbs({}) /\ setup' = setup
    BY <1>6 DEF IdeSaves
  <2>2. CfHasReread(t) => disturbed'[t] = "since"
    BY <2>1, CfOthersDisturbed
  <2> QED
    BY <2>1, <2>2 DEF CfHasReread
<1>7. CASE UNCHANGED cfVars
  BY <1>0, <1>7 DEF cfVars
<1> QED
  BY <1>1, <1>2, <1>3, <1>4, <1>5, <1>6, <1>7
     DEF CfNext, ConfigureMcpJson, ConfigureZedJson, CfStep

\* What an undisturbed run works on is the file, merged or not.
LEMMA CfUpToDateStep == CfIInv /\ [CfNext]_cfVars => CfUpToDate'
<1> SUFFICES ASSUME CfIInv, [CfNext]_cfVars, NEW t \in CfSetups,
                    disturbed'[t] = "no"
             PROVE  CfUpToDate!(t)!2'
  BY DEF CfUpToDate
<1> USE DEF CfIInv, CfTypeOK, CfOver, CfPlaces, CfUnderWay, CfGoes
<1>0. disturbed[t] = "no" => CfUpToDate!(t)!2
  BY DEF CfUpToDate
<1>1. ASSUME UNCHANGED <<config, disturbed, doc>>,
             setup'[t] \in CfUnderWay =>
                setup[t] \in CfUnderWay,
             setup'[t] = "temp" => setup[t] = "temp"
      PROVE  CfUpToDate!(t)!2'
  BY <1>0, <1>1 DEF CfWhole
<1>2. ASSUME NEW s \in CfSetups,
             CfStart(s) \/ CfReread(s) \/ CfVerify(s) \/ CfNoBackup(s) \/ CfFail(s) \/ CfDie(s)
      PROVE  CfUpToDate!(t)!2'
  <2>1. UNCHANGED <<config, disturbed, doc>>
    BY <1>2 DEF CfStart, CfReread, CfVerify, CfNoBackup, CfFail, CfDie
  <2>2. /\ setup'[t] \in CfUnderWay =>
             setup[t] \in CfUnderWay
        /\ setup'[t] = "temp" => setup[t] = "temp"
    BY <1>2 DEF CfStart, CfReread, CfVerify, CfNoBackup, CfFail, CfDie
  <2> QED
    BY <1>1, <2>1, <2>2
<1>3. ASSUME NEW s \in CfSetups, CfRead(s) PROVE CfUpToDate!(t)!2'
  <2>1. UNCHANGED <<config, disturbed>>
    BY <1>3 DEF CfRead
  <2>2. CASE t = s
    <3>1. setup'[t] \in {"parsed", "failed"} /\ (setup'[t] = "parsed" => doc'[t] = CfWhole)
      BY <1>3, <2>2 DEF CfRead, CfWhole
    <3> QED
      BY <2>1, <3>1 DEF CfWhole
  <2>3. CASE t # s
    <3>1. setup'[t] = setup[t] /\ doc'[t] = doc[t]
      BY <1>3, <2>3 DEF CfRead
    <3> QED
      BY <1>0, <2>1, <3>1 DEF CfWhole
  <2> QED
    BY <2>2, <2>3
<1>4. ASSUME NEW s \in CfSetups, CfCopyStarts(s) \/ CfCopyEnds(s) \/ CfRename(s)
      PROVE  CfUpToDate!(t)!2'
  <2>1. CfDisturbs({s}) /\ doc' = doc
    BY <1>4 DEF CfCopyStarts, CfCopyEnds, CfRename
  <2>2. CASE t = s
    <3>1. disturbed[t] = "no"
      BY <2>1, <2>2, CfOthersDisturbed
    <3>2. CASE CfCopyStarts(s) \/ CfCopyEnds(s)
      <4>1. /\ config' = config /\ setup[t] \in {"parsed", "copying"}
            /\ setup'[t] \in {"copying", "copied"}
        BY <2>2, <3>2 DEF CfCopyStarts, CfCopyEnds
      <4> QED
        BY <1>0, <2>1, <3>1, <4>1 DEF CfWhole
    <3>3. CASE CfRename(s)
      BY <2>2, <3>3 DEF CfRename
    <3> QED
      BY <1>4, <3>2, <3>3
  <2>3. CASE t # s
    <3>1. setup'[t] = setup[t]
      BY <1>4, <2>3 DEF CfCopyStarts, CfCopyEnds, CfRename
    <3>2. setup[t] \notin CfUnderWay \cup {"temp"}
      BY <2>1, <2>3, CfOthersDisturbed
    <3> QED
      BY <3>1, <3>2
  <2> QED
    BY <2>2, <2>3
<1>5. ASSUME NEW s \in CfSetups, CfWriteTemp(s) PROVE CfUpToDate!(t)!2'
  <2>1. UNCHANGED <<config, disturbed>>
    BY <1>5 DEF CfWriteTemp
  <2>2. CASE t = s
    <3>1. setup[t] = "merging" /\ setup'[t] = "temp" /\ doc'[t] = CfMerged(doc[t])
      BY <1>5, <2>2 DEF CfWriteTemp
    <3> QED
      BY <1>0, <2>1, <3>1 DEF CfWhole
  <2>3. CASE t # s
    <3>1. setup'[t] = setup[t] /\ doc'[t] = doc[t]
      BY <1>5, <2>3 DEF CfWriteTemp
    <3> QED
      BY <1>0, <2>1, <3>1 DEF CfWhole
  <2> QED
    BY <2>2, <2>3
<1>6. CASE IdeSaves
  <2>1. CfDisturbs({}) /\ setup' = setup
    BY <1>6 DEF IdeSaves
  <2>2. setup[t] \notin CfUnderWay \cup {"temp"}
    BY <2>1, CfOthersDisturbed
  <2> QED
    BY <2>1, <2>2
<1>7. CASE UNCHANGED cfVars
  BY <1>1, <1>7 DEF cfVars
<1> QED
  BY <1>2, <1>3, <1>4, <1>5, <1>6, <1>7
     DEF CfNext, ConfigureMcpJson, ConfigureZedJson, CfStep

\* What merging does to a content, and to none.
LEMMA CfMergedFields ==
    /\ \A c \in CfContent :
         /\ CfMerged(c).save = c.save
         /\ CfMerged(c).form = c.form
         /\ c.form = "object" => CfMerged(c).entry
    /\ CfMerged(CfEmpty) = [CfEmpty EXCEPT !.entry = TRUE]
<1>1. ASSUME NEW c \in CfContent, c.form = "object"
      PROVE  CfMerged(c).save = c.save /\ CfMerged(c).form = c.form /\ CfMerged(c).entry
  <2>1. CfMerged(c) = [c EXCEPT !.entry = TRUE]
    BY <1>1 DEF CfMerged
  <2>2. DOMAIN c = {"form", "save", "entry"}
    BY DEF CfContent
  <2> QED
    BY <2>1, <2>2
<1>2. ASSUME NEW c \in CfContent, c.form # "object" PROVE CfMerged(c) = c
  BY <1>2 DEF CfMerged
<1>3. CfMerged(CfEmpty) = [CfEmpty EXCEPT !.entry = TRUE]
  <2>1. CfEmpty.form = "object"
    BY DEF CfEmpty
  <2> QED
    BY <2>1 DEF CfMerged
<1> QED
  BY <1>1, <1>2, <1>3

\* The inductive invariant holds throughout.
LEMMA CfInvariance == CfSpec => []CfIInv
<1>1. CfInit => CfIInv
  <2> SUFFICES ASSUME CfInit PROVE CfIInv
    OBVIOUS
  <2>1. config \in CfContent \cup {CfAbsent}
    <3>1. [form : CfForms \ {"torn"}, save : {0}, entry : {FALSE}] \subseteq CfContent
      <4>1. 0 \in 0 .. CfSaves
        BY CfAssumption
      <4> QED
        BY <4>1, Zenon DEF CfContent
    <3>2. config \in {CfAbsent} \cup [form : CfForms \ {"torn"}, save : {0}, entry : {FALSE}]
      BY DEF CfInit
    <3> QED
      BY <3>1, <3>2
  <2>2. hasDir \in BOOLEAN
    BY Zenon DEF CfInit
  <2>3. setup \in [CfSetups -> CfPlaces]
    BY DEF CfInit, CfPlaces
  <2>4. {doc, original} \subseteq [CfSetups -> CfContent \cup {CfAbsent}]
    BY DEF CfInit
  <2>5. CfTypeOK
    <3>1. saves \in 0 .. CfSaves /\ backup = CfAbsent
      BY CfAssumption DEF CfInit
    <3>2. key \in {"mcpServers", "context_servers"}
      BY DEF CfInit
    <3>3. disturbed \in [CfSetups -> {"no", "before", "since"}]
      BY DEF CfInit
    <3> QED
      BY <2>1, <2>2, <2>3, <2>4, <3>1, <3>2, <3>3 DEF CfTypeOK
  <2>6. CfBackedUp /\ CfUpToDate
    <3>1. \A s \in CfSetups : setup[s] = "idle"
      BY DEF CfInit
    <3> QED
      BY <3>1 DEF CfBackedUp, CfUpToDate, CfUnderWay
  <2> QED
    BY <2>5, <2>6 DEF CfIInv
<1>2. CfIInv /\ [CfNext]_cfVars => CfIInv'
  BY CfTypeStep, CfBackedUpStep, CfUpToDateStep DEF CfIInv
<1> QED
  BY <1>1, <1>2, PTL DEF CfSpec

\* What a setup has read and writes is a document the IDE can have.
THEOREM CfTypeCorrect == CfSpec => []CfTypeOK
  BY CfInvariance, PTL DEF CfIInv

\* However many setups and saves of the IDE interleave, and wherever a setup
\* fails or dies: what is replaced is in the backup unless one of the two was
\* written after the run's last reading of the file, and an undisturbed run adds its entry and nothing else.
THEOREM SetupKeepsContents == CfSpec => SetupPreserves
<1> DEFINE Preserves ==
      \A s \in CfSetups : Replaces(s) => ReplacedIsBackedUp(s) /\ AddsItsEntry(s)
<1>1. ASSUME CfIInv, [CfNext]_cfVars PROVE Preserves
  <2> SUFFICES ASSUME NEW s \in CfSetups, Replaces(s)
               PROVE  ReplacedIsBackedUp(s) /\ AddsItsEntry(s)
    OBVIOUS
  <2>1. ReplacedIsBackedUp(s)
    BY <1>1 DEF CfIInv, CfBackedUp, Replaces
  <2>2. config' = doc[s]
    BY <1>1 DEF CfIInv, CfTypeOK, Replaces, CfNext, ConfigureMcpJson,
                ConfigureZedJson, CfStep, CfStart, CfRead, CfCopyStarts, CfCopyEnds,
                CfReread, CfVerify,
                CfNoBackup, CfWriteTemp, CfRename, CfFail, CfDie, CfGoes,
                IdeSaves, cfVars
  <2>3. disturbed[s] = "no" => config' = CfMerged(CfWhole)
    BY <1>1, <2>2 DEF CfIInv, CfUpToDate, Replaces
  <2>4. AddsItsEntry(s)
    BY <1>1, <2>3, CfMergedFields DEF CfIInv, CfTypeOK, AddsItsEntry, CfWhole
  <2> QED
    BY <2>1, <2>4
<1>2. CfIInv /\ [CfNext]_cfVars => [Preserves]_cfVars
  BY <1>1
<1> QED
  BY <1>2, CfInvariance, PTL DEF CfSpec, SetupPreserves

-----------------------------------------------------------------------------
(***************************************************************************)
(* Clients.  The inductive invariant.  Requests and their responses stay   *)
(* in the order of their numbers (Ordered).  What is in the pipes was sent *)
(* to the present process, and nobody has had it for an answer (Sent); of  *)
(* requests that take the next line there is one at a time (OneByOne).     *)
(***************************************************************************)
Elements(s) == {s[i] : i \in 1 .. Len(s)}
Rising(s) == \A i, j \in 1 .. Len(s) : i < j => s[i] < s[j]

InPipes == Elements(clLines) \cup Elements(clSent)

Ordered ==
    /\ Rising(clLines) /\ Rising(clSent)
    /\ \A x \in Elements(clLines), y \in Elements(clSent) : x < y
    /\ 0 \in Elements(clLines) => clSdk = "php"
    /\ clProcess # "up" => clSent = <<>>

Sent ==
    \A x \in InPipes \cap Calls :
        /\ clCalls[x].how \in {"waiting", "answered", "timeout"}
        /\ clSdk # "node" => clCalls[x].start = clStarts
        /\ \A r \in Answered : clCalls[r].of # x

OneByOne ==
    /\ \A r \in Calls : \A q \in 1 .. r - 1 :
          clCalls[q].how = "new" => clCalls[r].how = "new"
    /\ clSdk # "node" =>
          \A r \in Waiting : \A q \in Calls : q > r => clCalls[q].how = "new"

ClIInv == ClTypeOK /\ Ordered /\ Sent /\ OneByOne /\ AnswersAreOwn

(***************************************************************************)
(* What is in a pipe when something is put into it or taken out.           *)
(***************************************************************************)
LEMMA PutIn ==
    ASSUME NEW S \in SUBSET Int, NEW s \in Seq(S), NEW e \in S
    PROVE  /\ Append(s, e) \in Seq(S)
           /\ Elements(Append(s, e)) = Elements(s) \cup {e}
           /\ Rising(s) /\ (\A x \in Elements(s) : x < e) => Rising(Append(s, e))
<1>1. /\ Append(s, e) \in Seq(S)
      /\ Len(Append(s, e)) = Len(s) + 1
      /\ \A i \in 1 .. Len(s) : Append(s, e)[i] = s[i]
      /\ Append(s, e)[Len(s) + 1] = e
  BY AppendProperties
<1>2. Len(s) \in Nat
  BY LenProperties
<1>3. Elements(Append(s, e)) = Elements(s) \cup {e}
  BY <1>1, <1>2 DEF Elements
<1>4. Rising(s) /\ (\A x \in Elements(s) : x < e) => Rising(Append(s, e))
  <2> SUFFICES ASSUME Rising(s), \A x \in Elements(s) : x < e,
                      NEW i \in 1 .. Len(s) + 1, NEW j \in 1 .. Len(s) + 1, i < j
               PROVE  Append(s, e)[i] < Append(s, e)[j]
    BY <1>1 DEF Rising
  <2>1. i \in 1 .. Len(s) /\ Append(s, e)[i] = s[i] /\ s[i] \in Elements(s)
    BY <1>1, <1>2 DEF Elements
  <2>2. CASE j = Len(s) + 1
    BY <1>1, <2>1, <2>2
  <2>3. CASE j # Len(s) + 1
    BY <1>1, <1>2, <2>1, <2>3 DEF Rising
  <2> QED
    BY <2>2, <2>3
<1> QED
  BY <1>1, <1>3, <1>4

\* The first of a pipe is taken out.
LEMMA TakenOut ==
    ASSUME NEW S \in SUBSET Int, NEW s \in Seq(S), s # <<>>
    PROVE  /\ Tail(s) \in Seq(S)
           /\ Head(s) \in Elements(s) /\ Head(s) \in S
           /\ Elements(s) = Elements(Tail(s)) \cup {Head(s)}
           /\ Rising(s) => /\ Rising(Tail(s))
                           /\ \A x \in Elements(Tail(s)) : Head(s) < x
<1>1. /\ Tail(s) \in Seq(S)
      /\ Head(s) = s[1] /\ Head(s) \in S
      /\ Len(s) \in Nat \ {0}
      /\ Len(Tail(s)) = Len(s) - 1
      /\ \A i \in 1 .. Len(Tail(s)) : Tail(s)[i] = s[i + 1]
  BY HeadTailProperties, EmptySeq, LenProperties
<1>2. Head(s) \in Elements(s)
  BY <1>1 DEF Elements
<1>3. Elements(s) = Elements(Tail(s)) \cup {Head(s)}
  <2>1. \A i \in 1 .. Len(s) : i = 1 \/ (i - 1 \in 1 .. Len(Tail(s)) /\ s[i] = Tail(s)[i - 1])
    BY <1>1
  <2>2. \A i \in 1 .. Len(Tail(s)) : i + 1 \in 1 .. Len(s)
    BY <1>1
  <2> QED
    BY <1>1, <1>2, <2>1, <2>2 DEF Elements
<1>4. Rising(s) => Rising(Tail(s)) /\ \A x \in Elements(Tail(s)) : Head(s) < x
  <2>1. \A i \in 1 .. Len(Tail(s)) : i + 1 \in 1 .. Len(s) /\ 1 < i + 1
    BY <1>1
  <2>2. \A i, j \in 1 .. Len(Tail(s)) : i < j => i + 1 < j + 1
    BY <1>1
  <2> QED
    BY <1>1, <2>1, <2>2 DEF Rising, Elements
<1> QED
  BY <1>1, <1>2, <1>3, <1>4

\* The rest of a line takes the place of the line.
LEMMA PartTaken ==
    ASSUME NEW S \in SUBSET Nat, NEW s \in Seq(S \cup {0}), s # <<>>, Rising(s)
    PROVE  /\ <<0>> \o Tail(s) \in Seq(S \cup {0})
           /\ Elements(<<0>> \o Tail(s)) = Elements(Tail(s)) \cup {0}
           /\ Rising(<<0>> \o Tail(s))
<1> DEFINE t == Tail(s)
           u == <<0>> \o t
<1>0. S \cup {0} \in SUBSET Int /\ \A x \in S \cup {0} : x \in Nat
  OBVIOUS
<1>1. /\ t \in Seq(S \cup {0}) /\ Head(s) \in S \cup {0}
      /\ \A x \in Elements(t) : Head(s) < x
      /\ Rising(t)
  BY <1>0, TakenOut
<1>2. <<0>> \in Seq(S \cup {0}) /\ Len(<<0>>) = 1 /\ <<0>>[1] = 0
  OBVIOUS
<1>3. /\ u \in Seq(S \cup {0})
      /\ Len(t) \in Nat /\ Len(u) = 1 + Len(t)
      /\ \A i \in 1 .. Len(u) : u[i] = IF i <= 1 THEN 0 ELSE t[i - 1]
  <2> HIDE DEF t
  <2> QED
    BY <1>1, <1>2, ConcatProperties, LenProperties
<1> HIDE DEF u, t
<1>4. \A i \in 1 .. Len(u) : i = 1 \/ (i - 1 \in 1 .. Len(t) /\ u[i] = t[i - 1])
  BY <1>3
<1>5. \A i \in 1 .. Len(t) : i + 1 \in 1 .. Len(u) /\ u[i + 1] = t[i]
  BY <1>3
<1>6. 1 \in 1 .. Len(u) /\ u[1] = 0
  BY <1>3
<1>7. Elements(u) = Elements(t) \cup {0}
  BY <1>4, <1>5, <1>6 DEF Elements
<1>8. \A i \in 1 .. Len(t) : t[i] > 0
  <2> SUFFICES ASSUME NEW i \in 1 .. Len(t) PROVE t[i] > 0
    OBVIOUS
  <2>1. Head(s) \in Nat /\ Head(s) < t[i]
    BY <1>0, <1>1 DEF Elements
  <2>2. t[i] \in S \cup {0}
    BY <1>1, ElementOfSeq
  <2>3. t[i] \in Int
    BY <1>0, <2>2
  <2> QED
    BY <2>1, <2>3
<1>9. Rising(u)
  <2> SUFFICES ASSUME NEW i \in 1 .. Len(u), NEW j \in 1 .. Len(u), i < j
               PROVE  u[i] < u[j]
    BY DEF Rising
  <2>1. j - 1 \in 1 .. Len(t) /\ u[j] = t[j - 1]
    BY <1>3
  <2>2. CASE i = 1
    BY <1>6, <1>8, <2>1, <2>2
  <2>3. CASE i # 1
    <3>1. i - 1 \in 1 .. Len(t) /\ u[i] = t[i - 1] /\ i - 1 < j - 1
      BY <1>3, <2>3
    <3> QED
      BY <1>1, <2>1, <3>1 DEF Rising
  <2> QED
    BY <2>2, <2>3
<1> QED
  BY <1>3, <1>7, <1>9 DEF u, t

\* What is in a pipe is of the pipe's type.
LEMMA InPipe ==
    ASSUME NEW S, NEW s \in Seq(S)
    PROVE  Elements(s) \subseteq S
BY ElementOfSeq DEF Elements

\* An empty pipe.
LEMMA NothingInEmpty == Elements(<<>>) = {} /\ Rising(<<>>) /\ <<>> \in Seq(Calls)
BY EmptySeq DEF Elements, Rising

\* Responses are of requests, but for the rest of a line.
LEMMA PipesTyped ==
    ASSUME ClTypeOK
    PROVE  /\ Elements(clLines) \subseteq Calls \cup {0}
           /\ Elements(clSent) \subseteq Calls
           /\ Calls \subseteq Nat \ {0} /\ ClRequests \in Nat /\ ClStarts \in Nat
<1>1. ClRequests \in Nat /\ ClStarts \in Nat
  BY ClAssumption
<1> QED
  BY <1>1, InPipe DEF ClTypeOK, Calls

(***************************************************************************)
(* A step that answers nobody leaves the answers as they are.              *)
(***************************************************************************)
AsItIs(q) == clCalls'[q] = clCalls[q]
Settled == {q \in Calls : clCalls[q].how \in {"answered", "timeout"}}
OlderUnread(r) == {q \in 1 .. r : Unread(q) /\ clCalls[q].start = clCalls[r].start}

OwnOrLate(r) ==
    clCalls[r].of # r =>
        /\ clSdk # "node"
        /\ clCalls[r].of = 0 => clSdk = "php"
        /\ clCalls[r].of # 0 =>
             clCalls[r].of < r /\ \E q \in OlderUnread(r) : q <= clCalls[r].of

\* The property, for each answer and for pairs of them.
LEMMA AnswersAre ==
    AnswersAreOwn <=>
        /\ \A r \in Answered : OwnOrLate(r)
        /\ \A q, r \in Answered : clCalls[q].of = clCalls[r].of /\ q # r => clCalls[q].of = 0
BY DEF AnswersAreOwn, OwnOrLate, OlderUnread

\* What is settled stays, and so do the lines it left unread.
LEMMA UnreadStays ==
    ASSUME ClTypeOK, \A q \in Settled : AsItIs(q), NEW r \in Calls, r \in Settled
    PROVE  OlderUnread(r) \subseteq OlderUnread(r)'
<1>1. \A q \in 1 .. r : q \in Calls
  BY PipesTyped DEF Calls
<1> QED
  BY <1>1 DEF OlderUnread, Unread, Answered, Settled, AsItIs

\* An answer stays right.
LEMMA AnswerStays ==
    ASSUME ClTypeOK, AnswersAreOwn, clSdk' = clSdk, \A q \in Settled : AsItIs(q),
           NEW r \in Answered
    PROVE  OwnOrLate(r)' /\ AsItIs(r) /\ r \in Answered'
<1>1. r \in Calls /\ r \in Settled
  BY DEF Answered, Settled
<1>2. OlderUnread(r) \subseteq OlderUnread(r)'
  BY <1>1, UnreadStays
<1>3. OwnOrLate(r) /\ AsItIs(r)
  BY <1>1, AnswersAre
<1> QED
  BY <1>1, <1>2, <1>3 DEF OwnOrLate, AsItIs, Answered

\* Nor is the whole disturbed when nobody is answered.
LEMMA NoAnswer ==
    ASSUME ClTypeOK, AnswersAreOwn, clSdk' = clSdk, \A q \in Settled : AsItIs(q),
           Answered' = Answered
    PROVE  AnswersAreOwn'
<1>1. \A r \in Answered' : OwnOrLate(r)' /\ AsItIs(r)
  BY AnswerStays
<1>2. \A q, r \in Answered : clCalls[q].of = clCalls[r].of /\ q # r => clCalls[q].of = 0
  BY AnswersAre
<1>3. \A q, r \in Answered' :
         clCalls'[q].of = clCalls'[r].of /\ q # r => clCalls'[q].of = 0
  BY <1>1, <1>2 DEF AsItIs
<1> QED
  BY <1>1, <1>3 DEF AnswersAreOwn, OwnOrLate, OlderUnread

(***************************************************************************)
(* Requests, of any client.                                                *)
(***************************************************************************)
\* The new request is the last in the pipe.
LEMMA RequestStep ==
    ASSUME ClIInv, NEW r \in Calls, ClNext(r), Written(r) \/ WriteError(r),
           UNCHANGED <<clSdk, clProcess, clStarts, clLines>>, clReaders' \subseteq Calls
    PROVE  ClIInv'
<1> USE DEF ClIInv
<1>0. /\ Elements(clLines) \subseteq Calls \cup {0} /\ Elements(clSent) \subseteq Calls
      /\ Calls \subseteq Nat \ {0}
      /\ ClRequests \in Nat /\ ClStarts \in Nat /\ clStarts \in 0 .. ClStarts
  BY PipesTyped DEF ClTypeOK
<1>1. clSent' = clSent \/ (clSent' = Append(clSent, r) /\ clProcess = "up" /\ clCalls'[r].how = "waiting")
  BY DEF Written, WriteError, Becomes, ClTypeOK
<1>2. /\ clCalls[r].how = "new"
      /\ \A q \in Calls : clCalls[q].how # "new" => q < r
  <2>1. \A q \in Calls : q > r => r \in 1 .. q - 1
    BY <1>0 DEF Calls
  <2> QED
    BY <1>0, <2>1 DEF ClNext, OneByOne
<1>3. /\ \A q \in Calls \ {r} : AsItIs(q)
      /\ clCalls'[r].how \in {"waiting", "failed"} /\ clCalls'[r].start = clStarts
      /\ clCalls'[r] \in [how : {"new", "waiting", "answered", "timeout", "failed"},
                          of : 0 .. ClRequests, start : 0 .. ClStarts]
  BY <1>0 DEF Written, WriteError, Becomes, ClTypeOK, AsItIs
<1>4. \A x \in InPipes : x < r /\ x # r
  BY <1>0, <1>2 DEF InPipes, Sent
<1>5. ClTypeOK'
  <2>1. clSent \in Seq(Calls) /\ Append(clSent, r) \in Seq(Calls)
    BY AppendProperties DEF ClTypeOK
  <2>2. clCalls' \in [Calls -> [how : {"new", "waiting", "answered", "timeout", "failed"},
                               of : 0 .. ClRequests, start : 0 .. ClStarts]]
    BY <1>0 DEF Written, WriteError, Becomes, ClTypeOK
  <2> QED
    BY <1>1, <2>1, <2>2 DEF ClTypeOK
<1>6. /\ Elements(clSent') \subseteq Elements(clSent) \cup {r} /\ Rising(clSent')
      /\ r \in Elements(clSent') => clCalls'[r].how = "waiting"
  <2>1. CASE clSent' = clSent
    BY <1>4, <2>1 DEF Ordered, InPipes
  <2>2. CASE clSent' = Append(clSent, r) /\ clCalls'[r].how = "waiting"
    <3>1. Calls \in SUBSET Int /\ clSent \in Seq(Calls)
      BY <1>0 DEF ClTypeOK
    <3> QED
      BY <1>4, <2>2, <3>1, PutIn DEF Ordered, InPipes
  <2> QED
    BY <1>1, <2>1, <2>2
<1>7. Ordered'
  BY <1>1, <1>4, <1>6 DEF Ordered, InPipes
<1>8. Answered' = Answered
  BY <1>2, <1>3 DEF Answered, AsItIs
<1>9. \A q \in Answered : clCalls[q].of # r
  <2> SUFFICES ASSUME NEW q \in Answered, clCalls[q].of = r PROVE FALSE
    OBVIOUS
  <2>1. q \in Calls /\ q < r /\ q \in Nat /\ r \in Nat \ {0}
    BY <1>0, <1>2 DEF Answered
  <2>2. clCalls[q].of # q /\ clCalls[q].of # 0
    BY <2>1
  <2>3. clCalls[q].of < q
    BY <2>2 DEF AnswersAreOwn
  <2> QED
    BY <2>1, <2>3
<1>10. Sent'
  <2> SUFFICES ASSUME NEW x \in InPipes', x \in Calls
               PROVE  /\ clCalls'[x].how \in {"waiting", "answered", "timeout"}
                      /\ clSdk # "node" => clCalls'[x].start = clStarts
                      /\ \A q \in Answered : clCalls'[q].of # x
    BY <1>8 DEF Sent
  <2>1. \A q \in Answered : clCalls'[q].of = clCalls[q].of
    BY <1>2, <1>3 DEF Answered, AsItIs
  <2>2. CASE x = r
    <3>1. r \in Elements(clSent')
      BY <1>4, <2>2 DEF InPipes
    <3> QED
      BY <1>3, <1>6, <1>9, <2>1, <2>2, <3>1
  <2>3. CASE x # r
    <3>1. x \in InPipes /\ AsItIs(x)
      BY <1>3, <1>6, <2>3 DEF InPipes
    <3> QED
      BY <2>1, <3>1 DEF Sent, AsItIs
  <2> QED
    BY <2>2, <2>3
<1>11. OneByOne'
  <2>1. ASSUME NEW p \in Calls, NEW q \in 1 .. p - 1, clCalls'[q].how = "new"
        PROVE  clCalls'[p].how = "new"
    <3>1. q \in Calls /\ q < p
      BY <1>0 DEF Calls
    <3>2. q # r /\ clCalls[q].how = "new"
      BY <1>3, <2>1, <3>1 DEF AsItIs
    <3>3. p # r
      BY <3>1, <3>2 DEF ClNext
    <3> QED
      BY <1>3, <3>2, <3>3 DEF OneByOne, AsItIs
  <2>2. ASSUME clSdk # "node", NEW p \in Waiting', NEW q \in Calls, q > p
        PROVE  clCalls'[q].how = "new"
    <3>1. Waiting = {}
      BY <2>2 DEF ClNext, Unlocked
    <3>2. p = r
      BY <1>3, <2>2, <3>1 DEF Waiting, AsItIs
    <3>3. q # r /\ clCalls[q].how = "new"
      BY <1>0, <1>2, <2>2, <3>2
    <3> QED
      BY <1>3, <3>3 DEF AsItIs
  <2> QED
    BY <2>1, <2>2 DEF OneByOne
<1>12. AnswersAreOwn'
  <2>1. \A q \in Settled : AsItIs(q)
    BY <1>2, <1>3 DEF Settled
  <2> QED
    BY <1>8, <2>1, NoAnswer
<1> QED
  BY <1>5, <1>7, <1>10, <1>11, <1>12

(***************************************************************************)
(* Requests that end without an answer: r is told so, or nobody is.        *)
(***************************************************************************)
EndsUnanswered ==
    \/ UNCHANGED clCalls
    \/ \E r \in Waiting : Becomes(r, "timeout", 0)
    \/ InPipes = {} /\ \E r \in Waiting : Becomes(r, "failed", 0)

\* Its request stays settled; what is in the pipes may go with the process.
LEMMA EndStep ==
    ASSUME ClIInv, EndsUnanswered,
           clSent' = clSent \/ clSent' = <<>>, clLines' = clLines,
           clProcess' \in {"up", "gone", "stopped"},
           clProcess' = "up" => clProcess = "up", clProcess' # "up" => clSent' = <<>>,
           UNCHANGED <<clSdk, clStarts>>, clReaders' \subseteq Calls
    PROVE  ClIInv'
<1> USE DEF ClIInv
<1>0. /\ Elements(clLines) \subseteq Calls \cup {0} /\ Elements(clSent) \subseteq Calls
      /\ Calls \subseteq Nat \ {0}
      /\ ClRequests \in Nat /\ ClStarts \in Nat /\ clStarts \in 0 .. ClStarts
  BY PipesTyped DEF ClTypeOK
<1>1. /\ Elements(clSent') \subseteq Elements(clSent) /\ Rising(clSent')
      /\ clSent' \in Seq(Calls)
  BY NothingInEmpty DEF ClTypeOK, Ordered
<1>2. \A q \in Calls : ~AsItIs(q) =>
         /\ clCalls[q].how = "waiting"
         /\ clCalls'[q].how \in {"timeout", "failed"}
         /\ clCalls'[q].start = clStarts
         /\ clCalls'[q].how = "failed" => InPipes = {}
  BY DEF EndsUnanswered, Becomes, AsItIs, Waiting, ClTypeOK
<1>3. ClTypeOK'
  <2>1. clCalls' \in [Calls -> [how : {"new", "waiting", "answered", "timeout", "failed"},
                               of : 0 .. ClRequests, start : 0 .. ClStarts]]
    BY <1>0 DEF EndsUnanswered, Becomes, ClTypeOK
  <2> QED
    BY <1>1, <2>1 DEF ClTypeOK
<1>4. Ordered'
  BY <1>1 DEF Ordered
<1>5. Answered' = Answered /\ Waiting' \subseteq Waiting
  BY <1>2 DEF Answered, Waiting, AsItIs
<1>6. \A q \in Answered : AsItIs(q)
  BY <1>2 DEF Answered
<1>7. Sent'
  BY <1>1, <1>2, <1>5, <1>6 DEF Sent, InPipes, AsItIs
<1>8. OneByOne'
  <2>1. \A q \in Calls : clCalls'[q].how = "new" <=> clCalls[q].how = "new"
    BY <1>2 DEF AsItIs
  <2>2. \A p \in Calls : \A q \in 1 .. p - 1 : q \in Calls
    BY <1>0 DEF Calls
  <2> QED
    BY <1>5, <2>1, <2>2 DEF OneByOne
<1>9. AnswersAreOwn'
  <2>1. \A q \in Settled : AsItIs(q)
    BY <1>2 DEF Settled
  <2> QED
    BY <1>5, <2>1, NoAnswer
<1> QED
  BY <1>3, <1>4, <1>7, <1>8, <1>9

(***************************************************************************)
(* Lines that are taken for an answer.                                     *)
(***************************************************************************)
\* What a client that does not look at ids may get.
LEMMA LineIsOwnOrLate ==
    ASSUME ClIInv, NEW r \in Waiting, NEW x, Becomes(r, "answered", x), clSdk' = clSdk,
           clSdk # "node", (x = 0 /\ clSdk = "php") \/ x \in InPipes \cap Calls
    PROVE  AnswersAreOwn'
<1> USE DEF ClIInv
<1>0. /\ Calls \subseteq Nat \ {0} /\ ClRequests \in Nat
      /\ r \in Calls /\ clCalls[r].how = "waiting"
  BY PipesTyped DEF Waiting
<1>1. /\ \A q \in Calls \ {r} : AsItIs(q)
      /\ clCalls'[r] = [how |-> "answered", of |-> x, start |-> clStarts]
  BY <1>0 DEF Becomes, ClTypeOK, AsItIs
<1>2. \A q \in Settled : AsItIs(q)
  BY <1>0, <1>1 DEF Settled
<1>3. Answered' = Answered \cup {r} /\ r \notin Answered
  <2>1. \A q \in Calls : clCalls'[q].how = "answered" <=> clCalls[q].how = "answered" \/ q = r
    BY <1>0, <1>1 DEF AsItIs
  <2> QED
    BY <1>0, <2>1 DEF Answered
<1>4. \A q \in Answered : OwnOrLate(q)' /\ AsItIs(q)
  BY <1>2, AnswerStays
<1>5. ASSUME x # r, x # 0
      PROVE  /\ x < r
             /\ \E q \in 1 .. r : Unread(q)' /\ clCalls'[q].start = clStarts /\ q <= x
  <2>0. x \in InPipes /\ x \in Calls
    BY <1>5
  <2>1. /\ clCalls[x].how \in {"waiting", "answered", "timeout"}
        /\ clCalls[x].start = clStarts
        /\ \A q \in Answered : clCalls[q].of # x
    BY <2>0 DEF Sent
  <2>2. x < r
    BY <1>0, <1>5, <2>0, <2>1 DEF OneByOne
  <2>3. clCalls[x].how # "waiting"
    BY <1>0, <2>0, <2>2 DEF OneByOne, Waiting
  <2>4. x \in Settled
    BY <2>0, <2>1, <2>3 DEF Settled
  <2>5. \E q \in 1 .. x : Unread(q) /\ clCalls[q].start = clStarts
    <3>1. CASE Unread(x)
      BY <1>0, <2>0, <2>1, <3>1
    <3>2. CASE ~Unread(x)
      <4>1. x \in Answered /\ clCalls[x].of # 0 /\ clCalls[x].of # x
        BY <2>1, <2>4, <3>2 DEF Unread, Settled, Answered
      <4>2. \E q \in OlderUnread(x) : q <= clCalls[x].of
        BY <4>1, AnswersAre DEF OwnOrLate
      <4> QED
        BY <2>1, <4>2 DEF OlderUnread
    <3> QED
      BY <3>1, <3>2
  <2>6. PICK q \in 1 .. x : Unread(q) /\ clCalls[q].start = clStarts
    BY <2>5
  <2>7. q \in Calls /\ q \in 1 .. r /\ q <= x
    BY <1>0, <2>0, <2>2 DEF Calls
  <2>8. q \in Settled
    BY <2>6, <2>7 DEF Settled, Unread, Answered
  <2>9. Unread(q)' /\ clCalls'[q].start = clStarts
    BY <1>2, <1>3, <2>6, <2>8 DEF Unread, AsItIs
  <2> QED
    BY <2>2, <2>7, <2>9
<1>6. \A p, q \in Answered' :
         clCalls'[p].of = clCalls'[q].of /\ p # q => clCalls'[p].of = 0
  <2>1. \A p, q \in Answered : clCalls[p].of = clCalls[q].of /\ p # q => clCalls[p].of = 0
    BY AnswersAre
  <2>2. \A q \in Answered : clCalls[q].of = x => x = 0
    BY DEF Sent
  <2> QED
    BY <1>1, <1>3, <1>4, <2>1, <2>2 DEF AsItIs
<1>7. OwnOrLate(r)'
  <2>1. clCalls'[r].of = x /\ clCalls'[r].start = clStarts
    BY <1>1
  <2>2. CASE x = 0
    BY <1>0, <2>1, <2>2 DEF OwnOrLate
  <2>3. CASE x = r
    BY <2>1, <2>3 DEF OwnOrLate
  <2>4. CASE x # r /\ x # 0
    <3>1. PICK q \in 1 .. r : Unread(q)' /\ clCalls'[q].start = clStarts /\ q <= x
      BY <1>5, <2>4
    <3>2. q \in OlderUnread(r)' /\ q <= clCalls'[r].of
      BY <2>1, <3>1 DEF OlderUnread
    <3>3. clCalls'[r].of < r /\ clCalls'[r].of # 0
      BY <1>5, <2>1, <2>4
    <3> QED
      BY <3>2, <3>3 DEF OwnOrLate
  <2> QED
    BY <2>2, <2>3, <2>4
<1>8. \A q \in Answered' : OwnOrLate(q)'
  BY <1>3, <1>4, <1>7
<1> QED
  BY <1>6, <1>8 DEF AnswersAreOwn, OwnOrLate, OlderUnread

\* A line x, or a part of one (0), is taken, and answers one or nobody.
Answers(x) == UNCHANGED clCalls \/ \E r \in Waiting : Becomes(r, "answered", x)

LEMMA AnswerStep ==
    ASSUME ClIInv, NEW x, Answers(x),
           clSdk # "node", (x = 0 /\ clSdk = "php") \/ x \in InPipes \cap Calls,
           x # 0 => x \notin InPipes',
           clLines' \in Seq(Calls \cup {0}), Rising(clLines'),
           Elements(clLines') \subseteq Elements(clLines) \cup {0},
           0 \in Elements(clLines') => clSdk = "php",
           UNCHANGED <<clSdk, clProcess, clStarts, clSent>>, clReaders' \subseteq Calls
    PROVE  ClIInv'
<1> USE DEF ClIInv
<1>0. /\ Elements(clLines) \subseteq Calls \cup {0} /\ Elements(clSent) \subseteq Calls
      /\ Calls \subseteq Nat \ {0}
      /\ ClRequests \in Nat /\ ClStarts \in Nat /\ clStarts \in 0 .. ClStarts
      /\ x \in 0 .. ClRequests
  <2>1. x \in 0 .. ClRequests
    BY PipesTyped DEF Calls
  <2> QED
    BY <2>1, PipesTyped DEF ClTypeOK
<1>1. \A q \in Calls : ~AsItIs(q) =>
         /\ clCalls[q].how = "waiting"
         /\ clCalls'[q].how = "answered"
         /\ clCalls'[q].of = x
         /\ clCalls'[q].start = clStarts
  BY DEF Answers, Becomes, AsItIs, Waiting, ClTypeOK
<1>2. ClTypeOK'
  <2>1. clCalls' \in [Calls -> [how : {"new", "waiting", "answered", "timeout", "failed"},
                               of : 0 .. ClRequests, start : 0 .. ClStarts]]
    BY <1>0 DEF Answers, Becomes, ClTypeOK, Waiting
  <2> QED
    BY <2>1 DEF ClTypeOK
<1>3. Ordered'
  <2>1. \A z \in Elements(clSent) : 0 < z
    <3>1. \A z \in Calls : 0 < z
      BY <1>0 DEF Calls
    <3> QED
      BY <1>0, <3>1
  <2>2. \A y \in Elements(clLines), z \in Elements(clSent) : y < z
    BY DEF Ordered
  <2>3. \A y \in Elements(clLines'), z \in Elements(clSent) : y < z
    BY <2>1, <2>2
  <2> QED
    BY <2>3 DEF Ordered
<1>4. InPipes' \cap Calls \subseteq InPipes
  BY <1>0 DEF InPipes
<1>5. \A r \in Answered' : (AsItIs(r) /\ r \in Answered) \/ clCalls'[r].of = x
  BY <1>1 DEF Answered, AsItIs
<1>6. Sent'
  <2> SUFFICES ASSUME NEW y \in InPipes', y \in Calls
               PROVE  /\ clCalls'[y].how \in {"waiting", "answered", "timeout"}
                      /\ clSdk # "node" => clCalls'[y].start = clStarts
                      /\ \A r \in Answered' : clCalls'[r].of # y
    BY DEF Sent
  <2>1. /\ clCalls[y].how \in {"waiting", "answered", "timeout"}
        /\ clCalls[y].start = clStarts
        /\ \A r \in Answered : clCalls[r].of # y
    BY <1>4 DEF Sent
  <2>2. y # x
    BY <1>0
  <2> QED
    BY <1>1, <1>5, <2>1, <2>2 DEF AsItIs
<1>7. OneByOne'
  <2>1. \A q \in Calls : clCalls'[q].how = "new" <=> clCalls[q].how = "new"
    BY <1>1 DEF AsItIs
  <2>2. \A p \in Calls : \A q \in 1 .. p - 1 : q \in Calls
    BY <1>0 DEF Calls
  <2>3. Waiting' \subseteq Waiting
    BY <1>1 DEF Waiting, AsItIs
  <2> QED
    BY <2>1, <2>2, <2>3 DEF OneByOne
<1>8. AnswersAreOwn'
  <2>1. CASE UNCHANGED clCalls
    <3>1. Answered' = Answered /\ \A q \in Settled : AsItIs(q)
      BY <2>1 DEF Answered, AsItIs
    <3> QED
      BY <3>1, NoAnswer
  <2>2. CASE \E r \in Waiting : Becomes(r, "answered", x)
    BY <2>2, LineIsOwnOrLate
  <2> QED
    BY <2>1, <2>2 DEF Answers
<1> QED
  BY <1>2, <1>3, <1>6, <1>7, <1>8

\* A line that is taken whole.
LEMMA TakeStep ==
    ASSUME ClIInv, clSdk # "node", TakesLine, Answers(NextLine),
           UNCHANGED <<clSdk, clProcess, clStarts, clSent>>, clReaders' \subseteq Calls
    PROVE  ClIInv'
<1> DEFINE x == NextLine
<1>1. Calls \cup {0} \in SUBSET Int /\ clLines \in Seq(Calls \cup {0}) /\ clLines # <<>>
  BY PipesTyped DEF ClIInv, ClTypeOK, TakesLine
<1>2. /\ clLines' = Tail(clLines) /\ clLines' \in Seq(Calls \cup {0})
      /\ x \in Calls \cup {0} /\ x \in Elements(clLines)
      /\ Elements(clLines) = Elements(clLines') \cup {x}
      /\ Rising(clLines') /\ \A y \in Elements(clLines') : x < y
  BY <1>1, TakenOut DEF ClIInv, Ordered, NextLine, TakesLine
<1>3. \A y \in Elements(clSent) : x < y
  BY <1>2 DEF ClIInv, Ordered
<1>4. x \notin InPipes'
  BY <1>1, <1>2, <1>3 DEF InPipes
<1>5. (x = 0 /\ clSdk = "php") \/ x \in InPipes \cap Calls
  BY <1>2 DEF InPipes, ClIInv, Ordered
<1>6. 0 \in Elements(clLines') => clSdk = "php"
  BY <1>2 DEF ClIInv, Ordered
<1>7. Elements(clLines') \subseteq Elements(clLines) \cup {0}
  BY <1>2
<1> HIDE DEF x
<1>8. Answers(x)
  BY DEF x
<1> QED
  BY <1>2, <1>4, <1>5, <1>6, <1>7, <1>8, AnswerStep

\* A part of a line is taken, the rest stays.
LEMMA PartStep ==
    ASSUME ClIInv, NEW r \in Calls, PhpPartOfLine(r)
    PROVE  ClIInv'
<1>1. /\ Calls \in SUBSET Nat /\ clLines \in Seq(Calls \cup {0}) /\ clLines # <<>>
      /\ Calls \cup {0} \in SUBSET Int /\ Rising(clLines)
      /\ clReaders \subseteq Calls
  BY PipesTyped DEF ClIInv, ClTypeOK, Ordered, PhpPartOfLine
<1>2. /\ clLines' \in Seq(Calls \cup {0})
      /\ Elements(clLines') = Elements(Tail(clLines)) \cup {0}
      /\ Rising(clLines')
  BY <1>1, PartTaken DEF PhpPartOfLine
<1>3. Elements(clLines') \subseteq Elements(clLines) \cup {0}
  BY <1>1, <1>2, TakenOut
<1>4. Answers(0)
  BY DEF PhpPartOfLine, Answers
<1>5. clSdk = "php" /\ clSdk # "node" /\ clReaders' \subseteq Calls
      /\ UNCHANGED <<clSdk, clProcess, clStarts, clSent>>
  BY <1>1 DEF PhpPartOfLine
<1> QED
  BY <1>2, <1>3, <1>4, <1>5, AnswerStep

\* Node's.
LEMMA NodeStep == ClIInv /\ NodeLine => ClIInv'
<1> SUFFICES ASSUME ClIInv, NodeLine PROVE ClIInv'
  OBVIOUS
<1> USE DEF ClIInv
<1> DEFINE x == NextLine
<1>0. /\ Elements(clLines) \subseteq Calls \cup {0} /\ Elements(clSent) \subseteq Calls
      /\ Calls \subseteq Nat \ {0} /\ Calls \cup {0} \in SUBSET Int
      /\ ClRequests \in Nat /\ ClStarts \in Nat /\ clStarts \in 0 .. ClStarts
      /\ clLines \in Seq(Calls \cup {0}) /\ clLines # <<>>
  BY PipesTyped DEF ClTypeOK, NodeLine, TakesLine
<1>1. /\ clLines' = Tail(clLines) /\ clLines' \in Seq(Calls \cup {0})
      /\ x \in Calls \cup {0} /\ x \in Elements(clLines)
      /\ Elements(clLines) = Elements(clLines') \cup {x}
      /\ Rising(clLines') /\ \A y \in Elements(clLines') : x < y
  BY <1>0, TakenOut DEF Ordered, NextLine, TakesLine, NodeLine
<1>2. \A y \in Elements(clSent) : x < y
  BY <1>1 DEF Ordered
<1>3. x \notin InPipes' /\ InPipes' \subseteq InPipes /\ x \in InPipes
  BY <1>0, <1>1, <1>2 DEF InPipes, NodeLine
<1>4. \A q \in Calls : ~AsItIs(q) =>
         /\ q = x /\ x \in Waiting
         /\ clCalls'[q].how = "answered"
         /\ clCalls'[q].of = x
  BY DEF NodeLine, AsItIs, ClTypeOK
<1>5. ClTypeOK'
  <2>1. x \in Waiting => x \in 0 .. ClRequests
    BY <1>0 DEF Waiting, Calls
  <2> DEFINE answer == [how |-> "answered", of |-> x, start |-> clCalls[x].start]
             Become == [how : {"new", "waiting", "answered", "timeout", "failed"},
                        of : 0 .. ClRequests, start : 0 .. ClStarts]
  <2>2. clCalls \in [Calls -> Become]
    BY DEF ClTypeOK
  <2>3. x \in Waiting => x \in Calls /\ clCalls[x].start \in 0 .. ClStarts
    BY <2>2 DEF Waiting
  <2>4. x \in Waiting => answer \in Become
    BY <2>1, <2>3
  <2>5. clCalls' = clCalls \/ (x \in Waiting /\ clCalls' = [clCalls EXCEPT ![x] = answer])
    BY DEF NodeLine
  <2>6. clCalls' \in [Calls -> Become]
    <3> HIDE DEF answer, Become, x
    <3> QED
      BY <2>2, <2>3, <2>4, <2>5
  <2> QED
    BY <1>1, <2>6 DEF ClTypeOK, NodeLine
<1>6. Ordered'
  BY <1>1 DEF Ordered, NodeLine
<1>7. Waiting' \subseteq Waiting /\ \A q \in Settled : AsItIs(q)
  BY <1>4 DEF Waiting, Settled, AsItIs
<1>8. Answered' \subseteq Answered \cup {x} /\ Answered \subseteq Answered'
  BY <1>4 DEF Answered, AsItIs, Waiting
<1>9. \A q \in Answered : AsItIs(q) /\ OwnOrLate(q)'
  BY AnswerStays, <1>7 DEF NodeLine
<1>10. \A q \in Answered' : q \in Answered \/ (q = x /\ clCalls'[q].of = x)
  BY <1>4, <1>8 DEF Answered, AsItIs
<1>11. Sent'
  <2> SUFFICES ASSUME NEW y \in InPipes', y \in Calls
               PROVE  /\ clCalls'[y].how \in {"waiting", "answered", "timeout"}
                      /\ \A r \in Answered' : clCalls'[r].of # y
    BY DEF Sent, NodeLine
  <2>1. /\ clCalls[y].how \in {"waiting", "answered", "timeout"}
        /\ \A r \in Answered : clCalls[r].of # y
    BY <1>3 DEF Sent
  <2>2. y # x
    BY <1>3
  <2> QED
    BY <1>4, <1>9, <1>10, <2>1, <2>2 DEF AsItIs
<1>12. OneByOne'
  <2>1. \A q \in Calls : clCalls'[q].how = "new" <=> clCalls[q].how = "new"
    BY <1>4 DEF AsItIs, Waiting
  <2>2. \A p \in Calls : \A q \in 1 .. p - 1 : q \in Calls
    BY <1>0 DEF Calls
  <2> QED
    BY <1>7, <2>1, <2>2 DEF OneByOne, NodeLine
<1>13. AnswersAreOwn'
  <2>1. \A q \in Answered' : OwnOrLate(q)'
    BY <1>9, <1>10 DEF OwnOrLate
  <2>2. \A p, q \in Answered : clCalls[p].of = clCalls[q].of /\ p # q => clCalls[p].of = 0
    BY AnswersAre
  <2>3. \A q \in Answered : clCalls[q].of = x => x = 0
    BY <1>1, <1>3 DEF Sent
  <2>4. \A p, q \in Answered' :
           clCalls'[p].of = clCalls'[q].of /\ p # q => clCalls'[p].of = 0
    BY <1>9, <1>10, <2>2, <2>3 DEF AsItIs
  <2> QED
    BY <2>1, <2>4 DEF AnswersAreOwn, OwnOrLate, OlderUnread
<1> QED
  BY <1>5, <1>6, <1>11, <1>12, <1>13

(***************************************************************************)
(* The server.                                                             *)
(***************************************************************************)
\* A new process: only Node's old lines are still read.
LEMMA StartStep == ClIInv /\ ClientStart => ClIInv'
<1> SUFFICES ASSUME ClIInv, ClientStart PROVE ClIInv'
  OBVIOUS
<1> USE DEF ClIInv, ClientStart
<1>1. /\ clLines' = clLines \/ (clSdk # "node" /\ clLines' = <<>>)
      /\ clSent' = <<>>
  OBVIOUS
<1>2. Elements(clSent') = {} /\ Rising(clSent') /\ clSent' \in Seq(Calls)
  BY <1>1, NothingInEmpty
<1>3. /\ Elements(clLines') \subseteq Elements(clLines) /\ Rising(clLines')
      /\ clSdk # "node" => Elements(clLines') = {}
      /\ clLines' \in Seq(Calls \cup {0})
  BY <1>1, NothingInEmpty, EmptySeq DEF Ordered, ClTypeOK
<1>4. ClTypeOK'
  <2>1. clStarts' \in 0 .. ClStarts /\ clReaders' \subseteq Calls
    BY PipesTyped DEF ClTypeOK
  <2> QED
    BY <1>2, <1>3, <2>1 DEF ClTypeOK
<1>5. Ordered'
  BY <1>2, <1>3 DEF Ordered
<1>6. InPipes' \subseteq InPipes /\ (clSdk # "node" => InPipes' = {})
  BY <1>2, <1>3 DEF InPipes
<1>7. Sent' /\ OneByOne'
  BY <1>6 DEF Sent, OneByOne, Waiting, Answered
<1>8. AnswersAreOwn'
  BY DEF AnswersAreOwn, Answered, Unread
<1> QED
  BY <1>4, <1>5, <1>7, <1>8

\* The server answers its first request.
LEMMA AnsweredByServer == ClIInv /\ ServerAnswers => ClIInv'
<1> SUFFICES ASSUME ClIInv, ServerAnswers PROVE ClIInv'
  OBVIOUS
<1> USE DEF ClIInv, ServerAnswers
<1> DEFINE x == Head(clSent)
<1>1. /\ Calls \in SUBSET Int /\ Calls \cup {0} \in SUBSET Int /\ 0 \notin Calls
      /\ clSent \in Seq(Calls) /\ clSent # <<>> /\ clLines \in Seq(Calls \cup {0})
  BY PipesTyped DEF ClTypeOK
<1>2. /\ clSent' \in Seq(Calls) /\ x \in Calls /\ x \in Elements(clSent)
      /\ Elements(clSent) = Elements(clSent') \cup {x}
      /\ Rising(clSent') /\ \A y \in Elements(clSent') : x < y
  BY <1>1, TakenOut DEF Ordered
<1>3. /\ clLines' \in Seq(Calls \cup {0})
      /\ Elements(clLines') = Elements(clLines) \cup {x}
      /\ Rising(clLines')
  <2>1. (\A y \in Elements(clLines) : y < x) /\ x \in Calls \cup {0}
    BY <1>2 DEF Ordered
  <2>2. clLines' = Append(clLines, x) /\ Rising(clLines)
    BY DEF Ordered
  <2> HIDE DEF x
  <2> QED
    BY <1>1, <2>1, <2>2, PutIn
<1>4. ClTypeOK'
  BY <1>2, <1>3 DEF ClTypeOK
<1>5. InPipes' = InPipes
  BY <1>2, <1>3 DEF InPipes
<1>6. Ordered'
  <2>1. \A y \in Elements(clLines'), z \in Elements(clSent') : y < z
    BY <1>2, <1>3 DEF Ordered
  <2>2. 0 \in Elements(clLines') => clSdk' = "php"
    BY <1>1, <1>2, <1>3 DEF Ordered
  <2>3. clProcess' # "up" => clSent' = <<>>
    BY DEF Ordered
  <2> QED
    BY <1>2, <1>3, <2>1, <2>2, <2>3 DEF Ordered
<1>7. Sent' /\ OneByOne'
  BY <1>5 DEF Sent, OneByOne, Waiting, Answered
<1>8. AnswersAreOwn'
  BY DEF AnswersAreOwn, Answered, Unread
<1> QED
  BY <1>4, <1>6, <1>7, <1>8

(***************************************************************************)
(* All steps.                                                              *)
(***************************************************************************)
\* At first there is no request.
LEMMA ClInitially == ClInit => ClIInv
<1> SUFFICES ASSUME ClInit PROVE ClIInv
  OBVIOUS
<1> USE DEF ClInit
<1>1. ClRequests \in Nat /\ ClStarts \in Nat
  BY ClAssumption
<1>2. ClTypeOK
  <2>1. clSent \in Seq(Calls) /\ clLines \in Seq(Calls \cup {0})
    BY EmptySeq
  <2>2. clCalls \in [Calls -> [how : {"new", "waiting", "answered", "timeout", "failed"},
                              of : 0 .. ClRequests, start : 0 .. ClStarts]]
    BY <1>1 DEF ClNew
  <2> QED
    BY <1>1, <2>1, <2>2 DEF ClTypeOK
<1>3. Ordered /\ InPipes = {}
  BY NothingInEmpty DEF Ordered, InPipes
<1>4. \A q \in Calls : clCalls[q].how = "new"
  BY DEF ClNew
<1>5. Answered = {} /\ Waiting = {}
  BY <1>4 DEF Answered, Waiting
<1> QED
  BY <1>2, <1>3, <1>4, <1>5 DEF ClIInv, Sent, OneByOne, AnswersAreOwn

\* Every step is of one of the kinds above.
LEMMA ClStep == ClIInv /\ [ClientsNext]_clVars => ClIInv'
<1> SUFFICES ASSUME ClIInv, [ClientsNext]_clVars PROVE ClIInv'
  OBVIOUS
<1>0. clReaders \subseteq Calls /\ clProcess \in {"up", "gone", "stopped"}
  BY DEF ClIInv, ClTypeOK
<1>1. ASSUME NEW r \in Calls,
             NodeRequest(r) \/ PythonRequest(r) \/ GoRequest(r) \/ PhpRequest(r)
      PROVE  ClIInv'
  <2>1. /\ ClNext(r) /\ (Written(r) \/ WriteError(r))
        /\ UNCHANGED <<clSdk, clProcess, clStarts, clLines>> /\ clReaders' \subseteq Calls
    BY <1>0, <1>1 DEF NodeRequest, PythonRequest, GoRequest, PhpRequest
  <2> QED
    BY <2>1, RequestStep
<1>2. ASSUME NEW r \in Calls, PythonLine(r) \/ GoLine(r) \/ PhpLine(r)
      PROVE  ClIInv'
  <2>1. /\ clSdk # "node" /\ TakesLine /\ Answers(NextLine)
        /\ UNCHANGED <<clSdk, clProcess, clStarts, clSent>> /\ clReaders' \subseteq Calls
    BY <1>0, <1>2 DEF PythonLine, GoLine, PhpLine, ThreadReads, Answers
  <2> QED
    BY <2>1, TakeStep
<1>3. ASSUME NEW r \in Calls,
             NodeTimer(r) \/ PythonTimer(r) \/ GoTimer(r) \/ PhpTimer(r)
      PROVE  ClIInv'
  <2>1. EndsUnanswered
    BY <1>3 DEF NodeTimer, PythonTimer, GoTimer, PhpTimer, TimedOut, EndsUnanswered
  <2>2. clProcess # "up" => clSent = <<>>
    BY DEF ClIInv, Ordered
  <2>3. /\ clSent' \in {clSent, <<>>} /\ clLines' = clLines
        /\ clProcess' \in {"up", "gone", "stopped"}
        /\ clProcess' = "up" => clProcess = "up"
        /\ clProcess' # "up" => clSent' = <<>>
        /\ UNCHANGED <<clSdk, clStarts>> /\ clReaders' \subseteq Calls
    BY <1>0, <1>3, <2>2 DEF NodeTimer, PythonTimer, GoTimer, PhpTimer, clPipes
  <2> QED
    BY <2>1, <2>3, EndStep
<1>4. ASSUME NEW r \in Calls, EndOfOutput(r)
      PROVE  ClIInv'
  <2>1. clSent = <<>> /\ clLines = <<>>
    BY <1>4 DEF ClIInv, Ordered, EndOfOutput
  <2>2. InPipes = {}
    BY <2>1, NothingInEmpty DEF InPipes
  <2>3. EndsUnanswered
    BY <1>4, <2>2 DEF EndOfOutput, EndsUnanswered
  <2>4. /\ clSent' = clSent /\ clLines' = clLines /\ clProcess' = "gone" /\ clSent' = <<>>
        /\ clReaders' \subseteq Calls /\ UNCHANGED <<clSdk, clStarts>>
    BY <1>0, <1>4, <2>1 DEF EndOfOutput, clPipes
  <2> QED
    BY <2>3, <2>4, EndStep
<1>5. CASE ClientStop \/ ServerEnds
  <2>1. /\ EndsUnanswered /\ clSent' = <<>> /\ clLines' = clLines
        /\ clProcess' \in {"gone", "stopped"} /\ clReaders' \subseteq Calls
        /\ UNCHANGED <<clSdk, clStarts>>
    BY <1>0, <1>5 DEF ClientStop, ServerEnds, EndsUnanswered
  <2> QED
    BY <2>1, EndStep
<1>6. CASE UNCHANGED clVars
  <2>1. UNCHANGED <<clSdk, clProcess, clStarts, clSent, clLines, clReaders, clCalls>>
    BY <1>6 DEF clVars, clPipes
  <2>2. InPipes' = InPipes
    BY <2>1 DEF InPipes
  <2>3. ClTypeOK' /\ Ordered'
    BY <2>1 DEF ClIInv, ClTypeOK, Ordered
  <2>4. Sent' /\ OneByOne' /\ AnswersAreOwn'
    BY <2>1, <2>2 DEF ClIInv, Sent, OneByOne, AnswersAreOwn, Answered, Waiting, Unread
  <2> QED
    BY <2>3, <2>4 DEF ClIInv
<1> QED
  BY <1>1, <1>2, <1>3, <1>4, <1>5, <1>6, PartStep, NodeStep, StartStep, AnsweredByServer
     DEF ClientsNext

LEMMA ClInvariance == ClSpec => []ClIInv
  BY ClInitially, ClStep, PTL DEF ClSpec

\* A line in the pipe is of a call or of none, and its reader a call.
THEOREM ClTypeCorrect == ClSpec => []ClTypeOK
  BY ClInvariance, PTL DEF ClIInv

\* Whoever times out, stops, starts again or loses the server: in Node every
\* answer is that of its own request, and elsewhere another's only behind a
\* request whose line was left in the pipe; none is given twice.
THEOREM AnswersPaired == ClSpec => []AnswersAreOwn
<1>1. ClIInv => AnswersAreOwn
  BY DEF ClIInv
<1> QED
  BY <1>1, ClInvariance, PTL

-----------------------------------------------------------------------------
(***************************************************************************)
(* ToolCache.  Its accounts and its type are inductive together.           *)
(***************************************************************************)
CacheIInv == CacheTypeOK /\ CacheAccounts

Cached == DOMAIN entries

\* The sizes of entries are finitely many numbers.
LEMMA CachedSizes ==
    ASSUME CacheTypeOK
    PROVE  /\ IsFiniteSet(Cached) /\ Cached \subseteq Keys
           /\ DOMAIN SizeOf = Cached
           /\ \A k \in Cached : SizeOf[k] = entries[k].size /\ SizeOf[k] \in Nat
<1>1. IsFiniteSet(Cached) /\ Cached \subseteq Keys
  BY CacheAssumption, FS_Subset DEF CacheTypeOK, Cached
<1>2. DOMAIN SizeOf = Cached /\ \A k \in Cached : SizeOf[k] = entries[k].size
  BY DEF SizeOf, Cached
<1>3. \A k \in Cached : entries[k].size \in Nat
  BY DEF CacheTypeOK, Entry, Cached
<1> QED
  BY <1>1, <1>2, <1>3

\* What is left when k and what V evicts are gone.
LEMMA KeptBytes ==
    ASSUME CacheTypeOK, bytes = SumFunction(SizeOf), NEW k, NEW V
    PROVE  /\ Kept(k, V) \subseteq Cached \ {k} /\ IsFiniteSet(Kept(k, V))
           /\ Kept(k, V) = (Cached \ {k}) \ Evicted(k, V)
           /\ BytesKept(k, V) = SumFunctionOnSet(SizeOf, Kept(k, V))
           /\ BytesKept(k, V) \in Nat /\ BytesKept(k, V) <= bytes
<1> DEFINE others == Cached \ {k}
           gone == Evicted(k, V)
           kept == Kept(k, V)
<1>1. /\ IsFiniteSet(Cached) /\ DOMAIN SizeOf = Cached
      /\ \A j \in Cached : SizeOf[j] = entries[j].size /\ SizeOf[j] \in Nat
  BY CachedSizes
<1>2. gone \subseteq others /\ kept = others \ gone
  BY DEF Evicted, Kept, Cached
<1> HIDE DEF gone, kept
<1>3. IsFiniteSet(others) /\ IsFiniteSet(gone) /\ IsFiniteSet(kept)
  BY <1>1, <1>2, FS_Subset
<1>4. bytes = SumFunctionOnSet(SizeOf, Cached)
  BY <1>1 DEF SumFunction
<1>5. OthersBytes(k) = SumFunctionOnSet(SizeOf, others)
  <2>1. CASE k \in Cached
    <3>1. k \notin others /\ others \cup {k} = Cached
      BY <2>1
    <3>2. SizeOf[k] \in Int /\ \A j \in others : SizeOf[j] \in Int
      BY <1>1, <2>1
    <3>3. SumFunctionOnSet(SizeOf, others \cup {k})
             = SizeOf[k] + SumFunctionOnSet(SizeOf, others)
      <4> HIDE DEF others
      <4> QED
        BY <1>3, <3>1, <3>2, SumWith
    <3>4. SumFunctionOnSet(SizeOf, others) \in Int
      BY <1>3, <3>2, SumTaken
    <3>5. OthersBytes(k) = bytes - SizeOf[k]
      BY <1>1, <2>1 DEF OthersBytes, Cached
    <3>6. bytes = SizeOf[k] + SumFunctionOnSet(SizeOf, others)
      BY <1>4, <3>1, <3>3
    <3> HIDE DEF others
    <3> QED
      BY <3>2, <3>4, <3>5, <3>6
  <2>2. CASE k \notin Cached
    <3>1. others = Cached
      BY <2>2
    <3> QED
      BY <1>4, <2>2, <3>1 DEF OthersBytes, Cached
  <2> QED
    BY <2>1, <2>2
<1>6. SumFunctionOnSet(SizeOf, others)
         = SumFunctionOnSet(SizeOf, kept) + SumFunctionOnSet(SizeOf, gone)
  <2>1. kept \cap gone = {} /\ kept \cup gone = others
    BY <1>2
  <2>2. \A j \in kept \cup gone : SizeOf[j] \in Int
    BY <1>1, <2>1
  <2>3. SumFunctionOnSet(SizeOf, kept \cup gone)
           = SumFunctionOnSet(SizeOf, kept) + SumFunctionOnSet(SizeOf, gone)
    BY <1>3, <2>1, <2>2, SumJoined
  <2> QED
    BY <2>1, <2>3
<1>7. SumFunctionOnSet(SizeOf, kept) \in Nat /\ SumFunctionOnSet(SizeOf, gone) \in Nat
  <2>1. \A j \in kept : SizeOf[j] \in Nat
    BY <1>1, <1>2
  <2>2. \A j \in gone : SizeOf[j] \in Nat
    BY <1>1, <1>2
  <2> QED
    BY <1>3, <2>1, <2>2, SumNatural
<1>8. BytesKept(k, V) = SumFunctionOnSet(SizeOf, kept)
  <2>1. BytesKept(k, V) = OthersBytes(k) - SumFunctionOnSet(SizeOf, gone)
    BY DEF BytesKept, gone
  <2> QED
    BY <1>5, <1>6, <1>7, <2>1
<1>9. SumFunctionOnSet(SizeOf, kept) <= bytes
  <2>1. kept \in SUBSET Cached /\ \A j \in Cached : SizeOf[j] \in Nat
    BY <1>1, <1>2
  <2> QED
    BY <1>1, <1>4, <2>1, SumOfPart
<1> QED
  BY <1>2, <1>3, <1>7, <1>8, <1>9 DEF kept, gone

\* The sizes of what is kept add up to what is counted.
LEMMA RestAddsUp ==
    ASSUME CacheTypeOK, bytes = SumFunction(SizeOf), NEW k, NEW V,
           entries' = Restrict(entries, Kept(k, V))
    PROVE  BytesKept(k, V) = SumFunction(SizeOf')
<1> DEFINE kept == Kept(k, V)
<1>1. /\ kept \subseteq Cached /\ IsFiniteSet(kept)
      /\ BytesKept(k, V) = SumFunctionOnSet(SizeOf, kept)
  BY KeptBytes
<1>2. DOMAIN SizeOf' = kept /\ \A j \in kept : SizeOf'[j] = entries[j].size
  BY <1>1 DEF SizeOf, Restrict
<1>3. \A j \in kept : SizeOf[j] \in Int /\ SizeOf'[j] = SizeOf[j]
  BY <1>1, <1>2, CachedSizes
<1> HIDE DEF kept
<1>4. SumFunctionOnSet(SizeOf', kept) = SumFunctionOnSet(SizeOf, kept)
  BY <1>1, <1>3, SumSame
<1> QED
  BY <1>1, <1>2, <1>4 DEF SumFunction

\* So do they with a new entry.
LEMMA NewAddsUp ==
    ASSUME CacheTypeOK, bytes = SumFunction(SizeOf), NEW k \in Keys, NEW V, NEW s \in Nat,
           NEW last, NEW expires,
           entries' = With(Restrict(entries, Kept(k, V)), k,
                           [size |-> s, last |-> last, expires |-> expires])
    PROVE  BytesKept(k, V) + s = SumFunction(SizeOf')
<1> DEFINE kept == Kept(k, V)
<1>1. /\ kept \subseteq Cached \ {k} /\ IsFiniteSet(kept) /\ k \notin kept
      /\ BytesKept(k, V) = SumFunctionOnSet(SizeOf, kept)
      /\ BytesKept(k, V) \in Nat
  BY KeptBytes
<1>2. /\ DOMAIN SizeOf' = kept \cup {k} /\ SizeOf'[k] = s
      /\ \A j \in kept : SizeOf'[j] = entries[j].size
  BY <1>1 DEF SizeOf, Restrict, With
<1>3. \A j \in kept : SizeOf[j] \in Int /\ SizeOf'[j] = SizeOf[j] /\ SizeOf'[j] \in Int
  BY <1>1, <1>2, CachedSizes
<1> HIDE DEF kept
<1>4. SumFunctionOnSet(SizeOf', kept) = SumFunctionOnSet(SizeOf, kept)
  BY <1>1, <1>3, SumSame
<1>5. SumFunctionOnSet(SizeOf', kept \cup {k}) = s + SumFunctionOnSet(SizeOf', kept)
  <2>1. SizeOf'[k] \in Int
    BY <1>2
  <2> QED
    BY <1>1, <1>2, <1>3, <2>1, SumWith
<1> QED
  BY <1>1, <1>2, <1>4, <1>5 DEF SumFunction

(***************************************************************************)
(* The steps.                                                              *)
(***************************************************************************)
\* Whoever has the lock uses an instant of the clock.
LEMMA InstantsAre == CacheTypeOK => Instants \subseteq 0 .. MaxTime
BY CacheAssumption DEF Instants, CacheTypeOK

\* get.
LEMMA HitStep ==
    ASSUME CacheIInv, NEW k \in Keys, NEW t \in Instants, Hit(k, t)
    PROVE  CacheIInv'
<1> USE DEF CacheIInv
<1>0. k \in Cached /\ t \in 0 .. MaxTime /\ MaxTime \in Nat
  BY InstantsAre, CacheAssumption DEF Hit, Cached
<1>1. /\ DOMAIN entries' = Cached
      /\ entries'[k] = [size |-> entries[k].size, last |-> t, expires |-> entries[k].expires]
      /\ \A j \in Cached \ {k} : entries'[j] = entries[j]
  BY <1>0 DEF Hit, Cached, CacheTypeOK, Entry
<1>2. /\ DOMAIN index' = (DOMAIN index \ {entries[k].last}) \cup {t}
      /\ index'[t] = k
      /\ \A u \in DOMAIN index \ {entries[k].last, t} : index'[u] = index[u]
  BY DEF Hit, Reindex, With, Without, Restrict
<1>3. CacheTypeOK'
  <2>1. \A j \in Cached : entries'[j] \in Entry
    BY <1>0, <1>1 DEF CacheTypeOK, Entry, Cached
  <2>2. \A u \in DOMAIN index' : u \in 0 .. MaxTime /\ index'[u] \in Keys
    BY <1>0, <1>2 DEF CacheTypeOK
  <2>3. collided' \in BOOLEAN
    BY DEF Hit, Use, CacheTypeOK
  <2> QED
    BY <1>1, <2>1, <2>2, <2>3 DEF CacheTypeOK, Hit, Cached
<1>4. WithinLimits'
  <2>1. SizeOf' = SizeOf
    BY <1>0, <1>1 DEF SizeOf, Cached
  <2> QED
    BY <1>1, <2>1 DEF CacheAccounts, WithinLimits, Hit, Cached
<1>5. ASSUME ~collided'
      PROVE  /\ \A j \in Cached : entries'[j].last \in DOMAIN index' /\ index'[entries'[j].last] = j
             /\ \A u \in DOMAIN index' :
                   index'[u] \in Cached /\ entries'[index'[u]].last = u
  <2>1. ~collided /\ t \notin DOMAIN index
    BY <1>5 DEF Hit, Use, CacheTypeOK
  <2>2. /\ \A j \in Cached : entries[j].last \in DOMAIN index /\ index[entries[j].last] = j
        /\ \A u \in DOMAIN index : index[u] \in Cached /\ entries[index[u]].last = u
    BY <2>1 DEF CacheAccounts, IndexMatches, Cached
  <2>3. ASSUME NEW j \in Cached
        PROVE  entries'[j].last \in DOMAIN index' /\ index'[entries'[j].last] = j
    BY <1>0, <1>1, <1>2, <2>1, <2>2
  <2>4. ASSUME NEW u \in DOMAIN index'
        PROVE  index'[u] \in Cached /\ entries'[index'[u]].last = u
    BY <1>0, <1>1, <1>2, <2>1, <2>2
  <2> QED
    BY <2>3, <2>4
<1>6. IndexMatches'
  BY <1>1, <1>5 DEF IndexMatches, Cached
<1> QED
  BY <1>3, <1>4, <1>6 DEF CacheAccounts

\* The index without k's entry, and who is in it when the accounts are right.
LEMMA OthersInIndex ==
    ASSUME CacheTypeOK, NEW k
    PROVE  /\ DOMAIN OthersIndex(k) \subseteq DOMAIN index
           /\ \A u \in DOMAIN index :
                 u \in DOMAIN OthersIndex(k) \/ (k \in Cached /\ u = entries[k].last)
           /\ k \in Cached => entries[k].last \notin DOMAIN OthersIndex(k)
           /\ \A u \in DOMAIN OthersIndex(k) : OthersIndex(k)[u] = index[u]
BY DEF OthersIndex, Without, Restrict, Cached

\* Index and entries still agree on what V leaves.
LEMMA IndexKept ==
    ASSUME CacheIInv, ~collided, NEW k, NEW V, V \subseteq DOMAIN OthersIndex(k)
    PROVE  /\ \A j \in Kept(k, V) :
                 /\ entries[j].last \in DOMAIN OthersIndex(k) \ V
                 /\ index[entries[j].last] = j
           /\ \A u \in DOMAIN OthersIndex(k) \ V :
                 index[u] \in Kept(k, V) /\ entries[index[u]].last = u
           /\ \A j \in Evicted(k, V) : entries[j].last \in V
<1>1. /\ \A j \in Cached : entries[j].last \in DOMAIN index /\ index[entries[j].last] = j
      /\ \A u \in DOMAIN index : index[u] \in Cached /\ entries[index[u]].last = u
  BY DEF CacheIInv, CacheAccounts, IndexMatches, Cached
<1>2. /\ DOMAIN OthersIndex(k) \subseteq DOMAIN index
      /\ \A u \in DOMAIN index :
            u \in DOMAIN OthersIndex(k) \/ (k \in Cached /\ u = entries[k].last)
      /\ k \in Cached => entries[k].last \notin DOMAIN OthersIndex(k)
      /\ \A u \in DOMAIN OthersIndex(k) : OthersIndex(k)[u] = index[u]
  BY OthersInIndex DEF CacheIInv
<1>3. \A j : j \in Evicted(k, V) <=> /\ j \in Cached /\ j # k
                                   /\ \E v \in V : index[v] = j
  BY <1>2 DEF Evicted, Cached
<1>4. \A j : j \in Kept(k, V) <=> j \in Cached /\ j # k /\ j \notin Evicted(k, V)
  BY DEF Kept, Cached
<1>5. ASSUME NEW j \in Kept(k, V)
      PROVE  entries[j].last \in DOMAIN OthersIndex(k) \ V /\ index[entries[j].last] = j
  BY <1>1, <1>2, <1>3, <1>4
<1>6. ASSUME NEW u \in DOMAIN OthersIndex(k) \ V
      PROVE  index[u] \in Kept(k, V) /\ entries[index[u]].last = u
  <2>1. index[u] \in Cached /\ entries[index[u]].last = u /\ index[u] # k
    BY <1>1, <1>2
  <2>2. index[u] \notin Evicted(k, V)
    BY <1>1, <1>2, <1>3, <2>1
  <2> QED
    BY <1>4, <2>1, <2>2
<1>7. ASSUME NEW j \in Evicted(k, V) PROVE entries[j].last \in V
  BY <1>1, <1>2, <1>3
<1> QED
  BY <1>5, <1>6, <1>7

\* Either branch of set, in terms of what is kept.
LEMMA StoreStep ==
    ASSUME CacheIInv, NEW k \in Keys, NEW s \in Sizes, NEW t \in Instants, Store(k, s, t)
    PROVE  CacheIInv'
<1> DEFINE V == Victims(k, s)
           kept == Kept(k, V)
           others == OthersIndex(k)
           left == DOMAIN others \ V
           new == [size |-> s, last |-> t, expires |-> t + Ttl]
<1> USE DEF CacheIInv
<1>0. /\ t \in 0 .. MaxTime /\ MaxTime \in Nat /\ s \in Nat /\ Ttl \in Nat
      /\ MaxBytes \in Nat /\ MaxEntries \in Nat /\ s <= MaxBytes
  BY InstantsAre, CacheAssumption DEF Store
<1>1. /\ kept \subseteq Cached \ {k} /\ IsFiniteSet(kept)
      /\ BytesKept(k, V) \in Nat /\ BytesKept(k, V) <= bytes
      /\ bytes = SumFunction(SizeOf)
  BY KeptBytes DEF CacheAccounts, WithinLimits
<1>2. /\ V \subseteq DOMAIN others /\ left \subseteq DOMAIN index
      /\ \A u \in left : others[u] = index[u]
  BY OthersInIndex DEF Victims
<1>3. \/ /\ Fits(k, s, V)
         /\ entries' = With(Restrict(entries, kept), k, new)
         /\ index' = With(Restrict(others, left), t, k)
         /\ bytes' = BytesKept(k, V) + s
      \/ /\ ~Fits(k, s, V)
         /\ entries' = Restrict(entries, kept)
         /\ index' = Restrict(others, left)
         /\ bytes' = BytesKept(k, V)
  BY DEF Store
<1>4. /\ now' = now /\ collided' = (collided \/ t \in DOMAIN index)
  BY DEF Store, Use
<1> HIDE DEF V
<1>5. \A j \in kept : j \in Cached /\ entries[j] \in Entry
  BY <1>1 DEF CacheTypeOK, Cached
<1>6. CASE Fits(k, s, V)
  <2>1. /\ DOMAIN entries' = kept \cup {k} /\ entries'[k] = new
        /\ \A j \in kept : entries'[j] = entries[j]
    BY <1>1, <1>3, <1>6 DEF With, Restrict
  <2>2. /\ DOMAIN index' = left \cup {t} /\ index'[t] = k
        /\ \A u \in left \ {t} : index'[u] = index[u]
    BY <1>2, <1>3, <1>6 DEF With, Restrict
  <2>3. bytes' = BytesKept(k, V) + s /\ bytes' \in Nat /\ bytes' <= MaxBytes
    BY <1>0, <1>1, <1>3, <1>6 DEF Fits
  <2>4. CacheTypeOK'
    <3>1. new \in Entry
      BY <1>0 DEF Entry
    <3>2. \A j \in kept \cup {k} : j \in Keys /\ entries'[j] \in Entry
      BY <1>5, <2>1, <3>1 DEF CacheTypeOK, Cached
    <3>3. \A u \in left \cup {t} : u \in 0 .. MaxTime /\ index'[u] \in Keys
      BY <1>0, <1>2, <2>2 DEF CacheTypeOK
    <3> QED
      BY <1>4, <2>1, <2>2, <2>3, <3>2, <3>3 DEF CacheTypeOK
  <2>5. bytes' = SumFunction(SizeOf')
    <3>1. entries' = With(Restrict(entries, Kept(k, V)), k,
                          [size |-> s, last |-> t, expires |-> t + Ttl])
      BY <1>3, <1>6
    <3> QED
      BY <1>0, <1>1, <2>3, <3>1, NewAddsUp
  <2>6. Cardinality(DOMAIN entries') <= MaxEntries
    <3>1. Cardinality(kept) < MaxEntries /\ Cardinality(kept) \in Nat
      BY <1>1, <1>6, FS_CardinalityType DEF Fits
    <3>2. Cardinality(kept \cup {k}) = Cardinality(kept) + 1
      BY <1>1, FS_AddElement
    <3> QED
      BY <1>0, <2>1, <3>1, <3>2
  <2>7. ASSUME ~collided'
        PROVE  /\ \A j \in kept \cup {k} :
                     entries'[j].last \in DOMAIN index' /\ index'[entries'[j].last] = j
               /\ \A u \in left \cup {t} :
                     index'[u] \in kept \cup {k} /\ entries'[index'[u]].last = u
    <3>1. ~collided /\ t \notin DOMAIN index /\ t \notin left
      BY <1>2, <1>4, <2>7
    <3>2. /\ \A j \in kept : entries[j].last \in left /\ index[entries[j].last] = j
          /\ \A u \in left : index[u] \in kept /\ entries[index[u]].last = u
      BY <1>2, <3>1, IndexKept
    <3>3. ASSUME NEW j \in kept \cup {k}
          PROVE  entries'[j].last \in DOMAIN index' /\ index'[entries'[j].last] = j
      BY <2>1, <2>2, <3>1, <3>2
    <3>4. ASSUME NEW u \in left \cup {t}
          PROVE  index'[u] \in kept \cup {k} /\ entries'[index'[u]].last = u
      BY <1>1, <2>1, <2>2, <3>1, <3>2
    <3> QED
      BY <3>3, <3>4
  <2>8. IndexMatches'
    BY <2>1, <2>2, <2>7 DEF IndexMatches
  <2> QED
    BY <2>3, <2>4, <2>5, <2>6, <2>8 DEF CacheAccounts, WithinLimits
<1>7. CASE ~Fits(k, s, V)
  <2>1. DOMAIN entries' = kept /\ \A j \in kept : entries'[j] = entries[j]
    BY <1>1, <1>3, <1>7 DEF Restrict
  <2>2. DOMAIN index' = left /\ \A u \in left : index'[u] = index[u]
    BY <1>2, <1>3, <1>7 DEF Restrict
  <2>3. bytes' = BytesKept(k, V) /\ bytes' \in Nat /\ bytes' <= MaxBytes
    <3>1. bytes \in Nat /\ bytes <= MaxBytes
      BY DEF CacheTypeOK, CacheAccounts, WithinLimits
    <3> QED
      BY <1>0, <1>1, <1>3, <1>7, <3>1
  <2>4. CacheTypeOK'
    <3>1. \A j \in kept : j \in Keys /\ entries'[j] \in Entry
      BY <1>5, <2>1 DEF CacheTypeOK, Cached
    <3>2. \A u \in left : u \in 0 .. MaxTime /\ index'[u] \in Keys
      BY <1>2, <2>2 DEF CacheTypeOK
    <3> QED
      BY <1>4, <2>1, <2>2, <2>3, <3>1, <3>2 DEF CacheTypeOK
  <2>5. bytes' = SumFunction(SizeOf')
    BY <1>1, <1>3, <1>7, RestAddsUp
  <2>6. Cardinality(DOMAIN entries') <= MaxEntries
    <3>1. IsFiniteSet(Cached) /\ Cardinality(Cached) <= MaxEntries /\ kept \subseteq Cached
      BY <1>1, CachedSizes DEF CacheAccounts, WithinLimits, Cached
    <3>2. /\ Cardinality(kept) <= Cardinality(Cached)
          /\ Cardinality(kept) \in Nat /\ Cardinality(Cached) \in Nat
      BY <1>1, <3>1, FS_Subset, FS_CardinalityType
    <3> QED
      BY <1>0, <2>1, <3>1, <3>2
  <2>7. ASSUME ~collided'
        PROVE  /\ \A j \in kept : entries[j].last \in left /\ index[entries[j].last] = j
               /\ \A u \in left : index[u] \in kept /\ entries[index[u]].last = u
    BY <1>2, <1>4, <2>7, IndexKept
  <2>8. IndexMatches'
    BY <2>1, <2>2, <2>7 DEF IndexMatches
  <2> QED
    BY <2>3, <2>4, <2>5, <2>6, <2>8 DEF CacheAccounts, WithinLimits
<1> QED
  BY <1>6, <1>7

(***************************************************************************)
(* Room.  More victims make more room; all of them make room for whatever  *)
(* fits into an empty cache; and the older go before the younger.          *)
(***************************************************************************)
\* A victim more does no harm.
LEMMA MoreRoom ==
    ASSUME CacheTypeOK, bytes = SumFunction(SizeOf), NEW k, NEW s \in Nat,
           NEW V, NEW W, V \subseteq W, Fits(k, s, V)
    PROVE  Fits(k, s, W)
<1> DEFINE kv == Kept(k, V)
           kw == Kept(k, W)
<1>1. kw \subseteq kv
  BY DEF Kept, Evicted
<1>2. /\ kv \subseteq Cached /\ IsFiniteSet(kv) /\ IsFiniteSet(kw)
      /\ BytesKept(k, V) = SumFunctionOnSet(SizeOf, kv)
      /\ BytesKept(k, W) = SumFunctionOnSet(SizeOf, kw)
      /\ BytesKept(k, V) \in Nat /\ BytesKept(k, W) \in Nat
  BY KeptBytes
<1>3. \A j \in kv : SizeOf[j] \in Nat
  BY <1>2, CachedSizes
<1>4. BytesKept(k, V) + s <= MaxBytes /\ Cardinality(kv) < MaxEntries
  BY DEF Fits
<1> HIDE DEF kv, kw
<1>5. SumFunctionOnSet(SizeOf, kw) <= SumFunctionOnSet(SizeOf, kv)
  BY <1>1, <1>2, <1>3, SumOfPart
<1>6. Cardinality(kw) <= Cardinality(kv) /\ Cardinality(kw) \in Nat /\ Cardinality(kv) \in Nat
  BY <1>1, <1>2, FS_Subset, FS_CardinalityType
<1>7. MaxBytes \in Nat /\ MaxEntries \in Nat
  BY CacheAssumption
<1>8. BytesKept(k, W) + s <= MaxBytes /\ Cardinality(kw) < MaxEntries
  BY <1>2, <1>4, <1>5, <1>6, <1>7
<1> QED
  BY <1>8 DEF Fits, kw

\* Without any other entry there is room.
LEMMA AllRoom ==
    ASSUME CacheIInv, ~collided, NEW k, NEW s \in Nat, s <= MaxBytes, MaxEntries > 0
    PROVE  Fits(k, s, DOMAIN OthersIndex(k))
<1> DEFINE all == DOMAIN OthersIndex(k)
<1>1. Kept(k, all) = {}
  <2>1. \A j \in Kept(k, all) : entries[j].last \in all \ all
    BY IndexKept
  <2> QED
    BY <2>1
<1>2. BytesKept(k, all) = 0
  <2>1. BytesKept(k, all) = SumFunctionOnSet(SizeOf, {})
    BY <1>1, KeptBytes DEF CacheIInv, CacheAccounts, WithinLimits
  <2> QED
    BY <2>1, SumNone
<1>3. Cardinality(Kept(k, all)) = 0
  BY <1>1, FS_EmptySet
<1> QED
  BY <1>2, <1>3 DEF Fits

Before(k, t) == {u \in DOMAIN OthersIndex(k) : u < t}

\* The victims are enough, and older than the rest.
LEMMA OldestGo ==
    ASSUME CacheIInv, ~collided, NEW k, NEW s \in Nat, s <= MaxBytes, MaxEntries > 0
    PROVE  /\ Fits(k, s, Victims(k, s))
           /\ \A u \in Victims(k, s) : \A w \in DOMAIN OthersIndex(k) \ Victims(k, s) : u < w
<1> DEFINE all == DOMAIN OthersIndex(k)
           V == Victims(k, s)
<1>0. CacheTypeOK /\ bytes = SumFunction(SizeOf)
  BY DEF CacheIInv, CacheAccounts, WithinLimits
<1>1. all \subseteq Nat
  BY <1>0, OthersInIndex DEF CacheTypeOK
<1>2. V \subseteq all /\ \A t \in all : t \in V <=> ~Fits(k, s, Before(k, t))
  BY DEF Victims, Before
<1>3. Fits(k, s, all)
  BY AllRoom
<1> HIDE DEF V
<1>4. Fits(k, s, V)
  <2>1. CASE all \ V = {}
    <3>1. V = all
      BY <1>2, <2>1
    <3> QED
      BY <1>3, <3>1
  <2>2. CASE all \ V # {}
    <3>1. all \ V \in SUBSET Nat
      BY <1>1
    <3>2. PICK t \in all \ V : \A u \in all \ V : t <= u
      <4> HIDE DEF all
      <4> QED
        BY <2>2, <3>1, LeastNumber
    <3>3. Fits(k, s, Before(k, t))
      BY <1>2, <3>2
    <3>4. Before(k, t) \subseteq V
      BY <1>1, <3>2 DEF Before
    <3> QED
      BY <1>0, <3>3, <3>4, MoreRoom
  <2> QED
    BY <2>1, <2>2
<1>5. ASSUME NEW u \in V, NEW w \in all \ V, ~(u < w)
      PROVE  FALSE
  <2>1. Before(k, w) \subseteq Before(k, u)
    BY <1>1, <1>2, <1>5 DEF Before
  <2>2. Fits(k, s, Before(k, w)) /\ ~Fits(k, s, Before(k, u))
    BY <1>2, <1>5
  <2> QED
    BY <1>0, <2>1, <2>2, MoreRoom
<1> QED
  BY <1>4, <1>5 DEF V

\* An entry that is replaced by one of its own size evicts none.
LEMMA SameSize ==
    ASSUME CacheIInv, NEW k \in Cached, NEW u
    PROVE  u \notin Victims(k, entries[k].size)
<1> DEFINE s == entries[k].size
           others == Cached \ {k}
<1>0. CacheTypeOK /\ bytes = SumFunction(SizeOf) /\ bytes <= MaxBytes /\ bytes \in Nat
      /\ Cardinality(Cached) <= MaxEntries /\ MaxEntries \in Nat /\ MaxBytes \in Nat
  BY CacheAssumption DEF CacheIInv, CacheAccounts, WithinLimits, CacheTypeOK, Cached
<1>1. /\ IsFiniteSet(Cached) /\ DOMAIN SizeOf = Cached /\ SizeOf[k] = s /\ s \in Nat
      /\ \A j \in Cached : SizeOf[j] \in Nat
  BY <1>0, CachedSizes
<1>2. Kept(k, {}) = others
  BY DEF Kept, Evicted, Cached
<1>3. BytesKept(k, {}) = SumFunctionOnSet(SizeOf, others) /\ BytesKept(k, {}) \in Nat
  BY <1>0, <1>2, KeptBytes
<1>4. bytes = s + SumFunctionOnSet(SizeOf, others)
  <2>1. bytes = SumFunctionOnSet(SizeOf, Cached)
    BY <1>0, <1>1 DEF SumFunction
  <2>2. \A j \in Cached : SizeOf[j] \in Int
    BY <1>1
  <2> QED
    BY <1>1, <2>1, <2>2, SumTaken
<1>5. Cardinality(others) < MaxEntries
  <2>1. Cardinality(others) = Cardinality(Cached) - 1 /\ Cardinality(Cached) \in Nat
    BY <1>1, FS_RemoveElement, FS_CardinalityType
  <2> QED
    BY <1>0, <2>1
<1>6. Fits(k, s, {})
  <2>1. BytesKept(k, {}) + s = bytes
    <3> HIDE DEF s, others
    <3> QED
      BY <1>1, <1>3, <1>4
  <2>2. BytesKept(k, {}) + s <= MaxBytes
    BY <1>0, <2>1
  <2> QED
    BY <1>2, <1>5, <2>2 DEF Fits
<1>7. Fits(k, s, {w \in DOMAIN OthersIndex(k) : w < u})
  BY <1>0, <1>1, <1>6, MoreRoom
<1> QED
  BY <1>7 DEF Victims

(***************************************************************************)
(* The theorems.                                                           *)
(***************************************************************************)
\* The accounts and the types hold throughout.
LEMMA CacheInvariance == CacheSpec => []CacheIInv
<1>1. CacheInit => CacheIInv
  <2> SUFFICES ASSUME CacheInit PROVE CacheIInv
    OBVIOUS
  <2> USE DEF CacheInit
  <2>1. DOMAIN entries = {} /\ DOMAIN index = {} /\ MaxTime \in Nat
        /\ MaxBytes \in Nat /\ MaxEntries \in Nat
    BY CacheAssumption DEF Empty
  <2>2. DOMAIN SizeOf = {}
    BY <2>1 DEF SizeOf
  <2>3. SumFunction(SizeOf) = 0
    BY <2>2, SumNone DEF SumFunction
  <2>4. Cardinality(DOMAIN entries) = 0
    BY <2>1, FS_EmptySet
  <2>5. CacheTypeOK
    <3>1. bytes \in Nat /\ now \in 0 .. MaxTime
      BY <2>1
    <3>2. collided \in BOOLEAN
      OBVIOUS
    <3> HIDE DEF CacheInit
    <3> QED
      BY <2>1, <3>1, <3>2 DEF CacheTypeOK
  <2>6. WithinLimits
    BY <2>1, <2>3, <2>4 DEF WithinLimits
  <2>7. IndexMatches
    BY <2>1 DEF IndexMatches
  <2> QED
    BY <2>5, <2>6, <2>7 DEF CacheIInv, CacheAccounts
<1>2. CacheIInv /\ [CacheNext]_cacheVars => CacheIInv'
  <2> SUFFICES ASSUME CacheIInv, [CacheNext]_cacheVars PROVE CacheIInv'
    OBVIOUS
  <2>1. ASSUME UNCHANGED <<entries, index, bytes, collided>>, now' \in 0 .. MaxTime
        PROVE  CacheIInv'
    BY <2>1 DEF CacheIInv, CacheTypeOK, CacheAccounts, WithinLimits, IndexMatches, SizeOf
  <2>2. CASE Tick
    <3>1. now' \in 0 .. MaxTime
      BY <2>2, CacheAssumption DEF Tick, CacheIInv, CacheTypeOK
    <3> QED
      BY <2>1, <2>2, <3>1 DEF Tick
  <2>3. CASE UNCHANGED cacheVars
    BY <2>1, <2>3 DEF cacheVars, CacheIInv, CacheTypeOK
  <2> QED
    BY <2>2, <2>3, HitStep, StoreStep DEF CacheNext
<1> QED
  BY <1>1, <1>2, PTL DEF CacheSpec

\* The index names keys only, by instants that have been.
THEOREM CacheTypeCorrect == CacheSpec => []CacheTypeOK
  BY CacheInvariance, PTL DEF CacheIInv

\* The bytes are counted exactly and neither limit is exceeded, whatever
\* instants threads use; as long as no two are the same the index leads to
\* every entry and to nothing else.
THEOREM CacheAccountsHold == CacheSpec => []CacheAccounts
<1>1. CacheIInv => CacheAccounts
  BY DEF CacheIInv
<1> QED
  BY <1>1, CacheInvariance, PTL

MakesRoom ==
    \A k \in Keys, s \in Sizes, t \in Instants :
        Store(k, s, t) /\ MaxEntries > 0 => k \in DOMAIN entries'

OlderGo ==
    \A k \in DOMAIN entries \ DOMAIN entries',
       j \in DOMAIN entries \cap DOMAIN entries' :
       entries'[j] = entries[j] => entries[k].last < entries[j].last

\* As long as every entry has an instant of its own, what fits into an empty
\* cache is stored, and what goes was used before all that stays.
THEOREM OldestGoFirst == CacheSpec => OldestMakesRoom
<1>1. ASSUME CacheIInv, ~collided, NEW k \in Keys, NEW s \in Sizes, NEW t \in Instants,
             Store(k, s, t), MaxEntries > 0
      PROVE  /\ DOMAIN entries' = Kept(k, Victims(k, s)) \cup {k}
             /\ entries'[k].size = s
  <2> DEFINE V == Victims(k, s)
             kept == Kept(k, V)
             new == [size |-> s, last |-> t, expires |-> t + Ttl]
  <2>1. s \in Nat /\ s <= MaxBytes
    BY <1>1, CacheAssumption DEF Store
  <2>2. Fits(k, s, V)
    BY <1>1, <2>1, OldestGo
  <2>3. entries' = With(Restrict(entries, kept), k, new)
    BY <1>1, <2>2 DEF Store
  <2>4. kept \subseteq DOMAIN entries
    BY DEF Kept
  <2> HIDE DEF kept
  <2>5. DOMAIN entries' = kept \cup {k} /\ entries'[k] = new
    BY <2>3, <2>4 DEF With, Restrict
  <2> QED
    BY <2>5 DEF kept
<1>2. ASSUME CacheIInv, ~collided PROVE MakesRoom
  BY <1>1, <1>2 DEF MakesRoom
<1>3. ASSUME CacheIInv, [CacheNext]_cacheVars, ~collided PROVE OlderGo
  <2> SUFFICES ASSUME NEW k \in DOMAIN entries \ DOMAIN entries',
                      NEW j \in DOMAIN entries \cap DOMAIN entries',
                      entries'[j] = entries[j]
               PROVE  entries[k].last < entries[j].last
    BY DEF OlderGo
  <2>1. PICK x \in Keys, s \in Sizes, t \in Instants : Store(x, s, t)
    <3>1. ASSUME NEW x \in Keys, NEW t \in Instants, Hit(x, t) PROVE FALSE
      BY <3>1 DEF Hit
    <3>2. DOMAIN entries' # DOMAIN entries
      OBVIOUS
    <3> QED
      BY <1>3, <3>1, <3>2 DEF CacheNext, Tick, cacheVars
  <2> DEFINE V == Victims(x, s)
  <2>2. MaxEntries > 0 /\ s \in Nat /\ s <= MaxBytes
    <3>1. IsFiniteSet(Cached) /\ Cached # {} /\ Cardinality(Cached) <= MaxEntries
      BY <1>3, CachedSizes DEF CacheIInv, CacheAccounts, WithinLimits, Cached
    <3>2. Cardinality(Cached) \in Nat /\ Cardinality(Cached) # 0
      BY <3>1, FS_CardinalityType, FS_EmptySet
    <3> QED
      BY <2>1, <3>1, <3>2, CacheAssumption DEF Store
  <2>3. DOMAIN entries' = Kept(x, V) \cup {x} /\ entries'[x].size = s
    BY <1>1, <1>3, <2>1, <2>2
  <2>4. V \subseteq DOMAIN OthersIndex(x)
    BY DEF Victims
  <2>5. k \in Evicted(x, V)
    BY <2>3 DEF Kept
  <2>6. entries[k].last \in V
    BY <1>3, <2>4, <2>5, IndexKept
  <2>7. CASE j = x
    <3>1. entries[x].size = s /\ x \in Cached
      BY <2>3, <2>7 DEF Cached
    <3>2. entries[k].last \notin V
      BY <1>3, <3>1, SameSize
    <3> QED
      BY <2>6, <3>2
  <2>8. CASE j # x
    <3>1. j \in Kept(x, V)
      BY <2>3, <2>8
    <3>2. entries[j].last \in DOMAIN OthersIndex(x) \ V
      BY <1>3, <2>4, <3>1, IndexKept
    <3> QED
      BY <1>3, <2>2, <2>6, <3>2, OldestGo
  <2> QED
    BY <2>7, <2>8
<1>4. CacheIInv /\ [CacheNext]_cacheVars
        => [~collided /\ cacheVars' # cacheVars => MakesRoom /\ OlderGo]_cacheVars
  BY <1>2, <1>3
<1> QED
  BY <1>4, CacheInvariance, PTL DEF CacheSpec, OldestMakesRoom, MakesRoom, OlderGo

-----------------------------------------------------------------------------
USE ReceiptAssumption

(***************************************************************************)
(* ReceiptBook.  The inductive invariant.  Counters relates the length of  *)
(* the file and the number in memory to the receipts that were signed.     *)
(* KeptOrRuined says how an acknowledged receipt can be missing: only in a *)
(* file with a ruined line, which no restart accepts.  AckedBelow says     *)
(* that the memory of a running process is past every acknowledged number. *)
(***************************************************************************)
Stored == {file[i] : i \in 1 .. Len(file)}

Counters ==
    /\ Len(file) <= signed
    /\ sequence <= signed + 1
    /\ ~terminated => Len(file) > 0

KeptOrRuined == Garbage \in Stored \/ acked \subseteq Stored

AckedBelow == running => \A p \in acked : p.sequence < sequence

ReceiptIInv ==
    /\ ReceiptTypeOK
    /\ Counters
    /\ KeptOrRuined
    /\ AckedBelow
    /\ NumbersRunOn

(***************************************************************************)
(* What a write to the file does.                                          *)
(***************************************************************************)
LEMMA ReceiptIsNoGarbage == Garbage \notin Receipt
BY DEF Garbage, Receipt

LEMMA NextIsReceipt ==
    ASSUME ReceiptIInv, Sign
    PROVE  NextReceipt \in Receipt /\ NextReceipt.sequence = sequence
BY DEF ReceiptIInv, ReceiptTypeOK, Counters, Sign, NextReceipt, Receipt, Hashes, Genesis

\* A line goes behind the others, or ruins the last one.
LEMMA LineAdded ==
    ASSUME ReceiptIInv, NEW line \in Receipt \cup {Garbage}, AddLine(line)
    PROVE  /\ file' \in Seq(Receipt \cup {Garbage})
           /\ Len(file') <= Len(file) + 1
           /\ Len(file') > 0
           /\ terminated => /\ file' = Append(file, line)
                            /\ Len(file') = Len(file) + 1
                            /\ \A i \in 1 .. Len(file) : file'[i] = file[i]
                            /\ file'[Len(file')] = line
                            /\ Stored' = Stored \cup {line}
           /\ ~terminated => Garbage \in Stored'
           /\ Garbage \in Stored => Garbage \in Stored'
<1> USE DEF ReceiptIInv, ReceiptTypeOK, Counters
<1>0. Len(file) \in Nat
  BY LenProperties
<1>1. CASE terminated
  <2>1. file' = Append(file, line)
    BY <1>1 DEF AddLine
  <2>2. /\ file' \in Seq(Receipt \cup {Garbage})
        /\ Len(file') = Len(file) + 1
        /\ \A i \in 1 .. Len(file) : file'[i] = file[i]
        /\ file'[Len(file) + 1] = line
    BY <2>1, AppendProperties
  <2>3. Stored' = Stored \cup {line}
    BY <1>0, <2>2 DEF Stored
  <2> QED
    BY <1>0, <1>1, <2>1, <2>2, <2>3
<1>2. CASE ~terminated
  <2>1. file' = [file EXCEPT ![Len(file)] = Garbage] /\ Len(file) \in 1 .. Len(file)
    BY <1>0, <1>2 DEF AddLine
  <2>2. /\ file' \in Seq(Receipt \cup {Garbage})
        /\ Len(file') = Len(file)
        /\ file'[Len(file)] = Garbage
    BY <2>1, ExceptSeq
  <2>3. Garbage \in Stored'
    BY <2>1, <2>2 DEF Stored
  <2>4. Len(file') <= Len(file) + 1 /\ Len(file') > 0
    BY <1>0, <2>1, <2>2
  <2> QED
    BY <1>2, <2>2, <2>3, <2>4, Zenon
<1> QED
  BY <1>1, <1>2

\* Wherever an append stops, no stored receipt is lost but in a file with a
\* ruined line.
LEMMA AppendStops ==
    ASSUME ReceiptIInv, Sign, Appended
    PROVE  /\ file' \in Seq(Receipt \cup {Garbage})
           /\ terminated' \in BOOLEAN
           /\ Len(file') <= Len(file) + 1
           /\ ~terminated' => Len(file') > 0
           /\ Garbage \in Stored' \/ Stored \subseteq Stored'
           /\ Garbage \in Stored => Garbage \in Stored'
<1> USE DEF ReceiptIInv, ReceiptTypeOK, Counters
<1>0. Len(file) \in Nat
  BY LenProperties
<1>1. CASE Append_Nothing
  BY <1>0, <1>1 DEF Append_Nothing, disk, Stored
<1>2. ASSUME NEW line \in Receipt \cup {Garbage}, AddLine(line), terminated' \in BOOLEAN
      PROVE  /\ file' \in Seq(Receipt \cup {Garbage})
             /\ terminated' \in BOOLEAN
             /\ Len(file') <= Len(file) + 1
             /\ Len(file') > 0
             /\ Garbage \in Stored' \/ Stored \subseteq Stored'
             /\ Garbage \in Stored => Garbage \in Stored'
  BY <1>2, LineAdded
<1>3. \/ Append_Nothing
      \/ AddLine(Garbage) /\ terminated' \in BOOLEAN
      \/ AddLine(NextReceipt) /\ terminated' \in BOOLEAN
  BY DEF Appended, Append_Part, Append_Line, Append_All
<1> QED
  BY <1>1, <1>2, <1>3, NextIsReceipt

\* A line that continues the chain keeps it one that verifies.
LEMMA ChainContinued ==
    ASSUME NEW f \in Seq(Receipt \cup {Garbage}), NEW line \in Receipt,
           Verifies(f), line.sequence = Len(f) + 1, line.prev = LastHash(f)
    PROVE  /\ Verifies(Append(f, line))
           /\ LastHash(Append(f, line)) = line.hash
<1> DEFINE g == Append(f, line)
<1>1. /\ Len(f) \in Nat
      /\ Len(g) = Len(f) + 1
      /\ \A i \in 1 .. Len(f) : g[i] = f[i]
      /\ g[Len(f) + 1] = line
  BY AppendProperties, LenProperties
<1> HIDE DEF g
<1>2. LastHash(g) = line.hash
  BY <1>1 DEF LastHash, HashBefore
<1>3. \A i \in 1 .. Len(f) + 1 : HashBefore(g, i) = HashBefore(f, i)
  BY <1>1 DEF HashBefore
<1>4. ASSUME NEW i \in 1 .. Len(g)
      PROVE  g[i] # Garbage /\ g[i].sequence = i /\ g[i].prev = HashBefore(g, i)
  <2>1. CASE i \in 1 .. Len(f)
    BY <1>1, <1>3, <2>1 DEF Verifies
  <2>2. CASE i = Len(f) + 1
    BY <1>1, <1>3, <2>2, ReceiptIsNoGarbage DEF LastHash
  <2> QED
    BY <1>1, <2>1, <2>2
<1>5. Verifies(g)
  BY <1>4 DEF Verifies
<1> QED
  BY <1>2, <1>5 DEF g

\* Every line of a file is a receipt or ruined; one that verifies has
\* receipts only, numbered from 1.
LEMMA VerifiedLines ==
    ASSUME ReceiptIInv, Verifies(file)
    PROVE  /\ acked \subseteq Stored
           /\ \A p \in Stored : p.sequence <= Len(file)
           /\ LastHash(file) \in Hashes
<1> USE DEF ReceiptIInv, ReceiptTypeOK
<1>0. Len(file) \in Nat
  BY LenProperties
<1>1. Garbage \notin Stored
  BY DEF Verifies, Stored
<1>2. \A i \in 1 .. Len(file) : file[i] \in Receipt /\ file[i].sequence = i
  BY ElementOfSeq DEF Verifies
<1>3. LastHash(file) \in Hashes
  BY <1>0, <1>2 DEF LastHash, HashBefore, Hashes, Receipt, Genesis
<1> QED
  BY <1>0, <1>1, <1>2, <1>3 DEF KeptOrRuined, Stored

\* RecordOk keeps the invariant: the receipt it acknowledges is stored, or
\* has ruined the line it was written to.
LEMMA RecordOkStep ==
    ASSUME ReceiptIInv, RecordOk
    PROVE  ReceiptIInv'
<1> USE DEF ReceiptIInv, ReceiptTypeOK
<1>0. Len(file) \in Nat
  BY LenProperties
<1>1. /\ AddLine(NextReceipt) /\ terminated' = TRUE
      /\ running /\ running' = running /\ healthy' = healthy
      /\ signed < MaxReceipts /\ signed' = signed + 1
      /\ sequence' = sequence + 1
      /\ prevHash' = NextReceipt.hash
      /\ acked' = acked \cup {NextReceipt}
  BY DEF RecordOk, Sign, Append_All, Advance
<1>2. NextReceipt \in Receipt /\ NextReceipt.sequence = sequence
  BY NextIsReceipt DEF RecordOk
<1>3. NextReceipt.hash = signed + 1 /\ NextReceipt.prev = prevHash
  BY DEF NextReceipt
<1>4. ReceiptTypeOK' /\ Counters'
  <2>1. file' \in Seq(Receipt \cup {Garbage}) /\ Len(file') <= Len(file) + 1
    BY <1>1, <1>2, LineAdded
  <2>2. prevHash' \in Hashes
    BY <1>1, <1>3 DEF Hashes, Genesis
  <2>3. sequence' \in 1 .. MaxReceipts + 1 /\ signed' \in 0 .. MaxReceipts
    BY <1>1 DEF Counters
  <2>4. Len(file') <= signed' /\ sequence' <= signed' + 1
    BY <1>0, <1>1, <2>1, LenProperties DEF Counters
  <2> QED
    BY <1>1, <1>2, <2>1, <2>2, <2>3, <2>4 DEF Counters
<1>5. KeptOrRuined'
  BY <1>1, <1>2, LineAdded DEF KeptOrRuined
<1>6. AckedBelow'
  BY <1>1, <1>2 DEF AckedBelow, Receipt
<1>7. MemoryContinuesFile'
  <2>1. CASE healthy
    <3>1. terminated /\ Verifies(file) /\ sequence = Len(file) + 1 /\ prevHash = LastHash(file)
      BY <1>1, <2>1 DEF NumbersRunOn, MemoryContinuesFile
    <3>2. file' = Append(file, NextReceipt) /\ Len(file') = Len(file) + 1
      BY <1>1, <1>2, <3>1, LineAdded
    <3>3. Verifies(file') /\ LastHash(file') = NextReceipt.hash
      BY <1>2, <1>3, <3>1, <3>2, ChainContinued
    <3>4. Verifies(file)' = Verifies(file') /\ LastHash(file)' = LastHash(file')
      BY DEF Verifies, LastHash, HashBefore
    <3> QED
      BY <1>1, <3>1, <3>2, <3>3, <3>4 DEF MemoryContinuesFile
  <2>2. CASE ~healthy
    BY <1>1, <2>2 DEF MemoryContinuesFile
  <2> QED
    BY <2>1, <2>2
<1>8. AckedNumbersDiffer'
  BY <1>1, <1>2 DEF NumbersRunOn, AckedNumbersDiffer, AckedBelow, Receipt
<1> QED
  BY <1>4, <1>5, <1>6, <1>7, <1>8 DEF NumbersRunOn

\* So does an append that fails, or is the last thing the process does:
\* nothing is acknowledged, and nothing claimed of the memory.
LEMMA AppendFailsStep ==
    ASSUME ReceiptIInv, RecordFails \/ CrashInRecord
    PROVE  ReceiptIInv'
<1> USE DEF ReceiptIInv, ReceiptTypeOK
<1>0. Len(file) \in Nat
  BY LenProperties
<1>1. /\ signed < MaxReceipts /\ signed' = signed + 1
      /\ running /\ (~running' \/ ~healthy')
      /\ running' \in BOOLEAN /\ healthy' \in BOOLEAN
      /\ UNCHANGED <<sequence, prevHash, acked>>
  BY DEF RecordFails, CrashInRecord, Sign, memory
<1>2. /\ file' \in Seq(Receipt \cup {Garbage})
      /\ terminated' \in BOOLEAN
      /\ Len(file') <= Len(file) + 1
      /\ ~terminated' => Len(file') > 0
      /\ Garbage \in Stored' \/ Stored \subseteq Stored'
      /\ Garbage \in Stored => Garbage \in Stored'
  BY AppendStops DEF RecordFails, CrashInRecord
<1>3. ReceiptTypeOK'
  BY <1>1, <1>2
<1>4. Counters'
  BY <1>0, <1>1, <1>2, LenProperties DEF Counters
<1>5. KeptOrRuined' /\ AckedBelow'
  BY <1>1, <1>2 DEF KeptOrRuined, AckedBelow
<1>6. NumbersRunOn'
  BY <1>1 DEF NumbersRunOn, MemoryContinuesFile, AckedNumbersDiffer
<1> QED
  BY <1>3, <1>4, <1>5, <1>6

\* A restart takes over what it verified.
LEMMA RestartStep ==
    ASSUME ReceiptIInv, Restart
    PROVE  ReceiptIInv'
<1> USE DEF ReceiptIInv, ReceiptTypeOK
<1>0. Len(file) \in Nat
  BY LenProperties
<1>1. /\ Verifies(file) /\ running' = TRUE
      /\ sequence' = Len(file) + 1
      /\ prevHash' = LastHash(file)
      /\ healthy' = terminated
      /\ UNCHANGED <<file, terminated, signed, acked>>
  BY DEF Restart, NextSequence, disk
<1>2. /\ acked \subseteq Stored
      /\ \A p \in Stored : p.sequence <= Len(file)
      /\ LastHash(file) \in Hashes
  BY <1>1, VerifiedLines
<1>3. ReceiptTypeOK' /\ Counters'
  BY <1>0, <1>1, <1>2 DEF Counters
<1>4. KeptOrRuined'
  BY <1>1, <1>2 DEF KeptOrRuined, Stored
<1>5. AckedBelow'
  <2>1. \A p \in acked : p.sequence \in Int /\ p.sequence <= Len(file)
    BY <1>2 DEF Receipt
  <2> QED
    BY <1>0, <1>1, <2>1 DEF AckedBelow
<1>6. NumbersRunOn'
  <2>1. Verifies(file)' = Verifies(file) /\ LastHash(file)' = LastHash(file)
    BY <1>1 DEF Verifies, LastHash, HashBefore
  <2> QED
    BY <1>1, <2>1 DEF NumbersRunOn, MemoryContinuesFile, AckedNumbersDiffer
<1> QED
  BY <1>3, <1>4, <1>5, <1>6

\* The inductive invariant holds throughout.
LEMMA ReceiptInvariance == ReceiptSpec => []ReceiptIInv
<1>1. ReceiptInit => ReceiptIInv
  <2> SUFFICES ASSUME ReceiptInit PROVE ReceiptIInv
    OBVIOUS
  <2> USE DEF ReceiptInit
  <2>1. file = <<>> /\ Len(file) = 0 /\ file \in Seq(Receipt \cup {Garbage})
    BY EmptySeq
  <2>2. ReceiptTypeOK /\ Counters
    BY <2>1 DEF ReceiptTypeOK, Counters, Hashes, Genesis
  <2>3. KeptOrRuined /\ AckedBelow
    BY <2>1 DEF KeptOrRuined, AckedBelow
  <2>4. NumbersRunOn
    BY <2>1 DEF NumbersRunOn, MemoryContinuesFile, AckedNumbersDiffer,
                Verifies, LastHash, HashBefore
  <2> QED
    BY <2>2, <2>3, <2>4 DEF ReceiptIInv
<1>2. ReceiptIInv /\ [ReceiptNext]_receiptVars => ReceiptIInv'
  <2> SUFFICES ASSUME ReceiptIInv, [ReceiptNext]_receiptVars PROVE ReceiptIInv'
    OBVIOUS
  <2>1. CASE Crash
    BY <2>1 DEF Crash, disk, ReceiptIInv, ReceiptTypeOK, Counters, KeptOrRuined,
                Stored, AckedBelow, NumbersRunOn, MemoryContinuesFile,
                AckedNumbersDiffer
  <2>2. CASE UNCHANGED receiptVars
    BY <2>2 DEF receiptVars, disk, memory, ReceiptIInv, ReceiptTypeOK, Counters,
                KeptOrRuined, Stored, AckedBelow, NumbersRunOn,
                MemoryContinuesFile, AckedNumbersDiffer, Verifies, LastHash,
                HashBefore
  <2> QED
    BY <2>1, <2>2, RecordOkStep, AppendFailsStep, RestartStep DEF ReceiptNext
<1> QED
  BY <1>1, <1>2, PTL DEF ReceiptSpec

\* The numbers and hashes of the receipts stay within what was signed.
THEOREM ReceiptTypeCorrect == ReceiptSpec => []ReceiptTypeOK
  BY ReceiptInvariance, PTL DEF ReceiptIInv

\* Whatever fails, and wherever the process dies: a file that verifies holds
\* every receipt whose recording was reported as done.
THEOREM Complete == ReceiptSpec => []VerifiedMeansComplete
<1>1. ReceiptIInv => VerifiedMeansComplete
  BY VerifiedLines DEF VerifiedMeansComplete, Stored
<1> QED
  BY <1>1, ReceiptInvariance, PTL

\* As long as appends succeed memory continues a file that verifies; and no
\* number is acknowledged twice, over all failures and restarts.
THEOREM NumbersUnique == ReceiptSpec => []NumbersRunOn
<1>1. ReceiptIInv => NumbersRunOn
  BY DEF ReceiptIInv
<1> QED
  BY <1>1, ReceiptInvariance, PTL

-----------------------------------------------------------------------------
(***************************************************************************)
(* FileTools.                                                              *)
(***************************************************************************)
\* A tree in which everything lies in a directory.
FsClosed(tree) ==
    /\ <<>> \in DOMAIN tree
    /\ \A p \in DOMAIN tree :
        /\ FsPlaced(p) /\ tree[p].kind \in FsKinds
        /\ p # <<>> => KindIn(tree, Front(p)) = "dir"

\* Where a path may lead.
Landings(tree) == DOMAIN tree \cup {FsNowhere}

LEMMA NowhereIsNoPlace == ~FsPlaced(FsNowhere)
<1>1. ToSet(FsNowhere) = {".."}
  BY DEF FsNowhere, ToSet
<1> QED
  BY <1>1 DEF FsPlaced

\* What is there is of some kind.
LEMMA Kinds ==
    ASSUME NEW tree, FsClosed(tree)
    PROVE  /\ \A p : KindIn(tree, p) # "none" <=> p \in DOMAIN tree
           /\ KindIn(tree, FsNowhere) = "none" /\ FsNowhere \notin DOMAIN tree
BY NowhereIsNoPlace DEF FsClosed, KindIn, FsKinds

\* A step from a place leads to a place, or nowhere.
LEMMA EnterLands ==
    ASSUME NEW tree, FsClosed(tree), NEW d \in Landings(tree), NEW name
    PROVE  FsEnter(tree, d, name) \in Landings(tree)
<1>1. \A p : KindIn(tree, p) # "none" => p \in DOMAIN tree
  BY Kinds
<1> DEFINE p == Append(d, name)
<1>2. CASE d = FsNowhere \/ KindIn(tree, d) # "dir"
  BY <1>2 DEF FsEnter, Landings
<1>3. CASE d # FsNowhere /\ KindIn(tree, d) = "dir" /\ name = ".."
  <2>1. d = <<>> \/ Front(d) \in DOMAIN tree
    BY <1>1, <1>3 DEF FsClosed, Landings
  <2> QED
    BY <1>3, <2>1 DEF FsEnter, Landings
<1>4. CASE d # FsNowhere /\ KindIn(tree, d) = "dir" /\ name # ".."
  BY <1>4 DEF FsEnter, Landings
<1> QED
  BY <1>2, <1>3, <1>4

\* The walk w along the path, name by name.
FsWalk(tree, base, path, w) ==
    /\ w \in [0 .. Len(path) -> Landings(tree)]
    /\ w[0] = base
    /\ \A n \in 1 .. Len(path) : w[n] = FsEnter(tree, w[n - 1], path[n])

\* The path leads where its walk ends.
LEMMA RealSteps ==
    ASSUME NEW tree, FsClosed(tree), NEW base \in Landings(tree), NEW T, NEW path \in Seq(T)
    PROVE  \E w : FsWalk(tree, base, path, w) /\ FsReal(tree, base, path) = w[Len(path)]
<1> DEFINE N == Len(path)
           step == [n \in 1 .. N |-> [d \in Landings(tree) |-> FsEnter(tree, d, path[n])]]
           Is(f) == f = [n \in 0 .. N |-> IF n = 0 THEN base ELSE FsEnter(tree, f[n - 1], path[n])]
           at == CHOOSE f : Is(f)
<1>1. FsReal(tree, base, path) = at[N]
  BY DEF FsReal
<1>2. N \in Nat
  OBVIOUS
<1>3. \A n \in 1 .. N : \A d \in Landings(tree) : step[n][d] = FsEnter(tree, d, path[n])
  OBVIOUS
<1> HIDE DEF N, step
<1>4. PICK w : GoesOn(w, N, Landings(tree), base, step)
  <2>1. \A n \in 1 .. N : \A d \in Landings(tree) : step[n][d] \in Landings(tree)
    BY <1>3, EnterLands
  <2> QED
    BY <1>2, <2>1, Stepping
<1>5. /\ w = [n \in 0 .. N |-> w[n]] /\ \A n \in 0 .. N : w[n] \in Landings(tree)
      /\ w[0] = base /\ \A n \in 1 .. N : w[n] = step[n][w[n - 1]]
  BY <1>4 DEF GoesOn
<1>6. \A n \in 1 .. N : w[n] = FsEnter(tree, w[n - 1], path[n])
  <2> SUFFICES ASSUME NEW n \in 1 .. N PROVE w[n] = FsEnter(tree, w[n - 1], path[n])
    OBVIOUS
  <2>1. n - 1 \in 0 .. N
    BY <1>2
  <2>2. w[n - 1] \in Landings(tree)
    BY <1>5, <2>1
  <2> QED
    BY <1>3, <1>5, <2>2
<1>7. Is(w)
  <2>1. \A n \in 0 .. N : w[n] = IF n = 0 THEN base ELSE FsEnter(tree, w[n - 1], path[n])
    <3> SUFFICES ASSUME NEW n \in 0 .. N
                 PROVE  w[n] = IF n = 0 THEN base ELSE FsEnter(tree, w[n - 1], path[n])
      OBVIOUS
    <3>1. CASE n = 0
      BY <1>5, <3>1
    <3>2. CASE n # 0
      <4>1. n \in 1 .. N
        BY <1>2, <3>2
      <4> QED
        BY <1>6, <3>2, <4>1
    <3> QED
      BY <3>1, <3>2
  <2> QED
    BY <1>5, <2>1, Zenon
<1>8. Is(at)
  BY <1>7
<1> HIDE DEF at
<1>9. at[0] = base /\ \A n \in 1 .. N : at[n] = FsEnter(tree, at[n - 1], path[n])
  BY <1>2, <1>8
<1>10. at \in [0 .. N -> Landings(tree)]
  <2> DEFINE P == {n \in 0 .. N : at[n] \in Landings(tree)}
  <2>1. 0 \in P
    BY <1>2, <1>9
  <2>2. \A n \in 1 .. N : n - 1 \in P => n \in P
    BY <1>2, <1>9, EnterLands
  <2>3. \A n \in 0 .. N : n \in P
    <3> HIDE DEF P
    <3> QED
      BY <1>2, <2>1, <2>2, UpTo
  <2> QED
    BY <1>8, <2>3
<1> QED
  BY <1>1, <1>9, <1>10 DEF N, FsWalk

\* The beginnings of a path lead where it leads on from.
LEMMA RealOfPrefixes ==
    ASSUME NEW tree, FsClosed(tree), NEW base \in Landings(tree), NEW T, NEW path \in Seq(T)
    PROVE  \E w : /\ FsWalk(tree, base, path, w)
                  /\ \A n \in 0 .. Len(path) : FsReal(tree, base, SubSeq(path, 1, n)) = w[n]
<1> DEFINE N == Len(path)
<1>1. N \in Nat
  OBVIOUS
<1>2. PICK w : FsWalk(tree, base, path, w)
  BY RealSteps
<1>3. ASSUME NEW n \in 0 .. N PROVE FsReal(tree, base, SubSeq(path, 1, n)) = w[n]
  <2> DEFINE a == SubSeq(path, 1, n)
  <2>1. a \in Seq(T) /\ Len(a) = n /\ \A i \in 1 .. n : a[i] = path[i]
    BY <1>1
  <2>2. n \in Nat /\ n <= N
    BY <1>1
  <2> HIDE DEF N, a
  <2>3. PICK v : FsWalk(tree, base, a, v) /\ FsReal(tree, base, a) = v[Len(a)]
    BY <2>1, RealSteps
  <2> DEFINE P == {i \in 0 .. n : v[i] = w[i]}
  <2>4. 0 \in P
    BY <1>1, <1>2, <2>1, <2>2, <2>3 DEF FsWalk
  <2>5. ASSUME NEW i \in 1 .. n, i - 1 \in P PROVE i \in P
    <3>1. i \in 1 .. N /\ i \in 0 .. n /\ v[i - 1] = w[i - 1]
      BY <1>1, <2>2, <2>5
    <3> QED
      BY <1>2, <2>1, <2>3, <3>1 DEF FsWalk, N
  <2>6. \A i \in 0 .. n : i \in P
    <3> HIDE DEF P
    <3> QED
      BY <2>2, <2>4, <2>5, UpTo, Zenon
  <2> QED
    BY <2>1, <2>2, <2>3, <2>6 DEF a
<1> QED
  BY <1>2, <1>3

\* The path up to its n-th name may be opened: it is no link there.
Opens(tree, path, n) ==
    FsReal(tree, <<>>, SubSeq(path, 1, n)) # FsNowhere => KindIn(tree, SubSeq(path, 1, n)) # "link"

\* A path of which no beginning is a link leads to itself, or nowhere.
LEMMA LeadsToItself ==
    ASSUME NEW tree, FsClosed(tree), NEW q, FsPlaced(q), \A n \in 0 .. Len(q) : Opens(tree, q, n)
    PROVE  FsReal(tree, <<>>, q) \in {q, FsNowhere}
<1> DEFINE N == Len(q)
<1>1. q \in Seq(STRING) /\ N \in Nat /\ <<>> \in Landings(tree)
  BY DEF FsPlaced, FsClosed, Landings
<1>2. PICK w : /\ FsWalk(tree, <<>>, q, w)
                /\ \A n \in 0 .. N : FsReal(tree, <<>>, SubSeq(q, 1, n)) = w[n]
  BY <1>1, RealOfPrefixes
<1>3. /\ w \in [0 .. N -> Landings(tree)]
      /\ w[0] = <<>>
      /\ \A n \in 1 .. N : w[n] = FsEnter(tree, w[n - 1], q[n])
      /\ \A n \in 0 .. N : FsReal(tree, <<>>, SubSeq(q, 1, n)) = w[n]
  BY <1>2 DEF FsWalk
<1> DEFINE P == {n \in 0 .. N : w[n] \in {SubSeq(q, 1, n), FsNowhere}}
<1>4. 0 \in P
  <2>1. SubSeq(q, 1, 0) = <<>>
    BY <1>1
  <2>2. 0 \in 0 .. N
    BY <1>1
  <2> HIDE DEF N
  <2> QED
    BY <1>3, <2>1, <2>2, Zenon
<1>5. ASSUME NEW n \in 1 .. N, n - 1 \in P PROVE n \in P
  <2> DEFINE a == SubSeq(q, 1, n)
             b == SubSeq(q, 1, n - 1)
  <2>1. n \in 0 .. N /\ a = Append(b, q[n])
    BY <1>1
  <2>2. q[n] # ".."
    BY <1>1 DEF FsPlaced, ToSet
  <2>3. w[n - 1] \in {b, FsNowhere} /\ w[n] = FsEnter(tree, w[n - 1], q[n])
    BY <1>3, <1>5
  <2>4. w[n] = FsNowhere \/ KindIn(tree, a) # "link"
    BY <1>3, <2>1 DEF Opens
  <2> HIDE DEF a, b
  <2>5. w[n] \in {a, FsNowhere}
    BY <2>1, <2>2, <2>3, <2>4 DEF FsEnter, KindIn
  <2> QED
    BY <2>1, <2>5 DEF a
<1>6. \A n \in 0 .. N : n \in P
  <2> HIDE DEF P, N
  <2> QED
    BY <1>1, <1>4, <1>5, UpTo, Zenon
<1>7. SubSeq(q, 1, N) = q /\ N \in 0 .. N
  BY <1>1
<1> QED
  BY <1>3, <1>6, <1>7

\* Above a place there are directories only.
LEMMA AboveAreDirs ==
    ASSUME NEW tree, FsClosed(tree), NEW p \in DOMAIN tree, NEW n \in 0 .. Len(p) - 1
    PROVE  KindIn(tree, SubSeq(p, 1, n)) = "dir"
<1> DEFINE N == Len(p)
           P == {k \in 0 .. N : k = 0 \/ KindIn(tree, SubSeq(p, 1, N - k)) = "dir"}
<1>1. p \in Seq(STRING) /\ N \in Nat
  BY DEF FsClosed, FsPlaced
<1>2. 0 \in P
  BY <1>1
<1>3. ASSUME NEW k \in 1 .. N, k - 1 \in P PROVE k \in P
  <2> DEFINE a == SubSeq(p, 1, N - (k - 1))
             b == SubSeq(p, 1, N - k)
  <2>1. /\ N - (k - 1) \in 1 .. N /\ N - k \in 0 .. N
        /\ a \in Seq(STRING) /\ Len(a) = N - (k - 1)
    BY <1>1
  <2>2. Front(a) = b
    BY <1>1, <2>1 DEF Front
  <2>3. a \in DOMAIN tree
    <3>1. CASE k - 1 = 0
      <4>1. N - (k - 1) = N /\ SubSeq(p, 1, N) = p
        BY <1>1, <3>1
      <4> QED
        BY <4>1
    <3>2. CASE k - 1 # 0
      <4>1. KindIn(tree, a) = "dir"
        BY <1>3, <3>2
      <4> QED
        BY <4>1, Kinds
    <3> QED
      BY <3>1, <3>2
  <2>4. a # <<>>
    <3>1. Len(a) # 0
      BY <1>1, <2>1
    <3> HIDE DEF a
    <3> QED
      BY <3>1
  <2>5. KindIn(tree, b) = "dir"
    BY <2>2, <2>3, <2>4 DEF FsClosed
  <2> QED
    BY <1>1, <2>5
<1>4. \A k \in 0 .. N : k \in P
  <2> HIDE DEF P, N
  <2> QED
    BY <1>1, <1>2, <1>3, UpTo, Zenon
<1>5. N - n \in 1 .. N /\ N - (N - n) = n
  BY <1>1
<1> QED
  BY <1>4, <1>5

\* The beginnings of a place are places, one name after the other.
LEMMA Beginnings ==
    ASSUME NEW q, FsPlaced(q), NEW n \in 0 .. Len(q)
    PROVE  /\ FsPlaced(SubSeq(q, 1, n)) /\ Len(SubSeq(q, 1, n)) = n
           /\ n # 0 => SubSeq(q, 1, n) # <<>> /\ Front(SubSeq(q, 1, n)) = SubSeq(q, 1, n - 1)
           /\ SubSeq(q, 1, Len(q)) = q
           /\ \A m \in 0 .. n : SubSeq(SubSeq(q, 1, n), 1, m) = SubSeq(q, 1, m)
<1> DEFINE a == SubSeq(q, 1, n)
<1>1. q \in Seq(STRING) /\ Len(q) \in Nat /\ \A i \in 1 .. Len(q) : q[i] # ".."
  BY DEF FsPlaced, ToSet
<1>2. a \in Seq(STRING) /\ Len(a) = n /\ \A i \in 1 .. n : a[i] = q[i]
  BY <1>1
<1>3. FsPlaced(a)
  BY <1>1, <1>2 DEF FsPlaced, ToSet
<1>4. \A m \in 0 .. n : SubSeq(a, 1, m) = SubSeq(q, 1, m)
  BY <1>1
<1>5. SubSeq(q, 1, Len(q)) = q
  BY <1>1
<1>6. n # 0 => a # <<>>
  <2> HIDE DEF a
  <2> QED
    BY <1>2
<1>7. ASSUME n # 0 PROVE Front(a) = SubSeq(q, 1, n - 1)
  <2>1. Front(a) = SubSeq(a, 1, n - 1)
    BY <1>2 DEF Front
  <2>2. n - 1 \in 0 .. n
    BY <1>1, <1>7
  <2> QED
    BY <1>4, <2>1, <2>2
<1> QED
  BY <1>2, <1>3, <1>4, <1>5, <1>6, <1>7

LEMMA PrefixesAre ==
    ASSUME NEW q, NEW n \in 0 .. Len(q)
    PROVE  SubSeq(q, 1, n) \in Prefixes(q)
BY DEF Prefixes

\* What validate_path returns is a place: ".." is resolved in what there is,
\* and refused in what there is not.
LEMMA TargetIsPlace ==
    ASSUME FsClosed(fsTree), FsRoot \in DOMAIN fsTree, NEW path \in Seq(STRING),
           FsSplit(path).ok, FsBase(path) # FsNowhere
    PROVE  FsPlaced(FsTarget(path))
<1> DEFINE k == IF FsGone(path) = {} THEN Len(path) ELSE Min(FsGone(path)) - 1
           prefix == SubSeq(path, 1, k)
           tail == SubSeq(path, k + 1, Len(path))
           base == FsReal(fsTree, FsRoot, prefix)
<1>1. Len(path) \in Nat /\ FsGone(path) \subseteq 1 .. Len(path)
  BY DEF FsGone
<1>2. k \in 0 .. Len(path)
  <2>1. CASE FsGone(path) = {}
    BY <1>1, <2>1
  <2>2. CASE FsGone(path) # {}
    <3>1. FsGone(path) \in SUBSET Nat
      BY <1>1
    <3>2. \E m \in FsGone(path) : \A y \in FsGone(path) : m <= y
      BY <2>2, <3>1, LeastNumber
    <3>3. Min(FsGone(path)) \in FsGone(path)
      BY <3>2 DEF Min
    <3> QED
      BY <1>1, <2>2, <3>3
  <2> QED
    BY <2>1, <2>2
<1>3. /\ FsSplit(path).ok = (".." \notin ToSet(tail))
      /\ FsSplit(path).prefix = prefix /\ FsSplit(path).tail = tail
  BY DEF FsSplit
<1> HIDE DEF k
<1>4. prefix \in Seq(STRING) /\ tail \in Seq(STRING)
  BY <1>1, <1>2
<1> HIDE DEF prefix, tail
<1>5. FsRoot \in Landings(fsTree)
  BY DEF Landings
<1>6. base \in Landings(fsTree)
  <2>1. PICK w : FsWalk(fsTree, FsRoot, prefix, w) /\ FsReal(fsTree, FsRoot, prefix) = w[Len(prefix)]
    BY <1>4, <1>5, RealSteps
  <2>2. Len(prefix) \in 0 .. Len(prefix)
    BY <1>4
  <2> QED
    BY <2>1, <2>2 DEF FsWalk
<1> HIDE DEF base
<1>7. FsBase(path) = base /\ FsTarget(path) = base \o tail
  BY <1>3 DEF FsBase, FsTarget, base
<1>8. base \in Seq(STRING) /\ \A i \in 1 .. Len(base) : base[i] # ".."
  <2>1. FsPlaced(base)
    BY <1>6, <1>7 DEF Landings, FsClosed
  <2> QED
    BY <2>1 DEF FsPlaced, ToSet
<1>9. \A i \in 1 .. Len(tail) : tail[i] # ".."
  <2>1. ".." \notin ToSet(tail)
    BY <1>3
  <2> QED
    BY <1>4, <2>1 DEF ToSet
<1>10. base \o tail \in Seq(STRING) /\ \A i \in 1 .. Len(base \o tail) : (base \o tail)[i] # ".."
  BY <1>4, <1>8, <1>9
<1> QED
  BY <1>7, <1>10 DEF FsPlaced, ToSet

(***************************************************************************)
(* The inductive invariant: until a tool acts it has touched nothing and   *)
(* the tree is in order; the path that was returned lies in the root; none *)
(* of its beginnings is a link, but perhaps what another process has put   *)
(* at its end, which the look before the act finds.                        *)
(***************************************************************************)
\* The path returned may be opened up to its m-th name.
OpenTo(m) == \A n \in 0 .. m : Opens(fsTree, fsSafe, n)

FsHeld ==
    /\ FsPlaced(FsRoot) /\ FsPlaced(fsSafe)
    /\ IsPrefix(FsRoot, fsSafe) /\ ~Sensitive(fsSafe)

FsUnacted ==
    fsPhase \in {"start", "valid", "looked"} => FsClosed(fsTree) /\ fsTouched = {}

FsFresh ==
    fsPhase = "start" =>
        FsRoot \in DOMAIN fsTree /\ fsExchanged = "no" /\ fsCall.path \in FsRequests

FsValidated == fsPhase \in {"valid", "looked"} => FsHeld

FsOpened ==
    /\ fsPhase = "valid" /\ fsExchanged # "unseen" => OpenTo(Len(fsSafe) - 1)
    /\ fsPhase = "valid" /\ fsExchanged = "no" => OpenTo(Len(fsSafe))
    /\ fsPhase = "looked" /\ fsExchanged # "unseen" => OpenTo(Len(fsSafe))

FsLookedAt ==
    /\ fsCall.tool = "search" => fsExchanged # "checked"
    /\ fsPhase = "looked" /\ fsExchanged # "unseen" /\ fsCall.tool # "search" =>
           Kind(fsSafe) \notin {"link", "hard"}

FsIInv ==
    FsTypeOK /\ FsUnacted /\ FsFresh /\ FsValidated /\ FsOpened /\ FsLookedAt /\ FsStaysInside

LEMMA FsInitially == FsInit => FsIInv
<1> SUFFICES ASSUME FsInit PROVE FsIInv
  OBVIOUS
<1> USE DEF FsInit
<1>1. FsClosed(fsTree)
  BY FsAssumption DEF FsClosed, KindIn, FsKinds
<1>2. FsTypeOK
  BY FsAssumption DEF FsTypeOK
<1>3. FsUnacted /\ FsFresh
  BY <1>1, FsAssumption DEF FsUnacted, FsFresh
<1>4. FsValidated /\ FsOpened /\ FsLookedAt /\ FsStaysInside
  BY DEF FsValidated, FsOpened, FsLookedAt, FsStaysInside
<1> QED
  BY <1>2, <1>3, <1>4 DEF FsIInv

LEMMA ValidateStep == FsIInv /\ FsValidate => FsIInv'
<1> SUFFICES ASSUME FsIInv, FsValidate PROVE FsIInv'
  OBVIOUS
<1>1. FsClosed(fsTree) /\ fsTouched = {} /\ FsRoot \in DOMAIN fsTree /\ fsExchanged = "no"
      /\ fsCall.path \in FsRequests
  BY DEF FsIInv, FsValidate, FsUnacted, FsFresh
<1>2. UNCHANGED <<fsTree, fsCall, fsTouched, fsExchanged>>
  BY DEF FsValidate
<1>3. FsClosed(fsTree)' /\ fsTouched' = {}
  BY <1>1, <1>2
<1>4. FsTypeOK' /\ FsUnacted' /\ FsStaysInside'
  BY <1>2, <1>3 DEF FsIInv, FsTypeOK, FsUnacted, FsStaysInside, FsValidate
<1>5. CASE FsValid(fsCall.path)
  <2> DEFINE target == FsTarget(fsCall.path)
  <2>1. fsPhase' = "valid" /\ fsSafe' = target
    BY <1>5 DEF FsValidate
  <2>2. fsCall.path \in Seq(STRING)
    BY <1>1, FsAssumption
  <2>3. FsPlaced(target)
    BY <1>1, <1>5, <2>2, TargetIsPlace DEF FsValid
  <2>4. IsPrefix(FsRoot, target) /\ ~Sensitive(target) /\ NoLinks(target)
    BY <1>5 DEF FsValid, Authorized
  <2>5. FsPlaced(FsRoot)
    BY <1>1 DEF FsClosed
  <2>6. \A n \in 0 .. Len(target) : Opens(fsTree, target, n)
    BY <2>4, PrefixesAre DEF NoLinks, Opens, Exists, Kind
  <2> HIDE DEF target
  <2>7. \A n \in 0 .. Len(fsSafe') : Opens(fsTree, fsSafe, n)'
    BY <1>2, <2>1, <2>6 DEF Opens
  <2> QED
    BY <1>1, <1>2, <1>4, <2>1, <2>3, <2>4, <2>5, <2>7
    DEF FsIInv, FsFresh, FsValidated, FsHeld, FsOpened, OpenTo, FsLookedAt, Sensitive
<1>6. CASE ~FsValid(fsCall.path)
  <2>1. fsPhase' = "refused"
    BY <1>6 DEF FsValidate
  <2> QED
    BY <1>1, <1>2, <1>4, <2>1
    DEF FsIInv, FsFresh, FsValidated, FsOpened, FsLookedAt
<1> QED
  BY <1>5, <1>6

\* Who looks at the path itself has looked at all of it.
LEMMA OpensItself ==
    ASSUME FsPlaced(fsSafe), OpenTo(Len(fsSafe) - 1), Kind(fsSafe) # "link"
    PROVE  OpenTo(Len(fsSafe))
<1> DEFINE N == Len(fsSafe)
<1>1. N \in Nat /\ SubSeq(fsSafe, 1, N) = fsSafe
  BY DEF FsPlaced
<1>2. \A n \in 0 .. N : n = N \/ n \in 0 .. N - 1
  <2> HIDE DEF N
  <2> QED
    BY <1>1
<1>3. Opens(fsTree, fsSafe, N)
  BY <1>1 DEF Opens, Kind
<1>4. \A n \in 0 .. N - 1 : Opens(fsTree, fsSafe, n)
  BY DEF OpenTo
<1> QED
  BY <1>2, <1>3, <1>4, Zenon DEF OpenTo

LEMMA LookStep ==
    FsIInv /\ (FsLookBeforeReading \/ FsSearchStarts) => FsIInv'
<1> SUFFICES ASSUME FsIInv, FsLookBeforeReading \/ FsSearchStarts PROVE FsIInv'
  OBVIOUS
<1>1. fsPhase = "valid" /\ UNCHANGED <<fsTree, fsCall, fsSafe, fsTouched, fsExchanged>>
  BY DEF FsLookBeforeReading, FsSearchStarts
<1>2. fsPhase' \in {"looked", "refused"}
  BY DEF FsLookBeforeReading, FsSearchStarts, FsLooked
<1>3. FsClosed(fsTree) /\ fsTouched = {} /\ FsHeld
  BY <1>1 DEF FsIInv, FsUnacted, FsValidated
<1>4. FsClosed(fsTree)' /\ fsTouched' = {} /\ FsHeld'
  BY <1>1, <1>3 DEF FsClosed, FsHeld, Sensitive
<1>5. FsTypeOK' /\ FsUnacted' /\ FsStaysInside' /\ FsFresh' /\ FsValidated'
  BY <1>1, <1>2, <1>4
  DEF FsIInv, FsTypeOK, FsUnacted, FsStaysInside, FsFresh, FsValidated
<1>6. ASSUME fsPhase' = "looked", fsExchanged # "unseen"
      PROVE  OpenTo(Len(fsSafe)) /\ (fsCall.tool # "search" => Kind(fsSafe) \notin {"link", "hard"})
  <2>1. CASE FsLookBeforeReading
    <3>1. Kind(fsSafe) \notin {"link", "hard"}
      BY <1>6, <2>1 DEF FsLookBeforeReading, FsLooked
    <3>2. OpenTo(Len(fsSafe))
      BY <1>1, <1>3, <1>6, <3>1, OpensItself DEF FsIInv, FsOpened, FsHeld
    <3> QED
      BY <3>1, <3>2
  <2>2. CASE FsSearchStarts
    BY <1>1, <1>6, <2>2 DEF FsSearchStarts, FsIInv, FsLookedAt, FsOpened, FsTypeOK
  <2> QED
    BY <2>1, <2>2
<1>7. FsOpened' /\ FsLookedAt'
  <2>1. OpenTo(Len(fsSafe)) => OpenTo(Len(fsSafe))'
    BY <1>1 DEF OpenTo, Opens
  <2>2. Kind(fsSafe)' = Kind(fsSafe)
    BY <1>1 DEF Kind
  <2>3. fsCall.tool = "search" => fsExchanged # "checked"
    BY DEF FsIInv, FsLookedAt
  <2> QED
    BY <1>1, <1>2, <1>6, <2>1, <2>2, <2>3 DEF FsOpened, FsLookedAt
<1> QED
  BY <1>5, <1>7 DEF FsIInv

LEMMA ExchangeStep == FsIInv /\ FsExchange => FsIInv'
<1> SUFFICES ASSUME FsIInv, FsExchange PROVE FsIInv'
  OBVIOUS
<1> DEFINE N == Len(fsSafe)
<1>1. /\ fsPhase \in {"valid", "looked"} /\ fsExchanged = "no" /\ fsSafe # FsRoot
      /\ Kind(Front(fsSafe)) = "dir" /\ Kind(fsSafe) # "dir"
      /\ UNCHANGED <<fsCall, fsPhase, fsSafe, fsTouched>>
      /\ fsExchanged' = IF fsPhase = "looked" \/ fsCall.tool = "search" THEN "unseen" ELSE "checked"
  BY DEF FsExchange
<1>2. FsClosed(fsTree) /\ fsTouched = {} /\ FsHeld
  BY <1>1 DEF FsIInv, FsUnacted, FsValidated
<1>3. N \in Nat \ {0} /\ fsSafe # <<>>
  <2>1. FsRoot \in Seq(STRING) /\ fsSafe \in Seq(STRING) /\ IsPrefix(FsRoot, fsSafe)
    BY <1>2 DEF FsHeld, FsPlaced
  <2>2. N # 0
    <3>1. ASSUME N = 0 PROVE FALSE
      <4>1. fsSafe = <<>> /\ Len(FsRoot) = 0
        BY <2>1, <3>1 DEF IsPrefix
      <4>2. FsRoot = <<>>
        BY <2>1, <4>1
      <4> QED
        BY <1>1, <4>1, <4>2
    <3> QED
      BY <3>1
  <2> QED
    BY <2>1, <2>2
<1>4. N - 1 \in 0 .. N /\ \A n \in 0 .. N - 1 : n \in 0 .. N /\ n # N
  <2> HIDE DEF N
  <2> QED
    BY <1>3
\* What is elsewhere stays.
<1> DEFINE Stays ==
      /\ \A p : p # fsSafe => KindIn(fsTree', p) = KindIn(fsTree, p)
      /\ \A p : p # fsSafe /\ p \in DOMAIN fsTree => p \in DOMAIN fsTree'
      /\ KindIn(fsTree', fsSafe) \in {"link", "none"}
      /\ DOMAIN fsTree' \subseteq DOMAIN fsTree \cup {fsSafe}
      /\ \A p \in DOMAIN fsTree' : fsTree'[p].kind \in FsKinds
<1>5. Stays
  <2>1. \A p \in DOMAIN fsTree : fsTree[p].kind \in FsKinds
    BY <1>2 DEF FsClosed
  <2>2. ASSUME NEW to \in FsLinks,
               fsTree' = [p \in DOMAIN fsTree \cup {fsSafe} |->
                             IF p = fsSafe THEN [kind |-> "link", to |-> to] ELSE fsTree[p]]
        PROVE  Stays
    BY <2>1, <2>2 DEF KindIn, FsKinds
  <2>3. ASSUME fsTree' = [p \in DOMAIN fsTree \ {fsSafe} |-> fsTree[p]] PROVE Stays
    BY <2>1, <2>3 DEF KindIn, FsKinds
  <2> QED
    BY <2>2, <2>3 DEF FsExchange
<1>6. FsClosed(fsTree')
  <2>1. <<>> \in DOMAIN fsTree'
    BY <1>2, <1>3, <1>5 DEF FsClosed
  <2>2. ASSUME NEW p \in DOMAIN fsTree', p # <<>>
        PROVE  KindIn(fsTree', Front(p)) = "dir"
    <3>1. KindIn(fsTree, Front(p)) = "dir"
      BY <1>1, <1>2, <1>5, <2>2 DEF FsClosed, Kind
    <3> QED
      BY <1>1, <1>5, <3>1 DEF Kind
  <2>3. \A p \in DOMAIN fsTree' : FsPlaced(p)
    BY <1>2, <1>5 DEF FsClosed, FsHeld
  <2> QED
    BY <1>5, <2>1, <2>2, <2>3 DEF FsClosed
\* Above the file there are directories.
<1>7. ASSUME NEW n \in 0 .. N - 1 PROVE KindIn(fsTree', SubSeq(fsSafe, 1, n)) = "dir"
  <2> DEFINE front == Front(fsSafe)
             a == SubSeq(fsSafe, 1, n)
  <2>1. front = SubSeq(fsSafe, 1, N - 1)
    BY DEF Front
  <2>2. FsPlaced(front) /\ Len(front) = N - 1 /\ a = SubSeq(front, 1, n) /\ Len(a) = n
        /\ SubSeq(front, 1, N - 1) = front
    <3>1. FsPlaced(fsSafe) /\ N - 1 \in 0 .. Len(fsSafe) /\ n \in 0 .. Len(fsSafe)
      BY <1>2, <1>4 DEF FsHeld
    <3>2. FsPlaced(front) /\ Len(front) = N - 1 /\ SubSeq(front, 1, n) = a
      <4> HIDE DEF front, a, N
      <4>1. \A m \in 0 .. N - 1 : SubSeq(SubSeq(fsSafe, 1, N - 1), 1, m) = SubSeq(fsSafe, 1, m)
        BY <3>1, Beginnings, Zenon DEF N
      <4>2. FsPlaced(front) /\ Len(front) = N - 1
        BY <2>1, <3>1, Beginnings, Zenon DEF N
      <4> QED
        BY <2>1, <4>1, <4>2 DEF a
    <3>3. Len(a) = n
      BY <3>1, Beginnings
    <3>4. Len(front) \in 0 .. Len(front) /\ SubSeq(front, 1, Len(front)) = front
      BY <1>3, <3>2, Beginnings
    <3> QED
      BY <3>2, <3>3, <3>4
  <2>3. front \in DOMAIN fsTree
    BY <1>1, <1>2, Kinds DEF Kind
  <2>4. KindIn(fsTree, a) = "dir"
    <3>1. CASE n = N - 1
      BY <1>1, <2>2, <3>1 DEF Kind
    <3>2. CASE n # N - 1
      <4>1. n \in 0 .. Len(front) - 1
        <5> HIDE DEF N, front
        <5> QED
          BY <1>3, <2>1, <2>2, <3>2
      <4> QED
        BY <1>2, <2>2, <2>3, <4>1, AboveAreDirs
    <3> QED
      BY <3>1, <3>2
  <2>5. a # fsSafe
    BY <1>4, <2>2
  <2> QED
    BY <1>5, <2>4, <2>5
<1>8. FsTypeOK' /\ FsUnacted' /\ FsFresh' /\ FsValidated' /\ FsStaysInside'
  <2>1. FsTypeOK'
    BY <1>1, <1>2, <1>5 DEF FsIInv, FsTypeOK
  <2>2. FsUnacted' /\ FsFresh' /\ FsStaysInside'
    BY <1>1, <1>2, <1>6 DEF FsUnacted, FsFresh, FsStaysInside
  <2>3. FsValidated'
    BY <1>1, <1>2 DEF FsValidated, FsHeld, Sensitive
  <2> QED
    BY <2>1, <2>2, <2>3
<1>9. FsOpened' /\ FsLookedAt'
  <2>1. OpenTo(N - 1)'
    <3>1. \A n \in 0 .. N - 1 : Opens(fsTree', fsSafe, n)
      BY <1>7 DEF Opens
    <3> QED
      BY <1>1, <3>1 DEF OpenTo
  <2>2. fsExchanged' # "no" /\ (fsPhase' = "looked" => fsExchanged' = "unseen")
        /\ (fsCall.tool = "search" => fsExchanged' = "unseen")
    BY <1>1
  <2> QED
    BY <1>1, <2>1, <2>2 DEF FsOpened, FsLookedAt
<1> QED
  BY <1>8, <1>9 DEF FsIInv

\* What making something adds to the tree, and what it leaves.
LEMMA MadePaths ==
    ASSUME NEW tree, NEW paths, NEW kind
    PROVE  DOMAIN Made(tree, paths, kind) = DOMAIN tree \cup paths
BY DEF Made

LEMMA MadeKeeps ==
    ASSUME NEW tree, NEW paths, NEW kind
    PROVE  \A p \in DOMAIN tree : Made(tree, paths, kind)[p] = tree[p]
BY DEF Made

LEMMA MadeNew ==
    ASSUME NEW tree, NEW paths, NEW kind
    PROVE  \A p \in paths \ DOMAIN tree : Made(tree, paths, kind)[p].kind = kind
BY DEF Made

LEMMA MadeKinds ==
    ASSUME NEW tree, \A p \in DOMAIN tree : tree[p].kind \in FsKinds,
           NEW paths, NEW kind \in FsKinds
    PROVE  \A p \in DOMAIN Made(tree, paths, kind) :
               Made(tree, paths, kind)[p].kind \in FsKinds
BY DEF Made

\* With the directories above it made, a file may be put there.
LEMMA FileMade ==
    ASSUME FsClosed(fsTree), NEW q, FsPlaced(q), Kind(q) = "none", CanMake(Front(q)),
           NEW tree,
           tree = Made(Made(fsTree, Missing(Front(q)), "dir"), {q}, "file")
    PROVE  /\ FsClosed(tree)
           /\ \A n \in 0 .. Len(q) : KindIn(tree, SubSeq(q, 1, n)) \in {"dir", "file"}
           /\ KindIn(tree, q) = "file"
<1> DEFINE N == Len(q)
           front == Front(q)
           above == Missing(front)
           dirs == Made(fsTree, above, "dir")
<1>1. q \notin DOMAIN fsTree /\ q # <<>> /\ \A p : Kind(p) # "none" <=> p \in DOMAIN fsTree
  BY Kinds DEF FsClosed, Kind
<1>2. q \in Seq(STRING) /\ N \in Nat \ {0}
  BY <1>1 DEF FsPlaced
<1>3. N - 1 \in 0 .. N /\ \A n \in 0 .. N : n \in 0 .. N - 1 \/ n = N
  <2> HIDE DEF N
  <2> QED
    BY <1>2
<1>4. front = SubSeq(q, 1, N - 1)
  BY DEF Front
<1>5. FsPlaced(front) /\ Len(front) = N - 1 /\ SubSeq(q, 1, N) = q
  <2>1. N \in 0 .. Len(q) /\ N - 1 \in 0 .. Len(q)
    BY <1>2, <1>3
  <2> HIDE DEF front
  <2>2. FsPlaced(front) /\ Len(front) = N - 1
    BY <1>4, <2>1, Beginnings, Zenon
  <2>3. SubSeq(q, 1, N) = q
    BY <2>1, Beginnings, Zenon
  <2> QED
    BY <2>2, <2>3
<1>6. \A n \in 0 .. N - 1 : SubSeq(front, 1, n) = SubSeq(q, 1, n)
  <2> HIDE DEF front
  <2> QED
    BY <1>3, <1>4, Beginnings, Zenon
<1> HIDE DEF front
<1>7. Prefixes(front) = {SubSeq(q, 1, n) : n \in 0 .. N - 1}
  BY <1>5, <1>6 DEF Prefixes
<1>8. q \notin Prefixes(front)
  <2> SUFFICES ASSUME NEW n \in 0 .. N - 1, q = SubSeq(q, 1, n) PROVE FALSE
    BY <1>7
  <2>1. n \in 0 .. N /\ n # N
    <3> HIDE DEF N
    <3> QED
      BY <1>2
  <2>2. Len(SubSeq(q, 1, n)) = n
    BY <2>1, Beginnings, Zenon
  <2> QED
    BY <2>1, <2>2
<1>9. above \subseteq Prefixes(front)
  BY DEF Missing
<1> HIDE DEF N
<1>10. \A a \in Prefixes(front) : a \in above <=> a \notin DOMAIN fsTree
  BY <1>1 DEF CanMake, Missing, front
<1>11. \A a \in Prefixes(front) : a \in DOMAIN fsTree => fsTree[a].kind = "dir"
  BY <1>1 DEF CanMake, Missing, front, Kind, KindIn
<1> HIDE DEF above
<1>12. /\ DOMAIN tree = DOMAIN fsTree \cup above \cup {q}
       /\ \A p \in DOMAIN fsTree : tree[p] = fsTree[p]
       /\ \A p \in above : tree[p].kind = "dir"
       /\ tree[q].kind = "file"
  <2>1. tree = Made(dirs, {q}, "file")
    BY DEF above, front
  <2>2. DOMAIN dirs = DOMAIN fsTree \cup above
    BY MadePaths, MadeKeeps, MadeNew
  <2>3. \A p \in DOMAIN fsTree : dirs[p] = fsTree[p]
    BY MadePaths, MadeKeeps, MadeNew
  <2>4. \A p \in above : dirs[p].kind = "dir"
    BY <1>9, <1>10, MadePaths, MadeKeeps, MadeNew
  <2> HIDE DEF dirs
  <2>5. DOMAIN tree = DOMAIN dirs \cup {q}
    BY <2>1, MadePaths, MadeKeeps, MadeNew
  <2>6. \A p \in DOMAIN dirs : tree[p] = dirs[p]
    BY <2>1, MadePaths, MadeKeeps, MadeNew
  <2>7. q \in {q} \ DOMAIN dirs
    BY <1>1, <1>8, <1>9, <2>2
  <2>8. tree[q].kind = "file"
    BY <2>1, <2>7, MadePaths, MadeKeeps, MadeNew
  <2> QED
    BY <2>2, <2>3, <2>4, <2>5, <2>6, <2>8
<1>13. \A a \in Prefixes(front) : KindIn(tree, a) = "dir"
  BY <1>10, <1>11, <1>12 DEF KindIn
<1>14. KindIn(tree, q) = "file"
  BY <1>12 DEF KindIn
<1>15. FsClosed(tree)
  <2>1. <<>> \in DOMAIN tree
    BY <1>12 DEF FsClosed
  <2>2. ASSUME NEW p \in DOMAIN tree
        PROVE  FsPlaced(p) /\ tree[p].kind \in FsKinds /\ (p # <<>> => KindIn(tree, Front(p)) = "dir")
    <3>1. CASE p \in DOMAIN fsTree
      <4>1. FsPlaced(p) /\ fsTree[p].kind \in FsKinds /\ (p # <<>> => KindIn(fsTree, Front(p)) = "dir")
        BY <3>1 DEF FsClosed
      <4> QED
        BY <1>12, <3>1, <4>1 DEF KindIn
    <3>2. CASE p \in above
      <4>1. PICK n \in 0 .. N - 1 : p = SubSeq(q, 1, n)
        BY <1>7, <1>9, <3>2
      <4>2. n \in 0 .. N /\ (n # 0 => n - 1 \in 0 .. N - 1)
        BY <1>2
      <4>3. FsPlaced(p) /\ Len(p) = n /\ (n # 0 => Front(p) = SubSeq(q, 1, n - 1))
        BY <4>1, <4>2, Beginnings DEF N
      <4>4. p # <<>> => n # 0
        BY <4>3 DEF FsPlaced
      <4>5. p # <<>> => Front(p) \in Prefixes(front)
        BY <1>7, <4>2, <4>3, <4>4
      <4> QED
        BY <1>12, <1>13, <3>2, <4>3, <4>5 DEF FsKinds
    <3>3. CASE p = q
      <4>1. front \in Prefixes(front)
        <5>1. N - 1 \in 0 .. N - 1
          BY <1>2
        <5> QED
          BY <1>4, <1>7, <5>1
      <4> QED
        BY <1>12, <1>13, <3>3, <4>1 DEF FsKinds, front
    <3> QED
      BY <1>12, <3>1, <3>2, <3>3
  <2> QED
    BY <2>1, <2>2 DEF FsClosed
<1>16. ASSUME NEW n \in 0 .. N PROVE KindIn(tree, SubSeq(q, 1, n)) \in {"dir", "file"}
  <2>1. CASE n \in 0 .. N - 1
    BY <1>7, <1>13, <2>1
  <2>2. CASE n = N
    BY <1>5, <1>14, <2>2
  <2> QED
    BY <1>3, <2>1, <2>2
<1> QED
  BY <1>14, <1>15, <1>16 DEF N

LEMMA OpenForWriteStep == FsIInv /\ FsOpenForWrite => FsIInv'
<1> SUFFICES ASSUME FsIInv, FsOpenForWrite PROVE FsIInv'
  OBVIOUS
<1>1. /\ fsPhase = "valid" /\ fsCall.tool = "write" /\ fsPhase' \in {"looked", "refused"}
      /\ UNCHANGED <<fsCall, fsSafe, fsTouched, fsExchanged>>
  BY DEF FsOpenForWrite, FsLooked
<1>2. FsClosed(fsTree) /\ fsTouched = {} /\ FsHeld
  BY <1>1 DEF FsIInv, FsUnacted, FsValidated
<1>3. \A p \in DOMAIN fsTree' : fsTree'[p].kind \in FsKinds
  <2> DEFINE dirs == Made(fsTree, Missing(Front(fsSafe)), "dir")
  <2>1. \A p \in DOMAIN fsTree : fsTree[p].kind \in FsKinds
    BY <1>2 DEF FsClosed
  <2>2. \A p \in DOMAIN dirs : dirs[p].kind \in FsKinds
    BY <2>1, MadeKinds DEF FsKinds
  <2> HIDE DEF dirs
  <2>3. \A p \in DOMAIN Made(dirs, {fsSafe}, "file") :
          Made(dirs, {fsSafe}, "file")[p].kind \in FsKinds
    BY <2>2, MadeKinds DEF FsKinds
  <2>4. fsTree' = fsTree \/ fsTree' = Made(dirs, {fsSafe}, "file")
    BY DEF FsOpenForWrite, dirs
  <2> QED
    BY <2>1, <2>3, <2>4
<1>4. ASSUME fsPhase' = "looked"
      PROVE  /\ FsClosed(fsTree')
             /\ fsExchanged # "unseen" => OpenTo(Len(fsSafe))'
             /\ Kind(fsSafe)' \notin {"link", "hard"}
  <2>1. CASE CanMake(Front(fsSafe)) /\ ~Exists(fsSafe)
    <3>1. Kind(fsSafe) = "none"
      BY <1>4, <2>1 DEF FsOpenForWrite, FsLooked, FsCreates
    <3>2. fsTree' = Made(Made(fsTree, Missing(Front(fsSafe)), "dir"), {fsSafe}, "file")
      BY <2>1 DEF FsOpenForWrite
    <3>3. /\ FsClosed(fsTree')
          /\ \A n \in 0 .. Len(fsSafe) : KindIn(fsTree', SubSeq(fsSafe, 1, n)) \in {"dir", "file"}
          /\ KindIn(fsTree', fsSafe) = "file"
      BY <1>2, <2>1, <3>1, <3>2, FileMade DEF FsHeld
    <3> QED
      BY <1>1, <3>3 DEF OpenTo, Opens, Kind
  <2>2. CASE ~(CanMake(Front(fsSafe)) /\ ~Exists(fsSafe))
    <3>1. fsTree' = fsTree /\ Kind(fsSafe) \notin {"link", "hard"}
      BY <1>4, <2>2 DEF FsOpenForWrite, FsLooked
    <3>2. ASSUME fsExchanged # "unseen" PROVE OpenTo(Len(fsSafe))
      BY <1>1, <1>2, <3>1, <3>2, OpensItself DEF FsIInv, FsOpened, FsHeld
    <3> QED
      BY <1>1, <1>2, <3>1, <3>2 DEF OpenTo, Opens, Kind
  <2> QED
    BY <2>1, <2>2
<1>5. FsTypeOK' /\ FsStaysInside'
  BY <1>1, <1>2, <1>3 DEF FsIInv, FsTypeOK, FsStaysInside
<1>6. FsUnacted' /\ FsFresh' /\ FsValidated'
  BY <1>1, <1>2, <1>4 DEF FsUnacted, FsFresh, FsValidated, FsHeld, Sensitive
<1>7. FsOpened' /\ FsLookedAt'
  BY <1>1, <1>4 DEF FsOpened, FsLookedAt
<1> QED
  BY <1>5, <1>6, <1>7 DEF FsIInv

LEMMA PrefixOfPrefix ==
    ASSUME NEW T, NEW a \in Seq(T), NEW b \in Seq(T), NEW c \in Seq(T),
           IsPrefix(a, b), IsPrefix(b, c)
    PROVE  IsPrefix(a, c)
<1>1. Len(a) <= Len(b) /\ Len(b) <= Len(c)
  BY DEF IsPrefix
<1>2. \A i \in 1 .. Len(a) : a[i] = b[i]
  BY <1>1 DEF IsPrefix
<1>3. \A i \in 1 .. Len(b) : b[i] = c[i]
  BY <1>1 DEF IsPrefix
<1>4. SubSeq(a, 1, Len(a)) = SubSeq(c, 1, Len(a))
  BY <1>1, <1>2, <1>3
<1> QED
  BY <1>1, <1>4 DEF IsPrefix

LEMMA ActStep ==
    FsIInv /\ (FsReadFile \/ FsListDir \/ FsSearchText \/ FsWriteFile) => FsIInv'
<1> SUFFICES ASSUME FsIInv, FsReadFile \/ FsListDir \/ FsSearchText \/ FsWriteFile
             PROVE  FsIInv'
  OBVIOUS
<1>1. /\ fsPhase = "looked" /\ fsPhase' = "done"
      /\ UNCHANGED <<fsCall, fsSafe, fsExchanged>>
  BY DEF FsReadFile, FsListDir, FsSearchText, FsWriteFile, Acts
<1>2. FsClosed(fsTree) /\ FsHeld
  BY <1>1 DEF FsIInv, FsUnacted, FsValidated
<1>3. \A p : Kind(p) # "none" => p \in DOMAIN fsTree
  BY DEF Kind, KindIn
<1>4. Kind(FsNowhere) = "none"
  BY <1>2, Kinds DEF Kind
<1>5. IsPrefix(FsRoot, fsSafe) /\ ~Sensitive(fsSafe)
  BY <1>2 DEF FsHeld
\* The path still leads where it did when it was looked at.
<1>6. ASSUME fsExchanged # "unseen"
      PROVE  /\ Reached \in {fsSafe, FsNowhere}
             /\ fsCall.tool # "search" => Kind(fsSafe) \notin {"link", "hard"}
  <2>1. OpenTo(Len(fsSafe)) /\ (fsCall.tool # "search" => Kind(fsSafe) \notin {"link", "hard"})
    BY <1>1, <1>6 DEF FsIInv, FsOpened, FsLookedAt
  <2> QED
    BY <1>2, <2>1, LeadsToItself DEF OpenTo, Reached, FsHeld
<1>7. CASE FsReadFile \/ FsListDir
  <2>1. fsTree' = fsTree /\ fsTouched' \in {{}, {Reached}} /\ fsCall.tool # "search"
    BY <1>7 DEF FsReadFile, FsListDir, Acts
  <2>2. fsTouched' # {} => Kind(Reached) # "none"
    BY <1>7 DEF FsReadFile, FsListDir
  <2>3. FsTypeOK'
    BY <1>1, <1>3, <2>1, <2>2 DEF FsIInv, FsTypeOK
  <2>4. ASSUME fsExchanged # "unseen", NEW p \in fsTouched'
        PROVE  p = fsSafe /\ Kind(p)' # "hard"
    BY <1>4, <1>6, <2>1, <2>2, <2>4 DEF Kind
  <2>5. FsStaysInside'
    BY <1>1, <1>5, <2>4 DEF FsStaysInside, Sensitive
  <2> QED
    BY <1>1, <2>3, <2>5
    DEF FsIInv, FsUnacted, FsFresh, FsValidated, FsOpened, FsLookedAt
<1>8. CASE FsSearchText
  <2>1. fsTree' = fsTree /\ fsCall.tool = "search"
        /\ fsTouched' = IF Kind(Reached) = "dir" THEN Found(Reached) ELSE {}
    BY <1>8 DEF FsSearchText, Acts
  <2>2. FsTypeOK'
    BY <1>1, <2>1 DEF FsIInv, FsTypeOK, Found
  <2>3. ASSUME fsExchanged # "unseen", NEW p \in fsTouched'
        PROVE  IsPrefix(FsRoot, p) /\ ~Sensitive(p)
    <3>1. Reached = fsSafe /\ p \in Found(fsSafe)
      BY <1>4, <1>6, <2>1, <2>3
    <3>2. p \in DOMAIN fsTree /\ IsPrefix(fsSafe, p) /\ ~Sensitive(p)
      BY <3>1 DEF Found, IsStrictPrefix
    <3>3. FsPlaced(p) /\ FsPlaced(fsSafe) /\ FsPlaced(FsRoot)
      BY <1>2, <3>2 DEF FsClosed, FsHeld
    <3> QED
      BY <1>5, <3>2, <3>3, PrefixOfPrefix DEF FsPlaced
  <2>4. FsStaysInside'
    BY <1>1, <2>1, <2>3 DEF FsStaysInside, Sensitive
  <2> QED
    BY <1>1, <2>1, <2>2, <2>4
    DEF FsIInv, FsUnacted, FsFresh, FsValidated, FsOpened, FsLookedAt, FsTypeOK
<1>9. CASE FsWriteFile
  <2> DEFINE new == IF Kind(fsSafe) = "link" THEN fsTree[fsSafe].to ELSE fsSafe
             made == IF Reached = FsNowhere /\ Kind(Front(new)) = "dir" THEN {new} ELSE {}
  <2>1. /\ fsTouched' = IF Kind(Reached) \in {"file", "hard"} THEN {Reached} ELSE made
        /\ fsTree' = Made(fsTree, made, "file") /\ fsCall.tool = "write"
    BY <1>9 DEF FsWriteFile, Acts
  <2>2. made \in {{}, {new}}
    OBVIOUS
  <2>3. ASSUME fsExchanged # "unseen"
        PROVE  fsTouched' \subseteq {fsSafe} /\ Kind(fsSafe) # "hard"
    <3>1. new = fsSafe /\ Kind(fsSafe) # "hard"
      BY <1>6, <2>1, <2>3
    <3>2. Kind(Reached) # "none" => Reached = fsSafe
      BY <1>4, <1>6, <2>3
    <3> HIDE DEF new
    <3> QED
      BY <2>1, <2>2, <3>1, <3>2
  <2> HIDE DEF made
  <2>4. DOMAIN fsTree' = DOMAIN fsTree \cup made
    BY <2>1, MadePaths
  <2>5. \A p \in DOMAIN fsTree' : fsTree'[p].kind \in FsKinds
    <3>1. \A p \in DOMAIN fsTree : fsTree[p].kind \in FsKinds
      BY <1>2 DEF FsClosed
    <3> QED
      BY <2>1, <3>1, MadeKinds DEF FsKinds
  <2>6. fsTouched' \subseteq DOMAIN fsTree'
    BY <1>3, <2>1, <2>4
  <2>7. FsTypeOK'
    BY <1>1, <2>5, <2>6 DEF FsIInv, FsTypeOK
  <2>8. Kind(fsSafe) # "hard" => KindIn(fsTree', fsSafe) # "hard"
    <3>1. \A p \in DOMAIN fsTree : fsTree'[p] = fsTree[p]
      BY <2>1, MadeKeeps
    <3>2. \A p \in made \ DOMAIN fsTree : fsTree'[p].kind = "file"
      BY <2>1, MadeNew
    <3> QED
      BY <2>4, <3>1, <3>2 DEF Kind, KindIn
  <2>9. FsStaysInside'
    BY <1>1, <1>5, <2>3, <2>8 DEF FsStaysInside, Sensitive, Kind
  <2> QED
    BY <1>1, <2>1, <2>7, <2>9
    DEF FsIInv, FsUnacted, FsFresh, FsValidated, FsOpened, FsLookedAt
<1> QED
  BY <1>7, <1>8, <1>9

LEMMA FsInvariance == FsSpec => []FsIInv
<1>1. FsIInv /\ UNCHANGED fsVars => FsIInv'
  <2> SUFFICES ASSUME FsIInv, UNCHANGED fsVars PROVE FsIInv'
    OBVIOUS
  <2>1. UNCHANGED <<fsTree, fsCall, fsPhase, fsSafe, fsTouched, fsExchanged>>
    BY DEF fsVars
  <2>2. FsTypeOK' /\ FsUnacted' /\ FsFresh' /\ FsStaysInside'
    BY <2>1 DEF FsIInv, FsTypeOK, FsUnacted, FsFresh, FsStaysInside, Sensitive, Kind
  <2>3. FsValidated' /\ FsOpened' /\ FsLookedAt'
    BY <2>1 DEF FsIInv, FsValidated, FsHeld, FsOpened, FsLookedAt, OpenTo, Opens, Sensitive, Kind
  <2> QED
    BY <2>2, <2>3 DEF FsIInv
<1>2. FsIInv /\ FsNext => FsIInv'
  BY ValidateStep, LookStep, OpenForWriteStep, ActStep, ExchangeStep DEF FsNext
<1> QED
  BY <1>1, <1>2, FsInitially, PTL DEF FsSpec

\* What a file tool has touched is in the tree.
THEOREM FsTypeCorrect == FsSpec => []FsTypeOK
  BY FsInvariance, PTL DEF FsIInv

\* Whatever the trees, the requests and what another process links to, a file
\* tool touches only what lies in the root, bears no sensitive name and, where
\* it names the file, is no second name of another: links are refused by
\* validate_path or by the look before the act, and what is exchanged in
\* between is found out, unless nobody looks again.
THEOREM StaysInside == FsSpec => []FsStaysInside
<1>1. FsIInv => FsStaysInside
  BY DEF FsIInv
<1> QED
  BY <1>1, FsInvariance, PTL

-----------------------------------------------------------------------------
(***************************************************************************)
(* AuditLog.  A log is read piece by piece (SmacRead), and what a line has *)
(* ended with stays a line.  The inductive invariant: the entries of which *)
(* pieces are anywhere are those a process made one after the other        *)
(* (SmacOrdered); an entry that record returned Ok for is in a line that   *)
(* ended, unless that line does not parse and never will (SmacFiled); and  *)
(* what the memory of a process continues, while no entry was dropped, is  *)
(* the file and the buffer together (SmacContinued).                       *)
(***************************************************************************)
\* Of prefixes.
LEMMA PrefixOfJoined ==
    ASSUME NEW T, NEW a \in Seq(T), NEW b \in Seq(T)
    PROVE  IsPrefix(a, a \o b)
<1>1. Len(a) <= Len(a \o b) /\ a \o b \in Seq(T)
  OBVIOUS
<1>2. SubSeq(a, 1, Len(a)) = SubSeq(a \o b, 1, Len(a))
  OBVIOUS
<1> QED
  BY <1>1, <1>2 DEF IsPrefix

LEMMA PrefixOfAppended ==
    ASSUME NEW T, NEW a \in Seq(T), NEW x \in T
    PROVE  IsPrefix(a, a) /\ IsPrefix(a, Append(a, x))
<1>1. Len(a) <= Len(Append(a, x))
  OBVIOUS
<1>2. SubSeq(a, 1, Len(a)) = SubSeq(Append(a, x), 1, Len(a))
  OBVIOUS
<1> QED
  BY <1>1, <1>2 DEF IsPrefix

\* What can have been read of pieces in S.
ReadOf(S) == [ended : Seq(Seq(S)), open : Seq(S)]
NothingRead == [ended |-> <<>>, open |-> <<>>]

\* The walk w of the reader along the pieces.
SmacWalk(S, pieces, w) ==
    /\ w \in [0 .. Len(pieces) -> ReadOf(S)]
    /\ w[0] = NothingRead
    /\ \A n \in 1 .. Len(pieces) : w[n] = SmacPut(w[n - 1], pieces[n])

\* One piece ends a line or none.
LEMMA PutRead ==
    ASSUME NEW S, NEW r \in ReadOf(S), NEW x \in S
    PROVE  SmacPut(r, x) \in ReadOf(S)
           /\ (SmacPut(r, x).ended = r.ended \/ SmacPut(r, x).ended = Append(r.ended, r.open))
BY DEF SmacPut, ReadOf

\* What is read is where the walk ends.
LEMMA ReadSteps ==
    ASSUME NEW S, NEW pieces \in Seq(S)
    PROVE  \E w : SmacWalk(S, pieces, w) /\ SmacRead(pieces) = w[Len(pieces)]
<1> DEFINE N == Len(pieces)
           D == ReadOf(S)
           step == [n \in 1 .. N |-> [r \in D |-> SmacPut(r, pieces[n])]]
           Is(f) == f = [n \in 0 .. N |-> IF n = 0 THEN [ended |-> <<>>, open |-> <<>>]
                                          ELSE SmacPut(f[n - 1], pieces[n])]
           at == CHOOSE f : Is(f)
<1>1. SmacRead(pieces) = at[N]
  BY DEF SmacRead
<1>2. N \in Nat /\ (\A n \in 1 .. N : pieces[n] \in S) /\ NothingRead \in D
  BY DEF ReadOf, NothingRead
<1>3. \A n \in 1 .. N : \A r \in D : step[n][r] = SmacPut(r, pieces[n])
  OBVIOUS
<1> HIDE DEF N, step, D
<1>4. PICK w : GoesOn(w, N, D, NothingRead, step)
  <2>1. \A n \in 1 .. N : \A r \in D : step[n][r] \in D
    BY <1>2, <1>3, PutRead DEF D
  <2> QED
    BY <1>2, <2>1, Stepping
<1>5. /\ w = [n \in 0 .. N |-> w[n]] /\ \A n \in 0 .. N : w[n] \in D
      /\ w[0] = NothingRead /\ \A n \in 1 .. N : w[n] = step[n][w[n - 1]]
  BY <1>4 DEF GoesOn
<1>6. \A n \in 1 .. N : w[n] = SmacPut(w[n - 1], pieces[n])
  <2> SUFFICES ASSUME NEW n \in 1 .. N PROVE w[n] = SmacPut(w[n - 1], pieces[n])
    OBVIOUS
  <2>1. n - 1 \in 0 .. N
    BY <1>2
  <2>2. w[n - 1] \in D
    BY <1>5, <2>1
  <2> QED
    BY <1>3, <1>5, <2>2
<1>7. Is(w)
  <2>1. \A n \in 0 .. N : w[n] = IF n = 0 THEN NothingRead ELSE SmacPut(w[n - 1], pieces[n])
    <3> SUFFICES ASSUME NEW n \in 0 .. N
                 PROVE  w[n] = IF n = 0 THEN NothingRead ELSE SmacPut(w[n - 1], pieces[n])
      OBVIOUS
    <3>1. CASE n = 0
      BY <1>5, <3>1
    <3>2. CASE n # 0
      <4>1. n \in 1 .. N
        BY <1>2, <3>2
      <4> QED
        BY <1>6, <3>2, <4>1
    <3> QED
      BY <3>1, <3>2
  <2> QED
    BY <1>5, <2>1, Zenon DEF NothingRead
<1>8. Is(at)
  BY <1>7
<1> HIDE DEF at
<1>9. at[0] = NothingRead /\ \A n \in 1 .. N : at[n] = SmacPut(at[n - 1], pieces[n])
  BY <1>2, <1>8 DEF NothingRead
<1>10. at \in [0 .. N -> D]
  <2> DEFINE P == {n \in 0 .. N : at[n] \in D}
  <2>1. 0 \in P
    BY <1>2, <1>9
  <2>2. \A n \in 1 .. N : n - 1 \in P => n \in P
    BY <1>2, <1>9, PutRead DEF D
  <2>3. \A n \in 0 .. N : n \in P
    <3> HIDE DEF P
    <3> QED
      BY <1>2, <2>1, <2>2, UpTo
  <2> QED
    BY <1>8, <2>3
<1> QED
  BY <1>1, <1>9, <1>10 DEF N, D, SmacWalk

\* What is read of the beginnings of a log.
LEMMA ReadOfPrefixes ==
    ASSUME NEW S, NEW pieces \in Seq(S)
    PROVE  \E w : /\ SmacWalk(S, pieces, w)
                  /\ \A n \in 0 .. Len(pieces) : SmacRead(SubSeq(pieces, 1, n)) = w[n]
<1> DEFINE N == Len(pieces)
<1>1. N \in Nat
  OBVIOUS
<1>2. PICK w : SmacWalk(S, pieces, w)
  BY ReadSteps
<1>3. ASSUME NEW n \in 0 .. N PROVE SmacRead(SubSeq(pieces, 1, n)) = w[n]
  <2> DEFINE a == SubSeq(pieces, 1, n)
  <2>1. a \in Seq(S) /\ Len(a) = n /\ \A i \in 1 .. n : a[i] = pieces[i]
    BY <1>1
  <2>2. n \in Nat /\ n <= N
    BY <1>1
  <2> HIDE DEF N, a
  <2>3. PICK v : SmacWalk(S, a, v) /\ SmacRead(a) = v[Len(a)]
    BY <2>1, ReadSteps
  <2> DEFINE P == {i \in 0 .. n : v[i] = w[i]}
  <2>4. 0 \in P
    BY <1>1, <1>2, <2>1, <2>2, <2>3 DEF SmacWalk
  <2>5. ASSUME NEW i \in 1 .. n, i - 1 \in P PROVE i \in P
    <3>1. i \in 1 .. N /\ i \in 0 .. n /\ v[i - 1] = w[i - 1]
      BY <1>1, <2>2, <2>5
    <3> QED
      BY <1>2, <2>1, <2>3, <3>1 DEF SmacWalk, N
  <2>6. \A i \in 0 .. n : i \in P
    <3> HIDE DEF P
    <3> QED
      BY <2>2, <2>4, <2>5, UpTo, Zenon
  <2> QED
    BY <2>1, <2>2, <2>3, <2>6 DEF a
<1> QED
  BY <1>2, <1>3

\* One piece more is read.
LEMMA ReadMore ==
    ASSUME NEW S, NEW pieces \in Seq(S), NEW x \in S
    PROVE  /\ SmacRead(pieces) \in ReadOf(S)
           /\ SmacRead(Append(pieces, x)) = SmacPut(SmacRead(pieces), x)
<1> DEFINE N == Len(pieces)
           more == Append(pieces, x)
<1>1. /\ N \in Nat /\ more \in Seq(S) /\ Len(more) = N + 1 /\ more[N + 1] = x
      /\ SubSeq(more, 1, N) = pieces /\ SubSeq(more, 1, N + 1) = more
  OBVIOUS
<1> HIDE DEF N, more
<1>2. PICK w : /\ SmacWalk(S, more, w)
               /\ \A n \in 0 .. Len(more) : SmacRead(SubSeq(more, 1, n)) = w[n]
  BY <1>1, ReadOfPrefixes
<1>3. N \in 0 .. N + 1 /\ N + 1 \in 1 .. N + 1 /\ N + 1 \in 0 .. N + 1 /\ (N + 1) - 1 = N
  BY <1>1
<1>4. SmacRead(pieces) = w[N] /\ SmacRead(more) = w[N + 1]
  BY <1>1, <1>2, <1>3
<1>5. w[N + 1] = SmacPut(w[N], x) /\ w[N] \in ReadOf(S)
  BY <1>1, <1>2, <1>3 DEF SmacWalk
<1> QED
  BY <1>4, <1>5 DEF more

\* Of nothing, nothing is read.
LEMMA ReadNothing == SmacRead(<<>>) = NothingRead
<1>1. <<>> \in Seq({})
  OBVIOUS
<1>2. PICK w : SmacWalk({}, <<>>, w) /\ SmacRead(<<>>) = w[Len(<<>>)]
  BY <1>1, ReadSteps
<1> QED
  BY <1>2 DEF SmacWalk

\* Lines that have ended stay.
LEMMA EndedStay ==
    ASSUME NEW S, NEW pieces \in Seq(S), NEW n \in 0 .. Len(pieces)
    PROVE  /\ SmacRead(SubSeq(pieces, 1, n)) \in ReadOf(S)
           /\ IsPrefix(SmacRead(SubSeq(pieces, 1, n)).ended, SmacRead(pieces).ended)
<1> DEFINE N == Len(pieces)
<1>1. N \in Nat /\ SubSeq(pieces, 1, N) = pieces /\ (\A i \in 1 .. N : pieces[i] \in S)
      /\ n \in 0 .. N
  OBVIOUS
<1>2. PICK w : /\ SmacWalk(S, pieces, w)
               /\ \A i \in 0 .. N : SmacRead(SubSeq(pieces, 1, i)) = w[i]
  BY ReadOfPrefixes
<1>3. /\ w \in [0 .. N -> ReadOf(S)]
      /\ \A i \in 1 .. N : w[i] = SmacPut(w[i - 1], pieces[i])
  BY <1>2 DEF SmacWalk
<1> HIDE DEF N
<1> DEFINE P == {i \in 0 .. N - n : IsPrefix(w[n].ended, w[n + i].ended)}
<1>4. N - n \in Nat /\ n + 0 = n
  BY <1>1
<1>5. 0 \in P
  <2>1. w[n].ended \in Seq(Seq(S))
    BY <1>1, <1>3 DEF ReadOf
  <2>2. IsPrefix(w[n].ended, w[n].ended)
    BY <2>1 DEF IsPrefix
  <2> QED
    BY <1>4, <2>2
<1>6. ASSUME NEW i \in 1 .. N - n, i - 1 \in P PROVE i \in P
  <2>1. n + i \in 1 .. N /\ n + (i - 1) \in 0 .. N /\ (n + i) - 1 = n + (i - 1) /\ i \in 0 .. N - n
    BY <1>1
  <2> DEFINE r == w[n + (i - 1)]
             s == w[n + i]
  <2>2. r \in ReadOf(S) /\ s = SmacPut(r, pieces[n + i]) /\ pieces[n + i] \in S
    BY <1>1, <1>3, <2>1
  <2>3. w[n] \in ReadOf(S) /\ IsPrefix(w[n].ended, r.ended)
    BY <1>1, <1>3, <1>6
  <2> HIDE DEF r, s
  <2>4. s \in ReadOf(S) /\ (s.ended = r.ended \/ s.ended = Append(r.ended, r.open))
    BY <2>2, PutRead
  <2>5. w[n].ended \in Seq(Seq(S)) /\ r.ended \in Seq(Seq(S)) /\ r.open \in Seq(S)
        /\ s.ended \in Seq(Seq(S))
    BY <2>2, <2>3, <2>4 DEF ReadOf
  <2>6. IsPrefix(r.ended, s.ended)
    BY <2>4, <2>5, PrefixOfAppended
  <2>7. IsPrefix(w[n].ended, s.ended)
    BY <2>3, <2>5, <2>6, PrefixOfPrefix
  <2> QED
    BY <2>1, <2>7 DEF s
<1>7. \A i \in 0 .. N - n : i \in P
  <2> HIDE DEF P
  <2> QED
    BY <1>4, <1>5, <1>6, UpTo, Zenon
<1>8. N - n \in 0 .. N - n /\ n + (N - n) = N /\ N \in 0 .. N
  BY <1>1
<1>9. IsPrefix(w[n].ended, w[N].ended)
  BY <1>7, <1>8
<1> QED
  BY <1>1, <1>2, <1>3, <1>8, <1>9

Outs(S) == [file : Seq(S), buffer : Seq(S)]
Joined(out) == out.file \o out.buffer

\* The file of `later' goes on from that of `out'.
GoesOnFrom(S, out, later) ==
    out \in Outs(S) /\ later \in Outs(S) /\ IsPrefix(out.file, later.file)

\* A file goes on and on.
LEMMA GoesOnFurther ==
    ASSUME NEW S, NEW a, NEW b, NEW c, GoesOnFrom(S, a, b), GoesOnFrom(S, b, c)
    PROVE  GoesOnFrom(S, a, c)
<1>1. /\ a.file \in Seq(S) /\ b.file \in Seq(S) /\ c.file \in Seq(S)
      /\ IsPrefix(a.file, b.file) /\ IsPrefix(b.file, c.file)
  BY DEF GoesOnFrom, Outs
<1>2. IsPrefix(a.file, c.file)
  BY <1>1, PrefixOfPrefix
<1> QED
  BY <1>2 DEF GoesOnFrom

\* A flush, of however much, moves pieces on.
LEMMA FlushMoves ==
    ASSUME NEW S, NEW out \in Outs(S), NEW n \in 0 .. Len(out.buffer)
    PROVE  GoesOnFrom(S, out, Flushed(out, n)) /\ Joined(Flushed(out, n)) = Joined(out)
<1> DEFINE f == out.file
           b == out.buffer
           moved == SubSeq(b, 1, n)
           kept == SubSeq(b, n + 1, Len(b))
<1>1. f \in Seq(S) /\ b \in Seq(S) /\ n \in 0 .. Len(b)
  BY DEF Outs
<1>2. Flushed(out, n) = [file |-> f \o moved, buffer |-> kept]
  BY DEF Flushed
<1> HIDE DEF f, b
<1>3. moved \in Seq(S) /\ kept \in Seq(S)
  BY <1>1
<1>4. moved \o kept = b
  <2>1. 1 \in 1 .. Len(b) + 1 /\ n \in 1 - 1 .. Len(b) /\ Len(b) \in n .. Len(b)
    BY <1>1
  <2>2. SubSeq(b, 1, n) \o SubSeq(b, n + 1, Len(b)) = SubSeq(b, 1, Len(b))
    BY <1>1, <2>1, ConcatAdjacentSubSeq, Zenon
  <2> QED
    BY <1>1, <2>2, SubSeqFull
<1> HIDE DEF moved, kept
<1>5. f \o moved \in Seq(S) /\ (f \o moved) \o kept = f \o (moved \o kept)
  BY <1>1, <1>3
<1>6. IsPrefix(f, f \o moved)
  BY <1>1, <1>3, PrefixOfJoined
<1>7. Joined(Flushed(out, n)) = Joined(out)
  <2>1. Flushed(out, n).file = f \o moved /\ Flushed(out, n).buffer = kept
    BY <1>2
  <2> QED
    BY <1>4, <1>5, <2>1 DEF Joined, f, b
<1>8. Flushed(out, n) \in Outs(S)
  BY <1>2, <1>3, <1>5 DEF Outs
<1> QED
  BY <1>2, <1>6, <1>7, <1>8 DEF GoesOnFrom, f

\* A file and a buffer of pieces in S.
LEMMA MakesOut ==
    ASSUME NEW S, NEW f \in Seq(S), NEW b \in Seq(S), NEW out, out = [file |-> f, buffer |-> b]
    PROVE  out \in Outs(S)
BY DEF Outs

\* What is put is behind all there was, and nothing leaves the file.
LEMMA PutAdds ==
    ASSUME NEW S, NEW out \in Outs(S), NEW q \in Seq(S)
    PROVE  GoesOnFrom(S, out, Put(out, q)) /\ Joined(Put(out, q)) = Joined(out) \o q
<1> DEFINE f == out.file
           b == out.buffer
<1>1. f \in Seq(S) /\ b \in Seq(S) /\ out = [file |-> f, buffer |-> b]
  BY DEF Outs
<1> HIDE DEF f, b
<1>2. CASE HasRoom(out, q)
  <2>1. Put(out, q) = [file |-> f, buffer |-> b \o q]
    BY <1>1, <1>2 DEF Put, f, b
  <2>2. b \o q \in Seq(S) /\ f \o (b \o q) = (f \o b) \o q
    BY <1>1
  <2>3. IsPrefix(f, f)
    BY <1>1 DEF IsPrefix
  <2>4. Put(out, q).file = f /\ Put(out, q).buffer = b \o q
    BY <2>1
  <2>4a. Put(out, q) \in Outs(S)
    BY <1>1, <2>1, <2>2, MakesOut
  <2>5. Joined(Put(out, q)) = Joined(out) \o q
    BY <2>2, <2>4 DEF Joined, f, b
  <2> QED
    BY <2>3, <2>4, <2>4a, <2>5 DEF GoesOnFrom, f
<1>3. CASE ~HasRoom(out, q)
  <2>1. Put(out, q) = [file |-> f \o b, buffer |-> q]
    BY <1>3 DEF Put, f, b
  <2>2. f \o b \in Seq(S) /\ IsPrefix(f, f \o b)
    BY <1>1, PrefixOfJoined
  <2>3. Put(out, q).file = f \o b /\ Put(out, q).buffer = q
    BY <2>1
  <2>3a. Put(out, q) \in Outs(S)
    BY <1>1, <2>1, <2>2, MakesOut
  <2>4. Joined(Put(out, q)) = Joined(out) \o q
    BY <2>3 DEF Joined, f, b
  <2> QED
    BY <2>2, <2>3, <2>3a, <2>4 DEF GoesOnFrom, f
<1> QED
  BY <1>2, <1>3

\* What a put that fails leaves goes on from what was there.
LEMMA FailedPut ==
    ASSUME NEW S, NEW out \in Outs(S), NEW q, NEW later \in PutFails(out, q) \cup HalfFlushed(out)
    PROVE  GoesOnFrom(S, out, later)
           /\ (later \in HalfFlushed(out) => Joined(later) = Joined(out))
<1>1. PICK n \in 0 .. Len(out.buffer) - 1 : later = Flushed(out, n)
  BY DEF PutFails, HalfFlushed
<1>2. n \in 0 .. Len(out.buffer)
  BY DEF Outs
<1> QED
  BY <1>1, <1>2, FlushMoves

\* All that is in the file or the buffer, and what an entry adds.
SmacThere == ToSet(smac.file) \cup ToSet(smac.buffer)
WithNext == SmacThere \cup ToSet(Text(NextEntry)) \cup ToSet(Newline)

\* All pieces are among those that are there.
LEMMA ThereIsThere ==
    ASSUME NEW S, smac \in Outs(S)
    PROVE  smac \in Outs(SmacThere) /\ smac \in Outs(WithNext) /\ SmacThere \subseteq S
<1> DEFINE f == smac.file
           b == smac.buffer
<1>1. smac = [file |-> f, buffer |-> b] /\ f \in Seq(S) /\ b \in Seq(S)
  BY DEF Outs
<1> HIDE DEF f, b
<1>2. f \in Seq(ToSet(f)) /\ b \in Seq(ToSet(b)) /\ ToSet(f) \subseteq S /\ ToSet(b) \subseteq S
  BY <1>1 DEF ToSet
<1>3. \A T : ToSet(f) \subseteq T /\ ToSet(b) \subseteq T => f \in Seq(T) /\ b \in Seq(T)
  BY <1>1 DEF ToSet
<1>4. SmacThere = ToSet(f) \cup ToSet(b)
  BY DEF SmacThere, f, b
<1> QED
  BY <1>1, <1>2, <1>3, <1>4 DEF Outs, WithNext

\* How far recording an entry may come.
LEMMA RecordGoesOn ==
    ASSUME NEW T, smac \in Outs(T), NEW S, S = WithNext
    PROVE  /\ \A out \in Dropped \cup HalfFlushed(WithLine)
                          \cup {Flushed(WithLine, Len(WithLine.buffer))} :
                 GoesOnFrom(S, smac, out)
           /\ \A out \in HalfFlushed(WithLine) \cup {Flushed(WithLine, Len(WithLine.buffer))} :
                 Joined(out) = (Joined(smac) \o Text(NextEntry)) \o Newline
           /\ Flushed(WithLine, Len(WithLine.buffer)).buffer = <<>>
<1> DEFINE text == Text(NextEntry)
<1>1. smac \in Outs(S)
  BY ThereIsThere
<1>2. text \in Seq(S) /\ Newline \in Seq(S)
  <2>1. text \in Seq(ToSet(text)) /\ Newline \in Seq(ToSet(Newline))
    BY DEF Text, Newline, ToSet
  <2>2. ToSet(text) \subseteq S /\ ToSet(Newline) \subseteq S
    BY DEF WithNext
  <2> HIDE DEF text
  <2> QED
    BY <2>1, <2>2
<1>3. GoesOnFrom(S, smac, WithText) /\ Joined(WithText) = Joined(smac) \o text
  BY <1>1, <1>2, PutAdds DEF WithText
<1>4. WithText \in Outs(S)
  BY <1>3 DEF GoesOnFrom
<1>5. GoesOnFrom(S, WithText, WithLine) /\ Joined(WithLine) = Joined(WithText) \o Newline
  BY <1>2, <1>4, PutAdds DEF WithLine
<1>6. WithLine \in Outs(S) /\ GoesOnFrom(S, smac, WithLine)
  BY <1>3, <1>5, GoesOnFurther DEF GoesOnFrom
<1>7. Joined(WithLine) = (Joined(smac) \o text) \o Newline
  BY <1>3, <1>5
<1>8. ASSUME NEW out \in HalfFlushed(WithLine)
      PROVE  GoesOnFrom(S, smac, out) /\ Joined(out) = (Joined(smac) \o text) \o Newline
  BY <1>6, <1>7, FailedPut, GoesOnFurther
<1> DEFINE done == Flushed(WithLine, Len(WithLine.buffer))
<1>9. /\ GoesOnFrom(S, smac, done) /\ Joined(done) = (Joined(smac) \o text) \o Newline
      /\ done.buffer = <<>>
  <2>1. WithLine.buffer \in Seq(S) /\ Len(WithLine.buffer) \in 0 .. Len(WithLine.buffer)
    BY <1>6 DEF Outs
  <2>2. GoesOnFrom(S, WithLine, done) /\ Joined(done) = Joined(WithLine)
    BY <1>6, <2>1, FlushMoves
  <2>3. done.buffer = <<>>
    BY <2>1 DEF Flushed
  <2> QED
    BY <1>6, <1>7, <2>2, <2>3, GoesOnFurther
<1>10. ASSUME NEW out \in Dropped PROVE GoesOnFrom(S, smac, out)
  <2>1. CASE out \in PutFails(smac, text)
    BY <1>1, <2>1, FailedPut
  <2>2. CASE out \in PutFails(WithText, Newline)
    <3>1. GoesOnFrom(S, WithText, out)
      BY <1>4, <2>2, FailedPut
    <3> QED
      BY <1>3, <3>1, GoesOnFurther
  <2> QED
    BY <1>10, <2>1, <2>2 DEF Dropped
<1> QED
  BY <1>8, <1>9, <1>10

\* The entries of which there are pieces.
MadeOf(T) == {x[1] : x \in {y \in T : <<y>> # Newline}}

\* The entries of a process follow its start without a gap.
EntryOK(e) ==
    /\ e.hash <= smacMade /\ e.start <= smacStart /\ e.start < e.hash
    /\ e.start + 1 < e.hash => e.prev = e.hash - 1

\* What was made later was not made by an earlier process.
InOrder(e, f) == e.hash <= f.hash => e.start <= f.start

\* That the log is spoilt for good, or has the entry in a line that ended.
FiledIn(read, h) ==
    \E i \in DOMAIN read.ended : Parses(read.ended[i]) => EntryOf(read.ended[i]).hash = h

SmacTypes ==
    /\ smac \in Outs(Pieces) /\ smacUp \in BOOLEAN /\ smacWhole \in BOOLEAN
    /\ smacCounter \in Nat /\ smacLast \in 0 .. SmacEntries
    /\ smacMade \in 0 .. SmacEntries /\ smacStart \in 0 .. smacMade
    /\ ~smacUp => smac.buffer = <<>>
    /\ smacUp /\ smacStart < smacMade => smacLast = smacMade

SmacOrdered ==
    /\ \A e \in MadeOf(SmacThere) : EntryOK(e)
    /\ \A e, f \in MadeOf(SmacThere) : InOrder(e, f)

\* What record returned Ok for.
SmacFiled == \A h \in smacAcked : FiledIn(SmacRead(smac.file), h)

\* As ChainSurvivesFailures, and no line is left open.
SmacContinued ==
    smacUp /\ smacWhole =>
        /\ SmacRead(Joined(smac)).open = <<>>
        /\ SmacVerifies(Joined(smac))
        /\ smacCounter = Len(Lines(Joined(smac)))
        /\ smacLast = SmacLastOf(Lines(Joined(smac)))

SmacIInv == SmacTypes /\ SmacOrdered /\ SmacFiled /\ SmacContinued

\* Of the entries there are pieces of.
LEMMA MadeAreEntries ==
    ASSUME NEW T, T \subseteq Pieces
    PROVE  MadeOf(T) \subseteq SmacEntry
BY DEF MadeOf, Pieces, Newline

LEMMA MadeGrow ==
    ASSUME NEW T, NEW U, T \subseteq U
    PROVE  MadeOf(T) \subseteq MadeOf(U)
BY DEF MadeOf

LEMMA MadeWithNext == MadeOf(WithNext) \subseteq MadeOf(SmacThere) \cup {NextEntry}
<1>1. ToSet(Text(NextEntry)) = {<<NextEntry, 1>>, <<NextEntry, 2>>}
  BY DEF Text, ToSet
<1>2. ToSet(Newline) = {<<SmacNothing, 0>>}
  BY DEF Newline, ToSet
<1> QED
  BY <1>1, <1>2 DEF MadeOf, WithNext, Newline

\* The next entry is one.
LEMMA NextIsEntry ==
    ASSUME SmacTypes, smacMade < SmacEntries
    PROVE  NextEntry \in SmacEntry /\ WithNext \subseteq Pieces
<1>1. NextEntry \in SmacEntry
  BY SmacAssumption DEF SmacTypes, NextEntry, SmacEntry
<1>2. ToSet(Text(NextEntry)) = {<<NextEntry, 1>>, <<NextEntry, 2>>}
  BY DEF Text, ToSet
<1>3. ToSet(Newline) = {<<SmacNothing, 0>>}
  BY DEF Newline, ToSet
<1>4. SmacThere \subseteq Pieces
  BY ThereIsThere DEF SmacTypes
<1> QED
  BY <1>1, <1>2, <1>3, <1>4 DEF WithNext, Pieces

\* What a line says that parses is an entry that was made.
LEMMA LineSays ==
    ASSUME NEW S, NEW line \in Seq(S), Parses(line)
    PROVE  EntryOf(line) \in MadeOf(S)
<1> DEFINE e == EntryOf(line)
<1>1. line = <<<<e, 1>>, <<e, 2>>>>
  BY DEF Parses, Text
<1> HIDE DEF e
<1>2. line[1] \in S /\ line[1] = <<e, 1>>
  BY <1>1
<1>3. <<<<e, 1>>>> # Newline
  BY DEF Newline
<1> QED
  BY <1>2, <1>3 DEF MadeOf, e

\* The text of an entry says the entry.
LEMMA TextParses ==
    ASSUME NEW e
    PROVE  Parses(Text(e)) /\ EntryOf(Text(e)) = e
BY DEF Parses, EntryOf, Text

\* The lines begin with those that have ended.
LEMMA LinesRead ==
    ASSUME NEW S, NEW pieces \in Seq(S)
    PROVE  /\ Lines(pieces) \in Seq(Seq(S))
           /\ IsPrefix(SmacRead(pieces).ended, Lines(pieces))
<1> DEFINE r == SmacRead(pieces)
<1>1. r \in ReadOf(S)
  <2>1. Len(pieces) \in 0 .. Len(pieces) /\ SubSeq(pieces, 1, Len(pieces)) = pieces
    OBVIOUS
  <2> QED
    BY <2>1, EndedStay
<1>2. Lines(pieces) = IF r.open = <<>> THEN r.ended ELSE Append(r.ended, r.open)
  BY DEF Lines
<1>3. r.ended \in Seq(Seq(S)) /\ r.open \in Seq(S)
  BY <1>1 DEF ReadOf
<1> HIDE DEF r
<1> QED
  BY <1>2, <1>3, PrefixOfAppended DEF r

\* Two pieces more.
LEMMA AppendTwo ==
    ASSUME NEW T, NEW a \in Seq(T), NEW x \in T, NEW y \in T
    PROVE  Append(Append(a, x), y) = a \o <<x, y>>
<1> PICK n \in Nat : n = Len(a)
  OBVIOUS
<1> DEFINE b == Append(a, x)
           c == Append(b, y)
           t == <<x, y>>
           d == a \o t
<1>1. b \in Seq(T) /\ Len(b) = n + 1 /\ b[n + 1] = x /\ \A i \in 1 .. n : b[i] = a[i]
  OBVIOUS
<1> HIDE DEF b
<1>2. /\ c \in Seq(T) /\ Len(c) = n + 2 /\ c[n + 2] = y
      /\ \A i \in 1 .. n + 1 : c[i] = b[i]
  BY <1>1
<1>3. t \in Seq(T) /\ Len(t) = 2 /\ t[1] = x /\ t[2] = y
  OBVIOUS
<1> HIDE DEF c, t
<1> PICK m \in Nat : m = Len(t)
  BY <1>3
<1>4. /\ d \in Seq(T) /\ Len(d) = Len(a) + Len(t)
      /\ \A i \in 1 .. Len(a) + Len(t) : d[i] = IF i <= Len(a) THEN a[i] ELSE t[i - Len(a)]
  BY <1>3, ConcatProperties, Zenon
<1>5. /\ Len(d) = n + m
      /\ \A i \in 1 .. n + m : d[i] = IF i <= n THEN a[i] ELSE t[i - n]
  BY <1>4, Zenon
<1>6. m = 2
  BY <1>3, Zenon
<1> HIDE DEF d
<1>7. ASSUME NEW i \in 1 .. n + 2 PROVE c[i] = d[i]
  <2>1. CASE i \in 1 .. n
    BY <1>1, <1>2, <1>5, <1>6, <2>1
  <2>2. CASE i = n + 1
    BY <1>1, <1>2, <1>3, <1>5, <1>6, <2>2
  <2>3. CASE i = n + 2
    BY <1>2, <1>3, <1>5, <1>6, <2>3
  <2> QED
    BY <2>1, <2>2, <2>3
<1>8. Len(c) = Len(d) /\ \A i \in 1 .. Len(c) : c[i] = d[i]
  BY <1>2, <1>5, <1>6, <1>7
<1>9. c = d
  BY <1>2, <1>4, <1>8, SeqEqual, Zenon
<1> QED
  BY <1>9 DEF b, c, d, t

\* An entry and the end of its line are read.
LEMMA LineRead ==
    ASSUME NEW S, NEW pieces \in Seq(S), NEW e,
           ToSet(Text(e)) \subseteq S, ToSet(Newline) \subseteq S
    PROVE  /\ SmacRead(pieces) \in ReadOf(S)
           /\ SmacRead((pieces \o Text(e)) \o Newline) =
                 [ended |-> Append(SmacRead(pieces).ended, SmacRead(pieces).open \o Text(e)),
                  open |-> <<>>]
<1> DEFINE x == <<e, 1>>
           y == <<e, 2>>
           z == <<SmacNothing, 0>>
           p == Append(pieces, x)
           q == Append(p, y)
           r == SmacRead(pieces)
<1>1. Text(e) = <<x, y>> /\ Newline = <<z>>
  BY DEF Text, Newline
<1>2. x \in S /\ y \in S /\ z \in S
  <2>1. ToSet(Text(e)) = {x, y}
    BY DEF Text, ToSet
  <2>2. ToSet(Newline) = {z}
    BY DEF Newline, ToSet
  <2> QED
    BY <2>1, <2>2, Zenon
<1>3. <<x>> # Newline /\ <<y>> # Newline
  BY DEF Newline
<1> HIDE DEF x, y, z
<1>4. p \in Seq(S) /\ q \in Seq(S) /\ (pieces \o Text(e)) \o Newline = Append(q, z)
  BY <1>1, <1>2
<1> HIDE DEF p, q
<1>5. SmacRead(pieces) \in ReadOf(S) /\ SmacRead(p) = SmacPut(SmacRead(pieces), x)
  BY <1>2, ReadMore DEF p
<1>6. SmacRead(q) = SmacPut(SmacRead(p), y)
  BY <1>2, <1>4, ReadMore DEF q
<1>7. SmacRead(Append(q, z)) = SmacPut(SmacRead(q), z)
  BY <1>2, <1>4, ReadMore
<1> HIDE DEF r
<1>8. r.ended \in Seq(Seq(S)) /\ r.open \in Seq(S)
  BY <1>5 DEF r, ReadOf
<1>9. SmacRead(p).ended = r.ended /\ SmacRead(p).open = Append(r.open, x)
  BY <1>3, <1>5 DEF SmacPut, r
<1>10. SmacRead(q).ended = r.ended /\ SmacRead(q).open = Append(Append(r.open, x), y)
  BY <1>3, <1>6, <1>9 DEF SmacPut
<1>11. Append(Append(r.open, x), y) # <<>> /\ Append(Append(r.open, x), y) = r.open \o Text(e)
  <2> DEFINE o == r.open
  <2>1. o \in Seq(S)
    BY <1>8
  <2> HIDE DEF o
  <2>2. /\ Append(o, x) \in Seq(S) /\ Len(Append(Append(o, x), y)) = Len(o) + 2
        /\ Len(o) \in Nat
    BY <1>2, <2>1
  <2>3. Append(Append(o, x), y) # <<>>
    BY <2>2
  <2>4. Append(Append(o, x), y) = o \o <<x, y>>
    BY <1>2, <2>1, AppendTwo, Zenon
  <2> QED
    BY <1>1, <2>3, <2>4 DEF o
<1>12. SmacRead(Append(q, z)) = [ended |-> Append(r.ended, r.open \o Text(e)), open |-> <<>>]
  BY <1>1, <1>7, <1>10, <1>11 DEF SmacPut
<1> QED
  BY <1>4, <1>5, <1>12 DEF r

\* A line with more than an entry.
LEMMA LongerThan ==
    ASSUME NEW T, NEW a \in Seq(T), a # <<>>, NEW b \in Seq(T), Len(b) = 2
    PROVE  Len(a \o b) # 2
<1>1. Len(a) \in Nat /\ Len(a) # 0
  OBVIOUS
<1>2. Len(a \o b) = Len(a) + Len(b)
  BY ConcatProperties, Zenon
<1> QED
  BY <1>1, <1>2

\* Its line ends, and is the entry's or does not parse.
LEMMA EntryFiled ==
    ASSUME NEW S, NEW pieces \in Seq(S), NEW e,
           ToSet(Text(e)) \subseteq S, ToSet(Newline) \subseteq S
    PROVE  FiledIn(SmacRead((pieces \o Text(e)) \o Newline), e.hash)
<1> DEFINE r == SmacRead(pieces)
           s == SmacRead((pieces \o Text(e)) \o Newline)
           line == r.open \o Text(e)
           i == Len(r.ended) + 1
<1>1. r \in ReadOf(S) /\ s.ended = Append(r.ended, line)
  BY LineRead
<1>2. Text(e) \in Seq(S) /\ Len(Text(e)) = 2
  <2>1. Text(e) \in Seq(ToSet(Text(e))) /\ Len(Text(e)) = 2
    BY DEF Text, ToSet
  <2> QED
    BY <2>1
<1>3. r.ended \in Seq(Seq(S)) /\ r.open \in Seq(S) /\ line \in Seq(S)
  BY <1>1, <1>2 DEF ReadOf
<1> HIDE DEF r, s, line
<1>4. i \in DOMAIN s.ended /\ s.ended[i] = line
  BY <1>1, <1>3
<1>5. Parses(line) => EntryOf(line).hash = e.hash
  <2>1. CASE r.open = <<>>
    <3>1. line = Text(e)
      BY <1>2, <2>1 DEF line
    <3> QED
      BY <3>1, TextParses
  <2>2. CASE r.open # <<>>
    <3>1. Len(r.open \o Text(e)) # 2
      BY <1>2, <1>3, <2>2, LongerThan
    <3>2. Len(line) # 2
      BY <3>1 DEF line
    <3>3. Len(Text(EntryOf(line))) = 2
      BY DEF Text
    <3> QED
      BY <3>2, <3>3 DEF Parses
  <2> QED
    BY <2>1, <2>2
<1> QED
  BY <1>4, <1>5 DEF FiledIn, s

\* It stays filed.
LEMMA StaysFiled ==
    ASSUME NEW S, NEW out, NEW later, GoesOnFrom(S, out, later), NEW h,
           FiledIn(SmacRead(out.file), h)
    PROVE  FiledIn(SmacRead(later.file), h)
<1> DEFINE n == Len(out.file)
           a == SmacRead(out.file).ended
           b == SmacRead(later.file).ended
<1>1. out.file \in Seq(S) /\ later.file \in Seq(S) /\ IsPrefix(out.file, later.file)
  BY DEF GoesOnFrom, Outs
<1>2. n \in 0 .. Len(later.file) /\ out.file = SubSeq(later.file, 1, n)
  <2>1. out.file = SubSeq(out.file, 1, n)
    BY <1>1, SubSeqFull
  <2> QED
    BY <1>1, <2>1 DEF IsPrefix
<1>3. SmacRead(out.file) \in ReadOf(S) /\ IsPrefix(a, b)
  BY <1>1, <1>2, EndedStay
<1>4. SmacRead(later.file) \in ReadOf(S)
  <2>1. Len(later.file) \in 0 .. Len(later.file)
    BY <1>1
  <2> QED
    BY <1>1, <2>1, EndedStay, SubSeqFull
<1>5. a \in Seq(Seq(S)) /\ b \in Seq(Seq(S))
  BY <1>3, <1>4 DEF ReadOf
<1>6. PICK i \in DOMAIN a : Parses(a[i]) => EntryOf(a[i]).hash = h
  BY DEF FiledIn
<1> HIDE DEF a, b
<1>7. i \in DOMAIN b /\ a[i] = b[i]
  <2>1. Len(a) <= Len(b) /\ SubSeq(a, 1, Len(a)) = SubSeq(b, 1, Len(a))
    BY <1>3 DEF IsPrefix
  <2>2. i \in 1 .. Len(a) /\ Len(a) \in Nat /\ Len(b) \in Nat /\ DOMAIN b = 1 .. Len(b)
    BY <1>5, <1>6
  <2>3. SubSeq(a, 1, Len(a))[i] = a[i] /\ SubSeq(b, 1, Len(a))[i] = b[i]
    BY <1>5, <2>1, <2>2
  <2> QED
    BY <2>1, <2>2, <2>3
<1> QED
  BY <1>6, <1>7 DEF FiledIn, b

\* The line fits into the chain.
Linked(lines, i) ==
    Parses(lines[i]) /\ EntryOf(lines[i]).prev = SmacLastOf(SubSeq(lines, 1, i - 1))

\* A chain grows by a line that fits.
LEMMA LineLinked ==
    ASSUME NEW T, NEW lines \in Seq(T), NEW x \in T,
           \A i \in DOMAIN lines : Linked(lines, i),
           Parses(x), EntryOf(x).prev = SmacLastOf(lines)
    PROVE  /\ \A i \in DOMAIN Append(lines, x) : Linked(Append(lines, x), i)
           /\ SmacLastOf(Append(lines, x)) = EntryOf(x).hash
<1> DEFINE N == Len(lines)
           more == Append(lines, x)
<1>1. N \in Nat /\ more \in Seq(T) /\ Len(more) = N + 1 /\ DOMAIN more = 1 .. N + 1
      /\ DOMAIN lines = 1 .. N
  OBVIOUS
<1>2. (\A i \in 1 .. N : more[i] = lines[i]) /\ more[N + 1] = x
  OBVIOUS
<1>3. \A i \in 1 .. N + 1 : SubSeq(more, 1, i - 1) = SubSeq(lines, 1, i - 1)
  OBVIOUS
<1>4. SubSeq(lines, 1, N) = lines
  OBVIOUS
<1>5. more # <<>>
  BY <1>1
<1> HIDE DEF N, more
<1>6. \A i \in DOMAIN more : Linked(more, i)
  <2> SUFFICES ASSUME NEW i \in DOMAIN more PROVE Linked(more, i)
    OBVIOUS
  <2>1. CASE i \in 1 .. N
    <3>1. Linked(lines, i)
      BY <1>1, <2>1
    <3> QED
      BY <1>1, <1>2, <1>3, <2>1, <3>1 DEF Linked
  <2>2. CASE i = N + 1
    <3>1. i - 1 = N /\ i \in 1 .. N + 1
      BY <1>1, <2>2
    <3> QED
      BY <1>2, <1>3, <1>4, <2>2, <3>1 DEF Linked
  <2> QED
    BY <1>1, <2>1, <2>2
<1>7. SmacLastOf(more) = EntryOf(x).hash
  BY <1>1, <1>2, <1>5 DEF SmacLastOf, Last
<1> QED
  BY <1>6, <1>7 DEF more

\* verify_smac_log_chain, by lines.
LEMMA VerifiesLinked ==
    ASSUME NEW pieces
    PROVE  SmacVerifies(pieces) <=> \A i \in DOMAIN Lines(pieces) : Linked(Lines(pieces), i)
BY DEF SmacVerifies, Linked

\* What a file and a buffer of pieces in S hold.
LEMMA MadeOfOut ==
    ASSUME NEW S, NEW out \in Outs(S)
    PROVE  ToSet(out.file) \cup ToSet(out.buffer) \subseteq S /\ Joined(out) \in Seq(S)
<1> DEFINE f == out.file
           b == out.buffer
<1>1. f \in Seq(S) /\ b \in Seq(S)
  BY DEF Outs
<1> HIDE DEF f, b
<1>2. ToSet(f) \subseteq S /\ ToSet(b) \subseteq S /\ f \o b \in Seq(S)
  BY <1>1 DEF ToSet
<1> QED
  BY <1>2 DEF f, b, Joined

\* What the last line says, where it parses.
LEMMA LastSays ==
    ASSUME NEW S, S \subseteq Pieces, NEW pieces \in Seq(S), SmacVerifies(pieces)
    PROVE  SmacLastOf(Lines(pieces)) \in 0 .. SmacEntries /\ Len(Lines(pieces)) \in Nat
<1> DEFINE lines == Lines(pieces)
           N == Len(lines)
<1>1. lines \in Seq(Seq(S))
  BY LinesRead
<1>2. \A i \in DOMAIN lines : Parses(lines[i])
  BY VerifiesLinked DEF Linked
<1> HIDE DEF lines
<1>3. N \in Nat
  BY <1>1
<1>4. CASE lines = <<>>
  <2>1. SmacLastOf(lines) = 0
    BY <1>4 DEF SmacLastOf, SmacGenesis
  <2> QED
    BY <1>3, <2>1, SmacAssumption DEF lines
<1>5. CASE lines # <<>>
  <2>1. N \in DOMAIN lines /\ lines[N] \in Seq(S)
    BY <1>1, <1>5
  <2>2. EntryOf(lines[N]) \in MadeOf(S)
    BY <1>2, <2>1, LineSays
  <2>3. EntryOf(lines[N]) \in SmacEntry
    BY <2>2, MadeAreEntries
  <2>4. EntryOf(lines[N]).hash \in 0 .. SmacEntries
    BY <2>3, SmacAssumption DEF SmacEntry
  <2>5. SmacLastOf(lines) = EntryOf(lines[N]).hash
    BY <1>5 DEF SmacLastOf, Last
  <2> QED
    BY <1>3, <2>4, <2>5 DEF lines
<1> QED
  BY <1>4, <1>5

\* An empty log.
LEMMA SmacInitially == SmacInit => SmacIInv
<1> SUFFICES ASSUME SmacInit PROVE SmacIInv
  OBVIOUS
<1>1. smac.file = <<>> /\ smac.buffer = <<>> /\ smac = [file |-> <<>>, buffer |-> <<>>]
  BY DEF SmacInit
<1>2. Joined(smac) = <<>>
  BY <1>1 DEF Joined
<1>3. SmacThere = {} /\ MadeOf(SmacThere) = {}
  <2>1. SmacThere = {}
    BY <1>1 DEF SmacThere, ToSet
  <2> QED
    BY <2>1 DEF MadeOf
<1>4. SmacRead(Joined(smac)).open = <<>> /\ Lines(Joined(smac)) = <<>>
  BY <1>2, ReadNothing DEF Lines, NothingRead
<1>5. SmacVerifies(Joined(smac)) /\ SmacLastOf(Lines(Joined(smac))) = 0
      /\ Len(Lines(Joined(smac))) = 0
  BY <1>4 DEF SmacVerifies, SmacLastOf, SmacGenesis
<1>6. SmacTypes
  BY <1>1, SmacAssumption DEF SmacInit, SmacTypes, Outs, SmacGenesis
<1>7. SmacFiled
  BY DEF SmacInit, SmacFiled
<1>8. SmacContinued
  BY <1>4, <1>5 DEF SmacContinued, SmacInit, SmacGenesis
<1> QED
  BY <1>3, <1>6, <1>7, <1>8 DEF SmacIInv, SmacOrdered

\* The entries, when one was made and some of its pieces kept, ...
LEMMA OrderedWithNext ==
    ASSUME SmacTypes, SmacOrdered, Advanced, UNCHANGED smacStart,
           GoesOnFrom(WithNext, smac, smac')
    PROVE  SmacOrdered'
<1>1. SmacThere' \subseteq WithNext
  BY MadeOfOut DEF GoesOnFrom, SmacThere
<1>2. MadeOf(SmacThere') \subseteq MadeOf(SmacThere) \cup {NextEntry}
  BY <1>1, MadeGrow, MadeWithNext
<1>3. /\ smacUp /\ smacMade < SmacEntries /\ smacMade' = smacMade + 1 /\ smacStart' = smacStart
      /\ smacMade \in Nat /\ smacStart \in Nat /\ smacStart <= smacMade
      /\ (smacStart < smacMade => smacLast = smacMade)
  BY SmacAssumption DEF Advanced, SmacTypes
<1> DEFINE n == NextEntry
<1>4. n.hash = smacMade + 1 /\ n.start = smacStart /\ n.prev = smacLast
  BY DEF NextEntry
<1> HIDE DEF n
<1>5. MadeOf(SmacThere) \subseteq SmacEntry
  BY ThereIsThere, MadeAreEntries DEF SmacTypes
<1>6. ASSUME NEW e \in MadeOf(SmacThere)
      PROVE  e.hash \in Nat /\ e.start \in Nat /\ e.hash <= smacMade /\ e.start <= smacStart
             /\ e.start < e.hash /\ (e.start + 1 < e.hash => e.prev = e.hash - 1)
  BY <1>5, <1>6, SmacAssumption DEF SmacOrdered, EntryOK, SmacEntry
<1>7. ASSUME NEW e \in MadeOf(SmacThere') PROVE EntryOK(e)'
  <2>1. CASE e \in MadeOf(SmacThere)
    <3>1. /\ e.hash \in Nat /\ e.start \in Nat /\ e.hash <= smacMade /\ e.start <= smacStart
          /\ e.start < e.hash /\ (e.start + 1 < e.hash => e.prev = e.hash - 1)
      BY <1>6, <2>1
    <3> QED
      BY <1>3, <3>1 DEF EntryOK
  <2>2. CASE e = n
    BY <1>3, <1>4, <2>2 DEF EntryOK
  <2> QED
    BY <1>2, <1>7, <2>1, <2>2 DEF n
<1>8. ASSUME NEW e \in MadeOf(SmacThere'), NEW f \in MadeOf(SmacThere') PROVE InOrder(e, f)
  <2>1. CASE e \in MadeOf(SmacThere) /\ f \in MadeOf(SmacThere)
    BY <2>1 DEF SmacOrdered
  <2>2. CASE e = n
    <3>1. CASE f = n
      BY <1>3, <1>4, <2>2, <3>1 DEF InOrder
    <3>2. CASE f \in MadeOf(SmacThere)
      <4>1. f.hash \in Nat /\ f.hash <= smacMade
        BY <1>6, <3>2
      <4> QED
        BY <1>3, <1>4, <2>2, <4>1 DEF InOrder
    <3> QED
      BY <1>2, <1>8, <3>1, <3>2 DEF n
  <2>3. CASE f = n /\ e \in MadeOf(SmacThere)
    <3>1. e.start <= smacStart
      BY <1>6, <2>3
    <3> QED
      BY <1>4, <2>3, <3>1 DEF InOrder
  <2> QED
    BY <1>2, <1>8, <2>1, <2>2, <2>3 DEF n
<1> QED
  BY <1>7, <1>8 DEF SmacOrdered

\* ... and when none was.
LEMMA OrderedStill ==
    ASSUME SmacTypes, SmacOrdered, SmacThere' \subseteq SmacThere, UNCHANGED smacMade,
           smacStart' = smacStart \/ smacStart' = smacMade
    PROVE  SmacOrdered'
<1>1. MadeOf(SmacThere') \subseteq MadeOf(SmacThere)
  BY MadeGrow
<1>2. smacStart \in Nat /\ smacMade \in Nat /\ smacStart <= smacStart' /\ smacStart' \in Nat
  BY SmacAssumption DEF SmacTypes
<1>3. MadeOf(SmacThere) \subseteq SmacEntry
  BY ThereIsThere, MadeAreEntries DEF SmacTypes
<1>4. ASSUME NEW e \in MadeOf(SmacThere') PROVE EntryOK(e)'
  <2>1. e.start \in Nat /\ EntryOK(e)
    BY <1>1, <1>3, <1>4 DEF SmacOrdered, SmacEntry
  <2> QED
    BY <1>2, <2>1 DEF EntryOK
<1> QED
  BY <1>1, <1>4 DEF SmacOrdered

\* What was filed still is.
LEMMA FiledStill ==
    ASSUME SmacFiled, NEW S, GoesOnFrom(S, smac, smac')
    PROVE  \A h \in smacAcked : FiledIn(SmacRead(smac'.file), h)
BY StaysFiled DEF SmacFiled

\* The types, when an entry was made.
LEMMA TypesAdvance ==
    ASSUME SmacTypes, Advanced, UNCHANGED smacStart, GoesOnFrom(WithNext, smac, smac'),
           smacUp' \in BOOLEAN, smacWhole' \in BOOLEAN, ~smacUp' => smac'.buffer = <<>>
    PROVE  SmacTypes'
<1>1. smac' \in Outs(Pieces)
  <2>1. WithNext \subseteq Pieces
    BY NextIsEntry DEF Advanced
  <2>2. smac' \in Outs(WithNext)
    BY DEF GoesOnFrom
  <2> QED
    BY <2>1, <2>2 DEF Outs
<1>2. /\ smacMade \in Nat /\ smacMade < SmacEntries /\ smacMade' = smacMade + 1
      /\ smacStart' = smacStart /\ smacStart \in 0 .. smacMade /\ smacCounter' = smacCounter + 1
      /\ smacCounter \in Nat /\ SmacEntries \in Nat
  BY SmacAssumption DEF SmacTypes, Advanced
<1>3. smacLast' = smacMade + 1
  BY DEF Advanced, NextEntry
<1> QED
  BY <1>1, <1>2, <1>3 DEF SmacTypes

\* The memory continues what was written with the entry.
LEMMA ContinuedWithNext ==
    ASSUME SmacTypes, SmacContinued, Advanced, smacWhole,
           Joined(smac') = (Joined(smac) \o Text(NextEntry)) \o Newline
    PROVE  /\ SmacRead(Joined(smac')).open = <<>>
           /\ SmacVerifies(Joined(smac'))
           /\ smacCounter' = Len(Lines(Joined(smac')))
           /\ smacLast' = SmacLastOf(Lines(Joined(smac')))
<1> DEFINE all == Joined(smac)
           lines == Lines(all)
           e == NextEntry
           r == SmacRead(all)
<1>1. smac \in Outs(WithNext)
  BY ThereIsThere DEF SmacTypes
<1>2. all \in Seq(WithNext)
  BY <1>1, MadeOfOut
<1>3. ToSet(Text(e)) \subseteq WithNext /\ ToSet(Newline) \subseteq WithNext
  BY DEF WithNext
<1>4. r.open = <<>> /\ SmacVerifies(all) /\ smacCounter = Len(lines) /\ smacLast = SmacLastOf(lines)
  BY DEF SmacContinued, Advanced
<1>5. lines = r.ended
  BY <1>4 DEF Lines
<1> HIDE DEF all, lines, e, r
<1>6. r \in ReadOf(WithNext)
      /\ SmacRead((all \o Text(e)) \o Newline)
            = [ended |-> Append(r.ended, r.open \o Text(e)), open |-> <<>>]
  BY <1>2, <1>3, LineRead DEF r
<1>7. r.open \o Text(e) = Text(e)
  BY <1>4 DEF Text
<1>8. SmacRead(Joined(smac')) = [ended |-> Append(lines, Text(e)), open |-> <<>>]
  BY <1>5, <1>6, <1>7 DEF all, e
<1>9. Lines(Joined(smac')) = Append(lines, Text(e))
  BY <1>8 DEF Lines
<1>10. lines \in Seq(Seq(WithNext)) /\ Text(e) \in Seq(WithNext)
  <2>1. Text(e) \in Seq(ToSet(Text(e)))
    BY DEF Text, ToSet
  <2>2. Text(e) \in Seq(WithNext)
    BY <1>3, <2>1
  <2> QED
    BY <1>5, <1>6, <2>2 DEF ReadOf
<1>11. Parses(Text(e)) /\ EntryOf(Text(e)) = e
  BY TextParses
<1>12. e.prev = SmacLastOf(lines) /\ smacLast' = e.hash
  BY <1>4 DEF e, NextEntry, Advanced
<1>13. \A i \in DOMAIN lines : Linked(lines, i)
  BY <1>4, VerifiesLinked DEF lines
<1>14. /\ \A i \in DOMAIN Append(lines, Text(e)) : Linked(Append(lines, Text(e)), i)
       /\ SmacLastOf(Append(lines, Text(e))) = e.hash
  BY <1>10, <1>11, <1>12, <1>13, LineLinked
<1>15. SmacVerifies(Joined(smac'))
  BY <1>9, <1>14, VerifiesLinked
<1>16. smacCounter' = Len(Append(lines, Text(e)))
  <2>1. Len(Append(lines, Text(e))) = Len(lines) + 1
    BY <1>10
  <2> QED
    BY <1>4, <2>1 DEF Advanced
<1> QED
  BY <1>8, <1>9, <1>12, <1>14, <1>15, <1>16

\* The record of an entry, and its end with it: what all of them share.
LEMMA EntryPutDown ==
    ASSUME SmacIInv, Advanced, UNCHANGED <<smacStart, smacAcked>>,
           GoesOnFrom(WithNext, smac, smac'),
           smacUp' \in BOOLEAN, smacWhole' \in BOOLEAN, ~smacUp' => smac'.buffer = <<>>
    PROVE  SmacTypes' /\ SmacOrdered' /\ SmacFiled'
<1>1. SmacTypes' /\ SmacOrdered'
  BY TypesAdvance, OrderedWithNext DEF SmacIInv
<1>2. \A h \in smacAcked : FiledIn(SmacRead(smac'.file), h)
  BY FiledStill DEF SmacIInv
<1> QED
  BY <1>1, <1>2 DEF SmacFiled

\* The buffer goes with the process.
LEMMA DownGoesOn ==
    ASSUME NEW S, NEW out, GoesOnFrom(S, smac, out),
           smac' = [file |-> out.file, buffer |-> <<>>]
    PROVE  GoesOnFrom(S, smac, smac') /\ smac'.buffer = <<>>
<1>1. out.file \in Seq(S) /\ <<>> \in Seq(S)
  BY DEF GoesOnFrom, Outs
<1>2. smac' \in Outs(S) /\ smac'.file = out.file /\ smac'.buffer = <<>>
  BY <1>1 DEF Outs
<1> QED
  BY <1>2 DEF GoesOnFrom

\* Nothing is left in the buffer.
LEMMA AllInFile ==
    ASSUME NEW S, NEW out \in Outs(S), out.buffer = <<>>
    PROVE  Joined(out) = out.file
<1>1. out.file \in Seq(S)
  BY DEF Outs
<1> QED
  BY <1>1 DEF Joined

\* The steps.
LEMMA RecordKeeps == SmacIInv /\ SmacRecord => SmacIInv'
<1> SUFFICES ASSUME SmacIInv, SmacRecord PROVE SmacIInv'
  OBVIOUS
<1> DEFINE S == WithNext
           e == NextEntry
<1>1. SmacTypes /\ smac \in Outs(Pieces) /\ Advanced
  BY DEF SmacIInv, SmacTypes, SmacRecord
<1>2. smac' = Flushed(WithLine, Len(WithLine.buffer))
  BY DEF SmacRecord
<1>3. GoesOnFrom(S, smac, smac')
      /\ Joined(smac') = (Joined(smac) \o Text(e)) \o Newline /\ smac'.buffer = <<>>
  BY <1>1, <1>2, RecordGoesOn
<1> HIDE DEF S
<1>4. SmacTypes' /\ SmacOrdered' /\ \A h \in smacAcked : FiledIn(SmacRead(smac'.file), h)
  <2>1. smacUp' \in BOOLEAN /\ smacWhole' \in BOOLEAN /\ smacStart' = smacStart
    BY <1>1 DEF SmacTypes, SmacRecord
  <2> QED
    BY <1>1, <1>3, <2>1, TypesAdvance, OrderedWithNext, FiledStill DEF SmacIInv, S
<1>5. FiledIn(SmacRead(smac'.file), e.hash)
  <2>1. smac \in Outs(S) /\ Joined(smac) \in Seq(S)
    BY <1>1, ThereIsThere, MadeOfOut DEF S
  <2>2. ToSet(Text(e)) \subseteq S /\ ToSet(Newline) \subseteq S
    BY DEF WithNext, S
  <2>3. FiledIn(SmacRead((Joined(smac) \o Text(e)) \o Newline), e.hash)
    BY <2>1, <2>2, EntryFiled
  <2>4. smac'.file = Joined(smac')
    <3>1. smac' \in Outs(S)
      BY <1>3 DEF GoesOnFrom
    <3> QED
      BY <1>3, <3>1, AllInFile
  <2> QED
    BY <1>3, <2>3, <2>4
<1>6. SmacFiled'
  BY <1>4, <1>5 DEF SmacFiled, SmacRecord
<1>7. SmacContinued'
  <2>1. CASE smacWhole
    BY <1>1, <1>3, <2>1, ContinuedWithNext DEF SmacIInv, SmacContinued
  <2>2. CASE ~smacWhole
    BY <2>2 DEF SmacContinued, SmacRecord
  <2> QED
    BY <2>1, <2>2
<1> QED
  BY <1>4, <1>6, <1>7 DEF SmacIInv

LEMMA RecordFailsKeeps == SmacIInv /\ SmacRecordFails => SmacIInv'
<1> SUFFICES ASSUME SmacIInv, SmacRecordFails PROVE SmacIInv'
  OBVIOUS
<1> DEFINE S == WithNext
<1>1. SmacTypes /\ smac \in Outs(Pieces) /\ Advanced /\ smacUp
      /\ UNCHANGED <<smacUp, smacStart, smacAcked>>
  BY DEF SmacIInv, SmacTypes, SmacRecordFails, Advanced
<1>2. CASE smac' \in Dropped /\ smacWhole' = FALSE
  <2>1. GoesOnFrom(S, smac, smac')
    BY <1>1, <1>2, RecordGoesOn
  <2>2. SmacTypes' /\ SmacOrdered' /\ SmacFiled'
    BY <1>1, <1>2, <2>1, EntryPutDown
  <2> QED
    BY <1>2, <2>2 DEF SmacIInv, SmacContinued
<1>3. CASE smac' \in HalfFlushed(WithLine) /\ UNCHANGED smacWhole
  <2>1. GoesOnFrom(S, smac, smac')
        /\ Joined(smac') = (Joined(smac) \o Text(NextEntry)) \o Newline
    BY <1>1, <1>3, RecordGoesOn
  <2>2. smacWhole' \in BOOLEAN
    BY <1>1, <1>3 DEF SmacTypes
  <2>3. SmacTypes' /\ SmacOrdered' /\ SmacFiled'
    BY <1>1, <2>1, <2>2, EntryPutDown
  <2>4. SmacContinued'
    <3>1. CASE smacWhole
      BY <1>1, <2>1, <3>1, ContinuedWithNext DEF SmacIInv, SmacContinued
    <3>2. CASE ~smacWhole
      BY <1>3, <3>2 DEF SmacContinued
    <3> QED
      BY <3>1, <3>2
  <2> QED
    BY <2>3, <2>4 DEF SmacIInv
<1> QED
  BY <1>2, <1>3 DEF SmacRecordFails

LEMMA DyingKeeps == SmacIInv /\ SmacDiesInRecord => SmacIInv'
<1> SUFFICES ASSUME SmacIInv, SmacDiesInRecord PROVE SmacIInv'
  OBVIOUS
<1> DEFINE S == WithNext
<1>1. SmacTypes /\ smac \in Outs(Pieces) /\ Advanced /\ smacUp' = FALSE
      /\ UNCHANGED <<smacStart, smacAcked, smacWhole>>
  BY DEF SmacIInv, SmacTypes, SmacDiesInRecord, SmacDown
<1>2. PICK out \in Dropped \cup HalfFlushed(WithLine)
                       \cup {Flushed(WithLine, Len(WithLine.buffer))} :
           smac' = [file |-> out.file, buffer |-> <<>>]
  BY DEF SmacDiesInRecord, SmacDown
<1>3. GoesOnFrom(S, smac, out)
  BY <1>1, <1>2, RecordGoesOn
<1>4. GoesOnFrom(S, smac, smac') /\ smac'.buffer = <<>>
  BY <1>2, <1>3, DownGoesOn
<1>5. smacWhole' \in BOOLEAN
  BY <1>1 DEF SmacTypes
<1>6. SmacTypes' /\ SmacOrdered' /\ SmacFiled'
  BY <1>1, <1>4, <1>5, EntryPutDown
<1> QED
  BY <1>1, <1>6 DEF SmacIInv, SmacContinued

LEMMA StoppingKeeps == SmacIInv /\ SmacStops => SmacIInv'
<1> SUFFICES ASSUME SmacIInv, SmacStops PROVE SmacIInv'
  OBVIOUS
<1> DEFINE S == SmacThere
<1>1. SmacTypes /\ smac \in Outs(Pieces) /\ smac \in Outs(S) /\ S \subseteq Pieces
      /\ smacUp' = FALSE
      /\ UNCHANGED <<smacCounter, smacLast, smacMade, smacStart, smacAcked, smacWhole>>
  BY ThereIsThere DEF SmacIInv, SmacTypes, SmacStops, SmacDown, smacMemory
<1>2. PICK out \in HalfFlushed(smac) \cup {Flushed(smac, Len(smac.buffer))} :
           smac' = [file |-> out.file, buffer |-> <<>>]
  BY DEF SmacStops, SmacDown
<1> HIDE DEF S
<1>3. GoesOnFrom(S, smac, out)
  <2>1. CASE out \in HalfFlushed(smac)
    BY <1>1, <2>1, FailedPut
  <2>2. CASE out = Flushed(smac, Len(smac.buffer))
    <3>1. Len(smac.buffer) \in 0 .. Len(smac.buffer)
      BY <1>1 DEF Outs
    <3> QED
      BY <1>1, <2>2, <3>1, FlushMoves
  <2> QED
    BY <1>2, <2>1, <2>2
<1>4. GoesOnFrom(S, smac, smac') /\ smac'.buffer = <<>>
  BY <1>2, <1>3, DownGoesOn
<1>5. smac' \in Outs(S) /\ smac' \in Outs(Pieces)
  BY <1>1, <1>4 DEF GoesOnFrom, Outs
<1>6. SmacTypes'
  BY <1>1, <1>4, <1>5 DEF SmacTypes
<1>7. SmacThere' \subseteq SmacThere
  BY <1>5, MadeOfOut DEF SmacThere, S
<1>8. SmacOrdered'
  BY <1>1, <1>7, OrderedStill DEF SmacIInv
<1>9. SmacFiled'
  BY <1>1, <1>4, FiledStill DEF SmacIInv, SmacFiled
<1> QED
  BY <1>1, <1>6, <1>8, <1>9 DEF SmacIInv, SmacContinued

\* Nothing is open after a newline.
LEMMA NothingOpen ==
    ASSUME NEW S, NEW pieces \in Seq(S), pieces = <<>> \/ <<Last(pieces)>> = Newline
    PROVE  SmacRead(pieces).open = <<>>
<1>1. CASE pieces = <<>>
  BY <1>1, ReadNothing DEF NothingRead
<1>2. CASE pieces # <<>> /\ <<Last(pieces)>> = Newline
  <2> DEFINE N == Len(pieces)
             front == SubSeq(pieces, 1, N - 1)
             z == pieces[N]
  <2>1. /\ N \in Nat /\ N # 0 /\ z \in S /\ front \in Seq(S) /\ Append(front, z) = pieces
    BY <1>2
  <2>2. <<z>> = Newline
    BY <1>2 DEF Last
  <2> HIDE DEF N, front, z
  <2>3. SmacRead(pieces) = SmacPut(SmacRead(front), z)
    BY <2>1, ReadMore
  <2> QED
    BY <2>2, <2>3 DEF SmacPut
<1> QED
  BY <1>1, <1>2

LEMMA StartingKeeps == SmacIInv /\ SmacLoggerNew => SmacIInv'
<1> SUFFICES ASSUME SmacIInv, SmacLoggerNew PROVE SmacIInv'
  OBVIOUS
<1>1. /\ SmacTypes /\ smac \in Outs(Pieces) /\ smac.buffer = <<>> /\ smac.file \in Seq(Pieces)
      /\ SmacVerifies(smac.file) /\ smacUp' = TRUE /\ smac' = smac
      /\ smacCounter' = Len(Lines(smac.file)) /\ smacLast' = SmacLastOf(Lines(smac.file))
      /\ smacStart' = smacMade /\ smacMade' = smacMade /\ smacAcked' = smacAcked
      /\ smacWhole' = (smac.file = <<>> \/ <<Last(smac.file)>> = Newline)
  BY DEF SmacIInv, SmacTypes, SmacLoggerNew, Outs
<1>2. Joined(smac) = smac.file
  BY <1>1 DEF Joined
<1>3. smacLast' \in 0 .. SmacEntries /\ smacCounter' \in Nat
  BY <1>1, LastSays
<1>4. smacMade \in Nat /\ smacMade \in 0 .. SmacEntries
  BY <1>1, SmacAssumption DEF SmacTypes
<1>5. SmacTypes'
  BY <1>1, <1>3, <1>4 DEF SmacTypes
<1>6. SmacOrdered'
  <2>1. SmacThere' = SmacThere
    BY <1>1 DEF SmacThere
  <2> QED
    BY <1>1, <2>1, OrderedStill DEF SmacIInv
<1>7. SmacFiled'
  BY <1>1 DEF SmacIInv, SmacFiled
<1>8. SmacContinued'
  <2>1. smacWhole' => SmacRead(smac.file).open = <<>>
    BY <1>1, NothingOpen
  <2>2. Joined(smac)' = smac.file
    BY <1>1, <1>2 DEF Joined
  <2> QED
    BY <1>1, <2>1, <2>2 DEF SmacContinued
<1> QED
  BY <1>5, <1>6, <1>7, <1>8 DEF SmacIInv

\* SmacIInv holds, however writes fail and processes end.
THEOREM SmacInvariant == SmacSpec => []SmacIInv
<1>1. SmacIInv /\ [SmacNext]_smacVars => SmacIInv'
  <2> SUFFICES ASSUME SmacIInv, [SmacNext]_smacVars PROVE SmacIInv'
    OBVIOUS
  <2>1. CASE UNCHANGED smacVars
    <3>1. /\ smac' = smac /\ smacUp' = smacUp /\ smacCounter' = smacCounter
          /\ smacLast' = smacLast /\ smacMade' = smacMade /\ smacStart' = smacStart
          /\ smacAcked' = smacAcked /\ smacWhole' = smacWhole
      BY <2>1 DEF smacVars, smacMemory
    <3>2. SmacTypes' /\ SmacFiled' /\ SmacContinued'
      BY <3>1 DEF SmacIInv, SmacTypes, SmacFiled, SmacContinued
    <3>3. SmacOrdered'
      BY <3>1 DEF SmacIInv, SmacOrdered, EntryOK, InOrder, SmacThere
    <3> QED
      BY <3>2, <3>3 DEF SmacIInv
  <2> QED
    BY <2>1, RecordKeeps, RecordFailsKeeps, DyingKeeps, StoppingKeeps, StartingKeeps DEF SmacNext
<1> QED
  BY <1>1, SmacInitially, PTL DEF SmacSpec

(***************************************************************************)
(* The buffer stays within its capacity, and what is acknowledged was      *)
(* made.                                                                   *)
(***************************************************************************)
SmacWithin == Len(smac.buffer) <= SmacCapacity /\ smacAcked \subseteq 1 .. smacMade

\* A flush makes the buffer no longer, ...
LEMMA FlushShrinks ==
    ASSUME NEW S, NEW out \in Outs(S), NEW later \in HalfFlushed(out)
    PROVE  Len(later.buffer) <= Len(out.buffer)
<1>1. PICK n \in 0 .. Len(out.buffer) - 1 : later = Flushed(out, n)
  BY DEF HalfFlushed
<1>2. out.buffer \in Seq(S)
  BY DEF Outs
<1>3. later.buffer = SubSeq(out.buffer, n + 1, Len(out.buffer))
  BY <1>1 DEF Flushed
<1>4. n \in Nat /\ n < Len(out.buffer) /\ Len(out.buffer) \in Nat
  BY <1>2
<1>5. Len(later.buffer) = Len(out.buffer) - n
  BY <1>2, <1>3, <1>4
<1> QED
  BY <1>4, <1>5

\* ... and what is put there had room, or there was nothing else.
LEMMA PutWithin ==
    ASSUME NEW S, NEW out \in Outs(S), NEW pieces \in Seq(S), Len(pieces) <= SmacCapacity
    PROVE  Put(out, pieces) \in Outs(S) /\ Len(Put(out, pieces).buffer) <= SmacCapacity
<1>1. /\ out.file \in Seq(S) /\ out.buffer \in Seq(S)
      /\ out = [file |-> out.file, buffer |-> out.buffer]
  BY DEF Outs
<1>2. CASE HasRoom(out, pieces)
  <2>1. Put(out, pieces) = [file |-> out.file, buffer |-> out.buffer \o pieces]
    BY <1>1, <1>2 DEF Put
  <2>2. /\ out.buffer \o pieces \in Seq(S)
        /\ Len(out.buffer \o pieces) = Len(out.buffer) + Len(pieces)
    BY <1>1
  <2> QED
    BY <1>1, <1>2, <2>1, <2>2 DEF HasRoom, Outs
<1>3. CASE ~HasRoom(out, pieces)
  BY <1>1, <1>3 DEF Put, Outs
<1> QED
  BY <1>2, <1>3

LEMMA SmacWithinStep == SmacIInv /\ SmacWithin /\ [SmacNext]_smacVars => SmacWithin'
<1> SUFFICES ASSUME SmacIInv, SmacWithin, [SmacNext]_smacVars PROVE SmacWithin'
  OBVIOUS
<1>1. /\ smac \in Outs(Pieces) /\ smacMade \in Nat /\ SmacCapacity \in Nat \ {0, 1}
      /\ Len(smac.buffer) <= SmacCapacity /\ smacAcked \subseteq 1 .. smacMade
  BY SmacAssumption DEF SmacIInv, SmacTypes, SmacWithin
<1>2. /\ WithText \in Outs(WithNext) /\ Len(WithText.buffer) <= SmacCapacity
      /\ WithLine \in Outs(WithNext) /\ Len(WithLine.buffer) <= SmacCapacity
      /\ smac \in Outs(WithNext)
  <2>1. smac \in Outs(WithNext)
    BY <1>1, ThereIsThere
  <2>2. Text(NextEntry) \in Seq(WithNext) /\ Len(Text(NextEntry)) = 2
    <3>1. Text(NextEntry) \in Seq(ToSet(Text(NextEntry))) /\ Len(Text(NextEntry)) = 2
      BY DEF Text, ToSet
    <3>2. ToSet(Text(NextEntry)) \subseteq WithNext
      BY DEF WithNext
    <3> QED
      BY <3>1, <3>2
  <2>3. Newline \in Seq(WithNext) /\ Len(Newline) = 1
    <3>1. Newline \in Seq(ToSet(Newline)) /\ Len(Newline) = 1
      BY DEF Newline, ToSet
    <3>2. ToSet(Newline) \subseteq WithNext
      BY DEF WithNext
    <3> QED
      BY <3>1, <3>2
  <2>4. Len(Text(NextEntry)) <= SmacCapacity /\ Len(Newline) <= SmacCapacity
    BY <1>1, <2>2, <2>3
  <2>5. WithText \in Outs(WithNext) /\ Len(WithText.buffer) <= SmacCapacity
    BY <2>1, <2>2, <2>4, PutWithin, Zenon DEF WithText
  <2>6. WithLine \in Outs(WithNext) /\ Len(WithLine.buffer) <= SmacCapacity
    BY <2>3, <2>4, <2>5, PutWithin, Zenon DEF WithLine
  <2> QED
    BY <2>1, <2>5, <2>6
<1>3. ASSUME NEW out \in Dropped \cup HalfFlushed(WithLine)
      PROVE  Len(out.buffer) <= SmacCapacity
  <2>1. out \in HalfFlushed(smac) \cup HalfFlushed(WithText) \cup HalfFlushed(WithLine)
    BY <1>3 DEF Dropped, PutFails
  <2>2. ASSUME NEW big \in Outs(WithNext), Len(big.buffer) <= SmacCapacity,
               out \in HalfFlushed(big)
        PROVE  Len(out.buffer) <= SmacCapacity
    <3>1. Len(out.buffer) <= Len(big.buffer) /\ big.buffer \in Seq(WithNext)
      BY <2>2, FlushShrinks DEF Outs
    <3>2. out.buffer \in Seq(WithNext)
      <4>1. PICK n \in 0 .. Len(big.buffer) - 1 : out = Flushed(big, n)
        BY <2>2 DEF HalfFlushed
      <4>2. out.buffer = SubSeq(big.buffer, n + 1, Len(big.buffer))
        BY <4>1 DEF Flushed
      <4> QED
        BY <3>1, <4>2
    <3> QED
      BY <1>1, <2>2, <3>1, <3>2
  <2> QED
    BY <1>1, <1>2, <2>1, <2>2
<1>4. CASE SmacRecord
  <2>1. smac' = Flushed(WithLine, Len(WithLine.buffer)) /\ WithLine.buffer \in Seq(WithNext)
    BY <1>2, <1>4 DEF SmacRecord, Outs
  <2>2. Len(smac'.buffer) = 0
    BY <2>1 DEF Flushed
  <2>3. smacAcked' \subseteq 1 .. smacMade'
    BY <1>1, <1>4 DEF SmacRecord, Advanced, NextEntry
  <2> QED
    BY <1>1, <2>2, <2>3 DEF SmacWithin
<1>5. CASE SmacRecordFails
  <2>1. smac' \in Dropped \cup HalfFlushed(WithLine)
    BY <1>5 DEF SmacRecordFails
  <2>2. smacAcked' \subseteq 1 .. smacMade'
    BY <1>1, <1>5 DEF SmacRecordFails, Advanced
  <2> QED
    BY <1>3, <2>1, <2>2 DEF SmacWithin
<1>6. CASE SmacDiesInRecord \/ SmacStops
  <2>1. smac'.buffer = <<>>
    BY <1>6 DEF SmacDiesInRecord, SmacStops, SmacDown
  <2>2. smacAcked' = smacAcked /\ smacMade' \in {smacMade, smacMade + 1}
    BY <1>6 DEF SmacDiesInRecord, SmacStops, Advanced
  <2>3. smacAcked' \subseteq 1 .. smacMade'
    BY <1>1, <2>2
  <2> QED
    BY <1>1, <2>1, <2>3 DEF SmacWithin
<1>7. CASE SmacLoggerNew \/ UNCHANGED smacVars
  BY <1>7 DEF SmacLoggerNew, smacVars, SmacWithin
<1> QED
  BY <1>4, <1>5, <1>6, <1>7 DEF SmacNext

\* Memory, file and buffer hold entries that were made, the buffer no more than
\* its capacity, and record acknowledges none but those.
THEOREM SmacTypeCorrect == SmacSpec => []SmacTypeOK
<1>1. SmacInit => SmacWithin
  BY SmacAssumption DEF SmacInit, SmacWithin
<1>2. SmacIInv /\ SmacWithin => SmacTypeOK
  BY DEF SmacIInv, SmacTypes, SmacWithin, SmacTypeOK, Outs
<1> QED
  BY <1>1, <1>2, SmacWithinStep, SmacInvariant, PTL DEF SmacSpec

\* However many writes fail and how far each comes, as long as every entry found
\* room in the buffer, file and buffer make a chain that verifies, and the
\* memory of SmacLogger continues it.
THEOREM ChainSurvives == SmacSpec => []ChainSurvivesFailures
<1>1. SmacIInv => ChainSurvivesFailures
  BY DEF SmacIInv, SmacContinued, ChainSurvivesFailures, Joined
<1> QED
  BY <1>1, SmacInvariant, PTL

\* What was filed is a line of the log, when the log verifies.
LEMMA FiledHeld ==
    ASSUME NEW S, NEW pieces \in Seq(S), SmacVerifies(pieces), NEW h, FiledIn(SmacRead(pieces), h)
    PROVE  \E i \in DOMAIN Lines(pieces) : EntryOf(Lines(pieces)[i]).hash = h
<1> DEFINE a == SmacRead(pieces).ended
           b == Lines(pieces)
<1>1. b \in Seq(Seq(S)) /\ IsPrefix(a, b)
  BY LinesRead
<1>2. a \in Seq(Seq(S))
  <2>1. Len(pieces) \in 0 .. Len(pieces) /\ SubSeq(pieces, 1, Len(pieces)) = pieces
    OBVIOUS
  <2>2. SmacRead(pieces) \in ReadOf(S)
    BY <2>1, EndedStay
  <2> QED
    BY <2>2 DEF ReadOf
<1>3. PICK i \in DOMAIN a : Parses(a[i]) => EntryOf(a[i]).hash = h
  BY DEF FiledIn
<1>4. \A j \in DOMAIN b : Parses(b[j])
  BY VerifiesLinked DEF Linked
<1> HIDE DEF a, b
<1>5. i \in DOMAIN b /\ a[i] = b[i]
  <2>1. Len(a) <= Len(b) /\ SubSeq(a, 1, Len(a)) = SubSeq(b, 1, Len(a))
    BY <1>1 DEF IsPrefix
  <2>2. i \in 1 .. Len(a) /\ Len(a) \in Nat /\ Len(b) \in Nat /\ DOMAIN b = 1 .. Len(b)
    BY <1>1, <1>2, <1>3
  <2>3. SubSeq(a, 1, Len(a))[i] = a[i] /\ SubSeq(b, 1, Len(a))[i] = b[i]
    BY <1>1, <1>2, <2>1, <2>2
  <2> QED
    BY <2>1, <2>2, <2>3
<1> QED
  BY <1>3, <1>4, <1>5 DEF b

\* What a line of a log that verifies says.
LEMMA HeldIs ==
    ASSUME SmacIInv, SmacVerifies(smac.file),
           NEW i \in DOMAIN Lines(smac.file)
    PROVE  /\ Lines(smac.file) \in Seq(Seq(SmacThere))
           /\ EntryOf(Lines(smac.file)[i]) \in MadeOf(SmacThere)
           /\ EntryOf(Lines(smac.file)[i]) \in SmacEntry
           /\ EntryOK(EntryOf(Lines(smac.file)[i]))
           /\ Linked(Lines(smac.file), i)
<1>1. smac \in Outs(SmacThere) /\ SmacThere \subseteq Pieces
  BY ThereIsThere DEF SmacIInv, SmacTypes
<1>2. smac.file \in Seq(SmacThere)
  BY <1>1 DEF Outs
<1> DEFINE lines == Lines(smac.file)
<1>3. lines \in Seq(Seq(SmacThere)) /\ Linked(lines, i)
  BY <1>2, LinesRead, VerifiesLinked
<1> HIDE DEF lines
<1>4. lines[i] \in Seq(SmacThere) /\ Parses(lines[i])
  BY <1>3 DEF lines, Linked
<1>5. EntryOf(lines[i]) \in MadeOf(SmacThere)
  BY <1>4, LineSays
<1>6. EntryOf(lines[i]) \in SmacEntry /\ EntryOK(EntryOf(lines[i]))
  BY <1>1, <1>5, MadeAreEntries DEF SmacIInv, SmacOrdered
<1> QED
  BY <1>3, <1>5, <1>6 DEF lines

\* With an entry the one before it, when the same process made it.
LEMMA OneBefore ==
    ASSUME SmacIInv, SmacVerifies(smac.file),
           NEW i \in DOMAIN Lines(smac.file), NEW j \in DOMAIN Lines(smac.file),
           NEW e, e = EntryOf(Lines(smac.file)[i]),
           NEW f, f = EntryOf(Lines(smac.file)[j]),
           f.hash <= e.hash, e.start + 1 < f.hash
    PROVE  \E k \in DOMAIN Lines(smac.file) : EntryOf(Lines(smac.file)[k]).hash = f.hash - 1
<1> DEFINE lines == Lines(smac.file)
<1>1. /\ lines \in Seq(Seq(SmacThere)) /\ e \in MadeOf(SmacThere) /\ f \in MadeOf(SmacThere)
      /\ e \in SmacEntry /\ f \in SmacEntry /\ EntryOK(e) /\ EntryOK(f) /\ Linked(lines, j)
      /\ e = EntryOf(lines[i]) /\ f = EntryOf(lines[j]) /\ j \in DOMAIN lines
  BY HeldIs
<1> HIDE DEF lines
<1>2. e.start \in Nat /\ f.start \in Nat /\ e.hash \in Nat /\ f.hash \in Nat
  BY <1>1, SmacAssumption DEF SmacEntry
<1>3. f.prev = f.hash - 1
  <2>1. InOrder(f, e)
    BY <1>1 DEF SmacIInv, SmacOrdered
  <2>2. f.start <= e.start
    BY <2>1 DEF InOrder
  <2>3. f.start + 1 < f.hash
    BY <1>2, <2>2
  <2> QED
    BY <1>1, <2>3 DEF EntryOK
<1>4. f.prev # 0
  BY <1>2, <1>3
<1> DEFINE before == SubSeq(lines, 1, j - 1)
<1>5. f.prev = SmacLastOf(before)
  BY <1>1 DEF Linked
<1>6. before # <<>> /\ SmacLastOf(before) = EntryOf(before[Len(before)]).hash
  BY <1>4, <1>5 DEF SmacLastOf, SmacGenesis, Last
<1>7. j - 1 \in DOMAIN lines /\ before[Len(before)] = lines[j - 1]
  BY <1>1, <1>6
<1> QED
  BY <1>3, <1>5, <1>6, <1>7 DEF lines

\* A log that verifies has every entry that record returned Ok for, and with an
\* entry all that the same process made before it: an entry that went missing
\* breaks the chain at the next of its process, for record advances the hash
\* in memory before it writes.
THEOREM NothingLost == SmacSpec => []NoSilentLoss
<1>1. ASSUME SmacIInv, SmacVerifies(smac.file)
      PROVE  LET held == {EntryOf(l) : l \in ToSet(Lines(smac.file))}
                 hashes == {e.hash : e \in held}
             IN  /\ smacAcked \subseteq hashes
                 /\ \A e \in held : e.start + 1 .. e.hash \subseteq hashes
  <2> DEFINE lines == Lines(smac.file)
             held == {EntryOf(l) : l \in ToSet(lines)}
             hashes == {e.hash : e \in held}
  <2>1. smac.file \in Seq(Pieces)
    BY <1>1 DEF SmacIInv, SmacTypes, Outs
  <2>2. \A h : h \in hashes <=> \E i \in DOMAIN lines : EntryOf(lines[i]).hash = h
    <3>1. lines \in Seq(Seq(Pieces))
      BY <2>1, LinesRead
    <3> HIDE DEF lines
    <3>2. ToSet(lines) = {lines[i] : i \in DOMAIN lines}
      BY <3>1 DEF ToSet
    <3> QED
      BY <3>2
  <2>3. ASSUME NEW h \in smacAcked PROVE h \in hashes
    <3>1. FiledIn(SmacRead(smac.file), h)
      BY <1>1, <2>3 DEF SmacIInv, SmacFiled
    <3> QED
      BY <1>1, <2>1, <2>2, <3>1, FiledHeld
  <2>4. ASSUME NEW e \in held, NEW h \in e.start + 1 .. e.hash PROVE h \in hashes
    <3>1. PICK i \in DOMAIN lines : e = EntryOf(lines[i])
      <4>1. lines \in Seq(Seq(Pieces))
        BY <2>1, LinesRead
      <4> HIDE DEF lines
      <4>2. ToSet(lines) = {lines[k] : k \in DOMAIN lines}
        BY <4>1 DEF ToSet
      <4> QED
        BY <2>4, <4>2
    <3>2. e \in SmacEntry /\ EntryOK(e)
      BY <1>1, <3>1, HeldIs
    <3> DEFINE n == e.hash - (e.start + 1)
               P == {d \in 0 .. n : \E j \in DOMAIN lines : EntryOf(lines[j]).hash = e.hash - d}
    <3>3. e.start \in Nat /\ e.hash \in Nat /\ n \in Nat
      BY <3>2, SmacAssumption DEF SmacEntry, EntryOK
    <3>4. 0 \in P
      BY <3>1, <3>3
    <3>5. ASSUME NEW d \in 1 .. n, d - 1 \in P PROVE d \in P
      <4>1. PICK j \in DOMAIN lines : EntryOf(lines[j]).hash = e.hash - (d - 1)
        BY <3>5
      <4> DEFINE f == EntryOf(lines[j])
      <4>2. f.hash <= e.hash /\ e.start + 1 < f.hash
        BY <3>3, <4>1
      <4>3. \E k \in DOMAIN lines : EntryOf(lines[k]).hash = f.hash - 1
        BY <1>1, <3>1, <4>2, OneBefore
      <4>4. f.hash - 1 = e.hash - d /\ d \in 0 .. n
        BY <3>3, <4>1
      <4> QED
        BY <4>3, <4>4
    <3>6. \A d \in 0 .. n : d \in P
      <4> HIDE DEF n, P
      <4> QED
        BY <3>3, <3>4, <3>5, UpTo, Zenon
    <3>7. e.hash - h \in 0 .. n /\ h = e.hash - (e.hash - h)
      BY <2>4, <3>3
    <3> QED
      BY <2>2, <3>6, <3>7
  <2> QED
    BY <2>3, <2>4
<1>2. SmacIInv => NoSilentLoss
  BY <1>1 DEF NoSilentLoss
<1> QED
  BY <1>2, SmacInvariant, PTL

-----------------------------------------------------------------------------
(***************************************************************************)
(* Dispatch.  The inductive invariant: of each frame, at its stage, which  *)
(* requests may be done, those that do not await before all behind them,   *)
(* and what its reply is (FramesOK); on stdio nothing is begun before all  *)
(* earlier lines are done with (InTurns); the recording has an entry for   *)
(* what was taken up and what was answered (TraceOK), and the level is the *)
(* last that was set (LevelOK).  The last two follow the lines because of  *)
(* InTurns, and the requests because of FramesOK.                          *)
(***************************************************************************)
\* A sequence of all members of S, in order.
Enumerates(r, S) ==
    /\ r \in [1 .. Cardinality(S) -> S] /\ ToSet(r) = S
    /\ \A i, j \in DOMAIN r : i < j => r[i] < r[j]

\* There is one.
LEMMA Enumerated ==
    ASSUME NEW N \in Nat, NEW S \in SUBSET (1 .. N)
    PROVE  \E r : Enumerates(r, S)
<1> DEFINE P == {n \in 0 .. N : \A T \in SUBSET (1 .. n) : \E r : Enumerates(r, T)}
<1>1. 0 \in P
  <2>1. ASSUME NEW T \in SUBSET (1 .. 0) PROVE Enumerates(<<>>, T)
    <3>1. T = {}
      OBVIOUS
    <3>2. Cardinality(T) = 0
      BY <3>1, FS_EmptySet
    <3>3. ToSet(<<>>) = {} /\ <<>> \in [1 .. 0 -> {}] /\ DOMAIN <<>> = {}
      BY DEF ToSet
    <3> QED
      BY <3>1, <3>2, <3>3 DEF Enumerates
  <2> QED
    BY <2>1
<1>2. ASSUME NEW n \in 1 .. N, n - 1 \in P PROVE n \in P
  <2> SUFFICES ASSUME NEW T \in SUBSET (1 .. n) PROVE \E r : Enumerates(r, T)
    OBVIOUS
  <2>1. CASE n \notin T
    <3>1. T \in SUBSET (1 .. n - 1)
      BY <2>1
    <3> QED
      BY <1>2, <3>1
  <2>2. CASE n \in T
    <3> DEFINE U == T \ {n}
               k == Cardinality(U)
    <3>1. U \in SUBSET (1 .. n - 1)
      OBVIOUS
    <3>2. PICK r : Enumerates(r, U)
      BY <1>2, <3>1
    <3>3. k \in Nat /\ Cardinality(T) = k + 1
      <4>1. IsFiniteSet(1 .. n)
        BY FS_Interval
      <4>2. IsFiniteSet(T)
        BY <4>1, FS_Subset
      <4>3. IsFiniteSet(U) /\ Cardinality(U) = Cardinality(T) - 1
        BY <2>2, <4>2, FS_RemoveElement
      <4>4. Cardinality(T) \in Nat /\ Cardinality(U) \in Nat
        BY <4>2, <4>3, FS_CardinalityType
      <4> HIDE DEF U
      <4> QED
        BY <4>3, <4>4
    <3> HIDE DEF U, k
    <3> DEFINE q == [i \in 1 .. k + 1 |-> IF i = k + 1 THEN n ELSE r[i]]
    <3>4. r \in [1 .. k -> U] /\ (\A u \in U : \E i \in 1 .. k : r[i] = u)
          /\ (\A i, j \in 1 .. k : i < j => r[i] < r[j])
      BY <3>2 DEF Enumerates, k, ToSet
    <3>5. T = U \cup {n} /\ \A u \in U : u < n
      BY <2>2, <3>1 DEF U
    <3>6. q \in [1 .. k + 1 -> T]
      BY <3>3, <3>4, <3>5
    <3>7. \A i \in 1 .. k + 1 : i # k + 1 => i \in 1 .. k
      BY <3>3
    <3>8. ToSet(q) = T
      <4>1. \A t \in T : \E i \in 1 .. k + 1 : q[i] = t
        <5> SUFFICES ASSUME NEW t \in T PROVE \E i \in 1 .. k + 1 : q[i] = t
          OBVIOUS
        <5>1. CASE t = n
          <6>1. k + 1 \in 1 .. k + 1 /\ q[k + 1] = n
            BY <3>3
          <6> QED
            BY <5>1, <6>1
        <5>2. CASE t \in U
          <6>1. PICK i \in 1 .. k : r[i] = t
            BY <3>4, <5>2
          <6>2. i \in 1 .. k + 1 /\ i # k + 1
            BY <3>3
          <6> QED
            BY <6>1, <6>2
        <5> QED
          BY <3>5, <5>1, <5>2
      <4> HIDE DEF q
      <4>2. DOMAIN q = 1 .. k + 1 /\ \A i \in 1 .. k + 1 : q[i] \in T
        BY <3>6
      <4> QED
        BY <4>1, <4>2, Zenon DEF ToSet
    <3>9. ASSUME NEW i \in 1 .. k + 1, NEW j \in 1 .. k + 1, i < j PROVE q[i] < q[j]
      <4>1. i \in 1 .. k /\ q[i] = r[i] /\ r[i] \in U
        BY <3>3, <3>4, <3>9
      <4>2. CASE j = k + 1
        BY <3>5, <4>1, <4>2
      <4>3. CASE j # k + 1
        <5>1. j \in 1 .. k /\ q[j] = r[j]
          BY <3>7, <4>3
        <5> QED
          BY <3>4, <3>9, <4>1, <5>1
      <4> QED
        BY <4>2, <4>3
    <3> HIDE DEF q
    <3>10. Enumerates(q, T)
      <4>1. DOMAIN q = 1 .. k + 1
        BY <3>6
      <4> QED
        BY <3>3, <3>6, <3>8, <3>9, <4>1 DEF Enumerates
    <3> QED
      BY <3>10
  <2> QED
    BY <2>1, <2>2
<1>3. \A n \in 0 .. N : n \in P
  <2> HIDE DEF P
  <2> QED
    BY <1>1, <1>2, UpTo, Zenon
<1> QED
  BY <1>3

\* And Sorted chooses it.
LEMMA SortedIs ==
    ASSUME NEW N \in Nat, NEW S \in SUBSET (1 .. N)
    PROVE  /\ Sorted(S) \in Seq(S) /\ ToSet(Sorted(S)) = S
           /\ \A i, j \in DOMAIN Sorted(S) : i < j => Sorted(S)[i] < Sorted(S)[j]
<1>1. Enumerates(Sorted(S), S)
  <2>1. PICK r : Enumerates(r, S)
    BY Enumerated
  <2> QED
    BY <2>1 DEF Enumerates, Sorted
<1>2. Cardinality(S) \in Nat
  <2>1. IsFiniteSet(1 .. N)
    BY FS_Interval
  <2>2. IsFiniteSet(S)
    BY <2>1, FS_Subset
  <2> QED
    BY <2>2, FS_CardinalityType
<1>3. Sorted(S) \in Seq(S)
  BY <1>1, <1>2 DEF Enumerates
<1> QED
  BY <1>1, <1>3 DEF Enumerates

FrameType == [msg : Messages, stage : Stages, done : Seq(Nat), reply : Seq(Nat)]

\* r is frame q at stage s, with d done and reply y.
FrameAt(r, q, s, d, y) ==
    r \in FrameType /\ r.msg = q.msg /\ r.stage = s /\ r.done = d /\ r.reply = y

\* A step of frame f takes it there, and leaves the others as they are.
OnlyFrame(f, s, d, y) ==
    /\ frames' \in Seq(FrameType)
    /\ DOMAIN frames' = DOMAIN frames
    /\ \A g \in DOMAIN frames : g # f => frames'[g] = frames[g]
    /\ FrameAt(frames'[f], frames[f], s, d, y)

\* The steps of a frame, in these terms.
LEMMA ReplacedOnly ==
    ASSUME frames \in Seq(FrameType), NEW f \in DOMAIN frames,
           NEW r, NEW s, NEW d, NEW y, FrameAt(r, frames[f], s, d, y),
           frames' = [frames EXCEPT ![f] = r]
    PROVE  OnlyFrame(f, s, d, y)
<1>1. r \in FrameType
  BY DEF FrameAt
<1>2. frames' \in Seq(FrameType) /\ DOMAIN frames' = DOMAIN frames /\ frames'[f] = r
      /\ \A g \in DOMAIN frames : g # f => frames'[g] = frames[g]
  BY <1>1
<1> QED
  BY <1>2 DEF OnlyFrame

LEMMA MovedOnly ==
    ASSUME frames \in Seq(FrameType), NEW f \in DOMAIN frames, NEW s \in Stages, Moved(f, s)
    PROVE  OnlyFrame(f, s, frames[f].done, frames[f].reply)
<1> DEFINE q == frames[f]
           r == [q EXCEPT !.stage = s]
<1>1. q \in FrameType /\ frames' = [frames EXCEPT ![f] = r]
  BY DEF Moved
<1> HIDE DEF q
<1>2. FrameAt(r, q, s, q.done, q.reply)
  BY <1>1 DEF FrameType, FrameAt
<1> HIDE DEF r
<1> QED
  BY <1>1, <1>2, ReplacedOnly DEF q

LEMMA FinishedOnly ==
    ASSUME frames \in Seq(FrameType), NEW f \in DOMAIN frames, NEW i \in Nat, Finish(f, i)
    PROVE  OnlyFrame(f, frames[f].stage, Append(frames[f].done, i), frames[f].reply)
<1> DEFINE q == frames[f]
           r == [q EXCEPT !.done = Append(q.done, i)]
<1>1. q \in FrameType /\ frames' = [frames EXCEPT ![f] = r]
  BY DEF Finish
<1> HIDE DEF q
<1>2. Append(q.done, i) \in Seq(Nat)
  BY <1>1 DEF FrameType
<1>3. FrameAt(r, q, q.stage, Append(q.done, i), q.reply)
  BY <1>1, <1>2 DEF FrameType, FrameAt
<1> HIDE DEF r
<1> QED
  BY <1>1, <1>3, ReplacedOnly DEF q

LEMMA EndedOnly ==
    ASSUME frames \in Seq(FrameType), NEW f \in DOMAIN frames, End(f), Reply(f) \in Seq(Nat)
    PROVE  OnlyFrame(f, IF Reply(f) = <<>> THEN "silent" ELSE "replying",
                     frames[f].done, Reply(f))
<1> DEFINE q == frames[f]
           y == Reply(f)
           s == IF y = <<>> THEN "silent" ELSE "replying"
           r == [q EXCEPT !.reply = y, !.stage = s]
<1>1. q \in FrameType /\ frames' = [frames EXCEPT ![f] = r]
  BY DEF End
<1>2. y \in Seq(Nat) /\ s \in Stages
  BY DEF Stages
<1> HIDE DEF q, y, s
<1>3. FrameAt(r, q, s, q.done, y)
  BY <1>1, <1>2 DEF FrameType, FrameAt
<1> HIDE DEF r
<1> QED
  BY <1>1, <1>3, ReplacedOnly DEF q, y, s

\* The requests of a message that are owed an answer.
OwedOf(m) == {i \in DOMAIN m.items : Outcome(m.items[i]) # "none"}

\* In the order of the requests.
Increasing(r) == \A i, j \in DOMAIN r : i < j => r[i] < r[j]

\* What is true of a frame at its stage.  Requests that do not await are done
\* before those behind them.
FrameOK(q) ==
    /\ q \in FrameType
    /\ q.done \in Seq(DOMAIN q.msg.items) /\ q.reply \in Seq(0 .. MaxBatch)
    /\ ~Accepted(q.msg) \/ q.stage \in {"queued", "skipped"} => q.done = <<>>
    /\ q.reply # <<>> => q.stage \in {"replying", "answered", "lost", "cut"}
    /\ q.stage \in {"replying", "answered", "lost"} =>
          /\ q.reply # <<>>
          /\ IF Accepted(q.msg)
             THEN ToSet(q.reply) = OwedOf(q.msg) /\ Increasing(q.reply)
             ELSE q.reply = <<0>>
    /\ q.stage = "silent" /\ Accepted(q.msg) => OwedOf(q.msg) = {}
    /\ \A j \in ToSet(q.done) : \A i \in 1 .. j - 1 :
          Awaits(q.msg.items[i]) \/ i \in ToSet(q.done)

\* Every frame is right at its stage.
FramesOK == frames \in Seq(FrameType) /\ \A f \in DOMAIN frames : FrameOK(frames[f])

\* run_stdio has done with all lines before the one it is at.
InTurns ==
    transport = "stdio" =>
        \A f, g \in DOMAIN frames : f < g /\ Stage(f) \notin Over => Stage(g) = "queued"

\* The recording t, of a server on the transport.
InSession(t) ==
    /\ IsInjective(t)
    /\ \A n, k \in DOMAIN t :
        n < k => IF t[n].frame = t[k].frame THEN t[n].dir = "in"
                 ELSE transport = "stdio" => t[n].frame < t[k].frame

\* The recording has what it should, in order.
TraceOK ==
    trace \in Seq([dir : {"in", "out"}, frame : Nat]) /\ ToSet(trace) = Recorded /\ InSession(trace)

\* The level is as the last request that set it left it.
LevelOK ==
    transport = "stdio" =>
        \/ LevelSet = {} /\ level = "info"
        \/ \E p \in LevelSet :
            /\ level = LevelAfter(Items(p[1])[p[2]], level)
            /\ \A q \in LevelSet : q[1] < p[1] \/ (q[1] = p[1] /\ q[2] <= p[2])

\* The inductive invariant.
DispatchIInv ==
    /\ transport \in Transports /\ reading \in BOOLEAN /\ level \in Levels
    /\ FramesOK /\ InTurns /\ TraceOK /\ LevelOK

\* The parts of a message.
LEMMA MessageIs ==
    ASSUME NEW m \in Messages
    PROVE  /\ m.items \in Seq(RequestType)
           /\ DOMAIN m.items \subseteq Nat \ {0}
           /\ DOMAIN m.items = 1 .. Len(m.items) /\ Len(m.items) \in Nat
           /\ Accepted(m) => DOMAIN m.items \subseteq 1 .. MaxBatch
<1>1. m.items \in Seq(RequestType)
  BY DispatchAssumption
<1> DEFINE t == m.items
<1>2. t \in Seq(RequestType)
  BY <1>1
<1> HIDE DEF t
<1>3. DOMAIN t = 1 .. Len(t) /\ Len(t) \in Nat
  BY <1>2
<1>4. MaxBatch \in Nat
  BY DispatchAssumption
<1>5. Accepted(m) => Len(t) <= MaxBatch
  BY <1>3, <1>4 DEF Accepted, t
<1> QED
  BY <1>2, <1>3, <1>4, <1>5 DEF t

\* A sequence of members of S.
LEMMA SeqWithin ==
    ASSUME NEW S, NEW T, S \subseteq T, NEW r \in Seq(S)
    PROVE  r \in Seq(T)
OBVIOUS

\* The reply of an accepted frame.
LEMMA ReplyIs ==
    ASSUME NEW f \in DOMAIN frames, FrameOK(frames[f])
    PROVE  /\ Reply(f) \in Seq(0 .. MaxBatch)
           /\ Accepted(frames[f].msg) =>
                /\ ToSet(Reply(f)) = {i \in Done(f) : Owed(f, i)}
                /\ Increasing(Reply(f))
           /\ ~Accepted(frames[f].msg) => Reply(f) = <<0>>
<1> DEFINE m == frames[f].msg
           S == {i \in Done(f) : Owed(f, i)}
<1>1. m \in Messages /\ Done(f) \subseteq DOMAIN m.items
  <2> DEFINE d == frames[f].done
             D == DOMAIN m.items
  <2>1. d \in Seq(D) /\ m \in Messages
    BY DEF FrameOK, FrameType
  <2>2. \A E : d \in Seq(E) => ToSet(d) \subseteq E
    BY DEF ToSet
  <2> QED
    BY <2>1, <2>2 DEF Done
<1>2. MaxBatch \in Nat
  BY DispatchAssumption
<1>3. CASE Accepted(m)
  <2>1. S \in SUBSET (1 .. MaxBatch)
    BY <1>1, <1>3, MessageIs
  <2>2. Reply(f) = Sorted(S)
    BY <1>3 DEF Reply
  <2> HIDE DEF S
  <2>3. Sorted(S) \in Seq(S) /\ ToSet(Sorted(S)) = S /\ Increasing(Sorted(S))
    BY <1>2, <2>1, SortedIs DEF Increasing
  <2>4. S \subseteq 0 .. MaxBatch
    BY <1>2, <2>1
  <2>5. Sorted(S) \in Seq(0 .. MaxBatch)
    BY <2>3, <2>4, SeqWithin, Zenon
  <2> QED
    BY <1>3, <2>2, <2>3, <2>5 DEF S
<1>4. CASE ~Accepted(m)
  <2>1. Reply(f) = <<0>> /\ 0 \in 0 .. MaxBatch
    BY <1>2, <1>4 DEF Reply
  <2> QED
    BY <1>4, <2>1
<1> QED
  BY <1>3, <1>4

\* A frame that only moves on keeps what is true of it, where its new stage
\* says no more than the old one.
LEMMA MovedOK ==
    ASSUME NEW q, FrameOK(q), NEW r, NEW s, FrameAt(r, q, s, q.done, q.reply),
           \/ q.stage = "queued" /\ s \in {"running", "skipped", "unread"}
           \/ q.stage = "queued" /\ s = "silent" /\ ~Accepted(q.msg)
           \/ q.stage = "replying" /\ s \in {"answered", "lost"}
           \/ q.stage \in {"running", "replying"} /\ s = "cut"
    PROVE  FrameOK(r)
BY DEF FrameOK, FrameAt

\* Only the frame that moves needs a look.
LEMMA FramesKept ==
    ASSUME FramesOK, NEW f \in DOMAIN frames, NEW s, NEW d, NEW y, OnlyFrame(f, s, d, y),
           FrameOK(frames'[f])
    PROVE  FramesOK'
<1>1. ASSUME NEW g \in DOMAIN frames' PROVE FrameOK(frames'[g])
  BY <1>1 DEF OnlyFrame, FramesOK
<1>2. ASSUME NEW g \in DOMAIN frames' PROVE FrameOK(frames[g])'
  BY <1>1, <1>2 DEF FrameOK
<1> QED
  BY <1>2 DEF FramesOK, OnlyFrame

\* On stdio a line that is begun has none before it that is not done with.
LEMMA TurnOf ==
    ASSUME FramesOK, InTurns, NEW f \in DOMAIN frames, Stage(f) # "queued" \/ MayBegin(f)
    PROVE  transport = "stdio" => \A g \in 1 .. f - 1 : Stage(g) \in Over
<1> SUFFICES ASSUME transport = "stdio", NEW g \in 1 .. f - 1 PROVE Stage(g) \in Over
  OBVIOUS
<1>1. g \in DOMAIN frames /\ g < f
  BY DEF FramesOK
<1>2. CASE MayBegin(f)
  BY <1>2 DEF MayBegin
<1>3. CASE Stage(f) # "queued"
  BY <1>1, <1>3 DEF InTurns
<1> QED
  BY <1>2, <1>3

\* The turns, when a frame moves on.
LEMMA TurnsKept ==
    ASSUME FramesOK, InTurns, NEW f \in DOMAIN frames, NEW s, NEW d, NEW y, OnlyFrame(f, s, d, y),
           Stage(f) # "queued" \/ MayBegin(f), Stage(f) \notin Over, transport' = transport
    PROVE  InTurns'
<1> SUFFICES ASSUME transport = "stdio", NEW g \in DOMAIN frames, NEW h \in DOMAIN frames,
                    g < h, Stage(g)' \notin Over
             PROVE  Stage(h)' = "queued"
  BY DEF InTurns, OnlyFrame, Over
<1>1. f \in Nat /\ g \in Nat /\ h \in Nat /\ \A n \in 1 .. f - 1 : Stage(n) \in Over
  BY TurnOf DEF FramesOK
<1>2. CASE h = f
  <2>1. g \in 1 .. f - 1 /\ g # f
    BY <1>1, <1>2 DEF FramesOK
  <2>2. Stage(g)' = Stage(g)
    BY <2>1 DEF OnlyFrame, Stage
  <2> QED
    BY <1>1, <2>1, <2>2
<1>3. CASE h # f
  <2>1. Stage(h)' = Stage(h)
    BY <1>3 DEF OnlyFrame, Stage
  <2>2. g = f \/ Stage(g)' = Stage(g)
    BY DEF OnlyFrame, Stage
  <2>3. Stage(g) \notin Over
    BY <2>2
  <2> QED
    BY <2>1, <2>3 DEF InTurns
<1> QED
  BY <1>2, <1>3

\* The trace.
ParsedOf(q) == q.stage \notin {"queued", "skipped", "unread"} /\ IsJson(q.msg)

\* What is recorded of a frame depends on the frame only.
LEMMA RecordedIs ==
    Recorded = {[dir |-> "in", frame |-> f] : f \in {g \in DOMAIN frames : ParsedOf(frames[g])}}
       \cup {[dir |-> "out", frame |-> f] : f \in {g \in DOMAIN frames : frames[g].reply # <<>>}}
BY DEF Recorded, ParsedOf, Stage

\* What is recorded after a step of f.
LEMMA RecordedNow ==
    ASSUME NEW f \in DOMAIN frames, NEW s, NEW d, NEW y, OnlyFrame(f, s, d, y),
           NEW q, q = frames[f], NEW r, r = frames'[f]
    PROVE  /\ (ParsedOf(r) <=> ParsedOf(q)) /\ (r.reply = <<>> <=> q.reply = <<>>)
                 => Recorded' = Recorded
           /\ ParsedOf(r) /\ ~ParsedOf(q) /\ r.reply = q.reply
                 => Recorded' = Recorded \cup {[dir |-> "in", frame |-> f]}
           /\ (ParsedOf(r) <=> ParsedOf(q)) /\ r.reply # <<>> /\ q.reply = <<>>
                 => Recorded' = Recorded \cup {[dir |-> "out", frame |-> f]}
<1> DEFINE In == {g \in DOMAIN frames : ParsedOf(frames[g])}
           Out == {g \in DOMAIN frames : frames[g].reply # <<>>}
<1>1. DOMAIN frames' = DOMAIN frames /\ \A g \in DOMAIN frames : g # f => frames'[g] = frames[g]
  BY DEF OnlyFrame
<1>2. ParsedOf(r) <=> ParsedOf(frames[f])'
  BY DEF ParsedOf
<1>3. Recorded = {[dir |-> "in", frame |-> g] : g \in In} \cup {[dir |-> "out", frame |-> g] : g \in Out}
  BY RecordedIs
<1>4. Recorded' = {[dir |-> "in", frame |-> g] : g \in {h \in DOMAIN frames : ParsedOf(frames'[h])}}
         \cup {[dir |-> "out", frame |-> g] : g \in {h \in DOMAIN frames : frames'[h].reply # <<>>}}
  BY <1>1 DEF Recorded, ParsedOf, Stage
<1> HIDE DEF In, Out
<1>5. (ParsedOf(r) <=> ParsedOf(q)) => {h \in DOMAIN frames : ParsedOf(frames'[h])} = In
  BY <1>1 DEF In
<1>6. (r.reply = <<>> <=> q.reply = <<>>) => {h \in DOMAIN frames : frames'[h].reply # <<>>} = Out
  BY <1>1 DEF Out
<1>7. ParsedOf(r) /\ ~ParsedOf(q) => {h \in DOMAIN frames : ParsedOf(frames'[h])} = In \cup {f}
  BY <1>1 DEF In
<1>8. r.reply # <<>> /\ q.reply = <<>> => {h \in DOMAIN frames : frames'[h].reply # <<>>} = Out \cup {f}
  BY <1>1 DEF Out
<1> QED
  BY <1>3, <1>4, <1>5, <1>6, <1>7, <1>8

\* Nothing was recorded, or one entry.
LEMMA TraceSame ==
    ASSUME TraceOK, UNCHANGED <<trace, transport>>, Recorded' = Recorded
    PROVE  TraceOK'
BY DEF TraceOK, InSession

LEMMA TraceMore ==
    ASSUME TraceOK, NEW f \in Nat, NEW dir \in {"in", "out"},
           Record(dir, f), UNCHANGED transport,
           Recorded' = Recorded \cup {[dir |-> dir, frame |-> f]},
           [dir |-> dir, frame |-> f] \notin Recorded,
           \A e \in Recorded : IF e.frame = f THEN e.dir = "in"
                               ELSE transport = "stdio" => e.frame < f
    PROVE  TraceOK'
<1> DEFINE x == [dir |-> dir, frame |-> f]
           T == [dir : {"in", "out"}, frame : Nat]
           t == trace
           N == Len(t)
<1>1. x \in T /\ x.frame = f /\ trace' = Append(trace, x) /\ x \notin Recorded
      /\ Recorded' = Recorded \cup {x}
  BY DEF Record
<1> HIDE DEF x
<1>2. trace \in Seq(T) /\ ToSet(trace) = Recorded /\ InSession(trace)
  BY DEF TraceOK
<1> HIDE DEF T
<1>3. /\ N \in Nat /\ DOMAIN trace = 1 .. N /\ trace' \in Seq(T) /\ DOMAIN trace' = 1 .. N + 1
      /\ \A n \in 1 .. N : trace'[n] = trace[n]
      /\ trace'[N + 1] = x
  BY <1>1, <1>2
<1>4. \A n \in 1 .. N : trace[n] \in Recorded
  BY <1>2, <1>3 DEF ToSet
<1> HIDE DEF N
<1>5. \A n \in 1 .. N + 1 : n \in 1 .. N \/ n = N + 1
  BY <1>3
<1>6. ToSet(trace') = Recorded'
  <2>1. ToSet(trace') = {trace'[n] : n \in 1 .. N + 1}
    BY <1>3 DEF ToSet
  <2>2. Recorded = {trace[n] : n \in 1 .. N}
    BY <1>2, <1>3 DEF ToSet
  <2>3. \A n \in 1 .. N : n \in 1 .. N + 1
    BY <1>3
  <2>4. N + 1 \in 1 .. N + 1
    BY <1>3
  <2> QED
    BY <1>1, <1>3, <1>5, <2>1, <2>2, <2>3, <2>4
<1>7. IsInjective(trace')
  BY <1>1, <1>2, <1>3, <1>4, <1>5 DEF InSession, IsInjective
<1>8. ASSUME NEW n \in 1 .. N + 1, NEW k \in 1 .. N + 1, n < k
      PROVE  IF trace'[n].frame = trace'[k].frame THEN trace'[n].dir = "in"
             ELSE transport = "stdio" => trace'[n].frame < trace'[k].frame
  <2>1. n \in 1 .. N
    BY <1>3, <1>8
  <2>2. CASE k \in 1 .. N
    BY <1>2, <1>3, <1>8, <2>1, <2>2 DEF InSession
  <2>3. CASE k = N + 1
    <3>1. trace'[n] \in Recorded /\ trace'[k].frame = f
      BY <1>1, <1>3, <1>4, <2>1, <2>3
    <3> QED
      BY <3>1
  <2> QED
    BY <1>5, <2>2, <2>3
<1> QED
  BY <1>3, <1>6, <1>7, <1>8 DEF TraceOK, InSession, T

\* What is recorded when f is at its turn.
LEMMA RecordedBefore ==
    ASSUME FramesOK, InTurns, NEW f \in DOMAIN frames, Stage(f) \notin Over,
           NEW e \in Recorded
    PROVE  e.frame = f \/ (transport = "stdio" => e.frame < f)
<1>1. PICK g \in DOMAIN frames : e.frame = g /\ (ParsedOf(frames[g]) \/ frames[g].reply # <<>>)
  BY RecordedIs
<1>2. Stage(g) # "queued"
  BY <1>1 DEF FramesOK, FrameOK, ParsedOf, Stage
<1>3. f \in Nat /\ g \in Nat
  BY DEF FramesOK
<1>4. transport = "stdio" => ~(f < g)
  BY <1>2 DEF InTurns
<1> QED
  BY <1>1, <1>3, <1>4

\* The level.
LEMMA LevelKept ==
    ASSUME FramesOK, LevelOK, NEW f \in DOMAIN frames, NEW s, NEW y,
           OnlyFrame(f, s, frames[f].done, y), UNCHANGED <<level, transport>>
    PROVE  LevelOK'
<1>1. DOMAIN frames' = DOMAIN frames
      /\ \A g \in DOMAIN frames : frames'[g].msg = frames[g].msg /\ frames'[g].done = frames[g].done
  BY DEF OnlyFrame, FrameAt
<1>2. \A g \in DOMAIN frames : Items(g)' = Items(g) /\ Done(g)' = Done(g)
  BY <1>1 DEF Items, Done
<1>3. LevelSet' = LevelSet
  BY <1>1, <1>2 DEF LevelSet
<1>4. \A p \in LevelSet : p[1] \in DOMAIN frames
  BY DEF LevelSet
<1> QED
  BY <1>2, <1>3, <1>4 DEF LevelOK

\* Nothing came yet.
LEMMA DispatchInitially == Init => DispatchIInv
<1> SUFFICES ASSUME Init PROVE DispatchIInv
  OBVIOUS
<1>1. frames = <<>> /\ trace = <<>> /\ level = "info" /\ reading = TRUE /\ transport \in Transports
  BY DEF Init
<1>2. Recorded = {} /\ LevelSet = {}
  BY <1>1 DEF Recorded, LevelSet
<1>3. FramesOK /\ InTurns
  BY <1>1 DEF FramesOK, InTurns
<1>4. TraceOK
  <2>1. ToSet(trace) = {} /\ IsInjective(trace)
    BY <1>1 DEF ToSet, IsInjective
  <2> QED
    BY <1>1, <1>2, <2>1 DEF TraceOK, InSession
<1>5. LevelOK
  BY <1>1, <1>2 DEF LevelOK
<1> QED
  BY <1>1, <1>3, <1>4, <1>5 DEF DispatchIInv, Levels

\* A new frame is at the end, and nothing has been done to it.
LEMMA SendKeeps ==
    ASSUME DispatchIInv, NEW m \in Messages, Send(m)
    PROVE  DispatchIInv'
<1> DEFINE q == Frame(m)
<1>1. /\ FramesOK /\ InTurns /\ TraceOK /\ LevelOK /\ frames' = Append(frames, q)
      /\ transport \in Transports /\ reading \in BOOLEAN /\ level \in Levels
      /\ transport' = transport /\ reading' = reading /\ level' = level /\ trace' = trace
  BY DEF DispatchIInv, Send
<1>2. frames \in Seq(FrameType) /\ \A f \in DOMAIN frames : FrameOK(frames[f])
  BY <1>1 DEF FramesOK
<1>3. q.msg = m /\ q.stage = "queued" /\ q.done = <<>> /\ q.reply = <<>> /\ q \in FrameType
  BY DEF Frame, FrameType, Stages
<1>4. FrameOK(q)
  <2>1. ToSet(q.done) = {}
    BY <1>3 DEF ToSet
  <2> QED
    BY <1>3, <2>1 DEF FrameOK
<1> HIDE DEF q
<1> PICK n \in Nat : n = Len(frames)
  BY <1>2
<1>5. /\ n \in Nat /\ DOMAIN frames = 1 .. n /\ frames' \in Seq(FrameType)
      /\ DOMAIN frames' = 1 .. n + 1 /\ (\A f \in 1 .. n : frames'[f] = frames[f])
      /\ frames'[n + 1] = q
  BY <1>1, <1>2, <1>3
<1>6. \A f \in 1 .. n + 1 : f \in 1 .. n \/ f = n + 1
  BY <1>5
<1>7. FramesOK'
  <2>1. ASSUME NEW f \in DOMAIN frames' PROVE FrameOK(frames[f])'
    <3>1. FrameOK(frames'[f])
      BY <1>2, <1>4, <1>5, <1>6
    <3> QED
      BY <3>1 DEF FrameOK
  <2> QED
    BY <1>5, <2>1 DEF FramesOK
<1>8. InTurns'
  <2> SUFFICES ASSUME transport = "stdio", NEW f \in 1 .. n + 1, NEW g \in 1 .. n + 1, f < g,
                      frames'[f].stage \notin Over
               PROVE  frames'[g].stage = "queued"
    BY <1>1, <1>5 DEF InTurns, Stage, Over
  <2>1. CASE g = n + 1
    BY <1>3, <1>5, <2>1
  <2>2. CASE g # n + 1
    <3>1. f \in 1 .. n /\ g \in 1 .. n
      BY <1>5, <2>2
    <3> QED
      BY <1>1, <1>5, <3>1 DEF InTurns, Stage
  <2> QED
    BY <2>1, <2>2
<1>9. TraceOK'
  <2>1. {g \in DOMAIN frames' : frames'[g].stage \notin {"queued", "skipped", "unread"} /\ IsJson(frames'[g].msg)}
        = {g \in DOMAIN frames : frames[g].stage \notin {"queued", "skipped", "unread"} /\ IsJson(frames[g].msg)}
    BY <1>3, <1>5, <1>6
  <2>2. {g \in DOMAIN frames' : frames'[g].reply # <<>>} = {g \in DOMAIN frames : frames[g].reply # <<>>}
    BY <1>3, <1>5, <1>6
  <2>3. Recorded' = Recorded
    BY <2>1, <2>2 DEF Recorded, Stage
  <2> QED
    BY <1>1, <2>3, TraceSame
<1>10. LevelOK'
  <2>1. \A g \in 1 .. n : Items(g)' = Items(g) /\ Done(g)' = Done(g)
    BY <1>5 DEF Items, Done
  <2>2. Done(n + 1)' = {}
    <3>1. Done(n + 1)' = ToSet(<<>>)
      BY <1>3, <1>5 DEF Done
    <3> QED
      BY <3>1 DEF ToSet
  <2>3. LevelSet' = LevelSet
    <3>1. LevelSet' = {p \in (1 .. n + 1) \X (1 .. MaxBatch) :
                          p[2] \in Done(p[1])' /\ SetsLevel(Items(p[1])'[p[2]])}
      BY <1>5 DEF LevelSet
    <3>2. LevelSet = {p \in (1 .. n) \X (1 .. MaxBatch) :
                          p[2] \in Done(p[1]) /\ SetsLevel(Items(p[1])[p[2]])}
      BY <1>5 DEF LevelSet
    <3>3. \A k \in 1 .. n : k \in 1 .. n + 1
      OBVIOUS
    <3> QED
      BY <1>6, <2>1, <2>2, <3>1, <3>2, <3>3
  <2>4. \A p \in LevelSet : p[1] \in 1 .. n
    BY <1>5 DEF LevelSet
  <2> QED
    BY <1>1, <2>1, <2>3, <2>4 DEF LevelOK
<1> QED
  BY <1>1, <1>7, <1>8, <1>9, <1>10 DEF DispatchIInv

\* A frame moves on, and the trace and the level stay as they are.
LEMMA MovingKeeps ==
    ASSUME DispatchIInv, NEW f \in DOMAIN frames, NEW s \in Stages, Moved(f, s),
           \/ Stage(f) = "queued" /\ MayBegin(f) /\ s \in {"skipped", "unread"}
           \/ Stage(f) = "queued" /\ MayBegin(f) /\ s = "silent" /\ ~IsJson(frames[f].msg)
           \/ Stage(f) = "queued" /\ MayBegin(f) /\ s = "running" /\ ~IsJson(frames[f].msg)
           \/ Stage(f) = "replying" /\ s \in {"answered", "lost"}
           \/ Stage(f) \in {"running", "replying"} /\ s = "cut",
           UNCHANGED <<transport, level, trace>>, reading' \in BOOLEAN
    PROVE  DispatchIInv'
<1> DEFINE q == frames[f]
           r == frames'[f]
<1>1. /\ FramesOK /\ InTurns /\ TraceOK /\ LevelOK /\ frames \in Seq(FrameType)
      /\ transport \in Transports /\ level \in Levels /\ FrameOK(q) /\ Stage(f) = q.stage
  BY DEF DispatchIInv, FramesOK, Stage
<1>2. OnlyFrame(f, s, q.done, q.reply)
  BY <1>1, MovedOnly
<1>3. FrameAt(r, q, s, q.done, q.reply)
  BY <1>2 DEF OnlyFrame
<1>4. FrameOK(r)
  <2>1. Accepted(q.msg) => IsJson(q.msg)
    BY DEF Accepted
  <2>2. \/ q.stage = "queued" /\ s \in {"running", "skipped", "unread"}
        \/ q.stage = "queued" /\ s = "silent" /\ ~Accepted(q.msg)
        \/ q.stage = "replying" /\ s \in {"answered", "lost"}
        \/ q.stage \in {"running", "replying"} /\ s = "cut"
    BY <1>1, <2>1
  <2> HIDE DEF q, r
  <2> QED
    BY <1>1, <1>3, <2>2, MovedOK
<1>5. FramesOK'
  BY <1>1, <1>2, <1>4, FramesKept
<1>6. InTurns'
  <2>1. Stage(f) \notin Over /\ (Stage(f) # "queued" \/ MayBegin(f))
    BY DEF Over
  <2> QED
    BY <1>1, <1>2, <2>1, TurnsKept
<1>7. TraceOK'
  <2>1. (ParsedOf(r) <=> ParsedOf(q)) /\ r.reply = q.reply
    BY <1>1, <1>3 DEF ParsedOf, FrameAt
  <2>2. Recorded' = Recorded
    BY <1>2, <2>1, RecordedNow
  <2> QED
    BY <1>1, <2>2, TraceSame
<1>8. LevelOK'
  BY <1>1, <1>2, LevelKept
<1> QED
  BY <1>1, <1>5, <1>6, <1>7, <1>8 DEF DispatchIInv

\* A frame is taken up, and what came recorded.
LEMMA BeginKeeps ==
    ASSUME DispatchIInv, NEW f \in DOMAIN frames, Begin(f)
    PROVE  DispatchIInv'
<1> DEFINE q == frames[f]
           r == frames'[f]
           e == [dir |-> "in", frame |-> f]
<1>1. /\ FramesOK /\ InTurns /\ TraceOK /\ LevelOK /\ frames \in Seq(FrameType)
      /\ transport \in Transports /\ level \in Levels /\ reading \in BOOLEAN
      /\ FrameOK(q) /\ Stage(f) = q.stage /\ f \in Nat
  BY DEF DispatchIInv, FramesOK, Stage
<1>2. /\ MayBegin(f) /\ Stage(f) = "queued" /\ Moved(f, "running") /\ "running" \in Stages
      /\ UNCHANGED <<transport, reading, level>>
  BY DEF Begin, MayBegin, Stages
<1>3. CASE ~IsJson(q.msg)
  <2>1. UNCHANGED trace
    BY <1>3 DEF Begin
  <2> QED
    BY <1>1, <1>2, <1>3, <2>1, MovingKeeps
<1>4. CASE IsJson(q.msg)
  <2>1. Record("in", f)
    BY <1>4 DEF Begin
  <2>2. OnlyFrame(f, "running", q.done, q.reply)
    BY <1>1, <1>2, MovedOnly
  <2>3. FrameAt(r, q, "running", q.done, q.reply)
    BY <2>2 DEF OnlyFrame
  <2>4. FrameOK(r)
    <3> HIDE DEF q, r
    <3> QED
      BY <1>1, <1>2, <2>3, MovedOK
  <2>5. FramesOK'
    BY <1>1, <2>2, <2>4, FramesKept
  <2>6. InTurns'
    <3>1. Stage(f) \notin Over
      BY <1>2 DEF Over
    <3> QED
      BY <1>1, <1>2, <2>2, <3>1, TurnsKept
  <2>7. Recorded' = Recorded \cup {e}
    <3>1. ParsedOf(r) /\ ~ParsedOf(q) /\ r.reply = q.reply
      BY <1>1, <1>2, <1>4, <2>3 DEF ParsedOf, FrameAt
    <3> QED
      BY <2>2, <3>1, RecordedNow
  <2>8. \A x \in Recorded : x.frame # f /\ (transport = "stdio" => x.frame < f)
    <3> SUFFICES ASSUME NEW x \in Recorded
                 PROVE  x.frame # f /\ (transport = "stdio" => x.frame < f)
      OBVIOUS
    <3>1. PICK g \in DOMAIN frames : x.frame = g /\ (ParsedOf(frames[g]) \/ frames[g].reply # <<>>)
      BY RecordedIs
    <3>2. Stage(g) # "queued"
      BY <1>1, <3>1 DEF FramesOK, FrameOK, ParsedOf, Stage
    <3>3. x.frame # f
      BY <1>2, <3>1, <3>2
    <3>4. Stage(f) \notin Over
      BY <1>2 DEF Over
    <3> QED
      BY <1>1, <3>3, <3>4, RecordedBefore
  <2>9. TraceOK'
    <3>1. e \notin Recorded
      BY <2>8
    <3> QED
      BY <1>1, <1>2, <2>1, <2>7, <2>8, <3>1, TraceMore
  <2>10. LevelOK'
    BY <1>1, <1>2, <2>2, LevelKept
  <2> QED
    BY <1>1, <1>2, <2>5, <2>6, <2>9, <2>10 DEF DispatchIInv
<1> QED
  BY <1>3, <1>4

\* What has been done of a frame at its end.
LEMMA EndKeeps ==
    ASSUME DispatchIInv, NEW f \in DOMAIN frames, End(f)
    PROVE  DispatchIInv'
<1> DEFINE q == frames[f]
           r == frames'[f]
           y == Reply(f)
           s == IF y = <<>> THEN "silent" ELSE "replying"
           e == [dir |-> "out", frame |-> f]
<1>1. /\ FramesOK /\ InTurns /\ TraceOK /\ LevelOK /\ frames \in Seq(FrameType)
      /\ transport \in Transports /\ level \in Levels /\ reading \in BOOLEAN
      /\ FrameOK(q) /\ Stage(f) = q.stage /\ f \in Nat
  BY DEF DispatchIInv, FramesOK, Stage
<1>2. /\ Stage(f) = "running" /\ (Accepted(q.msg) => Done(f) = DOMAIN q.msg.items)
      /\ IF y # <<>> THEN Record("out", f) ELSE UNCHANGED trace
      /\ UNCHANGED <<transport, reading, level>>
  BY DEF End, Items
<1>3. /\ y \in Seq(0 .. MaxBatch)
      /\ Accepted(q.msg) => ToSet(y) = OwedOf(q.msg) /\ Increasing(y)
      /\ ~Accepted(q.msg) => y = <<0>>
  <2>1. Accepted(q.msg) => {i \in Done(f) : Owed(f, i)} = OwedOf(q.msg)
    BY <1>2 DEF OwedOf, Owed, Items
  <2> QED
    BY <1>1, <2>1, ReplyIs
<1>4. OnlyFrame(f, s, q.done, y)
  <2>1. 0 .. MaxBatch \subseteq Nat
    BY DispatchAssumption
  <2>2. y \in Seq(Nat)
    BY <1>3, <2>1, SeqWithin, Zenon
  <2> QED
    BY <1>1, <2>2, EndedOnly
<1>5. FrameAt(r, q, s, q.done, y)
  BY <1>4 DEF OnlyFrame
<1>6. FrameOK(r)
  <2>1. y = <<>> => ToSet(y) = {}
    BY DEF ToSet
  <2> HIDE DEF q, r, y
  <2> QED
    BY <1>1, <1>2, <1>3, <1>5, <2>1 DEF FrameOK, FrameAt
<1>7. FramesOK'
  BY <1>1, <1>4, <1>6, FramesKept
<1>8. Stage(f) \notin Over
  BY <1>2 DEF Over
<1>9. InTurns'
  BY <1>1, <1>2, <1>4, <1>8, TurnsKept
<1>10. q.reply = <<>>
  BY <1>1, <1>2 DEF FrameOK
<1>11. (ParsedOf(r) <=> ParsedOf(q)) /\ r.reply = y
  BY <1>1, <1>2, <1>5 DEF ParsedOf, FrameAt
<1>12. TraceOK'
  <2>1. CASE y = <<>>
    <3>1. Recorded' = Recorded
      BY <1>4, <1>10, <1>11, <2>1, RecordedNow
    <3> QED
      BY <1>1, <1>2, <2>1, <3>1, TraceSame
  <2>2. CASE y # <<>>
    <3>1. Recorded' = Recorded \cup {e}
      BY <1>4, <1>10, <1>11, <2>2, RecordedNow
    <3>2. e \notin Recorded
      BY <1>10, RecordedIs
    <3>3. \A x \in Recorded : IF x.frame = f THEN x.dir = "in"
                              ELSE transport = "stdio" => x.frame < f
      <4> SUFFICES ASSUME NEW x \in Recorded
                   PROVE  IF x.frame = f THEN x.dir = "in"
                          ELSE transport = "stdio" => x.frame < f
        OBVIOUS
      <4>1. x.frame = f => x.dir = "in"
        BY <1>10, RecordedIs
      <4>2. x.frame = f \/ (transport = "stdio" => x.frame < f)
        BY <1>1, <1>8, RecordedBefore
      <4> QED
        BY <4>1, <4>2
    <3>4. Record("out", f)
      BY <1>2, <2>2
    <3> QED
      BY <1>1, <1>2, <3>1, <3>2, <3>3, <3>4, TraceMore
  <2> QED
    BY <2>1, <2>2
<1>13. LevelOK'
  BY <1>1, <1>2, <1>4, LevelKept
<1> QED
  BY <1>1, <1>2, <1>7, <1>9, <1>12, <1>13 DEF DispatchIInv

\* The requests in flight are the first that are not done.
LEMMA InFlightIs ==
    ASSUME FramesOK, NEW f \in DOMAIN frames, NEW i \in InFlight(f), NEW k \in 1 .. i - 1
    PROVE  i \in Nat /\ i \notin Done(f) /\ (k \in InFlight(f) \/ k \in Done(f))
<1> DEFINE a == Len(Items(f))
           b == Len(frames[f].done) + Slots
           M == Min({a, b})
<1>1. a \in Nat /\ b \in Nat
  <2> DEFINE d == frames[f].done
  <2>1. d \in Seq(Nat) /\ frames[f].msg \in Messages
    <3>1. frames[f] \in FrameType
      BY DEF FramesOK
    <3> QED
      BY <3>1 DEF FrameType
  <2>2. Len(d) \in Nat
    <3> HIDE DEF d
    <3> QED
      BY <2>1
  <2>3. a \in Nat
    BY <2>1, MessageIs DEF Items
  <2> QED
    BY <2>2, <2>3, DispatchAssumption
<1> HIDE DEF a, b
<1>2. M \in Nat
  <2>1. \E x \in {a, b} : \A y \in {a, b} : x <= y
    BY <1>1
  <2>2. M \in {a, b}
    BY <2>1 DEF Min
  <2> QED
    BY <1>1, <2>2
<1>3. InFlight(f) = (1 .. M) \ Done(f)
  BY DEF InFlight, a, b
<1> HIDE DEF M
<1>4. i \in 1 .. M /\ i \notin Done(f)
  BY <1>3
<1>5. k \in 1 .. M
  BY <1>2, <1>4
<1> QED
  BY <1>3, <1>4, <1>5

\* The members of a sequence, when one is appended.
LEMMA AppendedSet ==
    ASSUME NEW S, NEW d \in Seq(S), NEW x
    PROVE  ToSet(Append(d, x)) = ToSet(d) \cup {x}
<1>1. PICK n \in Nat : n = Len(d)
  OBVIOUS
<1>2. DOMAIN d = 1 .. n /\ DOMAIN Append(d, x) = 1 .. n + 1
      /\ Append(d, x)[n + 1] = x /\ \A i \in 1 .. n : Append(d, x)[i] = d[i]
  BY <1>1
<1>3. \A i \in 1 .. n + 1 : i \in 1 .. n \/ i = n + 1
  OBVIOUS
<1>4. n + 1 \in 1 .. n + 1 /\ \A i \in 1 .. n : i \in 1 .. n + 1
  OBVIOUS
<1> QED
  BY <1>2, <1>3, <1>4 DEF ToSet

\* A request is done, and may have set the level.
LEMMA FinishKeeps ==
    ASSUME DispatchIInv, NEW f \in DOMAIN frames, NEW i \in DOMAIN Items(f), Finish(f, i)
    PROVE  DispatchIInv'
<1> DEFINE q == frames[f]
           r == frames'[f]
           d == Append(q.done, i)
<1>1. /\ FramesOK /\ InTurns /\ TraceOK /\ LevelOK /\ frames \in Seq(FrameType)
      /\ transport \in Transports /\ level \in Levels /\ reading \in BOOLEAN
      /\ FrameOK(q) /\ Stage(f) = q.stage /\ f \in Nat /\ q \in FrameType
  BY DEF DispatchIInv, FramesOK, Stage
<1>1a. q.msg \in Messages
  BY <1>1 DEF FrameType
<1>2. /\ Stage(f) = "running" /\ Accepted(q.msg) /\ i \in InFlight(f) /\ Pollable(f, i)
      /\ level' = LevelAfter(Items(f)[i], level) /\ UNCHANGED <<transport, reading, trace>>
  BY DEF Finish
<1>3. i \in DOMAIN q.msg.items /\ i \in Nat /\ i \in 1 .. MaxBatch
  BY <1>1a, <1>2, MessageIs DEF Items
<1>4. OnlyFrame(f, q.stage, d, q.reply)
  BY <1>1, <1>3, FinishedOnly
<1>5. FrameAt(r, q, q.stage, d, q.reply)
  BY <1>4 DEF OnlyFrame
<1>6. i \notin Done(f) /\ \A k \in 1 .. i - 1 : Awaits(q.msg.items[k]) \/ k \in Done(f)
  <2>1. i \notin Done(f)
    BY <1>2 DEF InFlight
  <2>2. ASSUME NEW k \in 1 .. i - 1 PROVE Awaits(q.msg.items[k]) \/ k \in Done(f)
    <3>1. k \in InFlight(f) \/ k \in Done(f)
      BY <1>1, <1>2, InFlightIs
    <3>2. k < i
      BY <1>3
    <3>3. k \in InFlight(f) => Awaits(q.msg.items[k])
      BY <1>2, <3>2 DEF Pollable, Items
    <3> QED
      BY <3>1, <3>3
  <2> QED
    BY <2>1, <2>2
<1>7. ToSet(d) = Done(f) \cup {i}
  <2>1. q.done \in Seq(Nat)
    BY <1>1 DEF FrameType
  <2> QED
    BY <2>1, AppendedSet DEF Done
<1>8. FrameOK(r)
  <2>1. d \in Seq(DOMAIN q.msg.items)
    <3> DEFINE c == q.done
               D == DOMAIN q.msg.items
    <3>1. c \in Seq(D) /\ i \in D
      BY <1>1, <1>3 DEF FrameOK
    <3> HIDE DEF c, D
    <3>2. Append(c, i) \in Seq(D)
      BY <3>1
    <3> QED
      BY <3>2 DEF c, D
  <2>2. \A j \in ToSet(d) : \A k \in 1 .. j - 1 : Awaits(q.msg.items[k]) \/ k \in ToSet(d)
    <3>1. \A j \in Done(f) : \A k \in 1 .. j - 1 : Awaits(q.msg.items[k]) \/ k \in Done(f)
      BY <1>1 DEF FrameOK, Done
    <3> QED
      BY <1>6, <1>7, <3>1
  <2>3. q.stage = "running"
    BY <1>1, <1>2
  <2> HIDE DEF q, r, d
  <2> QED
    BY <1>1, <1>2, <1>5, <2>1, <2>2, <2>3 DEF FrameOK, FrameAt
<1>9. FramesOK'
  BY <1>1, <1>4, <1>8, FramesKept
<1>10. Stage(f) \notin Over
  BY <1>2 DEF Over
<1>11. InTurns'
  BY <1>1, <1>2, <1>4, <1>10, TurnsKept
<1>12. TraceOK'
  <2>1. (ParsedOf(r) <=> ParsedOf(q)) /\ r.reply = q.reply
    BY <1>5 DEF ParsedOf, FrameAt
  <2>2. Recorded' = Recorded
    BY <1>4, <2>1, RecordedNow
  <2> QED
    BY <1>1, <1>2, <2>2, TraceSame
<1> DEFINE item == q.msg.items[i]
<1>13. level' = LevelAfter(item, level)
  BY <1>2 DEF Items
<1>14. LevelOK'
  <2>1. DOMAIN frames' = DOMAIN frames
        /\ (\A g \in DOMAIN frames : Items(g)' = Items(g))
        /\ (\A g \in DOMAIN frames : g # f => Done(g)' = Done(g))
        /\ Done(f)' = Done(f) \cup {i}
    <3>1. DOMAIN frames' = DOMAIN frames /\ \A g \in DOMAIN frames : g # f => frames'[g] = frames[g]
      BY <1>4 DEF OnlyFrame
    <3>2. frames'[f].msg = frames[f].msg /\ frames'[f].done = d
      BY <1>5 DEF FrameAt
    <3> QED
      BY <1>7, <3>1, <3>2 DEF Items, Done
  <2>2. /\ SetsLevel(item) => LevelSet' = LevelSet \cup {<<f, i>>}
        /\ ~SetsLevel(item) => LevelSet' = LevelSet
    <3>1. LevelSet' = {p \in (DOMAIN frames) \X (1 .. MaxBatch) :
                          p[2] \in Done(p[1])' /\ SetsLevel(Items(p[1])[p[2]])}
      BY <2>1 DEF LevelSet
    <3>2. Items(f)[i] = item
      BY DEF Items
    <3> HIDE DEF item
    <3>3. \A p \in (DOMAIN frames) \X (1 .. MaxBatch) :
             /\ p = <<p[1], p[2]>> /\ p[1] \in DOMAIN frames
             /\ p[2] \in Done(p[1])' <=> p[2] \in Done(p[1]) \/ p = <<f, i>>
      BY <2>1
    <3>4. <<f, i>> \in (DOMAIN frames) \X (1 .. MaxBatch)
      BY <1>3
    <3> QED
      BY <3>1, <3>2, <3>3, <3>4 DEF LevelSet
  <2>3. \A p \in LevelSet : p[1] \in DOMAIN frames /\ p[1] \in Nat /\ p[2] \in Nat
                             /\ p[2] \in Done(p[1])
    BY <1>1 DEF LevelSet, FramesOK
  <2>4. CASE ~SetsLevel(item)
    <3>1. level' = level /\ LevelSet' = LevelSet
      BY <1>13, <2>2, <2>4 DEF LevelAfter
    <3> QED
      BY <1>1, <1>2, <2>1, <2>3, <3>1 DEF LevelOK
  <2>5. CASE SetsLevel(item)
    <3> DEFINE p == <<f, i>>
    <3>1. p \in LevelSet' /\ LevelSet' = LevelSet \cup {p}
      BY <2>2, <2>5
    <3>2. level' = LevelAfter(item, level')
      BY <1>13, <2>5 DEF LevelAfter
    <3>3. ASSUME transport = "stdio", NEW x \in LevelSet
          PROVE  x[1] < f \/ (x[1] = f /\ x[2] <= i)
      <4>1. x[1] \in DOMAIN frames /\ x[1] \in Nat /\ x[2] \in Nat /\ x[2] \in Done(x[1])
        BY <2>3, <3>3
      <4>2. CASE x[1] = f
        <5>1. x[2] \in ToSet(q.done)
          BY <4>1, <4>2 DEF Done
        <5>2. ~Awaits(item)
          BY <2>5 DEF SetsLevel, Awaits, Lookups
        <5>3. i \notin 1 .. x[2] - 1
          BY <1>1, <1>6, <5>1, <5>2 DEF FrameOK, Done
        <5> QED
          BY <1>3, <4>1, <4>2, <5>3
      <4>3. CASE f < x[1]
        <5>1. Stage(x[1]) = "queued"
          BY <1>1, <1>10, <3>3, <4>1, <4>3 DEF InTurns
        <5>2. frames[x[1]].done = <<>>
          BY <1>1, <4>1, <5>1 DEF FramesOK, FrameOK, Stage
        <5>3. Done(x[1]) = {}
          BY <5>2 DEF Done, ToSet
        <5> QED
          BY <4>1, <5>3
      <4> QED
        BY <1>1, <4>1, <4>2, <4>3
    <3>4. Items(f)'[i] = item
      BY <2>1 DEF Items
    <3> HIDE DEF item
    <3>5. transport' = "stdio" =>
            \E x \in LevelSet' :
               /\ level' = LevelAfter(Items(x[1])'[x[2]], level')
               /\ \A z \in LevelSet' : z[1] < x[1] \/ (z[1] = x[1] /\ z[2] <= x[2])
      <4> SUFFICES ASSUME transport = "stdio"
                   PROVE  \E x \in LevelSet' :
                            /\ level' = LevelAfter(Items(x[1])'[x[2]], level')
                            /\ \A z \in LevelSet' : z[1] < x[1] \/ (z[1] = x[1] /\ z[2] <= x[2])
        BY <1>2
      <4>1. level' = LevelAfter(Items(p[1])'[p[2]], level')
        BY <3>2, <3>4
      <4>2. \A z \in LevelSet' : z[1] < p[1] \/ (z[1] = p[1] /\ z[2] <= p[2])
        BY <1>3, <3>1, <3>3
      <4> QED
        BY <3>1, <4>1, <4>2
    <3> QED
      BY <3>5 DEF LevelOK
  <2> QED
    BY <2>4, <2>5
<1>15. level' \in Levels
  BY <1>1, <1>13 DEF LevelAfter, Levels
<1> QED
  BY <1>1, <1>2, <1>9, <1>11, <1>12, <1>14, <1>15 DEF DispatchIInv

\* Every step.
LEMMA DispatchStep == DispatchIInv /\ [Next]_vars => DispatchIInv'
<1> SUFFICES ASSUME DispatchIInv, [Next]_vars PROVE DispatchIInv'
  OBVIOUS
<1>1. CASE UNCHANGED vars
  <2>1. transport' = transport /\ frames' = frames /\ reading' = reading /\ level' = level
        /\ trace' = trace
    BY <1>1 DEF vars
  <2>2. FramesOK'
    BY <2>1 DEF DispatchIInv, FramesOK, FrameOK
  <2>3. InTurns' /\ Recorded' = Recorded
    BY <2>1 DEF DispatchIInv, InTurns, Recorded, Stage, Over
  <2>4. TraceOK'
    BY <2>1, <2>3, TraceSame DEF DispatchIInv
  <2>5. LevelSet' = LevelSet
    BY <2>1 DEF LevelSet, Items, Done
  <2>6. LevelOK'
    BY <2>1, <2>5 DEF DispatchIInv, LevelOK, Items
  <2> QED
    BY <2>1, <2>2, <2>3, <2>4, <2>6 DEF DispatchIInv
<1>2. ASSUME NEW m \in Messages, Send(m) PROVE DispatchIInv'
  BY <1>2, SendKeeps
<1>3. ASSUME NEW f \in DOMAIN frames, Skip(f) PROVE DispatchIInv'
  <2>1. MayBegin(f) /\ Stage(f) = "queued" /\ UNCHANGED <<transport, level, trace>> /\ reading' = reading
    BY <1>3 DEF Skip, MayBegin
  <2>2. CASE frames[f].msg.shape = "huge"
    <3>1. Moved(f, "skipped") /\ "skipped" \in Stages
      BY <1>3, <2>2 DEF Skip, Stages
    <3> QED
      BY <2>1, <3>1, MovingKeeps DEF DispatchIInv
  <2>3. CASE frames[f].msg.shape # "huge"
    <3>1. Moved(f, "silent") /\ "silent" \in Stages /\ ~IsJson(frames[f].msg)
      BY <1>3, <2>3 DEF Skip, Stages, IsJson
    <3> QED
      BY <2>1, <3>1, MovingKeeps DEF DispatchIInv
  <2> QED
    BY <2>2, <2>3
<1>4. ASSUME NEW f \in DOMAIN frames, Begin(f) PROVE DispatchIInv'
  BY <1>4, BeginKeeps
<1>5. ASSUME NEW f \in DOMAIN frames, NEW i \in DOMAIN Items(f), Finish(f, i) PROVE DispatchIInv'
  BY <1>5, FinishKeeps
<1>6. ASSUME NEW f \in DOMAIN frames, End(f) PROVE DispatchIInv'
  BY <1>6, EndKeeps
<1>7. ASSUME NEW f \in DOMAIN frames, Write(f) PROVE DispatchIInv'
  <2>1. Stage(f) = "replying" /\ Moved(f, "answered") /\ "answered" \in Stages
        /\ UNCHANGED <<transport, reading, level, trace>>
    BY <1>7 DEF Write, Stages
  <2> QED
    BY <2>1, MovingKeeps DEF DispatchIInv
<1>8. ASSUME NEW f \in DOMAIN frames, WriteFails(f) PROVE DispatchIInv'
  <2>1. Stage(f) = "replying" /\ Moved(f, "lost") /\ "lost" \in Stages
        /\ UNCHANGED <<transport, level, trace>> /\ reading' \in BOOLEAN
    BY <1>8 DEF WriteFails, Stages
  <2> QED
    BY <2>1, MovingKeeps
<1>9. ASSUME NEW f \in DOMAIN frames, Cut(f) PROVE DispatchIInv'
  <2>1. Stage(f) \in {"running", "replying"} /\ Moved(f, "cut") /\ "cut" \in Stages
        /\ UNCHANGED <<transport, reading, level, trace>>
    BY <1>9 DEF Cut, Stages
  <2> QED
    BY <2>1, MovingKeeps DEF DispatchIInv
<1>10. ASSUME NEW f \in DOMAIN frames, ReadFails(f) PROVE DispatchIInv'
  <2>1. /\ MayBegin(f) /\ Stage(f) = "queued" /\ Moved(f, "unread") /\ "unread" \in Stages
        /\ UNCHANGED <<transport, level, trace>> /\ reading' \in BOOLEAN
    BY <1>10 DEF ReadFails, MayBegin, Stages
  <2> QED
    BY <2>1, MovingKeeps
<1> QED
  BY <1>1, <1>2, <1>3, <1>4, <1>5, <1>6, <1>7, <1>8, <1>9, <1>10 DEF Next, Handle

\* DispatchIInv holds, whatever comes and however requests and handlers interleave.
THEOREM DispatchInvariant == Spec => []DispatchIInv
<1> QED
  BY DispatchInitially, DispatchStep, PTL DEF Spec

\* The answer process_raw_message gives to a message is an error, or has one
\* response for each request that is owed one, each once and in the order of
\* the requests, in whatever order buffer_unordered ended them; and nothing is
\* written for a message that is owed nothing.
THEOREM AnswersMatch == Spec => []AnswersMatchRequests
<1>1. ASSUME DispatchIInv PROVE AnswersMatchRequests
  <2>1. TypeOK
    <3>1. ASSUME NEW f \in DOMAIN frames
          PROVE  /\ frames[f].msg \in Messages /\ frames[f].stage \in Stages
                 /\ frames[f].done \in Seq(DOMAIN frames[f].msg.items)
                 /\ frames[f].reply \in Seq(0 .. MaxBatch)
      BY <1>1 DEF DispatchIInv, FramesOK, FrameOK, FrameType
    <3>2. trace \in Seq([dir : {"in", "out"}, frame : DOMAIN frames])
      <4> DEFINE t == trace
                 T == [dir : {"in", "out"}, frame : Nat]
      <4>1. t \in Seq(T) /\ \A e \in ToSet(t) : e \in [dir : {"in", "out"}, frame : DOMAIN frames]
        BY <1>1 DEF DispatchIInv, TraceOK, Recorded
      <4> HIDE DEF t, T
      <4>2. t \in Seq(ToSet(t))
        BY <4>1 DEF ToSet
      <4> QED
        BY <4>1, <4>2, SeqWithin DEF t
    <3> QED
      BY <1>1, <3>1, <3>2 DEF TypeOK, DispatchIInv
  <2>2. ASSUME NEW f \in DOMAIN frames
        PROVE  /\ Stage(f) \in {"replying", "answered", "lost"} =>
                    IF Accepted(frames[f].msg)
                    THEN /\ ToSet(frames[f].reply) = OwedOf(frames[f].msg)
                         /\ Increasing(frames[f].reply)
                    ELSE frames[f].reply = <<0>>
               /\ Stage(f) = "silent" =>
                    OwedOf(frames[f].msg) = {} \/ ~Accepted(frames[f].msg)
    BY <1>1 DEF DispatchIInv, FramesOK, FrameOK, Stage
  <2>3. \A f \in DOMAIN frames :
           OwedOf(frames[f].msg) = {i \in DOMAIN frames[f].msg.items : Owed(f, i)}
    BY DEF OwedOf, Owed, Items
  <2> QED
    BY <2>1, <2>2, <2>3 DEF AnswersMatchRequests, Increasing
<1> QED
  BY <1>1, DispatchInvariant, PTL

\* What SessionRecorder has written is each message that was taken up and parsed
\* and each answer, once, the answer behind its message; on stdio, in the order
\* of the lines, and the log level is what the last request to set it asked for.
THEOREM TraceTells == Spec => []TraceTellsSession
<1>1. DispatchIInv => TraceTellsSession
  BY DEF DispatchIInv, TraceOK, InSession, LevelOK, TraceTellsSession
<1> QED
  BY <1>1, DispatchInvariant, PTL

===============================================================================
