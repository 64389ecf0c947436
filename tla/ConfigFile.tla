----------------------------- MODULE ConfigFile -----------------------------
(***************************************************************************)
(* "intermcp setup" on the configuration file of one IDE                   *)
(* (src/src/auto_config.rs), while the IDE may save it and other setups    *)
(* may run: the file is read, backed up, merged and replaced without any   *)
(* lock, every call of the file system being a step, and the copying two.  *)
(*                                                                         *)
(* Of a content count who wrote it, what form it has and whether it has    *)
(* the entry of InterMCP.  A process may die at any step.  Names start     *)
(* with Cf, for use beside other modules; X_Y is X with the bug Y (see     *)
(* Vault).                                                                 *)
(***************************************************************************)
EXTENDS Integers, FiniteSets

CONSTANTS CfSetups,    \* runs of setup
          CfSaves      \* bound on the IDE's saves

ASSUME CfAssumption == CfSaves \in Nat

\* odd: an object whose servers are not an object; list: JSON, but no object;
\* torn: half of a content.
CfForms == {"object", "odd", "list", "garbage", "torn"}
CfContent == [form : CfForms, save : 0 .. CfSaves, entry : BOOLEAN]
CfAbsent == [form |-> "absent", save |-> 0, entry |-> FALSE]

VARIABLES config,       \* the file
          backup,       \* the file with json.bak added
          hasDir,       \* its directory exists
          key,          \* where its servers are
          saves,        \* the IDE's saves so far
          setup,        \* setup[s]: where run s is
          doc,          \* doc[s]: the content s works on
          original,     \* original[s]: the content s copies and compares
          disturbed     \* s's file or backup changed under it (history):
                        \* "since" it was read to be compared, or "before"

cfVars == <<config, backup, hasDir, key, saves, setup, doc, original, disturbed>>

CfOver == {"skipped", "failed", "done", "dead"}

CfPlaces ==
    CfOver \cup {"idle", "dir", "parsed", "copying", "copied", "reread", "merging", "temp"}

CfTypeOK ==
    /\ {config, backup} \subseteq CfContent \cup {CfAbsent}
    /\ hasDir \in BOOLEAN
    /\ key \in {"mcpServers", "context_servers"}
    /\ saves \in 0 .. CfSaves
    /\ setup \in [CfSetups -> CfPlaces]
    /\ {doc, original} \subseteq [CfSetups -> CfContent \cup {CfAbsent}]
    /\ disturbed \in [CfSetups -> {"no", "before", "since"}]

CfInit ==
    /\ config \in {CfAbsent} \cup [form : CfForms \ {"torn"}, save : {0}, entry : {FALSE}]
    /\ backup = CfAbsent
    /\ hasDir \in {config # CfAbsent, TRUE}
    /\ key \in {"mcpServers", "context_servers"}
    /\ saves = 0
    /\ setup = [s \in CfSetups |-> "idle"]
    /\ doc = [s \in CfSetups |-> CfAbsent]
    /\ original = [s \in CfSetups |-> CfAbsent]
    /\ disturbed = [s \in CfSetups |-> "no"]

CfGoes(s, place) == setup' = [setup EXCEPT ![s] = place]

\* What a change of the files means for the runs that are under way.
CfHasReread(s) == setup[s] \in {"reread", "merging", "temp"}

CfDisturbs(who) ==
    disturbed' = [s \in CfSetups |->
        IF s \in who \/ setup[s] \in CfOver \cup {"idle", "dir"} THEN disturbed[s]
        ELSE IF CfHasReread(s) \/ disturbed[s] = "since" THEN "since" ELSE "before"]

(***************************************************************************)
(* One run.                                                                *)
(***************************************************************************)
\* An IDE is not there if neither its file nor its directory is.
CfStart(s) ==
    /\ setup[s] = "idle"
    /\ IF config = CfAbsent /\ ~hasDir
       THEN CfGoes(s, "skipped") /\ UNCHANGED hasDir
       ELSE \/ CfGoes(s, "dir") /\ hasDir' = TRUE
            \/ CfGoes(s, "failed") /\ UNCHANGED hasDir
    /\ UNCHANGED <<config, backup, key, saves, doc, original, disturbed>>

CfEmpty == [form |-> "object", save |-> 0, entry |-> FALSE]

CfRead(s) ==
    /\ setup[s] = "dir"
    /\ IF config.form \in {"object", "odd", "absent"}
       THEN /\ CfGoes(s, "parsed")
            /\ doc' = [doc EXCEPT ![s] = IF config = CfAbsent THEN CfEmpty ELSE config]
       ELSE CfGoes(s, "failed") /\ UNCHANGED doc
    /\ UNCHANGED <<config, backup, hasDir, key, saves, original, disturbed>>

\* safe_backup: the copy, whose beginning empties the backup, ...
CfCopyStarts(s) ==
    /\ setup[s] = "parsed"
    /\ config # CfAbsent
    /\ CfGoes(s, "copying")
    /\ backup' = [config EXCEPT !.form = "torn"]
    /\ original' = [original EXCEPT ![s] = config]
    /\ CfDisturbs({s})
    /\ UNCHANGED <<config, hasDir, key, saves, doc>>

\* (a save meanwhile may be in another file, or in the one that is copied)
CfCopyEnds(s) ==
    /\ setup[s] = "copying"
    /\ CfGoes(s, "copied")
    /\ backup' \in {original[s], config}
    /\ CfDisturbs({s})
    /\ UNCHANGED <<config, hasDir, key, saves, doc, original>>

\* ... the reading of the file, ...
CfReread(s) ==
    /\ setup[s] = "copied"
    /\ CfGoes(s, "reread")
    /\ original' = [original EXCEPT ![s] = config]
    /\ UNCHANGED <<config, backup, hasDir, key, saves, doc, disturbed>>

CfVerify_Unread(s) ==
    /\ setup[s] = "reread"
    /\ CfGoes(s, "merging")
    /\ UNCHANGED <<config, backup, hasDir, key, saves, doc, original, disturbed>>

\* ... the reading of its backup and the comparison of what was read, without
\* which nothing is written, ...
CfVerify(s) ==
    /\ setup[s] = "reread"
    /\ CfGoes(s, IF backup = original[s] THEN "merging" ELSE "failed")
    /\ UNCHANGED <<config, backup, hasDir, key, saves, doc, original, disturbed>>

\* ... or none of it, when there is nothing to back up.
CfNoBackup(s) ==
    /\ setup[s] = "parsed"
    /\ config = CfAbsent
    /\ CfGoes(s, "merging")
    /\ UNCHANGED <<config, backup, hasDir, key, saves, doc, original, disturbed>>

\* The entry has a place only in an object of servers.
CfMerged(c) == IF c.form = "object" THEN [c EXCEPT !.entry = TRUE] ELSE c

\* atomic_write_json: the temporary file, ...
CfWriteTemp(s) ==
    /\ setup[s] = "merging"
    /\ CfGoes(s, "temp")
    /\ doc' = [doc EXCEPT ![s] = CfMerged(@)]
    /\ UNCHANGED <<config, backup, hasDir, key, saves, original, disturbed>>

\* ... renamed into place.
CfRename(s) ==
    /\ setup[s] = "temp"
    /\ config' = doc[s]
    /\ CfGoes(s, "done")
    /\ CfDisturbs({s})
    /\ UNCHANGED <<backup, hasDir, key, saves, doc, original>>

CfFail(s) ==
    /\ setup[s] \in {"dir", "copying", "copied", "reread", "merging", "temp"}
    /\ CfGoes(s, "failed")
    /\ UNCHANGED <<config, backup, hasDir, key, saves, doc, original, disturbed>>

CfDie(s) ==
    /\ setup[s] \notin CfOver \cup {"idle"}
    /\ CfGoes(s, "dead")
    /\ UNCHANGED <<config, backup, hasDir, key, saves, doc, original, disturbed>>

CfStep(s) ==
    \/ CfStart(s) \/ CfRead(s)
    \/ CfCopyStarts(s) \/ CfCopyEnds(s) \/ CfReread(s) \/ CfVerify(s)
    \/ CfNoBackup(s)
    \/ CfWriteTemp(s) \/ CfRename(s)
    \/ CfFail(s) \/ CfDie(s)

\* configure_mcp_json and configure_zed_json differ in the key, and in what
\* an entry looks like.
ConfigureMcpJson(s) == key = "mcpServers" /\ CfStep(s)
ConfigureZedJson(s) == key = "context_servers" /\ CfStep(s)

(***************************************************************************)
(* The IDE, or its user: saves what it has in its buffer, with or without  *)
(* an entry that was there.                                                *)
(***************************************************************************)
IdeSaves ==
    /\ saves < CfSaves
    /\ saves' = saves + 1
    /\ hasDir' = TRUE
    /\ config' \in [form : {"object", "odd", "garbage"}, save : {saves + 1},
                    entry : {FALSE, config.entry}]
    /\ CfDisturbs({})
    /\ UNCHANGED <<backup, key, setup, doc, original>>

CfNext ==
    \/ \E s \in CfSetups : ConfigureMcpJson(s) \/ ConfigureZedJson(s)
    \/ IdeSaves

CfSpec == CfInit /\ [][CfNext]_cfVars
-----------------------------------------------------------------------------
(* Properties.                                                             *)

Replaces(s) == setup[s] = "temp" /\ setup'[s] = "done"

\* What a run replaces is not lost: it is in the backup, byte by byte, unless
\* one of the two was written after the run had last read the file, to compare
\* it: from then on, the reading of the backup included, a save can vanish.
ReplacedIsBackedUp(s) == config \in {backup, CfAbsent} \/ disturbed[s] = "since"

\* A run that nobody disturbed adds its entry to what the IDE had saved, and
\* changes nothing else; only servers that are no object it leaves without
\* one, although it reports success.
AddsItsEntry(s) ==
    disturbed[s] = "no" =>
        IF config = CfAbsent THEN config' = [CfEmpty EXCEPT !.entry = TRUE]
        ELSE /\ config'.save = config.save
             /\ config'.form = config.form
             /\ config.form = "object" => config'.entry

\* Both, whenever a run puts its file in place.
SetupPreserves ==
    [][\A s \in CfSetups : Replaces(s) => ReplacedIsBackedUp(s) /\ AddsItsEntry(s)]_cfVars
=============================================================================
