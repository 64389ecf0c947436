------------------------------- MODULE MCHost -------------------------------
(***************************************************************************)
(* The components that share no state with any other, for the model        *)
(* checker.  A behaviour is one of a single component, `part', the others  *)
(* being at rest, so that the states are those of each component and not   *)
(* their product.                                                          *)
(***************************************************************************)
EXTENDS Firewall, ConfigFile, AuditLog, ReceiptBook, ToolCache,
        ShellProcess, FileTools, Glob, Redaction, Clients

(***************************************************************************)
(* Firewall: one upstream whose hashes are configured and that may offer   *)
(* a changed tool or a badly named one; one with a description hash only,  *)
(* that may offer two tools under one name.                                *)
(***************************************************************************)
Definition(n, d, s) == [name |-> n, wellNamed |-> TRUE, desc |-> d, schema |-> s]

TheConfigs ==
    LET a == Definition("a", 1, 1)
        b == Definition("b", 1, Unset)
    IN  {<<a, b>>, <<b, [a EXCEPT !.wellNamed = FALSE]>>}

TheOffers ==
    [u \in {"a", "b"} |->
        IF u = "a"
        THEN {<<Definition("x", 1, 1), [Definition("y", 1, 1) EXCEPT !.wellNamed = FALSE]>>,
              <<Definition("x", 2, 1)>>}
        ELSE {<<Definition("x", 1, 1), Definition("x", 1, 2)>>,
              <<Definition("x", 1, 2), Definition("y", 1, 1)>>}]

(***************************************************************************)
(* FileTools: a root `in' with a directory of each sensitive kind, and     *)
(* beside it `out', with everything that `in/a' and `in/b' can be.         *)
(***************************************************************************)
TheRoot == <<"in">>
Outside == {<<"out", "a">>, <<"out", "new">>}

A(kind) == [kind |-> kind, to |-> <<>>]
LinkTo(path) == [kind |-> "link", to |-> path]

Around ==
    LET dirs == {<<>>, <<"in">>, <<"out">>, <<"in", "key">>, <<"in", ".git">>}
        files == {<<"out", "a">>, <<"in", "key", "a">>, <<"in", "key", "key">>,
                  <<"in", ".git", "a">>}
    IN  [p \in dirs \cup files |-> IF p \in dirs THEN A("dir") ELSE A("file")]

FirstFile ==
    {<<"in", "a">> :> f : f \in {A("file"), A("hard")} \cup
        {LinkTo(p) : p \in Outside \cup {<<"out">>, <<"in", "b">>, <<"in", "key">>,
                                      <<"in", "key", "key">>, <<"in", ".git">>}}}

FirstDir ==
    {(<<"in", "a">> :> A("dir")) @@ inner : inner \in {<<>>} \cup
        {<<"in", "a", "b">> :> f : f \in {A("file")} \cup {LinkTo(p) : p \in Outside}}}

Second == {<<>>} \cup {<<"in", "b">> :> A(kind) : kind \in {"file", "dir", "hard"}}

TheTrees == {a @@ b @@ Around : a \in {<<>>} \cup FirstFile \cup FirstDir, b \in Second}

TheRequests == BoundedSeq({"a", "b", "key", ".git", "..", "out"}, 3)

(***************************************************************************)
(* Redaction: secrets that overlap, contain and extend one another, and    *)
(* values that are too short or not listed.                                *)
(***************************************************************************)
Listed(value) == [listed |-> TRUE, value |-> value]

TheEnvironment ==
    {Listed(<<"a", "b">>), Listed(<<"a", "b", "b">>), Listed(<<"b", "a", "b", "a">>),
     Listed(<<"b">>), [listed |-> FALSE, value |-> <<"c", "c">>]}

-----------------------------------------------------------------------------
VARIABLE part

GlobIdle ==
    /\ glob = [level |-> "component", value |-> <<>>, pattern |-> <<>>, verdict |-> "open"]
    /\ vi = 1 /\ pi = 1 /\ star = 0 /\ mark = 0

FsIdle ==
    /\ fsTree = Around
    /\ fsCall = [tool |-> "read", path |-> <<>>]
    /\ fsPhase = "start" /\ fsSafe = TheRoot
    /\ fsTouched = {} /\ fsExchanged = "no"

RedIdle ==
    /\ job = "log" /\ text = <<>> /\ phase = "scan"
    /\ todo = {} /\ merged = <<>> /\ out = <<>>

\* Of the initial states one.
HubIdle ==
    /\ servers = (CHOOSE c \in HubConfigs : TRUE)
    /\ guarded = TRUE
    /\ HubInit
ClIdle == clSdk = "node" /\ ClInit
CfIdle == key = "mcpServers" /\ hasDir = TRUE /\ config = CfAbsent /\ CfInit

Init ==
    /\ part \in {"firewall", "config", "smac", "receipts", "cache",
                 "shell", "files", "glob", "redaction", "clients"}
    /\ IF part = "firewall" THEN HubInit ELSE HubIdle
    /\ IF part = "config" THEN CfInit ELSE CfIdle
    /\ SmacInit
    /\ ReceiptInit
    /\ CacheInit
    /\ ShInit
    /\ IF part = "files" THEN FsInit ELSE FsIdle
    /\ IF part = "glob" THEN GlobInit ELSE GlobIdle
    /\ IF part = "redaction" THEN RedInit ELSE RedIdle
    /\ IF part = "clients" THEN ClInit ELSE ClIdle

Next ==
    /\ UNCHANGED part
    /\ IF part = "firewall" THEN HubNext ELSE UNCHANGED hubVars
    /\ IF part = "config" THEN CfNext ELSE UNCHANGED cfVars
    /\ IF part = "smac" THEN SmacNext ELSE UNCHANGED smacVars
    /\ IF part = "receipts" THEN ReceiptNext ELSE UNCHANGED receiptVars
    /\ IF part = "cache" THEN CacheNext ELSE UNCHANGED cacheVars
    /\ IF part = "shell" THEN ShNext ELSE UNCHANGED shVars
    /\ IF part = "files" THEN FsNext ELSE UNCHANGED fsVars
    /\ IF part = "glob" THEN GlobNext ELSE UNCHANGED globVars
    /\ IF part = "redaction" THEN RedNext ELSE UNCHANGED redVars
    /\ IF part = "clients" THEN ClientsNext ELSE UNCHANGED clVars

Spec ==
    Init /\ [][Next]_<<part, hubVars, cfVars, smacVars, receiptVars, cacheVars,
                      shVars, fsVars, globVars, redVars, clVars>>

Symmetry == Permutations(HubProcesses) \cup Permutations(CfSetups)
=============================================================================
