----------------------------- MODULE FileTools -----------------------------
(***************************************************************************)
(* The file tools (src/src/tools/fs.rs) and the checks of their paths      *)
(* (SandboxPolicy, src/src/sandbox.rs), on Unix, with a root configured    *)
(* and secrets shielded.                                                   *)
(*                                                                         *)
(* The tree of files is a function from paths to entries; a path is a      *)
(* sequence of names from / on, and a link names the path of something     *)
(* that is no link, or of nothing.  The working directory is the root that *)
(* is allowed.  A call validates its path, looks at what is there, and     *)
(* then acts; in between another process may exchange the file the path    *)
(* leads to.  Names start with Fs, for use beside other modules; X_Y is X  *)
(* with the bug Y (see Vault).                                             *)
(***************************************************************************)
EXTENDS Integers, Sequences, SequencesExt, FiniteSets

CONSTANTS FsTrees,       \* the trees there may be
          FsRequests,    \* the paths calls name: sequences of names and ".."
          FsRoot,        \* the allowed root, and the working directory
          FsLinks,       \* what another process may link to
          FsSecretDirs,  \* names no part of a path may bear (.ssh, .git, ...)
          FsSecretNames  \* names the last part may not bear: files, keywords, ...

FsKinds == {"dir", "file", "hard", "link"}

\* A place in the tree: ".." is nobody's name.
FsPlaced(path) == path \in Seq(STRING) /\ ".." \notin ToSet(path)

ASSUME FsAssumption ==
    /\ ".." \notin FsSecretDirs \cup FsSecretNames
    /\ FsRequests \subseteq Seq(STRING)
    /\ \A tree \in FsTrees :
        /\ {<<>>, FsRoot} \subseteq DOMAIN tree
        /\ \A to \in FsLinks \cap DOMAIN tree : tree[to].kind # "link"
        /\ \A p \in DOMAIN tree :
            /\ FsPlaced(p) /\ tree[p].kind \in FsKinds
            /\ p # <<>> => Front(p) \in DOMAIN tree /\ tree[Front(p)].kind = "dir"
            /\ tree[p].kind = "link" /\ tree[p].to \in DOMAIN tree =>
                   tree[tree[p].to].kind # "link"

VARIABLES fsTree,
          fsCall,       \* the tool and its request
          fsPhase,
          fsSafe,       \* the path validate_path has returned
          fsTouched,    \* files and directories read or written
          fsExchanged   \* "no", "checked" if before the tool looked, "unseen"

fsVars == <<fsTree, fsCall, fsPhase, fsSafe, fsTouched, fsExchanged>>

FsTypeOK ==
    /\ \A p \in DOMAIN fsTree : fsTree[p].kind \in FsKinds
    /\ fsCall.tool \in {"read", "write", "list", "search"}
    /\ fsPhase \in {"start", "valid", "looked", "done", "refused"}
    /\ fsTouched \subseteq DOMAIN fsTree
    /\ fsExchanged \in {"no", "checked", "unseen"}

FsInit ==
    /\ fsTree \in FsTrees
    /\ fsCall \in [tool : {"read", "write", "list", "search"}, path : FsRequests]
    /\ fsPhase = "start"
    /\ fsSafe = FsRoot
    /\ fsTouched = {}
    /\ fsExchanged = "no"

(***************************************************************************)
(* The file system.                                                        *)
(***************************************************************************)
FsNowhere == <<"..">>

KindIn(tree, p) == IF p \in DOMAIN tree THEN tree[p].kind ELSE "none"

FsEnter(tree, dir, name) ==
    LET p == Append(dir, name)
    IN  IF dir = FsNowhere \/ KindIn(tree, dir) # "dir" THEN FsNowhere
        ELSE IF name = ".." THEN (IF dir = <<>> THEN dir ELSE Front(dir))
        ELSE IF p \notin DOMAIN tree THEN FsNowhere
        ELSE IF tree[p].kind # "link" THEN p
        ELSE IF tree[p].to \in DOMAIN tree THEN tree[p].to ELSE FsNowhere

\* canonicalize: where a path leads, all links followed.
FsReal(tree, base, path) ==
    LET at[n \in 0 .. Len(path)] ==
            IF n = 0 THEN base ELSE FsEnter(tree, at[n - 1], path[n])
    IN  at[Len(path)]

Kind(p) == KindIn(fsTree, p)
Exists(p) == FsReal(fsTree, <<>>, p) # FsNowhere

(***************************************************************************)
(* validate_path.                                                          *)
(***************************************************************************)
\* A directory that is called `secrets' is sensitive, what is in it is not.
Sensitive(path) ==
    \/ ToSet(path) \cap FsSecretDirs # {}
    \/ path # <<>> /\ Last(path) \in FsSecretNames

\* The names with which the part of the path begins that there is not.
FsGone(path) ==
    {n \in DOMAIN path : path[n] # ".." /\ FsReal(fsTree, FsRoot, SubSeq(path, 1, n)) = FsNowhere}

\* What there is of the path, and what there is not.
FsSplit(path) ==
    LET k == IF FsGone(path) = {} THEN Len(path) ELSE Min(FsGone(path)) - 1
        tail == SubSeq(path, k + 1, Len(path))
    IN  [ok |-> ".." \notin ToSet(tail), prefix |-> SubSeq(path, 1, k), tail |-> tail]

FsBase(path) == FsReal(fsTree, FsRoot, FsSplit(path).prefix)
FsTarget(path) == FsBase(path) \o FsSplit(path).tail

NoLinks(target) ==
    \A a \in Prefixes(target) : Exists(a) => Kind(a) \notin {"link", "hard"}

Authorized(target) == IsPrefix(FsRoot, target)

FsValid(path) ==
    /\ ~Sensitive(path)
    /\ FsSplit(path).ok
    /\ FsBase(path) # FsNowhere
    /\ NoLinks(FsTarget(path))
    /\ ~Sensitive(FsTarget(path))
    /\ Authorized(FsTarget(path))

FsValidate ==
    /\ fsPhase = "start"
    /\ IF FsValid(fsCall.path)
       THEN fsPhase' = "valid" /\ fsSafe' = FsTarget(fsCall.path)
       ELSE fsPhase' = "refused" /\ UNCHANGED fsSafe
    /\ UNCHANGED <<fsTree, fsCall, fsTouched, fsExchanged>>

(***************************************************************************)
(* What the tools do before they act.                                      *)
(***************************************************************************)
FsLooked(ok) == fsPhase' = IF ok THEN "looked" ELSE "refused"

\* fs_read_file and fs_list_dir refuse what has become a link.
FsLookBeforeReading ==
    /\ fsPhase = "valid"
    /\ fsCall.tool \in {"read", "list"}
    /\ FsLooked(Exists(fsSafe) /\ Kind(fsSafe) \notin {"link", "hard"})
    /\ UNCHANGED <<fsTree, fsCall, fsSafe, fsTouched, fsExchanged>>

\* fs_search_text does not.
FsSearchStarts ==
    /\ fsPhase = "valid"
    /\ fsCall.tool = "search"
    /\ fsPhase' = "looked"
    /\ UNCHANGED <<fsTree, fsCall, fsSafe, fsTouched, fsExchanged>>

\* The tree in which something of the kind was made at the paths where there
\* was nothing.
Made(tree, paths, kind) ==
    [p \in DOMAIN tree \cup paths |->
        IF p \in DOMAIN tree THEN tree[p] ELSE [kind |-> kind, to |-> <<>>]]

\* create_dir_all: the directories that were made, as far as it came.
Missing(p) == {a \in Prefixes(p) : ~Exists(a)}
CanMake(p) == \A a \in Prefixes(p) : Kind(a) = IF Exists(a) THEN "dir" ELSE "none"

\* open_for_write_no_follow: makes the directories, then opens a file that
\* is no link, or creates one where nothing is.
FsCreates_OrFollows == Kind(fsSafe) \in {"none", "link"}
FsCreates == Kind(fsSafe) = "none"

FsOpenForWrite ==
    /\ fsPhase = "valid"
    /\ fsCall.tool = "write"
    /\ IF CanMake(Front(fsSafe)) /\ ~Exists(fsSafe)
       THEN /\ FsLooked(FsCreates)
            /\ fsTree' = Made(Made(fsTree, Missing(Front(fsSafe)), "dir"), {fsSafe}, "file")
       ELSE /\ FsLooked(Exists(fsSafe) /\ Kind(fsSafe) \notin {"link", "hard"})
            /\ UNCHANGED fsTree
    /\ UNCHANGED <<fsCall, fsSafe, fsTouched, fsExchanged>>

(***************************************************************************)
(* What they do then, by the path, all links followed.                     *)
(***************************************************************************)
\* The files search_dir reads: it goes into no link.
Found(dir) ==
    {p \in DOMAIN fsTree :
        /\ IsStrictPrefix(dir, p)
        /\ Kind(p) \in {"file", "hard"}
        /\ ~Sensitive(p)}

Acts(tool) == fsPhase = "looked" /\ fsCall.tool = tool /\ fsPhase' = "done"
Reached == FsReal(fsTree, <<>>, fsSafe)

\* Reading a directory fails, and so does listing a file.
FsReadFile ==
    /\ Acts("read")
    /\ fsTouched' = IF Kind(Reached) \in {"file", "hard"} THEN {Reached} ELSE {}
    /\ UNCHANGED <<fsTree, fsCall, fsSafe, fsExchanged>>

FsListDir ==
    /\ Acts("list")
    /\ fsTouched' = IF Kind(Reached) = "dir" THEN {Reached} ELSE {}
    /\ UNCHANGED <<fsTree, fsCall, fsSafe, fsExchanged>>

FsSearchText ==
    /\ Acts("search")
    /\ fsTouched' = IF Kind(Reached) = "dir" THEN Found(Reached) ELSE {}
    /\ UNCHANGED <<fsTree, fsCall, fsSafe, fsExchanged>>

\* What is not there any more is made again, where there is a directory.
FsWriteFile ==
    /\ Acts("write")
    /\ LET new == IF Kind(fsSafe) = "link" THEN fsTree[fsSafe].to ELSE fsSafe
           made == IF Reached = FsNowhere /\ Kind(Front(new)) = "dir" THEN {new} ELSE {}
       IN  /\ fsTouched' = IF Kind(Reached) \in {"file", "hard"} THEN {Reached} ELSE made
           /\ fsTree' = Made(fsTree, made, "file")
    /\ UNCHANGED <<fsCall, fsSafe, fsExchanged>>

(***************************************************************************)
(* Another process puts a link where the path leads, or takes away what is *)
(* there.                                                                  *)
(***************************************************************************)
FsExchange ==
    /\ fsPhase \in {"valid", "looked"}
    /\ fsExchanged = "no"
    /\ fsSafe # FsRoot
    /\ Kind(Front(fsSafe)) = "dir" /\ Kind(fsSafe) # "dir"
    /\ \/ \E to \in FsLinks :
            fsTree' = [p \in DOMAIN fsTree \cup {fsSafe} |->
                          IF p = fsSafe THEN [kind |-> "link", to |-> to] ELSE fsTree[p]]
       \/ fsTree' = [p \in DOMAIN fsTree \ {fsSafe} |-> fsTree[p]]
    /\ fsExchanged' = IF fsPhase = "looked" \/ fsCall.tool = "search" THEN "unseen" ELSE "checked"
    /\ UNCHANGED <<fsCall, fsPhase, fsSafe, fsTouched>>

FsNext ==
    \/ FsValidate
    \/ FsLookBeforeReading \/ FsSearchStarts \/ FsOpenForWrite
    \/ FsReadFile \/ FsListDir \/ FsSearchText \/ FsWriteFile
    \/ FsExchange

FsSpec == FsInit /\ [][FsNext]_fsVars

-----------------------------------------------------------------------------
(* Properties.                                                             *)

\* What a file tool reads or writes lies in the root, bears no sensitive
\* name of its own, is in no directory that is shielded with all it holds,
\* and is no second name of another file, whatever links and missing
\* directories its path leads through; also when the file is exchanged for a
\* link after the path was validated, unless that happens behind the last
\* look at it.  (That a directory above it has one of the other sensitive
\* names does not shield it.)
FsStaysInside ==
    fsExchanged # "unseen" =>
        \A p \in fsTouched :
            /\ IsPrefix(FsRoot, p)
            /\ ~Sensitive(p)
            /\ fsCall.tool # "search" => Kind(p) # "hard"
=============================================================================
