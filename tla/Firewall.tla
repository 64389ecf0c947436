------------------------------ MODULE Firewall ------------------------------
(***************************************************************************)
(* What a hub takes over from its upstreams: load_hub_tools_with_firewall  *)
(* and SupplyChainFirewall (src/src/hub.rs), with the file of quarantined  *)
(* upstreams, which the processes that run in one directory share.         *)
(*                                                                         *)
(* A process loads the servers of its configuration one after the other,   *)
(* and of each one tool after the other; it may load again, with the same  *)
(* firewall.  A definition of a tool is a description and a schema; equal  *)
(* hashes are equal values.  What an upstream offers differs from one      *)
(* start to the next.  Inserting into the quarantine and persisting it are *)
(* steps of their own, and between them other threads may insert; none     *)
(* does while the read lock is held, from the writing of the temporary     *)
(* file to its renaming.  Names start with Hub, for use beside other       *)
(* modules; X_Y is X with the bug Y (see Vault).                           *)
(***************************************************************************)
EXTENDS Integers, Sequences, SequencesExt, FiniteSets

CONSTANTS HubProcesses,
          HubConfigs,     \* configurations: sequences of servers
          HubOffers,      \* HubOffers[name]: lists of tools it may offer
          HubStarts       \* bound on the loads: of new processes, and again

Unset == 0
\* A tool, and what is expected of a server's tools.
HubTool == [name : STRING, wellNamed : BOOLEAN, desc : Nat, schema : Nat]

ASSUME HubAssumption ==
    /\ HubConfigs \subseteq Seq(HubTool)
    /\ \A u \in DOMAIN HubOffers : HubOffers[u] \subseteq Seq(HubTool)
    /\ \A c \in HubConfigs : \A i \in DOMAIN c : c[i].name \in DOMAIN HubOffers
    /\ HubStarts \in Nat

VARIABLES hub,        \* hub[p]: see HubState
          qfile,      \* quarantine.json
          servers,    \* the configuration
          guarded,    \* the hub is loaded with a firewall
          \* History variables.
          starts,     \* loads begun so far (bound)
          sealed,     \* upstreams whose quarantine was renamed into place
          overlap,    \* two processes have run at the same time
          unsaved,    \* a write of the file has failed
          blind,      \* running processes that could not read what was in the file
          forgotten   \* what such a process dropped from the file

hubHistory == <<starts, sealed, overlap, unsaved, blind, forgotten>>
hubVars == <<hub, qfile, servers, guarded, hubHistory>>

Names == {servers[i].name : i \in DOMAIN servers}

Off(p) == hub[p].loader = "off"
Running == {p \in HubProcesses : ~Off(p)}

\* loader: where load_hub_tools_with_firewall is; next: the server after the
\* current one; rest: of that, the tools not seen yet; seen, taken: what this
\* load was offered and has registered; tools: what the last complete one
\* registered; saving: where persist_quarantine is.
HubOff ==
    [loader |-> "off", next |-> 1, rest |-> <<>>, seen |-> {}, taken |-> {},
     tools |-> {}, pinned |-> <<>>, quarantined |-> {}, saving |-> "no"]

HubTypeOK ==
    /\ DOMAIN hub = HubProcesses
    /\ \A p \in HubProcesses :
        /\ DOMAIN hub[p] = DOMAIN HubOff
        /\ hub[p].loader \in {"off", "loading", "convicting", "idle", "failed"}
        /\ hub[p].next \in 1 .. Len(servers) + 1
        /\ hub[p].rest \in Seq(HubTool)
        /\ hub[p].seen \cup hub[p].taken \cup hub[p].tools \subseteq Names \X HubTool
        /\ DOMAIN hub[p].pinned \subseteq Names \X STRING
        /\ hub[p].quarantined \subseteq Names
        /\ hub[p].saving \in {"no", "write", "rename"}
    /\ qfile \subseteq Names
    /\ sealed \subseteq Names
    /\ blind \subseteq HubProcesses
    /\ forgotten \subseteq Names

HubInit ==
    /\ hub = [p \in HubProcesses |-> HubOff]
    /\ qfile = {}
    /\ servers \in HubConfigs
    /\ guarded \in BOOLEAN
    /\ starts = 0
    /\ sealed = {}
    /\ overlap = FALSE
    /\ unsaved = FALSE
    /\ blind = {}
    /\ forgotten = {}

OnlyHub == UNCHANGED <<qfile, servers, guarded, hubHistory>>

-----------------------------------------------------------------------------
(***************************************************************************)
(* The firewall.                                                           *)
(***************************************************************************)
Insertable(p) == hub[p].saving # "rename"

\* quarantined_upstreams.write().insert, as far as persist_quarantine.
Insert(p, u, loader) ==
    hub' = [hub EXCEPT ![p].quarantined = @ \cup {u}, ![p].saving = "write",
                       ![p].loader = loader]

\* SupplyChainFirewall::quarantine, by another thread of the process.
Quarantine(p, u) ==
    /\ guarded /\ ~Off(p)
    /\ u \notin hub[p].quarantined
    /\ Insertable(p)
    /\ Insert(p, u, hub[p].loader)
    /\ OnlyHub

WriteTemp(p) ==
    /\ hub[p].saving = "write"
    /\ hub' = [hub EXCEPT ![p].saving = "rename"]
    /\ OnlyHub

ToSave_Loaded(p) == hub[p].quarantined \ qfile

ToSave(p) == hub[p].quarantined

Rename(p) ==
    /\ hub[p].saving = "rename"
    /\ qfile' = ToSave(p)
    /\ sealed' = sealed \cup ToSave(p)
    /\ forgotten' = (IF p \in blind THEN forgotten \cup qfile ELSE forgotten) \ ToSave(p)
    /\ hub' = [hub EXCEPT ![p].saving = "no"]
    /\ UNCHANGED <<servers, guarded, starts, overlap, unsaved, blind>>

\* Errors of the write and of the rename are dropped.
SaveFails(p) ==
    /\ hub[p].saving # "no"
    /\ hub' = [hub EXCEPT ![p].saving = "no"]
    /\ unsaved' = TRUE
    /\ UNCHANGED <<qfile, servers, guarded, starts, sealed, overlap, blind, forgotten>>

\* What a server of the configuration is expected to offer: one hash of
\* each kind, or none, for all its tools.
Expected(i) == servers[i]

Refused(p, i) ==
    \/ servers[i].name \in hub[p].quarantined
    \/ Expected(i).desc = Unset /\ Expected(i).schema = Unset

Drifts_PinsForgotten(p, i, t) ==
    \/ Expected(i).desc \notin {Unset, t.desc}
    \/ Expected(i).schema \notin {Unset, t.schema}

Drifts(p, i, t) ==
    \/ Expected(i).desc \notin {Unset, t.desc}
    \/ Expected(i).schema \notin {Unset, t.schema}
    \/ LET key == <<servers[i].name, t.name>>
       IN  key \in DOMAIN hub[p].pinned /\ hub[p].pinned[key] # <<t.desc, t.schema>>

Pin(pinned, u, t) ==
    [key \in DOMAIN pinned \cup {<<u, t.name>>} |->
        IF key = <<u, t.name>> THEN <<t.desc, t.schema>> ELSE pinned[key]]

-----------------------------------------------------------------------------
(***************************************************************************)
(* The loading of the hub.                                                 *)
(***************************************************************************)

\* A process starts: with_quarantine_path reads the file.  One that cannot be
\* opened or parsed is taken for an empty one, without an error.
StartHub(p) ==
    /\ Off(p)
    /\ starts < HubStarts
    /\ \E known \in {qfile, {}} :
        /\ hub' = [hub EXCEPT ![p] = [HubOff EXCEPT !.loader = "loading",
                                                     !.quarantined = known]]
        /\ blind' = IF known = qfile THEN blind \ {p} ELSE blind \cup {p}
    /\ starts' = starts + 1
    /\ overlap' = (overlap \/ Running # {})
    /\ UNCHANGED <<qfile, servers, guarded, sealed, unsaved, forgotten>>

\* Loads once more, on what is pinned and quarantined so far.
LoadAgain(p) ==
    /\ hub[p].loader = "idle"
    /\ starts < HubStarts
    /\ hub' = [hub EXCEPT ![p].loader = "loading", ![p].next = 1, ![p].rest = <<>>,
                          ![p].seen = {}, ![p].taken = {}]
    /\ starts' = starts + 1
    /\ UNCHANGED <<qfile, servers, guarded, sealed, overlap, unsaved, blind, forgotten>>

StopHub(p) ==
    /\ ~Off(p)
    /\ hub' = [hub EXCEPT ![p] = HubOff]
    /\ blind' = blind \ {p}
    /\ UNCHANGED <<qfile, servers, guarded, starts, sealed, overlap, unsaved, forgotten>>

AtServer(p) ==
    /\ hub[p].loader = "loading"
    /\ hub[p].rest = <<>>
    /\ hub[p].next <= Len(servers)

\* A server with a name that could be mistaken for a prefix ends the load.
BadServer(p) ==
    /\ AtServer(p)
    /\ ~servers[hub[p].next].wellNamed
    /\ hub' = [hub EXCEPT ![p].loader = "failed"]
    /\ OnlyHub

\* One that does not start, or does not list its tools, is left out.
Lists(p) ==
    IF AtServer(p) THEN {<<>>} \cup HubOffers[servers[hub[p].next].name] ELSE {}

ListTools(p, list) ==
    /\ AtServer(p)
    /\ servers[hub[p].next].wellNamed
    /\ hub' = [hub EXCEPT ![p].next = @ + 1, ![p].rest = list,
                          ![p].seen = @ \cup ({servers[hub[p].next].name} \X ToSet(list))]
    /\ OnlyHub

Server(p) == servers[hub[p].next - 1].name

AtTool(p) == hub[p].loader = "loading" /\ hub[p].rest # <<>>
TheTool(p) == Head(hub[p].rest)

Ignored(p) ==
    \/ ~TheTool(p).wellNamed
    \/ \E e \in hub[p].taken : e[1] = Server(p) /\ e[2].name = TheTool(p).name

IgnoreTool(p) ==
    /\ AtTool(p)
    /\ Ignored(p)
    /\ hub' = [hub EXCEPT ![p].rest = Tail(@)]
    /\ OnlyHub

RefuseTool(p) ==
    /\ AtTool(p) /\ ~Ignored(p)
    /\ guarded /\ Refused(p, hub[p].next - 1)
    /\ hub' = [hub EXCEPT ![p].loader = "failed"]
    /\ OnlyHub

Convict(p) ==
    /\ AtTool(p) /\ ~Ignored(p)
    /\ guarded /\ ~Refused(p, hub[p].next - 1)
    /\ Drifts(p, hub[p].next - 1, TheTool(p))
    /\ Insertable(p)
    /\ Insert(p, Server(p), "convicting")
    /\ OnlyHub

\* verify_and_pin returns its error, and so does the load.
Convicted(p) ==
    /\ hub[p].loader = "convicting"
    /\ hub[p].saving = "no"
    /\ hub' = [hub EXCEPT ![p].loader = "failed"]
    /\ OnlyHub

TakeTool(p) ==
    /\ AtTool(p) /\ ~Ignored(p)
    /\ guarded => ~Refused(p, hub[p].next - 1) /\ ~Drifts(p, hub[p].next - 1, TheTool(p))
    /\ hub' = [hub EXCEPT ![p].rest = Tail(@),
                          ![p].taken = @ \cup {<<Server(p), TheTool(p)>>},
                          ![p].pinned = IF guarded THEN Pin(@, Server(p), TheTool(p)) ELSE @]
    /\ OnlyHub

Loaded(p) ==
    /\ hub[p].loader = "loading"
    /\ hub[p].rest = <<>>
    /\ hub[p].next > Len(servers)
    /\ hub' = [hub EXCEPT ![p].loader = "idle", ![p].tools = hub[p].taken]
    /\ OnlyHub

HubNext ==
    \E p \in HubProcesses :
        \/ StartHub(p) \/ LoadAgain(p) \/ StopHub(p)
        \/ BadServer(p)
        \/ \E list \in Lists(p) : ListTools(p, list)
        \/ IgnoreTool(p) \/ RefuseTool(p) \/ Convict(p) \/ Convicted(p)
        \/ TakeTool(p) \/ Loaded(p)
        \/ \E u \in Names : Quarantine(p, u)
        \/ WriteTemp(p) \/ Rename(p) \/ SaveFails(p)

HubSpec == HubInit /\ [][HubNext]_hubVars
-----------------------------------------------------------------------------
(* Properties.                                                             *)

\* ProxiedTool::execute goes to the upstream unless it is quarantined.
Callable(p) ==
    {e \in hub[p].tools : guarded => e[1] \notin hub[p].quarantined}

\* What a hub with a firewall can call has the hashes its configuration
\* names and, of a kind the configuration does not name, those the process
\* first saw, however often it loads and whatever its upstreams offer; and
\* no two of its tools have one name.
CallableAsPinned ==
    \A p \in HubProcesses : \A e \in Callable(p) :
        /\ guarded =>
            /\ \E i \in DOMAIN servers :
                /\ servers[i].name = e[1]
                /\ Expected(i).desc \in {Unset, e[2].desc}
                /\ Expected(i).schema \in {Unset, e[2].schema}
            /\ hub[p].pinned[<<e[1], e[2].name>>] = <<e[2].desc, e[2].schema>>
        /\ \A d \in hub[p].tools :
            d[1] = e[1] /\ d[2].name = e[2].name => d = e

\* A quarantine outlives the process: once it is in the file, every process
\* that reads the file when it starts knows it, provided that no two processes
\* ever ran at the same time; and while no write failed, a process that is not
\* saving has what it quarantined in the file.  A process that could not read
\* the file knows of nothing, and the file keeps what is in it only until that
\* process saves a quarantine of its own: what it drops is forgotten.
QuarantineLasts ==
    ~overlap =>
        /\ sealed \ forgotten \subseteq qfile
        /\ \A p \in Running :
            /\ p \notin blind => sealed \ forgotten \subseteq hub[p].quarantined
            /\ hub[p].saving = "no" /\ ~unsaved =>
                 \/ hub[p].quarantined = qfile
                 \/ p \in blind /\ hub[p].quarantined = {}

\* A load that ends well has registered every tool with a proper name that
\* any upstream listed: none is missing because of a firewall that only
\* skips what it refuses.
LoadedWhole ==
    \A p \in HubProcesses :
        hub[p].loader = "idle" =>
            {<<e[1], e[2].name>> : e \in {d \in hub[p].seen : d[2].wellNamed}}
              = {<<e[1], e[2].name>> : e \in hub[p].tools}

\* Both: no tool too many, and none too few.
HubAsConfigured == CallableAsPinned /\ LoadedWhole
=============================================================================
