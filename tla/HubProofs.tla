------------------------------ MODULE HubProofs ------------------------------
(***************************************************************************)
(* What holds of the hub: of what it takes over from its upstreams and of  *)
(* the file of quarantined ones (Firewall), for any processes,             *)
(* configurations, offers and number of loads; and of the circuit breaker, *)
(* for every finite set of calls, every limit of errors and every period.  *)
(***************************************************************************)
EXTENDS Firewall, CircuitBreaker, FiniteSetTheorems, SequenceTheorems, TLAPS

-----------------------------------------------------------------------------
(***************************************************************************)
(* Firewall.  The inductive invariant speaks of each process by itself:    *)
(* what it has taken and registered is pinned as it is; while it loads,    *)
(* what it has taken and what is left of the current list make up all that *)
(* it was offered.  Of the shared file: if no two processes ever ran at a  *)
(* time, the one that runs knows all that was ever renamed into place, so  *)
(* that what it puts there next loses nothing.                             *)
(***************************************************************************)
HubFields == {"loader", "next", "rest", "seen", "taken", "tools", "pinned",
              "quarantined", "saving"}

HubTyped ==
    /\ HubTypeOK
    /\ servers \in HubConfigs
    /\ \A p \in HubProcesses : Off(p) => hub[p].saving = "no"

HubKeys(S) == {<<e[1], e[2].name>> : e \in S}
HubProper(S) == {e \in S : e[2].wellNamed}

HubPinned ==
    guarded =>
        \A p \in HubProcesses : \A e \in hub[p].taken \cup hub[p].tools :
            /\ \E i \in DOMAIN servers :
                /\ servers[i].name = e[1]
                /\ Expected(i).desc \in {Unset, e[2].desc}
                /\ Expected(i).schema \in {Unset, e[2].schema}
            /\ <<e[1], e[2].name>> \in DOMAIN hub[p].pinned
            /\ hub[p].pinned[<<e[1], e[2].name>>] = <<e[2].desc, e[2].schema>>

HubOneOfAName(S) ==
    \A d, e \in S : d[1] = e[1] /\ d[2].name = e[2].name => d = e

HubNoDoubles ==
    \A p \in HubProcesses : HubOneOfAName(hub[p].taken) /\ HubOneOfAName(hub[p].tools)

\* The rest of the current list, with its server.
HubAhead(r) ==
    IF r.rest = <<>> THEN {} ELSE {servers[r.next - 1].name} \X ToSet(r.rest)

HubBooks(r) ==
    /\ r.loader = "loading" /\ r.rest # <<>> => r.next > 1
    /\ r.loader = "loading" =>
         HubKeys(HubProper(r.seen)) = HubKeys(r.taken) \cup HubKeys(HubProper(HubAhead(r)))
    /\ r.loader = "idle" => HubKeys(HubProper(r.seen)) = HubKeys(r.tools)

HubAccounted == \A p \in HubProcesses : HubBooks(hub[p])

HubAlone == ~overlap => \A p, q \in Running : p = q

HubIInv ==
    /\ HubTyped
    /\ HubPinned
    /\ HubNoDoubles
    /\ HubAccounted
    /\ HubAlone
    /\ QuarantineLasts

(***************************************************************************)
(* What the steps of a process change of its state.                        *)
(***************************************************************************)
HubChanges(p, S) ==
    /\ DOMAIN hub' = HubProcesses
    /\ \A q \in HubProcesses : DOMAIN hub'[q] = HubFields
    /\ \A q \in HubProcesses \ {p} : hub'[q] = hub[q]
    /\ \A f \in HubFields \ S : hub'[p][f] = hub[p][f]
    /\ UNCHANGED <<servers, guarded>>

LEMMA HubRecords ==
    ASSUME HubTypeOK
    PROVE  DOMAIN hub = HubProcesses /\ \A p \in HubProcesses : DOMAIN hub[p] = HubFields
BY DEF HubTypeOK, HubOff, HubFields

LEMMA StartEffect ==
    ASSUME HubTypeOK, NEW p \in HubProcesses, StartHub(p)
    PROVE  /\ HubChanges(p, HubFields)
           /\ hub'[p].loader = "loading" /\ hub'[p].next = 1 /\ hub'[p].rest = <<>>
           /\ hub'[p].seen = {} /\ hub'[p].taken = {} /\ hub'[p].tools = {}
           /\ DOMAIN hub'[p].pinned = {}
           /\ hub'[p].saving = "no"
           /\ hub'[p].quarantined \in {qfile, {}}
           /\ p \notin blind' => hub'[p].quarantined = qfile
           /\ \A q \in HubProcesses \ {p} : q \in blind' <=> q \in blind
<1> DEFINE Begun(known) ==
      hub' = [hub EXCEPT ![p] = [HubOff EXCEPT !.loader = "loading",
                                               !.quarantined = known]]
<1>1. PICK known \in {qfile, {}} :
        /\ Begun(known)
        /\ blind' = IF known = qfile THEN blind \ {p} ELSE blind \cup {p}
  BY Zenon DEF StartHub
<1>2. UNCHANGED <<servers, guarded>>
  BY DEF StartHub
<1>3. /\ HubChanges(p, HubFields)
      /\ hub'[p].loader = "loading" /\ hub'[p].next = 1 /\ hub'[p].rest = <<>>
      /\ hub'[p].seen = {} /\ hub'[p].taken = {} /\ hub'[p].tools = {}
      /\ DOMAIN hub'[p].pinned = {}
      /\ hub'[p].saving = "no"
      /\ hub'[p].quarantined = known
  BY <1>1, <1>2, HubRecords DEF HubOff, HubFields, HubChanges
<1> HIDE DEF Begun
<1> QED
  BY <1>1, <1>3

LEMMA AgainEffect ==
    ASSUME HubTypeOK, NEW p \in HubProcesses, LoadAgain(p)
    PROVE  /\ HubChanges(p, {"loader", "next", "rest", "seen", "taken"})
           /\ hub'[p].loader = "loading" /\ hub'[p].next = 1 /\ hub'[p].rest = <<>>
           /\ hub'[p].seen = {} /\ hub'[p].taken = {}
BY HubRecords DEF LoadAgain, HubFields, HubChanges

LEMMA StopEffect ==
    ASSUME HubTypeOK, NEW p \in HubProcesses, StopHub(p)
    PROVE  /\ HubChanges(p, HubFields)
           /\ hub'[p].loader = "off" /\ hub'[p].next = 1 /\ hub'[p].rest = <<>>
           /\ hub'[p].seen = {} /\ hub'[p].taken = {} /\ hub'[p].tools = {}
           /\ DOMAIN hub'[p].pinned = {}
           /\ hub'[p].quarantined = {} /\ hub'[p].saving = "no"
BY HubRecords DEF StopHub, HubOff, HubFields, HubChanges

LEMMA FailEffect ==
    ASSUME HubTypeOK, NEW p \in HubProcesses,
           BadServer(p) \/ RefuseTool(p) \/ Convicted(p)
    PROVE  /\ HubChanges(p, {"loader"})
           /\ hub'[p].loader = "failed"
           /\ hub[p].loader \in {"loading", "convicting"}
BY HubRecords
   DEF BadServer, RefuseTool, Convicted, AtServer, AtTool, HubFields, HubChanges,
       OnlyHub, hubHistory

LEMMA ListEffect ==
    ASSUME HubTypeOK, NEW p \in HubProcesses, NEW list, ListTools(p, list)
    PROVE  /\ HubChanges(p, {"next", "rest", "seen"})
           /\ hub'[p].next = hub[p].next + 1
           /\ hub'[p].rest = list
           /\ hub'[p].seen = hub[p].seen \cup
                 ({servers[hub[p].next].name} \X ToSet(list))
BY HubRecords DEF ListTools, HubFields, HubChanges, OnlyHub, hubHistory

LEMMA IgnoreEffect ==
    ASSUME HubTypeOK, NEW p \in HubProcesses, IgnoreTool(p)
    PROVE  /\ HubChanges(p, {"rest"})
           /\ hub'[p].rest = Tail(hub[p].rest)
BY HubRecords DEF IgnoreTool, HubFields, HubChanges, OnlyHub, hubHistory

LEMMA InsertEffect ==
    ASSUME HubTypeOK, NEW p \in HubProcesses, NEW u, NEW loader,
           Insert(p, u, loader), OnlyHub
    PROVE  /\ HubChanges(p, {"quarantined", "saving", "loader"})
           /\ hub'[p].quarantined = hub[p].quarantined \cup {u}
           /\ hub'[p].saving = "write"
           /\ hub'[p].loader = loader
BY HubRecords DEF Insert, HubFields, HubChanges, OnlyHub, hubHistory

LEMMA TakeEffect ==
    ASSUME HubTypeOK, NEW p \in HubProcesses, TakeTool(p)
    PROVE  /\ HubChanges(p, {"rest", "taken", "pinned"})
           /\ hub'[p].rest = Tail(hub[p].rest)
           /\ hub'[p].taken = hub[p].taken \cup {<<Server(p), TheTool(p)>>}
           /\ hub'[p].pinned = IF guarded THEN Pin(hub[p].pinned, Server(p), TheTool(p))
                               ELSE hub[p].pinned
BY HubRecords DEF TakeTool, HubFields, HubChanges, OnlyHub, hubHistory

LEMMA LoadedEffect ==
    ASSUME HubTypeOK, NEW p \in HubProcesses, Loaded(p)
    PROVE  /\ HubChanges(p, {"loader", "tools"})
           /\ hub'[p].loader = "idle"
           /\ hub'[p].tools = hub[p].taken
BY HubRecords DEF Loaded, HubFields, HubChanges, OnlyHub, hubHistory

LEMMA SaveEffect ==
    ASSUME HubTypeOK, NEW p \in HubProcesses,
           WriteTemp(p) \/ Rename(p) \/ SaveFails(p)
    PROVE  /\ HubChanges(p, {"saving"})
           /\ hub'[p].saving \in {"no", "rename"}
           /\ hub[p].saving # "no"
BY HubRecords DEF WriteTemp, Rename, SaveFails, HubFields, HubChanges, OnlyHub, hubHistory

LEMMA HubCases ==
    ASSUME [HubNext]_hubVars
    PROVE  \/ UNCHANGED hubVars
           \/ \E p \in HubProcesses :
                \/ StartHub(p) \/ LoadAgain(p) \/ StopHub(p)
                \/ BadServer(p) \/ RefuseTool(p) \/ Convicted(p)
                \/ \E list \in Lists(p) : ListTools(p, list)
                \/ IgnoreTool(p) \/ TakeTool(p) \/ Loaded(p)
                \/ Convict(p) \/ \E u \in Names : Quarantine(p, u)
                \/ WriteTemp(p) \/ Rename(p) \/ SaveFails(p)
BY Zenon DEF HubNext

(***************************************************************************)
(* The tool and the server that a load is at.                              *)
(***************************************************************************)
LEMMA ToolsOfList ==
    ASSUME NEW list \in Seq(HubTool)
    PROVE  /\ ToSet(list) \subseteq HubTool
           /\ list # <<>> => /\ Head(list) \in HubTool
                             /\ Tail(list) \in Seq(HubTool)
                             /\ ToSet(list) = {Head(list)} \cup ToSet(Tail(list))
           /\ list = <<>> => ToSet(list) = {}
<1>0. ToSet(list) = {list[i] : i \in 1 .. Len(list)} /\ Len(list) \in Nat
  BY LenProperties DEF ToSet
<1>1. ToSet(list) \subseteq HubTool
  BY <1>0, ElementOfSeq
<1>2. ASSUME list # <<>>
      PROVE  /\ Head(list) \in HubTool
             /\ Tail(list) \in Seq(HubTool)
             /\ ToSet(list) = {Head(list)} \cup ToSet(Tail(list))
  <2>1. /\ Head(list) = list[1] /\ Len(list) \in Nat \ {0}
        /\ Tail(list) \in Seq(HubTool)
        /\ Len(Tail(list)) = Len(list) - 1
        /\ \A i \in 1 .. Len(Tail(list)) : Tail(list)[i] = list[i + 1]
    BY <1>2, HeadTailProperties, LenProperties, EmptySeq
  <2>2. ToSet(Tail(list)) = {Tail(list)[i] : i \in 1 .. Len(Tail(list))}
    BY <2>1, LenProperties DEF ToSet
  <2>3. ToSet(Tail(list)) \subseteq ToSet(list) /\ Head(list) \in ToSet(list)
    BY <1>0, <2>1, <2>2
  <2>4. ASSUME NEW t \in ToSet(list) PROVE t \in {Head(list)} \cup ToSet(Tail(list))
    <3>1. PICK i \in 1 .. Len(list) : t = list[i]
      BY <1>0
    <3>2. CASE i = 1
      BY <2>1, <3>1, <3>2
    <3>3. CASE i # 1
      <4>1. i - 1 \in 1 .. Len(Tail(list)) /\ Tail(list)[i - 1] = list[i]
        BY <2>1, <3>3
      <4> QED
        BY <2>2, <3>1, <4>1
    <3> QED
      BY <3>2, <3>3
  <2> QED
    BY <1>1, <2>1, <2>3, <2>4
<1>3. list = <<>> => ToSet(list) = {}
  BY <1>0, EmptySeq
<1> QED
  BY <1>1, <1>2, <1>3

LEMMA ServersOfHub ==
    ASSUME HubTyped
    PROVE  /\ servers \in Seq(HubTool)
           /\ Len(servers) \in Nat
           /\ DOMAIN servers = 1 .. Len(servers)
           /\ \A i \in 1 .. Len(servers) : servers[i].name \in Names
<1>1. servers \in Seq(HubTool)
  BY HubAssumption DEF HubTyped
<1> QED
  BY <1>1, LenProperties DEF Names

LEMMA AtToolFacts ==
    ASSUME HubTyped, HubAccounted, NEW p \in HubProcesses, AtTool(p)
    PROVE  /\ hub[p].next - 1 \in DOMAIN servers
           /\ Server(p) = servers[hub[p].next - 1].name
           /\ Server(p) \in Names
           /\ TheTool(p) \in HubTool
           /\ Tail(hub[p].rest) \in Seq(HubTool)
           /\ ToSet(hub[p].rest) = {TheTool(p)} \cup ToSet(Tail(hub[p].rest))
<1>1. hub[p].next > 1 /\ hub[p].next \in 1 .. Len(servers) + 1
  BY DEF HubAccounted, HubBooks, AtTool, HubTyped, HubTypeOK
<1>2. hub[p].rest \in Seq(HubTool) /\ hub[p].rest # <<>>
  BY DEF HubTyped, HubTypeOK, AtTool
<1>3. hub[p].next - 1 \in 1 .. Len(servers)
  BY <1>1, ServersOfHub
<1> QED
  BY <1>2, <1>3, ServersOfHub, ToolsOfList DEF Server, TheTool

LEMMA AtServerFacts ==
    ASSUME HubTyped, NEW p \in HubProcesses, NEW list \in Lists(p)
    PROVE  /\ AtServer(p)
           /\ hub[p].next \in 1 .. Len(servers)
           /\ servers[hub[p].next].name \in Names
           /\ list \in Seq(HubTool)
<1>1. AtServer(p)
  BY DEF Lists
<1>2. hub[p].next \in 1 .. Len(servers)
  BY <1>1, ServersOfHub DEF AtServer, HubTyped, HubTypeOK
<1>3. servers[hub[p].next].name \in DOMAIN HubOffers
  BY <1>2, ServersOfHub, HubAssumption DEF HubTyped
<1>4. list \in Seq(HubTool)
  <2>1. CASE list = <<>>
    BY <2>1, EmptySeq
  <2>2. CASE list \in HubOffers[servers[hub[p].next].name]
    BY <1>3, <2>2, HubAssumption
  <2> QED
    BY <1>1, <2>1, <2>2 DEF Lists
<1> QED
  BY <1>1, <1>2, <1>4, ServersOfHub

LEMMA HubKept ==
    ASSUME NEW p \in HubProcesses, NEW S, HubChanges(p, S)
    PROVE  /\ "loader" \notin S => hub'[p].loader = hub[p].loader
           /\ "next" \notin S => hub'[p].next = hub[p].next
           /\ "rest" \notin S => hub'[p].rest = hub[p].rest
           /\ "seen" \notin S => hub'[p].seen = hub[p].seen
           /\ "taken" \notin S => hub'[p].taken = hub[p].taken
           /\ "tools" \notin S => hub'[p].tools = hub[p].tools
           /\ "pinned" \notin S => hub'[p].pinned = hub[p].pinned
           /\ "quarantined" \notin S => hub'[p].quarantined = hub[p].quarantined
           /\ "saving" \notin S => hub'[p].saving = hub[p].saving
           /\ DOMAIN hub' = HubProcesses
           /\ \A q \in HubProcesses : DOMAIN hub'[q] = HubFields
           /\ \A q \in HubProcesses \ {p} : hub'[q] = hub[q]
           /\ UNCHANGED <<servers, guarded>>
BY DEF HubChanges, HubFields

\* The shared file and what is known of it hold names of servers.
LEMMA HubTypedStep == HubIInv /\ [HubNext]_hubVars => HubTyped'
<1> DEFINE Typed(r) ==
      /\ DOMAIN r = HubFields
      /\ r.loader \in {"off", "loading", "convicting", "idle", "failed"}
      /\ r.next \in 1 .. Len(servers) + 1
      /\ r.rest \in Seq(HubTool)
      /\ r.seen \cup r.taken \cup r.tools \subseteq Names \X HubTool
      /\ DOMAIN r.pinned \subseteq Names \X STRING
      /\ r.quarantined \subseteq Names
      /\ r.saving \in {"no", "write", "rename"}
      /\ r.loader = "off" => r.saving = "no"
<1> SUFFICES ASSUME HubIInv, [HubNext]_hubVars PROVE HubTyped'
  OBVIOUS
<1>0. /\ HubTypeOK /\ servers \in HubConfigs
      /\ qfile \subseteq Names /\ sealed \subseteq Names
      /\ blind \subseteq HubProcesses /\ forgotten \subseteq Names
      /\ \A q \in HubProcesses : Typed(hub[q])
  BY HubRecords DEF HubIInv, HubTyped, HubTypeOK, Off
<1>1. ASSUME NEW p \in HubProcesses, NEW S, HubChanges(p, S), Typed(hub'[p]),
             qfile' \subseteq Names, sealed' \subseteq Names,
             blind' \subseteq HubProcesses, forgotten' \subseteq Names
      PROVE  HubTyped'
  <2>1. \A q \in HubProcesses : Typed(hub'[q])
    BY <1>0, <1>1 DEF HubChanges
  <2>2. servers' = servers /\ Names' = Names /\ DOMAIN hub' = HubProcesses
    BY <1>1 DEF HubChanges, Names
  <2>3. DOMAIN HubOff = HubFields
    BY DEF HubOff, HubFields
  <2> HIDE <1>1
  <2> QED
    BY <1>0, <1>1, <2>1, <2>2, <2>3 DEF HubTyped, HubTypeOK, Off
<1>2. ASSUME NEW p \in HubProcesses, StartHub(p) PROVE HubTyped'
  <2>1. Typed(hub'[p])
    <3>1. hub'[p].next \in 1 .. Len(servers) + 1
      BY <1>0, <1>2, StartEffect, ServersOfHub DEF HubIInv
    <3>2. <<>> \in Seq(HubTool) /\ DOMAIN hub'[p] = HubFields
      BY <1>0, <1>2, EmptySeq, StartEffect DEF HubChanges
    <3>3. /\ hub'[p].loader = "loading" /\ hub'[p].rest = <<>>
          /\ hub'[p].seen = {} /\ hub'[p].taken = {} /\ hub'[p].tools = {}
          /\ DOMAIN hub'[p].pinned = {}
          /\ hub'[p].quarantined \in {qfile, {}} /\ hub'[p].saving = "no"
      BY <1>0, <1>2, StartEffect
    <3> QED
      BY <1>0, <3>1, <3>2, <3>3
  <2>2. UNCHANGED <<qfile, sealed, forgotten>> /\ blind' \subseteq blind \cup {p}
    BY <1>2 DEF StartHub
  <2>3. blind' \subseteq HubProcesses
    BY <1>0, <2>2
  <2>4. HubChanges(p, HubFields)
    BY <1>0, <1>2, StartEffect
  <2> QED
    BY <1>0, <1>1, <2>1, <2>2, <2>3, <2>4
<1>3. ASSUME NEW p \in HubProcesses, LoadAgain(p) PROVE HubTyped'
  <2>1. HubChanges(p, {"loader", "next", "rest", "seen", "taken"})
    BY <1>0, <1>3, AgainEffect
  <2>2. Typed(hub'[p])
    <3>1. hub'[p].next \in 1 .. Len(servers) + 1
      BY <1>0, <1>3, AgainEffect, ServersOfHub DEF HubIInv
    <3>2. /\ hub'[p].loader = "loading" /\ hub'[p].rest \in Seq(HubTool)
          /\ hub'[p].seen = {} /\ hub'[p].taken = {}
      BY <1>0, <1>3, AgainEffect, EmptySeq
    <3>3. /\ DOMAIN hub'[p] = HubFields
          /\ hub'[p].tools = hub[p].tools /\ hub'[p].pinned = hub[p].pinned
          /\ hub'[p].quarantined = hub[p].quarantined
          /\ hub'[p].saving = hub[p].saving
      BY <2>1, HubKept
    <3> QED
      BY <1>0, <3>1, <3>2, <3>3
  <2>3. UNCHANGED <<qfile, sealed, blind, forgotten>>
    BY <1>3 DEF LoadAgain
  <2> QED
    BY <1>0, <1>1, <2>1, <2>2, <2>3
<1>4. ASSUME NEW p \in HubProcesses, StopHub(p) PROVE HubTyped'
  <2>1. HubChanges(p, HubFields)
    BY <1>0, <1>4, StopEffect
  <2>2. Typed(hub'[p])
    <3>1. hub'[p].next \in 1 .. Len(servers) + 1
      BY <1>0, <1>4, StopEffect, ServersOfHub DEF HubIInv
    <3>2. /\ hub'[p].loader = "off" /\ hub'[p].rest = <<>>
          /\ hub'[p].seen = {} /\ hub'[p].taken = {} /\ hub'[p].tools = {}
          /\ DOMAIN hub'[p].pinned = {}
          /\ hub'[p].quarantined = {} /\ hub'[p].saving = "no"
      BY <1>0, <1>4, StopEffect
    <3>3. DOMAIN hub'[p] = HubFields
      BY <2>1, HubKept
    <3> QED
      BY <3>1, <3>2, <3>3, EmptySeq
  <2>3. UNCHANGED <<qfile, sealed, forgotten>> /\ blind' \subseteq blind
    BY <1>4 DEF StopHub
  <2> QED
    BY <1>0, <1>1, <2>1, <2>2, <2>3
<1>5. ASSUME NEW p \in HubProcesses, BadServer(p) \/ RefuseTool(p) \/ Convicted(p)
      PROVE  HubTyped'
  <2>1. HubChanges(p, {"loader"}) /\ hub'[p].loader = "failed"
    BY <1>0, <1>5, FailEffect
  <2>2. Typed(hub'[p])
    BY <1>0, <2>1, HubKept
  <2>3. UNCHANGED <<qfile, sealed, blind, forgotten>>
    BY <1>5 DEF BadServer, RefuseTool, Convicted, OnlyHub, hubHistory
  <2> QED
    BY <1>0, <1>1, <2>1, <2>2, <2>3
<1>6. ASSUME NEW p \in HubProcesses, NEW list \in Lists(p), ListTools(p, list)
      PROVE  HubTyped'
  <2>1. /\ HubChanges(p, {"next", "rest", "seen"})
        /\ hub'[p].next = hub[p].next + 1
        /\ hub'[p].rest = list
        /\ hub'[p].seen = hub[p].seen \cup ({servers[hub[p].next].name} \X ToSet(list))
    BY <1>0, <1>6, ListEffect
  <2>2. /\ hub[p].next \in 1 .. Len(servers) /\ Len(servers) \in Nat
        /\ servers[hub[p].next].name \in Names
        /\ list \in Seq(HubTool) /\ ToSet(list) \subseteq HubTool
    BY AtServerFacts, ServersOfHub, ToolsOfList DEF HubIInv
  <2>3. /\ hub'[p].next \in 1 .. Len(servers) + 1
        /\ hub'[p].rest \in Seq(HubTool)
        /\ hub'[p].seen \subseteq Names \X HubTool
    BY <1>0, <2>1, <2>2
  <2>4. Typed(hub'[p])
    <3>1. /\ DOMAIN hub'[p] = HubFields /\ UNCHANGED servers
          /\ hub'[p].loader = hub[p].loader /\ hub'[p].saving = hub[p].saving
          /\ hub'[p].taken = hub[p].taken /\ hub'[p].tools = hub[p].tools
          /\ hub'[p].pinned = hub[p].pinned /\ hub'[p].quarantined = hub[p].quarantined
      BY <2>1, HubKept
    <3> QED
      BY <1>0, <2>3, <3>1
  <2>5. UNCHANGED <<qfile, sealed, blind, forgotten>>
    BY <1>6 DEF ListTools, OnlyHub, hubHistory
  <2> QED
    BY <1>0, <1>1, <2>1, <2>4, <2>5
<1>7. ASSUME NEW p \in HubProcesses, IgnoreTool(p) PROVE HubTyped'
  <2>1. HubChanges(p, {"rest"}) /\ hub'[p].rest \in Seq(HubTool)
    BY <1>0, <1>7, IgnoreEffect, AtToolFacts DEF HubIInv, IgnoreTool
  <2>2. Typed(hub'[p])
    BY <1>0, <2>1, HubKept
  <2>3. UNCHANGED <<qfile, sealed, blind, forgotten>>
    BY <1>7 DEF IgnoreTool, OnlyHub, hubHistory
  <2> QED
    BY <1>0, <1>1, <2>1, <2>2, <2>3
<1>8. ASSUME NEW p \in HubProcesses, TakeTool(p) PROVE HubTyped'
  <2>1. /\ HubChanges(p, {"rest", "taken", "pinned"})
        /\ hub'[p].taken = hub[p].taken \cup {<<Server(p), TheTool(p)>>}
        /\ hub'[p].pinned = IF guarded THEN Pin(hub[p].pinned, Server(p), TheTool(p))
                            ELSE hub[p].pinned
        /\ hub'[p].rest = Tail(hub[p].rest)
    BY <1>0, <1>8, TakeEffect
  <2>2. /\ Server(p) \in Names /\ TheTool(p) \in HubTool
        /\ Tail(hub[p].rest) \in Seq(HubTool)
    BY <1>8, AtToolFacts DEF HubIInv, TakeTool
  <2>3. TheTool(p).name \in STRING
    BY <2>2 DEF HubTool
  <2>4. DOMAIN hub'[p].pinned \subseteq Names \X STRING
    <3>1. DOMAIN Pin(hub[p].pinned, Server(p), TheTool(p))
            = DOMAIN hub[p].pinned \cup {<<Server(p), TheTool(p).name>>}
      BY DEF Pin
    <3>2. DOMAIN hub[p].pinned \cup {<<Server(p), TheTool(p).name>>} \subseteq Names \X STRING
      <4>1. <<Server(p), TheTool(p).name>> \in Names \X STRING
        BY <2>2, <2>3
      <4> QED
        BY <1>0, <4>1
    <3> QED
      BY <2>1, <3>1, <3>2
  <2>5. hub'[p].taken \subseteq Names \X HubTool
    BY <1>0, <2>1, <2>2
  <2>6. Typed(hub'[p])
    BY <1>0, <2>1, <2>2, <2>4, <2>5, HubKept
  <2>7. UNCHANGED <<qfile, sealed, blind, forgotten>>
    BY <1>8 DEF TakeTool, OnlyHub, hubHistory
  <2> QED
    BY <1>0, <1>1, <2>1, <2>6, <2>7
<1>9. ASSUME NEW p \in HubProcesses, Loaded(p) PROVE HubTyped'
  <2>1. /\ HubChanges(p, {"loader", "tools"})
        /\ hub'[p].loader = "idle" /\ hub'[p].tools = hub[p].taken
    BY <1>0, <1>9, LoadedEffect
  <2>2. Typed(hub'[p])
    <3>1. /\ DOMAIN hub'[p] = HubFields /\ UNCHANGED servers
          /\ hub'[p].next = hub[p].next /\ hub'[p].rest = hub[p].rest
          /\ hub'[p].seen = hub[p].seen /\ hub'[p].taken = hub[p].taken
          /\ hub'[p].pinned = hub[p].pinned /\ hub'[p].saving = hub[p].saving
          /\ hub'[p].quarantined = hub[p].quarantined
      BY <2>1, HubKept
    <3> QED
      BY <1>0, <2>1, <3>1
  <2>3. UNCHANGED <<qfile, sealed, blind, forgotten>>
    BY <1>9 DEF Loaded, OnlyHub, hubHistory
  <2> QED
    BY <1>0, <1>1, <2>1, <2>2, <2>3
<1>10. ASSUME NEW p \in HubProcesses, NEW u \in Names,
              NEW loader \in {"convicting", hub[p].loader},
              Insert(p, u, loader), OnlyHub, hub[p].loader # "off"
       PROVE  HubTyped'
  <2>1. /\ HubChanges(p, {"quarantined", "saving", "loader"})
        /\ hub'[p].quarantined = hub[p].quarantined \cup {u}
        /\ hub'[p].saving = "write" /\ hub'[p].loader = loader
    BY <1>0, <1>10, InsertEffect
  <2>2. Typed(hub'[p])
    <3>1. loader \in {"loading", "convicting", "idle", "failed"}
      BY <1>0, <1>10
    <3>2. hub[p].quarantined \cup {u} \subseteq Names
      BY <1>0
    <3>3. /\ DOMAIN hub'[p] = HubFields
          /\ hub'[p].next = hub[p].next /\ hub'[p].rest = hub[p].rest
          /\ hub'[p].seen = hub[p].seen /\ hub'[p].taken = hub[p].taken
          /\ hub'[p].tools = hub[p].tools /\ hub'[p].pinned = hub[p].pinned
      BY <2>1, HubKept
    <3> QED
      BY <1>0, <2>1, <3>1, <3>2, <3>3
  <2>3. UNCHANGED <<qfile, sealed, blind, forgotten>>
    BY <1>10 DEF OnlyHub, hubHistory
  <2> QED
    BY <1>0, <1>1, <2>1, <2>2, <2>3
<1>11. ASSUME NEW p \in HubProcesses, Convict(p) PROVE HubTyped'
  <2>1. Server(p) \in Names
    BY <1>11, AtToolFacts DEF HubIInv, Convict
  <2> QED
    BY <1>10, <1>11, <2>1 DEF Convict, AtTool
<1>12. ASSUME NEW p \in HubProcesses, NEW u \in Names, Quarantine(p, u) PROVE HubTyped'
  BY <1>10, <1>12 DEF Quarantine, Off
<1>13. ASSUME NEW p \in HubProcesses, WriteTemp(p) \/ Rename(p) \/ SaveFails(p)
       PROVE  HubTyped'
  <2>1. /\ HubChanges(p, {"saving"})
        /\ hub'[p].saving \in {"no", "rename"} /\ hub[p].saving # "no"
    BY <1>0, <1>13, SaveEffect
  <2>2. Typed(hub'[p])
    BY <1>0, <2>1, HubKept
  <2>3. /\ qfile' \subseteq qfile \cup hub[p].quarantined
        /\ sealed' \subseteq sealed \cup hub[p].quarantined
        /\ blind' = blind /\ forgotten' \subseteq forgotten \cup qfile
    BY <1>13 DEF WriteTemp, Rename, SaveFails, ToSave, OnlyHub, hubHistory
  <2> QED
    BY <1>0, <1>1, <2>1, <2>2, <2>3
<1>14. CASE UNCHANGED hubVars
  BY <1>14 DEF hubVars, hubHistory, HubIInv, HubTyped, HubTypeOK, Names, Off
<1> QED
  BY <1>2, <1>3, <1>4, <1>5, <1>6, <1>7, <1>8, <1>9, <1>11, <1>12, <1>13,
     <1>14, HubCases

\* But for TakeTool no step of a process adds to its tools or its pins.
HubToolsKept(q) ==
    \/ hub'[q].taken = {} /\ hub'[q].tools = {}
    \/ /\ hub'[q].pinned = hub[q].pinned
       /\ hub'[q].taken \in {hub[q].taken, {}}
       /\ hub'[q].tools \in {hub[q].tools, hub[q].taken}

HubTakesOnly ==
    /\ UNCHANGED <<servers, guarded>>
    /\ \A q \in HubProcesses : TakeTool(q) \/ HubToolsKept(q)

LEMMA HubOnlyTaken ==
    ASSUME HubIInv, [HubNext]_hubVars
    PROVE  HubTakesOnly
<1>0. HubTypeOK
  BY DEF HubIInv, HubTyped
<1>1. ASSUME NEW p \in HubProcesses, NEW S, HubChanges(p, S),
             TakeTool(p) \/ HubToolsKept(p)
      PROVE  HubTakesOnly
  BY <1>1, HubKept DEF HubTakesOnly, HubToolsKept
<1>2. ASSUME NEW p \in HubProcesses, StartHub(p) PROVE HubTakesOnly
  BY <1>0, <1>1, <1>2, StartEffect DEF HubToolsKept
<1>3. ASSUME NEW p \in HubProcesses, LoadAgain(p) PROVE HubTakesOnly
  <2>1. HubChanges(p, {"loader", "next", "rest", "seen", "taken"}) /\ hub'[p].taken = {}
    BY <1>0, <1>3, AgainEffect
  <2> QED
    BY <1>1, <2>1, HubKept DEF HubToolsKept
<1>4. ASSUME NEW p \in HubProcesses, StopHub(p) PROVE HubTakesOnly
  BY <1>0, <1>1, <1>4, StopEffect DEF HubToolsKept
<1>5. ASSUME NEW p \in HubProcesses, NEW S, HubChanges(p, S),
             {"taken", "tools", "pinned"} \cap S = {}
      PROVE  HubTakesOnly
  BY <1>1, <1>5, HubKept DEF HubToolsKept
<1>6. ASSUME NEW p \in HubProcesses, BadServer(p) \/ RefuseTool(p) \/ Convicted(p)
      PROVE  HubTakesOnly
  <2>1. HubChanges(p, {"loader"})
    BY <1>0, <1>6, FailEffect
  <2> QED
    BY <1>5, <2>1
<1>7. ASSUME NEW p \in HubProcesses, NEW list \in Lists(p), ListTools(p, list)
      PROVE  HubTakesOnly
  <2>1. HubChanges(p, {"next", "rest", "seen"})
    BY <1>0, <1>7, ListEffect
  <2> QED
    BY <1>5, <2>1
<1>8. ASSUME NEW p \in HubProcesses, IgnoreTool(p) PROVE HubTakesOnly
  <2>1. HubChanges(p, {"rest"})
    BY <1>0, <1>8, IgnoreEffect
  <2> QED
    BY <1>5, <2>1
<1>9. ASSUME NEW p \in HubProcesses, TakeTool(p) PROVE HubTakesOnly
  BY <1>0, <1>1, <1>9, TakeEffect
<1>10. ASSUME NEW p \in HubProcesses, Loaded(p) PROVE HubTakesOnly
  <2>1. HubChanges(p, {"loader", "tools"}) /\ hub'[p].tools = hub[p].taken
    BY <1>0, <1>10, LoadedEffect
  <2> QED
    BY <1>1, <2>1, HubKept DEF HubToolsKept
<1>11. ASSUME NEW p \in HubProcesses, NEW u, NEW loader, Insert(p, u, loader), OnlyHub
       PROVE  HubTakesOnly
  <2>1. HubChanges(p, {"quarantined", "saving", "loader"})
    BY <1>0, <1>11, InsertEffect
  <2> QED
    BY <1>5, <2>1
<1>12. ASSUME NEW p \in HubProcesses, Convict(p) PROVE HubTakesOnly
  BY <1>11, <1>12 DEF Convict
<1>15. ASSUME NEW p \in HubProcesses, NEW u \in Names, Quarantine(p, u) PROVE HubTakesOnly
  BY <1>11, <1>15 DEF Quarantine
<1>13. ASSUME NEW p \in HubProcesses, WriteTemp(p) \/ Rename(p) \/ SaveFails(p)
       PROVE  HubTakesOnly
  <2>1. HubChanges(p, {"saving"})
    BY <1>0, <1>13, SaveEffect
  <2> QED
    BY <1>5, <2>1
<1>14. CASE UNCHANGED hubVars
  BY <1>14 DEF hubVars, hubHistory, HubTakesOnly, HubToolsKept
<1> QED
  BY <1>2, <1>3, <1>4, <1>6, <1>7, <1>8, <1>9, <1>10, <1>12, <1>13, <1>14,
     <1>15, HubCases

\* What is taken is pinned as it is, and a pin never changes: a tool that
\* differs from its pin is not taken.
LEMMA HubPinnedStep == HubIInv /\ [HubNext]_hubVars => HubPinned'
<1> DEFINE Configured(e) ==
      \E i \in DOMAIN servers :
        /\ servers[i].name = e[1]
        /\ Expected(i).desc \in {Unset, e[2].desc}
        /\ Expected(i).schema \in {Unset, e[2].schema}
<1> DEFINE Pinned(e, pinned) ==
      /\ <<e[1], e[2].name>> \in DOMAIN pinned
      /\ pinned[<<e[1], e[2].name>>] = <<e[2].desc, e[2].schema>>
<1> SUFFICES ASSUME HubIInv, [HubNext]_hubVars, guarded',
                    NEW q \in HubProcesses, NEW e \in hub'[q].taken \cup hub'[q].tools
             PROVE  Configured(e)' /\ Pinned(e, hub'[q].pinned)
  BY DEF HubPinned
<1>1. /\ servers' = servers /\ guarded
      /\ Configured(e)' <=> Configured(e)
  BY HubOnlyTaken DEF HubTakesOnly, Expected
<1>2. \A d \in hub[q].taken \cup hub[q].tools : Configured(d) /\ Pinned(d, hub[q].pinned)
  BY <1>1 DEF HubIInv, HubPinned
<1>3. CASE ~TakeTool(q)
  <2>1. e \in hub[q].taken \cup hub[q].tools /\ hub'[q].pinned = hub[q].pinned
    BY <1>3, HubOnlyTaken DEF HubTakesOnly, HubToolsKept
  <2> QED
    BY <1>1, <1>2, <2>1
<1>4. CASE TakeTool(q)
  <2> DEFINE new == <<Server(q), TheTool(q)>>
  <2> DEFINE key == <<Server(q), TheTool(q).name>>
  <2>1. /\ hub'[q].taken = hub[q].taken \cup {new}
        /\ hub'[q].tools = hub[q].tools
        /\ hub'[q].pinned = Pin(hub[q].pinned, Server(q), TheTool(q))
    <3>1. /\ HubChanges(q, {"rest", "taken", "pinned"})
          /\ hub'[q].taken = hub[q].taken \cup {new}
          /\ hub'[q].pinned = IF guarded THEN Pin(hub[q].pinned, Server(q), TheTool(q))
                              ELSE hub[q].pinned
      BY <1>4, TakeEffect DEF HubIInv, HubTyped
    <3> QED
      BY <1>1, <3>1, HubKept
  <2>2. ~Drifts(q, hub[q].next - 1, TheTool(q))
    BY <1>1, <1>4 DEF TakeTool
  <2>3. hub[q].next - 1 \in DOMAIN servers /\ Server(q) = servers[hub[q].next - 1].name
    BY <1>4, AtToolFacts DEF HubIInv, TakeTool
  <2>4. key \in DOMAIN hub[q].pinned =>
          hub[q].pinned[key] = <<TheTool(q).desc, TheTool(q).schema>>
    BY <2>2, <2>3 DEF Drifts
  <2>5. CASE e = new
    <3>1. Configured(new)
      BY <2>2, <2>3 DEF Drifts
    <3>2. Pinned(new, Pin(hub[q].pinned, Server(q), TheTool(q)))
      BY DEF Pin
    <3> QED
      BY <1>1, <2>1, <2>5, <3>1, <3>2
  <2>6. CASE e \in hub[q].taken \cup hub[q].tools
    <3>1. Configured(e) /\ Pinned(e, hub[q].pinned)
      BY <1>2, <2>6
    <3>2. Pinned(e, Pin(hub[q].pinned, Server(q), TheTool(q)))
      BY <2>4, <3>1 DEF Pin
    <3> QED
      BY <1>1, <2>1, <3>1, <3>2
  <2> QED
    BY <2>1, <2>5, <2>6
<1> QED
  BY <1>3, <1>4

\* A name that is taken already is ignored.
LEMMA HubNoDoublesStep == HubIInv /\ [HubNext]_hubVars => HubNoDoubles'
<1> SUFFICES ASSUME HubIInv, [HubNext]_hubVars, NEW q \in HubProcesses
             PROVE  HubOneOfAName(hub'[q].taken) /\ HubOneOfAName(hub'[q].tools)
  BY DEF HubNoDoubles, HubOneOfAName
<1>0. HubOneOfAName(hub[q].taken) /\ HubOneOfAName(hub[q].tools) /\ HubOneOfAName({})
  BY DEF HubIInv, HubNoDoubles, HubOneOfAName
<1>1. CASE ~TakeTool(q)
  BY <1>0, <1>1, HubOnlyTaken DEF HubTakesOnly, HubToolsKept
<1>2. CASE TakeTool(q)
  <2>1. /\ HubChanges(q, {"rest", "taken", "pinned"})
        /\ hub'[q].taken = hub[q].taken \cup {<<Server(q), TheTool(q)>>}
    BY <1>2, TakeEffect DEF HubIInv, HubTyped
  <2>2. \A d \in hub[q].taken : ~(d[1] = Server(q) /\ d[2].name = TheTool(q).name)
    BY <1>2 DEF TakeTool, Ignored
  <2>3. HubOneOfAName(hub[q].taken \cup {<<Server(q), TheTool(q)>>})
    BY <1>0, <2>2 DEF HubOneOfAName
  <2>4. hub'[q].tools = hub[q].tools
    BY <2>1, HubKept
  <2> QED
    BY <1>0, <2>1, <2>3, <2>4
<1> QED
  BY <1>1, <1>2

LEMMA HubKeysOfNone == HubKeys({}) = {} /\ HubKeys(HubProper({})) = {}
BY DEF HubKeys, HubProper

LEMMA HubAheadIs ==
    ASSUME NEW r, r.rest \in Seq(HubTool)
    PROVE  HubAhead(r) = {servers[r.next - 1].name} \X ToSet(r.rest)
BY ToolsOfList DEF HubAhead

\* At a tool, that tool is ahead, and after it the rest of the list.
LEMMA HubAheadOfTool ==
    ASSUME HubTyped, HubAccounted, NEW p \in HubProcesses, AtTool(p),
           NEW r, r.rest = Tail(hub[p].rest), r.next = hub[p].next
    PROVE  /\ HubAhead(hub[p]) = {<<Server(p), TheTool(p)>>} \cup HubAhead(r)
           /\ HubKeys(HubProper(hub[p].seen)) =
                HubKeys(hub[p].taken)
                  \cup HubKeys(HubProper({<<Server(p), TheTool(p)>>}))
                  \cup HubKeys(HubProper(HubAhead(r)))
           /\ hub[p].next > 1
<1>1. /\ Tail(hub[p].rest) \in Seq(HubTool) /\ hub[p].rest \in Seq(HubTool)
      /\ ToSet(hub[p].rest) = {TheTool(p)} \cup ToSet(Tail(hub[p].rest))
      /\ Server(p) = servers[hub[p].next - 1].name
  BY AtToolFacts DEF HubTyped, HubTypeOK
<1>2. HubAhead(hub[p]) = {Server(p)} \X ToSet(hub[p].rest)
  BY <1>1, HubAheadIs
<1>3. HubAhead(r) = {Server(p)} \X ToSet(Tail(hub[p].rest))
  BY <1>1, HubAheadIs
<1>4. HubAhead(hub[p]) = {<<Server(p), TheTool(p)>>} \cup HubAhead(r)
  BY <1>1, <1>2, <1>3
<1>5. hub[p].next > 1 /\ HubKeys(HubProper(hub[p].seen)) =
        HubKeys(hub[p].taken) \cup HubKeys(HubProper(HubAhead(hub[p])))
  BY DEF HubAccounted, HubBooks, AtTool
<1>6. HubKeys(HubProper(HubAhead(hub[p]))) =
        HubKeys(HubProper({<<Server(p), TheTool(p)>>})) \cup HubKeys(HubProper(HubAhead(r)))
  BY <1>4 DEF HubKeys, HubProper
<1> QED
  BY <1>4, <1>5, <1>6

\* What a process was offered is taken or ahead of it, name by name: a tool
\* is passed over only if its name is improper, or taken.
LEMMA HubAccountedStep == HubIInv /\ [HubNext]_hubVars => HubAccounted'
<1> SUFFICES ASSUME HubIInv, [HubNext]_hubVars PROVE HubAccounted'
  OBVIOUS
<1>0. /\ HubTyped /\ HubTypeOK /\ HubAccounted
      /\ \A q \in HubProcesses : HubBooks(hub[q])
  BY DEF HubIInv, HubTyped, HubAccounted
<1>1. ASSUME NEW p \in HubProcesses, NEW S, HubChanges(p, S), HubBooks(hub'[p])
      PROVE  HubAccounted'
  <2>1. \A q \in HubProcesses : HubBooks(hub'[q])
    BY <1>0, <1>1 DEF HubChanges
  <2>2. servers' = servers
    BY <1>1 DEF HubChanges
  <2> QED
    BY <2>1, <2>2 DEF HubAccounted, HubBooks, HubAhead
<1>2. ASSUME NEW p \in HubProcesses, NEW S, HubChanges(p, S),
             hub'[p].loader = "loading", hub'[p].rest = <<>>,
             hub'[p].seen = {}, hub'[p].taken = {}
      PROVE  HubAccounted'
  <2>1. HubBooks(hub'[p])
    BY <1>2, HubKeysOfNone DEF HubBooks, HubAhead
  <2> QED
    BY <1>1, <1>2, <2>1
<1>3. ASSUME NEW p \in HubProcesses, NEW S, HubChanges(p, S),
             hub'[p].loader \notin {"loading", "idle"}
      PROVE  HubAccounted'
  BY <1>1, <1>3 DEF HubBooks
<1>4. ASSUME NEW p \in HubProcesses, NEW S, HubChanges(p, S), hub'[p].loader = hub[p].loader,
             {"next", "rest", "seen", "taken", "tools"} \cap S = {}
      PROVE  HubAccounted'
  <2>1. HubBooks(hub'[p])
    BY <1>0, <1>4, HubKept DEF HubBooks, HubAhead
  <2> QED
    BY <1>1, <1>4, <2>1
<1>5. ASSUME NEW p \in HubProcesses, StartHub(p) \/ LoadAgain(p) PROVE HubAccounted'
  BY <1>0, <1>2, <1>5, StartEffect, AgainEffect
<1>6. ASSUME NEW p \in HubProcesses,
             StopHub(p) \/ BadServer(p) \/ RefuseTool(p) \/ Convicted(p)
      PROVE  HubAccounted'
  BY <1>0, <1>3, <1>6, StopEffect, FailEffect
<1>7. ASSUME NEW p \in HubProcesses, NEW list \in Lists(p), ListTools(p, list)
      PROVE  HubAccounted'
  <2> DEFINE offered == {servers[hub[p].next].name} \X ToSet(list)
  <2>1. /\ HubChanges(p, {"next", "rest", "seen"})
        /\ hub'[p].next = hub[p].next + 1
        /\ hub'[p].rest = list
        /\ hub'[p].seen = hub[p].seen \cup offered
    BY <1>0, <1>7, ListEffect
  <2>2. /\ list \in Seq(HubTool) /\ hub[p].next \in 1 .. Len(servers)
        /\ hub[p].loader = "loading" /\ hub[p].rest = <<>>
    BY <1>0, AtServerFacts DEF AtServer
  <2>3. hub'[p].next > 1 /\ hub'[p].next - 1 = hub[p].next
    <3>1. hub[p].next \in Nat \ {0}
      BY <2>2, ServersOfHub
    <3> QED
      BY <2>1, <3>1
  <2>4. HubAhead(hub'[p]) = offered
    BY <2>1, <2>2, <2>3, HubAheadIs
  <2>5. HubKeys(HubProper(hub[p].seen)) = HubKeys(hub[p].taken)
    BY <1>0, <2>2, HubKeysOfNone DEF HubBooks, HubAhead
  <2>6. hub'[p].loader = "loading" /\ hub'[p].taken = hub[p].taken
    BY <2>1, <2>2, HubKept
  <2>7. HubKeys(HubProper(hub'[p].seen)) =
          HubKeys(HubProper(hub[p].seen)) \cup HubKeys(HubProper(offered))
    BY <2>1 DEF HubKeys, HubProper
  <2>8. HubBooks(hub'[p])
    BY <2>3, <2>4, <2>5, <2>6, <2>7 DEF HubBooks
  <2> QED
    BY <1>1, <2>1, <2>8
<1>8. ASSUME NEW p \in HubProcesses, IgnoreTool(p) PROVE HubAccounted'
  <2>1. HubChanges(p, {"rest"}) /\ hub'[p].rest = Tail(hub[p].rest)
    BY <1>0, <1>8, IgnoreEffect
  <2>2. /\ hub'[p].loader = "loading" /\ hub'[p].next = hub[p].next
        /\ hub'[p].seen = hub[p].seen /\ hub'[p].taken = hub[p].taken
    BY <1>8, <2>1, HubKept DEF IgnoreTool, AtTool
  <2>3. /\ HubKeys(HubProper(hub[p].seen)) =
             HubKeys(hub[p].taken)
               \cup HubKeys(HubProper({<<Server(p), TheTool(p)>>}))
               \cup HubKeys(HubProper(HubAhead(hub'[p])))
        /\ hub[p].next > 1
    BY <1>0, <1>8, <2>1, <2>2, HubAheadOfTool DEF IgnoreTool
  <2>4. HubKeys(HubProper({<<Server(p), TheTool(p)>>})) \subseteq HubKeys(hub[p].taken)
    <3>1. CASE ~TheTool(p).wellNamed
      BY <3>1 DEF HubProper, HubKeys
    <3>2. CASE \E e \in hub[p].taken : e[1] = Server(p) /\ e[2].name = TheTool(p).name
      BY <3>2 DEF HubProper, HubKeys
    <3> QED
      BY <1>8, <3>1, <3>2 DEF IgnoreTool, Ignored
  <2>5. HubBooks(hub'[p])
    BY <2>2, <2>3, <2>4 DEF HubBooks
  <2> QED
    BY <1>1, <2>1, <2>5
<1>9. ASSUME NEW p \in HubProcesses, TakeTool(p) PROVE HubAccounted'
  <2> DEFINE new == {<<Server(p), TheTool(p)>>}
  <2>1. /\ HubChanges(p, {"rest", "taken", "pinned"})
        /\ hub'[p].rest = Tail(hub[p].rest)
        /\ hub'[p].taken = hub[p].taken \cup new
    BY <1>0, <1>9, TakeEffect
  <2>2. /\ hub'[p].loader = "loading" /\ hub'[p].next = hub[p].next
        /\ hub'[p].seen = hub[p].seen
    BY <1>9, <2>1, HubKept DEF TakeTool, AtTool
  <2>3. /\ HubKeys(HubProper(hub[p].seen)) =
             HubKeys(hub[p].taken) \cup HubKeys(HubProper(new))
               \cup HubKeys(HubProper(HubAhead(hub'[p])))
        /\ hub[p].next > 1
    BY <1>0, <1>9, <2>1, <2>2, HubAheadOfTool DEF TakeTool
  <2>4. HubProper(new) = new
    BY <1>9 DEF TakeTool, Ignored, HubProper
  <2>5. HubKeys(hub'[p].taken) = HubKeys(hub[p].taken) \cup HubKeys(new)
    BY <2>1 DEF HubKeys
  <2>6. HubBooks(hub'[p])
    BY <2>2, <2>3, <2>4, <2>5 DEF HubBooks
  <2> QED
    BY <1>1, <2>1, <2>6
<1>10. ASSUME NEW p \in HubProcesses, Loaded(p) PROVE HubAccounted'
  <2>1. /\ HubChanges(p, {"loader", "tools"})
        /\ hub'[p].loader = "idle" /\ hub'[p].tools = hub[p].taken
    BY <1>0, <1>10, LoadedEffect
  <2>2. hub'[p].seen = hub[p].seen
    BY <2>1, HubKept
  <2>3. HubKeys(HubProper(hub[p].seen)) = HubKeys(hub[p].taken)
    BY <1>0, <1>10, HubKeysOfNone DEF Loaded, HubBooks, HubAhead
  <2> QED
    BY <1>1, <2>1, <2>2, <2>3 DEF HubBooks
<1>11. ASSUME NEW p \in HubProcesses, Convict(p) PROVE HubAccounted'
  <2>1. HubChanges(p, {"quarantined", "saving", "loader"}) /\ hub'[p].loader = "convicting"
    BY <1>0, <1>11, InsertEffect DEF Convict
  <2> QED
    BY <1>3, <2>1
<1>12. ASSUME NEW p \in HubProcesses, NEW u \in Names, Quarantine(p, u) PROVE HubAccounted'
  <2>1. /\ HubChanges(p, {"quarantined", "saving", "loader"})
        /\ hub'[p].loader = hub[p].loader
    BY <1>0, <1>12, InsertEffect DEF Quarantine
  <2> QED
    BY <1>4, <2>1
<1>13. ASSUME NEW p \in HubProcesses, WriteTemp(p) \/ Rename(p) \/ SaveFails(p)
       PROVE  HubAccounted'
  <2>1. HubChanges(p, {"saving"})
    BY <1>0, <1>13, SaveEffect
  <2> QED
    BY <1>4, <2>1, HubKept
<1>14. CASE UNCHANGED hubVars
  BY <1>0, <1>14 DEF hubVars, hubHistory, HubAccounted, HubBooks, HubAhead
<1> QED
  BY <1>5, <1>6, <1>7, <1>8, <1>9, <1>10, <1>11, <1>12, <1>13, <1>14, HubCases

(***************************************************************************)
(* The shared file.                                                        *)
(***************************************************************************)
LEMMA HubAloneStep == HubIInv /\ [HubNext]_hubVars => HubAlone'
<1> SUFFICES ASSUME HubIInv, [HubNext]_hubVars PROVE HubAlone'
  OBVIOUS
<1>0. HubTypeOK /\ HubAlone
  BY DEF HubIInv, HubTyped
<1>1. ASSUME NEW p \in HubProcesses, NEW S, HubChanges(p, S), ~Off(p), overlap' = overlap
      PROVE  HubAlone'
  BY <1>0, <1>1, HubKept DEF HubAlone, Running, Off
<1>2. ASSUME NEW p \in HubProcesses, StartHub(p) PROVE HubAlone'
  <2>1. HubChanges(p, HubFields)
    BY <1>0, <1>2, StartEffect
  <2>2. ~overlap' => Running = {}
    BY <1>2 DEF StartHub
  <2>3. \A q \in HubProcesses : q \notin Running => q = p \/ q \notin Running'
    BY <2>1, HubKept DEF Running, Off
  <2>4. Running' \subseteq HubProcesses /\ Running \subseteq HubProcesses
    BY DEF Running
  <2> QED
    BY <2>2, <2>3, <2>4 DEF HubAlone
<1>3. ASSUME NEW p \in HubProcesses, LoadAgain(p) \/ StopHub(p) PROVE HubAlone'
  <2>1. HubChanges(p, HubFields) \/ HubChanges(p, {"loader", "next", "rest", "seen", "taken"})
    BY <1>0, <1>3, AgainEffect, StopEffect
  <2>2. ~Off(p) /\ overlap' = overlap
    BY <1>3 DEF LoadAgain, StopHub, Off, OnlyHub, hubHistory
  <2> QED
    BY <1>1, <2>1, <2>2
<1>5. ASSUME NEW p \in HubProcesses, BadServer(p) \/ RefuseTool(p) \/ Convicted(p)
      PROVE  HubAlone'
  <2>1. HubChanges(p, {"loader"}) /\ hub[p].loader \in {"loading", "convicting"}
    BY <1>0, <1>5, FailEffect
  <2>2. overlap' = overlap
    BY <1>5 DEF BadServer, RefuseTool, Convicted, OnlyHub, hubHistory
  <2> QED
    BY <1>1, <2>1, <2>2 DEF Off
<1>6. ASSUME NEW p \in HubProcesses, NEW list \in Lists(p), ListTools(p, list)
      PROVE  HubAlone'
  <2>1. HubChanges(p, {"next", "rest", "seen"})
    BY <1>0, <1>6, ListEffect
  <2>2. ~Off(p) /\ overlap' = overlap
    BY <1>6 DEF ListTools, AtServer, Off, OnlyHub, hubHistory
  <2> QED
    BY <1>1, <2>1, <2>2
<1>7. ASSUME NEW p \in HubProcesses, IgnoreTool(p) \/ TakeTool(p) PROVE HubAlone'
  <2>1. HubChanges(p, {"rest"}) \/ HubChanges(p, {"rest", "taken", "pinned"})
    BY <1>0, <1>7, IgnoreEffect, TakeEffect
  <2>2. ~Off(p) /\ overlap' = overlap
    BY <1>7 DEF IgnoreTool, TakeTool, AtTool, Off, OnlyHub, hubHistory
  <2> QED
    BY <1>1, <2>1, <2>2
<1>8. ASSUME NEW p \in HubProcesses, Loaded(p) PROVE HubAlone'
  BY <1>0, <1>1, <1>8, LoadedEffect DEF Loaded, Off, OnlyHub, hubHistory
<1>9. ASSUME NEW p \in HubProcesses, NEW u, NEW loader, Insert(p, u, loader), OnlyHub, ~Off(p)
      PROVE  HubAlone'
  BY <1>0, <1>1, <1>9, InsertEffect DEF OnlyHub, hubHistory
<1>10. ASSUME NEW p \in HubProcesses, Convict(p) PROVE HubAlone'
  BY <1>9, <1>10 DEF Convict, AtTool, Off
<1>11. ASSUME NEW p \in HubProcesses, NEW u \in Names, Quarantine(p, u) PROVE HubAlone'
  BY <1>9, <1>11 DEF Quarantine
<1>12. ASSUME NEW p \in HubProcesses, WriteTemp(p) \/ Rename(p) \/ SaveFails(p)
       PROVE  HubAlone'
  <2>1. HubChanges(p, {"saving"}) /\ hub[p].saving # "no"
    BY <1>0, <1>12, SaveEffect
  <2>2. ~Off(p)
    BY <2>1 DEF HubIInv, HubTyped
  <2>3. overlap' = overlap
    BY <1>12 DEF WriteTemp, Rename, SaveFails, OnlyHub, hubHistory
  <2> QED
    BY <1>1, <2>1, <2>2, <2>3
<1>13. CASE UNCHANGED hubVars
  BY <1>0, <1>13 DEF hubVars, hubHistory, HubAlone, Running, Off
<1> QED
  BY <1>2, <1>3, <1>5, <1>6, <1>7, <1>8, <1>10, <1>11, <1>12, <1>13, HubCases

\* The process that runs alone knows what is in the file, so that what it
\* puts in its place is no less; a process that starts reads it, or is known
\* to be blind and loses only what is then forgotten.
LEMMA QuarantineStep == HubIInv /\ [HubNext]_hubVars => QuarantineLasts'
<1> DEFINE Knows(q, r, bl, file, seal, forg, failed) ==
      /\ q \notin bl => seal \ forg \subseteq r.quarantined
      /\ r.saving = "no" /\ ~failed =>
           r.quarantined = file \/ (q \in bl /\ r.quarantined = {})
<1> SUFFICES ASSUME HubIInv, [HubNext]_hubVars PROVE QuarantineLasts'
  OBVIOUS
<1>0. /\ HubTypeOK /\ HubAlone
      /\ ~overlap => sealed \ forgotten \subseteq qfile
      /\ ~overlap => \A q \in HubProcesses :
            hub[q].loader # "off" =>
              Knows(q, hub[q], blind, qfile, sealed, forgotten, unsaved)
  BY DEF HubIInv, HubTyped, QuarantineLasts, Running, Off
<1>1. ASSUME ~overlap' => sealed' \ forgotten' \subseteq qfile',
             ~overlap' => \A q \in HubProcesses :
                hub'[q].loader # "off" =>
                  Knows(q, hub'[q], blind', qfile', sealed', forgotten', unsaved')
      PROVE  QuarantineLasts'
  BY <1>1 DEF QuarantineLasts, Running, Off
<1> HIDE DEF Knows
<1>2. ASSUME NEW p \in HubProcesses, NEW S, HubChanges(p, S),
             UNCHANGED <<qfile, sealed, overlap, unsaved, blind, forgotten>>,
             ~overlap /\ hub'[p].loader # "off" =>
              Knows(p, hub'[p], blind, qfile, sealed, forgotten, unsaved)
      PROVE  QuarantineLasts'
  BY <1>0, <1>1, <1>2, HubKept
<1>3. ASSUME NEW p \in HubProcesses, NEW S, HubChanges(p, S),
             UNCHANGED <<qfile, sealed, overlap, unsaved, blind, forgotten>>,
             {"quarantined", "saving"} \cap S = {}, ~Off(p)
      PROVE  QuarantineLasts'
  <2>1. hub'[p].quarantined = hub[p].quarantined /\ hub'[p].saving = hub[p].saving
    BY <1>3, HubKept
  <2>2. ~overlap =>
              Knows(p, hub'[p], blind, qfile, sealed, forgotten, unsaved)
    BY <1>0, <1>3, <2>1 DEF Knows, Off
  <2> QED
    BY <1>2, <1>3, <2>2
<1>4. ASSUME NEW p \in HubProcesses, StartHub(p) PROVE QuarantineLasts'
  <2>1. /\ HubChanges(p, HubFields)
        /\ hub'[p].quarantined \in {qfile, {}}
        /\ p \notin blind' => hub'[p].quarantined = qfile
    BY <1>0, <1>4, StartEffect
  <2>2. /\ UNCHANGED <<qfile, sealed, forgotten, unsaved>>
        /\ ~overlap' => ~overlap /\ Running = {}
    BY <1>4 DEF StartHub
  <2>3. ~overlap' => \A q \in HubProcesses \ {p} : hub'[q].loader = "off"
    BY <2>1, <2>2, HubKept DEF Running, Off
  <2>4. ~overlap' =>
              Knows(p, hub'[p], blind', qfile', sealed', forgotten', unsaved')
    BY <1>0, <2>1, <2>2 DEF Knows
  <2> QED
    BY <1>0, <1>1, <2>2, <2>3, <2>4
<1>5. ASSUME NEW p \in HubProcesses, LoadAgain(p) PROVE QuarantineLasts'
  <2>1. HubChanges(p, {"loader", "next", "rest", "seen", "taken"})
    BY <1>0, <1>5, AgainEffect
  <2> QED
    BY <1>3, <1>5, <2>1 DEF LoadAgain, Off
<1>6. ASSUME NEW p \in HubProcesses, StopHub(p) PROVE QuarantineLasts'
  <2>1. /\ HubChanges(p, HubFields) /\ hub'[p].loader = "off"
        /\ \A q \in HubProcesses \ {p} : hub'[q] = hub[q]
    BY <1>0, <1>6, StopEffect, HubKept
  <2>2. /\ UNCHANGED <<qfile, sealed, forgotten, overlap, unsaved>>
        /\ \A q \in HubProcesses \ {p} : q \in blind' <=> q \in blind
    BY <1>6 DEF StopHub
  <2>3. ASSUME NEW q \in HubProcesses \ {p}
        PROVE  Knows(q, hub[q], blind', qfile, sealed, forgotten, unsaved) <=>
               Knows(q, hub[q], blind, qfile, sealed, forgotten, unsaved)
    BY <2>2 DEF Knows
  <2> QED
    BY <1>0, <1>1, <2>1, <2>2, <2>3
<1>7. ASSUME NEW p \in HubProcesses, BadServer(p) \/ RefuseTool(p) \/ Convicted(p)
      PROVE  QuarantineLasts'
  <2>1. HubChanges(p, {"loader"}) /\ ~Off(p)
    BY <1>0, <1>7, FailEffect DEF Off
  <2>2. UNCHANGED <<qfile, sealed, overlap, unsaved, blind, forgotten>>
    BY <1>7 DEF BadServer, RefuseTool, Convicted, OnlyHub, hubHistory
  <2> QED
    BY <1>3, <2>1, <2>2
<1>8. ASSUME NEW p \in HubProcesses, NEW list \in Lists(p), ListTools(p, list)
      PROVE  QuarantineLasts'
  <2>1. HubChanges(p, {"next", "rest", "seen"})
    BY <1>0, <1>8, ListEffect
  <2> QED
    BY <1>3, <1>8, <2>1 DEF ListTools, AtServer, Off, OnlyHub, hubHistory
<1>9. ASSUME NEW p \in HubProcesses, IgnoreTool(p) \/ TakeTool(p) PROVE QuarantineLasts'
  <2>1. HubChanges(p, {"rest"}) \/ HubChanges(p, {"rest", "taken", "pinned"})
    BY <1>0, <1>9, IgnoreEffect, TakeEffect
  <2>2. ~Off(p) /\ UNCHANGED <<qfile, sealed, overlap, unsaved, blind, forgotten>>
    BY <1>9 DEF IgnoreTool, TakeTool, AtTool, Off, OnlyHub, hubHistory
  <2> QED
    BY <1>3, <2>1, <2>2
<1>10. ASSUME NEW p \in HubProcesses, Loaded(p) PROVE QuarantineLasts'
  <2>1. HubChanges(p, {"loader", "tools"})
    BY <1>0, <1>10, LoadedEffect
  <2> QED
    BY <1>3, <1>10, <2>1 DEF Loaded, Off, OnlyHub, hubHistory
<1>11. ASSUME NEW p \in HubProcesses, NEW u, NEW loader, Insert(p, u, loader), OnlyHub, ~Off(p)
       PROVE  QuarantineLasts'
  <2>1. /\ HubChanges(p, {"quarantined", "saving", "loader"})
        /\ hub'[p].quarantined = hub[p].quarantined \cup {u}
        /\ hub'[p].saving = "write"
    BY <1>0, <1>11, InsertEffect
  <2>2. ~overlap =>
              Knows(p, hub'[p], blind, qfile, sealed, forgotten, unsaved)
    BY <1>0, <1>11, <2>1 DEF Knows, Off
  <2> QED
    BY <1>2, <1>11, <2>1, <2>2 DEF OnlyHub, hubHistory
<1>12. ASSUME NEW p \in HubProcesses, Convict(p) PROVE QuarantineLasts'
  BY <1>11, <1>12 DEF Convict, AtTool, Off
<1>13. ASSUME NEW p \in HubProcesses, NEW u \in Names, Quarantine(p, u) PROVE QuarantineLasts'
  BY <1>11, <1>13 DEF Quarantine
<1>14. ASSUME NEW p \in HubProcesses, WriteTemp(p) \/ Rename(p) \/ SaveFails(p)
       PROVE  QuarantineLasts'
  <2>1. HubChanges(p, {"saving"}) /\ hub[p].saving # "no"
    BY <1>0, <1>14, SaveEffect
  <2>2. ~Off(p) /\ hub'[p].loader = hub[p].loader /\ hub'[p].quarantined = hub[p].quarantined
    BY <2>1, HubKept DEF HubIInv, HubTyped
  <2>3. ~overlap => /\ p \notin blind => sealed \ forgotten \subseteq hub[p].quarantined
                    /\ sealed \ forgotten \subseteq qfile
    BY <1>0, <2>2 DEF Knows, Off
  <2>4. ~overlap => \A q \in HubProcesses \ {p} : hub'[q].loader = "off"
    BY <1>0, <2>1, <2>2, HubKept DEF HubAlone, Running, Off
  <2>5. CASE WriteTemp(p)
    <3>1. /\ hub'[p].saving = "rename"
          /\ UNCHANGED <<qfile, sealed, overlap, unsaved, blind, forgotten>>
      BY <1>0, <2>5, HubRecords DEF WriteTemp, OnlyHub, hubHistory, HubFields
    <3>2. ~overlap =>
              Knows(p, hub'[p], blind, qfile, sealed, forgotten, unsaved)
      BY <2>2, <2>3, <3>1 DEF Knows
    <3> QED
      BY <1>2, <2>1, <3>1, <3>2
  <2>6. CASE Rename(p)
    <3>1. /\ qfile' = hub[p].quarantined /\ sealed' = sealed \cup hub[p].quarantined
          /\ overlap' = overlap /\ blind' = blind
          /\ p \notin blind => forgotten' = forgotten \ hub[p].quarantined
          /\ p \in blind => forgotten' = (forgotten \cup qfile) \ hub[p].quarantined
      BY <2>6 DEF Rename, ToSave
    <3>2. ~overlap => sealed' \ forgotten' \subseteq qfile'
      BY <2>3, <3>1
    <3>3. ~overlap => Knows(p, hub'[p], blind', qfile', sealed', forgotten', unsaved')
      BY <2>2, <3>1, <3>2 DEF Knows
    <3> QED
      BY <1>1, <2>4, <3>1, <3>2, <3>3
  <2>7. CASE SaveFails(p)
    <3>1. unsaved' /\ UNCHANGED <<qfile, sealed, overlap, blind, forgotten>>
      BY <2>7 DEF SaveFails
    <3>2. ~overlap => sealed' \ forgotten' \subseteq qfile' /\
              Knows(p, hub'[p], blind', qfile', sealed', forgotten', unsaved')
      BY <2>2, <2>3, <3>1 DEF Knows
    <3> QED
      BY <1>1, <2>4, <3>1, <3>2
  <2> QED
    BY <1>14, <2>5, <2>6, <2>7
<1>15. CASE UNCHANGED hubVars
  BY <1>0, <1>1, <1>15 DEF hubVars, hubHistory
<1> QED
  BY <1>4, <1>5, <1>6, <1>7, <1>8, <1>9, <1>10, <1>12, <1>13, <1>14, <1>15, HubCases

LEMMA HubInvariance == HubSpec => []HubIInv
<1>1. HubInit => HubIInv
  <2> SUFFICES ASSUME HubInit PROVE HubIInv
    OBVIOUS
  <2>1. /\ \A p \in HubProcesses : hub[p] = HubOff
        /\ DOMAIN hub = HubProcesses
        /\ servers \in HubConfigs /\ qfile = {} /\ sealed = {}
        /\ blind = {} /\ forgotten = {}
    BY DEF HubInit
  <2>2. Len(servers) \in Nat
    BY <2>1, HubAssumption, LenProperties
  <2>3. HubTyped
    <3>1. <<>> \in Seq(HubTool) /\ 1 \in 1 .. Len(servers) + 1
      BY <2>2, EmptySeq
    <3>2. \A p \in HubProcesses :
            /\ DOMAIN hub[p] = DOMAIN HubOff
            /\ hub[p].loader = "off" /\ hub[p].next = 1 /\ hub[p].rest = <<>>
            /\ hub[p].seen = {} /\ hub[p].taken = {} /\ hub[p].tools = {}
            /\ DOMAIN hub[p].pinned = {}
            /\ hub[p].quarantined = {} /\ hub[p].saving = "no"
      BY <2>1 DEF HubOff
    <3> QED
      BY <2>1, <3>1, <3>2 DEF HubTyped, HubTypeOK, Off
  <2>4. \A p \in HubProcesses : hub[p].taken = {} /\ hub[p].tools = {} /\ Off(p)
    BY <2>1 DEF HubOff, Off
  <2>5. HubPinned /\ HubNoDoubles
    BY <2>4 DEF HubPinned, HubNoDoubles, HubOneOfAName
  <2>6. HubAccounted
    BY <2>4 DEF HubAccounted, HubBooks, Off
  <2>7. Running = {}
    BY <2>4 DEF Running
  <2>8. HubAlone /\ QuarantineLasts
    BY <2>1, <2>7 DEF HubAlone, QuarantineLasts
  <2> QED
    BY <2>3, <2>5, <2>6, <2>8 DEF HubIInv
<1>2. HubIInv /\ [HubNext]_hubVars => HubIInv'
  BY HubTypedStep, HubPinnedStep, HubNoDoublesStep, HubAccountedStep, HubAloneStep,
     QuarantineStep DEF HubIInv
<1> QED
  BY <1>1, <1>2, PTL DEF HubSpec

\* What a hub holds is of its upstreams, and so is what is pinned.
THEOREM HubTypeCorrect == HubSpec => []HubTypeOK
<1>1. HubIInv => HubTypeOK
  BY DEF HubIInv, HubTyped
<1> QED
  BY <1>1, HubInvariance, PTL

\* However often a process loads, whatever its upstreams offer from one start
\* to the next and whatever other threads quarantine meanwhile: what a hub
\* with a firewall can call is as its configuration says and as first seen,
\* and a load that ends well has left out no properly named tool.
THEOREM FirewallHolds == HubSpec => []HubAsConfigured
<1>1. HubIInv => HubAsConfigured
  <2> SUFFICES ASSUME HubIInv PROVE HubAsConfigured
    OBVIOUS
  <2>1. CallableAsPinned
    <3> SUFFICES ASSUME NEW p \in HubProcesses, NEW e \in Callable(p)
                 PROVE  CallableAsPinned!(p)!(e)
      BY DEF CallableAsPinned
    <3>1. e \in hub[p].tools
      BY DEF Callable
    <3> QED
      BY <3>1 DEF HubIInv, HubPinned, HubNoDoubles, HubOneOfAName
  <2>2. LoadedWhole
    BY DEF HubIInv, HubAccounted, HubBooks, HubKeys, HubProper, LoadedWhole
  <2> QED
    BY <2>1, <2>2 DEF HubAsConfigured
<1> QED
  BY <1>1, HubInvariance, PTL

\* Wherever processes stop, and whichever writes fail: as long as no two of
\* them run at a time, no start loses a quarantine that was in the file.
THEOREM QuarantineIsKept == HubSpec => []QuarantineLasts
<1>1. HubIInv => QuarantineLasts
  BY DEF HubIInv
<1> QED
  BY <1>1, HubInvariance, PTL

-----------------------------------------------------------------------------
USE BreakerAssumption

(***************************************************************************)
(* CircuitBreaker.  The inductive invariant.  Probes says that a probe     *)
(* still under its timers when the breaker is open will have run out of    *)
(* them when the next probe is due.  Errors says what the counter stands   *)
(* for: the failures as young as the first one of the window, which no     *)
(* success followed; a call that has not ended is none of them, so that    *)
(* the next failure is a new one.                                          *)
(***************************************************************************)
Probes ==
    /\ \A c \in probe : phase[c] # "idle"
    /\ circuit = "open" =>
         \A c \in probe : phase[c] \in InFlight => limit[c] <= cooling

Recent(n) == {c \in Calls : fresh[c] >= n}

Errors ==
    /\ \A c \in Calls : phase[c] \in {"idle"} \cup InFlight => fresh[c] = 0
    /\ circuit = "closed" =>
         /\ errors < ErrorLimit
         /\ IF spell = 0 THEN \A c \in Calls : fresh[c] <= Period
            ELSE Cardinality(Recent(spell)) = errors

BreakerIInv ==
    /\ TypeOK
    /\ Probes
    /\ OneLiveProbe
    /\ HalfOpenHasProbe
    /\ Errors

\* Types are respected by every step of the breaker.
LEMMA TypeStep == TypeOK /\ Errors /\ [Next]_vars => TypeOK'
<1> SUFFICES ASSUME TypeOK, Errors, [Next]_vars PROVE TypeOK'
  OBVIOUS
<1> USE DEF TypeOK, InFlight, Phases, breakerVars, callVars, history
<1>1. ASSUME NEW c \in Calls, Admit(c) \/ Probe(c) PROVE TypeOK'
  BY <1>1 DEF Admit, Probe, Enter, Goes
<1>2. ASSUME NEW c \in Calls, FailFast(c) \/ Enqueue(c) \/ CallTimeOut(c) \/ Cancelled(c)
      PROVE TypeOK'
  BY <1>2 DEF FailFast, Enqueue, CallTimeOut, Cancelled, Goes
<1>3. ASSUME NEW c \in Calls, NEW a \in {"ok", "err"}, Upstream(c, a) PROVE TypeOK'
  BY <1>3 DEF Upstream
<1>4. ASSUME RecordSuccess
      PROVE  /\ circuit' = "closed"
             /\ errors' \in 0 .. ErrorLimit
             /\ spell' \in 0 .. Period + 1
             /\ cooling' \in 0 .. Period
             /\ fresh' \in [Calls -> 0 .. Period + 1]
  BY <1>4 DEF RecordSuccess
<1>5. ASSUME NEW c \in Calls, RecordError(c)
      PROVE  /\ circuit' \in {"closed", "open", "halfOpen"}
             /\ errors' \in 0 .. ErrorLimit
             /\ spell' \in 0 .. Period + 1
             /\ cooling' \in 0 .. Period
             /\ fresh' \in [Calls -> 0 .. Period + 1]
  BY <1>5 DEF RecordError, ReopenAfterProbe, CountError, Counted, Errors
<1>6. ASSUME NEW c \in Calls, SendFails(c) \/ TakeAnswer(c) \/ TimeOut(c)
      PROVE  TypeOK'
  <2>1. RecordSuccess \/ RecordError(c)
    BY <1>6 DEF SendFails, TakeAnswer, TimeOut
  <2>2. /\ phase' \in [Calls -> Phases]
        /\ UNCHANGED <<answer, limit, probe>>
    BY <1>6 DEF SendFails, TakeAnswer, TimeOut, Goes
  <2> QED
    BY <1>4, <1>5, <2>1, <2>2
<1>7. CASE Tick
  BY <1>7 DEF Tick, Down
<1>8. CASE UNCHANGED vars
  BY <1>8 DEF vars
<1> QED
  BY <1>1, <1>2, <1>3, <1>6, <1>7, <1>8 DEF Next

\* What ends a call with a result: the call was in flight and is no longer,
\* and the breaker has taken note.
Records(c) == SendFails(c) \/ TakeAnswer(c) \/ TimeOut(c)

LEMMA RecordsEffect ==
    ASSUME TypeOK, NEW c \in Calls, Records(c)
    PROVE  /\ phase[c] \in InFlight
           /\ \E p \in {"ok", "failed"} : phase' = [phase EXCEPT ![c] = p]
           /\ UNCHANGED <<limit, probe>>
           /\ RecordSuccess \/ RecordError(c)
<1> USE DEF TypeOK, InFlight
<1>1. phase[c] \in InFlight
  BY DEF Records, SendFails, TakeAnswer, TimeOut
<1>2. \E p \in {"ok", "failed"} : phase' = [phase EXCEPT ![c] = p]
  BY DEF Records, SendFails, TakeAnswer, TimeOut, Goes
<1>3. UNCHANGED <<limit, probe>> /\ (RecordSuccess \/ RecordError(c))
  BY DEF Records, SendFails, TakeAnswer, TimeOut
<1> QED
  BY <1>1, <1>2, <1>3

\* The steps of a call that tell the breaker nothing.
Silent(c) ==
    \/ FailFast(c) \/ Enqueue(c) \/ CallTimeOut(c) \/ Cancelled(c)
    \/ \E a \in {"ok", "err"} : Upstream(c, a)

LEMMA SilentEffect ==
    ASSUME TypeOK, NEW c \in Calls, Silent(c)
    PROVE  /\ UNCHANGED <<breakerVars, limit, probe, fresh>>
           /\ \A d \in Calls \ {c} : phase'[d] = phase[d]
           /\ phase'[c] # "idle"
           /\ phase'[c] \in InFlight => phase[c] \in InFlight
           /\ phase[c] = "dropped" => phase'[c] = "dropped"
           /\ phase[c] \in InFlight => phase'[c] \in InFlight \cup {"dropped"}
<1> USE DEF TypeOK, InFlight, callVars, history
<1>1. CASE FailFast(c)
  BY <1>1 DEF FailFast, Goes
<1>2. CASE Enqueue(c)
  BY <1>2 DEF Enqueue, Goes
<1>3. CASE CallTimeOut(c) \/ Cancelled(c)
  BY <1>3 DEF CallTimeOut, Cancelled, Goes
<1>4. ASSUME NEW a \in {"ok", "err"}, Upstream(c, a)
      PROVE  UNCHANGED <<breakerVars, phase, limit, history>> /\ phase[c] = "waiting"
  BY <1>4 DEF Upstream
<1> QED
  BY <1>1, <1>2, <1>3, <1>4 DEF Silent

LEMMA StepCases ==
    ASSUME [Next]_vars
    PROVE  \/ \E c \in Calls : Admit(c) \/ Probe(c) \/ Records(c) \/ Silent(c)
           \/ Tick
           \/ UNCHANGED vars
BY DEF Next, Records, Silent

\* An older call that reopens the breaker starts the pause anew, at no less
\* than what any probe has left.
LEMMA ProbesStep == BreakerIInv /\ [Next]_vars => Probes'
<1> SUFFICES ASSUME BreakerIInv, [Next]_vars PROVE Probes'
  OBVIOUS
<1> USE DEF BreakerIInv, TypeOK, Probes, InFlight, Phases
<1>1. ASSUME NEW c \in Calls, Admit(c) \/ Probe(c) PROVE Probes'
  BY <1>1 DEF Admit, Probe, Enter, Goes
<1>2. ASSUME NEW c \in Calls, Silent(c) PROVE Probes'
  BY <1>2, SilentEffect DEF breakerVars
<1>3. ASSUME NEW c \in Calls, Records(c) PROVE Probes'
  <2>1. /\ UNCHANGED <<limit, probe>>
        /\ \A d \in Calls : /\ phase'[d] # "idle" \/ phase[d] = "idle"
                            /\ phase'[d] \in InFlight => phase[d] \in InFlight
    BY <1>3, RecordsEffect
  <2>2. CASE RecordSuccess
    BY <2>1, <2>2 DEF RecordSuccess
  <2>3. CASE RecordError(c)
    <3>1. \/ circuit' # "open"
          \/ cooling' = Period
          \/ circuit = "open" /\ cooling' = cooling
      BY <2>3 DEF RecordError, ReopenAfterProbe, CountError, breakerVars
    <3> QED
      BY <2>1, <3>1
  <2> QED
    BY <1>3, <2>2, <2>3, RecordsEffect
<1>4. CASE Tick
  BY <1>4 DEF Tick, Down
<1>5. CASE UNCHANGED vars
  BY <1>5 DEF vars, breakerVars, callVars, history
<1> QED
  BY <1>1, <1>2, <1>3, <1>4, <1>5, StepCases

\* When the pause is over no probe is under its timers, and a second one is
\* let through only then.
LEMMA OneLiveProbeStep == BreakerIInv /\ [Next]_vars => OneLiveProbe'
<1> SUFFICES ASSUME BreakerIInv, [Next]_vars, NEW p \in probe', NEW q \in probe',
                    phase'[p] \in InFlight, limit'[p] > 0,
                    phase'[q] \in InFlight, limit'[q] > 0
             PROVE  p = q
  BY DEF OneLiveProbe
<1> USE DEF BreakerIInv, TypeOK, OneLiveProbe, InFlight, Phases
<1>1. ASSUME NEW c \in Calls, Admit(c) PROVE p = q
  BY <1>1 DEF Admit, Enter, Goes, Probes
<1>2. ASSUME NEW c \in Calls, Probe(c) PROVE p = q
  <2>1. \A d \in probe : ~(phase[d] \in InFlight /\ limit[d] > 0)
    BY <1>2 DEF Probe, Probes
  <2>2. \A d \in probe : d # c /\ phase'[d] = phase[d] /\ limit'[d] = limit[d]
    BY <1>2 DEF Probe, Enter, Goes, Probes
  <2>3. probe' = probe \cup {c}
    BY <1>2 DEF Probe
  <2> QED
    BY <2>1, <2>2, <2>3
<1>3. ASSUME NEW c \in Calls, Silent(c) PROVE p = q
  BY <1>3, SilentEffect
<1>4. ASSUME NEW c \in Calls, Records(c) PROVE p = q
  BY <1>4, RecordsEffect
<1>5. CASE Tick
  BY <1>5 DEF Tick, Down
<1>6. CASE UNCHANGED vars
  BY <1>6 DEF vars, callVars, history
<1> QED
  BY <1>1, <1>2, <1>3, <1>4, <1>5, <1>6, StepCases

\* Whatever result is recorded ends the half-open state, so that the probe
\* of a half-open breaker has not had its result.
LEMMA HalfOpenStep == BreakerIInv /\ [Next]_vars => HalfOpenHasProbe'
<1> SUFFICES ASSUME BreakerIInv, [Next]_vars, circuit' = "halfOpen",
                    \A c \in Calls : phase'[c] # "dropped"
             PROVE  \E c \in probe' : phase'[c] \in InFlight
  BY DEF HalfOpenHasProbe
<1> USE DEF BreakerIInv, TypeOK, HalfOpenHasProbe, InFlight, Phases
<1> DEFINE Goal == \E c \in probe' : phase'[c] \in InFlight
<1>1. ASSUME NEW c \in Calls, Admit(c) PROVE Goal
  BY <1>1 DEF Admit
<1>2. ASSUME NEW c \in Calls, Probe(c) PROVE Goal
  BY <1>2 DEF Probe, Enter, Goes
<1>3. ASSUME NEW c \in Calls, Silent(c) PROVE Goal
  <2>1. \A d \in Calls : /\ phase[d] # "dropped"
                         /\ phase[d] \in InFlight => phase'[d] \in InFlight
    BY <1>3, SilentEffect
  <2>2. circuit = "halfOpen" /\ probe' = probe
    BY <1>3, SilentEffect DEF breakerVars
  <2> QED
    BY <2>1, <2>2
<1>4. ASSUME NEW c \in Calls, Records(c) PROVE FALSE
  BY <1>4, RecordsEffect
     DEF RecordSuccess, RecordError, ReopenAfterProbe, CountError, breakerVars
<1>5. CASE Tick
  BY <1>5 DEF Tick
<1>6. CASE UNCHANGED vars
  BY <1>6 DEF vars, breakerVars, callVars, history
<1> QED
  BY <1>1, <1>2, <1>3, <1>4, <1>5, <1>6, StepCases

\* Counting: the failed call joins those the counter stands for, whether it
\* begins a window or falls into one.
LEMMA Counts ==
    ASSUME BreakerIInv, NEW c \in Calls, phase[c] \in InFlight, RecordError(c),
           circuit = "closed"
    PROVE  /\ spell' > 0
           /\ IsFiniteSet(Recent(spell)')
           /\ Cardinality(Recent(spell)') = Counted
           /\ errors' = Counted
           /\ circuit' = IF Counted >= ErrorLimit THEN "open" ELSE "closed"
<1> USE DEF BreakerIInv, TypeOK
<1>1. /\ errors' = Counted
      /\ spell' = IF spell = 0 THEN Period + 1 ELSE spell
      /\ circuit' = IF Counted >= ErrorLimit THEN "open" ELSE "closed"
      /\ fresh' = [fresh EXCEPT ![c] = Period + 1]
  BY DEF RecordError, ReopenAfterProbe, CountError
<1>2. IsFiniteSet(Recent(spell))
  BY FS_Subset DEF Recent
<1>3. fresh[c] = 0
  BY DEF Errors
<1>4. CASE spell = 0
  <2>1. Recent(spell)' = {c}
    BY <1>1, <1>4 DEF Errors, Recent
  <2>2. Counted = 1
    BY <1>4 DEF Counted
  <2> QED
    BY <1>1, <1>4, <2>1, <2>2, FS_Singleton
<1>5. CASE spell > 0
  <2>1. Recent(spell)' = Recent(spell) \cup {c} /\ c \notin Recent(spell)
    BY <1>1, <1>3, <1>5 DEF Recent
  <2>2. Cardinality(Recent(spell)') = Cardinality(Recent(spell)) + 1
    BY <1>2, <2>1, FS_AddElement
  <2>3. Counted = errors + 1 /\ Cardinality(Recent(spell)) = errors
    BY <1>5 DEF Counted, Errors
  <2> QED
    BY <1>1, <1>2, <1>5, <2>1, <2>2, <2>3, FS_AddElement
<1> QED
  BY <1>4, <1>5

\* The counter stands for the failures of the window after every step.
LEMMA ErrorsStep == BreakerIInv /\ [Next]_vars => Errors'
<1> SUFFICES ASSUME BreakerIInv, [Next]_vars PROVE Errors'
  OBVIOUS
<1> USE DEF BreakerIInv, TypeOK, InFlight, Phases
<1>1. ASSUME NEW c \in Calls, Admit(c) \/ Probe(c) PROVE Errors'
  <2>1. /\ UNCHANGED <<errors, spell, fresh>>
        /\ circuit' = "closed" => circuit = "closed"
        /\ \A d \in Calls : phase'[d] \in {"idle"} \cup InFlight =>
                            phase[d] \in {"idle"} \cup InFlight
    BY <1>1 DEF Admit, Probe, Enter, Goes
  <2>2. Recent(spell)' = Recent(spell)
    BY <2>1 DEF Recent
  <2> QED
    BY <2>1, <2>2 DEF Errors
<1>2. ASSUME NEW c \in Calls, Silent(c) PROVE Errors'
  <2>1. /\ UNCHANGED <<circuit, errors, spell, fresh>>
        /\ \A d \in Calls : phase'[d] \in {"idle"} \cup InFlight =>
                            phase[d] \in {"idle"} \cup InFlight
    BY <1>2, SilentEffect DEF breakerVars
  <2>2. Recent(spell)' = Recent(spell)
    BY <2>1 DEF Recent
  <2> QED
    BY <2>1, <2>2 DEF Errors
<1>3. ASSUME NEW c \in Calls, Records(c) PROVE Errors'
  <2>1. /\ phase[c] \in InFlight
        /\ \A d \in Calls : phase'[d] \in {"idle"} \cup InFlight =>
                            d # c /\ phase[d] \in {"idle"} \cup InFlight
    BY <1>3, RecordsEffect
  <2>2. CASE RecordSuccess
    BY <2>1, <2>2 DEF RecordSuccess, Errors
  <2>3. CASE RecordError(c)
    <3>1. \A d \in Calls : phase'[d] \in {"idle"} \cup InFlight => fresh'[d] = 0
      BY <2>1, <2>3 DEF RecordError, Errors
    <3>2. circuit' = "closed" => circuit = "closed"
      BY <2>3 DEF RecordError, ReopenAfterProbe, CountError, breakerVars
    <3>3. ASSUME circuit' = "closed"
          PROVE  /\ errors' < ErrorLimit
                 /\ spell' > 0
                 /\ Cardinality(Recent(spell)') = errors'
      BY <2>1, <2>3, <3>2, <3>3, Counts DEF Counted
    <3> QED
      BY <3>1, <3>3 DEF Errors
  <2> QED
    BY <1>3, <2>2, <2>3, RecordsEffect
<1>4. CASE Tick
  <2>1. /\ UNCHANGED <<circuit, errors, phase>>
        /\ spell' = Down(spell)
        /\ \A c \in Calls : fresh'[c] = Down(fresh[c])
    BY <1>4 DEF Tick
  <2>2. \A c \in Calls : fresh[c] \in 0 .. Period + 1
    OBVIOUS
  <2>3. spell > 1 => Recent(spell)' = Recent(spell)
    BY <2>1, <2>2 DEF Recent, Down
  <2>4. spell <= 1 => spell' = 0 /\ \A c \in Calls : fresh'[c] <= Period
    BY <2>1, <2>2 DEF Down
  <2>5. spell > 1 => spell' > 0
    BY <2>1 DEF Down
  <2> QED
    BY <2>1, <2>2, <2>3, <2>4, <2>5 DEF Errors, Down
<1>5. CASE UNCHANGED vars
  <2>1. UNCHANGED <<circuit, errors, spell, phase, fresh>>
    BY <1>5 DEF vars, breakerVars, callVars, history
  <2>2. Recent(spell)' = Recent(spell)
    BY <2>1 DEF Recent
  <2> QED
    BY <2>1, <2>2 DEF Errors
<1> QED
  BY <1>1, <1>2, <1>3, <1>4, <1>5, StepCases

\* The inductive invariant holds throughout.
LEMMA BreakerInvariance == Spec => []BreakerIInv
<1>1. Init => BreakerIInv
  BY DEF Init, BreakerIInv, TypeOK, Phases, Probes, OneLiveProbe, HalfOpenHasProbe,
         Errors
<1>2. BreakerIInv /\ [Next]_vars => BreakerIInv'
  BY TypeStep, ProbesStep, OneLiveProbeStep, HalfOpenStep, ErrorsStep DEF BreakerIInv
<1> QED
  BY <1>1, <1>2, PTL DEF Spec

\* However calls and timers interleave, one probe at most is under way, and
\* a half-open breaker has a probe in flight that will decide, as long as no
\* call is dropped.
THEOREM ProbesOneByOne == Spec => []ProbesInOrder
<1>1. BreakerIInv => ProbesInOrder
  BY DEF BreakerIInv, ProbesInOrder
<1> QED
  BY <1>1, BreakerInvariance, PTL

\* What the counter counts is a burst: it opens the breaker on as many
\* failures within the period as the limit says, with no success between,
\* and every such burst within one window opens it.
THEOREM OpenedByBurst == Spec => OpensOnBurst
<1> DEFINE Burst ==
      circuit = "closed" =>
        IF circuit' = "open"
        THEN Cardinality({c \in Calls : fresh'[c] > 0}) >= ErrorLimit
        ELSE spell' > 0 =>
               Cardinality({c \in Calls : fresh'[c] >= spell'}) < ErrorLimit
<1>1. ASSUME BreakerIInv, BreakerIInv', [Next]_vars PROVE Burst
  <2> SUFFICES ASSUME circuit = "closed"
               PROVE  IF circuit' = "open"
                      THEN Cardinality({c \in Calls : fresh'[c] > 0}) >= ErrorLimit
                      ELSE spell' > 0 => Cardinality(Recent(spell)') < ErrorLimit
    BY DEF Recent
  <2>1. CASE circuit' = "open"
    <3>1. PICK c \in Calls : Records(c)
      <4>1. \A c \in Calls : ~Admit(c) /\ ~Probe(c) /\ ~Silent(c)
        BY <1>1, <2>1, SilentEffect DEF BreakerIInv, Admit, Probe, breakerVars
      <4>2. ~Tick /\ ~UNCHANGED vars
        BY <2>1 DEF Tick, vars, breakerVars
      <4> QED
        BY <1>1, <4>1, <4>2, StepCases
    <3>2. phase[c] \in InFlight /\ RecordError(c)
      BY <1>1, <2>1, <3>1, RecordsEffect DEF BreakerIInv, RecordSuccess
    <3>3. /\ spell' > 0
          /\ IsFiniteSet(Recent(spell)')
          /\ Cardinality(Recent(spell)') >= ErrorLimit
      BY <1>1, <2>1, <3>2, Counts
    <3>4. Recent(spell)' \subseteq {d \in Calls : fresh'[d] > 0}
      BY <1>1, <3>3 DEF BreakerIInv, TypeOK, Recent
    <3>5. IsFiniteSet({d \in Calls : fresh'[d] > 0})
      BY FS_Subset
    <3>6. /\ Cardinality(Recent(spell)') \in Nat
          /\ Cardinality({d \in Calls : fresh'[d] > 0}) \in Nat
          /\ Cardinality(Recent(spell)') <= Cardinality({d \in Calls : fresh'[d] > 0})
      BY <3>3, <3>4, <3>5, FS_Subset, FS_CardinalityType
    <3> QED
      BY <2>1, <3>3, <3>6
  <2>2. CASE circuit' # "open"
    <3>1. circuit' = "closed"
      <4>1. ASSUME NEW c \in Calls, Records(c) PROVE circuit' = "closed"
        <5>1. CASE RecordSuccess
          BY <5>1 DEF RecordSuccess
        <5>2. CASE RecordError(c)
          BY <2>2, <5>2 DEF RecordError, ReopenAfterProbe, CountError, breakerVars
        <5> QED
          BY <1>1, <4>1, <5>1, <5>2, RecordsEffect DEF BreakerIInv
      <4> QED
        BY <1>1, <2>2, <4>1, StepCases, SilentEffect
           DEF BreakerIInv, Admit, Probe, Tick, vars, breakerVars
    <3> QED
      BY <1>1, <2>2, <3>1 DEF BreakerIInv, TypeOK, Errors
  <2> QED
    BY <2>1, <2>2
<1>2. BreakerIInv /\ BreakerIInv' /\ [Next]_vars => [Burst]_vars
  BY <1>1
<1> QED
  BY <1>2, BreakerInvariance, PTL DEF Spec, OpensOnBurst

=============================================================================
