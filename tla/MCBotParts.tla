----------------------------- MODULE MCBotParts ------------------------------
(***************************************************************************)
(* Small instances for TLC of components that never meet, side by side:    *)
(* each behaviour is one of the component that part names.  BotInstall,    *)
(* BotGeneration, Investigations, CaseStoreKeys and CodeIndexing have      *)
(* their own variables; the others share s1, s2, ...; those that a         *)
(* component does not use are None.                                        *)
(*                                                                         *)
(*   cases      two Cases in one live process (PhaseWorkflow)              *)
(*   keys       two clients, two Cases, three keys (CaseStoreKeys)         *)
(*   install    an installed bot (BotInstall), its MCP servers (servers,   *)
(*              McpServers), its configuration (loading, ConfigLoading)    *)
(*              and its config-map (rows, BotGeneration)                   *)
(*   topology   what a scan of its repositories shows (ServiceTopology)    *)
(*   scan       the scan of the repositories (RepositoryScan)              *)
(*   opencode   the settings files of OpenCode (OpenCodeSettings) and of   *)
(*              Codex (codex, CodexSettings)                               *)
(*   tool       the installation of CodeGraph (CodeGraphInstall)           *)
(*   index      its indexes of the repositories (CodeIndexing)             *)
(*   probe      the self-test of its MCP servers (McpProbe)                *)
(*   agents     the bot at work: two agents and one attempt of a ticket    *)
(*              (Investigations)                                           *)
(***************************************************************************)
EXTENDS BotInstall, BotGeneration, Investigations, CaseStoreKeys, CodeIndexing, Sequences, TLC,
  Functions

CONSTANTS c1, c2, a1, a2, b1, b2, Broken

(* Each Case has its own pool of attempt identities. *)
Owner == [a \in {a1, a2, b1, b2} |-> IF a \in {a1, a2} THEN c1 ELSE c2]

Symmetry == Permutations({a1, a2}) \cup Permutations({b1, b2})

-----------------------------------------------------------------------------
(* What the components of a bot work on: small configurations, scans and disks,
   each with the cases that matter. *)
UpTo(n, S) == UNION {[1..k -> S] : k \in 0..n}

-----------------------------------------------------------------------------
(* CaseStoreKeys: transitions and mutations of both Cases, ends of attempts,
   approvals and observations; any two of the three kinds that leave events share
   a key. *)
Sent ==
  [op : {"create"}, key : 1..2, case : {c1, c2}, content : {c1}]
  \cup [op : {"transition"}, key : 2..3, case : {c1, c2}, expected : 1..3, to : {"investigating"}, finish : {Nothing}]
  \cup [op : {"mutate"}, key : 2..3, case : {c1, c2}, expected : 1..3, to : AskedStatuses, finish : {Nothing, "failed"}]
  \cup [op : {"finish"}, case : {c1, c2}, result : {"failed", "succeeded"}, timed : {TRUE}]
  \cup [op : {"finish"}, case : {c1, c2}, result : {"failed"}, timed : {FALSE}]
  \cup [op : {"approve", "observe"}, key : {4}, content : {c1}, timed : BOOLEAN]

(* Investigations: one ticket, one attempt of it. *)
ThisAttempt == [r \in {11} |-> 1]

(* BotInstall: the second version has another server. *)
ServersOf == 1 :> {"nacos", "graph"} @@ 2 :> {"nacos", "redis"}

(* McpServers: two systems of which one's id extends the other's, two stores of
   one type and one that has no servers, and a center named like another's word. *)
McpSystems == {<<"truss">>, <<"truss", "x">>}
McpStores == <<[type |-> "mongodb", id |-> <<"mongodb">>], [type |-> "mongodb", id |-> <<"mongodb", "2">>],
               [type |-> "rabbitmq", id |-> <<"rabbitmq">>]>>
McpSources == {[type |-> "nacos", id |-> <<"default">>], [type |-> "nacos", id |-> <<"old", "nacos">>],
               [type |-> "kuboard", id |-> <<"kuboard">>]}
McpConnections == {<<>>, <<"a">>, <<"a", "a">>, <<"a", "b">>, <<"a", "c">>}
McpHosts == "a" :> <<"h">> @@ "b" :> <<"h">> @@ "c" :> <<"g">>

-----------------------------------------------------------------------------
(* ConfigLoading: files of five kinds, about centers, stores, workloads,
   umbrellas and observability. *)
RepoList == <<"api", "web", "job">>
NoNames == [api |-> <<>>, web |-> <<>>, job |-> <<>>]
EachNone == [r \in Range(RepoList) |-> None]
BothNone == [grafana |-> None, elk |-> None]
Plain ==
  [centers |-> <<>>, single |-> None, source |-> EachNone, names |-> [NoNames EXCEPT !["api"] = <<"s">>],
   stores |-> <<>>, k8s |-> <<>>, services |-> <<>>, workloads |-> <<>>, parents |-> EachNone,
   legacy |-> [cluster |-> "old", deployments |-> <<>>],
   obs |-> [enabled |-> {}, urls |-> BothNone, endpoints |-> BothNone]]
Service(source, load, stores) == [id |-> "s", repo |-> "api", source |-> source, load |-> load, stores |-> stores]

WithCenters ==
  {[Plain EXCEPT !.centers = c, !.single = n, !.source["api"] = x, !.source["job"] = y, !.names["job"] = z, !.services = v] :
     c \in {<<>>, <<[id |-> "k1"]>>, <<[id |-> "k1"], [id |-> "k2"]>>, <<[id |-> "k1"], [id |-> "k1"]>>},
     n \in {None, "", "k1"}, x \in {None, "k1", "default", "gone"}, y \in {None, "k2"}, z \in {<<>>, <<"x", "s">>},
     v \in {<<>>, <<Service("k1", "", {})>>, <<Service("gone", "", {})>>}}
WithStores ==
  {[Plain EXCEPT !.stores = d, !.services = v, !.names["job"] = z] :
     d \in UpTo(2, [type : {"redis", "mysql"}, id : {None, "redis", "redis-2"}, users : {{}, {"s"}}])
           \cup [1..3 -> [type : {"redis"}, id : {None, "redis", "redis-2"}, users : {{"s"}}]],
     v \in {<<>>, <<Service(None, "", {"redis"})>>}, z \in {<<>>, <<"s", "x">>}}
WithWorkloads ==
  {[Plain EXCEPT !.k8s = k, !.services = v[1], !.workloads = v[2], !.names = n, !.legacy.deployments = d] :
     k \in UpTo(2, [service : {"s", "x", "job", "web"}, workload : {"", "w"}, cluster : {"k", "l"}]),
     v \in {<<<<>>, <<>>>>, <<<<Service(None, None, {})>>, <<>>>>,
            <<<<Service(None, "s", {})>>, <<[id |-> "s", repo |-> "api", service |-> "s", name |-> "v"]>>>>},
     n \in {[NoNames EXCEPT !["api"] = <<"s", "x">>], [NoNames EXCEPT !["api"] = <<"s">>, !["job"] = <<"x">>]},
     d \in {<<>>, [r \in {"api"} |-> "w"]}}
WithParents == {[Plain EXCEPT !.parents = p] : p \in [Range(RepoList) -> Range(RepoList) \cup {None, "gone"}]}
WithObservability ==
  {[Plain EXCEPT !.obs = [enabled |-> e, urls |-> u, endpoints |-> f]] :
     e \in SUBSET {"grafana", "elk", "loki", "tempo"},
     u \in [{"grafana", "elk"} -> {None, "a"}], f \in [{"grafana", "elk"} -> {None, "a", "b"}]}
ConfigFiles == WithCenters \cup WithStores \cup WithWorkloads \cup WithParents \cup WithObservability

-----------------------------------------------------------------------------
(* ServiceTopology: a frontend, and two repositories of which one is entered by
   two services. *)
ScannedRepos == {"r1", "r2", "r3"}
ServicesOf == "r1" :> {} @@ "r2" :> {"b"} @@ "r3" :> {"b", "c"}
EntriesOf == "b" :> <<"svc">> @@ "c" :> <<"svc", "c">>
HostsOf == "r1" :> {"web"} @@ "r2" :> {"gate"} @@ "r3" :> {"gate"}
InCluster == "r1" :> {} @@ "b" :> {"b.ns"} @@ "c" :> {}
Fact(r, at, d, m, p, h) ==
  [repo |-> r, at |-> at, dir |-> d, protocol |-> "http", method |-> m, path |-> p, hint |-> h, chain |-> <<>>]
ScannedFacts == {
  Fact("r1", <<>>, "outbound", "GET", <<"a", "b">>, None),
  Fact("r1", <<>>, "outbound", "GET", <<"a", "a">>, "b.ns"),
  Fact("r1", <<>>, "outbound", "GET", <<"a", ":id">>, "gate"),
  Fact("r1", <<>>, "outbound", "GET", <<"a", "*">>, "c"),
  [Fact("r1", <<>>, "outbound", "ANY", <<"a">>, "c") EXCEPT !.chain = <<[from |-> <<"a">>, to |-> <<"b">>]>>],
  Fact("r2", <<>>, "inbound", "GET", <<"a", "{id}">>, None),
  Fact("r2", <<>>, "inbound", "ANY", <<"a", "", "a", "">>, None),
  Fact("r3", <<"svc", "c", "m">>, "inbound", "GET", <<"a", "[id]">>, None),
  Fact("r3", <<"svc", "c">>, "inbound", "GET", <<"*">>, None),
  Fact("r3", <<"lib">>, "inbound", "GET", <<"b">>, None),
  [Fact("r2", <<>>, "outbound", "RPC", <<"S", "m">>, "c") EXCEPT !.protocol = "grpc"],
  [Fact("r3", <<"svc", "c">>, "inbound", "RPC", <<"", "S", "m">>, None) EXCEPT !.protocol = "grpc"]}
Decision(a, s, f, t, m, p) ==
  [action |-> a, scope |-> s, from |-> f, to |-> t, protocol |-> "http", method |-> m, path |-> p]
MadeDecisions == {
  Decision("reject", "service", "r1", "b", None, <<>>), Decision("confirm", "service", "r1", "c", None, <<>>),
  Decision("add", "route", "r1", "b", "GET", <<"a", ":id">>), Decision("reject", "route", "r1", "c", "GET", <<"a", "{id}">>),
  Decision("add", "service", "c", "r1", None, <<>>),
  [Decision("confirm", "route", "b", "c", "RPC", <<"S", "m">>) EXCEPT !.protocol = "grpc"],
  [Decision("reject", "route", "b", "c", "RPC", <<"", "S", "m">>) EXCEPT !.protocol = "grpc"]}

-----------------------------------------------------------------------------
(* RepositoryScan: an umbrella "mall" with two submodules, configured well and
   badly; disks that are empty, cloned over ssh, cloned from elsewhere, the
   user's own, or with strangers at the places of "mall" and "pay". *)
U(repo, form) == [repo |-> repo, form |-> form]
R(name, url, parent, mount) == [name |-> name, url |-> url, parent |-> parent, mount |-> mount]
ScannedSystems == {
  <<R("pay", U("pay", "https"), "mall", None), R("mall", U("mall", "https"), None, None)>>,
  <<R("mall", U("mall", "https"), None, None), R("pay", U("other", "https"), None, None)>>,
  <<R("pay", U("mall", "https"), None, None), R("cart", U("mall", "https"), None, None)>>,
  <<R("pay", U("pay", "https"), "cart", None), R("cart", U("cart", "https"), "pay", None), R("mall", None, "gone", None)>>,
  <<R("pay", U("pay", "port"), None, None), R("cart", U("cart", "https"), "mall", "basket"), R("mall", U("mall", "https"), None, None)>>}
Mall == <<"root", "mall">>
ScannedPaths ==
  {<<"root", n>> : n \in {"mall", "pay", "cart"}} \cup {<<"home", n>> : n \in {"mall", "pay"}}
  \cup {<<"root", "mall", n>> : n \in {"pay", "basket"}} \cup {<<"home", "mall", n>> : n \in {"pay", "basket"}}
  \cup {<<"root", "mall", "pay", "cart">>, <<"home", "mall", "pay", "cart">>, <<"root", "cart", "pay">>,
        <<"root", "pay", "cart">>, <<"home", "pay", "cart">>}
Old(url) == [origin |-> url, filled |-> TRUE, wide |-> FALSE, all |-> FALSE]
Hollow == [origin |-> None, filled |-> FALSE, wide |-> FALSE, all |-> FALSE]
Disk(given) == [p \in ScannedPaths |-> IF p \in DOMAIN given THEN given[p] ELSE None]
Only(p, d) == [q \in {p} |-> d]
Nowhere == [n \in {} |-> None]
Disks == {
  Disk(Nowhere),
  Disk(Only(Mall, Old(U("mall", "ssh"))) @@ Only(Append(Mall, "pay"), Hollow) @@ Only(Append(Mall, "basket"), Hollow)),
  Disk(Only(Mall, Old(U("mall", "https"))) @@ Only(Append(Mall, "pay"), Old(U("pay", "https")))
       @@ Only(Append(Mall, "basket"), Old(U("cart", "ssh")))),
  Disk(Only(<<"home", "mall">>, Old(U("mall", "https"))) @@ Only(<<"home", "mall", "pay">>, Hollow)
       @@ Only(<<"home", "mall", "basket">>, Hollow) @@ Only(<<"home", "pay">>, Old(U("pay", "https")))),
  Disk(Only(Mall, Old(U("cart", "https"))) @@ Only(<<"root", "pay">>, Old(U("cart", "ssh")))
       @@ Only(<<"root", "pay", "cart">>, Old(U("pay", "https"))))}
ScanRequests ==
  [only : {None, "pay"}, root : BOOLEAN, clone : BOOLEAN,
   explicit : {Nowhere, Only("mall", <<"home", "mall">>), Only("pay", <<"home", "pay">>)}]
Declared == Only(<<"mall">>, {[mount |-> "pay", url |-> U("pay", "ssh")], [mount |-> "basket", url |-> U("cart", "ssh")]})

-----------------------------------------------------------------------------
(* CodexSettings: at most one section and one key in it, as Codex accepts. *)
CodexAgents == <<"troubleshooter", "fixer">>
Lines == {"sandbox", "section", "blank", "on", "off", "key"}
KeysIn(t) ==
  {i \in DOMAIN t : t[i] \in {"on", "off"} /\
     \E h \in 1..(i - 1) : t[h] = "sandbox" /\ \A j \in (h + 1)..(i - 1) : t[j] # "section"}
CodexFiles ==
  {t \in UpTo(2, Lines) \cup {<<"section", "off", "sandbox", "key">>, <<"sandbox", "blank", "key", "off", "section", "on">>} :
     Cardinality({i \in DOMAIN t : t[i] = "sandbox"}) <= 1 /\ Cardinality(KeysIn(t)) <= 1}

-----------------------------------------------------------------------------
VARIABLES
  part,  \* the component that this behaviour is of
  s1, s2, s3, s4, s5, s6, s7, s8, s9, s10, s11, s12, s13, s14, s15, s16, s17, s18, s19, s20, s21,
  s22, s23, s24, s25, s26, s27  \* its variables

slots == <<s1, s2, s3, s4, s5, s6, s7, s8, s9, s10, s11, s12, s13, s14, s15, s16, s17, s18, s19,
           s20, s21, s22, s23, s24, s25, s26, s27>>

vars == <<part, slots, installVars, generationVars, investigationsVars, keysVars, indexVars>>

Two == INSTANCE PhaseWorkflow WITH
  Cases <- {c1, c2}, Attempts <- {a1, a2, b1, b2}, CaseOf <- Owner, NoAttempt <- None,
  status <- s1, version <- s2, current <- s3, phase <- s4, parent <- s5, astatus <- s6,
  output <- s7, claim <- s8, checkpoint <- s9, approved <- s10, inspected <- s11,
  manifest <- s12, pushed <- s13, orphan <- s14, up <- s15, serving <- s16, initErr <- s17,
  gate <- s18, worker <- s19, begun <- s20, seen <- s21, cancelled <- s22, cancelling <- s23,
  recovering <- s24, todo <- s25, recErr <- s26, recoveryStarted <- s27

Mcp == INSTANCE McpServers WITH
  Systems <- McpSystems, Envs <- {"test", "prod"}, Stores <- McpStores, Sources <- McpSources,
  Connections <- McpConnections, Host <- McpHosts, MaxEdits <- 3, config <- s1,
  pool <- s2, fresh <- s3, edits <- s4

Config == INSTANCE ConfigLoading WITH
  Repos <- RepoList, Frontends <- {"web"}, Files <- ConfigFiles, file <- s1, cfg <- s2,
  stage <- s3

Topology == INSTANCE ServiceTopology WITH
  Repos <- ScannedRepos, ServiceNames <- ServicesOf, Entries <- EntriesOf, Hosts <- HostsOf,
  ClusterNames <- InCluster, Facts <- ScannedFacts, Decisions <- MadeDecisions,
  Segments <- {"a", "b"}, MaxFacts <- 3, MaxDecisions <- 2, MaxLength <- 3, MaxDepth <- 3,
  stage <- s1, code <- s2, overrides <- s3, matches <- s4, edges <- s5, graph <- s6,
  runnable <- s7

Scan == INSTANCE RepositoryScan WITH
  Systems <- ScannedSystems, Worlds <- Disks, Requests <- ScanRequests, Submodules <- Declared,
  MaxRuns <- 2, MaxFaults <- 1, system <- s1, request <- s2, dirs <- s3, pc <- s4, queue <- s5,
  cloned <- s6, resolved <- s7, path <- s8, status <- s9, report <- s10, clones <- s11,
  runs <- s12, faults <- s13, broken <- s14

OpenCode == INSTANCE OpenCodeSettings WITH
  Keys <- {c1}, Foreign <- {c2}, Creds <- {a1}, MaxOps <- 2, MaxEdits <- 2, Broken <- Broken,
  files <- s1, op <- s2, gone <- s3, ops <- s4, edits <- s5

Codex == INSTANCE CodexSettings WITH
  Servers <- {c1}, Agents <- CodexAgents, Tomls <- CodexFiles, MaxOps <- 2, MaxEdits <- 1,
  Unmarked <- Broken, region <- s1, runtime <- s2, legacy <- s3, codex <- s4, toml <- s5,
  ops <- s6, edits <- s7

Tool == INSTANCE CodeGraphInstall WITH
  Procs <- {c1, c2}, MaxRuns <- 4, MaxFaults <- 2, MaxCrashes <- 1, cache <- s1, extract <- s2,
  backup <- s3, link <- s4, pc <- s5, answer <- s6, seen <- s7, runs <- s8, faults <- s9,
  crashes <- s10

Probe == INSTANCE McpProbe WITH
  Servers <- {c1}, Explore <- "codegraph_explore", Other <- "other", MaxLines <- 3, spec <- s1,
  pc <- s2, alive <- s3, late <- s4, out <- s5, written <- s6, asked <- s7, verdict <- s8,
  report <- s9, told <- s10, fault <- s11

ASSUME
  /\ Two!PhaseWorkflowAssumption
  /\ BotInstallAssumption
  /\ InvestigationsAssumption
  /\ CaseStoreKeysAssumption
  /\ Mcp!McpServersAssumption
  /\ Config!ConfigLoadingAssumption
  /\ BotGenerationAssumption
  /\ Topology!ServiceTopologyAssumption
  /\ Scan!RepositoryScanAssumption
  /\ OpenCode!OpenCodeAssumption
  /\ Tool!CodeGraphInstallAssumption
  /\ CodeIndexingAssumption
  /\ Probe!McpProbeAssumption

(* One live process, whose starts succeed and whose Cases nobody resets; the
   second Case lacks no evidence.  What is left is how the runs of two Cases
   meet a live recovery pass. *)
LiveStep ==
  /\ Two!Next
  /\ s15'
  /\ s1'[c1] # "reset_archived" /\ s1'[c2] \notin {"reset_archived", "waiting_evidence"}
  /\ \A a \in {a1, a2, b1, b2} : s19'[a] # "failed"

Slots ==
  \/ part = "cases" /\ Two!Init
  \/ part \in {"install", "rows", "agents", "keys", "index"}
     /\ s1 = None /\ s2 = None /\ s3 = None /\ s4 = None /\ s5 = None /\ s6 = None /\ s7 = None
     /\ s8 = None /\ s9 = None /\ s10 = None /\ s11 = None /\ s12 = None /\ s13 = None
     /\ s14 = None /\ s15 = None /\ s16 = None /\ s17 = None /\ s18 = None /\ s19 = None
     /\ s20 = None /\ s21 = None /\ s22 = None /\ s23 = None /\ s24 = None /\ s25 = None
     /\ s26 = None /\ s27 = None
  \/ part = "servers" /\ Mcp!Init
     /\ s5 = None /\ s6 = None /\ s7 = None /\ s8 = None /\ s9 = None /\ s10 = None
     /\ s11 = None /\ s12 = None /\ s13 = None /\ s14 = None /\ s15 = None /\ s16 = None
     /\ s17 = None /\ s18 = None /\ s19 = None /\ s20 = None /\ s21 = None /\ s22 = None
     /\ s23 = None /\ s24 = None /\ s25 = None /\ s26 = None /\ s27 = None
  \/ part = "loading" /\ Config!Init
     /\ s4 = None /\ s5 = None /\ s6 = None /\ s7 = None /\ s8 = None /\ s9 = None /\ s10 = None
     /\ s11 = None /\ s12 = None /\ s13 = None /\ s14 = None /\ s15 = None /\ s16 = None
     /\ s17 = None /\ s18 = None /\ s19 = None /\ s20 = None /\ s21 = None /\ s22 = None
     /\ s23 = None /\ s24 = None /\ s25 = None /\ s26 = None /\ s27 = None
  \/ part = "topology" /\ Topology!Init
     /\ s8 = None /\ s9 = None /\ s10 = None /\ s11 = None /\ s12 = None
     /\ s13 = None /\ s14 = None /\ s15 = None /\ s16 = None /\ s17 = None /\ s18 = None
     /\ s19 = None /\ s20 = None /\ s21 = None /\ s22 = None /\ s23 = None /\ s24 = None
     /\ s25 = None /\ s26 = None /\ s27 = None
  \/ part = "scan" /\ Scan!Init
     /\ s15 = None /\ s16 = None /\ s17 = None /\ s18 = None /\ s19 = None /\ s20 = None
     /\ s21 = None /\ s22 = None /\ s23 = None /\ s24 = None /\ s25 = None /\ s26 = None
     /\ s27 = None
  \/ part = "opencode" /\ OpenCode!Init
     /\ s6 = None /\ s7 = None /\ s8 = None /\ s9 = None /\ s10 = None /\ s11 = None
     /\ s12 = None /\ s13 = None /\ s14 = None /\ s15 = None /\ s16 = None /\ s17 = None
     /\ s18 = None /\ s19 = None /\ s20 = None /\ s21 = None /\ s22 = None /\ s23 = None
     /\ s24 = None /\ s25 = None /\ s26 = None /\ s27 = None
  \/ part = "codex" /\ Codex!Init
     /\ s8 = None /\ s9 = None /\ s10 = None /\ s11 = None /\ s12 = None /\ s13 = None
     /\ s14 = None /\ s15 = None /\ s16 = None /\ s17 = None /\ s18 = None /\ s19 = None
     /\ s20 = None /\ s21 = None /\ s22 = None /\ s23 = None /\ s24 = None /\ s25 = None
     /\ s26 = None /\ s27 = None
  \/ part = "tool" /\ Tool!Init
     /\ s11 = None /\ s12 = None /\ s13 = None /\ s14 = None /\ s15 = None /\ s16 = None
     /\ s17 = None /\ s18 = None /\ s19 = None /\ s20 = None /\ s21 = None /\ s22 = None
     /\ s23 = None /\ s24 = None /\ s25 = None /\ s26 = None /\ s27 = None
  \/ part = "probe" /\ Probe!Init
     /\ s12 = None /\ s13 = None /\ s14 = None /\ s15 = None /\ s16 = None /\ s17 = None
     /\ s18 = None /\ s19 = None /\ s20 = None /\ s21 = None /\ s22 = None /\ s23 = None
     /\ s24 = None /\ s25 = None /\ s26 = None /\ s27 = None

Init ==
  /\ Slots
  /\ InstallInit /\ (part # "install" => agentFile[Validator] = None)
  /\ IF part = "rows" THEN GenerationInit
     ELSE /\ yaml = Nil /\ out = Nil /\ backups = {} /\ job = Nil /\ staging = Nil /\ pkg = [t \in Targets |-> Nil]
          /\ human = [s \in Services |-> Nil] /\ known = {} /\ edits = 0 /\ runs = 0 /\ aborts = 0
  /\ InvestigationsInit /\ (part # "agents" => investigator = "workflow")
  /\ KeysInit
  /\ (part # "index" => kind = [c \in Calls |-> "deploy"]) /\ checkedOut = [r \in Repos |-> 1] /\ IndexInit

Next ==
  /\ UNCHANGED part
  /\ part # "install" => UNCHANGED installVars
  /\ part # "rows" => UNCHANGED generationVars
  /\ part # "agents" => UNCHANGED investigationsVars
  /\ part # "keys" => UNCHANGED keysVars
  /\ part # "index" => UNCHANGED indexVars
  /\ CASE part = "cases" -> LiveStep
       [] part = "install" -> InstallNext /\ UNCHANGED slots
       [] part = "servers" -> Mcp!Next /\ UNCHANGED <<s5, s6, s7, s8, s9, s10, s11, s12, s13, s14, s15, s16, s17, s18, s19, s20,
              s21, s22, s23, s24, s25, s26, s27>>
       [] part = "loading" -> Config!Next /\ UNCHANGED <<s4, s5, s6, s7, s8, s9, s10, s11, s12, s13, s14, s15, s16, s17, s18, s19,
              s20, s21, s22, s23, s24, s25, s26, s27>>
       [] part = "rows" -> GenerationNext /\ UNCHANGED slots
       [] part = "keys" -> KeysNext /\ UNCHANGED slots
       [] part = "agents" -> InvestigationsNext /\ UNCHANGED slots
       [] part = "topology" -> Topology!Next /\ UNCHANGED <<s8, s9, s10, s11, s12, s13, s14, s15, s16, s17, s18, s19, s20, s21, s22,
              s23, s24, s25, s26, s27>>
       [] part = "scan" -> Scan!Next /\ UNCHANGED <<s15, s16, s17, s18, s19, s20, s21, s22, s23, s24, s25, s26, s27>>
       [] part = "opencode" -> OpenCode!Next /\ UNCHANGED <<s6, s7, s8, s9, s10, s11, s12, s13, s14, s15, s16, s17, s18, s19, s20, s21,
              s22, s23, s24, s25, s26, s27>>
       [] part = "codex" -> Codex!Next /\ UNCHANGED <<s8, s9, s10, s11, s12, s13, s14, s15, s16, s17, s18, s19, s20, s21, s22, s23,
              s24, s25, s26, s27>>
       [] part = "tool" -> Tool!Next /\ UNCHANGED <<s11, s12, s13, s14, s15, s16, s17, s18, s19, s20, s21, s22, s23, s24, s25, s26,
              s27>>
       [] part = "index" -> IndexNext /\ UNCHANGED slots
       [] part = "probe" -> Probe!Next /\ UNCHANGED <<s12, s13, s14, s15, s16, s17, s18, s19, s20, s21, s22, s23, s24, s25, s26, s27>>

Spec == Init /\ [][Next]_vars
-----------------------------------------------------------------------------
(* What each component promises: its own properties, under the names they have in
   its module; P!1 is the action [A]_v of a property P == [][A]_v.  What the
   extended modules promise is stated there: InstalledBotIsWhole (BotInstall),
   ConfigMapIsKept (BotGeneration), TicketHasOneAgent (Investigations),
   KeysDecide (CaseStoreKeys) and IndexesAreReady (CodeIndexing). *)

(* Two Cases in one process (PhaseWorkflow): a recovery pass that one of them
   makes the other's commands run leaves every pushed fix recoverable and every
   listed attempt current, overwrites no recorded result and fails no fix for a
   remote that could not be read. *)
RecoveryKeepsWork ==
  /\ [](part = "cases" => Two!PushedFixIsRecoverable /\ Two!ListedAttemptStaysCurrent)
  /\ [][ part = "cases" => Two!IntentIsNeverLost!1 /\ Two!PushedFixIsNotFailed!1 ]_vars

(* What the IDEs are given (OpenCodeSettings, CodexSettings, CodeGraphInstall) and
   its test (McpProbe): the files that OpenCode merges never lose an entry between
   two writes or bring one back; both homes of Codex agree and have one switch for
   the network; two processes that install CodeGraph leave it installed and
   nothing beside it; a server that passes the test has listed its own tools, one
   that fails it did something wrong, and none is left running. *)
SettingsAreServed ==
  /\ [](/\ part = "opencode" => OpenCode!SettingsAreKept /\ OpenCode!NothingReappears
        /\ part = "codex" => Codex!BothHomesAgree /\ Codex!NetworkOnce
        /\ part = "tool" => Tool!SettledIsInstalled /\ Tool!NothingBeside /\ Tool!GoodForGood
        /\ part = "probe" => Probe!ReadyIsProven /\ Probe!FailIsEarned /\ Probe!NothingRuns)
  /\ [][ part = "opencode" => OpenCode!EntriesNeverVanish!1 ]_vars

(* What is derived from the configuration and the repositories (ConfigLoading,
   McpServers, RepositoryScan, ServiceTopology): a file of the older schema
   loads, every source is declared, cycles are reported, addresses kept, a
   deployment is proved where it runs; every cluster of every environment has a
   server under a key of its own that stays, and nothing stale is left; what is
   analyzed is the repository that was named, a part inside its umbrella, one
   clone for a URL, every branch, every repository reported; an automatic edge is
   proven, a route found where it is served, a decision holds, the graph is of
   edges that count, and its paths are all there are. *)
MadeAsConfigured ==
  /\ [](/\ part = "loading" =>
            /\ Config!LegacyLoads
            /\ Config!SourceIsDeclared
            /\ Config!CyclesReported
            /\ Config!AddressesKept
            /\ Config!ProofIsWhereItRuns
        /\ part = "servers" => Mcp!EveryClusterServed /\ Mcp!NothingStale
        /\ part = "scan" =>
            /\ Scan!AnalyzedIsOwn
            /\ Scan!ChildInUmbrella
            /\ Scan!EveryRepositoryReported
            /\ Scan!OneClonePerUrl
            /\ Scan!OnlyWhatWasNamed
            /\ Scan!BranchesSeen
        /\ part = "topology" =>
            /\ Topology!AutomaticIsProven
            /\ Topology!RouteIsFound
            /\ Topology!DecisionsHold
            /\ Topology!GraphIsFormal
            /\ Topology!PathsAreAll)
  /\ [][ part = "servers" => Mcp!OtherEnvironmentsKeepKeys!1 ]_vars
-----------------------------------------------------------------------------
(* The behaviours of the MCP servers alone. *)
ServersSpec == part = "servers" /\ Init /\ [][Next]_vars

(* What the comments of the code say of a deployment and the code does not do
   (McpServers): it cleans up servers of its own system only. *)
OthersAreKept == [][part = "servers" => Mcp!OthersAreKept!1]_vars
=============================================================================
