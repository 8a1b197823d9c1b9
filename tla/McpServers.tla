------------------------------- MODULE McpServers -------------------------------
(***************************************************************************)
(* Which MCP servers a system gets and under which keys they go into the   *)
(* settings file it shares with other systems (BuildMCPServers, dsEndpoints*)
(* Unique, mcpKeyForAgent, writeMCPServersWithVerify): one server for each *)
(* source and environment of the configuration, one for each cluster of a  *)
(* data store.  The user edits the configurations and deploys them, with   *)
(* or without credentials.  A name is a sequence of words: joining names   *)
(* with hyphens is concatenation.                                          *)
(***************************************************************************)
EXTENDS Naturals, Sequences, SequencesExt, FiniteSets

CONSTANTS
  Systems,      \* system.id of each system, a sequence of words
  Envs,         \* environment ids, words
  Stores,       \* the data stores of a configuration: [type, id], in order
  Sources,      \* its configuration centers: [type, id]
  Connections,  \* the connection strings of the endpoints (one per service) that a
                \* store can have in an environment, in order
  Host,         \* Host[c]: the first word of the host of c
  MaxEdits

McpServersAssumption ==
  /\ \A s \in Systems : s \in Seq(STRING) /\ s # <<>>
  /\ \A eps \in Connections : \A k \in DOMAIN eps : Host[eps[k]] \in Seq(STRING)
  /\ MaxEdits \in Nat

VARIABLES
  config,   \* config[s]: enabled stores, endpoints by store and environment, other servers
  pool,     \* the mcpServers of the settings file: [key, sys, what]; of two
            \* with one key the file has the later, here both stay to be seen
  fresh,    \* history: systems deployed with credentials since their last edit, and
            \* not taken for a part of another system since (TakenFor)
  edits

vars == <<config, pool, fresh, edits>>

Indices == 1 .. Len(Stores)
Watchers == {"grafana", "jaeger", "elk", "skywalking", "k8s-kuboard"}
Fixed == {"lark-openapi", "one2all", "codegraph"}
Tools == {"nacos", "consul", "skywalking", "codegraph"}     \* run from a file that had to be fetched
Bare == {"grafana", "lark-openapi", "codegraph"}            \* registered without a connection, too
OverHttp == {"rabbitmq"}                                    \* stores that no server is for

Init ==
  /\ config = [s \in Systems |-> [stores |-> {}, eps |-> [i \in Indices |-> [e \in Envs |-> <<>>]], on |-> {}, known |-> {}]]
  /\ pool = {} /\ fresh = {} /\ edits = 0

-----------------------------------------------------------------------------
(* mcpKey: an id that is "default" or the kind itself is left out. *)
Segment(kind, source) == IF source \in {<<>>, <<"default">>, <<kind>>} THEN <<>> ELSE source
KeyFor(s, kind, source, e) == s \o <<kind>> \o Segment(kind, source) \o <<e>>

(* dsEndpointsUnique: the first endpoint of each cluster, in order. *)
Unique(eps) == SelectSeq([k \in 1 .. Len(eps) |-> k], LAMBDA k : \A j \in 1 .. (k - 1) : eps[j] # eps[k])
Distinct(eps) == [k \in 1 .. Len(Unique(eps)) |-> eps[Unique(eps)[k]]]

(* Mutant of SourceIds: two clusters of one host get the same id. *)
HostOnly(eps) == [k \in 1 .. Len(Distinct(eps)) |-> Host[Distinct(eps)[k]]]

(* deriveSourceID: the host; a host that was seen gets the hash of the string. *)
SourceIds(eps) ==
  LET d == Distinct(eps) IN
  [k \in 1 .. Len(d) |->
     IF \E j \in 1 .. (k - 1) : Host[d[j]] = Host[d[k]] THEN Host[d[k]] \o <<d[k]>> ELSE Host[d[k]]]

(* An instance is named when there are several of its type, or its id is its own. *)
Instance(c, i) ==
  IF Cardinality({j \in c.stores : Stores[j].type = Stores[i].type}) > 1 \/ Stores[i].id # <<Stores[i].type>>
  THEN Stores[i].id ELSE <<>>

(* Mutant of SingleCluster: the clusters of all environments are counted. *)
SingleAnywhere(c, i, e) == Cardinality(UNION {{c.eps[i][f][k] : k \in DOMAIN c.eps[i][f]} : f \in Envs}) <= 1

SingleCluster(c, i, e) == Len(Distinct(c.eps[i][e])) <= 1

(* buildMongoDB and the others: the server of a store whose connection the
   configuration has, overridden by the credentials of that name. *)
EndpointServer(s, i, source, e, c) ==
  [key |-> KeyFor(s, Stores[i].type, source, e), sys |-> s, what |-> <<"store", i, e, c>>]

(* Without an endpoint the connection can only be among the credentials. *)
GivenServer(s, i, source, e, given) == IF given THEN {EndpointServer(s, i, source, e, "given")} ELSE {}

(* buildDataStores: a server for each cluster; buildRabbitMQ registers none. *)
StoreServers(s, c, i, e, given) ==
  LET d == Distinct(c.eps[i][e])
      name(k) == Instance(c, i) \o (IF SingleCluster(c, i, e) THEN <<>> ELSE SourceIds(c.eps[i][e])[k])
  IN IF Stores[i].type \in OverHttp THEN {}
     ELSE IF d = <<>> THEN GivenServer(s, i, Instance(c, i), e, given)
     ELSE {EndpointServer(s, i, name(k), e, d[k]) : k \in DOMAIN d}

(* buildNacos, buildKuboard, buildConsul: one for each source and environment. *)
SourceServers(s, c, src, e) ==
  {[key |-> KeyFor(s, src.type, src.id, e), sys |-> s, what |-> <<"source", src.id, e, src.type>>]}

WatchServers(s, kind, e) == {[key |-> KeyFor(s, kind, <<>>, e), sys |-> s, what |-> <<"watch", kind, e, "">>]}
FixedServers(s, kind) == {[key |-> s \o <<kind>>, sys |-> s, what |-> <<"fixed", kind, "", "">>]}

(* A server is registered when its tool could be fetched and the connection it
   needs is among the credentials or in the configuration. *)
Runs(kind, c, given, fetched) ==
  /\ kind \in Tools => kind \in fetched
  /\ kind \in Bare \/ given \/ kind \in c.known \ {"nacos", "jaeger", "elk", "one2all"}

BuildMCPServers(s, given, fetched) ==
  LET c == config[s] IN
  UNION {StoreServers(s, c, i, e, given) : i \in c.stores, e \in Envs}
    \cup UNION {SourceServers(s, c, src, e) : src \in {x \in Sources : x.type \in c.on /\ Runs(x.type, c, given, fetched)}, e \in Envs}
    \cup UNION {WatchServers(s, k, e) : k \in {x \in Watchers \cap c.on : Runs(x, c, given, fetched)}, e \in Envs}
    \cup UNION {FixedServers(s, k) : k \in {x \in Fixed \cap c.on : Runs(x, c, given, fetched)}}

-----------------------------------------------------------------------------
Edit(s, c) ==
  /\ edits < MaxEdits /\ edits' = edits + 1
  /\ config' = [config EXCEPT ![s] = c]
  /\ fresh' = fresh \ {s}
  /\ UNCHANGED pool

ToggleStore(s, i) ==
  Edit(s, [config[s] EXCEPT !.stores = IF i \in @ THEN @ \ {i} ELSE @ \cup {i}])

SetEndpoints(s, i, e) ==
  /\ i \in config[s].stores
  /\ \E eps \in Connections : eps # config[s].eps[i][e] /\ Edit(s, [config[s] EXCEPT !.eps[i][e] = eps])

ToggleServers(s) ==
  \E on \in {{}, {src.type : src \in Sources}, Watchers \cup Fixed}, known \in {{}, {"kuboard", "skywalking"}} :
    <<on, known>> # <<config[s].on, config[s].known>> /\ Edit(s, [config[s] EXCEPT !.on = on, !.known = known])

HasPrefix(key, s) == Len(key) > Len(s) /\ SubSeq(key, 1, Len(s)) = s

(* Mutant of Replaced: entries that are derived no longer stay. *)
Added(wanted, s) == {x \in pool : \A w \in wanted : w.key # x.key} \cup wanted

(* With credentials: what is derived replaces, and what has the system's
   prefix and is derived no longer goes - what is of a system whose id extends
   this one's, too. *)
Replaced(wanted, s) == {x \in pool : ~HasPrefix(x.key, s) /\ \A w \in wanted : w.key # x.key} \cup wanted

(* Without: what is there stays, but for the CodeGraph entry. *)
Completed(wanted, s) ==
  LET kept == {x \in pool : x.key # s \o <<"codegraph">>} IN
  kept \cup {w \in wanted : \A x \in kept : x.key # w.key}

(* The keys of a system begin with the prefix of those whose id it extends. *)
TakenFor(s) == {t \in Systems : t = s \/ HasPrefix(t, s)}

Deploy(s, given, fetched) ==
  /\ LET wanted == BuildMCPServers(s, given, fetched) IN
       pool' = IF given THEN Replaced(wanted, s) ELSE Completed(wanted, s)
  /\ fresh' = (IF given THEN fresh \ TakenFor(s) ELSE fresh \ {s}) \cup (IF given /\ fetched = Tools THEN {s} ELSE {})
  /\ UNCHANGED <<config, edits>>

Next ==
  \E s \in Systems :
    \/ \E i \in Indices : ToggleStore(s, i)
    \/ \E i \in Indices, e \in Envs : SetEndpoints(s, i, e)
    \/ ToggleServers(s)
    \/ \E given \in BOOLEAN, fetched \in {{}, Tools} : Deploy(s, given, fetched)

Spec == Init /\ [][Next]_vars

-----------------------------------------------------------------------------
(* After a deployment with credentials every cluster of every enabled store
   has a server in every environment that uses it, one for each, and no other
   server has its key, which would overwrite it; until a system is deployed
   whose id the system's extends (OthersAreKept). *)
EveryClusterServed ==
  \A s \in fresh : \A i \in {j \in config[s].stores : Stores[j].type \notin OverHttp} : \A e \in Envs :
    \A c \in {config[s].eps[i][e][k] : k \in DOMAIN config[s].eps[i][e]} :
      \E x \in pool : /\ x.sys = s /\ x.what = <<"store", i, e, c>>
                      /\ \A y \in pool \ {x} : y.key # x.key /\ ~(y.sys = s /\ y.what = x.what)

(* ... and nothing of the system is in the file that it does not derive. *)
NothingStale == \A s \in fresh : {x \in pool : x.sys = s} \subseteq BuildMCPServers(s, TRUE, Tools)

(* What the comments of the code promise, and the code does not keep: a
   deployment cleans up servers of its own system only
   (install_native_mcp.go:225, install_native_mcp_common.go:318). *)
OthersAreKept ==
  [][\A s \in Systems, given \in BOOLEAN, fetched \in {{}, Tools} :
       Deploy(s, given, fetched) => {x \in pool : x.sys # s} \subseteq pool']_vars

(* Editing one environment renames no server of another, whose entries carry
   the credentials. *)
OtherEnvironmentsKeepKeys ==
  [][\A s \in {t \in Systems : config'[t] # config[t]}, e \in Envs : \A i \in config[s].stores \cap config'[s].stores :
       /\ config'[s].eps[i][e] = config[s].eps[i][e]
       /\ config'[s].stores = config[s].stores
       => StoreServers(s, config[s], i, e, TRUE) = StoreServers(s, config'[s], i, e, TRUE)]_vars
=============================================================================
