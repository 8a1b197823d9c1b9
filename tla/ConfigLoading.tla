------------------------------ MODULE ConfigLoading ------------------------------
(***************************************************************************)
(* Loading troubleshooter.yaml (config.LoadFromBytes): the file, which may *)
(* be of an older schema, is migrated in four steps that build on each     *)
(* other, validated, and then read: the health check, the configuration    *)
(* source of a service, the place where a deployment is looked at.  One    *)
(* environment; connection details, names of systems and the shape of URLs *)
(* are left out.                                                           *)
(***************************************************************************)
EXTENDS Naturals, Sequences, FiniteSets, SequencesExt

CONSTANTS
  Repos,      \* repos[].name, in order
  Frontends,  \* those of the roles frontend and mobile
  Files,      \* the contents of the file
  None        \* a field that is not given

VARIABLES
  file,   \* what was read
  cfg,    \* the configuration so far
  stage   \* read -> centers -> named -> services -> workloads -> loaded | refused | panicked

vars == <<file, cfg, stage>>

(* A service of the catalog that the file declares without "workloads" has a
   nil map there: load = None.  A derived one has an empty map: load = "". *)
FileType(f) ==
  /\ {"centers", "single", "source", "names", "stores", "k8s", "services", "workloads",
      "parents", "legacy", "obs"} = DOMAIN f
  /\ DOMAIN f.names = Range(Repos)

ConfigLoadingAssumption == \A f \in Files : FileType(f)

Init == file \in Files /\ cfg = file /\ stage = "read"

Step(from, to, c) == stage = from /\ stage' = to /\ cfg' = c /\ UNCHANGED file

Ids(seq) == {seq[i].id : i \in DOMAIN seq}
NoneTwice(seq) == \A i, j \in DOMAIN seq : seq[i].id = seq[j].id => i = j
RepoNames == Range(Repos)

-----------------------------------------------------------------------------
(* Mutant of SourceFor: only repositories of a file with several centers. *)
UnboundSource(source, centers) == IF source = None /\ Len(centers) > 1 THEN centers[1].id ELSE source

(* A repository without a source gets the first one. *)
SourceFor(source, centers) == IF source = None /\ centers # <<>> THEN centers[1].id ELSE source

SingleId(single) == IF single = "" THEN "default" ELSE single

(* migrateLegacyConfigCenter: the one center of an older file becomes a list. *)
MigrateLegacyConfigCenter ==
  LET centers == IF cfg.centers = <<>> /\ cfg.single # None
                 THEN <<[id |-> SingleId(cfg.single)]>> ELSE cfg.centers
  IN Step("read", "centers", [cfg EXCEPT
       !.centers = centers,
       !.single = IF centers = <<>> THEN None ELSE centers[1].id,
       !.source = [r \in RepoNames |-> SourceFor(@[r], centers)]])

(* Mutant of FillAddresses: an endpoint replaces the address in the map. *)
EndpointsWin(obs) == [obs EXCEPT !.urls = [e \in DOMAIN @ |-> IF obs.endpoints[e] # None THEN obs.endpoints[e] ELSE @[e]]]

(* migrateObservabilityEndpoints: endpoints fill in what the map lacks. *)
FillAddresses(obs) == [obs EXCEPT !.urls = [e \in DOMAIN @ |-> IF @[e] = None THEN obs.endpoints[e] ELSE @[e]]]

(* Name number n of a type is the type itself, then type-2 and so on. *)
Numbered(type, n) == IF n = 1 THEN type ELSE type \o "-" \o ToString(n)

(* Mutant of FreeNumber: the names in use are not looked at. *)
NextNumber(type, n, used) == n

(* The first number from n on whose name is not used. *)
FreeNumber(type, n, used) ==
  CHOOSE k \in n .. (n + Cardinality(used)) :
    Numbered(type, k) \notin used /\ \A j \in n .. (k - 1) : Numbered(type, j) \in used

(* migrateResourceCatalog, the stores: each without an id is named by its type
   and the count of those, past the names used BEFORE it. *)
NamedStores(stores) ==
  LET Name(acc, s) ==
        IF s.id # None THEN [acc EXCEPT !.out = Append(@, s), !.used = @ \cup {s.id}]
        ELSE LET n == FreeNumber(s.type, acc.count[s.type] + 1, acc.used)
                 id == Numbered(s.type, n)
             IN [out |-> Append(acc.out, [s EXCEPT !.id = id]), used |-> acc.used \cup {id},
                 count |-> [acc.count EXCEPT ![s.type] = n]]
  IN FoldLeft(Name, [out |-> <<>>, used |-> {}, count |-> [t \in {stores[i].type : i \in DOMAIN stores} |-> 0]],
              stores).out

MigrateResourceCatalogStores ==
  Step("centers", "named", [cfg EXCEPT !.stores = NamedStores(@), !.obs = FillAddresses(@)])

(* ... the services: unless the file declares some, one for each service name,
   of the first repository that has it, with the stores it has endpoints of. *)
ServiceNames == FoldLeft(LAMBDA acc, r : acc \o cfg.names[r], <<>>, Repos)
FirstOnes(seq) == SelectSeq([i \in DOMAIN seq |-> [at |-> i, is |-> seq[i]]],
                            LAMBDA x : \A j \in 1 .. (x.at - 1) : seq[j] # x.is)
OwnerOf(s) == SelectSeq(Repos, LAMBDA r : s \in Range(cfg.names[r]))[1]

DeriveServices ==
  Step("named", "services",
    IF cfg.services # <<>> THEN cfg
    ELSE [cfg EXCEPT !.services =
           [i \in DOMAIN FirstOnes(ServiceNames) |->
              LET s == FirstOnes(ServiceNames)[i].is IN
              [id |-> s, repo |-> OwnerOf(s), source |-> None, load |-> "",
               stores |-> {cfg.stores[d].id : d \in {d \in DOMAIN cfg.stores : s \in cfg.stores[d].users}}]]])

(* ... the workloads: one for each identity of the K8s map that is a service or
   a repository; and one for each frontend, which may run without a mapping. *)
RepositoryOf(name) ==
  IF name \in Ids(cfg.services)
  THEN cfg.services[CHOOSE i \in DOMAIN cfg.services : cfg.services[i].id = name].repo
  ELSE IF name \in RepoNames THEN name ELSE None

Mapped == SelectSeq(FirstOnes([i \in DOMAIN cfg.k8s |-> cfg.k8s[i].service]),
                    LAMBDA x : RepositoryOf(x.is) # None)
NameFor(s) ==
  LET e == Last(SelectSeq(cfg.k8s, LAMBDA x : x.service = s)) IN IF e.workload = "" THEN s ELSE e.workload

DerivedWorkloads ==
  [i \in DOMAIN Mapped |-> [id |-> Mapped[i].is, repo |-> RepositoryOf(Mapped[i].is),
                            service |-> Mapped[i].is, name |-> NameFor(Mapped[i].is)]]
    \o LET alone == SelectSeq(Repos, LAMBDA r : r \in Frontends /\ r \notin {Mapped[i].is : i \in DOMAIN Mapped})
       IN [i \in DOMAIN alone |-> [id |-> alone[i], repo |-> alone[i], service |-> "", name |-> alone[i]]]

(* The binding of a service is written into its map, which is nil in one that
   the file declares without bindings. *)
Bound == {i \in DOMAIN cfg.services : \E e \in DOMAIN cfg.k8s : cfg.k8s[e].service = cfg.services[i].id}

DeriveWorkloads ==
  LET derive == cfg.workloads = <<>>
      panics == derive /\ \E i \in Bound : cfg.services[i].load = None
  IN Step("services", IF panics THEN "panicked" ELSE "workloads",
       IF panics \/ ~derive THEN cfg
       ELSE [cfg EXCEPT !.workloads = DerivedWorkloads,
               !.services = [i \in DOMAIN @ |-> IF i \in Bound THEN [@[i] EXCEPT !.load = cfg.services[i].id] ELSE @[i]]])

-----------------------------------------------------------------------------
(* Validate and validateResourceCatalog. *)
ValidCenters ==
  /\ NoneTwice(cfg.centers)
  /\ \A r \in RepoNames : cfg.source[r] \in {None} \cup Ids(cfg.centers)

ValidServices ==
  /\ NoneTwice(cfg.stores) /\ NoneTwice(cfg.services)
  /\ \A i \in DOMAIN cfg.services :
       /\ cfg.services[i].repo \in RepoNames
       /\ cfg.services[i].source \in {None} \cup Ids(cfg.centers)
       /\ cfg.services[i].stores \subseteq Ids(cfg.stores)

ValidWorkloads ==
  /\ NoneTwice(cfg.workloads)
  /\ \A i \in DOMAIN cfg.workloads :
       /\ cfg.workloads[i].repo \in RepoNames
       /\ cfg.workloads[i].service \in {""} \cup Ids(cfg.services)
  /\ \A i \in {i \in DOMAIN cfg.services : cfg.services[i].load \notin {None, ""}} :
       \E w \in DOMAIN cfg.workloads : /\ cfg.workloads[w].id = cfg.services[i].load
                                       /\ cfg.workloads[w].service \in {"", cfg.services[i].id}

(* validateRuntimeResourceMappings: the map speaks of what the catalog has, one
   entry each, and gives a workload the name it has there. *)
ValidMappings ==
  LET known == Ids(cfg.services) \cup Ids(cfg.workloads) IN
  /\ \A e \in DOMAIN cfg.k8s : known # {} => cfg.k8s[e].service \in known
  /\ \A e, f \in DOMAIN cfg.k8s : cfg.k8s[e].service = cfg.k8s[f].service => e = f
  /\ \A e \in DOMAIN cfg.k8s, w \in DOMAIN cfg.workloads :
       \/ cfg.k8s[e].workload = ""
       \/ cfg.k8s[e].workload = cfg.workloads[w].name
       \/ /\ ~\E i \in DOMAIN cfg.services :
               cfg.services[i].id = cfg.k8s[e].service /\ cfg.services[i].load = cfg.workloads[w].id
          /\ cfg.workloads[w].service # "" \/ cfg.workloads[w].id # cfg.k8s[e].service

(* validateDeploymentVerification, of the provider k8s. *)
ValidDeployment == DOMAIN cfg.legacy.deployments \subseteq RepoNames

Validate ==
  Step("workloads",
       IF ValidCenters /\ ValidServices /\ ValidWorkloads /\ ValidMappings /\ ValidDeployment
       THEN "loaded" ELSE "refused", cfg)

Next ==
  \/ MigrateLegacyConfigCenter
  \/ MigrateResourceCatalogStores
  \/ DeriveServices
  \/ DeriveWorkloads
  \/ Validate

Spec == Init /\ [][Next]_vars

-----------------------------------------------------------------------------
(* What a loaded configuration is read for. *)

(* ConfigSourceFor: the catalog's binding, then that of the first repository
   with the name, then "default". *)
ConfigSourceFor(service) ==
  LET bound == {i \in DOMAIN cfg.services : cfg.services[i].id = service /\ cfg.services[i].source # None}
      owners == SelectSeq(Repos, LAMBDA r : service \in (IF cfg.names[r] = <<>> THEN {r} ELSE Range(cfg.names[r])))
  IN IF bound # {} THEN cfg.services[CHOOSE i \in bound : TRUE].source
     ELSE IF owners = <<>> \/ cfg.source[owners[1]] = None THEN "default"
     ELSE cfg.source[owners[1]]

(* checkEnvRepo: parents that are the repository itself or unknown, and chains
   of known parents that come back within as many hops as there are repositories. *)
KnownParent(r) == cfg.parents[r] \in RepoNames
Hop[n \in 0 .. (Len(Repos) + 1), r \in RepoNames] ==     \* the n repositories visited from r on
  IF n = 0 THEN <<>>
  ELSE IF KnownParent(r) THEN <<r>> \o Hop[n - 1, cfg.parents[r]] ELSE <<r>>

(* Mutant of CheckEnvRepo: one hop less. *)
ShortWalk == {r \in RepoNames : KnownParent(r) /\ ~IsInjective(Hop[Len(Repos), r])}

CheckEnvRepo == {r \in RepoNames : KnownParent(r) /\ ~IsInjective(Hop[Len(Repos) + 1, r])}

(* checkObservability: enabled without any address, or asked through a Grafana
   that is not enabled. *)
ThroughGrafana == {"loki", "prometheus", "tempo"}
CheckObservability ==
  {e \in cfg.obs.enabled : IF e \in ThroughGrafana THEN "grafana" \notin cfg.obs.enabled ELSE cfg.obs.urls[e] = None}

(* resolveK8sDeploymentVerification: the deployment of a repository is the one
   workload the map has for its services, and the cluster the one of all. *)
CandidatesOf(r) ==
  LET names == IF cfg.names[r] = <<>> THEN {r} ELSE Range(cfg.names[r]) IN
  {[cluster |-> cfg.k8s[e].cluster, workload |-> cfg.k8s[e].workload] :
     e \in {e \in DOMAIN cfg.k8s : cfg.k8s[e].service \in names /\ cfg.k8s[e].workload # ""}}
Identified == {r \in RepoNames : Cardinality(CandidatesOf(r)) = 1}
Ambiguous == {r \in RepoNames : Cardinality(CandidatesOf(r)) > 1}
ClustersOf(repos) == {c.cluster : c \in UNION {CandidatesOf(r) : r \in repos}} \ {""}

Deployments ==
  [r \in (DOMAIN cfg.legacy.deployments \ Ambiguous) \cup Identified |->
     IF r \in Identified THEN (CHOOSE c \in CandidatesOf(r) : TRUE).workload ELSE cfg.legacy.deployments[r]]

(* Mutant of Cluster: the clusters of ambiguous repositories, and several, count for nothing. *)
AnyCluster == IF ClustersOf(Identified) = {} THEN cfg.legacy.cluster ELSE CHOOSE k \in ClustersOf(Identified) : TRUE

Cluster ==
  IF Ambiguous # {} \/ Cardinality(ClustersOf(Identified)) > 1 THEN ""
  ELSE IF ClustersOf(Identified) = {} THEN cfg.legacy.cluster
  ELSE CHOOSE k \in ClustersOf(Identified) : TRUE

-----------------------------------------------------------------------------
(* A file of the older schema whose own references hold: it declares no
   catalog, and its map speaks of services and repositories it has. *)
OldAndSound ==
  /\ file.services = <<>> /\ file.workloads = <<>> /\ NoneTwice(file.centers)
  /\ \A r \in RepoNames :
       file.source[r] \in {None} \cup (IF file.centers = <<>> THEN {SingleId(file.single)} ELSE Ids(file.centers))
  /\ \A i, j \in DOMAIN file.stores : file.stores[i].id = file.stores[j].id /\ file.stores[i].id # None => i = j
  /\ \A e, f \in DOMAIN file.k8s : file.k8s[e].service = file.k8s[f].service => e = f
  /\ \A e \in DOMAIN file.k8s : file.k8s[e].service \in UNION {Range(file.names[r]) : r \in RepoNames} \cup RepoNames
  /\ DOMAIN file.legacy.deployments \subseteq RepoNames

(* The two that the migration turns into a refusal: an id given later is the
   one a store without an id was named; and a map entry that names a
   repository is bound to a service of that name. *)
NamedTooEarly ==
  \E i, j \in DOMAIN file.stores : i < j /\ file.stores[i].id = None /\ file.stores[j].id = NamedStores(file.stores)[i].id
NamesRepository ==
  \E e \in DOMAIN file.k8s : file.k8s[e].service \notin UNION {Range(file.names[r]) : r \in RepoNames}

(* LegacyLoads: what migrateLegacyConfigCenter and migrateResourceCatalog
   derive passes Validate and none of the steps panics: any sound file of the
   older schema loads, but for those two. *)
LegacyLoads == OldAndSound /\ ~NamedTooEarly /\ ~NamesRepository => stage \notin {"refused", "panicked"}

(* SourceIsDeclared: the source the generated files name for a service of a
   repository is one the configuration has, whichever way it was bound. *)
SourceIsDeclared ==
  stage = "loaded" /\ cfg.centers # <<>> =>
    \A s \in UNION {Range(cfg.names[r]) : r \in RepoNames} \cup Ids(cfg.services) :
      \/ ConfigSourceFor(s) \in Ids(cfg.centers)
      \/ \A r \in RepoNames : s \notin Range(cfg.names[r])

(* CyclesReported: the bounded walk finds exactly the repositories from which
   the parents come to a repository that is its own ancestor. *)
Ancestors(r) ==
  LET up[n \in 0 .. Len(Repos)] ==
        IF n = 0 THEN {cfg.parents[r]} ELSE up[n - 1] \cup {cfg.parents[p] : p \in up[n - 1] \cap RepoNames}
  IN up[Len(Repos)] \cap RepoNames
CyclesReported ==
  stage = "loaded" => CheckEnvRepo = {r \in RepoNames : \E p \in {r} \cup Ancestors(r) : p \in Ancestors(p)}

(* AddressesKept: an address in the map outlives the endpoints, and a component
   with either is not reported. *)
AddressesKept ==
  stage = "loaded" => \A e \in file.obs.enabled \ ThroughGrafana :
    /\ file.obs.urls[e] # None => cfg.obs.urls[e] = file.obs.urls[e]
    /\ file.obs.endpoints[e] # None => e \notin CheckObservability

(* ProofIsWhereItRuns: no deployment is looked for in a cluster other than the
   one the K8s map has for it. *)
ProofIsWhereItRuns ==
  stage = "loaded" /\ Cluster # "" =>
    \A r \in DOMAIN Deployments : \A c \in CandidatesOf(r) :
      c.workload = Deployments[r] /\ c.cluster \in {"", Cluster}
=============================================================================
