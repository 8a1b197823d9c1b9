----------------------------- MODULE ServiceTopology -----------------------------
(***************************************************************************)
(* The service graph (packages topology and analyzerpipe): routes that the *)
(* repositories serve are matched with the calls that they make, what      *)
(* people decided about the edges is merged in, and of the edges that      *)
(* count the graph of the services is made, which bots follow from a       *)
(* service to the ones it depends on.                                      *)
(*                                                                         *)
(* A path is a sequence of segments; the target that a call hints at, the  *)
(* hosts and the aliases are taken without scheme, port and case.          *)
(***************************************************************************)
EXTENDS Naturals, Sequences, FiniteSets

CONSTANTS
  Repos,          \* the service repositories
  ServiceNames,   \* ServiceNames[r]: the services that the configuration names for r
  Entries,        \* Entries[s]: the directory of s in its repository, for some services
  Hosts,          \* Hosts[r]: the domains of the environments, for a frontend or a gateway
  ClusterNames,   \* ClusterNames[s]: the names of s in its cluster, with their namespaces
  Facts,          \* endpoints that a scan may find: [repo, at, dir, protocol, method, path, hint, chain]
  Decisions,      \* what people may decide: [action, scope, from, to, protocol, method, path]
  Segments,       \* literal segments of a path
  MaxFacts, MaxDecisions, MaxLength, MaxDepth,
  None

ServiceTopologyAssumption ==
  /\ \A r \in Repos : r \in DOMAIN ServiceNames /\ r \in DOMAIN Hosts
  /\ MaxFacts \in Nat /\ MaxDecisions \in Nat /\ MaxLength \in Nat /\ MaxDepth \in Nat \ {0}

VARIABLES
  stage,       \* "scanned", "matched", "merged", "loaded"
  code,        \* the facts that the scan found
  runnable,    \* runnableTopologyRepos: the repositories that it could analyze
  overrides,   \* service_topology.overrides
  matches,     \* what Match returned
  edges,       \* the edges of the snapshot
  graph        \* [edge -> [status, confidence, routes]], of pairs of services

vars == <<stage, code, runnable, overrides, matches, edges, graph>>

Param == "{param}"
Wild == "{wildcard}"
Concrete(s) == s \notin {Param, Wild}

NormalSegment(s) ==
  CASE s \in {":id", "{id}", "[id]"} -> Param
    [] s \in {"*", ":rest*", "{*rest}", "[...rest]"} -> Wild
    [] OTHER -> s

(* NormalizePath, of the segments between slashes. *)
NormalPath(p) ==
  LET named == SelectSeq(p, LAMBDA s : s # "") IN [k \in DOMAIN named |-> NormalSegment(named[k])]

EffectiveServices(r) == IF ServiceNames[r] = {} THEN {r} ELSE ServiceNames[r]
AllServices == UNION {EffectiveServices(r) : r \in Repos}

(* validateServiceTopology: of two decisions about one edge only one is kept in
   a configuration, the routes as they are written but for case and slashes. *)
ConfigKey(d) == IF d.scope = "service" THEN <<d.from, d.to>>
                ELSE <<d.from, d.to, d.protocol, d.method, IF d.protocol = "http" THEN NormalPath(d.path) ELSE d.path>>
Valid(ds) ==
  /\ \A d \in ds : {d.from, d.to} \subseteq AllServices
  /\ \A d, e \in ds : ConfigKey(d) = ConfigKey(e) => d = e

-----------------------------------------------------------------------------
(* Scanning.  An endpoint belongs to the service whose directory is the longest
   one around it, or else to every service of its repository. *)
Holds(dir, at) == Len(dir) <= Len(at) /\ SubSeq(at, 1, Len(dir)) = dir

EntryServices(f) ==
  LET around == {s \in EffectiveServices(f.repo) \cap DOMAIN Entries : Holds(Entries[s], f.at)}
  IN {s \in around : \A t \in around : Len(Entries[t]) <= Len(Entries[s])}

Endpoints ==
  UNION {{[service |-> s, fact |-> f] :
            s \in IF EntryServices(f) = {} THEN EffectiveServices(f.repo) ELSE EntryServices(f)} : f \in code}
Outbound == {e \in Endpoints : e.fact.dir = "outbound"}
Inbound == {e \in Endpoints : e.fact.dir = "inbound"}

-----------------------------------------------------------------------------
(* Matching. *)
CompatibleMethods(a, b) == a = b \/ "ANY" \in {a, b}

(* Mutant of Covers: a wildcard of the call satisfies a parameter of the route. *)
RECURSIVE LooseCovers(_, _)
LooseCovers(o, i) ==
  IF i = <<>> THEN o = <<>>
  ELSE CASE Head(i) = Param -> o # <<>> /\ LooseCovers(Tail(o), Tail(i))
         [] Head(i) = Wild -> \E n \in 1..Len(o) : LooseCovers(SubSeq(o, n + 1, Len(o)), Tail(i))
         [] OTHER -> o # <<>> /\ Head(o) = Head(i) /\ LooseCovers(Tail(o), Tail(i))

(* outboundMatchesInboundTemplate: a wildcard of a route takes one or more
   literal segments, a parameter takes one segment. *)
RECURSIVE Covers(_, _)
Covers(o, i) ==
  IF i = <<>> THEN o = <<>>
  ELSE CASE Head(i) = Param -> o # <<>> /\ Head(o) # Wild /\ Covers(Tail(o), Tail(i))
         [] Head(i) = Wild -> \E n \in 1..Len(o) : /\ \A k \in 1..n : Concrete(o[k])
                                                   /\ Covers(SubSeq(o, n + 1, Len(o)), Tail(i))
         [] OTHER -> o # <<>> /\ Head(o) = Head(i) /\ Covers(Tail(o), Tail(i))

(* applyTransformChain: the path that a chain of rewrites makes of a path, if
   every rewrite starts where the one before it ended. *)
Rewritten(p, chain) ==
  IF /\ chain # <<>>
     /\ \A k \in DOMAIN chain : chain[k].from = IF k = 1 THEN p ELSE chain[k - 1].to
  THEN {chain[Len(chain)].to} ELSE {}

Transformed(o, i) ==
  LET left == Rewritten(NormalPath(o.path), o.chain)
      right == Rewritten(NormalPath(i.path), i.chain)
  IN NormalPath(i.path) \in left \/ NormalPath(o.path) \in right \/ left \cap right # {}

EndsWith(p, q) == q # <<>> /\ Len(q) < Len(p) /\ SubSeq(p, Len(p) - Len(q) + 1, Len(p)) = q

Kind(o, i) ==
  LET out == NormalPath(o.path)
      in == NormalPath(i.path)
  IN IF o.protocol # i.protocol THEN "none"
     ELSE IF o.protocol = "grpc" THEN IF Len(out) = 2 /\ out = in THEN "exact" ELSE "none"
     ELSE CASE ~CompatibleMethods(o.method, i.method) -> "none"
            [] out = in -> "exact"
            [] Covers(out, in) -> "template"
            [] Transformed(o, i) -> "transformed"
            [] EndsWith(out, in) \/ EndsWith(in, out) -> "similar"
            [] OTHER -> "none"

Count(path, Test(_)) == Cardinality({k \in DOMAIN path : Test(path[k])})

(* compareRouteSpecificity: a literal route that is equal, then more literals,
   then fewer wildcards. *)
MoreSpecific(o, i, j) ==
  LET Literal(e) == Kind(o, e) = "exact" /\ e.protocol = "http" /\ \A k \in DOMAIN NormalPath(e.path) : Concrete(NormalPath(e.path)[k])
      Literals(e) == IF e.protocol = "http" THEN Count(NormalPath(e.path), Concrete) ELSE 0
      Wildcards(e) == IF e.protocol = "http" THEN Count(NormalPath(e.path), LAMBDA s : s = Wild) ELSE 0
  IN \/ Literal(i) /\ ~Literal(j)
     \/ Literal(i) = Literal(j) /\ Literals(i) > Literals(j)
     \/ Literal(i) = Literal(j) /\ Literals(i) = Literals(j) /\ Wildcards(i) < Wildcards(j)

SameOwner(i, j) == i.fact.repo = j.fact.repo /\ i.service = j.service

(* Mutant of Candidates: of the routes of all services the most specific. *)
MostSpecificOfAll(o) ==
  LET others == {i \in Inbound : i.fact.repo # o.fact.repo /\ i.service # o.service}
      primary == {i \in others : Kind(o.fact, i.fact) \in {"exact", "template", "transformed"}}
  IN IF primary = {} THEN {i \in others : Kind(o.fact, i.fact) = "similar"}
     ELSE {i \in primary : \A j \in primary : ~MoreSpecific(o.fact, j.fact, i.fact)}

(* routeCandidates, mostSpecificCandidatesPerService *)
Candidates(o) ==
  LET others == {i \in Inbound : i.fact.repo # o.fact.repo /\ i.service # o.service}
      primary == {i \in others : Kind(o.fact, i.fact) \in {"exact", "template", "transformed"}}
  IN IF primary = {} THEN {i \in others : Kind(o.fact, i.fact) = "similar"}
     ELSE {i \in primary : \A j \in primary : SameOwner(i, j) => ~MoreSpecific(o.fact, j.fact, i.fact)}

(* topologyServiceAliases: a repository of one service lends it its name. *)
HostAliases(r, s) == {s} \cup ClusterNames[s] \cup IF Cardinality(EffectiveServices(r)) = 1 THEN {r} ELSE {}

(* targetEvidence *)
Evidence(o, i) == o.fact.hint # None /\ o.fact.hint \in Hosts[i.fact.repo] \cup HostAliases(i.fact.repo, i.service)

(* Mutant of Confidence: a hint that means several services is believed. *)
TrustingConfidence(kind, named, ambiguous, duplicate) ==
  CASE kind = "similar" -> IF named THEN 45 ELSE 35
    [] named -> IF kind = "transformed" THEN 90 ELSE 98
    [] duplicate -> IF kind = "transformed" THEN 50 ELSE 55
    [] OTHER -> IF kind = "transformed" THEN 70 ELSE 76

(* scoreExactRoute, scoreTransformedRoute, scoreAmbiguousTarget, scoreSimilarRoute *)
Confidence(kind, named, ambiguous, duplicate) ==
  CASE kind = "similar" -> IF named THEN 45 ELSE 35
    [] ambiguous -> 55
    [] named -> IF kind = "transformed" THEN 90 ELSE 98
    [] duplicate -> IF kind = "transformed" THEN 50 ELSE 55
    [] OTHER -> IF kind = "transformed" THEN 70 ELSE 76

Edge(o, i, confidence) ==
  [from |-> o.service, to |-> i.service, protocol |-> o.fact.protocol,
   method |-> IF o.fact.method # "ANY" THEN o.fact.method ELSE i.fact.method,
   path |-> NormalPath(i.fact.path), confidence |-> confidence,
   status |-> IF confidence >= 85 THEN "automatic" ELSE "candidate", out |-> o, in |-> i]

EdgesOf(o) ==
  LET all == Candidates(o)
      named == {i \in all : Evidence(o, i)}
      kept == IF named = {} THEN all ELSE named
      Owners(set) == {<<i.fact.repo, i.service>> : i \in set}
  IN {Edge(o, i, Confidence(Kind(o.fact, i.fact), Evidence(o, i), Cardinality(Owners(named)) > 1,
                            Cardinality(Owners(kept)) > 1)) : i \in kept}

(* With fewer than two repositories that could be analyzed, whatever was found
   in them, nothing is matched. *)
Match ==
  /\ stage = "scanned" /\ stage' = "matched"
  /\ matches' = IF runnable >= 2 THEN UNION {EdgesOf(o) : o \in Outbound} ELSE {}
  /\ UNCHANGED <<code, runnable, overrides, edges, graph>>

-----------------------------------------------------------------------------
(* Merging what people decided: by route, and by the two services. *)
RouteKey(e) == <<e.from, e.to, e.protocol, e.method, NormalPath(e.path)>>
PairKey(e) == <<e.from, e.to>>
DecisionKey(d) == IF d.scope = "service" THEN PairKey(d) ELSE RouteKey(d)

(* mergeDecisions: of decisions with one key a rejection, then an addition. *)
Deciding(key) ==
  LET about == {d \in overrides : DecisionKey(d) = key}
      Rank(d) == CASE d.action = "reject" -> 3 [] d.action = "add" -> 2 [] OTHER -> 1
  IN {d \in about : \A e \in about : Rank(e) <= Rank(d)}

StatusFor(action) ==
  CASE action = "reject" -> "rejected" [] action = "add" -> "manual" [] action = "confirm" -> "confirmed"

KeyOf(e) == IF Deciding(RouteKey(e)) # {} THEN RouteKey(e) ELSE PairKey(e)

(* Mutant of Decided: a decision about the services hides one about the route. *)
PairFirst(e) ==
  LET ds == IF Deciding(PairKey(e)) # {} THEN Deciding(PairKey(e)) ELSE Deciding(RouteKey(e))
  IN IF ds = {} THEN e ELSE [e EXCEPT !.status = StatusFor((CHOOSE d \in ds : TRUE).action)]

Decided(e) ==
  LET ds == Deciding(KeyOf(e)) IN
  IF ds = {} THEN e ELSE [e EXCEPT !.status = StatusFor((CHOOSE d \in ds : TRUE).action)]

(* candidateFromOverride: a decision that no edge met. *)
FromDecision(d) ==
  [from |-> d.from, to |-> d.to, protocol |-> IF d.scope = "service" THEN None ELSE d.protocol,
   method |-> d.method, path |-> NormalPath(d.path), confidence |-> IF d.action = "add" THEN 100 ELSE 0,
   status |-> IF d.action = "add" THEN "manual" ELSE "stale", out |-> None, in |-> None]

Unmet == {d \in overrides : /\ d \in Deciding(DecisionKey(d)) /\ d.action # "reject"
                            /\ \A e \in matches : KeyOf(e) # DecisionKey(d)}

Merge ==
  /\ stage = "matched" /\ stage' = "merged"
  /\ edges' = IF runnable >= 2 THEN {Decided(e) : e \in matches} \cup {FromDecision(d) : d \in Unmet} ELSE {}
  /\ UNCHANGED <<code, runnable, overrides, matches, graph>>

-----------------------------------------------------------------------------
(* ProjectServiceGraph *)
(* Mutant of Formal: a confirmation without evidence counts. *)
StaleToo == {e \in edges : e.status \in {"automatic", "confirmed", "manual", "stale"}}

Formal == {e \in edges : e.status \in {"automatic", "confirmed", "manual"}}

Priority(status) == CASE status = "manual" -> 3 [] status = "confirmed" -> 2 [] OTHER -> 1

Projected(pair) ==
  LET of == {e \in Formal : PairKey(e) = pair} IN
  [status |-> (CHOOSE e \in of : \A f \in of : Priority(f.status) <= Priority(e.status)).status,
   confidence |-> (CHOOSE e \in of : \A f \in of : f.confidence <= e.confidence).confidence,
   routes |-> {RouteKey(e) : e \in {e \in of : e.protocol # None}}]

Load ==
  /\ stage = "merged" /\ stage' = "loaded"
  /\ graph' = [pair \in {PairKey(e) : e \in Formal} |-> Projected(pair)]
  /\ UNCHANGED <<code, runnable, overrides, matches, edges>>

Downstream(s) == {p[2] : p \in {p \in DOMAIN graph : p[1] = s}}

(* Mutant of PathsFrom: only what calls itself is left out. *)
RECURSIVE PathsCircling(_, _, _)
PathsCircling(s, seen, depth) ==
  IF depth = 0 THEN {}
  ELSE UNION {{<<t>>} \cup {<<t>> \o p : p \in PathsCircling(t, {t}, depth - 1)} : t \in Downstream(s) \ {s}}

(* FindPaths: depth first, a service at most once on a path. *)
RECURSIVE PathsFrom(_, _, _)
PathsFrom(s, seen, depth) ==
  IF depth = 0 THEN {}
  ELSE UNION {{<<t>>} \cup {<<t>> \o p : p \in PathsFrom(t, seen \cup {t}, depth - 1)} : t \in Downstream(s) \ seen}

-----------------------------------------------------------------------------
UpTo(S, n) == {T \in SUBSET S : Cardinality(T) <= n}

Init ==
  /\ stage = "scanned"
  /\ code \in UpTo(Facts, MaxFacts)
  /\ runnable \in Cardinality({f.repo : f \in code}) .. Cardinality(Repos)
  /\ overrides \in {ds \in UpTo(Decisions, MaxDecisions) : Valid(ds)}
  /\ matches = {} /\ edges = {} /\ graph = [p \in {} |-> None]

Next == Match \/ Merge \/ Load
Spec == Init /\ [][Next]_vars
-----------------------------------------------------------------------------
(* The requests that a path with parameters stands for. *)
RequestPaths == UNION {[1..n -> Segments] : n \in 1..MaxLength}
Widths(path) == {w \in [DOMAIN path -> 1..MaxLength] : \A k \in DOMAIN path : path[k] # Wild => w[k] = 1}
Before(w, k) == Cardinality({<<j, m>> \in (DOMAIN w) \X (1..MaxLength) : j < k /\ m <= w[j]})
Takes(path, request) ==
  \E w \in Widths(path) :
    /\ Before(w, Len(path) + 1) = Len(request)
    /\ \A k \in DOMAIN path : Concrete(path[k]) => request[Before(w, k) + 1] = path[k]

Normal(e) == NormalPath(e.fact.path)

(* AutomaticIsProven: an edge that needs nobody's confirmation goes to the one
   service that the call names, and, unless a rewrite says so, that service
   takes every request that the call can be. *)
AutomaticIsProven ==
  \A e \in matches : e.status = "automatic" =>
    /\ Evidence(e.out, e.in)
    /\ \A i \in Candidates(e.out) : Evidence(e.out, i) => SameOwner(i, e.in)
    /\ Kind(e.out.fact, e.in.fact) \in {"exact", "template"} /\ e.protocol = "http" =>
         \A r \in RequestPaths : Takes(Normal(e.out), r) => Takes(Normal(e.in), r)

(* RouteIsFound: a call of a literal path is matched with each service of
   another repository that takes it, unless the call names another one. *)
RouteIsFound ==
  stage # "scanned" /\ runnable >= 2 =>
    \A o \in Outbound, i \in Inbound :
      /\ o.fact.repo # i.fact.repo /\ o.service # i.service
      /\ o.fact.protocol = "http" /\ i.fact.protocol = "http" /\ CompatibleMethods(o.fact.method, i.fact.method)
      /\ Normal(o) \in RequestPaths /\ Takes(Normal(i), Normal(o))
      => \/ \E e \in matches : e.out = o /\ SameOwner(e.in, i)
         \/ \E e \in matches : e.out = o /\ Evidence(o, e.in)

(* DecisionsHold: after an analysis each decision shows, whatever the code is:
   what is rejected leads nowhere, what is confirmed or added is an edge of the
   graph unless nothing confirms it - but for a decision about two services,
   which gives way to one about a route of theirs. *)
DecisionsHold ==
  stage = "loaded" /\ runnable >= 2 =>
    \A d \in overrides :
      LET same == {c \in overrides : DecisionKey(c) = DecisionKey(d)}
          met == {e \in matches : DecisionKey(d) \in {RouteKey(e), PairKey(e)}}
          special == \E c \in overrides : d.scope = "service" /\ c.scope # "service" /\ PairKey(c) = PairKey(d)
          there == PairKey(d) \in DOMAIN graph /\ (d.scope # "service" => RouteKey(d) \in graph[PairKey(d)].routes)
      IN CASE d.action = "reject" -> special \/ ~there
           [] \E c \in same : c.action = "reject" -> ~there \/ special
           [] d.action = "add" -> there
           [] OTHER -> met # {} /\ ~special => there

(* GraphIsFormal: a pair of services is in the graph because somebody decided so
   or because of an automatic edge that nobody rejected. *)
GraphIsFormal ==
  \A p \in DOMAIN graph :
    \/ \E e \in matches : PairKey(e) = p /\ e.status = "automatic" /\ StatusFor("reject") # Decided(e).status
    \/ \E d \in overrides : PairKey(d) = p /\ d.action = "add"
    \/ \E d \in overrides, e \in matches :
         PairKey(d) = p /\ d.action = "confirm" /\ DecisionKey(d) \in {RouteKey(e), PairKey(e)}

(* PathsAreAll: the paths from a service are the sequences of different services,
   each one downstream of the one before it, up to the depth. *)
PathsAreAll ==
  stage = "loaded" =>
    \A s \in AllServices :
      PathsFrom(s, {s}, MaxDepth) =
        {p \in UNION {[1..n -> AllServices] : n \in 1..MaxDepth} :
           /\ \A k \in DOMAIN p : p[k] # s /\ p[k] \in Downstream(IF k = 1 THEN s ELSE p[k - 1])
           /\ \A k, l \in DOMAIN p : p[k] = p[l] => k = l}
=============================================================================
