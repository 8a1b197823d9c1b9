------------------------------ MODULE CodexSettings ------------------------------
(***************************************************************************)
(* What a deployment writes into the settings of Codex: the switch for the *)
(* network in its global file, a marked region of each agent's file, and a *)
(* runtime home for background runs.                                       *)
(***************************************************************************)
EXTENDS Naturals, Sequences, FiniteSets, SequencesExt

CONSTANTS
  Servers,
  Agents,      \* the troubleshooter first, then the fixer
  Tomls,       \* contents of ~/.codex/config.toml, as the kinds of its lines
  MaxOps, MaxEdits,
  Unmarked,    \* an agent's file without the marks
  None

VARIABLES
  region,      \* of each agent's file: None, Unmarked, or the servers between the marks
  runtime,     \* config.toml of each agent's runtime home
  legacy,      \* the profile file of an older version is there
  codex,       \* a deployment at work, or the last one's end
  toml,        \* ~/.codex/config.toml
  ops, edits

vars == <<region, runtime, legacy, codex, toml, ops, edits>>

Init ==
  /\ region \in [ToSet(Agents) -> {None, {}}] /\ runtime = [a \in ToSet(Agents) |-> None]
  /\ legacy = [a \in ToSet(Agents) |-> region[a] # None]
  /\ codex = [servers |-> {}, todo |-> "none", agent |-> 1, ok |-> FALSE]
  /\ toml \in Tomls
  /\ ops = 0 /\ edits = 0

-----------------------------------------------------------------------------
(* EnsureCodexNetworkAccess.  Kinds of lines: the head of the section, of another
   section, a comment or blank, the key with either value, another key. *)
InSection(t, i) == \E h \in 1..(i - 1) : t[h] = "sandbox" /\ \A j \in (h + 1)..(i - 1) : t[j] # "section"
SwitchedOn(t) == \E i \in DOMAIN t : t[i] = "on" /\ InSection(t, i)

(* Mutant of Patched: a section without the key gets a second section. *)
Appended(t) == t \o <<"blank", "sandbox", "on">>

Patched(t) ==
  LET heads == {i \in DOMAIN t : t[i] = "sandbox"}
      keys == {i \in DOMAIN t : t[i] \in {"on", "off"} /\ InSection(t, i)}
      first(s) == CHOOSE i \in s : \A j \in s : i <= j
  IN IF heads = {} THEN (IF t = <<>> THEN <<"sandbox", "on">> ELSE t \o <<"blank", "sandbox", "on">>)
     ELSE IF keys # {} THEN [t EXCEPT ![first(keys)] = "on"]
     ELSE SubSeq(t, 1, first(heads)) \o <<"on">> \o SubSeq(t, first(heads) + 1, Len(t))

EnsureNetwork(servers) ==
  /\ codex.todo = "none" /\ ops < MaxOps
  /\ toml' = IF SwitchedOn(toml) THEN toml ELSE Patched(toml)
  /\ codex' = [servers |-> servers, todo |-> "toml", agent |-> 1, ok |-> FALSE] /\ ops' = ops + 1
  /\ UNCHANGED <<region, runtime, legacy, edits>>

Agent == Agents[codex.agent]

(* injectMCPIntoCodexAgentTOML, agent by agent: the fixer may not be installed. *)
PatchAgent ==
  /\ codex.todo = "toml"
  /\ IF region[Agent] = None /\ codex.agent > 1 THEN codex' = [codex EXCEPT !.todo = "next"] /\ UNCHANGED region
     ELSE IF region[Agent] \in {None, Unmarked} THEN codex' = [codex EXCEPT !.todo = "none"] /\ UNCHANGED region
     ELSE /\ region' = [region EXCEPT ![Agent] = codex.servers]
          /\ codex' = [codex EXCEPT !.todo = "runtime"]
  /\ UNCHANGED <<runtime, legacy, toml, ops, edits>>

(* Mutant of WriteRuntime: only the troubleshooter's. *)
WriteFirstRuntime ==
  /\ codex.todo = "runtime"
  /\ runtime' = IF codex.agent = 1 THEN [runtime EXCEPT ![Agent] = codex.servers] ELSE runtime
  /\ codex' = [codex EXCEPT !.todo = "legacy"]
  /\ UNCHANGED <<region, legacy, toml, ops, edits>>
WriteRuntime ==
  /\ codex.todo = "runtime"
  /\ runtime' = [runtime EXCEPT ![Agent] = codex.servers]
  /\ codex' = [codex EXCEPT !.todo = "legacy"]
  /\ UNCHANGED <<region, legacy, toml, ops, edits>>

RemoveLegacy ==
  /\ codex.todo = "legacy"
  /\ legacy' = [legacy EXCEPT ![Agent] = FALSE]
  /\ codex' = [codex EXCEPT !.todo = "next"]
  /\ UNCHANGED <<region, runtime, toml, ops, edits>>

NextAgent ==
  /\ codex.todo = "next"
  /\ codex' = IF codex.agent < Len(Agents) THEN [codex EXCEPT !.todo = "toml", !.agent = @ + 1]
              ELSE [codex EXCEPT !.todo = "none", !.ok = TRUE]
  /\ UNCHANGED <<region, runtime, legacy, toml, ops, edits>>

CodexCrash ==
  /\ codex.todo # "none"
  /\ codex' = [codex EXCEPT !.todo = "none"]
  /\ UNCHANGED <<region, runtime, legacy, toml, ops, edits>>

(* GenerateCodex writes the agents' files anew; the user may lose the marks. *)
Unmark(a) ==
  /\ edits < MaxEdits /\ region[a] \notin {None, Unmarked} /\ codex.todo = "none"
  /\ region' = [region EXCEPT ![a] = Unmarked] /\ codex' = [codex EXCEPT !.ok = FALSE] /\ edits' = edits + 1
  /\ UNCHANGED <<runtime, legacy, toml, ops>>

Next ==
  \/ \E servers \in SUBSET Servers : EnsureNetwork(servers)
  \/ PatchAgent \/ WriteRuntime \/ RemoveLegacy \/ NextAgent \/ CodexCrash
  \/ \E a \in ToSet(Agents) : Unmark(a)

Spec == Init /\ [][Next]_vars
-----------------------------------------------------------------------------
(* BothHomesAgree: a deployment to Codex that succeeds leaves every installed agent
   with the same servers in the foreground and in the background. *)
BothHomesAgree ==
  codex.ok /\ codex.todo = "none" =>
    \A a \in ToSet(Agents) : region[a] # None => region[a] = codex.servers /\ runtime[a] = codex.servers /\ ~legacy[a]

(* NetworkOnce: the network is switched on in one section by one key, and the
   other lines stay. *)
NetworkOnce ==
  codex.todo # "none" =>
    /\ SwitchedOn(toml)
    /\ Cardinality({i \in DOMAIN toml : toml[i] = "sandbox"}) = 1
    /\ Cardinality({i \in DOMAIN toml : toml[i] \in {"on", "off"} /\ InSection(toml, i)}) = 1
=============================================================================
