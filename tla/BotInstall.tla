------------------------------- MODULE BotInstall -------------------------------
(***************************************************************************)
(* Installing, updating and removing a bot of one system in an IDE with a  *)
(* JSON settings file (Apply, InstallNative, MergeMCPIntoIDESettings,      *)
(* UninstallNative): the intermediate package, the files of its agents,    *)
(* the MCP servers in the settings file that the IDE itself rewrites at    *)
(* any time, and the credentials file.  Studio may stop between any two    *)
(* steps; the next operation starts from what is there.                    *)
(***************************************************************************)
EXTENDS Naturals, FiniteSets

CONSTANTS
  Versions,     \* configurations the bot can be generated from
  Servers,      \* Servers[v]: the MCP servers derived from configuration v
  CodeGraph,    \* the one server that carries no credentials
  Aliases,      \* entries of the settings file that are not the system's
  None,
  MaxRetries,   \* mcpWriteMaxRetries
  MaxOps,       \* bounds the operations of the user
  MaxIde,       \* bounds the rewrites of the settings file by the IDE
  MaxCrashes

Owned == UNION {Servers[v] : v \in Versions}

BotInstallAssumption ==
  /\ Servers \in [Versions -> SUBSET Owned] /\ Owned \cap Aliases = {} /\ CodeGraph \notin Aliases
  /\ None \notin Versions /\ None \notin {"real", "bare"}
  /\ MaxRetries \in Nat /\ MaxOps \in Nat /\ MaxIde \in Nat /\ MaxCrashes \in Nat

Main == "troubleshooter"
Fixer == "fixer"
Validator == "validator"      \* retired: older versions installed it
Active == {Main, Fixer}
Agents == Active \cup {Validator}

NoDir == [from |-> {}, anchor |-> FALSE, lessons |-> FALSE, there |-> FALSE]
Idle == [kind |-> "idle"]

VARIABLES
  package,    \* the intermediate package: the version of each file, and of tshoot.json
  agentFile,  \* agents/<name>: its version, or None
  skills,     \* skills/<name>: the versions its files are from, tshoot.json, lessons learned there
  scripts,    \* scripts/<name>
  settings,   \* mcpServers of the settings file: "real" or "bare" credentials, or None
  creds,      \* the credentials file was written for this version, or None
  ide,        \* what the IDE read and is about to write back, or None
  op,         \* the operation at work
  installed,  \* history: the version of the last Apply that returned without an error, or None
  disturbed,  \* history: the IDE rewrote the settings since then
  touched,    \* history: the last operation left without finishing
  ops, writes, crashes

installVars == <<package, agentFile, skills, scripts, settings, creds, ide, op, installed, disturbed, touched, ops, writes, crashes>>
disk == <<package, agentFile, skills, scripts>>
bounds == <<ops, writes, crashes>>

-----------------------------------------------------------------------------
NoPackage == [files |-> {}, meta |-> None, own |-> FALSE]

(* An older version may have left a validator behind. *)
InstallInit ==
  /\ package = NoPackage
  /\ \E old \in BOOLEAN :
       /\ agentFile = [a \in Agents |-> IF old /\ a = Validator THEN "old" ELSE None]
       /\ skills = [a \in Agents |-> IF old /\ a = Validator THEN [NoDir EXCEPT !.there = TRUE] ELSE NoDir]
  /\ scripts = [a \in Agents |-> None]
  /\ settings = [k \in Owned \cup Aliases |-> IF k \in Aliases THEN "real" ELSE None]
  /\ creds = None /\ ide = None /\ op = Idle
  /\ installed = None /\ disturbed = FALSE /\ touched = FALSE
  /\ ops = 0 /\ writes = 0 /\ crashes = 0

(* Apply: the new configuration is loaded and rendered elsewhere first. *)
BeginApply ==
  /\ op = Idle /\ ops < MaxOps
  /\ \E v \in Versions, given \in BOOLEAN :
       op' = [kind |-> "apply", step |-> "package", v |-> v, given |-> given, todo |-> Active, agent |-> Main, tries |-> 0, read |-> None]
  /\ ops' = ops + 1 /\ touched' = TRUE
  /\ UNCHANGED <<disk, settings, creds, ide, installed, disturbed, writes, crashes>>

At(kind, step) == op.kind = kind /\ op.step = step
Go(step) == op' = [op EXCEPT !.step = step]
History == UNCHANGED <<installed, disturbed, touched, bounds>>

(* The rendered files are copied; a generated file that is not rendered any
   more goes, what Studio did not generate stays (looksLikeFactoryArtifact). *)
Overwritten(pkg, v) == [pkg EXCEPT !.files = {v}]

(* writeTSFMeta: the new anchor names the system, its agents and repositories. *)
Described(pkg, v) == [pkg EXCEPT !.meta = v]

WritePackage ==
  /\ At("apply", "package")
  /\ package' = Described(Overwritten(package, op.v), op.v)
  /\ Go("retire")
  /\ UNCHANGED <<agentFile, skills, scripts, settings, creds, ide>> /\ History

(* retireNativeValidators: what older versions installed goes to a backup. *)
RetireValidators ==
  /\ At("apply", "retire")
  /\ agentFile' = [agentFile EXCEPT ![Validator] = None]
  /\ skills' = [skills EXCEPT ![Validator] = NoDir]
  /\ scripts' = [scripts EXCEPT ![Validator] = None]
  /\ Go("agent")
  /\ UNCHANGED <<package, settings, creds, ide>> /\ History

(* installOneNativeAgent, step by step: the agent's file with a backup of the
   old one, the skills cleared and copied, the scripts, the anchor. *)
InstallAgentFile(a) ==
  /\ At("apply", "agent") /\ a \in op.todo
  /\ agentFile' = [agentFile EXCEPT ![a] = op.v]
  /\ op' = [op EXCEPT !.step = "clear", !.agent = a]
  /\ UNCHANGED <<package, skills, scripts, settings, creds, ide>> /\ History

(* Mutant of Cleared: the copy goes over what is there. *)
Overlaid(dir) == [dir EXCEPT !.there = TRUE]

(* os.RemoveAll of the directory, then MkdirAll. *)
Cleared(dir) == [NoDir EXCEPT !.there = TRUE]

ClearSkills ==
  /\ At("apply", "clear")
  /\ skills' = [skills EXCEPT ![op.agent] = Cleared(@)]
  /\ Go("copy")
  /\ UNCHANGED <<package, agentFile, scripts, settings, creds, ide>> /\ History

(* replaceSkillsDirForRole copies the files of the package. *)
CopySkills ==
  /\ At("apply", "copy")
  /\ skills' = [skills EXCEPT ![op.agent].from = @ \cup package.files]
  /\ Go("scripts")
  /\ UNCHANGED <<package, agentFile, scripts, settings, creds, ide>> /\ History

(* Mutant of Anchored: every agent gets the anchor. *)
AnchorEach(a) == TRUE

(* tshoot.json is for the primary agent only: a directory that has one is a
   bot to the scan. *)
Anchored(a) == a = Main

CopyScripts ==
  /\ At("apply", "scripts")
  /\ scripts' = [scripts EXCEPT ![op.agent] = op.v]
  /\ skills' = [skills EXCEPT ![op.agent].anchor = Anchored(op.agent)]
  /\ op' = [op EXCEPT !.todo = @ \ {op.agent}, !.step = IF op.todo = {op.agent} THEN "read" ELSE "agent"]
  /\ UNCHANGED <<package, agentFile, settings, creds, ide>> /\ History

-----------------------------------------------------------------------------
(* writeMCPServersWithVerify: read, merge, replace the file, read it back. *)
ReadSettings ==
  /\ At("apply", "read")
  /\ op' = [op EXCEPT !.step = "write", !.read = settings]
  /\ UNCHANGED <<disk, settings, creds, ide>> /\ History

Wanted == Servers[op.v]
Derived == IF op.given THEN "real" ELSE "bare"

(* Mutant of MergedOnlyNew: an update without credentials replaces too. *)
Replaced(read) ==
  [k \in DOMAIN read |-> IF k \in Aliases THEN read[k] ELSE IF k \in Wanted THEN Derived ELSE None]

(* Without credentials only what is missing is added; CodeGraph's entry, which
   has none, is added or removed as the configuration says. *)
MergedOnlyNew(read) ==
  [k \in DOMAIN read |->
     IF k = CodeGraph THEN IF k \in Wanted THEN Derived ELSE None
     ELSE IF k \in Wanted /\ read[k] = None THEN Derived
     ELSE read[k]]

(* Mutant of Merged: the cleaning forgets to ask for the system's prefix. *)
MergedAll(read) ==
  IF op.given THEN [k \in DOMAIN read |-> IF k \in Wanted THEN Derived ELSE None] ELSE MergedOnlyNew(read)

(* With credentials the system's entries are replaced and those no longer
   derived removed, by prefix. *)
Merged(read) ==
  IF op.given
  THEN [k \in DOMAIN read |-> IF k \in Aliases THEN read[k] ELSE IF k \in Wanted THEN Derived ELSE None]
  ELSE MergedOnlyNew(read)

WriteSettings ==
  /\ At("apply", "write")
  /\ settings' = Merged(op.read)
  /\ Go("verify")
  /\ UNCHANGED <<disk, creds, ide>> /\ History

(* Mutant of Complete: what was written is taken for granted. *)
Believed == TRUE

Complete == \A k \in Wanted : settings[k] # None

VerifySettings ==
  /\ At("apply", "verify")
  /\ IF Complete THEN Go("creds")
     ELSE IF op.tries < MaxRetries THEN op' = [op EXCEPT !.step = "read", !.tries = @ + 1, !.read = None]
     ELSE op' = Idle
  /\ disturbed' = FALSE
  /\ UNCHANGED <<disk, settings, creds, ide, bounds, touched, installed>>

(* WriteIDECredsFile, only with credentials; Apply returns. *)
EndApply ==
  /\ At("apply", "creds")
  /\ creds' = IF op.given THEN op.v ELSE creds
  /\ op' = Idle /\ installed' = op.v /\ touched' = FALSE
  /\ UNCHANGED <<disk, settings, ide, disturbed, bounds>>

-----------------------------------------------------------------------------
(* uninstallAgentNames: the agents the anchor and the identifier name, the
   retired one included. *)
ToUninstall == Agents

(* UninstallNative starts from the directory the scan found by its anchor. *)
BeginUninstall ==
  /\ op = Idle /\ ops < MaxOps /\ skills[Main].anchor
  /\ op' = [kind |-> "uninstall", step |-> "skills", read |-> None]
  /\ ops' = ops + 1 /\ touched' = TRUE /\ installed' = None
  /\ UNCHANGED <<disk, settings, creds, ide, disturbed, writes, crashes>>

(* Every agent's skills go to the trash, one after the other; an error ends
   the removal there. *)
RemoveSkills ==
  /\ At("uninstall", "skills")
  /\ \/ \E a \in {b \in ToUninstall : skills[b].there} :
          /\ skills' = [skills EXCEPT ![a] = NoDir]
          /\ UNCHANGED op
     \/ /\ \A a \in ToUninstall : ~skills[a].there
        /\ Go("files") /\ UNCHANGED skills
     \/ op' = Idle /\ UNCHANGED skills
  /\ UNCHANGED <<package, agentFile, scripts, settings, creds, ide>> /\ History

RemoveFiles ==
  /\ At("uninstall", "files")
  /\ package' = NoPackage
  /\ agentFile' = [a \in Agents |-> None] /\ scripts' = [a \in Agents |-> None]
  /\ Go("prune")
  /\ UNCHANGED <<skills, settings, creds, ide>> /\ History

(* pruneMCPKeysFromJSON: read, delete by prefix, write; nothing is verified. *)
PruneRead ==
  /\ At("uninstall", "prune")
  /\ op' = [op EXCEPT !.step = "pruned", !.read = settings]
  /\ UNCHANGED <<disk, settings, creds, ide>> /\ History

(* Mutant of Pruned: only what the last configuration derived is deleted. *)
PrunedLast(read) == [k \in DOMAIN read |-> IF \E v \in Versions : skills[Main].from = {v} /\ k \in Servers[v] THEN None ELSE read[k]]

Pruned(read) == [k \in DOMAIN read |-> IF k \in Owned THEN None ELSE read[k]]

EndUninstall ==
  /\ At("uninstall", "pruned")
  /\ settings' = Pruned(op.read)
  /\ op' = Idle /\ touched' = FALSE /\ disturbed' = FALSE
  /\ UNCHANGED <<disk, creds, ide, installed, bounds>>

-----------------------------------------------------------------------------
(* The IDE keeps state of its own in the same file and rewrites all of it. *)
IdeReads ==
  /\ ide = None /\ writes < MaxIde
  /\ ide' = settings
  /\ UNCHANGED <<disk, settings, creds, op>> /\ History

IdeWrites ==
  /\ ide # None
  /\ settings' = ide /\ ide' = None /\ disturbed' = TRUE
  /\ writes' = writes + 1
  /\ UNCHANGED <<disk, creds, op, installed, touched, ops, crashes>>

(* The agent writes down what it learned (known-errors.local.yaml), where it
   runs: in the installed skills. *)
Learn ==
  /\ skills[Main].from # {} /\ ~skills[Main].lessons /\ op = Idle
  /\ skills' = [skills EXCEPT ![Main].lessons = TRUE]
  /\ UNCHANGED <<package, agentFile, scripts, settings, creds, ide, op>> /\ History

(* Whatever else the user keeps in the package. *)
KeepInPackage ==
  /\ package.meta # None /\ ~package.own /\ op = Idle
  /\ package' = [package EXCEPT !.own = TRUE]
  /\ UNCHANGED <<agentFile, skills, scripts, settings, creds, ide, op>> /\ History

Crash ==
  /\ op # Idle /\ crashes < MaxCrashes
  /\ op' = Idle /\ crashes' = crashes + 1
  /\ UNCHANGED <<disk, settings, creds, ide, installed, disturbed, touched, ops, writes>>

InstallNext ==
  \/ BeginApply \/ WritePackage \/ RetireValidators
  \/ \E a \in Active : InstallAgentFile(a)
  \/ ClearSkills \/ CopySkills \/ CopyScripts
  \/ ReadSettings \/ WriteSettings \/ VerifySettings \/ EndApply
  \/ BeginUninstall \/ RemoveSkills \/ RemoveFiles \/ PruneRead \/ EndUninstall
  \/ IdeReads \/ IdeWrites \/ Learn \/ KeepInPackage \/ Crash

InstallSpec == InstallInit /\ [][InstallNext]_installVars

-----------------------------------------------------------------------------
Settled == op = Idle /\ ~touched

(* After an Apply that returned, whatever was left of earlier ones that did
   not, every agent consists of the files of that version alone, and nothing
   is left of the retired one. *)
InstalledIsWhole ==
  Settled /\ installed # None =>
    /\ package.files = {installed} /\ package.meta = installed
    /\ \A a \in Active : agentFile[a] = installed /\ scripts[a] = installed /\ skills[a].from = {installed}
    /\ agentFile[Validator] = None /\ ~skills[Validator].there

(* The scan sees one bot, also in the middle of an operation. *)
OneBot == \A a \in Agents : skills[a].anchor => a = Main

(* The servers of the last version are in the settings file, unless the IDE
   rewrote it after Studio had read it back. *)
ServersStay == Settled /\ installed # None /\ ~disturbed => \A k \in Servers[installed] : settings[k] # None

(* After a removal that returned, nothing of the system is left. *)
RemovedIsGone ==
  Settled /\ installed = None /\ ~disturbed /\ ops > 0 =>
    /\ package = NoPackage
    /\ \A a \in Agents : agentFile[a] = None /\ scripts[a] = None /\ ~skills[a].there
    /\ \A k \in Owned : settings[k] = None

(* Entries of others are lost to no operation. *)
ForeignStay == \A k \in Aliases : settings[k] = "real"

(* All of it: what an operation that returned has left is the whole bot, once,
   with its servers, or nothing of it; what is not the bot's stays as it was. *)
InstalledBotIsWhole == InstalledIsWhole /\ OneBot /\ ServersStay /\ RemovedIsGone /\ ForeignStay
=============================================================================
