--------------------------- MODULE BotInstallProofs ---------------------------
(***************************************************************************)
(* Proofs about three components of the making of a bot, for every value   *)
(* of their constants: the installation (BotInstall), the config-map       *)
(* through generations (BotGeneration) and the shared scans                *)
(* (AnalysisCache).  The last two have a section of their own.             *)
(*                                                                         *)
(* BotInstall: an operation may stop anywhere and leave anything; the next *)
(* one does not trust what it finds.  ApplyFits and RemovalFits say what   *)
(* each step of an operation has made of the disk by itself, so that at    *)
(* its return nothing depends on what was there before.                    *)
(***************************************************************************)
EXTENDS BotInstall, BotGeneration, AnalysisCache, FiniteSetTheorems, TLAPS

Entries == [Owned \cup Aliases -> {"real", "bare", None}]
ApplySteps == {"package", "retire", "agent", "clear", "copy", "scripts", "read", "write", "verify", "creds"}

Applies ==
  [kind : {"apply"}, step : ApplySteps, v : Versions, given : BOOLEAN, todo : SUBSET Active,
   agent : Active, tries : Nat, read : Entries \cup {None}]
Removals ==
  [kind : {"uninstall"}, step : {"skills", "files", "prune", "pruned"}, read : Entries \cup {None}]

Dirs == [from : SUBSET Versions, anchor : BOOLEAN, lessons : BOOLEAN, there : BOOLEAN]

Types ==
  /\ package \in [files : SUBSET Versions, meta : Versions \cup {None}, own : BOOLEAN]
  /\ agentFile \in [Agents -> Versions \cup {None, "old"}] /\ scripts \in [Agents -> Versions \cup {None}]
  /\ skills \in [Agents -> Dirs]
  /\ settings \in Entries /\ ide \in Entries \cup {None}
  /\ op \in {Idle} \cup Applies \cup Removals
  /\ installed \in Versions \cup {None} /\ disturbed \in BOOLEAN /\ touched \in BOOLEAN
  /\ ops \in Nat

(* Entries of others are as they were, wherever the settings are held. *)
OthersIn(s) == \A k \in Aliases : s[k] = "real"

SettingsFit ==
  /\ OthersIn(settings) /\ (ide # None => OthersIn(ide))
  /\ op \in Applies /\ op.step = "write" => op.read \in Entries /\ OthersIn(op.read)
  /\ op \in Removals /\ op.step = "pruned" => op.read \in Entries /\ OthersIn(op.read)

Packaged(v) == package.files = {v} /\ package.meta = v
Retired == agentFile[Validator] = None /\ ~skills[Validator].there
Whole(a, v) == agentFile[a] = v /\ scripts[a] = v /\ skills[a].from = {v}
Served(v) == \A k \in Servers[v] : settings[k] # None

ApplyFits ==
  op \in Applies =>
    /\ op.step # "package" => Packaged(op.v)
    /\ op.step \notin {"package", "retire"} => Retired
    /\ \A a \in Active \ op.todo : Whole(a, op.v)
    /\ op.step \in {"clear", "copy", "scripts"} => op.agent \in op.todo /\ agentFile[op.agent] = op.v
    /\ op.step = "copy" => skills[op.agent].from = {}
    /\ op.step = "scripts" => skills[op.agent].from = {op.v}
    /\ op.step \in {"read", "write", "verify", "creds"} => op.todo = {}
    /\ op.step = "creds" /\ ~disturbed => Served(op.v)

Emptied == \A a \in Agents : ~skills[a].there
Gone == package = NoPackage /\ \A a \in Agents : agentFile[a] = None /\ scripts[a] = None

RemovalFits ==
  op \in Removals =>
    /\ op.step # "skills" => Emptied
    /\ op.step \in {"prune", "pruned"} => Gone
    /\ installed = None

SettledFits ==
  /\ op # Idle => touched
  /\ ops = 0 => ~touched /\ installed = None
  /\ ~touched /\ installed # None =>
       /\ Packaged(installed) /\ Retired /\ \A a \in Active : Whole(a, installed)
       /\ ~disturbed => Served(installed)
  /\ ~touched /\ installed = None /\ ops > 0 =>
       /\ Emptied /\ Gone
       /\ ~disturbed => \A k \in Owned : settings[k] = None

BotInv == Types /\ SettingsFit /\ OneBot /\ ApplyFits /\ RemovalFits /\ SettledFits

-----------------------------------------------------------------------------
(* The kinds of operations are apart. *)
LEMMA KindsApart ==
  ASSUME Types
  PROVE  /\ op.kind = "apply" => op \in Applies
         /\ op.kind = "uninstall" => op \in Removals
         /\ op \in Applies => op.kind = "apply" /\ op # Idle /\ op \notin Removals
         /\ op \in Removals => op.kind = "uninstall" /\ op # Idle /\ op \notin Applies
         /\ Idle \notin Applies /\ Idle \notin Removals
BY DEF Types, Applies, Removals, Idle

LEMMA Agents2 ==
  /\ Main \in Active /\ Fixer \in Active /\ Active \subseteq Agents /\ Validator \in Agents /\ Validator \notin Active
  /\ Validator # Main /\ Fixer # Main
BY DEF Active, Agents, Main, Fixer, Validator

LEMMA Distinct ==
  ASSUME BotInstallAssumption
  PROVE  /\ None \notin Versions /\ None # "real" /\ None # "bare"
         /\ \A k \in Owned : k \notin Aliases
         /\ \A v \in Versions : Servers[v] \subseteq Owned
         /\ CodeGraph \notin Aliases
BY DEF BotInstallAssumption

(* A step of an installation, or of a removal, to the next one. *)
LEMMA ApplyGoes ==
  ASSUME op \in Applies, NEW s \in ApplySteps, Go(s)
  PROVE  /\ op' \in Applies /\ op'.step = s /\ op'.v = op.v /\ op'.given = op.given
         /\ op'.todo = op.todo /\ op'.agent = op.agent /\ op'.read = op.read
BY DEF Applies, Go

LEMMA RemovalGoes ==
  ASSUME op \in Removals, NEW s \in {"skills", "files", "prune", "pruned"}, Go(s)
  PROVE  op' \in Removals /\ op'.step = s /\ op'.read = op.read
BY DEF Removals, Go

(* In the middle of an operation only its own facts are at stake. *)
LEMMA MidApply ==
  ASSUME BotInstallAssumption, BotInv, op \in Applies, op' \in Applies, Types', UNCHANGED <<touched, ops, ide>>,
         OthersIn(settings'), op'.step = "write" => op'.read \in Entries /\ OthersIn(op'.read),
         OneBot', ApplyFits'
  PROVE  BotInv'
<1>1. op # Idle /\ op' # Idle /\ op' \notin Removals
  BY DEF Applies, Removals, Idle
<1>2. touched /\ ops # 0
  BY <1>1 DEF BotInv, SettledFits
<1>3. SettledFits'
  BY <1>2 DEF SettledFits
<1>4. SettingsFit'
  BY <1>1 DEF BotInv, SettingsFit
<1>5. QED
  BY <1>1, <1>3, <1>4 DEF BotInv, RemovalFits

LEMMA MidRemoval ==
  ASSUME BotInstallAssumption, BotInv, op \in Removals, op' \in Removals, Types', UNCHANGED <<touched, ops, ide, settings>>,
         op'.step = "pruned" => op'.read \in Entries /\ OthersIn(op'.read),
         OneBot', RemovalFits'
  PROVE  BotInv'
<1>1. op # Idle /\ op' # Idle /\ op' \notin Applies
  BY DEF Applies, Removals, Idle
<1>2. touched /\ ops # 0
  BY <1>1 DEF BotInv, SettledFits
<1>3. SettledFits'
  BY <1>2 DEF SettledFits
<1>4. SettingsFit'
  BY <1>1 DEF BotInv, SettingsFit
<1>5. QED
  BY <1>1, <1>3, <1>4 DEF BotInv, ApplyFits

(* An operation that leaves without finishing, or is killed. *)
LEMMA Leaves ==
  ASSUME BotInstallAssumption, BotInv, op # Idle, op' = Idle, Types',
         UNCHANGED <<package, agentFile, skills, scripts, settings, ide, touched, ops>>
  PROVE  BotInv'
<1>1. op' \notin Applies /\ op' \notin Removals
  BY DEF Applies, Removals, Idle
<1>2. touched /\ ops # 0
  BY DEF BotInv, SettledFits
<1>3. SettledFits' /\ SettingsFit' /\ OneBot'
  BY <1>1, <1>2 DEF SettledFits, BotInv, SettingsFit, OthersIn, OneBot
<1>4. QED
  BY <1>1, <1>3 DEF BotInv, ApplyFits, RemovalFits

LEMMA BeginApplyStep ==
  ASSUME BotInstallAssumption, BotInv, BeginApply
  PROVE  BotInv'
<1>1. Types /\ SettingsFit /\ OneBot
  BY DEF BotInv
<1>2. PICK v \in Versions, given \in BOOLEAN :
        op' = [kind |-> "apply", step |-> "package", v |-> v, given |-> given, todo |-> Active, agent |-> Main,
               tries |-> 0, read |-> None]
  BY DEF BeginApply
<1>3. op' \in Applies /\ op'.step = "package" /\ op'.todo = Active
  BY <1>2, Agents2 DEF Applies, ApplySteps
<1>4. /\ ops' = ops + 1 /\ touched' = TRUE
      /\ UNCHANGED <<package, agentFile, skills, scripts, settings, ide, installed, disturbed>>
  BY DEF BeginApply, disk
<1>5. Types'
  BY <1>1, <1>3, <1>4 DEF Types
<1>6. op' # Idle /\ op' \notin Removals /\ ops' # 0
  BY <1>1, <1>3, <1>4 DEF Applies, Removals, Idle, Types
<1>7. SettledFits'
  BY <1>4, <1>6 DEF SettledFits
<1>8. ApplyFits' /\ RemovalFits'
  BY <1>3, <1>6 DEF ApplyFits, RemovalFits
<1>9. SettingsFit' /\ OneBot'
  BY <1>1, <1>3, <1>4, <1>6 DEF SettingsFit, OthersIn, OneBot
<1>10. QED
  BY <1>5, <1>7, <1>8, <1>9 DEF BotInv

LEMMA WritePackageStep ==
  ASSUME BotInstallAssumption, BotInv, WritePackage
  PROVE  BotInv'
<1>1. Types /\ SettingsFit /\ OneBot /\ ApplyFits /\ op \in Applies /\ op.v \in Versions /\ op.step = "package"
  BY KindsApart DEF BotInv, WritePackage, At, Applies
<1>2. /\ package' = Described(Overwritten(package, op.v), op.v) /\ Go("retire")
      /\ UNCHANGED <<agentFile, skills, scripts, settings, ide, installed, disturbed, touched, ops>>
  BY DEF WritePackage, History, bounds
<1>3. op' \in Applies /\ op'.step = "retire" /\ op'.v = op.v /\ op'.todo = op.todo
  BY <1>1, <1>2, ApplyGoes DEF ApplySteps
<1>4. package' \in [files : SUBSET Versions, meta : Versions \cup {None}, own : BOOLEAN] /\ Packaged(op.v)'
  BY <1>1, <1>2, <1>3 DEF Types, Described, Overwritten, Packaged
<1>5. Types'
  BY <1>1, <1>2, <1>3, <1>4 DEF Types
<1>6. ApplyFits'
  BY <1>1, <1>2, <1>3, <1>4 DEF ApplyFits, Whole
<1>7. OneBot' /\ OthersIn(settings')
  BY <1>1, <1>2 DEF OneBot, SettingsFit
<1>8. QED
  BY <1>1, <1>2, <1>3, <1>5, <1>6, <1>7, MidApply

LEMMA RetireStep ==
  ASSUME BotInstallAssumption, BotInv, RetireValidators
  PROVE  BotInv'
<1>1. Types /\ SettingsFit /\ OneBot /\ ApplyFits /\ op \in Applies /\ op.v \in Versions /\ op.step = "retire"
  BY KindsApart DEF BotInv, RetireValidators, At, Applies
<1>2. /\ agentFile' = [agentFile EXCEPT ![Validator] = None]
      /\ skills' = [skills EXCEPT ![Validator] = NoDir]
      /\ scripts' = [scripts EXCEPT ![Validator] = None] /\ Go("agent")
      /\ UNCHANGED <<package, settings, ide, installed, disturbed, touched, ops>>
  BY DEF RetireValidators, History, bounds
<1>3. op' \in Applies /\ op'.step = "agent" /\ op'.v = op.v /\ op'.todo = op.todo
  BY <1>1, <1>2, ApplyGoes DEF ApplySteps
<1>4. NoDir \in Dirs /\ NoDir.there = FALSE /\ NoDir.anchor = FALSE
  BY DEF NoDir, Dirs
<1>5. Types'
  BY <1>1, <1>2, <1>3, <1>4 DEF Types
<1>6. Retired' /\ \A a \in Active : agentFile'[a] = agentFile[a] /\ skills'[a] = skills[a] /\ scripts'[a] = scripts[a]
  BY <1>1, <1>2, <1>4, Agents2 DEF Types, Retired
<1>7. ApplyFits'
  BY <1>1, <1>2, <1>3, <1>6 DEF ApplyFits, Whole, Packaged
<1>8. OneBot' /\ OthersIn(settings')
  BY <1>1, <1>2, <1>4 DEF OneBot, SettingsFit, Types
<1>9. QED
  BY <1>1, <1>2, <1>3, <1>5, <1>7, <1>8, MidApply

LEMMA AgentFileStep ==
  ASSUME BotInstallAssumption, BotInv, NEW a \in Active, InstallAgentFile(a)
  PROVE  BotInv'
<1>1. Types /\ SettingsFit /\ OneBot /\ ApplyFits /\ op \in Applies /\ op.v \in Versions /\ op.step = "agent"
  BY KindsApart DEF BotInv, InstallAgentFile, At, Applies
<1>2. /\ a \in op.todo /\ agentFile' = [agentFile EXCEPT ![a] = op.v]
      /\ op' = [op EXCEPT !.step = "clear", !.agent = a]
      /\ UNCHANGED <<package, skills, scripts, settings, ide, installed, disturbed, touched, ops>>
  BY DEF InstallAgentFile, History, bounds
<1>3. op' \in Applies /\ op'.step = "clear" /\ op'.v = op.v /\ op'.todo = op.todo /\ op'.agent = a
  BY <1>1, <1>2 DEF Applies, ApplySteps
<1>4. Types'
  BY <1>1, <1>2, <1>3 DEF Types
<1>5. agentFile'[a] = op.v /\ \A b \in Agents : b # a => agentFile'[b] = agentFile[b]
  BY <1>1, <1>2, Agents2 DEF Types
<1>6. ApplyFits'
  BY <1>1, <1>2, <1>3, <1>5, Agents2 DEF ApplyFits, Whole, Packaged, Retired
<1>7. OneBot' /\ OthersIn(settings')
  BY <1>1, <1>2 DEF OneBot, SettingsFit
<1>8. QED
  BY <1>1, <1>2, <1>3, <1>4, <1>6, <1>7, MidApply

(* The skills of the agent at hand: cleared, then copied, then anchored. *)
LEMMA SkillsStep ==
  ASSUME BotInstallAssumption, BotInv, ClearSkills \/ CopySkills
  PROVE  BotInv'
<1>1. /\ Types /\ SettingsFit /\ OneBot /\ ApplyFits /\ op \in Applies /\ op.v \in Versions
      /\ op.step \in {"clear", "copy"} /\ op.agent \in op.todo /\ op.agent \in Active
      /\ skills[op.agent] \in Dirs
  BY KindsApart, Agents2 DEF BotInv, ClearSkills, CopySkills, At, Applies, ApplyFits, Types
<1>2. UNCHANGED <<package, agentFile, scripts, settings, ide, installed, disturbed, touched, ops>>
  BY DEF ClearSkills, CopySkills, History, bounds
<1>3. PICK s \in {"copy", "scripts"}, d \in Dirs :
        /\ Go(s) /\ skills' = [skills EXCEPT ![op.agent] = d]
        /\ d.anchor => skills[op.agent].anchor
        /\ s = "copy" => d.from = {}
        /\ s = "scripts" => d.from = {op.v}
  <2>1. CASE ClearSkills
    <3>1. [NoDir EXCEPT !.there = TRUE] \in Dirs /\ [NoDir EXCEPT !.there = TRUE].from = {}
          /\ [NoDir EXCEPT !.there = TRUE].anchor = FALSE
      BY DEF NoDir, Dirs
    <3>2. QED
      BY <2>1, <3>1 DEF ClearSkills, Cleared
  <2>2. CASE CopySkills
    <3>1. package.files = {op.v} /\ skills[op.agent].from = {}
      BY <1>1, <2>2 DEF CopySkills, At, ApplyFits, Packaged
    <3>2. PICK d : d = [skills[op.agent] EXCEPT !.from = @ \cup package.files]
      OBVIOUS
    <3>3. d \in Dirs /\ d.anchor = skills[op.agent].anchor /\ d.from = {op.v}
      BY <1>1, <3>1, <3>2 DEF Dirs
    <3>4. skills' = [skills EXCEPT ![op.agent] = d] /\ Go("scripts")
      BY <2>2, <3>2 DEF CopySkills
    <3>5. QED
      BY <3>3, <3>4
  <2>3. QED
    BY <2>1, <2>2
<1>4. op' \in Applies /\ op'.step = s /\ op'.v = op.v /\ op'.todo = op.todo /\ op'.agent = op.agent
  BY <1>1, <1>3, ApplyGoes DEF ApplySteps
<1>5. Types'
  BY <1>1, <1>2, <1>3, <1>4 DEF Types
<1>6. skills'[op.agent] = d /\ \A b \in Agents : b # op.agent => skills'[b] = skills[b]
  BY <1>1, <1>3, Agents2 DEF Types
<1>7. ApplyFits'
  BY <1>1, <1>2, <1>3, <1>4, <1>6, Agents2 DEF ApplyFits, Whole, Packaged, Retired
<1>8. OneBot' /\ OthersIn(settings')
  BY <1>1, <1>2, <1>3, <1>6 DEF OneBot, SettingsFit
<1>9. QED
  BY <1>1, <1>2, <1>3, <1>4, <1>5, <1>7, <1>8, MidApply

LEMMA ScriptsStep ==
  ASSUME BotInstallAssumption, BotInv, CopyScripts
  PROVE  BotInv'
<1>1. /\ Types /\ SettingsFit /\ OneBot /\ ApplyFits /\ op \in Applies /\ op.v \in Versions
      /\ op.step = "scripts" /\ op.agent \in op.todo /\ op.agent \in Active /\ op.todo \subseteq Active
      /\ skills[op.agent] \in Dirs
  BY KindsApart, Agents2 DEF BotInv, CopyScripts, At, Applies, ApplyFits, Types
<1>2. UNCHANGED <<package, agentFile, settings, ide, installed, disturbed, touched, ops>>
  BY DEF CopyScripts, History, bounds
<1>3. scripts' = [scripts EXCEPT ![op.agent] = op.v]
  BY DEF CopyScripts
<1>4. PICK t \in BOOLEAN : t = Anchored(op.agent)
  BY DEF Anchored
<1>5. PICK d : d = [skills[op.agent] EXCEPT !.anchor = t]
  OBVIOUS
<1>6. d \in Dirs /\ d.from = {op.v} /\ d.there = skills[op.agent].there /\ (d.anchor => op.agent = Main)
  BY <1>1, <1>4, <1>5 DEF Dirs, Anchored, ApplyFits
<1>7. skills' = [skills EXCEPT ![op.agent] = d]
  BY <1>4, <1>5 DEF CopyScripts
<1>8. PICK s \in {"read", "agent"} : s = IF op.todo = {op.agent} THEN "read" ELSE "agent"
  OBVIOUS
<1>9. op' = [op EXCEPT !.todo = @ \ {op.agent}, !.step = s]
  BY <1>8 DEF CopyScripts
<1>10. op' \in Applies /\ op'.step = s /\ op'.v = op.v /\ op'.todo = op.todo \ {op.agent}
  BY <1>1, <1>9 DEF Applies, ApplySteps
<1>11. Types'
  BY <1>1, <1>2, <1>3, <1>6, <1>7, <1>10 DEF Types
<1>12. /\ skills'[op.agent] = d /\ \A b \in Agents : b # op.agent => skills'[b] = skills[b]
       /\ scripts'[op.agent] = op.v /\ \A b \in Agents : b # op.agent => scripts'[b] = scripts[b]
  BY <1>1, <1>3, <1>7, Agents2 DEF Types
<1>13. \A b \in Active \ op'.todo : Whole(b, op.v)'
  BY <1>1, <1>2, <1>6, <1>10, <1>12, Agents2 DEF ApplyFits, Whole
<1>14. ApplyFits'
  BY <1>1, <1>2, <1>8, <1>10, <1>12, <1>13, Agents2 DEF ApplyFits, Packaged, Retired, Whole
<1>15. OneBot' /\ OthersIn(settings')
  BY <1>1, <1>2, <1>6, <1>12 DEF OneBot, SettingsFit
<1>16. QED
  BY <1>1, <1>2, <1>8, <1>10, <1>11, <1>14, <1>15, MidApply

(* What the merges make of the settings that were read. *)
LEMMA MergedFits ==
  ASSUME BotInstallAssumption, op \in Applies, NEW s \in Entries, OthersIn(s)
  PROVE  Merged(s) \in Entries /\ OthersIn(Merged(s))
<1>1. /\ DOMAIN s = Owned \cup Aliases /\ op.v \in Versions
      /\ \A k \in Aliases : k \notin Wanted /\ k # CodeGraph
  BY Distinct DEF Entries, Applies, Wanted
<1>2. MergedOnlyNew(s) \in Entries /\ OthersIn(MergedOnlyNew(s))
  BY <1>1 DEF MergedOnlyNew, Entries, OthersIn, Derived
<1>3. QED
  BY <1>1, <1>2 DEF Merged, Entries, OthersIn, Derived

LEMMA ReadStep ==
  ASSUME BotInstallAssumption, BotInv, ReadSettings
  PROVE  BotInv'
<1>1. Types /\ SettingsFit /\ OneBot /\ ApplyFits /\ op \in Applies /\ op.step = "read" /\ settings \in Entries
  BY KindsApart DEF BotInv, ReadSettings, At, Types
<1>2. /\ op' = [op EXCEPT !.step = "write", !.read = settings]
      /\ UNCHANGED <<package, agentFile, skills, scripts, settings, ide, installed, disturbed, touched, ops>>
  BY DEF ReadSettings, disk, History, bounds
<1>3. op' \in Applies /\ op'.step = "write" /\ op'.v = op.v /\ op'.todo = op.todo /\ op'.read = settings
  BY <1>1, <1>2 DEF Applies, ApplySteps
<1>4. Types'
  BY <1>1, <1>2, <1>3 DEF Types
<1>5. ApplyFits'
  BY <1>1, <1>2, <1>3 DEF ApplyFits, Whole, Packaged, Retired
<1>6. OneBot' /\ OthersIn(settings') /\ op'.read \in Entries /\ OthersIn(op'.read)
  BY <1>1, <1>2, <1>3 DEF OneBot, SettingsFit
<1>7. QED
  BY <1>1, <1>2, <1>3, <1>4, <1>5, <1>6, MidApply

LEMMA WriteStep ==
  ASSUME BotInstallAssumption, BotInv, WriteSettings
  PROVE  BotInv'
<1>1. /\ Types /\ SettingsFit /\ OneBot /\ ApplyFits /\ op \in Applies /\ op.step = "write"
      /\ op.read \in Entries /\ OthersIn(op.read)
  BY KindsApart DEF BotInv, WriteSettings, At, SettingsFit
<1>2. /\ settings' = Merged(op.read) /\ Go("verify")
      /\ UNCHANGED <<package, agentFile, skills, scripts, ide, installed, disturbed, touched, ops>>
  BY DEF WriteSettings, disk, History, bounds
<1>3. settings' \in Entries /\ OthersIn(settings')
  BY <1>1, <1>2, MergedFits
<1>4. op' \in Applies /\ op'.step = "verify" /\ op'.v = op.v /\ op'.todo = op.todo
  BY <1>1, <1>2, ApplyGoes DEF ApplySteps
<1>5. Types'
  BY <1>1, <1>2, <1>3, <1>4 DEF Types
<1>6. ApplyFits' /\ OneBot'
  BY <1>1, <1>2, <1>4 DEF ApplyFits, Whole, Packaged, Retired, OneBot
<1>7. QED
  BY <1>1, <1>2, <1>3, <1>4, <1>5, <1>6, MidApply

LEMMA VerifyStep ==
  ASSUME BotInstallAssumption, BotInv, VerifySettings
  PROVE  BotInv'
<1>1. Types /\ SettingsFit /\ OneBot /\ ApplyFits /\ op \in Applies /\ op.step = "verify" /\ op # Idle
  BY KindsApart DEF BotInv, VerifySettings, At
<1>2. /\ disturbed' = FALSE
      /\ UNCHANGED <<package, agentFile, skills, scripts, settings, ide, installed, touched, ops>>
  BY DEF VerifySettings, disk, bounds
<1>3. CASE Complete /\ Go("creds")
  <2>1. op' \in Applies /\ op'.step = "creds" /\ op'.v = op.v /\ op'.todo = op.todo
    BY <1>1, <1>3, ApplyGoes DEF ApplySteps
  <2>2. Types'
    BY <1>1, <1>2, <2>1 DEF Types
  <2>3. Served(op.v)'
    BY <1>2, <1>3, <2>1 DEF Complete, Wanted, Served
  <2>4. ApplyFits' /\ OneBot' /\ OthersIn(settings')
    BY <1>1, <1>2, <2>1, <2>3 DEF ApplyFits, Whole, Packaged, Retired, OneBot, SettingsFit
  <2>5. QED
    BY <1>1, <1>2, <2>1, <2>2, <2>4, MidApply
<1>4. CASE op' = [op EXCEPT !.step = "read", !.tries = @ + 1, !.read = None]
  <2>1. op' \in Applies /\ op'.step = "read" /\ op'.v = op.v /\ op'.todo = op.todo
    <3>1. PICK n \in Nat : n = op.tries + 1
      BY <1>1 DEF Applies
    <3>2. op' = [op EXCEPT !.step = "read", !.tries = n, !.read = None]
      BY <1>4, <3>1
    <3>3. QED
      BY <1>1, <3>1, <3>2 DEF Applies, ApplySteps
  <2>2. Types'
    BY <1>1, <1>2, <2>1 DEF Types
  <2>3. ApplyFits' /\ OneBot' /\ OthersIn(settings')
    BY <1>1, <1>2, <2>1 DEF ApplyFits, Whole, Packaged, Retired, OneBot, SettingsFit
  <2>4. QED
    BY <1>1, <1>2, <2>1, <2>2, <2>3, MidApply
<1>5. CASE op' = Idle
  <2>1. Types'
    BY <1>1, <1>2, <1>5 DEF Types
  <2>2. QED
    BY <1>1, <1>2, <1>5, <2>1, Leaves
<1>6. QED
  BY <1>3, <1>4, <1>5 DEF VerifySettings

LEMMA EndApplyStep ==
  ASSUME BotInstallAssumption, BotInv, EndApply
  PROVE  BotInv'
<1>1. /\ Types /\ SettingsFit /\ OneBot /\ ApplyFits /\ SettledFits /\ op \in Applies /\ op.step = "creds"
      /\ op.v \in Versions /\ op.todo = {} /\ op # Idle
  BY KindsApart DEF BotInv, EndApply, At, ApplyFits, Applies
<1>2. /\ op' = Idle /\ installed' = op.v /\ touched' = FALSE
      /\ UNCHANGED <<package, agentFile, skills, scripts, settings, ide, disturbed, ops>>
  BY DEF EndApply, disk, bounds
<1>3. op' \notin Applies /\ op' \notin Removals
  BY <1>2 DEF Applies, Removals, Idle
<1>4. Types'
  BY <1>1, <1>2 DEF Types
<1>5. ops # 0 /\ installed' # None
  BY <1>1, <1>2, Distinct DEF SettledFits
<1>6. Packaged(op.v) /\ Retired /\ (\A a \in Active : Whole(a, op.v)) /\ (~disturbed => Served(op.v))
  BY <1>1 DEF ApplyFits
<1>7. SettledFits'
  BY <1>2, <1>5, <1>6 DEF SettledFits, Packaged, Retired, Whole, Served
<1>8. SettingsFit' /\ OneBot'
  BY <1>1, <1>2, <1>3 DEF SettingsFit, OthersIn, OneBot
<1>9. QED
  BY <1>3, <1>4, <1>7, <1>8 DEF BotInv, ApplyFits, RemovalFits

LEMMA BeginUninstallStep ==
  ASSUME BotInstallAssumption, BotInv, BeginUninstall
  PROVE  BotInv'
<1>1. Types /\ SettingsFit /\ OneBot
  BY DEF BotInv
<1>2. /\ op' = [kind |-> "uninstall", step |-> "skills", read |-> None]
      /\ ops' = ops + 1 /\ touched' = TRUE /\ installed' = None
      /\ UNCHANGED <<package, agentFile, skills, scripts, settings, ide, disturbed>>
  BY DEF BeginUninstall, disk
<1>3. op' \in Removals /\ op'.step = "skills"
  BY <1>2 DEF Removals
<1>4. op' # Idle /\ op' \notin Applies /\ ops' # 0
  BY <1>1, <1>2, <1>3 DEF Applies, Removals, Idle, Types
<1>5. Types'
  BY <1>1, <1>2, <1>3 DEF Types
<1>6. SettledFits' /\ RemovalFits' /\ ApplyFits'
  BY <1>2, <1>3, <1>4 DEF SettledFits, RemovalFits, ApplyFits
<1>7. SettingsFit' /\ OneBot'
  BY <1>1, <1>2, <1>3, <1>4 DEF SettingsFit, OthersIn, OneBot
<1>8. QED
  BY <1>5, <1>6, <1>7 DEF BotInv

LEMMA RemoveSkillsStep ==
  ASSUME BotInstallAssumption, BotInv, RemoveSkills
  PROVE  BotInv'
<1>1. /\ Types /\ SettingsFit /\ OneBot /\ RemovalFits /\ op \in Removals /\ op.step = "skills" /\ op # Idle
      /\ installed = None
  BY KindsApart DEF BotInv, RemoveSkills, At, RemovalFits
<1>2. UNCHANGED <<package, agentFile, scripts, settings, ide, installed, disturbed, touched, ops>>
  BY DEF RemoveSkills, History, bounds
<1>3. CASE /\ op' = op
           /\ \E a \in {b \in ToUninstall : skills[b].there} : skills' = [skills EXCEPT ![a] = NoDir]
  <2>1. PICK a \in Agents : skills' = [skills EXCEPT ![a] = NoDir]
    BY <1>3 DEF ToUninstall
  <2>2. NoDir \in Dirs /\ NoDir.anchor = FALSE
    BY DEF NoDir, Dirs
  <2>3. Types'
    BY <1>1, <1>2, <1>3, <2>1, <2>2 DEF Types
  <2>4. OneBot' /\ RemovalFits'
    BY <1>1, <1>2, <1>3, <2>1, <2>2 DEF OneBot, RemovalFits, Types
  <2>5. QED
    BY <1>1, <1>2, <1>3, <2>3, <2>4, MidRemoval
<1>4. CASE (\A a \in ToUninstall : ~skills[a].there) /\ Go("files") /\ UNCHANGED skills
  <2>1. op' \in Removals /\ op'.step = "files"
    BY <1>1, <1>4, RemovalGoes
  <2>2. Types'
    BY <1>1, <1>2, <1>4, <2>1 DEF Types
  <2>3. OneBot' /\ RemovalFits'
    BY <1>1, <1>2, <1>4, <2>1 DEF OneBot, RemovalFits, Emptied, ToUninstall
  <2>4. QED
    BY <1>1, <1>2, <2>1, <2>2, <2>3, MidRemoval
<1>5. CASE op' = Idle /\ UNCHANGED skills
  <2>1. Types'
    BY <1>1, <1>2, <1>5 DEF Types
  <2>2. QED
    BY <1>1, <1>2, <1>5, <2>1, Leaves
<1>6. QED
  BY <1>3, <1>4, <1>5 DEF RemoveSkills

LEMMA RemoveFilesStep ==
  ASSUME BotInstallAssumption, BotInv, RemoveFiles
  PROVE  BotInv'
<1>1. Types /\ OneBot /\ RemovalFits /\ op \in Removals /\ op.step = "files"
  BY KindsApart DEF BotInv, RemoveFiles, At
<1>2. /\ package' = NoPackage /\ agentFile' = [a \in Agents |-> None] /\ scripts' = [a \in Agents |-> None]
      /\ Go("prune")
      /\ UNCHANGED <<skills, settings, ide, installed, disturbed, touched, ops>>
  BY DEF RemoveFiles, History, bounds
<1>3. op' \in Removals /\ op'.step = "prune"
  BY <1>1, <1>2, RemovalGoes
<1>4. NoPackage \in [files : SUBSET Versions, meta : Versions \cup {None}, own : BOOLEAN]
  BY DEF NoPackage
<1>5. Types'
  BY <1>1, <1>2, <1>3, <1>4 DEF Types
<1>6. OneBot' /\ RemovalFits'
  BY <1>1, <1>2, <1>3 DEF OneBot, RemovalFits, Emptied, Gone
<1>7. QED
  BY <1>1, <1>2, <1>3, <1>5, <1>6, MidRemoval

LEMMA PruneReadStep ==
  ASSUME BotInstallAssumption, BotInv, PruneRead
  PROVE  BotInv'
<1>1. Types /\ SettingsFit /\ OneBot /\ RemovalFits /\ op \in Removals /\ op.step = "prune" /\ settings \in Entries
  BY KindsApart DEF BotInv, PruneRead, At, Types
<1>2. /\ op' = [op EXCEPT !.step = "pruned", !.read = settings]
      /\ UNCHANGED <<package, agentFile, skills, scripts, settings, ide, installed, disturbed, touched, ops>>
  BY DEF PruneRead, disk, History, bounds
<1>3. op' \in Removals /\ op'.step = "pruned" /\ op'.read = settings
  BY <1>1, <1>2 DEF Removals
<1>4. Types'
  BY <1>1, <1>2, <1>3 DEF Types
<1>5. OneBot' /\ RemovalFits' /\ OthersIn(settings)
  BY <1>1, <1>2, <1>3 DEF OneBot, RemovalFits, Emptied, Gone, SettingsFit
<1>6. QED
  BY <1>1, <1>2, <1>3, <1>4, <1>5, MidRemoval

LEMMA EndUninstallStep ==
  ASSUME BotInstallAssumption, BotInv, EndUninstall
  PROVE  BotInv'
<1>1. /\ Types /\ SettingsFit /\ OneBot /\ RemovalFits /\ SettledFits /\ op \in Removals /\ op.step = "pruned"
      /\ op.read \in Entries /\ OthersIn(op.read) /\ op # Idle
  BY KindsApart DEF BotInv, EndUninstall, At, SettingsFit
<1>2. /\ settings' = Pruned(op.read) /\ op' = Idle /\ touched' = FALSE /\ disturbed' = FALSE
      /\ UNCHANGED <<package, agentFile, skills, scripts, ide, installed, ops>>
  BY DEF EndUninstall, disk, bounds
<1>3. op' \notin Applies /\ op' \notin Removals
  BY <1>2 DEF Applies, Removals, Idle
<1>4. settings' \in Entries /\ OthersIn(settings') /\ \A k \in Owned : settings'[k] = None
  BY <1>1, <1>2, Distinct DEF Pruned, Entries, OthersIn
<1>5. Types'
  BY <1>1, <1>2, <1>4 DEF Types
<1>6. ops # 0 /\ installed = None /\ Emptied /\ Gone
  BY <1>1 DEF SettledFits, RemovalFits
<1>7. SettledFits'
  BY <1>2, <1>4, <1>6 DEF SettledFits, Emptied, Gone
<1>8. SettingsFit' /\ OneBot'
  BY <1>1, <1>2, <1>3, <1>4 DEF SettingsFit, OthersIn, OneBot
<1>9. QED
  BY <1>3, <1>5, <1>7, <1>8 DEF BotInv, ApplyFits, RemovalFits

(* The IDE, the agent at its work, the user's files, and a crash. *)
LEMMA IdeStep ==
  ASSUME BotInstallAssumption, BotInv, IdeReads \/ IdeWrites
  PROVE  BotInv'
<1>1. Types /\ SettingsFit /\ OneBot /\ ApplyFits /\ RemovalFits /\ SettledFits
  BY DEF BotInv
<1>2. UNCHANGED <<package, agentFile, skills, scripts, op, installed, touched, ops>>
  BY DEF IdeReads, IdeWrites, disk, History, bounds
<1>3. CASE IdeReads
  <2>1. UNCHANGED <<settings, disturbed>> /\ ide' = settings
    BY <1>3 DEF IdeReads, History
  <2>2. Types' /\ SettingsFit'
    BY <1>1, <1>2, <2>1 DEF Types, SettingsFit, OthersIn
  <2>3. OneBot' /\ ApplyFits' /\ RemovalFits' /\ SettledFits'
    BY <1>1, <1>2, <2>1
    DEF OneBot, ApplyFits, RemovalFits, SettledFits, Packaged, Retired, Whole, Served, Emptied, Gone
  <2>4. QED
    BY <2>2, <2>3 DEF BotInv
<1>4. CASE IdeWrites
  <2>1. settings' = ide /\ ide' = None /\ disturbed' = TRUE /\ ide \in Entries /\ OthersIn(ide)
    BY <1>1, <1>4 DEF IdeWrites, Types, SettingsFit
  <2>2. Types' /\ SettingsFit'
    BY <1>1, <1>2, <2>1 DEF Types, SettingsFit, OthersIn
  <2>3. OneBot' /\ ApplyFits' /\ RemovalFits' /\ SettledFits'
    BY <1>1, <1>2, <2>1
    DEF OneBot, ApplyFits, RemovalFits, SettledFits, Packaged, Retired, Whole, Emptied, Gone
  <2>4. QED
    BY <2>2, <2>3 DEF BotInv
<1>5. QED
  BY <1>3, <1>4

LEMMA LearnStep ==
  ASSUME BotInstallAssumption, BotInv, Learn
  PROVE  BotInv'
<1>1. Types /\ SettingsFit /\ OneBot /\ ApplyFits /\ RemovalFits /\ SettledFits
  BY DEF BotInv
<1>2. /\ op = Idle /\ skills[Main].from # {} /\ skills' = [skills EXCEPT ![Main].lessons = TRUE]
      /\ UNCHANGED <<package, agentFile, scripts, settings, ide, op, installed, disturbed, touched, ops>>
  BY DEF Learn, History, bounds
<1>3. PICK d : d = [skills[Main] EXCEPT !.lessons = TRUE]
  OBVIOUS
<1>4. skills[Main] \in Dirs /\ skills' = [skills EXCEPT ![Main] = d]
  BY <1>1, <1>2, <1>3, Agents2 DEF Types
<1>5. d \in Dirs /\ d.from = skills[Main].from /\ d.anchor = skills[Main].anchor /\ d.there = skills[Main].there
  BY <1>3, <1>4 DEF Dirs
<1>6. Types'
  BY <1>1, <1>2, <1>4, <1>5 DEF Types
<1>7. \A a \in Agents : skills'[a].from = skills[a].from /\ skills'[a].anchor = skills[a].anchor
                        /\ skills'[a].there = skills[a].there
  BY <1>1, <1>4, <1>5 DEF Types
<1>8. op \notin Applies /\ op \notin Removals
  BY <1>1, <1>2, KindsApart
<1>9. OneBot' /\ SettingsFit' /\ ApplyFits' /\ RemovalFits'
  BY <1>1, <1>2, <1>7, <1>8 DEF OneBot, SettingsFit, OthersIn, ApplyFits, RemovalFits
<1>10. SettledFits'
  BY <1>1, <1>2, <1>7, Agents2 DEF SettledFits, Packaged, Retired, Whole, Served, Emptied, Gone
<1>11. QED
  BY <1>6, <1>9, <1>10 DEF BotInv

LEMMA KeepStep ==
  ASSUME BotInstallAssumption, BotInv, KeepInPackage
  PROVE  BotInv'
<1>1. Types /\ SettingsFit /\ OneBot /\ ApplyFits /\ RemovalFits /\ SettledFits
  BY DEF BotInv
<1>2. /\ op = Idle /\ package.meta # None /\ package' = [package EXCEPT !.own = TRUE]
      /\ UNCHANGED <<agentFile, skills, scripts, settings, ide, op, installed, disturbed, touched, ops>>
  BY DEF KeepInPackage, History, bounds
<1>3. Types' /\ package'.files = package.files /\ package'.meta = package.meta
  BY <1>1, <1>2 DEF Types
<1>4. op \notin Applies /\ op \notin Removals
  BY <1>1, <1>2, KindsApart
<1>5. OneBot' /\ SettingsFit' /\ ApplyFits' /\ RemovalFits'
  BY <1>1, <1>2, <1>4 DEF OneBot, SettingsFit, OthersIn, ApplyFits, RemovalFits
<1>6. ~(~touched /\ installed = None /\ ops > 0)
  BY <1>1, <1>2 DEF SettledFits, Gone, NoPackage
<1>7. SettledFits'
  BY <1>1, <1>2, <1>3, <1>6 DEF SettledFits, Packaged, Retired, Whole, Served
<1>8. QED
  BY <1>3, <1>5, <1>7 DEF BotInv

LEMMA CrashStep ==
  ASSUME BotInstallAssumption, BotInv, Crash
  PROVE  BotInv'
<1>1. /\ op # Idle /\ op' = Idle
      /\ UNCHANGED <<package, agentFile, skills, scripts, settings, ide, installed, disturbed, touched, ops>>
  BY DEF Crash, disk
<1>2. Types'
  BY <1>1 DEF BotInv, Types
<1>3. QED
  BY <1>1, <1>2, Leaves

LEMMA BotInvInit ==
  ASSUME BotInstallAssumption, InstallInit
  PROVE  BotInv
<1>1. op = Idle /\ Idle \notin Applies /\ Idle \notin Removals
  BY DEF InstallInit, Applies, Removals, Idle
<1>2. PICK old \in BOOLEAN :
        /\ agentFile = [a \in Agents |-> IF old /\ a = Validator THEN "old" ELSE None]
        /\ skills = [a \in Agents |-> IF old /\ a = Validator THEN [NoDir EXCEPT !.there = TRUE] ELSE NoDir]
  BY DEF InstallInit
<1>3. /\ NoDir \in Dirs /\ NoDir.anchor = FALSE
      /\ [NoDir EXCEPT !.there = TRUE] \in Dirs /\ [NoDir EXCEPT !.there = TRUE].anchor = FALSE
  BY DEF NoDir, Dirs
<1>4. skills \in [Agents -> Dirs] /\ OneBot
  BY <1>2, <1>3 DEF OneBot
<1>5. settings \in Entries /\ OthersIn(settings)
  BY DEF InstallInit, Entries, OthersIn
<1>6. Types
  BY <1>1, <1>2, <1>4, <1>5 DEF InstallInit, Types, NoPackage
<1>7. SettledFits
  BY <1>1 DEF InstallInit, SettledFits
<1>8. QED
  BY <1>1, <1>4, <1>5, <1>6, <1>7 DEF InstallInit, BotInv, SettingsFit, ApplyFits, RemovalFits

LEMMA BotInvNext ==
  ASSUME BotInstallAssumption, BotInv, [InstallNext]_installVars
  PROVE  BotInv'
<1>1. CASE InstallNext
  <2>1. ASSUME NEW a \in Active, InstallAgentFile(a) PROVE BotInv'
    BY <2>1, AgentFileStep
  <2>2. QED
    BY <1>1, <2>1, BeginApplyStep, WritePackageStep, RetireStep, SkillsStep, ScriptsStep, ReadStep, WriteStep,
       VerifyStep, EndApplyStep, BeginUninstallStep, RemoveSkillsStep, RemoveFilesStep, PruneReadStep,
       EndUninstallStep, IdeStep, LearnStep, KeepStep, CrashStep DEF InstallNext
<1>2. CASE UNCHANGED installVars
  BY <1>2
  DEF installVars, BotInv, Types, SettingsFit, OthersIn, OneBot, ApplyFits, RemovalFits, SettledFits, Packaged, Retired,
      Whole, Served, Emptied, Gone
<1>3. QED
  BY <1>1, <1>2

-----------------------------------------------------------------------------
(* Every step of an operation leaves on the disk what the next one and the
   return of the operation rely on (Apply, InstallNative, UninstallNative). *)
THEOREM BotInvHolds ==
  ASSUME BotInstallAssumption
  PROVE  InstallSpec => []BotInv
<1>1. InstallInit => BotInv
  BY BotInvInit
<1>2. BotInv /\ [InstallNext]_installVars => BotInv'
  BY BotInvNext
<1>3. QED
  BY <1>1, <1>2, PTL DEF InstallSpec

(* After an Apply that returned every agent consists of the files of that
   version alone, and nothing is left of the retired validator, whatever
   earlier operations that broke off had left there. *)
THEOREM InstallationsAreWhole ==
  ASSUME BotInstallAssumption
  PROVE  InstallSpec => []InstalledIsWhole
<1>1. BotInv => InstalledIsWhole
  BY DEF BotInv, SettledFits, Packaged, Retired, Whole, InstalledIsWhole, Settled
<1>2. QED
  BY <1>1, BotInvHolds, PTL

(* Only the directory of the primary agent ever has an anchor: the scan finds
   one bot of the system, in the middle of an operation too. *)
THEOREM OneBotIsSeen ==
  ASSUME BotInstallAssumption
  PROVE  InstallSpec => []OneBot
<1>1. BotInv => OneBot
  BY DEF BotInv
<1>2. QED
  BY <1>1, BotInvHolds, PTL

(* The servers of the last version are in the settings file once Apply has
   read them back there and the IDE has not rewritten the file since
   (writeMCPServersWithVerify). *)
THEOREM ServersAreKept ==
  ASSUME BotInstallAssumption
  PROVE  InstallSpec => []ServersStay
<1>1. BotInv => ServersStay
  BY DEF BotInv, SettledFits, Served, ServersStay, Settled
<1>2. QED
  BY <1>1, BotInvHolds, PTL

(* After a removal that returned nothing of the system is left: files, skills
   of every agent, and the servers of every version in the settings
   (UninstallNative, pruneMCPKeysFromJSON). *)
THEOREM RemovalsAreClean ==
  ASSUME BotInstallAssumption
  PROVE  InstallSpec => []RemovedIsGone
<1>1. BotInv => RemovedIsGone
  BY DEF BotInv, SettledFits, Emptied, Gone, RemovedIsGone, Settled
<1>2. QED
  BY <1>1, BotInvHolds, PTL

(* Entries of others are lost to no merge, pruning or rewrite by the IDE from
   a copy it read before. *)
THEOREM OthersAreKept ==
  ASSUME BotInstallAssumption
  PROVE  InstallSpec => []ForeignStay
<1>1. BotInv => ForeignStay
  BY DEF BotInv, SettingsFit, OthersIn, ForeignStay
<1>2. QED
  BY <1>1, BotInvHolds, PTL
(* Whatever operations broke off, what one that returned has left is the      *)
(* whole bot with its servers, or nothing of it, and nothing else is touched. *)
THEOREM InstalledBotsAreWhole ==
  ASSUME BotInstallAssumption
  PROVE  InstallSpec => []InstalledBotIsWhole
<1>1. InstalledIsWhole /\ OneBot /\ ServersStay /\ RemovedIsGone /\ ForeignStay => InstalledBotIsWhole
  BY DEF InstalledBotIsWhole
<1> QED
  BY <1>1, InstallationsAreWhole, OneBotIsSeen, ServersAreKept, RemovalsAreClean, OthersAreKept, PTL

-----------------------------------------------------------------------------
(* BotGeneration.  A config-map travels: from the workspace into a backup and
   back, from the memory of a job into the workspace, from there into packages.
   GenInv says at every stop that its verified rows have an origin, and where a
   row that the user verified is while its workspace is being replaced. *)
Packages == [part : {"empty", "done"}, of : Nat, center : Centers, rows : Rowings \cup {Nil}]
GenTypes ==
  /\ yaml \in [center : Centers, services : SUBSET Services, map : [Services -> Values \cup {Nil}]]
  /\ out \in Workspaces \cup {Nil} /\ backups \subseteq Workspaces /\ staging \in Workspaces \cup {Nil}
  /\ pkg \in [Targets -> Packages \cup {Nil}]
  /\ job \in Jobs \cup {Nil}
  /\ human \in [Services -> [center : Centers, value : Values] \cup {Nil}]
  /\ known \subseteq Centers \X Services \X Values
  /\ runs \in Nat
RowsFit(center, rows, k) ==
  rows \in Rowings => \A s \in DOMAIN rows : rows[s].status = "verified" => <<center, s, rows[s].value>> \in k
DirFits(dir, k) == RowsFit(dir.center, dir.rows, k) /\ (dir.center = Nil => dir.rows = Nil)
DirsFit ==
  /\ out # Nil => DirFits(out, known)
  /\ \A b \in backups : DirFits(b, known)
  /\ staging # Nil => DirFits(staging, known)
  /\ \A t \in Targets : pkg[t] # Nil => RowsFit(pkg[t].center, pkg[t].rows, known)
MapFits == \A s \in Services : yaml.map[s] # Nil => <<yaml.center, s, yaml.map[s]>> \in known
Origin(center, f, k) == \A s \in DOMAIN f : <<center, s, f[s]>> \in k
JobFits ==
  job # Nil =>
    /\ job.center = yaml.center /\ Origin(job.center, job.findings, known)
    /\ job.step \in {"copy", "copying"} => job.prior \in Workspaces /\ DirFits(job.prior, known)
    /\ job.step \in {"wipe", "render"} => job.prior \in Overrides /\ Origin(job.center, job.prior, known)
    /\ job.op = "package" /\ job.step = "pack" => staging \in Workspaces /\ staging.center = job.center
    /\ job.step = "pack" => job.op = "package"
    /\ job.step = "rename" => out # Nil
    /\ job.step \in {"rename", "copy", "copying"} => job.op = "upgrade"
InBackup(s) == \E b \in backups : Holds(b, s)
HumanFits ==
  \A s \in Services : human[s] # Nil =>
    /\ job # Nil /\ job.op = "upgrade" /\ job.step # "rename" => InBackup(s)
    /\ job # Nil /\ job.op = "generate" /\ job.step \in {"wipe", "render"} =>
         \/ InBackup(s) \/ human[s].center # job.center \/ (s \in DOMAIN job.prior /\ job.prior[s] = human[s].value)
GenInv == GenTypes /\ DirsFit /\ MapFits /\ JobFits /\ HumanFits /\ HumanRowKept

LEMMA RowChanged ==
  ASSUME NEW rows \in Rowings, NEW s \in DOMAIN rows, NEW row \in [status : {"verified", "inferred"}, source : BOOLEAN, value : Values \cup {Nil}]
  PROVE  /\ [rows EXCEPT ![s] = row] \in Rowings /\ DOMAIN rows \subseteq Services
         /\ DOMAIN [rows EXCEPT ![s] = row] = DOMAIN rows
<1>1. PICK D \in SUBSET Services : rows \in [D -> [status : {"verified", "inferred"}, source : BOOLEAN, value : Values \cup {Nil}]]
  BY DEF Rowings
<1>2. DOMAIN rows = D
  BY <1>1
<1> DEFINE new == [rows EXCEPT ![s] = row]
<1>3. new \in [D -> [status : {"verified", "inferred"}, source : BOOLEAN, value : Values \cup {Nil}]]
  BY <1>1, <1>2
<1>4. DOMAIN new = D
  BY <1>3
<1> QED
  BY <1>2, <1>3, <1>4 DEF Rowings

(* A workspace that holds rows is one of some center. *)
LEMMA RowsOfKinds ==
  ASSUME BotGenerationAssumption, NEW dir \in Workspaces \cup {Nil}, NEW k, dir # Nil => DirFits(dir, k), NEW s \in DOMAIN RowsOf(dir)
  PROVE  /\ dir # Nil /\ dir \in Workspaces /\ dir.rows \in Rowings /\ dir.center \in Centers
         /\ RowsOf(dir) = dir.rows /\ s \in DOMAIN dir.rows /\ s \in Services
         /\ dir.rows[s] \in [status : {"verified", "inferred"}, source : BOOLEAN, value : Values \cup {Nil}]
<1>1. dir # Nil /\ dir.rows # Nil
  BY DEF RowsOf, NoRows
<1>2. dir \in Workspaces /\ dir.rows \in Rowings /\ dir.center \in Centers
  BY <1>1 DEF Workspaces, DirFits
<1>3. RowsOf(dir) = dir.rows
  BY <1>1 DEF RowsOf
<1>4. PICK D \in SUBSET Services : dir.rows \in [D -> [status : {"verified", "inferred"}, source : BOOLEAN, value : Values \cup {Nil}]]
  BY <1>2 DEF Rowings
<1> QED
  BY <1>1, <1>2, <1>3, <1>4

LEMMA NoRowsIsEmpty == NoRows \in Overrides /\ DOMAIN NoRows = {}
<1>1. NoRows \in [{} -> Values] /\ {} \in SUBSET Services
  BY DEF NoRows
<1> QED
  BY <1>1 DEF Overrides, NoRows

LEMMA GenInit == ASSUME BotGenerationAssumption, GenerationInit PROVE GenInv
<1>1. (CHOOSE c \in Centers : TRUE) \in Centers
  BY DEF BotGenerationAssumption
<1>2. GenTypes
  BY <1>1 DEF GenerationInit, GenTypes
<1>3. DirsFit /\ MapFits
  BY <1>1 DEF GenerationInit, DirsFit, MapFits
<1> QED
  BY <1>2, <1>3 DEF GenerationInit, GenInv, JobFits, HumanFits, HumanRowKept

LEMMA FitsGrow ==
  ASSUME NEW k, NEW l, k \subseteq l
  PROVE  /\ \A c, r : RowsFit(c, r, k) => RowsFit(c, r, l)
         /\ \A dir : DirFits(dir, k) => DirFits(dir, l)
         /\ \A c, f : Origin(c, f, k) => Origin(c, f, l)
  BY DEF RowsFit, DirFits, Origin

(* The kept rows while nothing is generated. *)
LEMMA IdleKeeps ==
  ASSUME GenInv, job = Nil
  PROVE  \A s \in Services : human[s] # Nil => Holds(out, s) \/ InBackup(s)
  BY DEF GenInv, HumanRowKept, InBackup

LEMMA EditsKeep ==
  ASSUME BotGenerationAssumption, GenInv,
         \/ \E c \in Centers : EditCenter(c)
         \/ \E s \in Services : ToggleService(s)
         \/ \E s \in Services, v \in Values : ChooseInWizard(s, v)
  PROVE  GenInv'
<1>1. job = Nil /\ UNCHANGED <<job, out, backups, staging, pkg, human, runs>> /\ known \subseteq known'
  BY DEF EditCenter, ToggleService, ChooseInWizard, Edit
<1>2. yaml' \in [center : Centers, services : SUBSET Services, map : [Services -> Values \cup {Nil}]] /\ MapFits'
      /\ known' \subseteq Centers \X Services \X Values
  <2>0. /\ known \subseteq Centers \X Services \X Values
        /\ yaml \in [center : Centers, services : SUBSET Services, map : [Services -> Values \cup {Nil}]]
        /\ \A s \in Services : yaml.map[s] # Nil => <<yaml.center, s, yaml.map[s]>> \in known
    BY DEF GenInv, GenTypes, MapFits
  <2>1. CASE \E c \in Centers : EditCenter(c)
    <3>1. PICK c \in Centers : EditCenter(c)
      BY <2>1
    <3>2. yaml' = [yaml EXCEPT !.center = c, !.map = [s \in Services |-> Nil]] /\ known' = known
      BY <3>1 DEF EditCenter
    <3> QED
      BY <2>0, <3>2 DEF MapFits
  <2>2. CASE \E s \in Services : ToggleService(s)
    <3>1. PICK s \in Services : ToggleService(s)
      BY <2>2
    <3>2. yaml' = [yaml EXCEPT !.services = IF s \in @ THEN @ \ {s} ELSE @ \cup {s}] /\ known' = known
      BY <3>1 DEF ToggleService
    <3> QED
      BY <1>1, <2>0, <3>2 DEF MapFits
  <2>3. CASE \E s \in Services, v \in Values : ChooseInWizard(s, v)
    <3>1. PICK s \in Services, v \in Values : ChooseInWizard(s, v)
      BY <2>3
    <3>2. yaml' = [yaml EXCEPT !.map[s] = v] /\ known' = known \cup {<<yaml.center, s, v>>}
      BY <3>1 DEF ChooseInWizard
    <3> QED
      BY <2>0, <3>2 DEF MapFits
  <2> QED
    BY <2>1, <2>2, <2>3
<1>3. GenTypes'
  BY <1>1, <1>2 DEF GenInv, GenTypes
<1>4. DirsFit'
  BY <1>1, FitsGrow DEF GenInv, DirsFit
<1>5. JobFits' /\ HumanFits'
  BY <1>1 DEF JobFits, HumanFits
<1>6. HumanRowKept'
  BY <1>1, IdleKeeps DEF HumanRowKept, InBackup, Holds, RowsOf
<1> QED
  BY <1>2, <1>3, <1>4, <1>5, <1>6 DEF GenInv

LEMMA VerifyKeeps ==
  ASSUME BotGenerationAssumption, GenInv, NEW s \in Services, NEW v \in Values, VerifyRow(s, v)
  PROVE  GenInv'
<1> DEFINE row == Row("verified", FALSE, v)
<1>1. /\ job = Nil /\ UNCHANGED <<yaml, job, backups, staging, pkg, runs>>
      /\ known' = known \cup {<<out.center, s, v>>}
      /\ out' = [out EXCEPT !.rows[s] = row]
      /\ human' = [human EXCEPT ![s] = [center |-> out.center, value |-> v]]
      /\ s \in DOMAIN RowsOf(out)
  BY DEF VerifyRow, Edit
<1>2. /\ out # Nil /\ out \in Workspaces /\ out.rows \in Rowings /\ out.center \in Centers
      /\ RowsOf(out) = out.rows /\ s \in DOMAIN out.rows
  <2>1. out \in Workspaces \cup {Nil} /\ (out # Nil => DirFits(out, known))
    BY DEF GenInv, GenTypes, DirsFit
  <2> QED
    BY <1>1, <2>1, RowsOfKinds
<1> DEFINE new == [out.rows EXCEPT ![s] = row]
<1>3. row \in [status : {"verified", "inferred"}, source : BOOLEAN, value : Values \cup {Nil}]
  BY DEF Row
<1>4. new \in Rowings /\ DOMAIN new = DOMAIN out.rows /\ new # Nil
  <2>1. new \in Rowings /\ DOMAIN new = DOMAIN out.rows
    BY <1>2, <1>3, RowChanged
  <2> QED
    BY <2>1 DEF BotGenerationAssumption
<1>5. out' = [center |-> out.center, rows |-> new]
  BY <1>1, <1>2 DEF Workspaces
<1>6. out' \in Workspaces /\ out'.center = out.center /\ out'.rows = new
  BY <1>2, <1>4, <1>5 DEF Workspaces
<1>7. \A r \in DOMAIN new : new[r] = IF r = s THEN row ELSE out.rows[r]
  BY <1>4
<1>8. GenTypes'
  <2>1. known' \subseteq Centers \X Services \X Values
    BY <1>1, <1>2 DEF GenInv, GenTypes
  <2>2. human' \in [Services -> [center : Centers, value : Values] \cup {Nil}]
    BY <1>1, <1>2 DEF GenInv, GenTypes
  <2> QED
    BY <1>1, <1>6, <2>1, <2>2 DEF GenInv, GenTypes
<1>9. DirFits(out', known')
  <2>1. RowsFit(out.center, out.rows, known)
    BY <1>2 DEF GenInv, DirsFit, DirFits
  <2>2. \A r \in DOMAIN new : new[r].status = "verified" => <<out.center, r, new[r].value>> \in known'
    BY <1>1, <1>2, <1>4, <1>7, <2>1 DEF RowsFit, Row
  <2> QED
    BY <1>2, <1>6, <2>2 DEF DirFits, RowsFit, BotGenerationAssumption
<1>10. DirsFit'
  BY <1>1, <1>9, FitsGrow DEF GenInv, DirsFit
<1>11. MapFits'
  BY <1>1 DEF GenInv, MapFits
<1>12. JobFits' /\ HumanFits'
  BY <1>1 DEF JobFits, HumanFits
<1>13. HumanRowKept'
  <2>1. ASSUME NEW r \in Services, human'[r] # Nil
        PROVE  Holds(out, r)' \/ InBackup(r)'
    <3>1. human \in [Services -> [center : Centers, value : Values] \cup {Nil}]
      BY DEF GenInv, GenTypes
    <3>2. out' # Nil /\ RowsOf(out)' = new
      BY <1>4, <1>6 DEF RowsOf, BotGenerationAssumption
    <3>3. CASE r = s
      <4>1. human'[s] = [center |-> out.center, value |-> v]
        BY <1>1, <3>1
      <4> QED
        BY <1>2, <1>4, <1>6, <1>7, <2>1, <3>2, <3>3, <4>1 DEF Holds, Row
    <3>4. CASE r # s
      <4>1. human'[r] = human[r]
        BY <1>1, <3>1, <3>4
      <4>2. CASE Holds(out, r)
        BY <1>2, <1>4, <1>6, <1>7, <3>2, <3>4, <4>1, <4>2 DEF Holds
      <4>3. CASE InBackup(r)
        BY <1>1, <4>1, <4>3 DEF InBackup, Holds
      <4> QED
        BY <1>1, <2>1, <4>1, <4>2, <4>3, IdleKeeps
    <3> QED
      BY <3>3, <3>4
  <2> QED
    BY <2>1 DEF HumanRowKept, InBackup
<1> QED
  BY <1>8, <1>10, <1>11, <1>12, <1>13 DEF GenInv

LEMMA RollBackKeeps ==
  ASSUME BotGenerationAssumption, GenInv, NEW b \in backups, RollBack(b)
  PROVE  GenInv'
<1>1. /\ job = Nil /\ UNCHANGED <<yaml, job, known, staging, pkg, runs>>
      /\ out' = b /\ backups' = backups \ {b}
      /\ human' = [s \in Services |->
           IF s \in DOMAIN RowsOf(b) /\ ByHand(b.rows[s]) THEN [center |-> b.center, value |-> b.rows[s].value] ELSE Nil]
  BY DEF RollBack, Edit
<1>2. b \in Workspaces /\ DirFits(b, known)
  BY DEF GenInv, GenTypes, DirsFit
<1>3. ASSUME NEW s \in Services, s \in DOMAIN RowsOf(b), ByHand(b.rows[s])
      PROVE  /\ b.center \in Centers /\ b.rows[s].value \in Values
             /\ b.rows[s] = Row("verified", FALSE, b.rows[s].value)
             /\ s \in DOMAIN b.rows
  <2>1. /\ b.center \in Centers /\ b.rows \in Rowings /\ s \in DOMAIN b.rows
        /\ b.rows[s] \in [status : {"verified", "inferred"}, source : BOOLEAN, value : Values \cup {Nil}]
    BY <1>2, <1>3, RowsOfKinds
  <2>2. b.rows[s].status = "verified" /\ b.rows[s].source = FALSE
    BY <1>3, <2>1 DEF ByHand
  <2>3. <<b.center, s, b.rows[s].value>> \in known
    BY <1>2, <2>1, <2>2 DEF DirFits, RowsFit
  <2> QED
    BY <2>1, <2>2, <2>3 DEF Row, GenInv, GenTypes
<1>4. GenTypes'
  <2>1. human' \in [Services -> [center : Centers, value : Values] \cup {Nil}]
    BY <1>1, <1>3
  <2> QED
    BY <1>1, <1>2, <2>1 DEF GenInv, GenTypes
<1>5. DirsFit' /\ MapFits'
  BY <1>1, <1>2 DEF GenInv, DirsFit, MapFits
<1>6. JobFits' /\ HumanFits'
  BY <1>1 DEF JobFits, HumanFits
<1>7. HumanRowKept'
  <2>1. ASSUME NEW s \in Services, human'[s] # Nil
        PROVE  Holds(out, s)'
    <3>1. s \in DOMAIN RowsOf(b) /\ ByHand(b.rows[s]) /\ human'[s] = [center |-> b.center, value |-> b.rows[s].value]
      BY <1>1, <2>1
    <3> QED
      BY <1>1, <1>3, <2>1, <3>1 DEF Holds
  <2> QED
    BY <2>1 DEF HumanRowKept
<1> QED
  BY <1>4, <1>5, <1>6, <1>7 DEF GenInv

LEMMA BeginKeeps ==
  ASSUME BotGenerationAssumption, GenInv, NEW what \in {"generate", "upgrade", "package"}, NEW step \in {"rename", "snapshot"},
         step = IF what = "upgrade" THEN "rename" ELSE "snapshot", step = "rename" => out # Nil,
         NEW found \in SUBSET Services, NEW v \in Values, Begin(what, step, found, v)
  PROVE  GenInv'
<1>1. /\ job = Nil /\ UNCHANGED <<yaml, out, backups, pkg, human>> /\ runs' = runs + 1 /\ staging' = Nil
      /\ known' = known \cup {<<yaml.center, s, v>> : s \in found}
      /\ job' = [op |-> what, step |-> step, findings |-> Findings(found, v), prior |-> NoRows, center |-> yaml.center]
  BY DEF Begin
<1>2. yaml.center \in Centers
  BY DEF GenInv, GenTypes
<1>3. /\ Findings(found, v) \in Overrides
      /\ Origin(yaml.center, Findings(found, v), known')
  <2>1. Findings(found, v) \in [found -> Values] /\ \A s \in found : Findings(found, v)[s] = v
    BY DEF Findings
  <2> QED
    BY <1>1, <2>1 DEF Overrides, Origin
<1>4. /\ job' \in Jobs /\ job'.op = what /\ job'.step = step /\ job'.center = yaml.center
      /\ job'.findings = Findings(found, v) /\ job'.prior = NoRows
  BY <1>1, <1>2, <1>3, NoRowsIsEmpty DEF Jobs
<1>5. GenTypes'
  BY <1>1, <1>2, <1>4 DEF GenInv, GenTypes
<1>6. DirsFit' /\ MapFits'
  BY <1>1, FitsGrow DEF GenInv, DirsFit, MapFits
<1>7. JobFits'
  BY <1>1, <1>3, <1>4 DEF JobFits
<1>8. HumanFits'
  BY <1>1, <1>4 DEF HumanFits
<1>9. HumanRowKept'
  BY <1>1, IdleKeeps DEF HumanRowKept, InBackup, Holds, RowsOf
<1> QED
  BY <1>5, <1>6, <1>7, <1>8, <1>9 DEF GenInv

(* While no generation in place is between its wipe and its rendering. *)
LEMMA JobKeeps ==
  ASSUME GenInv, ~(job # Nil /\ job.op = "generate" /\ job.step = "render")
  PROVE  \A s \in Services : human[s] # Nil => Holds(out, s) \/ InBackup(s)
  BY DEF GenInv, HumanRowKept, InBackup

(* A step of a job as a record. *)
LEMMA JobStep ==
  ASSUME BotGenerationAssumption, GenInv, NEW step, NEW next \in {"copy", "copying", "snapshot", "wipe", "render", "done", "pack"},
         StepTo(step, next)
  PROVE  /\ job # Nil /\ job \in Jobs /\ job' \in Jobs /\ job' # Nil /\ job.step = step
         /\ job'.step = next /\ job'.op = job.op /\ job'.center = job.center
         /\ job'.findings = job.findings /\ job'.prior = job.prior
<1>1. job # Nil /\ job \in Jobs /\ job.step = step /\ job' = [job EXCEPT !.step = next]
  BY DEF StepTo, Doing, GenInv, GenTypes
<1> QED
  BY <1>1 DEF Jobs, BotGenerationAssumption

LEMMA RenameKeeps == ASSUME BotGenerationAssumption, GenInv, RenameToBackup PROVE GenInv'
<1>1. /\ job # Nil /\ job.step = "rename" /\ job \in Jobs
      /\ UNCHANGED <<yaml, known, staging, pkg, human, runs>>
      /\ backups' = backups \cup {out} /\ out' = Nil
      /\ job' = [job EXCEPT !.step = "copy", !.prior = out]
  BY DEF RenameToBackup, Doing, Rest, GenInv, GenTypes
<1>2. /\ out # Nil /\ out \in Workspaces /\ DirFits(out, known)
      /\ job' \in Jobs /\ job'.step = "copy" /\ job'.op = job.op /\ job'.center = job.center
      /\ job'.findings = job.findings /\ job'.prior = out
  <2>1. out # Nil /\ out \in Workspaces /\ DirFits(out, known)
    BY <1>1 DEF GenInv, JobFits, GenTypes, DirsFit
  <2> QED
    BY <1>1, <2>1 DEF Jobs
<1>3. GenTypes' /\ DirsFit' /\ MapFits'
  BY <1>1, <1>2 DEF GenInv, GenTypes, DirsFit, MapFits
<1>4. JobFits'
  BY <1>1, <1>2 DEF GenInv, JobFits
<1>5. \A s \in Services : human[s] # Nil => InBackup(s)'
  <2>1. \A s \in Services : human[s] # Nil => Holds(out, s) \/ InBackup(s)
    BY <1>1, JobKeeps
  <2> QED
    BY <1>1, <2>1 DEF InBackup, Holds
<1>6. HumanFits' /\ HumanRowKept'
  BY <1>1, <1>2, <1>5 DEF HumanFits, HumanRowKept, InBackup
<1> QED
  BY <1>3, <1>4, <1>6 DEF GenInv

LEMMA CopyKeeps == ASSUME BotGenerationAssumption, GenInv, CopyStarts \/ CopyBack PROVE GenInv'
<1>1. /\ job # Nil /\ job.step \in {"copy", "copying"} /\ UNCHANGED <<yaml, known, backups, staging, pkg, human, runs>>
      /\ out' = job.prior \/ out' = [job.prior EXCEPT !.rows = Nil]
  BY DEF CopyStarts, CopyBack, StepTo, Doing, Rest
<1>2. /\ job \in Jobs /\ job' \in Jobs /\ job'.op = job.op /\ job'.center = job.center
      /\ job'.findings = job.findings /\ job'.prior = job.prior /\ job'.step \in {"copying", "snapshot"}
  <2>1. CASE CopyStarts
    <3>1. StepTo("copy", "copying")
      BY <2>1 DEF CopyStarts
    <3> QED
      BY <3>1, JobStep
  <2>2. CASE CopyBack
    <3>1. StepTo("copying", "snapshot")
      BY <2>2 DEF CopyBack
    <3> QED
      BY <3>1, JobStep
  <2> QED
    BY <2>1, <2>2
<1>3. job.prior \in Workspaces /\ DirFits(job.prior, known) /\ Origin(job.center, job.findings, known)
      /\ job.center = yaml.center /\ job.op = "upgrade"
  BY <1>1 DEF GenInv, JobFits
<1>4. out' \in Workspaces /\ DirFits(out', known)
  <2>1. CASE out' = job.prior
    BY <1>3, <2>1
  <2>2. CASE out' = [job.prior EXCEPT !.rows = Nil]
    <3>1. out' \in Workspaces /\ out'.rows = Nil
      BY <1>3, <2>2 DEF Workspaces
    <3> QED
      BY <3>1 DEF DirFits, RowsFit, BotGenerationAssumption
  <2> QED
    BY <1>1, <2>1, <2>2
<1>5. GenTypes' /\ DirsFit' /\ MapFits'
  BY <1>1, <1>2, <1>4 DEF GenInv, GenTypes, DirsFit, MapFits
<1>6. JobFits'
  BY <1>1, <1>2, <1>3 DEF JobFits
<1>7. \A s \in Services : human[s] # Nil => InBackup(s)'
  <2>1. job.op = "upgrade"
    BY <1>1 DEF GenInv, JobFits
  <2> QED
    BY <1>1, <2>1 DEF GenInv, HumanFits, InBackup, Holds
<1>8. HumanFits' /\ HumanRowKept'
  BY <1>1, <1>2, <1>7 DEF HumanFits, HumanRowKept, InBackup
<1> QED
  BY <1>5, <1>6, <1>8 DEF GenInv

(* What a snapshot collects somebody said of this center; in place, it is every
   row verified by hand for it. *)
LEMMA SnapshotFits ==
  ASSUME BotGenerationAssumption, GenInv, Doing("snapshot")
  PROVE  /\ PriorOverrides \in Overrides /\ Origin(job.center, PriorOverrides, known)
         /\ \A s \in Services : job.op # "package" /\ Holds(out, s) =>
               human[s].center # job.center \/ (s \in DOMAIN PriorOverrides /\ PriorOverrides[s] = human[s].value)
<1> DEFINE stays == IF Here = Nil \/ Here.center \notin {Nil, job.center} THEN {}
                    ELSE {s \in DOMAIN RowsOf(Here) : ByHand(Here.rows[s])}
           chosen == {s \in Services : yaml.map[s] # Nil}
           prior == [s \in stays \cup chosen |-> IF s \in stays THEN Here.rows[s].value ELSE yaml.map[s]]
<1>1. PriorOverrides = prior
  BY DEF PriorOverrides
<1>2. /\ job \in Jobs /\ job.step = "snapshot" /\ job.center = yaml.center /\ known \subseteq Centers \X Services \X Values
      /\ Here \in Workspaces \cup {Nil} /\ (Here # Nil => DirFits(Here, known))
  BY DEF Doing, Here, GenInv, GenTypes, DirsFit, JobFits
<1>3. ASSUME NEW s \in stays
      PROVE  s \in Services /\ <<job.center, s, Here.rows[s].value>> \in known
  <2>1. s \in DOMAIN RowsOf(Here) /\ ByHand(Here.rows[s]) /\ Here.center \in {Nil, job.center}
    BY <1>3
  <2>2. /\ Here # Nil /\ Here.rows \in Rowings /\ Here.center \in Centers /\ s \in DOMAIN Here.rows /\ s \in Services
    BY <1>2, <2>1, RowsOfKinds
  <2>3. Here.center = job.center
    BY <2>1, <2>2 DEF BotGenerationAssumption
  <2> QED
    BY <1>2, <2>1, <2>2, <2>3 DEF DirFits, RowsFit, ByHand
<1>4. ASSUME NEW s \in chosen
      PROVE  s \in Services /\ <<job.center, s, yaml.map[s]>> \in known
  BY <1>2, <1>4 DEF GenInv, MapFits
<1>5. \A s \in stays \cup chosen : s \in Services /\ <<job.center, s, prior[s]>> \in known /\ prior[s] \in Values
  BY <1>2, <1>3, <1>4
<1>6. prior \in [stays \cup chosen -> Values] /\ stays \cup chosen \in SUBSET Services
  BY <1>5
<1>7. prior \in Overrides /\ Origin(job.center, prior, known)
  BY <1>5, <1>6 DEF Overrides, Origin
<1>8. ASSUME NEW s \in Services, job.op # "package", Holds(out, s), human[s].center = job.center
      PROVE  s \in DOMAIN prior /\ prior[s] = human[s].value
  <2>1. Here = out /\ s \in DOMAIN RowsOf(out) /\ out.center = job.center /\ out.rows[s] = Row("verified", FALSE, human[s].value)
    BY <1>8 DEF Here, Holds
  <2>2. out # Nil
    BY <1>2, <2>1, RowsOfKinds
  <2>3. ByHand(out.rows[s]) /\ out.rows[s].value = human[s].value
    BY <2>1 DEF ByHand, Row
  <2>4. s \in stays
    BY <2>1, <2>2, <2>3
  <2> QED
    BY <2>1, <2>3, <2>4
<1> QED
  BY <1>1, <1>7, <1>8

LEMMA SnapshotKeeps == ASSUME BotGenerationAssumption, GenInv, Snapshot PROVE GenInv'
<1>1. /\ Doing("snapshot") /\ job # Nil /\ job \in Jobs /\ job.step = "snapshot"
      /\ UNCHANGED <<yaml, known, out, backups, staging, pkg, human, runs>>
      /\ job' = [job EXCEPT !.step = "wipe", !.prior = PriorOverrides]
  BY DEF Snapshot, Doing, Rest, GenInv, GenTypes
<1>2. /\ job' \in Jobs /\ job'.step = "wipe" /\ job'.op = job.op /\ job'.center = job.center
      /\ job'.findings = job.findings /\ job'.prior = PriorOverrides
  <2>1. PriorOverrides \in Overrides
    BY <1>1, SnapshotFits
  <2> QED
    BY <1>1, <2>1 DEF Jobs
<1>3. GenTypes' /\ DirsFit' /\ MapFits'
  BY <1>1, <1>2 DEF GenInv, GenTypes, DirsFit, MapFits
<1>4. JobFits'
  BY <1>1, <1>2, SnapshotFits DEF GenInv, JobFits
<1>5. \A s \in Services : human[s] # Nil => Holds(out, s) \/ InBackup(s)
  BY <1>1, JobKeeps
<1>6. HumanFits'
  <2>1. ASSUME NEW s \in Services, human'[s] # Nil, job'.op = "upgrade"
        PROVE  InBackup(s)'
    BY <1>1, <1>2, <2>1 DEF GenInv, HumanFits, InBackup, Holds
  <2>2. ASSUME NEW s \in Services, human'[s] # Nil, job'.op = "generate"
        PROVE  InBackup(s)' \/ human'[s].center # job'.center \/ (s \in DOMAIN job'.prior /\ job'.prior[s] = human'[s].value)
    <3>1. CASE InBackup(s)
      BY <1>1, <3>1 DEF InBackup, Holds
    <3>2. CASE Holds(out, s)
      <4>1. human[s].center # job.center \/ (s \in DOMAIN PriorOverrides /\ PriorOverrides[s] = human[s].value)
        BY <1>1, <1>2, <2>2, <3>2, SnapshotFits
      <4> QED
        BY <1>1, <1>2, <4>1
    <3> QED
      BY <1>1, <1>5, <2>2, <3>1, <3>2
  <2> QED
    BY <2>1, <2>2 DEF HumanFits
<1>7. HumanRowKept'
  BY <1>1, <1>5 DEF HumanRowKept, InBackup, Holds, RowsOf
<1> QED
  BY <1>3, <1>4, <1>6, <1>7 DEF GenInv

LEMMA WipeKeeps == ASSUME BotGenerationAssumption, GenInv, Wipe PROVE GenInv'
<1> DEFINE empty == [center |-> Nil, rows |-> Nil]
<1>1. /\ StepTo("wipe", "render") /\ UNCHANGED <<yaml, known, backups, pkg, human, runs>>
      /\ IF job.op = "package" THEN staging' = empty /\ UNCHANGED out ELSE out' = empty /\ UNCHANGED staging
  BY DEF Wipe, Rest
<1>2. /\ job # Nil /\ job \in Jobs /\ job' \in Jobs /\ job' # Nil /\ job.step = "wipe"
      /\ job'.step = "render" /\ job'.op = job.op /\ job'.center = job.center
      /\ job'.findings = job.findings /\ job'.prior = job.prior
  BY <1>1, JobStep
<1>3. empty \in Workspaces /\ DirFits(empty, known)
  BY DEF Workspaces, DirFits, RowsFit, BotGenerationAssumption
<1>4. GenTypes' /\ DirsFit' /\ MapFits'
  BY <1>1, <1>2, <1>3 DEF GenInv, GenTypes, DirsFit, MapFits
<1>5. JobFits'
  BY <1>1, <1>2 DEF GenInv, JobFits
<1>6. HumanFits'
  BY <1>1, <1>2 DEF GenInv, HumanFits, InBackup, Holds
<1>7. HumanRowKept'
  <2>1. ASSUME NEW s \in Services, human'[s] # Nil
        PROVE  \/ Holds(out, s)' \/ InBackup(s)'
               \/ /\ job' # Nil /\ job'.op = "generate" /\ job'.step = "render"
                  /\ (s \in DOMAIN job'.prior /\ job'.prior[s] = human'[s].value) \/ human'[s].center # job'.center
    <3>1. CASE job.op = "package"
      BY <1>1, <1>2, <2>1, <3>1, JobKeeps DEF InBackup, Holds, RowsOf
    <3>2. CASE job.op = "upgrade"
      BY <1>1, <1>2, <2>1, <3>2, <1>6 DEF HumanFits
    <3>3. CASE job.op = "generate"
      BY <1>1, <1>2, <2>1, <3>3, <1>6 DEF HumanFits
    <3> QED
      BY <1>2, <3>1, <3>2, <3>3 DEF Jobs
  <2> QED
    BY <2>1 DEF HumanRowKept, InBackup
<1> QED
  BY <1>4, <1>5, <1>6, <1>7 DEF GenInv

(* The rows of a rendered map say what somebody said. *)
LEMMA RenderFits ==
  ASSUME BotGenerationAssumption, GenInv, Doing("render")
  PROVE  LET rows == [s \in yaml.services |-> RowFor(s)]
             map == [center |-> job.center, rows |-> rows]
         IN /\ rows \in Rowings /\ map \in Workspaces /\ DirFits(map, known)
<1> DEFINE rows == [s \in yaml.services |-> RowFor(s)]
           map == [center |-> job.center, rows |-> rows]
<1>1. /\ job \in Jobs /\ job.step = "render" /\ yaml.services \in SUBSET Services /\ job.prior \in Overrides
      /\ Origin(job.center, job.findings, known) /\ Origin(job.center, job.prior, known)
      /\ known \subseteq Centers \X Services \X Values
  BY DEF Doing, GenInv, GenTypes, JobFits
<1>2. ASSUME NEW s \in yaml.services
      PROVE  /\ RowFor(s) \in [status : {"verified", "inferred"}, source : BOOLEAN, value : Values \cup {Nil}]
             /\ RowFor(s).status = "verified" => <<job.center, s, RowFor(s).value>> \in known
  <2>1. CASE s \in DOMAIN job.findings
    <3>1. <<job.center, s, job.findings[s]>> \in known
      BY <1>1, <2>1 DEF Origin
    <3> QED
      BY <1>1, <2>1, <3>1 DEF RowFor, Row
  <2>2. CASE s \notin DOMAIN job.findings /\ s \in DOMAIN job.prior
    <3>1. <<job.center, s, job.prior[s]>> \in known
      BY <1>1, <2>2 DEF Origin
    <3> QED
      BY <1>1, <2>2, <3>1 DEF RowFor, Row
  <2>3. CASE s \notin DOMAIN job.findings /\ s \notin DOMAIN job.prior
    BY <2>3 DEF RowFor, Row
  <2> QED
    BY <2>1, <2>2, <2>3
<1>3. rows \in [yaml.services -> [status : {"verified", "inferred"}, source : BOOLEAN, value : Values \cup {Nil}]]
  BY <1>2
<1>4. rows \in Rowings
  BY <1>1, <1>3 DEF Rowings
<1>5. map \in Workspaces /\ map.center \in Centers /\ map.rows = rows
  BY <1>1, <1>4 DEF Workspaces, Jobs
<1>6. DirFits(map, known)
  BY <1>2, <1>5 DEF DirFits, RowsFit, BotGenerationAssumption
<1> QED
  BY <1>4, <1>5, <1>6

LEMMA RenderKeeps == ASSUME BotGenerationAssumption, GenInv, Render PROVE GenInv'
<1> DEFINE rows == [s \in yaml.services |-> RowFor(s)]
           map == [center |-> job.center, rows |-> rows]
           next == IF job.op = "package" THEN "pack" ELSE "done"
<1>1. /\ StepTo("render", next) /\ UNCHANGED <<yaml, known, backups, pkg, runs>>
      /\ IF job.op = "package" THEN staging' = map /\ UNCHANGED <<out, human>>
         ELSE /\ out' = map /\ UNCHANGED staging
              /\ human' = [s \in Services |->
                   IF human[s] # Nil /\ human[s].center = job.center /\ s \in yaml.services \ DOMAIN job.findings
                   THEN human[s] ELSE Nil]
  BY DEF Render, Rest
<1>2. /\ job # Nil /\ job \in Jobs /\ job' \in Jobs /\ job' # Nil /\ job.step = "render"
      /\ job'.step = next /\ job'.op = job.op /\ job'.center = job.center
      /\ job'.findings = job.findings /\ job'.prior = job.prior
  <2>1. next \in {"copy", "copying", "snapshot", "wipe", "render", "done", "pack"}
    OBVIOUS
  <2> QED
    BY <1>1, <2>1, JobStep
<1>3. rows \in Rowings /\ map \in Workspaces /\ DirFits(map, known) /\ rows # Nil
  <2>1. Doing("render")
    BY <1>1 DEF StepTo
  <2>2. rows \in Rowings /\ map \in Workspaces /\ DirFits(map, known)
    BY <2>1, RenderFits
  <2> QED
    BY <2>2 DEF BotGenerationAssumption
<1> HIDE DEF rows
<1>4. GenTypes'
  BY <1>1, <1>2, <1>3 DEF GenInv, GenTypes
<1>5. DirsFit' /\ MapFits'
  BY <1>1, <1>3 DEF GenInv, DirsFit, MapFits
<1>6. JobFits'
  BY <1>1, <1>2, <1>3 DEF GenInv, JobFits
<1>7. HumanFits'
  BY <1>1, <1>2 DEF GenInv, HumanFits, InBackup, Holds
<1>8. HumanRowKept'
  <2>1. ASSUME NEW s \in Services, human'[s] # Nil
        PROVE  Holds(out, s)' \/ InBackup(s)'
    <3>1. CASE job.op = "package"
      <4>1. human[s] # Nil /\ human' = human /\ out' = out
        BY <1>1, <2>1, <3>1
      <4>2. Holds(out, s) \/ InBackup(s)
        BY <3>1, <4>1, JobKeeps
      <4> QED
        BY <1>1, <4>1, <4>2 DEF InBackup, Holds
    <3>2. CASE job.op # "package"
      <4>1. /\ human[s] # Nil /\ human'[s] = human[s] /\ human[s].center = job.center
            /\ s \in yaml.services /\ s \notin DOMAIN job.findings /\ out' = map
        BY <1>1, <2>1, <3>2
      <4>2. CASE InBackup(s)
        BY <1>1, <4>1, <4>2 DEF InBackup, Holds
      <4>3. CASE ~InBackup(s)
        <5>1. s \in DOMAIN job.prior /\ job.prior[s] = human[s].value
          BY <1>2, <3>2, <4>1, <4>3 DEF GenInv, HumanFits, Jobs
        <5>2. RowFor(s) = Row("verified", FALSE, human[s].value)
          BY <4>1, <5>1 DEF RowFor
        <5>3. rows[s] = Row("verified", FALSE, human[s].value) /\ s \in DOMAIN rows
          BY <4>1, <5>2 DEF rows
        <5>4. out'.rows = rows /\ out'.center = job.center
          BY <4>1
        <5>5. out' # Nil
          BY <1>3, <4>1 DEF BotGenerationAssumption
        <5>6. RowsOf(out)' = rows
          BY <1>3, <5>4, <5>5 DEF RowsOf
        <5> QED
          BY <4>1, <5>3, <5>4, <5>6 DEF Holds
      <4> QED
        BY <4>2, <4>3
    <3> QED
      BY <3>1, <3>2
  <2> QED
    BY <2>1 DEF HumanRowKept, InBackup
<1> QED
  BY <1>4, <1>5, <1>6, <1>7, <1>8 DEF GenInv

LEMMA PackagesKeep ==
  ASSUME BotGenerationAssumption, GenInv, NEW t \in Targets, ClearPackage(t) \/ FillPackage(t)
  PROVE  GenInv'
<1>1. /\ job # Nil /\ job.step = "pack" /\ UNCHANGED <<yaml, known, out, backups, job, staging, human, runs>>
  BY DEF ClearPackage, FillPackage, Rest
<1>2. /\ job \in Jobs /\ job.op = "package" /\ staging \in Workspaces /\ staging.center = job.center
      /\ DirFits(staging, known)
  <2>1. job \in Jobs /\ job.op = "package"
    BY <1>1 DEF GenInv, GenTypes, JobFits
  <2>2. staging \in Workspaces /\ staging.center = job.center
    BY <1>1, <2>1 DEF GenInv, JobFits
  <2> QED
    BY <2>1, <2>2 DEF GenInv, DirsFit, BotGenerationAssumption
<1>3. PICK part \in {"empty", "done"}, rows \in {Nil, staging.rows} :
        pkg' = [pkg EXCEPT ![t] = [part |-> part, of |-> runs, center |-> job.center, rows |-> rows]]
  BY DEF ClearPackage, FillPackage
<1> DEFINE new == [part |-> part, of |-> runs, center |-> job.center, rows |-> rows]
<1>4. new \in Packages /\ RowsFit(new.center, new.rows, known)
  <2>1. rows \in Rowings \cup {Nil} /\ runs \in Nat /\ job.center \in Centers
    BY <1>2 DEF GenInv, GenTypes, Workspaces, Jobs
  <2> QED
    BY <1>2, <2>1 DEF Packages, RowsFit, DirFits, BotGenerationAssumption
<1>5. pkg \in [Targets -> Packages \cup {Nil}]
  BY DEF GenInv, GenTypes
<1> HIDE DEF new
<1>6. pkg' = [pkg EXCEPT ![t] = new]
  BY <1>3 DEF new
<1>7. pkg' \in [Targets -> Packages \cup {Nil}] /\ \A u \in Targets : pkg'[u] = IF u = t THEN new ELSE pkg[u]
  BY <1>4, <1>5, <1>6
<1>8. GenTypes'
  BY <1>1, <1>7 DEF GenInv, GenTypes
<1>9. DirsFit' /\ MapFits' /\ JobFits'
  BY <1>1, <1>4, <1>7 DEF GenInv, DirsFit, MapFits, JobFits
<1>10. HumanFits' /\ HumanRowKept'
  BY <1>1 DEF GenInv, HumanFits, HumanRowKept, InBackup, Holds, RowsOf
<1> QED
  BY <1>8, <1>9, <1>10 DEF GenInv

LEMMA EndsKeep == ASSUME BotGenerationAssumption, GenInv, Finish \/ Abort PROVE GenInv'
<1>1. job # Nil /\ job' = Nil /\ staging' = Nil /\ UNCHANGED <<yaml, known, out, backups, pkg, runs>>
  BY DEF Finish, Abort, Rest
<1>2. ASSUME NEW s \in Services
      PROVE  human'[s] \in {human[s], Nil}
  BY DEF Finish, Abort, GenInv, GenTypes
<1>3. human' \in [Services -> [center : Centers, value : Values] \cup {Nil}]
  BY DEF Finish, Abort, GenInv, GenTypes
<1>4. GenTypes' /\ DirsFit' /\ MapFits' /\ JobFits' /\ HumanFits'
  BY <1>1, <1>3 DEF GenInv, GenTypes, DirsFit, MapFits, JobFits, HumanFits
<1>5. ASSUME NEW s \in Services, human'[s] # Nil
      PROVE  human'[s] = human[s] /\ (Holds(out, s) \/ InBackup(s))
  <2>1. human'[s] = human[s]
    BY <1>2, <1>5
  <2>2. CASE Finish
    <3>1. job.step # "render"
      BY <2>2 DEF Finish
    <3> QED
      BY <1>5, <2>1, <3>1, JobKeeps
  <2>3. CASE Abort
    <3>1. job.op = "generate" /\ job.step = "render" => InBackup(s)
      BY <1>5, <2>3 DEF Abort, InBackup
    <3> QED
      BY <1>5, <2>1, <3>1, JobKeeps
  <2> QED
    BY <2>2, <2>3
<1>6. HumanRowKept'
  BY <1>1, <1>5 DEF HumanRowKept, InBackup, Holds, RowsOf
<1> QED
  BY <1>4, <1>6 DEF GenInv

LEMMA GenStep ==
  ASSUME BotGenerationAssumption, GenInv, [GenerationNext]_generationVars
  PROVE  GenInv'
<1>1. CASE \/ \E c \in Centers : EditCenter(c)
           \/ \E s \in Services : ToggleService(s)
           \/ \E s \in Services, v \in Values : ChooseInWizard(s, v)
  BY <1>1, EditsKeep
<1>2. CASE \E s \in Services, v \in Values : VerifyRow(s, v)
  BY <1>2, VerifyKeeps
<1>3. CASE \E b \in backups : RollBack(b)
  BY <1>3, RollBackKeeps
<1>4. CASE \E found \in SUBSET Services, v \in Values : Gen(found, v) \/ Upgrade(found, v) \/ GenPackages(found, v)
  <2>1. PICK found \in SUBSET Services, v \in Values : Gen(found, v) \/ Upgrade(found, v) \/ GenPackages(found, v)
    BY <1>4
  <2>2. CASE Gen(found, v)
    <3>1. Begin("generate", "snapshot", found, v)
      BY <2>2 DEF Gen
    <3> QED
      BY <3>1, BeginKeeps
  <2>3. CASE Upgrade(found, v)
    <3>1. Begin("upgrade", "rename", found, v) /\ out # Nil
      BY <2>3 DEF Upgrade
    <3> QED
      BY <3>1, BeginKeeps
  <2>4. CASE GenPackages(found, v)
    <3>1. Begin("package", "snapshot", found, v)
      BY <2>4 DEF GenPackages
    <3> QED
      BY <3>1, BeginKeeps
  <2> QED
    BY <2>1, <2>2, <2>3, <2>4
<1>5. CASE RenameToBackup \/ CopyStarts \/ CopyBack
  BY <1>5, RenameKeeps, CopyKeeps
<1>6. CASE Snapshot \/ Wipe \/ Render
  BY <1>6, SnapshotKeeps, WipeKeeps, RenderKeeps
<1>7. CASE \E t \in Targets : ClearPackage(t) \/ FillPackage(t)
  BY <1>7, PackagesKeep
<1>8. CASE Finish \/ Abort
  BY <1>8, EndsKeep
<1>9. CASE UNCHANGED generationVars
  BY <1>9 DEF generationVars, GenInv, GenTypes, DirsFit, MapFits, JobFits, HumanFits, HumanRowKept, InBackup, Holds, RowsOf
<1> QED
  BY <1>1, <1>2, <1>3, <1>4, <1>5, <1>6, <1>7, <1>8, <1>9 DEF GenerationNext

(* ConfigMapsAreKept: through every generation, upgrade, roll-back, error and
   crash, a row the user verified is kept while it is to be, and every row that
   calls itself verified has an origin. *)
THEOREM ConfigMapsAreKept ==
  ASSUME BotGenerationAssumption PROVE GenerationSpec => []ConfigMapIsKept
<1>1. GenerationInit => GenInv
  BY GenInit
<1>2. GenInv /\ [GenerationNext]_generationVars => GenInv'
  BY GenStep
<1>3. ASSUME GenInv PROVE ConfigMapIsKept
  <2>1. ASSUME NEW dir \in Workspaces \cup {Nil}, dir # Nil => DirFits(dir, known), NEW s \in DOMAIN RowsOf(dir),
               dir.rows[s].status = "verified"
        PROVE  <<dir.center, s, dir.rows[s].value>> \in known
    <3>1. dir # Nil /\ dir.rows \in Rowings /\ s \in DOMAIN dir.rows
      BY <2>1, RowsOfKinds
    <3> QED
      BY <2>1, <3>1 DEF DirFits, RowsFit
  <2>2. ASSUME NEW t \in Targets, NEW s \in DOMAIN RowsOf(pkg[t]), pkg[t].rows[s].status = "verified"
        PROVE  <<pkg[t].center, s, pkg[t].rows[s].value>> \in known
    <3>1. pkg[t] # Nil /\ pkg[t].rows # Nil /\ RowsOf(pkg[t]) = pkg[t].rows
      BY <2>2 DEF RowsOf, NoRows
    <3>2. pkg[t].rows \in Rowings
      BY <1>3, <3>1 DEF GenInv, GenTypes, Packages
    <3> QED
      BY <1>3, <2>2, <3>1, <3>2 DEF GenInv, DirsFit, RowsFit
  <2>3. out \in Workspaces \cup {Nil} /\ (out # Nil => DirFits(out, known))
    BY <1>3 DEF GenInv, GenTypes, DirsFit
  <2>4. \A b \in backups : b \in Workspaces \cup {Nil} /\ (b # Nil => DirFits(b, known))
    BY <1>3 DEF GenInv, GenTypes, DirsFit
  <2>5. VerifiedHasOrigin
    BY <2>1, <2>2, <2>3, <2>4 DEF VerifiedHasOrigin
  <2> QED
    BY <1>3, <2>5 DEF ConfigMapIsKept, GenInv
<1> QED
  BY <1>1, <1>2, <1>3, PTL DEF GenerationSpec

-----------------------------------------------------------------------------
(* AnalysisCache: CacheInv follows a refresh: from the moment it threw the old
   result away, whatever its key finds, in the cache or in a scan, is no older
   than itself. *)
FlightTypes ==
  {s \in [state : {"none", "scanning", "done"}, key : Heads \cup {Absent}, read : Nat \cup {Absent},
          result : {Absent, "ok", "err", "none"}, waiters : Nat, abandoned : BOOLEAN, late : BOOLEAN] :
     s.state # "none" => s.key \in Heads}
CallTypes ==
  [pc : {"idle", "invalidate", "key", "ask", "wait", "done"}, key : Heads \cup {Absent},
   on : Scans \cup {Absent}, since : Nat, moved : BOOLEAN, answer : Nat \cup {Absent}]

CacheTypes ==
  /\ head \in Heads /\ version \in Nat
  /\ cache \in [Heads -> Nat \cup {Absent}] /\ flights \in [Heads -> Scans \cup {Absent}]
  /\ flight \in [Scans -> FlightTypes] /\ call \in [Callers -> CallTypes]

Asking(c) == call[c].pc \in {"invalidate", "key", "ask"}
WaitersOf(f) == {c \in Callers : call[c].pc = "wait" /\ call[c].on = f}

(* A call that asks has a key, one that waits has a scan, and none has an answer yet;
   only refreshes throw results away, and a call began in the past. *)
CallsFit ==
  \A c \in Callers :
    /\ Asking(c) => call[c].key \in Heads
    /\ call[c].pc = "wait" => call[c].on \in Scans /\ flight[call[c].on].state # "none"
    /\ call[c].pc # "done" => call[c].answer = Absent
    /\ call[c].pc = "invalidate" => c \in Refreshes
    /\ call[c].since <= version

(* What calls of the key h wait for. *)
FlightFits(h) ==
  LET f == flights[h] IN
  /\ flight[f].state = "scanning" /\ ~flight[f].abandoned /\ flight[f].key = h
  /\ flight[f].waiters = Cardinality(WaitersOf(f))
  /\ flight[f].waiters > 0
FlightsFit == \A h \in Heads : flights[h] # Absent => FlightFits(h)

ReadSince(f, c) == flight[f].read # Absent => flight[f].read >= call[c].since

(* A refresh that threw the old result away finds and waits for nothing older
   than itself. *)
Fresh(c) ==
  ~call[c].moved =>
    /\ Asking(c) => call[c].key = head
    /\ call[c].pc \in {"key", "ask"} =>
         /\ cache[call[c].key] # Absent => cache[call[c].key] >= call[c].since
         /\ flights[call[c].key] # Absent => ReadSince(flights[call[c].key], c)
    /\ call[c].pc = "wait" => ReadSince(call[c].on, c)
    /\ call[c].pc = "done" /\ call[c].answer # Absent => call[c].answer >= call[c].since
RefreshesFresh == \A c \in Refreshes : Fresh(c)

CacheInv == CacheTypes /\ CallsFit /\ FlightsFit /\ RefreshesFresh

LEMMA WaitersFinite ==
  ASSUME AnalysisCacheAssumption, NEW f PROVE IsFiniteSet(WaitersOf(f))
<1>1. IsFiniteSet(Callers)
  BY FS_Union DEF AnalysisCacheAssumption, Callers
<1> QED
  BY <1>1, FS_Subset DEF WaitersOf

LEMMA ScansAreNumbers ==
  ASSUME AnalysisCacheAssumption PROVE Absent \notin Scans /\ Scans \subseteq Nat
BY DEF AnalysisCacheAssumption, Scans

LEMMA CacheStarts ==
  ASSUME AnalysisCacheAssumption, CacheInit PROVE CacheInv
<1>1. CacheTypes
  BY DEF AnalysisCacheAssumption, CacheInit, CacheTypes, FlightTypes, CallTypes, NoFlight, NoCall
<1>2. CallsFit /\ RefreshesFresh
  BY DEF AnalysisCacheAssumption, CacheInit, CallsFit, RefreshesFresh, Fresh, Asking, NoCall, Callers
<1>3. FlightsFit
  BY DEF CacheInit, FlightsFit
<1> QED
  BY <1>1, <1>2, <1>3 DEF CacheInv

(* Steps of the world: the checkout changes, an entry expires. *)
LEMMA WorldKeepsCache ==
  ASSUME AnalysisCacheAssumption, CacheInv, NEW h \in Heads, Change(h) \/ Expire(h)
  PROVE  CacheInv'
<1> USE DEF CacheInv
<1>1. CASE Change(h)
  <2>1. CacheTypes'
    <3>1. ASSUME NEW c \in Callers PROVE [call[c] EXCEPT !.moved = TRUE] \in CallTypes /\ call[c] \in CallTypes
      BY DEF CacheTypes, CallTypes
    <3>2. call' \in [Callers -> CallTypes]
      BY <1>1, <3>1 DEF Change
    <3> QED
      BY <1>1, <3>2 DEF Change, CacheTypes
  <2>2. /\ version' = version + 1 /\ version \in Nat /\ head' = h
        /\ cache' = cache /\ flights' = flights /\ flight' = flight
    BY <1>1 DEF Change, CacheTypes
  <2>3. ASSUME NEW c \in Callers
        PROVE  /\ call[c].since \in Nat
               /\ call'[c] = call[c]
                  \/ /\ call'[c].pc = call[c].pc /\ call'[c].key = call[c].key /\ call'[c].on = call[c].on
                     /\ call'[c].since = call[c].since /\ call'[c].answer = call[c].answer /\ call'[c].moved
    BY <1>1 DEF Change, CacheTypes, CallTypes
  <2>4. CallsFit'
    BY <2>2, <2>3 DEF CallsFit, Asking
  <2>5. \A f \in Scans : WaitersOf(f)' = WaitersOf(f)
    BY <2>3 DEF WaitersOf
  <2>6. FlightsFit'
    BY <2>2, <2>5 DEF FlightsFit, FlightFits, CacheTypes
  <2>7. ASSUME NEW c \in Refreshes PROVE Fresh(c)'
    <3>1. c \in Callers /\ Fresh(c)
      BY DEF Callers, RefreshesFresh
    <3>2. CASE call'[c] = call[c]
      <4>1. h = head \/ ~Asking(c) \/ call[c].moved
        BY <1>1, <3>1, <3>2 DEF Change, CacheTypes, CallTypes, Asking
      <4> QED
        BY <2>2, <3>1, <3>2, <4>1 DEF Fresh, Asking, ReadSince
    <3>3. CASE call'[c].moved
      BY <3>3 DEF Fresh
    <3> QED
      BY <2>3, <3>1, <3>2, <3>3
  <2> QED
    BY <2>1, <2>4, <2>6, <2>7 DEF RefreshesFresh
<1>2. CASE Expire(h)
  <2>1. CacheTypes'
    BY <1>2 DEF Expire, CacheTypes
  <2>2. /\ version' = version /\ head' = head /\ flights' = flights /\ flight' = flight /\ call' = call
        /\ cache' = [cache EXCEPT ![h] = Absent]
    BY <1>2 DEF Expire
  <2>3. CallsFit' /\ FlightsFit'
    BY <2>2 DEF CallsFit, Asking, FlightsFit, FlightFits, WaitersOf
  <2>4. ASSUME NEW c \in Refreshes PROVE Fresh(c)'
    <3>1. c \in Callers /\ Fresh(c) /\ (Asking(c) => call[c].key \in Heads)
      BY DEF Callers, RefreshesFresh, CallsFit
    <3> QED
      BY <2>2, <3>1 DEF Fresh, Asking, ReadSince, CacheTypes
  <2> QED
    BY <2>1, <2>3, <2>4 DEF RefreshesFresh
<1> QED
  BY <1>1, <1>2

(* Steps of a call that leave the scans alone. *)
LEMMA CallStep ==
  ASSUME AnalysisCacheAssumption, CacheInv, NEW c \in Callers, NEW new \in CallTypes,
         call' = [call EXCEPT ![c] = new], UNCHANGED <<head, version, cache, flights, flight>>,
         Asking(c)' => new.key \in Heads, new.since <= version, new.pc # "done" => new.answer = Absent,
         new.pc = "invalidate" => c \in Refreshes,
         new.pc = "wait" => new.on \in Scans /\ flight[new.on].state # "none",
         \A h \in Heads : flights[h] # Absent => WaitersOf(flights[h])' = WaitersOf(flights[h]),
         c \in Refreshes => Fresh(c)'
  PROVE  CacheInv'
<1> USE DEF CacheInv
<1>1. CacheTypes'
  BY DEF CacheTypes
<1>2. call'[c] = new /\ \A d \in Callers \ {c} : call'[d] = call[d]
  BY DEF CacheTypes
<1>3. CallsFit'
  BY <1>2 DEF CallsFit, Asking
<1>4. FlightsFit'
  BY DEF FlightsFit, FlightFits
<1>5. ASSUME NEW d \in Refreshes PROVE Fresh(d)'
  <2>1. d \in Callers /\ Fresh(d)
    BY DEF Callers, RefreshesFresh
  <2>2. CASE d = c
    BY <2>2
  <2>3. CASE d # c
    BY <1>2, <2>1, <2>3 DEF Fresh, Asking, ReadSince
  <2> QED
    BY <2>2, <2>3
<1> QED
  BY <1>1, <1>3, <1>4, <1>5 DEF RefreshesFresh

(* A call begins, takes its key, finds an entry, or gets the result of its scan. *)
LEMMA CallsKeepCache ==
  ASSUME AnalysisCacheAssumption, CacheInv, NEW c \in Callers,
         BeginCall(c) \/ TakeKey(c) \/ Hit(c) \/ Receive(c)
  PROVE  CacheInv'
<1> USE DEF CacheInv
<1>1. call[c] \in CallTypes /\ call \in [Callers -> CallTypes] /\ head \in Heads /\ version \in Nat
  BY DEF CacheTypes
<1>2. ASSUME call[c].pc # "wait", call'[c].pc # "wait", \A d \in Callers \ {c} : call'[d] = call[d], NEW f
      PROVE  WaitersOf(f)' = WaitersOf(f)
  BY <1>2 DEF WaitersOf
<1>3. CASE BeginCall(c)
  <2> DEFINE new == [NoCall EXCEPT !.pc = IF c \in Refreshes THEN "invalidate" ELSE "ask", !.since = version, !.key = head]
  <2>1. new \in CallTypes /\ call' = [call EXCEPT ![c] = new] /\ new.key = head /\ new.since = version /\ new.answer = Absent
        /\ new.pc = (IF c \in Refreshes THEN "invalidate" ELSE "ask")
    BY <1>1, <1>3 DEF BeginCall, CallTypes, NoCall
  <2> HIDE DEF new
  <2>2. call'[c] = new /\ (\A d \in Callers \ {c} : call'[d] = call[d]) /\ call[c].pc = "idle"
    BY <1>1, <1>3, <2>1 DEF BeginCall
  <2>3. UNCHANGED <<head, version, cache, flights, flight>>
    BY <1>3 DEF BeginCall
  <2>4. c \in Refreshes => Fresh(c)'
    BY <2>1, <2>2, <2>3 DEF Fresh, Asking
  <2>5. \A f : WaitersOf(f)' = WaitersOf(f)
    BY <1>2, <2>1, <2>2
  <2>6. new.since <= version /\ new.key \in Heads /\ new.pc # "wait" /\ new.answer = Absent
    BY <1>1, <2>1 DEF NoCall
  <2> QED
    BY <2>1, <2>3, <2>4, <2>5, <2>6, CallStep
<1>4. CASE TakeKey(c)
  <2> DEFINE new == [call[c] EXCEPT !.pc = "ask", !.key = head]
  <2>1. new \in CallTypes /\ call' = [call EXCEPT ![c] = new] /\ new.key = head /\ new.since = call[c].since
        /\ new.pc = "ask" /\ new.moved = call[c].moved /\ new.answer = call[c].answer
    BY <1>1, <1>4 DEF TakeKey, CallTypes
  <2> HIDE DEF new
  <2>2. call'[c] = new /\ (\A d \in Callers \ {c} : call'[d] = call[d]) /\ call[c].pc = "key"
    BY <1>1, <1>4, <2>1 DEF TakeKey
  <2>3. UNCHANGED <<head, version, cache, flights, flight>>
    BY <1>4 DEF TakeKey
  <2>4. c \in Refreshes => Fresh(c)'
    <3>1. ASSUME c \in Refreshes PROVE Fresh(c)
      BY <3>1 DEF RefreshesFresh
    <3> QED
      BY <2>1, <2>2, <2>3, <3>1 DEF Fresh, Asking, ReadSince
  <2>5. \A f : WaitersOf(f)' = WaitersOf(f)
    BY <1>2, <2>1, <2>2
  <2>6. new.since <= version /\ new.answer = Absent
    BY <2>1, <2>2 DEF CallsFit
  <2> QED
    BY <1>1, <2>1, <2>3, <2>4, <2>5, <2>6, CallStep
<1>5. CASE Hit(c)
  <2> DEFINE new == [call[c] EXCEPT !.pc = "done", !.answer = cache[call[c].key]]
  <2>1. call[c].pc = "ask" /\ call[c].key \in Heads /\ cache[call[c].key] \in Nat \cup {Absent}
    BY <1>5 DEF Hit, CallsFit, Asking, CacheTypes
  <2>2. new \in CallTypes /\ call' = [call EXCEPT ![c] = new] /\ new.answer = cache[call[c].key]
        /\ new.since = call[c].since /\ new.pc = "done" /\ new.moved = call[c].moved
    BY <1>1, <1>5, <2>1 DEF Hit, CallTypes
  <2> HIDE DEF new
  <2>3. call'[c] = new /\ (\A d \in Callers \ {c} : call'[d] = call[d])
    BY <1>1, <2>2
  <2>4. UNCHANGED <<head, version, cache, flights, flight>>
    BY <1>5 DEF Hit
  <2>5. c \in Refreshes => Fresh(c)'
    <3>1. ASSUME c \in Refreshes PROVE Fresh(c)
      BY <3>1 DEF RefreshesFresh
    <3> QED
      BY <2>1, <2>2, <2>3, <2>4, <3>1 DEF Fresh, Asking
  <2>6. \A f : WaitersOf(f)' = WaitersOf(f)
    BY <1>2, <2>1, <2>2, <2>3
  <2>7. new.since <= version /\ ~Asking(c)'
    BY <2>2, <2>3 DEF CallsFit, Asking
  <2> QED
    BY <1>1, <2>2, <2>4, <2>5, <2>6, <2>7, CallStep
<1>6. CASE Receive(c)
  <2> DEFINE f == call[c].on
             new == [call[c] EXCEPT !.pc = "done", !.on = Absent,
                                    !.answer = IF flight[f].result = "ok" THEN flight[f].read ELSE Absent]
  <2>1. call[c].pc = "wait" /\ f \in Scans /\ flight[f].state = "done" /\ flight[f].read \in Nat \cup {Absent}
    BY <1>1, <1>6 DEF Receive, CallsFit, CacheTypes, FlightTypes
  <2>2. new \in CallTypes /\ call' = [call EXCEPT ![c] = new] /\ new.answer \in {flight[f].read, Absent}
        /\ new.since = call[c].since /\ new.pc = "done" /\ new.moved = call[c].moved
    BY <1>1, <1>6, <2>1 DEF Receive, CallTypes
  <2> HIDE DEF new
  <2>3. call'[c] = new /\ (\A d \in Callers \ {c} : call'[d] = call[d])
    BY <1>1, <2>2
  <2>4. UNCHANGED <<head, version, cache, flights, flight>>
    BY <1>6 DEF Receive
  <2>5. c \in Refreshes => Fresh(c)'
    <3>1. ASSUME c \in Refreshes PROVE Fresh(c)
      BY <3>1 DEF RefreshesFresh
    <3> QED
      BY <2>1, <2>2, <2>3, <2>4, <3>1 DEF Fresh, Asking, ReadSince
  <2>6. ASSUME NEW h \in Heads, flights[h] # Absent PROVE WaitersOf(flights[h])' = WaitersOf(flights[h])
    <3>1. flights[h] # f
      BY <2>1, <2>6 DEF FlightsFit, FlightFits
    <3> HIDE DEF f
    <3>2. call[c].on = f
      BY DEF f
    <3> QED
      BY <2>2, <2>3, <2>4, <3>1, <3>2 DEF WaitersOf
  <2>7. new.since <= version /\ ~Asking(c)'
    BY <2>2, <2>3 DEF CallsFit, Asking
  <2> QED
    BY <1>1, <2>2, <2>4, <2>5, <2>6, <2>7, CallStep
<1> QED
  BY <1>3, <1>4, <1>5, <1>6

(* A refresh throws the entry and the scan of its key away. *)
LEMMA InvalidateKeepsCache ==
  ASSUME AnalysisCacheAssumption, CacheInv, NEW c \in Callers, Invalidate(c)
  PROVE  CacheInv'
<1> USE DEF CacheInv
<1> DEFINE k == call[c].key
           drop(f) == [flight[f] EXCEPT !.abandoned = TRUE]
           new == [call[c] EXCEPT !.pc = "key"]
<1>1. /\ call[c] \in CallTypes /\ call \in [Callers -> CallTypes] /\ cache \in [Heads -> Nat \cup {Absent}]
      /\ flights \in [Heads -> Scans \cup {Absent}] /\ flight \in [Scans -> FlightTypes]
  BY DEF CacheTypes
<1>2. call[c].pc = "invalidate" /\ k \in Heads
  BY DEF Invalidate, CallsFit, Asking
<1>3. new \in CallTypes /\ call' = [call EXCEPT ![c] = new] /\ new.key = k /\ new.pc = "key" /\ new.since = call[c].since
      /\ new.moved = call[c].moved /\ new.answer = call[c].answer
  BY <1>1 DEF Invalidate, CallTypes
<1>4. \A f \in Scans : drop(f) \in FlightTypes /\ drop(f).read = flight[f].read /\ drop(f).state = flight[f].state
  BY <1>1 DEF FlightTypes
<1>5. /\ flight' \in [Scans -> FlightTypes]
      /\ \A f \in Scans : /\ flights[k] # f => flight'[f] = flight[f]
                          /\ flight'[f].read = flight[f].read /\ flight'[f].state = flight[f].state
  BY <1>1, <1>4 DEF Invalidate
<1>6. UNCHANGED <<head, version>> /\ cache' = [cache EXCEPT ![k] = Absent] /\ flights' = [flights EXCEPT ![k] = Absent]
  BY DEF Invalidate
<1> HIDE DEF new, k
<1>7. call'[c] = new /\ (\A d \in Callers \ {c} : call'[d] = call[d])
  BY <1>1, <1>3
<1>8. CacheTypes'
  BY <1>1, <1>3, <1>5, <1>6 DEF CacheTypes
<1>9. CallsFit'
  BY <1>2, <1>3, <1>5, <1>6, <1>7 DEF CallsFit, Asking
<1>10. \A f : WaitersOf(f)' = WaitersOf(f)
  BY <1>2, <1>3, <1>7 DEF WaitersOf
<1>11. ASSUME NEW h \in Heads, flights'[h] # Absent PROVE FlightFits(h)'
  <2>1. h # k /\ flights'[h] = flights[h] /\ flights[h] \in Scans
    BY <1>1, <1>2, <1>6, <1>11
  <2>2. FlightFits(h) /\ (flights[k] # Absent => FlightFits(k))
    BY <1>2, <1>11, <2>1 DEF FlightsFit
  <2>3. flight'[flights[h]] = flight[flights[h]]
    BY <1>5, <2>1, <2>2, ScansAreNumbers DEF FlightFits
  <2> QED
    BY <1>10, <2>1, <2>2, <2>3 DEF FlightFits
<1>12. ASSUME NEW d \in Refreshes PROVE Fresh(d)'
  <2>1. d \in Callers /\ Fresh(d) /\ (Asking(d) => call[d].key \in Heads)
        /\ (call[d].pc = "wait" => call[d].on \in Scans)
    BY DEF Callers, RefreshesFresh, CallsFit
  <2>2. CASE d = c
    <3>1. k = head \/ call[c].moved
      BY <1>2, <2>1, <2>2 DEF Fresh, Asking, k
    <3> QED
      BY <1>1, <1>2, <1>3, <1>6, <1>7, <2>2, <3>1 DEF Fresh, Asking
  <2>3. CASE d # c
    <3>1. call'[d] = call[d] /\ (Asking(d)' <=> Asking(d))
      BY <1>7, <2>1, <2>3 DEF Asking
    <3>2. ASSUME NEW h \in Heads
          PROVE  /\ cache'[h] = cache[h] \/ cache'[h] = Absent
                 /\ flights'[h] = flights[h] \/ flights'[h] = Absent
                 /\ flights[h] \in Scans \cup {Absent}
      BY <1>1, <1>6
    <3>3. \A f \in Scans : ReadSince(f, d) => ReadSince(f, d)'
      BY <1>5, <3>1 DEF ReadSince
    <3>4. call[d].pc \in {"key", "ask"} /\ ~call[d].moved =>
            /\ cache'[call[d].key] # Absent => cache'[call[d].key] >= call[d].since
            /\ flights'[call[d].key] # Absent => ReadSince(flights[call[d].key], d)'
      BY <2>1, <3>1, <3>2, <3>3 DEF Fresh, Asking
    <3>5. call[d].pc = "wait" /\ ~call[d].moved => ReadSince(call[d].on, d)'
      BY <2>1, <3>1, <3>3 DEF Fresh
    <3> QED
      BY <1>6, <2>1, <3>1, <3>4, <3>5 DEF Fresh
  <2> QED
    BY <2>2, <2>3
<1> QED
  BY <1>8, <1>9, <1>11, <1>12 DEF FlightsFit, RefreshesFresh

(* A call waits for the scan of its key. *)
LEMMA JoinKeepsCache ==
  ASSUME AnalysisCacheAssumption, CacheInv, NEW c \in Callers, Join(c)
  PROVE  CacheInv'
<1> USE DEF CacheInv
<1>0. PICK k \in Heads, f \in Scans : k = call[c].key /\ f = flights[k] /\ FlightFits(k)
  BY DEF Join, CallsFit, Asking, FlightsFit, CacheTypes
<1> DEFINE new == [call[c] EXCEPT !.pc = "wait", !.on = f, !.key = Absent]
           joined == [flight[f] EXCEPT !.waiters = @ + 1]
<1>1. /\ call[c] \in CallTypes /\ call \in [Callers -> CallTypes]
      /\ flights \in [Heads -> Scans \cup {Absent}] /\ flight \in [Scans -> FlightTypes]
  BY DEF CacheTypes
<1>2. call[c].pc = "ask" /\ FlightFits(k)
  BY <1>0 DEF Join
<1>3. new \in CallTypes /\ call' = [call EXCEPT ![c] = new] /\ new.on = f /\ new.pc = "wait" /\ new.since = call[c].since
      /\ new.moved = call[c].moved /\ new.answer = call[c].answer
  BY <1>0, <1>1, <1>2 DEF Join, CallTypes
<1>4. /\ joined \in FlightTypes /\ joined.waiters = flight[f].waiters + 1 /\ flight[f].waiters \in Nat
      /\ joined.read = flight[f].read /\ joined.state = flight[f].state
      /\ joined.key = flight[f].key /\ joined.abandoned = flight[f].abandoned
  BY <1>1, <1>2 DEF FlightTypes
<1>5. flight' = [flight EXCEPT ![f] = joined] /\ UNCHANGED <<head, version, cache, flights>>
  BY <1>0, <1>1, <1>2 DEF Join, FlightTypes
<1> HIDE DEF new, joined
<1>7. call'[c] = new /\ (\A d \in Callers \ {c} : call'[d] = call[d])
      /\ flight'[f] = joined /\ (\A g \in Scans \ {f} : flight'[g] = flight[g])
  BY <1>1, <1>2, <1>3, <1>5
<1>8. CacheTypes'
  BY <1>1, <1>3, <1>4, <1>5 DEF CacheTypes
<1>9. CallsFit'
  BY <1>0, <1>2, <1>3, <1>4, <1>5, <1>7 DEF CallsFit, Asking, FlightFits
<1>10. WaitersOf(f)' = WaitersOf(f) \cup {c} /\ c \notin WaitersOf(f)
  BY <1>2, <1>3, <1>7 DEF WaitersOf
<1>11. \A g : g # f => WaitersOf(g)' = WaitersOf(g)
  BY <1>2, <1>3, <1>7 DEF WaitersOf
<1>12. Cardinality(WaitersOf(f)') = Cardinality(WaitersOf(f)) + 1
  BY <1>10, WaitersFinite, FS_AddElement
<1>13. ASSUME NEW h \in Heads, flights'[h] # Absent PROVE FlightFits(h)'
  <2>1. FlightFits(h) /\ flights'[h] = flights[h] /\ flights[h] \in Scans
    BY <1>1, <1>5, <1>13 DEF FlightsFit
  <2>2. CASE flights[h] = f
    <3>1. flight[f].waiters = Cardinality(WaitersOf(f))
      BY <2>1, <2>2 DEF FlightFits
    <3>2. joined.waiters = Cardinality(WaitersOf(f)') /\ joined.waiters > 0
      BY <1>4, <1>12, <3>1
    <3> QED
      BY <1>4, <1>7, <2>1, <2>2, <3>2 DEF FlightFits
  <2>3. CASE flights[h] # f
    BY <1>7, <1>11, <2>1, <2>3 DEF FlightFits
  <2> QED
    BY <2>2, <2>3
<1>14. ASSUME NEW d \in Refreshes PROVE Fresh(d)'
  <2>1. d \in Callers /\ Fresh(d) /\ (Asking(d) => call[d].key \in Heads)
        /\ (call[d].pc = "wait" => call[d].on \in Scans)
    BY DEF Callers, RefreshesFresh, CallsFit
  <2>2. call'[d].since = call[d].since /\ call'[d].moved = call[d].moved
    BY <1>3, <1>7, <2>1
  <2>3. \A g \in Scans : ReadSince(g, d)' <=> ReadSince(g, d)
    BY <1>4, <1>7, <2>2 DEF ReadSince
  <2>4. CASE d = c
    BY <1>0, <1>2, <1>3, <1>5, <1>7, <2>1, <2>2, <2>3, <2>4, ScansAreNumbers DEF Fresh, Asking
  <2>5. CASE d # c
    <3>1. call'[d] = call[d]
      BY <1>7, <2>1, <2>5
    <3> QED
      BY <1>1, <1>5, <2>1, <2>3, <3>1 DEF Fresh, Asking
  <2> QED
    BY <2>4, <2>5
<1> QED
  BY <1>8, <1>9, <1>13, <1>14 DEF FlightsFit, RefreshesFresh

(* A call starts a scan: nobody waits on it before. *)
LEMMA StartKeepsCache ==
  ASSUME AnalysisCacheAssumption, CacheInv, NEW c \in Callers, NEW f \in Scans, Start(c, f)
  PROVE  CacheInv'
<1> USE DEF CacheInv
<1>0. PICK k \in Heads : k = call[c].key /\ flights[k] = Absent
  BY DEF Start, CallsFit, Asking
<1> DEFINE new == [call[c] EXCEPT !.pc = "wait", !.on = f, !.key = Absent]
           begun == [NoFlight EXCEPT !.state = "scanning", !.key = k, !.waiters = 1]
<1>1. /\ call[c] \in CallTypes /\ call \in [Callers -> CallTypes]
      /\ flights \in [Heads -> Scans \cup {Absent}] /\ flight \in [Scans -> FlightTypes]
  BY DEF CacheTypes
<1>2. call[c].pc = "ask" /\ flight[f].state = "none"
  BY DEF Start
<1>3. new \in CallTypes /\ call' = [call EXCEPT ![c] = new] /\ new.on = f /\ new.pc = "wait" /\ new.since = call[c].since
      /\ new.moved = call[c].moved /\ new.answer = call[c].answer
  BY <1>0, <1>1, <1>2 DEF Start, CallTypes
<1>4. /\ begun \in FlightTypes /\ begun.waiters = 1 /\ begun.read = Absent /\ begun.state = "scanning"
      /\ begun.key = k /\ begun.abandoned = FALSE
  BY DEF FlightTypes, NoFlight
<1>5. flight' = [flight EXCEPT ![f] = begun] /\ flights' = [flights EXCEPT ![k] = f] /\ UNCHANGED <<head, version, cache>>
  BY <1>0 DEF Start
<1> HIDE DEF new, begun
<1>7. call'[c] = new /\ (\A d \in Callers \ {c} : call'[d] = call[d])
      /\ flight'[f] = begun /\ (\A g \in Scans \ {f} : flight'[g] = flight[g])
  BY <1>1, <1>3, <1>5
<1>8. CacheTypes'
  BY <1>1, <1>3, <1>4, <1>5 DEF CacheTypes
<1>9. CallsFit'
  BY <1>2, <1>3, <1>4, <1>5, <1>7 DEF CallsFit, Asking
<1>10. WaitersOf(f)' = {c}
  BY <1>2, <1>3, <1>7 DEF WaitersOf, CallsFit
<1>11. \A g : g # f => WaitersOf(g)' = WaitersOf(g)
  BY <1>2, <1>3, <1>7 DEF WaitersOf
<1>12. ASSUME NEW h \in Heads, flights'[h] # Absent PROVE FlightFits(h)'
  <2>1. CASE h = k
    <3>1. flights'[h] = f /\ Cardinality(WaitersOf(f)') = 1
      BY <1>1, <1>5, <1>10, <2>1, FS_Singleton
    <3> QED
      BY <1>4, <1>7, <2>1, <3>1 DEF FlightFits
  <2>2. CASE h # k
    <3>1. flights'[h] = flights[h] /\ flights[h] \in Scans /\ FlightFits(h)
      BY <1>1, <1>5, <1>12, <2>2 DEF FlightsFit
    <3>2. flights[h] # f
      BY <1>2, <3>1 DEF FlightFits
    <3> QED
      BY <1>7, <1>11, <3>1, <3>2 DEF FlightFits
  <2> QED
    BY <2>1, <2>2
<1>13. ASSUME NEW d \in Refreshes PROVE Fresh(d)'
  <2>1. d \in Callers /\ Fresh(d) /\ (Asking(d) => call[d].key \in Heads)
        /\ (call[d].pc = "wait" => call[d].on \in Scans /\ call[d].on # f)
    BY <1>2 DEF Callers, RefreshesFresh, CallsFit
  <2>2. call'[d].since = call[d].since /\ call'[d].moved = call[d].moved
    BY <1>3, <1>7, <2>1
  <2>3. ReadSince(f, d)' /\ \A g \in Scans : ReadSince(g, d) => ReadSince(g, d)'
    BY <1>4, <1>7, <2>2 DEF ReadSince
  <2>4. CASE d = c
    BY <1>3, <1>7, <2>2, <2>3, <2>4 DEF Fresh, Asking
  <2>5. CASE d # c
    <3>1. call'[d] = call[d]
      BY <1>7, <2>1, <2>5
    <3>2. call[d].pc \in {"key", "ask"} /\ ~call[d].moved /\ flights'[call[d].key] # Absent => ReadSince(flights[call[d].key], d)'
      <4>1. SUFFICES ASSUME call[d].pc \in {"key", "ask"}, ~call[d].moved, flights'[call[d].key] # Absent
                     PROVE  ReadSince(flights[call[d].key], d)'
        OBVIOUS
      <4>2. PICK h \in Heads : h = call[d].key /\ h = call'[d].key
        BY <2>1, <3>1, <4>1 DEF Asking
      <4>3. CASE h = k
        BY <1>1, <1>5, <2>3, <4>2, <4>3
      <4>4. CASE h # k
        BY <1>1, <1>5, <2>1, <2>3, <4>1, <4>2, <4>4 DEF Fresh
      <4> QED
        BY <4>3, <4>4
    <3> QED
      BY <1>5, <2>1, <2>3, <3>1, <3>2 DEF Fresh, Asking
  <2> QED
    BY <2>4, <2>5
<1> QED
  BY <1>8, <1>9, <1>12, <1>13 DEF FlightsFit, RefreshesFresh

(* A call goes away: with the last one its scan is given up. *)
LEMMA LeaveKeepsCache ==
  ASSUME AnalysisCacheAssumption, CacheInv, NEW c \in Callers, Leave(c)
  PROVE  CacheInv'
<1> USE DEF CacheInv
<1>0. PICK f \in Scans : f = call[c].on /\ call[c].pc = "wait" /\ flight[f].state # "none"
  BY DEF Leave, CallsFit
<1> DEFINE new == [call[c] EXCEPT !.pc = "done", !.on = Absent]
           last == flight[f].waiters = 1
           leaves(s, n, b) == [s EXCEPT !.waiters = n, !.abandoned = b]
           left == leaves(flight[f], flight[f].waiters - 1, last)
<1>1. /\ call[c] \in CallTypes /\ call \in [Callers -> CallTypes]
      /\ flights \in [Heads -> Scans \cup {Absent}] /\ flight \in [Scans -> FlightTypes]
  BY DEF CacheTypes
<1>2. new \in CallTypes /\ call' = [call EXCEPT ![c] = new] /\ new.on = Absent /\ new.pc = "done" /\ new.since = call[c].since
      /\ new.moved = call[c].moved /\ new.answer = call[c].answer
  BY <1>0, <1>1 DEF Leave, CallTypes
<1>3. UNCHANGED <<head, version, cache>>
  BY DEF Leave
<1> HIDE DEF new
<1>4. call'[c] = new /\ (\A d \in Callers \ {c} : call'[d] = call[d])
  BY <1>1, <1>2
<1>5. c \in WaitersOf(f) /\ WaitersOf(f)' = WaitersOf(f) \ {c}
  BY <1>0, <1>2, <1>4 DEF WaitersOf
<1>6. \A g : g # f => WaitersOf(g)' = WaitersOf(g)
  BY <1>0, <1>2, <1>4 DEF WaitersOf
<1>7. ASSUME flight' \in [Scans -> FlightTypes], flights' \in [Heads -> Scans \cup {Absent}],
             \A g \in Scans : flight'[g].read = flight[g].read /\ flight'[g].state = flight[g].state,
             \A h \in Heads : flights'[h] \in {flights[h], Absent},
             \A h \in Heads : flights'[h] # Absent => FlightFits(h)'
      PROVE  CacheInv'
  <2>1. CacheTypes'
    BY <1>1, <1>2, <1>3, <1>7 DEF CacheTypes
  <2>2. CallsFit'
    BY <1>2, <1>3, <1>4, <1>7 DEF CallsFit, Asking
  <2>3. ASSUME NEW d \in Refreshes PROVE Fresh(d)'
    <3>1. d \in Callers /\ Fresh(d) /\ (Asking(d) => call[d].key \in Heads)
          /\ (call[d].pc = "wait" => call[d].on \in Scans)
      BY DEF Callers, RefreshesFresh, CallsFit
    <3>2. call'[d].since = call[d].since
      BY <1>2, <1>4, <3>1
    <3>3. \A g \in Scans : ReadSince(g, d) => ReadSince(g, d)'
      BY <1>7, <3>2 DEF ReadSince
    <3>4. CASE d = c
      <4>1. call'[c].answer = Absent /\ call'[c].pc = "done"
        BY <1>0, <1>2, <1>4 DEF CallsFit
      <4> QED
        BY <3>4, <4>1 DEF Fresh, Asking
    <3>5. CASE d # c
      <4>1. call'[d] = call[d]
        BY <1>4, <3>1, <3>5
      <4>2. call[d].pc \in {"key", "ask"} /\ ~call[d].moved /\ flights'[call[d].key] # Absent => ReadSince(flights[call[d].key], d)'
        <5>1. SUFFICES ASSUME call[d].pc \in {"key", "ask"}, ~call[d].moved, flights'[call[d].key] # Absent
                       PROVE  ReadSince(flights[call[d].key], d)'
          OBVIOUS
        <5>2. PICK h \in Heads : h = call[d].key /\ h = call'[d].key
          BY <3>1, <4>1, <5>1 DEF Asking
        <5> QED
          BY <1>1, <1>7, <3>1, <3>3, <5>1, <5>2 DEF Fresh
      <4> QED
        BY <1>3, <3>1, <3>3, <4>1, <4>2 DEF Fresh, Asking
    <3> QED
      BY <3>4, <3>5
  <2> QED
    BY <1>7, <2>1, <2>2, <2>3 DEF FlightsFit, RefreshesFresh
<1>8. CASE flights[flight[f].key] = f
  <2>1. PICK k \in Heads : k = flight[f].key /\ flights[k] = f /\ FlightFits(k)
    <3>1. flight[f].key \in Heads
      BY <1>0, <1>1 DEF FlightTypes
    <3> QED
      BY <1>8, <3>1, ScansAreNumbers DEF FlightsFit
  <2>2. /\ flight' = [flight EXCEPT ![f] = left]
        /\ flights' = IF last THEN [flights EXCEPT ![k] = Absent] ELSE flights
    BY <1>0, <1>8, <2>1 DEF Leave
  <2>3. last \in BOOLEAN /\ flight[f].waiters \in Nat \ {0} /\ flight[f].waiters = Cardinality(WaitersOf(f))
        /\ flight[f].state = "scanning"
    BY <1>1, <2>1 DEF FlightFits, FlightTypes
  <2> HIDE DEF last
  <2>31. ASSUME NEW s \in FlightTypes, NEW n \in Nat, NEW b \in BOOLEAN, s.state = "scanning"
         PROVE  /\ leaves(s, n, b) \in FlightTypes /\ leaves(s, n, b).waiters = n /\ leaves(s, n, b).abandoned = b
                /\ leaves(s, n, b).read = s.read /\ leaves(s, n, b).state = s.state /\ leaves(s, n, b).key = s.key
    BY <2>31 DEF FlightTypes
  <2>4. /\ left \in FlightTypes /\ left.waiters = flight[f].waiters - 1 /\ left.abandoned = last
        /\ left.read = flight[f].read /\ left.state = flight[f].state /\ left.key = flight[f].key
    <3>1. flight[f] \in FlightTypes /\ flight[f].waiters - 1 \in Nat
      BY <1>1, <2>3
    <3>2. PICK n \in Nat : n = flight[f].waiters - 1
      BY <3>1
    <3>3. \A b \in BOOLEAN :
            /\ leaves(flight[f], n, b) \in FlightTypes /\ leaves(flight[f], n, b).waiters = n
            /\ leaves(flight[f], n, b).abandoned = b /\ leaves(flight[f], n, b).read = flight[f].read
            /\ leaves(flight[f], n, b).state = flight[f].state /\ leaves(flight[f], n, b).key = flight[f].key
      <4> HIDE DEF leaves
      <4> QED
        BY <2>3, <2>31, <3>1
    <3>4. left = leaves(flight[f], n, last)
      BY <3>2
    <3> HIDE DEF leaves, left
    <3> QED
      BY <2>3, <3>2, <3>3, <3>4
  <2>5. Cardinality(WaitersOf(f)') = flight[f].waiters - 1
    BY <1>5, <2>3, WaitersFinite, FS_RemoveElement, Zenon
  <2>6. flight'[f] = left /\ \A g \in Scans \ {f} : flight'[g] = flight[g]
    BY <1>1, <2>2
  <2> HIDE DEF left
  <2>7. ASSUME NEW h \in Heads, flights'[h] # Absent PROVE FlightFits(h)'
    <3>1. flights'[h] = flights[h] /\ FlightFits(h) /\ flights[h] \in Scans /\ (last => h # k)
      BY <1>1, <2>2, <2>7 DEF FlightsFit
    <3>2. CASE flights[h] = f
      <4>1. ~last
        BY <2>1, <3>1, <3>2 DEF FlightFits
      <4>2. left.waiters > 0 /\ left.waiters = Cardinality(WaitersOf(f)')
        BY <2>3, <2>4, <2>5, <4>1 DEF last
      <4> QED
        BY <2>1, <2>4, <2>6, <3>1, <3>2, <4>1, <4>2 DEF FlightFits
    <3>3. CASE flights[h] # f
      BY <1>6, <2>6, <3>1, <3>3 DEF FlightFits
    <3> QED
      BY <3>2, <3>3
  <2>8. flight' \in [Scans -> FlightTypes] /\ flights' \in [Heads -> Scans \cup {Absent}]
    BY <1>1, <2>2, <2>4
  <2>9. \A h \in Heads : flights'[h] \in {flights[h], Absent}
    BY <1>1, <2>2
  <2>10. \A g \in Scans : flight'[g].read = flight[g].read /\ flight'[g].state = flight[g].state
    BY <2>4, <2>6
  <2> QED
    BY <1>7, <2>7, <2>8, <2>9, <2>10
<1>9. CASE flights[flight[f].key] # f
  <2>1. UNCHANGED <<flight, flights>>
    BY <1>0, <1>9 DEF Leave
  <2>2. ASSUME NEW h \in Heads, flights[h] # Absent PROVE FlightFits(h)'
    <3>1. FlightFits(h) /\ flights[h] # f
      BY <1>9, <2>2 DEF FlightsFit, FlightFits
    <3> QED
      BY <1>6, <2>1, <3>1 DEF FlightFits
  <2> QED
    BY <1>1, <1>7, <2>1, <2>2
<1> QED
  BY <1>8, <1>9

(* A scan reads the code, is late, or ends. *)
LEMMA ScanKeepsCache ==
  ASSUME AnalysisCacheAssumption, CacheInv, NEW f \in Scans,
         Read(f) \/ Deadline(f) \/ \E result \in {"ok", "err", "none"} : Publish(f, result)
  PROVE  CacheInv'
<1> USE DEF CacheInv
<1>1. /\ call \in [Callers -> CallTypes] /\ cache \in [Heads -> Nat \cup {Absent}]
      /\ flights \in [Heads -> Scans \cup {Absent}] /\ flight \in [Scans -> FlightTypes] /\ version \in Nat
  BY DEF CacheTypes
<1>2. flight[f].state = "scanning" /\ call' = call /\ UNCHANGED <<head, version>>
  BY DEF Read, Deadline, Publish, Ends
<1>3. \A g : WaitersOf(g)' = WaitersOf(g)
  BY <1>2 DEF WaitersOf
<1>4. ASSUME NEW s \in FlightTypes, flight' = [flight EXCEPT ![f] = s],
             s.state # "none", s.key = flight[f].key,
             s.read = flight[f].read \/ s.read = version,
             cache' \in [Heads -> Nat \cup {Absent}], flights' \in [Heads -> Scans \cup {Absent}],
             \A h \in Heads : flights'[h] \in {flights[h], Absent},
             \A h \in Heads : cache'[h] = cache[h] \/ (cache'[h] = flight[f].read /\ flights[h] = f),
             \A h \in Heads : flights'[h] = f => s.state = "scanning" /\ s.abandoned = flight[f].abandoned
                                                /\ s.waiters = flight[f].waiters
      PROVE  CacheInv'
  <2>1. flight'[f] = s /\ \A g \in Scans \ {f} : flight'[g] = flight[g]
    BY <1>1, <1>4
  <2>2. CacheTypes'
    BY <1>1, <1>2, <1>4 DEF CacheTypes
  <2>3. CallsFit'
    BY <1>2, <1>4, <2>1 DEF CallsFit, Asking
  <2>4. ASSUME NEW h \in Heads, flights'[h] # Absent PROVE FlightFits(h)'
    <3>1. flights'[h] = flights[h] /\ FlightFits(h) /\ flights[h] \in Scans
      BY <1>1, <1>4, <2>4 DEF FlightsFit
    <3>2. CASE flights[h] = f
      BY <1>3, <1>4, <2>1, <3>1, <3>2 DEF FlightFits
    <3>3. CASE flights[h] # f
      BY <1>3, <2>1, <3>1, <3>3 DEF FlightFits
    <3> QED
      BY <3>2, <3>3
  <2>5. ASSUME NEW d \in Refreshes PROVE Fresh(d)'
    <3>1. d \in Callers /\ Fresh(d) /\ (Asking(d) => call[d].key \in Heads)
          /\ (call[d].pc = "wait" => call[d].on \in Scans) /\ call[d].since <= version
      BY DEF Callers, RefreshesFresh, CallsFit
    <3>2. \A g \in Scans : ReadSince(g, d) => ReadSince(g, d)'
      BY <1>2, <1>4, <2>1, <3>1 DEF ReadSince
    <3>3. call[d].pc \in {"key", "ask"} /\ ~call[d].moved =>
            /\ cache'[call[d].key] # Absent => cache'[call[d].key] >= call[d].since
            /\ flights'[call[d].key] # Absent => ReadSince(flights[call[d].key], d)'
      <4>1. SUFFICES ASSUME call[d].pc \in {"key", "ask"}, ~call[d].moved
                     PROVE  /\ cache'[call[d].key] # Absent => cache'[call[d].key] >= call[d].since
                            /\ flights'[call[d].key] # Absent => ReadSince(flights[call[d].key], d)'
        OBVIOUS
      <4>2. PICK h \in Heads : h = call[d].key /\ h = call'[d].key
        BY <1>2, <3>1, <4>1 DEF Asking
      <4>3. /\ cache[h] # Absent => cache[h] >= call[d].since
            /\ flights[h] # Absent => ReadSince(flights[h], d)
        BY <3>1, <4>1, <4>2 DEF Fresh
      <4>4. flights'[h] # Absent => ReadSince(flights[h], d)'
        BY <1>1, <1>4, <3>2, <4>3
      <4>5. cache'[h] # Absent => cache'[h] >= call[d].since
        BY <1>4, <4>3, ScansAreNumbers DEF ReadSince
      <4> QED
        BY <4>2, <4>4, <4>5
    <3> QED
      BY <1>2, <3>1, <3>2, <3>3 DEF Fresh, Asking
  <2> QED
    BY <2>2, <2>3, <2>4, <2>5 DEF FlightsFit, RefreshesFresh
<1>5. CASE Read(f)
  <2> DEFINE s == [flight[f] EXCEPT !.read = version]
  <2>1. s \in FlightTypes /\ flight' = [flight EXCEPT ![f] = s] /\ s.state = "scanning" /\ s.key = flight[f].key
        /\ s.read = version /\ s.abandoned = flight[f].abandoned /\ s.waiters = flight[f].waiters
    BY <1>1, <1>2, <1>5 DEF Read, FlightTypes
  <2> HIDE DEF s
  <2>2. UNCHANGED <<cache, flights>>
    BY <1>5 DEF Read
  <2>3. \A h \in Heads : /\ flights'[h] = f => s.state = "scanning" /\ s.abandoned = flight[f].abandoned
                                               /\ s.waiters = flight[f].waiters
                       /\ flights'[h] \in {flights[h], Absent} /\ cache'[h] = cache[h]
    BY <2>1, <2>2
  <2> QED
    BY <1>1, <1>4, <2>1, <2>2, <2>3
<1>6. CASE Deadline(f)
  <2> DEFINE s == [flight[f] EXCEPT !.late = TRUE]
  <2>1. s \in FlightTypes /\ flight' = [flight EXCEPT ![f] = s] /\ s.state = "scanning" /\ s.key = flight[f].key
        /\ s.read = flight[f].read /\ s.abandoned = flight[f].abandoned /\ s.waiters = flight[f].waiters
    BY <1>1, <1>2, <1>6 DEF Deadline, FlightTypes
  <2> HIDE DEF s
  <2>2. UNCHANGED <<cache, flights>>
    BY <1>6 DEF Deadline
  <2>3. \A h \in Heads : /\ flights'[h] = f => s.state = "scanning" /\ s.abandoned = flight[f].abandoned
                                               /\ s.waiters = flight[f].waiters
                       /\ flights'[h] \in {flights[h], Absent} /\ cache'[h] = cache[h]
    BY <2>1, <2>2
  <2> QED
    BY <1>1, <1>4, <2>1, <2>2, <2>3
<1>7. ASSUME NEW result \in {"ok", "err", "none"}, Publish(f, result) PROVE CacheInv'
  <2> DEFINE s == [flight[f] EXCEPT !.state = "done", !.result = result]
  <2>1. s \in FlightTypes /\ flight' = [flight EXCEPT ![f] = s] /\ s.state = "done" /\ s.key = flight[f].key
        /\ s.read = flight[f].read /\ s.abandoned = flight[f].abandoned /\ s.waiters = flight[f].waiters
    BY <1>1, <1>2, <1>7, Zenon DEF Publish, FlightTypes
  <2> HIDE DEF s
  <2>2. PICK k \in Heads : k = flight[f].key
    BY <1>1, <1>2 DEF FlightTypes
  <2>3. \A h \in Heads : flights[h] = f => h = k /\ Current(f)
    BY <2>2, ScansAreNumbers DEF FlightsFit, FlightFits, Current
  <2>4. flight[f].read \in Nat \cup {Absent}
    BY <1>1 DEF FlightTypes
  <2>5. CASE Current(f)
    <3>1. flights[k] = f /\ flights' = [flights EXCEPT ![k] = Absent]
          /\ (cache' = cache \/ cache' = [cache EXCEPT ![k] = flight[f].read])
      BY <1>7, <2>2, <2>5 DEF Publish, Current
    <3>2. flights' \in [Heads -> Scans \cup {Absent}] /\ cache' \in [Heads -> Nat \cup {Absent}]
      BY <1>1, <2>4, <3>1
    <3>3. \A h \in Heads : flights'[h] \in {flights[h], Absent} /\ flights'[h] # f
      BY <1>1, <2>3, <3>1, ScansAreNumbers
    <3>4. \A h \in Heads : cache'[h] = cache[h] \/ (cache'[h] = flight[f].read /\ flights[h] = f)
      BY <1>1, <3>1
    <3> QED
      BY <1>4, <2>1, <3>2, <3>3, <3>4
  <2>6. CASE ~Current(f)
    <3>1. UNCHANGED <<cache, flights>>
      BY <1>7, <2>6 DEF Publish
    <3>2. \A h \in Heads : /\ flights'[h] \in {flights[h], Absent} /\ flights'[h] # f
                         /\ cache'[h] = cache[h]
      BY <2>3, <2>6, <3>1
    <3> QED
      BY <1>1, <1>4, <2>1, <3>1, <3>2
  <2> QED
    BY <2>5, <2>6
<1> QED
  BY <1>5, <1>6, <1>7

LEMMA CacheStep ==
  ASSUME AnalysisCacheAssumption, CacheInv, [CacheNext]_cacheVars PROVE CacheInv'
<1>1. CASE \E h \in Heads : Change(h) \/ Expire(h)
  BY <1>1, WorldKeepsCache
<1>2. CASE \E c \in Callers : BeginCall(c) \/ TakeKey(c) \/ Hit(c) \/ Receive(c)
  BY <1>2, CallsKeepCache
<1>3. CASE \E c \in Callers : Invalidate(c) \/ Join(c) \/ Leave(c)
  BY <1>3, InvalidateKeepsCache, JoinKeepsCache, LeaveKeepsCache
<1>4. CASE \E c \in Callers, f \in Scans : Start(c, f)
  BY <1>4, StartKeepsCache
<1>5. CASE \E f \in Scans : Read(f) \/ Deadline(f) \/ \E result \in {"ok", "err", "none"} : Publish(f, result)
  BY <1>5, ScanKeepsCache
<1>6. CASE UNCHANGED cacheVars
  BY <1>6 DEF cacheVars, CacheInv, CacheTypes, CallsFit, FlightsFit, FlightFits, WaitersOf, RefreshesFresh, Fresh, ReadSince, Asking
<1> QED
  BY <1>1, <1>2, <1>3, <1>4, <1>5, <1>6 DEF CacheNext

(* ScansAreShared: what a refresh gives the user is of its own time, the scan that
   calls wait for counts them, and who goes away takes it from nobody, for every
   number of callers, commits and scans. *)
THEOREM ScansAreShared ==
  ASSUME AnalysisCacheAssumption PROVE CacheSpec => ScanIsShared
<1> DEFINE Kept(f) ==
      ~flight[f].abandoned /\ flight'[f].abandoned =>
       \/ \A c \in Callers : call'[c].pc = "wait" => call'[c].on # f
       \/ \E u \in Refreshes : call[u].pc = "invalidate" /\ call'[u].pc # "invalidate" /\ call[u].key = flight[f].key
<1>1. ASSUME CacheInv, [CacheNext]_cacheVars, NEW f \in Scans, ~flight[f].abandoned, flight'[f].abandoned PROVE Kept(f)
  <2> USE DEF CacheInv
  <2>0. /\ call \in [Callers -> CallTypes] /\ flight \in [Scans -> FlightTypes]
        /\ flights \in [Heads -> Scans \cup {Absent}] /\ flight[f] \in FlightTypes
    BY <1>1 DEF CacheTypes
  <2>1. ASSUME NEW c \in Callers, Invalidate(c) PROVE Kept(f)
    <3>1. call[c].key \in Heads /\ c \in Refreshes /\ call[c].pc = "invalidate" /\ call'[c].pc = "key"
      BY <1>1, <2>0, <2>1 DEF Invalidate, CallsFit, Asking, CallTypes
    <3>2. flights[call[c].key] = f
      BY <1>1, <2>0, <2>1 DEF Invalidate
    <3>3. flight[f].key = call[c].key
      BY <1>1, <3>1, <3>2, ScansAreNumbers DEF FlightsFit, FlightFits
    <3> QED
      BY <3>1, <3>3
  <2>2. ASSUME NEW c \in Callers, Leave(c) PROVE Kept(f)
    <3>1. PICK g \in Scans : g = call[c].on /\ call[c].pc = "wait" /\ flights[flight[g].key] = g
                           /\ flight' = [flight EXCEPT ![g].waiters = @ - 1, ![g].abandoned = (flight[g].waiters = 1)]
                           /\ call' = [call EXCEPT ![c].pc = "done", ![c].on = Absent]
      BY <1>1, <2>2 DEF Leave, CallsFit
    <3>2. g = f /\ flight[f].waiters = 1
      BY <1>1, <2>0, <3>1 DEF FlightTypes
    <3>3. flight[f].state # "none" /\ flight[f].key \in Heads
      BY <1>1, <2>0, <3>1, <3>2 DEF CallsFit, FlightTypes
    <3>4. Cardinality(WaitersOf(f)) = 1
      BY <1>1, <3>1, <3>2, <3>3, ScansAreNumbers DEF FlightsFit, FlightFits
    <3>5. c \in WaitersOf(f)
      BY <3>1, <3>2 DEF WaitersOf
    <3>6. WaitersOf(f) = {c}
      BY <3>4, <3>5, WaitersFinite, FS_Singleton
    <3>7. ASSUME NEW d \in Callers, call'[d].pc = "wait" PROVE call'[d].on # f
      <4>1. d # c /\ call'[d] = call[d]
        BY <2>0, <3>1, <3>7 DEF CallTypes
      <4> QED
        BY <3>6, <3>7, <4>1 DEF WaitersOf
    <3> QED
      BY <3>7
  <2>3. ASSUME NEW g \in Scans, NEW s \in FlightTypes, s.abandoned = FALSE \/ s.abandoned = flight[g].abandoned,
               flight' = [flight EXCEPT ![g] = s]
        PROVE  FALSE
    BY <1>1, <2>0, <2>3
  <2>4. CASE \E c \in Callers : Join(c)
    <3>1. PICK c \in Callers : Join(c)
      BY <2>4
    <3>2. PICK g \in Scans : g = flights[call[c].key]
      BY <1>1, <2>0, <3>1 DEF Join, CallsFit, Asking
    <3> DEFINE s == [flight[g] EXCEPT !.waiters = @ + 1]
    <3>3. flight' = [flight EXCEPT ![g] = s] /\ s \in FlightTypes /\ s.abandoned = flight[g].abandoned
      BY <2>0, <3>1, <3>2 DEF Join, FlightTypes
    <3> QED
      BY <2>3, <3>3
  <2>5. CASE \E c \in Callers, g \in Scans : Start(c, g)
    <3>1. PICK c \in Callers, g \in Scans : Start(c, g)
      BY <2>5
    <3> DEFINE s == [NoFlight EXCEPT !.state = "scanning", !.key = call[c].key, !.waiters = 1]
    <3>2. flight' = [flight EXCEPT ![g] = s] /\ s \in FlightTypes /\ s.abandoned = FALSE
      BY <1>1, <3>1 DEF Start, FlightTypes, NoFlight, CallsFit, Asking
    <3> QED
      BY <2>3, <3>2
  <2>6. CASE \E g \in Scans : Read(g) \/ Deadline(g)
    <3>1. PICK g \in Scans : Read(g) \/ Deadline(g)
      BY <2>6
    <3>2. flight'[f].abandoned = flight[f].abandoned
      BY <2>0, <3>1 DEF Read, Deadline, FlightTypes
    <3> QED
      BY <1>1, <3>2
  <2>7. CASE \E g \in Scans, result \in {"ok", "err", "none"} : Publish(g, result)
    <3>1. PICK g \in Scans, result \in {"ok", "err", "none"} : Publish(g, result)
      BY <2>7
    <3>2. flight'[f].abandoned = flight[f].abandoned
      BY <2>0, <3>1 DEF Publish, FlightTypes
    <3> QED
      BY <1>1, <3>2
  <2>8. ASSUME UNCHANGED flight PROVE FALSE
    BY <1>1, <2>8
  <2>9. CASE UNCHANGED cacheVars
    BY <2>8, <2>9 DEF cacheVars
  <2>10. CASE \E h \in Heads : Change(h) \/ Expire(h)
    BY <2>8, <2>10 DEF Change, Expire
  <2>11. CASE \E c \in Callers : BeginCall(c) \/ TakeKey(c) \/ Hit(c) \/ Receive(c)
    BY <2>8, <2>11 DEF BeginCall, TakeKey, Hit, Receive
  <2> QED
    BY <1>1, <2>1, <2>2, <2>4, <2>5, <2>6, <2>7, <2>9, <2>10, <2>11 DEF CacheNext
<1>2. CacheInv /\ [CacheNext]_cacheVars => [\A f \in Scans : Kept(f)]_cacheVars
  BY <1>1
<1>3. CacheInit => CacheInv
  BY CacheStarts
<1>4. CacheInv /\ [CacheNext]_cacheVars => CacheInv'
  BY CacheStep
<1>5. CacheInv => RefreshIsFresh /\ WaitersAreCounted
  BY DEF CacheInv, RefreshesFresh, Fresh, FlightsFit, FlightFits, WaitersOf, RefreshIsFresh, WaitersAreCounted
<1> QED
  BY <1>2, <1>3, <1>4, <1>5, PTL DEF CacheSpec, ScanIsShared, LeavingKeepsScan
=============================================================================
