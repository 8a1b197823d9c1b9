---------------------------- MODULE OpenCodeSettings ----------------------------
(***************************************************************************)
(* What a deployment writes into the settings of OpenCode, which merges    *)
(* three files of a directory: the entries of a bot are gathered into the  *)
(* file that counts most, so that no older entry comes back.               *)
(***************************************************************************)
EXTENDS Naturals, Sequences, SequencesExt

CONSTANTS
  Keys,        \* entries of the bot: their names have its prefix
  Foreign,     \* entries of the user
  Creds,       \* credentials in an entry
  MaxOps, MaxEdits,
  Broken,      \* a file that is no JSON
  None

OpenCodeAssumption == Keys \cap Foreign = {} /\ MaxOps \in Nat /\ MaxEdits \in Nat

Files == 1..3                          \* config.json, opencode.json, opencode.jsonc
Fields == {"cred", "enabled"}
NoEntries == [k \in Keys \cup Foreign |-> None]

VARIABLES
  files,       \* None, Broken or the entries of each file
  op,          \* the operation at work, or None
  gone,        \* the bot was uninstalled and neither deployed nor edited since
  ops, edits

vars == <<files, op, gone, ops, edits>>

Init ==
  /\ files \in [Files -> {None, NoEntries}] /\ op = None /\ gone = FALSE
  /\ ops = 0 /\ edits = 0

-----------------------------------------------------------------------------
(* Mutant of Deep: the later file's entry alone. *)
Later(old, next) == IF next = None THEN old ELSE next

(* mergeOpenCodeValue: field by field. *)
Deep(old, next) ==
  IF old = None THEN next ELSE IF next = None THEN old
  ELSE [f \in Fields |-> IF next[f] # None THEN next[f] ELSE old[f]]

Readable(f) == files[f] # Broken
EntryIn(fs, f, k) == IF fs[f] \in {None, Broken} THEN None ELSE fs[f][k]

(* The entry that OpenCode sees. *)
Merged(fs, k) ==
  LET over(a, b) == IF a = None THEN b ELSE IF b = None THEN a
                    ELSE [f \in Fields |-> IF b[f] # None THEN b[f] ELSE a[f]]
  IN over(over(EntryIn(fs, 1, k), EntryIn(fs, 2, k)), EntryIn(fs, 3, k))

(* MCPConfigPath: the commented file if there is one. *)
Target == IF files[3] # None THEN 3 ELSE 2

(* updateOpenCodeMCP: the bot's entries of one file become these; the others,
   and a file that is not there, stay. *)
Updated(f, entries) ==
  IF files[f] = None
  THEN IF \A k \in Keys : entries[k] = None THEN None ELSE entries
  ELSE [k \in Keys \cup Foreign |-> IF k \in Keys THEN entries[k] ELSE files[f][k]]

(* mergeOpenCodeMCP: what earlier deployments and the user left of the bot. *)
Previous == [k \in Keys \cup Foreign |->
               IF k \in Keys THEN Deep(Deep(EntryIn(files, 1, k), EntryIn(files, 2, k)), EntryIn(files, 3, k)) ELSE None]

(* Mutant of Wanted: a deployment without credentials writes what it has. *)
ServersOnly(servers, fresh) == servers
Wanted(servers, fresh) ==
  [k \in Keys \cup Foreign |-> IF ~fresh /\ Previous[k] # None THEN Previous[k] ELSE servers[k]]

(* Mutants of Steps: clean the other files first; write one file. *)
OnlyTarget(t) == <<t>>
CleanFirst(t) == SetToSeq(Files \ {t}) \o <<t>>
Steps(t) == <<t>> \o SetToSeq(Files \ {t})

(* A deployment has credentials (fresh) or leaves alone what is there; a server
   without credentials has none in its entry. *)
Deploy(fresh, served, cred) ==
  LET servers == [k \in Keys \cup Foreign |-> IF k \in served THEN [cred |-> cred, enabled |-> "yes"] ELSE None]
  IN
  /\ op = None /\ ops < MaxOps /\ (fresh <=> cred # None)
  /\ \A f \in Files : Readable(f)
  /\ op' = [kind |-> "deploy", fresh |-> fresh, servers |-> Wanted(servers, fresh), target |-> Target,
            todo |-> Steps(Target), before |-> [k \in Keys |-> Merged(files, k)], edited |-> FALSE]
  /\ gone' = FALSE /\ ops' = ops + 1
  /\ UNCHANGED <<files, edits>>

(* cleanIDEMCPServers *)
Uninstall ==
  /\ op = None /\ ops < MaxOps /\ \A f \in Files : Readable(f)
  /\ op' = [kind |-> "uninstall", fresh |-> TRUE, servers |-> NoEntries, target |-> Target,
            todo |-> Steps(Target), before |-> [k \in Keys |-> None], edited |-> FALSE]
  /\ ops' = ops + 1
  /\ UNCHANGED <<files, gone, edits>>

(* One file, through a temporary file and a rename. *)
WriteFile ==
  /\ op # None /\ op.todo # <<>>
  /\ LET f == Head(op.todo) IN
     IF Readable(f)
     THEN /\ files' = [files EXCEPT ![f] = Updated(f, IF f = op.target THEN op.servers ELSE NoEntries)]
          /\ op' = [op EXCEPT !.todo = Tail(@)]
     ELSE op' = None /\ UNCHANGED files
  /\ UNCHANGED <<gone, ops, edits>>

(* The probe of the new entries may fail: the settings stay. *)
End ==
  /\ op # None /\ op.todo = <<>>
  /\ op' = None /\ gone' = (op.kind = "uninstall" /\ ~op.edited)
  /\ UNCHANGED <<files, ops, edits>>

(* The program ends in the middle. *)
Crash ==
  /\ op # None
  /\ op' = None
  /\ UNCHANGED <<files, gone, ops, edits>>

(* The user switches an entry off in one of the files, adds an entry, starts a
   file or breaks one. *)
Edited(f, content) ==
  /\ edits < MaxEdits /\ files[f] # content
  /\ files' = [files EXCEPT ![f] = content]
  /\ op' = IF op = None THEN None ELSE [op EXCEPT !.edited = TRUE]
  /\ gone' = FALSE /\ edits' = edits + 1
  /\ UNCHANGED <<ops>>
SwitchOff(f, k) ==
  /\ files[f] # Broken
  /\ Edited(f, [(IF files[f] = None THEN NoEntries ELSE files[f]) EXCEPT ![k] = Deep(@, [cred |-> None, enabled |-> "no"])])
AddOwn(f, k) ==
  /\ k \in Foreign /\ files[f] # Broken
  /\ Edited(f, [(IF files[f] = None THEN NoEntries ELSE files[f]) EXCEPT ![k] = [cred |-> None, enabled |-> "yes"]])
Break(f) == files[f] # None /\ Edited(f, Broken)

Next ==
  \/ \E fresh \in BOOLEAN, served \in SUBSET Keys, cred \in Creds \cup {None} : Deploy(fresh, served, cred)
  \/ Uninstall \/ WriteFile \/ End \/ Crash
  \/ \E f \in Files, k \in Keys \cup Foreign : SwitchOff(f, k) \/ AddOwn(f, k)
  \/ \E f \in Files : Break(f)

Spec == Init /\ [][Next]_vars
-----------------------------------------------------------------------------
(* EntriesNeverVanish: the credential that OpenCode sees of an entry goes away
   only by the user, in an uninstallation, or in a deployment with credentials:
   not in the middle of an update, whenever it is interrupted. *)
EntriesNeverVanish ==
  [][\A k \in Keys :
       /\ Merged(files, k) # None /\ Merged(files, k).cred # None
       /\ op # None /\ ~op.fresh /\ ~op.edited /\ edits' = edits
       => Merged(files', k) # None /\ Merged(files', k).cred # None]_vars

(* SettingsAreKept: after an update without credentials the bot's entries mean what
   they meant: an entry that the user switched off in one file keeps its
   credential from another, and stays off. *)
SettingsAreKept ==
  op # None /\ op.todo = <<>> /\ op.kind = "deploy" /\ ~op.fresh /\ ~op.edited =>
    \A k \in Keys : op.before[k] # None => Merged(files, k) = op.before[k]

(* NothingReappears: after an uninstallation no file has an entry of the bot left
   that a change of another file could bring back. *)
NothingReappears == gone => \A f \in Files, k \in Keys : EntryIn(files, f, k) = None
=============================================================================
