------------------------- MODULE IncrementalExport --------------------------
(***************************************************************************)
(* One export after the other, as the service and its export subcommand    *)
(* run them, and the files that carry the progress from one to the next:   *)
(*                                                                         *)
(*   exporter/state_dir.go   the backup of the progress, and its restore   *)
(*   exporter/exporter.go    backup, cleanup, subcommand, upload           *)
(*   cmdexport/export.go     the sessions and the saving of the progress   *)
(*   cmdexport/git.go        the git repos, each with a ripsrc checkpoint  *)
(*   expsessions             sessions and the store of sent objects        *)
(*   cmdwebhook              the webhook subcommand, run beside exports    *)
(*                                                                         *)
(* The objects of a key (a model of an integration, or the commits of a    *)
(* git repo) are numbered in the order in which they were created.  What   *)
(* last_processed.json and a checkpoint hold is such a number.             *)
(***************************************************************************)
EXTENDS Naturals

CONSTANTS
    Keys,         \* what has a position in last_processed.json
    Repos,        \* the keys that are git repos and have a checkpoint, too
    Hooked,       \* the repos whose webhooks are received
    DedupEnabled, \* PP_AGENT_DISABLE_DEDUP is not set
    TornCopies,   \* a kill may hit the copying of a file
    MaxVersion,   \* bound: objects created per key
    MaxFaults,    \* bound: kills of exports, failing sessions, repos, uploads
    MaxHookFaults,\* bound: failing webhooks
    NoBackup, NoRun, NoHook, Damaged

ASSUME KeysAssumption == Hooked \subseteq Repos /\ Repos \subseteq Keys
ASSUME BoundsAssumption ==
    MaxVersion \in Nat /\ MaxFaults \in Nat /\ MaxHookFaults \in Nat
ASSUME SwitchAssumption == DedupEnabled \in BOOLEAN /\ TornCopies \in BOOLEAN

VARIABLES
    src,      \* the objects that exist in the source systems, by key
    \* files in the state directory
    lp,       \* last_processed.json, or Damaged
    cp,       \* ripsrc_checkpoints
    backup,   \* the backup directory with a copy of both
    dedup,    \* dedup_v2.json
    uploads,  \* the objects in finished files of the uploads directory
    temp,     \* whether it has *.temp.gz files
    \* memory
    pc,       \* where the export is, over service and subcommand
    run,      \* memory of the export subcommand
    hook,     \* memory of the webhook subcommand
    \* the backend, and the counter of the bound
    uploaded, \* the objects it received
    faults

files == <<lp, cp, backup, dedup, uploads, temp>>
vars == <<src, files, pc, run, hook, uploaded, faults>>

Object == Keys \X (1..MaxVersion)

\* Positions of keys; a missing last_processed.json is one without positions.
Positions == [Keys -> 0..MaxVersion]
NoPositions == [k \in Keys |-> 0]
Checkpoints == [Repos -> 0..MaxVersion]
NoCheckpoints == [r \in Repos |-> 0]

\* What the backup directory holds, and the memory of the two subcommands.
Backups == [lp : Positions \cup {Damaged}, cp : Checkpoints]
Runs == [lp : Positions, sent : SUBSET Object, todo : SUBSET Keys]
Hooks == [repo : Hooked, at : {"started", "exported", "saved"},
          lp : Positions, data : SUBSET Object]

ASSUME NullsAssumption ==
    /\ Damaged \notin Positions /\ NoBackup \notin Backups
    /\ NoRun \notin Runs /\ NoHook \notin Hooks

\* The objects that positions say were exported.
UpTo(pos) == {o \in Object : o[1] \in DOMAIN pos /\ o[2] <= pos[o[1]]}

\* The objects of a key after a position.
Since(k, n) == {o \in Object : o[1] = k /\ n < o[2] /\ o[2] <= src[k]}

Fault ==
    faults.export < MaxFaults /\ faults' = [faults EXCEPT !.export = @ + 1]
HookFault ==
    faults.hook < MaxHookFaults /\ faults' = [faults EXCEPT !.hook = @ + 1]

-----------------------------------------------------------------------------
Init ==
    /\ src = NoPositions
    /\ lp = NoPositions /\ cp = NoCheckpoints /\ backup = NoBackup
    /\ dedup = {} /\ uploads = {} /\ temp = FALSE
    /\ pc = "idle" /\ run = NoRun /\ hook = NoHook
    /\ uploaded = {} /\ faults = [export |-> 0, hook |-> 0]

\* The source systems create objects at any time.
Create(k) ==
    /\ src[k] < MaxVersion
    /\ src' = [src EXCEPT ![k] = @ + 1]
    /\ UNCHANGED <<files, pc, run, hook, uploaded, faults>>

-----------------------------------------------------------------------------
(* The service: backupRestoreStateDir and the cleanup of uploads.          *)

\* A bug to catch: the backup is not taken.
MakeBackup_Never ==
    /\ pc = "idle"
    /\ backup = NoBackup
    /\ pc' = "cleanup"
    /\ UNCHANGED <<src, files, run, hook, uploaded, faults>>

\* No backup directory: the last export was finished, its state is copied.
MakeBackup ==
    /\ pc = "idle"
    /\ backup = NoBackup
    /\ backup' = [lp |-> NoPositions, cp |-> NoCheckpoints]
    /\ pc' = "backupLp"
    /\ UNCHANGED <<src, lp, cp, dedup, uploads, temp, run, hook, uploaded,
                   faults>>

BackupLp ==
    /\ pc = "backupLp"
    /\ backup' = [backup EXCEPT !.lp = lp]
    /\ pc' = "backupCp"
    /\ UNCHANGED <<src, lp, cp, dedup, uploads, temp, run, hook, uploaded,
                   faults>>

BackupCp ==
    /\ pc = "backupCp"
    /\ backup' = [backup EXCEPT !.cp = cp]
    /\ pc' = "cleanup"
    /\ UNCHANGED <<src, lp, cp, dedup, uploads, temp, run, hook, uploaded,
                   faults>>

\* A backup directory is left: the last export did not get to its end.  The
\* removal and the copy are one step: the backup stays, and is copied again.
RestoreLp ==
    /\ pc = "idle"
    /\ backup # NoBackup
    /\ lp' = backup.lp
    /\ pc' = "restoreCp"
    /\ UNCHANGED <<src, cp, backup, dedup, uploads, temp, run, hook, uploaded,
                   faults>>

\* A bug to catch: the checkpoints are not restored.
RestoreCp_Forgotten ==
    /\ pc = "restoreCp"
    /\ pc' = "cleanup"
    /\ UNCHANGED <<src, files, run, hook, uploaded, faults>>

RestoreCp ==
    /\ pc = "restoreCp"
    /\ cp' = backup.cp
    /\ pc' = "cleanup"
    /\ UNCHANGED <<src, lp, backup, dedup, uploads, temp, run, hook, uploaded,
                   faults>>

\* A bug to catch: unfinished files of the last attempt are kept.
Cleanup_KeepsTemp ==
    /\ pc = "cleanup"
    /\ uploads' = {}
    /\ pc' = "load"
    /\ UNCHANGED <<src, lp, cp, backup, dedup, temp, run, hook, uploaded,
                   faults>>

Cleanup ==
    /\ pc = "cleanup"
    /\ uploads' = {} /\ temp' = FALSE
    /\ pc' = "load"
    /\ UNCHANGED <<src, lp, cp, backup, dedup, run, hook, uploaded, faults>>

-----------------------------------------------------------------------------
(* The export subcommand.                                                  *)

\* With --reprocess-historical the progress is discarded first, but not the
\* store of sent objects.  Otherwise a damaged file fails the export.
Load(reprocess) ==
    LET start == IF reprocess THEN NoPositions ELSE lp IN
    /\ pc = "load"
    /\ lp' = start
    /\ cp' = IF reprocess THEN NoCheckpoints ELSE cp
    /\ IF start = Damaged
       THEN pc' = "idle" /\ run' = NoRun
       ELSE pc' = "run" /\ run' = [lp |-> start, sent |-> dedup, todo |-> Keys]
    /\ UNCHANGED <<src, backup, dedup, uploads, temp, hook, uploaded, faults>>

\* What WriterDedup lets through, and the memory after a key was dealt with.
Unsent(objs) == IF DedupEnabled THEN objs \ run.sent ELSE objs

After(positions, written, finished) ==
    [lp |-> positions,
     sent |-> IF DedupEnabled THEN run.sent \cup written ELSE run.sent,
     todo |-> run.todo \ finished]

\* A session of an integration sends what is new and is done: its file is
\* renamed into place and its position moves, in memory.
SessionDone(k) ==
    LET new == Since(k, run.lp[k]) IN
    /\ pc = "run"
    /\ k \in run.todo \ Repos
    /\ uploads' = uploads \cup Unsent(new)
    /\ run' = After([run.lp EXCEPT ![k] = src[k]], new, {k})
    /\ UNCHANGED <<src, lp, cp, backup, dedup, temp, pc, hook, uploaded,
                   faults>>

\* A session that had sent some objects is rolled back, or the integration
\* fails and its session is never closed: the temporary file stays.
SessionFails(k, written) ==
    /\ pc = "run"
    /\ k \in run.todo \ Repos
    /\ written \subseteq Since(k, run.lp[k])
    /\ temp' \in {temp, temp \/ Unsent(written) # {}}
    /\ run' = After(run.lp, written, {k})
    /\ Fault
    /\ UNCHANGED <<src, lp, cp, backup, dedup, uploads, pc, hook, uploaded>>

\* skipRipsrc: the branches are as last time.
RepoSkipped(r) ==
    /\ pc = "run"
    /\ r \in run.todo \cap Repos
    /\ run.lp[r] = src[r]
    /\ run' = After(run.lp, {}, {r})
    /\ UNCHANGED <<src, files, pc, hook, uploaded, faults>>

\* The commits after the checkpoint are sent.  The new checkpoint is on disk
\* at once, the position of the repo only when the export saves it.
RepoDone(r) ==
    LET new == Since(r, cp[r]) IN
    /\ pc = "run"
    /\ r \in run.todo \cap Repos
    /\ run.lp[r] # src[r]
    /\ uploads' = uploads \cup Unsent(new)
    /\ cp' = [cp EXCEPT ![r] = src[r]]
    /\ run' = After([run.lp EXCEPT ![r] = src[r]], new, {r})
    /\ UNCHANGED <<src, lp, backup, dedup, temp, pc, hook, uploaded, faults>>

\* A failing repo closes its sessions, so that what it sent is uploaded.
RepoFails(r, written) ==
    /\ pc = "run"
    /\ r \in run.todo \cap Repos
    /\ run.lp[r] # src[r]
    /\ written \subseteq Since(r, cp[r])
    /\ uploads' = uploads \cup Unsent(written)
    /\ run' = After(run.lp, written, {r})
    /\ Fault
    /\ UNCHANGED <<src, lp, cp, backup, dedup, temp, pc, hook, uploaded>>

\* When closing the sessions of a repo fails, after it was exported or not,
\* git processing ends for all repos.  The error is lost (git.go:128 returns
\* the wrong variable) and the export goes on, with temporary files.
RepoSessionFails(r, written) ==
    /\ pc = "run"
    /\ r \in run.todo \cap Repos
    /\ run.lp[r] # src[r]
    /\ written \subseteq Since(r, cp[r])
    /\ \/ cp' = cp /\ run' = After(run.lp, written, Repos)
       \/ /\ written = Since(r, cp[r])
          /\ cp' = [cp EXCEPT ![r] = src[r]]
          /\ run' = After([run.lp EXCEPT ![r] = src[r]], written, Repos)
    /\ uploads' \in {uploads, uploads \cup Unsent(written)}
    /\ Unsent(written) # {} /\ temp' = TRUE
    /\ Fault
    /\ UNCHANGED <<src, lp, backup, dedup, pc, hook, uploaded>>

SaveLp ==
    /\ pc = "run"
    /\ run.todo = {}
    /\ lp' = run.lp
    /\ pc' = "saveDedup"
    /\ UNCHANGED <<src, cp, backup, dedup, uploads, temp, run, hook, uploaded,
                   faults>>

SaveDedup ==
    /\ pc = "saveDedup"
    /\ dedup' = run.sent
    /\ run' = NoRun
    /\ pc' = "check"
    /\ UNCHANGED <<src, lp, cp, backup, uploads, temp, hook, uploaded, faults>>

\* Temporary files that are left fail the export, after its saves.
CheckTemp ==
    /\ pc = "check"
    /\ pc' = IF temp THEN "idle" ELSE "upload"
    /\ UNCHANGED <<src, files, run, hook, uploaded, faults>>

-----------------------------------------------------------------------------
(* The service: upload and the end of the export.                          *)

Upload ==
    /\ pc = "upload"
    /\ uploaded' = uploaded \cup uploads
    /\ pc' = "deleteBackup"
    /\ UNCHANGED <<src, files, run, hook, faults>>

\* The upload fails before or after the backend has the data.
UploadFails ==
    /\ pc = "upload"
    /\ uploaded' \in {uploaded, uploaded \cup uploads}
    /\ pc' = "idle"
    /\ Fault
    /\ UNCHANGED <<src, files, run, hook>>

DeleteBackup ==
    /\ pc = "deleteBackup"
    /\ backup' = NoBackup
    /\ pc' = "idle"
    /\ UNCHANGED <<src, lp, cp, dedup, uploads, temp, run, hook, uploaded,
                   faults>>

\* The export is killed, is cancelled, panics, or a step of it fails: memory
\* is gone, nothing is tidied up.  A kill can hit a copy or a removal half
\* way.
Interrupt ==
    /\ pc # "idle"
    /\ pc' = "idle"
    /\ run' = NoRun
    /\ \/ UNCHANGED backup
       \/ /\ TornCopies
          /\ pc = "backupLp"
          /\ backup' = [backup EXCEPT !.lp = Damaged]
       \/ /\ pc = "deleteBackup"
          /\ backup' \in [lp : {backup.lp, NoPositions},
                          cp : {backup.cp, NoCheckpoints}]
    /\ Fault
    /\ UNCHANGED <<src, lp, cp, dedup, uploads, temp, hook, uploaded>>

-----------------------------------------------------------------------------
(* The webhook subcommand: it sends the commits of one repo in its answer. *)

HookStart(r) ==
    /\ hook = NoHook
    /\ lp # Damaged
    /\ hook' = [repo |-> r, at |-> "started", lp |-> lp, data |-> {}]
    /\ UNCHANGED <<src, files, pc, run, uploaded, faults>>

\* A bug to catch: every key is taken for processed.
HookExportsRepo_AllKeys ==
    LET r == hook.repo IN
    /\ hook # NoHook
    /\ hook.at = "started"
    /\ hook' = [hook EXCEPT !.at = "exported", !.lp = src,
                            !.data = Since(r, cp[r])]
    /\ cp' = [cp EXCEPT ![r] = src[r]]
    /\ UNCHANGED <<src, lp, backup, dedup, uploads, temp, pc, run, uploaded,
                   faults>>

HookExportsRepo ==
    LET r == hook.repo
        skip == hook.lp[r] = src[r]
    IN  /\ hook # NoHook
        /\ hook.at = "started"
        /\ hook' = [hook EXCEPT !.at = "exported", !.lp[r] = src[r],
                                !.data = IF skip THEN {} ELSE Since(r, cp[r])]
        /\ cp' = IF skip THEN cp ELSE [cp EXCEPT ![r] = src[r]]
        /\ UNCHANGED <<src, lp, backup, dedup, uploads, temp, pc, run,
                       uploaded, faults>>

\* The whole map is saved, as it was when the subcommand started.
HookSaves ==
    /\ hook # NoHook
    /\ hook.at = "exported"
    /\ lp' = hook.lp
    /\ hook' = [hook EXCEPT !.at = "saved"]
    /\ UNCHANGED <<src, cp, backup, dedup, uploads, temp, pc, run, uploaded,
                   faults>>

HookAnswers ==
    /\ hook # NoHook
    /\ hook.at = "saved"
    /\ uploaded' = uploaded \cup hook.data
    /\ hook' = NoHook
    /\ UNCHANGED <<src, files, pc, run, faults>>

HookFails ==
    /\ hook # NoHook
    /\ hook' = NoHook
    /\ HookFault
    /\ UNCHANGED <<src, files, pc, run, uploaded>>

-----------------------------------------------------------------------------
ServiceStep ==
    \/ MakeBackup \/ BackupLp \/ BackupCp
    \/ RestoreLp \/ RestoreCp \/ Cleanup
    \/ Upload \/ DeleteBackup

ExportStep ==
    \/ Load(FALSE)
    \/ \E k \in Keys : SessionDone(k) \/ RepoSkipped(k) \/ RepoDone(k)
    \/ SaveLp \/ SaveDedup \/ CheckTemp

ExportFault ==
    \/ \E k \in Keys : \E written \in SUBSET Object :
          \/ SessionFails(k, written)
          \/ RepoFails(k, written)
          \/ RepoSessionFails(k, written)
    \/ UploadFails
    \/ Interrupt

HookStep == HookExportsRepo \/ HookSaves \/ HookAnswers

Next ==
    \/ \E k \in Keys : Create(k)
    \/ ServiceStep
    \/ ExportStep
    \/ Load(TRUE)
    \/ ExportFault
    \/ \E r \in Hooked : HookStart(r)
    \/ HookStep
    \/ HookFails

Spec == Init /\ [][Next]_vars

\* The backend keeps requesting exports, and an export or a webhook that no
\* fault hits gets to its end.  Nothing is assumed of --reprocess-historical.
FairSpec == Spec /\ WF_vars(ServiceStep \/ ExportStep) /\ WF_vars(HookStep)

-----------------------------------------------------------------------------
(* Properties                                                              *)

\* Every variable keeps to its type, the memory of the export exists only
\* while its subcommand runs, and no export is under way without a backup.
TypeOK ==
    /\ src \in Positions
    /\ lp \in Positions \cup {Damaged} /\ cp \in Checkpoints
    /\ backup \in Backups \/ (pc = "idle" /\ backup = NoBackup)
    /\ dedup \subseteq Object /\ uploads \subseteq Object
    /\ temp \in BOOLEAN /\ uploaded \subseteq Object
    /\ pc \in {"idle", "backupLp", "backupCp", "restoreCp", "cleanup", "load",
               "run", "saveDedup", "check", "upload", "deleteBackup"}
    /\ IF pc \in {"run", "saveDedup"} THEN run \in Runs ELSE run = NoRun
    /\ hook \in Hooks \cup {NoHook}
    /\ faults \in [export : Nat, hook : Nat]

\* The positions that the next export starts from.
ResumedLp == IF backup = NoBackup THEN lp ELSE backup.lp
ResumedCp == IF backup = NoBackup THEN cp ELSE backup.cp

\* What webhooks do not touch.
Others(objs) == {o \in objs : o[1] \notin Hooked}

\* The objects below both positions of every other key are among the given ones.
Covered(positions, checkpoints, objs) ==
    /\ positions # Damaged => Others(UpTo(positions)) \subseteq objs
    /\ Others(UpTo(checkpoints)) \subseteq objs

\* The next export never skips an object that the backend has not received, of a key
\* without webhooks: whatever failed, the state it starts from covers delivered objects
\* only (state_dir.go, and the order of saves and upload in export.go and exporter.go).
NothingSkipped == Covered(ResumedLp, ResumedCp, uploaded)

\* But for webhooks, the progress files change only while a backup of them is kept, until
\* the backend has what they say (exporter.go:217-281).
ChangedUnderBackup ==
    [][(lp' # lp \/ cp' # cp) /\ hook' = hook => backup # NoBackup]_vars

\* Every object is delivered in the end.
EverythingDelivered ==
    \A o \in Object : o[2] <= src[o[1]] ~> o \in uploaded

\* Webhooks that fail, or save the positions of other keys as they were,
\* delay the delivery of other keys, but do not prevent it.
OthersDelivered ==
    \A o \in Object :
        o[1] \notin Hooked => (o[2] <= src[o[1]] ~> o \in uploaded)
=============================================================================
