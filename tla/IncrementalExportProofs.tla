----------------------- MODULE IncrementalExportProofs ----------------------
(***************************************************************************)
(* What holds of IncrementalExport for every set of keys and repos, every  *)
(* number of objects and every number of faults.                           *)
(***************************************************************************)
EXTENDS IncrementalExport, TLAPS

-----------------------------------------------------------------------------
(* Positions and the objects below them.                                   *)

\* The objects below new positions are those below the old ones and those
\* that were sent for the key that moved.
LEMMA MovePosition ==
    ASSUME NEW D \in SUBSET Keys, NEW pos \in [D -> 0..MaxVersion],
           NEW k \in D, src \in Positions
    PROVE  /\ [pos EXCEPT ![k] = src[k]] \in [D -> 0..MaxVersion]
           /\ UpTo([pos EXCEPT ![k] = src[k]])
                \subseteq UpTo(pos) \cup Since(k, pos[k])
BY BoundsAssumption DEF UpTo, Since, Positions, Object

\* Nothing is below the positions of a first export.
LEMMA NothingBelow ==
    /\ NoPositions \in Positions /\ UpTo(NoPositions) = {}
    /\ NoCheckpoints \in Checkpoints /\ UpTo(NoCheckpoints) = {}
BY BoundsAssumption, KeysAssumption
DEF UpTo, NoPositions, NoCheckpoints, Object, Positions, Checkpoints

-----------------------------------------------------------------------------
(* Type correctness                                                        *)

\* The memory of the export keeps to its type whatever it deals with.
LEMMA AfterType ==
    ASSUME run \in Runs, NEW positions \in Positions,
           NEW written \in SUBSET Object, NEW finished
    PROVE  After(positions, written, finished) \in Runs
BY DEF After, Runs

\* The service's steps, and the start of the export, keep the types.
LEMMA ServiceType ==
    ASSUME TypeOK, ServiceStep \/ \E b \in BOOLEAN : Load(b)
    PROVE  TypeOK'
<1> USE BoundsAssumption, KeysAssumption, NullsAssumption, NothingBelow
        DEF TypeOK, files
<1>1. CASE MakeBackup
  <2>1. [lp |-> NoPositions, cp |-> NoCheckpoints] \in Backups
    BY DEF Backups
  <2>2. backup' \in Backups
    BY <1>1, <2>1 DEF MakeBackup
  <2>3. /\ pc' = "backupLp" /\ run = NoRun
        /\ UNCHANGED <<src, lp, cp, dedup, uploads, temp, run, hook, uploaded,
                       faults>>
    BY <1>1 DEF MakeBackup
  <2>4. QED
    BY <2>2, <2>3
<1>2. CASE BackupLp
  BY <1>2 DEF BackupLp, Backups
<1>3. CASE BackupCp
  BY <1>3 DEF BackupCp, Backups
<1>4. CASE RestoreLp
  BY <1>4 DEF RestoreLp, Backups
<1>5. CASE RestoreCp
  BY <1>5 DEF RestoreCp, Backups
<1>6. CASE Cleanup
  BY <1>6 DEF Cleanup
<1>7. CASE Upload
  BY <1>7 DEF Upload
<1>8. CASE DeleteBackup
  BY <1>8 DEF DeleteBackup
<1>9. ASSUME NEW b \in BOOLEAN, Load(b) PROVE TypeOK'
  BY <1>9 DEF Load, Runs
<1>10. QED
  BY <1>1, <1>2, <1>3, <1>4, <1>5, <1>6, <1>7, <1>8, <1>9 DEF ServiceStep

\* The steps of the export subcommand on its keys keep the types.
LEMMA KeyType ==
    ASSUME TypeOK, NEW k \in Keys, NEW written \in SUBSET Object,
           \/ SessionDone(k) \/ RepoSkipped(k) \/ RepoDone(k)
           \/ SessionFails(k, written) \/ RepoFails(k, written)
           \/ RepoSessionFails(k, written)
    PROVE  TypeOK'
<1> USE KeysAssumption DEF TypeOK, files
<1>1. /\ run \in Runs /\ pc = "run" /\ pc' = "run"
      /\ UNCHANGED <<src, lp, backup, dedup, hook, uploaded>>
  BY DEF SessionDone, RepoSkipped, RepoDone, SessionFails, RepoFails,
         RepoSessionFails, Runs
<1>2. src[k] \in 0..MaxVersion /\ run.lp \in Positions
  BY <1>1 DEF Positions, Runs
<1>3. [run.lp EXCEPT ![k] = src[k]] \in Positions
  BY <1>2 DEF Positions
<1>4. k \in Repos => [cp EXCEPT ![k] = src[k]] \in Checkpoints
  BY <1>2 DEF Checkpoints
<1>5. /\ \A n : Since(k, n) \in SUBSET Object
      /\ \A objs \in SUBSET Object : Unsent(objs) \in SUBSET Object
  BY DEF Since, Unsent
<1>6. run' \in Runs
  BY <1>1, <1>2, <1>3, <1>5, AfterType
  DEF SessionDone, RepoSkipped, RepoDone, SessionFails, RepoFails,
      RepoSessionFails
<1>7. cp' \in Checkpoints
  BY <1>4
  DEF SessionDone, RepoSkipped, RepoDone, SessionFails, RepoFails,
      RepoSessionFails
<1>8. uploads' \subseteq Object
  BY <1>5
  DEF SessionDone, RepoSkipped, RepoDone, SessionFails, RepoFails,
      RepoSessionFails
<1>9. temp' \in BOOLEAN
  BY DEF SessionDone, RepoSkipped, RepoDone, SessionFails, RepoFails,
         RepoSessionFails
<1>10. faults' \in [export : Nat, hook : Nat]
  BY DEF SessionDone, RepoSkipped, RepoDone, SessionFails, RepoFails,
         RepoSessionFails, Fault
<1>11. QED
  BY <1>1, <1>6, <1>7, <1>8, <1>9, <1>10

\* The steps between the keys and the check keep the types.
LEMMA EndType ==
    ASSUME TypeOK, SaveLp \/ SaveDedup \/ CheckTemp \/ UploadFails \/ Interrupt
    PROVE  TypeOK'
<1> USE NullsAssumption, NothingBelow DEF TypeOK, files
<1>1. CASE SaveLp
  BY <1>1 DEF SaveLp, Runs
<1>2. CASE SaveDedup
  BY <1>2 DEF SaveDedup, Runs
<1>3. CASE CheckTemp
  BY <1>3 DEF CheckTemp
<1>4. CASE UploadFails
  BY <1>4 DEF UploadFails, Fault
<1>5. CASE Interrupt
  <2>1. backup' \in Backups
    BY <1>5 DEF Interrupt, Backups
  <2>2. faults' \in [export : Nat, hook : Nat]
    BY <1>5 DEF Interrupt, Fault
  <2>3. QED
    BY <1>5, <2>1, <2>2 DEF Interrupt
<1>6. QED
  BY <1>1, <1>2, <1>3, <1>4, <1>5

\* The webhook subcommand keeps the types.
LEMMA HookType ==
    ASSUME TypeOK, HookStep \/ HookFails \/ \E r \in Hooked : HookStart(r)
    PROVE  TypeOK'
<1> USE KeysAssumption, NullsAssumption DEF TypeOK, files
<1>1. ASSUME NEW r \in Hooked, HookStart(r) PROVE TypeOK'
  BY <1>1 DEF HookStart, Hooks
<1>2. CASE HookExportsRepo
  <2>1. /\ hook \in Hooks /\ hook.repo \in Repos /\ hook.repo \in Keys
        /\ src[hook.repo] \in 0..MaxVersion
    BY <1>2 DEF HookExportsRepo, Hooks, Positions
  <2>2. cp' \in Checkpoints
    BY <1>2, <2>1 DEF HookExportsRepo, Checkpoints
  <2>3. Since(hook.repo, cp[hook.repo]) \in SUBSET Object
    BY DEF Since
  <2>4. hook' \in Hooks
    BY <1>2, <2>1, <2>3 DEF HookExportsRepo, Hooks, Positions
  <2>5. QED
    BY <1>2, <2>2, <2>4 DEF HookExportsRepo
<1>3. CASE HookSaves
  BY <1>3 DEF HookSaves, Hooks
<1>4. CASE HookAnswers
  BY <1>4 DEF HookAnswers, Hooks
<1>5. CASE HookFails
  BY <1>5 DEF HookFails, HookFault
<1>6. QED
  BY <1>1, <1>2, <1>3, <1>4, <1>5 DEF HookStep

\* Every variable keeps to its type: the progress files, the backup and the
\* memory of the subcommands, over kills, failures and webhooks.
THEOREM TypeCorrect == Spec => []TypeOK
<1>1. Init => TypeOK
  <2> SUFFICES ASSUME Init PROVE TypeOK
    OBVIOUS
  <2>1. src \in Positions /\ lp \in Positions /\ cp \in Checkpoints
    BY NothingBelow DEF Init
  <2>2. faults \in [export : Nat, hook : Nat]
    BY DEF Init
  <2>3. QED
    BY <2>1, <2>2 DEF Init, TypeOK
<1>2. TypeOK /\ [Next]_vars => TypeOK'
  <2> SUFFICES ASSUME TypeOK, [Next]_vars PROVE TypeOK'
    OBVIOUS
  <2>1. ASSUME NEW k \in Keys, Create(k) PROVE TypeOK'
    <3>1. src' \in Positions
      BY <2>1, BoundsAssumption DEF Create, TypeOK, Positions
    <3>2. QED
      BY <2>1, <3>1 DEF Create, TypeOK, files
  <2>2. CASE ServiceStep \/ \E b \in BOOLEAN : Load(b)
    BY <2>2, ServiceType
  <2>3. ASSUME NEW k \in Keys, NEW written \in SUBSET Object,
               \/ SessionDone(k) \/ RepoSkipped(k) \/ RepoDone(k)
               \/ SessionFails(k, written) \/ RepoFails(k, written)
               \/ RepoSessionFails(k, written)
        PROVE  TypeOK'
    BY <2>3, KeyType
  <2>4. CASE SaveLp \/ SaveDedup \/ CheckTemp \/ UploadFails \/ Interrupt
    BY <2>4, EndType
  <2>5. CASE HookStep \/ HookFails \/ \E r \in Hooked : HookStart(r)
    BY <2>5, HookType
  <2>6. CASE UNCHANGED vars
    BY <2>6 DEF vars, files, TypeOK
  <2>7. QED
    BY <2>1, <2>2, <2>3, <2>4, <2>5, <2>6 DEF Next, ExportStep, ExportFault
<1>3. QED
  BY <1>1, <1>2, PTL DEF Spec

-----------------------------------------------------------------------------
(* Nothing is skipped                                                      *)

\* The backup is behind what was delivered; so are the progress files while
\* no export has changed them and again when the upload is done; in between
\* they are behind what was delivered or waits in the uploads directory,
\* unless a temporary file will fail the export.
Coverage ==
    /\ hook = NoHook
    /\ backup # NoBackup => Covered(backup.lp, backup.cp, uploaded)
    /\ \/ backup = NoBackup
       \/ pc \in {"backupLp", "backupCp", "cleanup", "load", "deleteBackup"}
       => Covered(lp, cp, uploaded)
    /\ pc = "restoreCp" => Covered(lp, NoCheckpoints, uploaded)
    /\ pc = "load" => ~temp
    /\ pc = "run" /\ ~temp => Covered(run.lp, cp, uploaded \cup uploads)
    /\ pc \in {"saveDedup", "check", "upload"} /\ (pc = "upload" \/ ~temp) =>
         Covered(lp, cp, uploaded \cup uploads)

\* The inductive invariant.
CoverageInv == TypeOK /\ Coverage

\* What was delivered stays delivered.
LEMMA CoveredGrows ==
    ASSUME NEW p, NEW c, NEW objs, NEW more, Covered(p, c, objs),
           objs \subseteq more
    PROVE  Covered(p, c, more)
BY DEF Covered, Others

\* Positions of a first export cover nothing.
LEMMA CoveredAtFirst ==
    ASSUME NEW p, NEW c, NEW objs, Covered(p, c, objs)
    PROVE  /\ Covered(NoPositions, NoCheckpoints, objs)
           /\ Covered(p, NoCheckpoints, objs) /\ Covered(NoPositions, c, objs)
           /\ Covered(Damaged, c, objs)
BY NothingBelow DEF Covered, Others

\* The service's steps keep the coverage.
LEMMA ServiceCoverage ==
    ASSUME CoverageInv, ServiceStep
    PROVE  Coverage'
<1> USE NullsAssumption, NothingBelow DEF CoverageInv, TypeOK, Coverage, files
<1>1. CASE MakeBackup
  <2>1. backup' = [lp |-> NoPositions, cp |-> NoCheckpoints]
    BY <1>1 DEF MakeBackup
  <2>2. Covered(NoPositions, NoCheckpoints, uploaded)
    BY <1>1, CoveredAtFirst DEF MakeBackup
  <2>3. QED
    BY <1>1, <2>1, <2>2 DEF MakeBackup, Covered, Others
<1>2. CASE BackupLp
  BY <1>2 DEF BackupLp, Covered, Others, Backups
<1>3. CASE BackupCp
  BY <1>3 DEF BackupCp, Covered, Others, Backups
<1>4. CASE RestoreLp
  BY <1>4 DEF RestoreLp, Covered, Others, Backups
<1>5. CASE RestoreCp
  BY <1>5 DEF RestoreCp, Covered, Others, Backups
<1>6. CASE Cleanup
  BY <1>6 DEF Cleanup, Covered, Others
<1>7. CASE Upload
  BY <1>7 DEF Upload, Covered, Others
<1>8. CASE DeleteBackup
  BY <1>8 DEF DeleteBackup, Covered, Others
<1>9. QED
  BY <1>1, <1>2, <1>3, <1>4, <1>5, <1>6, <1>7, <1>8 DEF ServiceStep

\* A step of the export subcommand on a key: the objects that the positions
\* move over are in the uploads directory, or a temporary file is left.
LEMMA KeyCoverage ==
    ASSUME CoverageInv, ~DedupEnabled,
           NEW k \in Keys, NEW written \in SUBSET Object,
           \/ SessionDone(k) \/ RepoSkipped(k) \/ RepoDone(k)
           \/ SessionFails(k, written) \/ RepoFails(k, written)
           \/ RepoSessionFails(k, written)
    PROVE  Coverage'
<1> USE DEF CoverageInv, Coverage
<1>1. /\ run \in Runs /\ pc = "run" /\ pc' = "run" /\ backup # NoBackup
      /\ UNCHANGED <<src, lp, backup, dedup, hook, uploaded>>
  BY NullsAssumption
  DEF SessionDone, RepoSkipped, RepoDone, SessionFails, RepoFails,
      RepoSessionFails, TypeOK, files
<1>2. /\ run.lp \in Positions /\ run.lp # Damaged /\ src \in Positions
      /\ cp \in Checkpoints
  BY <1>1, NullsAssumption DEF TypeOK, Runs
<1> DEFINE moved == [run.lp EXCEPT ![k] = src[k]]
           space == uploaded \cup uploads
<1>3. /\ moved \in Positions /\ moved # Damaged
      /\ UpTo(moved) \subseteq UpTo(run.lp) \cup Since(k, run.lp[k])
  BY <1>2, MovePosition, NullsAssumption DEF Positions
<1>4. ASSUME k \in Repos
      PROVE  UpTo([cp EXCEPT ![k] = src[k]])
               \subseteq UpTo(cp) \cup Since(k, cp[k])
  BY <1>2, <1>4, KeysAssumption, MovePosition DEF Checkpoints
<1>5. \A objs : Unsent(objs) = objs
  BY DEF Unsent
<1>6. SUFFICES ASSUME ~temp' PROVE Covered(run'.lp, cp', (uploaded \cup uploads)')
  BY <1>1
<1>7. ~temp /\ Covered(run.lp, cp, space)
  BY <1>1, <1>6
  DEF SessionDone, RepoSkipped, RepoDone, SessionFails, RepoFails,
      RepoSessionFails, files, TypeOK
<1>8. CASE SessionDone(k)
  <2>1. /\ run'.lp = moved /\ cp' = cp
        /\ uploads' = uploads \cup Since(k, run.lp[k])
    BY <1>8, <1>5 DEF SessionDone, After
  <2>2. QED
    BY <1>1, <1>2, <1>3, <1>7, <2>1 DEF Covered, Others
<1>9. CASE RepoSkipped(k)
  BY <1>1, <1>7, <1>9 DEF RepoSkipped, After, files
<1>10. CASE RepoDone(k)
  <2>1. /\ run'.lp = moved /\ cp' = [cp EXCEPT ![k] = src[k]] /\ k \in Repos
        /\ uploads' = uploads \cup Since(k, cp[k])
    BY <1>10, <1>5 DEF RepoDone, After
  <2>2. Others(UpTo(cp')) \subseteq (uploaded \cup uploads)'
    BY <1>1, <1>4, <1>7, <2>1 DEF Covered, Others
  <2>3. Since(k, run.lp[k]) \subseteq UpTo(cp')
    BY <1>2, <2>1, BoundsAssumption
    DEF Since, UpTo, Checkpoints, Positions, Object
  <2>4. QED
    BY <1>1, <1>2, <1>3, <1>7, <2>1, <2>2, <2>3 DEF Covered, Others
<1>11. CASE SessionFails(k, written)
  BY <1>1, <1>7, <1>11 DEF SessionFails, After, files
<1>12. CASE RepoFails(k, written)
  BY <1>1, <1>7, <1>12 DEF RepoFails, After, files, Covered, Others
<1>13. CASE RepoSessionFails(k, written)
  BY <1>6, <1>13 DEF RepoSessionFails
<1>14. QED
  BY <1>8, <1>9, <1>10, <1>11, <1>12, <1>13

\* The other steps of the export, its failures and its interruption.
LEMMA OtherCoverage ==
    ASSUME CoverageInv,
           \/ \E b \in BOOLEAN : Load(b)
           \/ SaveLp \/ SaveDedup \/ CheckTemp \/ UploadFails \/ Interrupt
    PROVE  Coverage'
<1> USE NullsAssumption DEF CoverageInv, TypeOK, Coverage, files
<1>1. ASSUME NEW b \in BOOLEAN, Load(b) PROVE Coverage'
  <2>1. Covered(lp', cp', uploaded)
    BY <1>1, CoveredAtFirst DEF Load, Covered, Others
  <2>2. run' # NoRun => run'.lp = lp'
    BY <1>1 DEF Load
  <2>3. pc' = "idle" \/ (pc' = "run" /\ run' # NoRun)
    BY <1>1, NothingBelow DEF Load, Runs
  <2>4. QED
    BY <1>1, <2>1, <2>2, <2>3 DEF Load, Covered, Others
<1>2. CASE SaveLp
  BY <1>2 DEF SaveLp, Covered, Others
<1>3. CASE SaveDedup
  BY <1>3 DEF SaveDedup, Covered, Others
<1>4. CASE CheckTemp
  BY <1>4 DEF CheckTemp, Covered, Others
<1>5. CASE UploadFails
  BY <1>5 DEF UploadFails, Covered, Others
<1>6. CASE Interrupt
  <2>1. Covered(backup'.lp, backup'.cp, uploaded)
    BY <1>6, CoveredAtFirst DEF Interrupt, Backups
  <2>2. QED
    BY <1>6, <2>1 DEF Interrupt, Backups
<1>7. QED
  BY <1>1, <1>2, <1>3, <1>4, <1>5, <1>6

\* Without webhooks no webhook subcommand ever runs.
LEMMA NoHooks ==
    ASSUME Hooked = {}
    PROVE  Spec => [](hook = NoHook)
<1>1. Init => hook = NoHook
  BY DEF Init
<1>2. hook = NoHook /\ [Next]_vars => (hook = NoHook)'
  BY DEF Next, vars, Create, ServiceStep, MakeBackup, BackupLp, BackupCp,
         RestoreLp, RestoreCp, Cleanup, Upload, DeleteBackup, ExportStep, Load,
         SessionDone, RepoSkipped, RepoDone, SaveLp, SaveDedup, CheckTemp,
         ExportFault, SessionFails, RepoFails, RepoSessionFails, UploadFails,
         Interrupt, HookStep, HookExportsRepo, HookSaves, HookAnswers,
         HookFails
<1>3. QED
  BY <1>1, <1>2, PTL DEF Spec

\* Without webhooks and without the store of sent objects, the state that the
\* next export starts from covers delivered objects only, whatever was killed
\* or failed before.  Both conditions are needed: the run incremental_dedup_loses
\* shows what happens with the store, and what webhooks may do is in
\* SkipsNothingBeside.
THEOREM SkipsNothing ==
    ASSUME ~DedupEnabled, Hooked = {}
    PROVE  Spec => []NothingSkipped
<1>1. Init => CoverageInv
  <2> SUFFICES ASSUME Init PROVE CoverageInv
    OBVIOUS
  <2>1. Covered(lp, cp, uploaded)
    BY NothingBelow DEF Init, Covered, Others
  <2>2. TypeOK
    <3>1. src \in Positions /\ lp \in Positions /\ cp \in Checkpoints
      BY NothingBelow DEF Init
    <3>2. faults \in [export : Nat, hook : Nat]
      BY DEF Init
    <3>3. QED
      BY <3>1, <3>2 DEF Init, TypeOK
  <2>3. QED
    BY <2>1, <2>2 DEF Init, CoverageInv, Coverage
<1>2. CoverageInv /\ TypeOK' /\ [Next]_vars => CoverageInv'
  <2> SUFFICES ASSUME CoverageInv, [Next]_vars PROVE Coverage'
    BY DEF CoverageInv
  <2>1. ASSUME NEW k \in Keys, Create(k) PROVE Coverage'
    BY <2>1 DEF Create, CoverageInv, Coverage, files, Covered, Others
  <2>2. CASE ServiceStep
    BY <2>2, ServiceCoverage
  <2>3. ASSUME NEW k \in Keys, NEW written \in SUBSET Object,
               \/ SessionDone(k) \/ RepoSkipped(k) \/ RepoDone(k)
               \/ SessionFails(k, written) \/ RepoFails(k, written)
               \/ RepoSessionFails(k, written)
        PROVE  Coverage'
    BY <2>3, KeyCoverage
  <2>4. CASE \/ \E b \in BOOLEAN : Load(b)
             \/ SaveLp \/ SaveDedup \/ CheckTemp \/ UploadFails \/ Interrupt
    BY <2>4, OtherCoverage
  <2>5. CASE HookStep \/ HookFails \/ \E r \in Hooked : HookStart(r)
    BY <2>5
    DEF CoverageInv, Coverage, HookStep, HookExportsRepo, HookSaves,
        HookAnswers, HookFails
  <2>6. CASE UNCHANGED vars
    BY <2>6 DEF vars, files, CoverageInv, Coverage, Covered, Others
  <2>7. QED
    BY <2>1, <2>2, <2>3, <2>4, <2>5, <2>6 DEF Next, ExportStep, ExportFault
<1>3. CoverageInv => NothingSkipped
  BY DEF CoverageInv, Coverage, NothingSkipped, ResumedLp, ResumedCp
<1>4. QED
  BY <1>1, <1>2, <1>3, TypeCorrect, PTL DEF Spec

-----------------------------------------------------------------------------
(* Nothing is skipped beside webhooks                                      *)

\* What of these positions webhooks do not touch.
Below(positions) == Others(UpTo(positions))

\* What the positions that were saved may cover: what waits for its upload, too, for no
\* export fails.
Saving == pc \in {"saveDedup", "check", "upload"}
Pending == IF Saving THEN uploaded \cup uploads ELSE uploaded

\* The webhook subcommand may hold, and save, positions as they were when it started: they
\* cover what was delivered, or what an export that goes on has saved before its upload.
Beside ==
    /\ ~ temp /\ lp # Damaged /\ pc # "restoreCp"
    /\ pc = "idle" <=> backup = NoBackup
    /\ backup # NoBackup => /\ backup.lp # Damaged
                            /\ Covered(backup.lp, backup.cp, uploaded)
    /\ Below(lp) \subseteq Pending
    /\ hook # NoHook => Below(hook.lp) \subseteq Pending
    /\ Below(cp) \subseteq Pending \cup IF pc = "run" THEN uploads ELSE {}
    /\ pc = "run" => Below(run.lp) \subseteq uploaded \cup uploads

BesideInv == TypeOK /\ Beside

\* Without faults the service's steps keep it,
LEMMA ServiceBeside ==
    ASSUME BesideInv, ServiceStep
    PROVE  Beside'
<1> USE NullsAssumption DEF BesideInv, TypeOK, Beside, Pending, Saving, files
<1>0. Below(NoPositions) = {} /\ Below(NoCheckpoints) = {} /\ NoPositions # Damaged
  BY NothingBelow DEF Below, Others
<1>1. CASE MakeBackup
  <2>1. backup' = [lp |-> NoPositions, cp |-> NoCheckpoints] /\ backup' \in Backups
    BY <1>1, NothingBelow DEF MakeBackup, Backups
  <2>2. Covered(NoPositions, NoCheckpoints, uploaded)
    BY <1>0 DEF Covered, Below
  <2>3. QED
    BY <1>0, <1>1, <2>1, <2>2 DEF MakeBackup, Covered, Below
<1>2. CASE BackupLp
  BY <1>2 DEF BackupLp, Covered, Below, Backups
<1>3. CASE BackupCp
  BY <1>3 DEF BackupCp, Covered, Below, Backups
<1>4. CASE RestoreLp
  BY <1>4 DEF RestoreLp
<1>5. CASE RestoreCp
  BY <1>5 DEF RestoreCp
<1>6. CASE Cleanup
  BY <1>6 DEF Cleanup, Covered, Below
<1>7. CASE Upload
  BY <1>7 DEF Upload, Covered, Below
<1>8. CASE DeleteBackup
  BY <1>8 DEF DeleteBackup, Covered, Below
<1>9. QED
  BY <1>1, <1>2, <1>3, <1>4, <1>5, <1>6, <1>7, <1>8 DEF ServiceStep

\* and so do the export's on a key,
LEMMA KeyBeside ==
    ASSUME BesideInv, ~DedupEnabled, NEW k \in Keys,
           SessionDone(k) \/ RepoSkipped(k) \/ RepoDone(k)
    PROVE  Beside'
<1>1. /\ run \in Runs /\ pc = "run" /\ pc' = "run" /\ backup # NoBackup
      /\ UNCHANGED <<src, lp, backup, dedup, temp, hook, uploaded>>
      /\ uploads \subseteq uploads'
  BY NullsAssumption
  DEF SessionDone, RepoSkipped, RepoDone, BesideInv, TypeOK, files
<1>2. /\ run.lp \in Positions /\ src \in Positions /\ cp \in Checkpoints
  BY <1>1 DEF BesideInv, TypeOK, Runs
<1> DEFINE moved == [run.lp EXCEPT ![k] = src[k]]
<1>3. Below(moved) \subseteq Below(run.lp) \cup Since(k, run.lp[k])
  BY <1>2, MovePosition DEF Positions, Below, Others
<1>4. \A objs : Unsent(objs) = objs
  BY DEF Unsent
<1>5. /\ Below(cp) \subseteq uploaded \cup uploads
      /\ Below(run.lp) \subseteq uploaded \cup uploads
  BY <1>1 DEF BesideInv, Beside, Pending, Saving
<1>6. /\ Below(cp') \subseteq uploaded \cup uploads'
      /\ Below(run'.lp) \subseteq uploaded \cup uploads'
  <2>1. CASE SessionDone(k)
    <3>1. /\ run'.lp = moved /\ cp' = cp
          /\ uploads' = uploads \cup Since(k, run.lp[k])
      BY <2>1, <1>4 DEF SessionDone, After
    <3>2. QED
      BY <1>3, <1>5, <3>1
  <2>2. CASE RepoSkipped(k)
    BY <1>1, <1>5, <2>2 DEF RepoSkipped, After, files
  <2>3. CASE RepoDone(k)
    <3>1. /\ run'.lp = moved /\ cp' = [cp EXCEPT ![k] = src[k]] /\ k \in Repos
          /\ uploads' = uploads \cup Since(k, cp[k])
      BY <2>3, <1>4 DEF RepoDone, After
    <3>2. UpTo(cp') \subseteq UpTo(cp) \cup Since(k, cp[k])
      BY <1>2, <3>1, KeysAssumption, MovePosition DEF Checkpoints
    <3>3. Below(cp') \subseteq uploaded \cup uploads'
      BY <1>5, <3>1, <3>2 DEF Below, Others
    <3>4. Since(k, run.lp[k]) \subseteq UpTo(cp')
      BY <1>2, <3>1, BoundsAssumption
      DEF Since, UpTo, Checkpoints, Positions, Object
    <3>5. UpTo(moved) \subseteq UpTo(run.lp) \cup UpTo(cp')
      BY <1>2, <3>4, MovePosition DEF Positions
    <3>6. Below(moved) \subseteq Below(run.lp) \cup Below(cp')
      BY <3>5 DEF Below, Others
    <3>7. QED
      BY <1>1, <1>5, <3>1, <3>3, <3>6
  <2>4. QED
    BY <2>1, <2>2, <2>3
<1>7. QED
  BY <1>1, <1>6 DEF BesideInv, Beside, Pending, Saving, Below, Covered

\* the others of the export,
LEMMA ExportBeside ==
    ASSUME BesideInv, \/ \E b \in BOOLEAN : Load(b)
                      \/ SaveLp \/ SaveDedup \/ CheckTemp
    PROVE  Beside'
<1> USE NullsAssumption DEF BesideInv, TypeOK, Beside, Pending, Saving, files
<1>0. /\ Below(NoPositions) = {} /\ Below(NoCheckpoints) = {}
      /\ NoPositions # Damaged /\ NoPositions \in Positions
  BY NothingBelow DEF Below, Others
<1>1. ASSUME NEW b \in BOOLEAN, Load(b) PROVE Beside'
  <2>1. /\ lp' \in {lp, NoPositions} /\ cp' \in {cp, NoCheckpoints}
        /\ pc = "load" /\ lp' # Damaged /\ pc' = "run" /\ run'.lp = lp'
        /\ UNCHANGED <<backup, uploads, temp, hook, uploaded>>
    BY <1>0, <1>1 DEF Load
  <2>2. QED
    BY <1>0, <2>1
<1>2. CASE SaveLp
  BY <1>2 DEF SaveLp, Runs
<1>3. CASE SaveDedup
  BY <1>3 DEF SaveDedup
<1>4. CASE CheckTemp
  BY <1>4 DEF CheckTemp
<1>5. QED
  BY <1>1, <1>2, <1>3, <1>4

\* and the webhook's, wherever it fails.
LEMMA HookBeside ==
    ASSUME BesideInv, HookStep \/ HookFails \/ \E r \in Hooked : HookStart(r)
    PROVE  Beside'
<1> USE NullsAssumption DEF BesideInv, TypeOK, Beside, Pending, Saving, files
<1>1. ASSUME NEW r \in Hooked, HookStart(r) PROVE Beside'
  BY <1>1 DEF HookStart, Covered
<1>2. CASE HookExportsRepo
  <2>1. /\ hook \in Hooks /\ hook.repo \in Hooked /\ hook.lp \in Positions /\ hook.repo \in Repos
    BY <1>2, KeysAssumption DEF HookExportsRepo, Hooks
  <2>2. Below([hook.lp EXCEPT ![hook.repo] = src[hook.repo]]) = Below(hook.lp)
    BY <2>1 DEF Below, Others, UpTo, Positions
  <2>3. Below([cp EXCEPT ![hook.repo] = src[hook.repo]]) = Below(cp)
    BY <2>1 DEF Below, Others, UpTo, Checkpoints
  <2>4. /\ hook'.lp = [hook.lp EXCEPT ![hook.repo] = src[hook.repo]]
        /\ cp' \in {cp, [cp EXCEPT ![hook.repo] = src[hook.repo]]}
        /\ UNCHANGED <<src, lp, backup, dedup, uploads, temp, pc, run, uploaded>>
    BY <1>2, <2>1 DEF HookExportsRepo, Hooks
  <2>5. Below(hook'.lp) \subseteq Pending /\ Below(cp') = Below(cp)
    BY <1>2, <2>2, <2>3, <2>4 DEF HookExportsRepo
  <2>6. QED
    BY <2>4, <2>5
<1>3. CASE HookSaves
  <2>1. hook \in Hooks /\ hook.lp \in Positions /\ hook'.lp = hook.lp
    BY <1>3 DEF HookSaves, Hooks
  <2>2. QED
    BY <1>3, <2>1 DEF HookSaves
<1>4. CASE HookAnswers
  BY <1>4 DEF HookAnswers, Covered
<1>5. CASE HookFails
  BY <1>5 DEF HookFails
<1>6. QED
  BY <1>1, <1>2, <1>3, <1>4, <1>5 DEF HookStep

\* While no export fails: whatever webhooks save, and wherever they fail, the state that
\* the next export starts from covers delivered objects only, of the keys without
\* webhooks.  With one that fails it is not so: a webhook may save positions that the next
\* export has taken back (cmdwebhook, and state_dir.go).
THEOREM SkipsNothingBeside ==
    ASSUME ~DedupEnabled, MaxFaults = 0
    PROVE  Spec => []NothingSkipped
<1>1. Init => BesideInv
  <2> SUFFICES ASSUME Init PROVE TypeOK /\ Beside
    BY DEF BesideInv
  <2>1. src \in Positions /\ lp \in Positions /\ cp \in Checkpoints
    BY NothingBelow DEF Init
  <2>2. faults \in [export : Nat, hook : Nat]
    BY DEF Init
  <2>3. TypeOK
    BY <2>1, <2>2 DEF Init, TypeOK
  <2>4. Below(lp) = {} /\ Below(cp) = {} /\ lp # Damaged
    BY NothingBelow, NullsAssumption DEF Init, Below, Others
  <2>5. QED
    BY <2>3, <2>4 DEF Init, Beside, Pending
<1>2. BesideInv /\ TypeOK' /\ [Next]_vars => BesideInv'
  <2> SUFFICES ASSUME BesideInv, [Next]_vars PROVE Beside'
    BY DEF BesideInv
  <2>1. ASSUME NEW k \in Keys, Create(k) PROVE Beside'
    BY <2>1 DEF Create, BesideInv, Beside, Pending, Saving, files, Covered, Below
  <2>2. CASE ServiceStep
    BY <2>2, ServiceBeside
  <2>3. ASSUME NEW k \in Keys, SessionDone(k) \/ RepoSkipped(k) \/ RepoDone(k)
        PROVE  Beside'
    BY <2>3, KeyBeside
  <2>4. CASE \/ \E b \in BOOLEAN : Load(b)
             \/ SaveLp \/ SaveDedup \/ CheckTemp
    BY <2>4, ExportBeside
  <2>5. CASE HookStep \/ HookFails \/ \E r \in Hooked : HookStart(r)
    BY <2>5, HookBeside
  <2>6. ~ ExportFault
    <3>1. ~ Fault
      BY DEF Fault, BesideInv, TypeOK
    <3> QED
      BY <3>1 DEF ExportFault, SessionFails, RepoFails, RepoSessionFails, UploadFails, Interrupt
  <2>7. CASE UNCHANGED vars
    BY <2>7 DEF vars, files, BesideInv, Beside, Pending, Saving, Covered, Below
  <2>8. QED
    BY <2>1, <2>2, <2>3, <2>4, <2>5, <2>6, <2>7 DEF Next, ExportStep
<1>3. BesideInv => NothingSkipped
  <2> SUFFICES ASSUME BesideInv PROVE NothingSkipped
    OBVIOUS
  <2>1. CASE backup = NoBackup
    BY <2>1 DEF BesideInv, Beside, Pending, Saving, Below, Covered, NothingSkipped,
                ResumedLp, ResumedCp
  <2>2. CASE backup # NoBackup
    BY <2>2 DEF BesideInv, Beside, NothingSkipped, ResumedLp, ResumedCp
  <2> QED
    BY <2>1, <2>2
<1>4. QED
  BY <1>1, <1>2, <1>3, TypeCorrect, PTL DEF Spec

-----------------------------------------------------------------------------
(* Changes under a backup                                                  *)

\* No export is under way without a backup, and only what one does, and a webhook,
\* changes the progress files (exporter.go:217-281).
THEOREM ChangesUnderBackup == Spec => ChangedUnderBackup
<1>1. TypeOK /\ [Next]_vars
        => [(lp' # lp \/ cp' # cp) /\ hook' = hook => backup # NoBackup]_vars
  <2> SUFFICES ASSUME TypeOK, [Next]_vars, lp' # lp \/ cp' # cp, hook' = hook
               PROVE  backup # NoBackup
    OBVIOUS
  <2>1. ~ HookExportsRepo /\ ~ HookSaves
    <3>1. hook # NoHook => hook \in Hooks
      BY DEF TypeOK
    <3>2. hook \in Hooks => /\ \A l, d : [hook EXCEPT !.at = "exported", !.lp[hook.repo] = l,
                                                      !.data = d].at = "exported"
                            /\ [hook EXCEPT !.at = "saved"].at = "saved"
      BY DEF Hooks
    <3> QED
      BY <3>1, <3>2 DEF HookExportsRepo, HookSaves
  <2>2. pc # "idle" => backup # NoBackup
    BY NullsAssumption DEF TypeOK
  <2> QED
    BY <2>1, <2>2
    DEF Next, vars, files, Create, ServiceStep, MakeBackup, BackupLp,
        BackupCp, RestoreLp, RestoreCp, Cleanup, Upload, DeleteBackup,
        ExportStep, Load, SessionDone, RepoSkipped, RepoDone, SaveLp, SaveDedup,
        CheckTemp, ExportFault, SessionFails, RepoFails, RepoSessionFails,
        UploadFails, Interrupt, HookStart, HookStep, HookAnswers, HookFails
<1>2. QED
  BY <1>1, TypeCorrect, PTL DEF Spec, ChangedUnderBackup
=============================================================================
