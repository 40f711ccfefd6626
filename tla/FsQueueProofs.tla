--------------------------- MODULE FsQueueProofs ----------------------------
(***************************************************************************)
(* Proofs about FsQueue, for any set of requests, any channel capacity and *)
(* any number of crashes and failing saves.                                *)
(***************************************************************************)
EXTENDS FsQueue, WellFoundedInduction, TLAPS

-----------------------------------------------------------------------------
(* The helpers on Go maps                                                  *)

\* Adding an entry, and deleting one, keeps a queue map a queue map.
LEMMA WithType ==
    ASSUME NEW map, IsQueueMap(map), NEW id \in Nat \ {0}, NEW r \in Requests
    PROVE  /\ IsQueueMap(With(map, id, r))
           /\ DOMAIN With(map, id, r) = DOMAIN map \cup {id}
           /\ With(map, id, r)[id] = r
           /\ \A i \in DOMAIN map : i # id => With(map, id, r)[i] = map[i]
BY DEF IsQueueMap, With

LEMMA WithoutType ==
    ASSUME NEW map, IsQueueMap(map), NEW id
    PROVE  /\ IsQueueMap(Without(map, id))
           /\ DOMAIN Without(map, id) = DOMAIN map \ {id}
           /\ \A i \in DOMAIN map \ {id} : Without(map, id)[i] = map[i]
BY DEF IsQueueMap, Without

LEMMA EmptyMapType == IsQueueMap(EmptyMap) /\ DOMAIN EmptyMap = {}
BY DEF IsQueueMap, EmptyMap

\* readData restores an idgen that no saved id exceeds.  A map has finitely
\* many entries, which is all that is needed here of it: its ids are bounded.
LEMMA MaxIdOfBounds ==
    ASSUME NEW map, IsQueueMap(map),
           NEW n \in Nat, \A i \in DOMAIN map : i <= n
    PROVE  MaxIdOf(map) \in Nat /\ \A i \in DOMAIN map : i <= MaxIdOf(map)
<1>1. CASE DOMAIN map = {}
  BY <1>1 DEF MaxIdOf
<1>2. CASE DOMAIN map # {}
  <2> DEFINE Bounds == {m \in Nat : \A i \in DOMAIN map : i <= m}
             Less == {p \in Nat \X Nat : p[1] < p[2]}
  <2>1. n \in Bounds /\ Bounds \subseteq Nat
    OBVIOUS
  <2>2. IsWellFoundedOn(Less, Nat)
    BY NatLessThanWellFounded DEF OpToRel
  <2>3. PICK m \in Bounds : \A k \in Bounds : ~ (<<k, m>> \in Less)
    <3> HIDE DEF Bounds, Less
    <3> QED BY <2>1, <2>2, WFMin, Zenon
  <2>4. \A k \in Bounds : ~ (k < m)
    BY <2>3
  <2>5. m \in DOMAIN map
    <3>1. SUFFICES ASSUME m \notin DOMAIN map PROVE FALSE
      OBVIOUS
    <3>2. PICK j \in DOMAIN map : TRUE
      BY <1>2
    <3>3. DOMAIN map \subseteq Nat \ {0}
      BY DEF IsQueueMap
    <3>4. m - 1 \in Bounds
      BY <3>1, <3>2, <3>3
    <3> QED BY <2>4, <3>4
  <2>6. \E k \in DOMAIN map : \A i \in DOMAIN map : i <= k
    BY <2>5
  <2>7. MaxIdOf(map) \in DOMAIN map /\ \A i \in DOMAIN map : i <= MaxIdOf(map)
    BY <1>2, <2>6 DEF MaxIdOf
  <2> QED BY <2>7 DEF IsQueueMap
<1> QED BY <1>1, <1>2
-----------------------------------------------------------------------------
(* The inductive invariant.  An accepted request can only be lost when an  *)
(* entry is deleted too early or overwritten.  It is deleted by dataDone,  *)
(* for an id in finishing, so NothingLost rests on: such an id was         *)
(* exported.  That rests on every goroutine carrying the request which     *)
(* pending holds under the same id, which rests on new ids being new.      *)

\* What a goroutine holds under an id is what the queue holds under it.
Carried(e) ==
    /\ e.id <= idgen
    /\ e.id \in DOMAIN pending => pending[e.id] = e.req

CarriedByAll ==
    /\ \A i \in DOMAIN forward : Carried(forward[i])
    /\ sending # NoEntry => Carried(sending)
    /\ working # NoEntry => Carried(working)
    /\ handing => working # NoEntry /\ exports[working.req] > 0

\* No id in use exceeds idgen.
IdsBounded ==
    /\ \A i \in DOMAIN pending : i <= idgen
    /\ \A i \in finishing : i <= idgen
    /\ up => \A i \in DOMAIN file : i <= idgen

\* The file has finitely many entries, which is needed only of their ids.
FileIdsBounded == \E n \in Nat : \A i \in DOMAIN file : i <= n

\* Only exported entries are deleted.
FinishingExported ==
    \A i \in finishing \cap DOMAIN pending : exports[pending[i]] > 0

\* The file holds all of pending, and beyond it only exported requests,
\* those whose deletion could not be saved.
FileCoversPending ==
    up => /\ \A i \in DOMAIN pending : i \in DOMAIN file /\ file[i] = pending[i]
          /\ \A i \in DOMAIN file \ DOMAIN pending : exports[file[i]] > 0

\* A dead process has no memory.
DeadIsEmpty == ~up => NoMemory

QueueInv ==
    /\ TypeOK
    /\ CarriedByAll
    /\ IdsBounded
    /\ FinishingExported
    /\ FileCoversPending
    /\ DeadIsEmpty
    /\ NothingLost

IndInv == QueueInv /\ FileIdsBounded

-----------------------------------------------------------------------------
(* Type correctness                                                        *)

LEMMA TypeInit == Init => TypeOK /\ FileIdsBounded
<1> SUFFICES ASSUME Init PROVE TypeOK /\ FileIdsBounded
  OBVIOUS
<1>1. IsQueueMap(file) /\ IsQueueMap(pending) /\ DOMAIN pending = {}
  BY EmptyMapType DEF Init, NoMemory
<1>2. \A i \in DOMAIN file : i <= 0
  BY EmptyMapType DEF Init
<1>3. up \in BOOLEAN /\ replaying \in BOOLEAN /\ handing \in BOOLEAN
  BY DEF Init, NoMemory
<1>4. exports \in [Requests -> Nat]
  BY DEF Init
<1> QED BY <1>1, <1>2, <1>3, <1>4 DEF Init, NoMemory, TypeOK, FileIdsBounded

\* A process that dies leaves well-typed, empty memory.
LEMMA DieType ==
    ASSUME TypeOK, Die,
           file' = file, boots' = boots, saveErrors' \in Nat,
           bootMax' = bootMax, delivered' = delivered, accepted' = accepted,
           exports' = exports
    PROVE  TypeOK'
<1>1. IsQueueMap(file') /\ IsQueueMap(pending') /\ DOMAIN pending' = {}
  BY EmptyMapType DEF Die, TypeOK
<1>2. up' \in BOOLEAN /\ replaying' \in BOOLEAN /\ handing' \in BOOLEAN
  BY DEF Die
<1> QED BY <1>1, <1>2 DEF Die, TypeOK

\* send appends one entry and starts one waiter.
LEMMA ForwardType ==
    ASSUME TypeOK, NEW e \in Entry, Forward(e)
    PROVE  forward' \in Seq(Entry) /\ waiters' \subseteq Nat
<1>1. forward' \in Seq(Entry)
  BY DEF Forward, TypeOK
<1>2. waiters' \subseteq Nat
  BY DEF Forward, TypeOK, Entry
<1> QED BY <1>1, <1>2

LEMMA TypeStep ==
    ASSUME TypeOK, FileIdsBounded, [Next]_vars
    PROVE  TypeOK'
<1> USE DEF vars, queue, goroutines, history
<1>1. CASE Start
  <2>1. MaxIdOf(file) \in Nat
    BY MaxIdOfBounds DEF TypeOK, FileIdsBounded
  <2>2. DOMAIN file \subseteq Nat
    BY DEF TypeOK, IsQueueMap
  <2> QED BY <1>1, <2>1, <2>2 DEF Start, TypeOK
<1>2. CASE Crash
  BY <1>2, DieType DEF Crash, TypeOK
<1>3. ASSUME NEW r \in Requests, Intake(r) \/ Refuse(r) PROVE TypeOK'
  BY <1>3 DEF Intake, Refuse, TypeOK
<1>4. CASE ReplayDone
  BY <1>4 DEF ReplayDone, TypeOK
<1>5. CASE AddData
  <2>1. idgen + 1 \in Nat \ {0} /\ intake \in Requests
    BY <1>5 DEF AddData, TypeOK
  <2>2. IsQueueMap(pending') /\ IsQueueMap(file')
    BY <1>5, <2>1, WithType DEF AddData, TypeOK
  <2>3. sending' \in Entry /\ idgen' \in Nat
    BY <1>5, <2>1 DEF AddData, Entry
  <2> QED BY <1>5, <2>1, <2>2, <2>3 DEF AddData, TypeOK
<1>6. CASE Send
  <2>1. sending \in Entry
    BY <1>6 DEF Send, TypeOK
  <2> QED BY <1>6, <2>1, ForwardType DEF Send, TypeOK
<1>7. ASSUME NEW id \in toReplay, Replay(id) PROVE TypeOK'
  <2>1. EntryOf(pending, id) \in Entry
    BY <1>7 DEF TypeOK, IsQueueMap, EntryOf, Entry
  <2> QED BY <1>7, <2>1, ForwardType DEF Replay, TypeOK
<1>8. CASE AddDataFails
  BY <1>8, DieType DEF AddDataFails, TypeOK
<1>9. CASE StartExport
  BY <1>9 DEF StartExport, TypeOK
<1>10. CASE FinishExport
  BY <1>10 DEF FinishExport, TypeOK, Entry
<1>11. CASE HandDone
  BY <1>11 DEF HandDone, TypeOK, Entry
<1>12. ASSUME NEW id \in finishing, DataDone(id) PROVE TypeOK'
  <2>1. IsQueueMap(pending') /\ file' = pending'
    BY <1>12, WithoutType DEF DataDone, TypeOK
  <2> QED BY <1>12, <2>1 DEF DataDone, TypeOK
<1>13. ASSUME NEW id \in finishing, DataDoneFails(id) PROVE TypeOK'
  <2>1. IsQueueMap(pending')
    BY <1>13, WithoutType DEF DataDoneFails, TypeOK
  <2> QED BY <1>13, <2>1 DEF DataDoneFails, TypeOK
<1>14. CASE Idle \/ UNCHANGED vars
  BY <1>14 DEF Idle, TypeOK
<1> QED
  BY <1>1, <1>2, <1>3, <1>4, <1>5, <1>6, <1>7, <1>8, <1>9, <1>10, <1>11,
     <1>12, <1>13, <1>14 DEF Next, RunStep, WorkerStep

-----------------------------------------------------------------------------
(* The steps of the inductive invariant, one conjunct at a time            *)

\* addData puts the request under an id that no entry and no goroutine has.
LEMMA AddDataMap ==
    ASSUME TypeOK, AddData
    PROVE  /\ pending' = With(pending, idgen + 1, intake)
           /\ DOMAIN pending' = DOMAIN pending \cup {idgen + 1}
           /\ pending'[idgen + 1] = intake
           /\ \A i \in DOMAIN pending :
                i # idgen + 1 => pending'[i] = pending[i]
<1>1. idgen + 1 \in Nat \ {0} /\ intake \in Requests
  BY DEF AddData, TypeOK
<1>2. IsQueueMap(pending)
  BY DEF TypeOK
<1>3. pending' = With(pending, idgen + 1, intake)
  BY DEF AddData
<1>4. /\ DOMAIN With(pending, idgen + 1, intake) = DOMAIN pending \cup {idgen + 1}
      /\ With(pending, idgen + 1, intake)[idgen + 1] = intake
      /\ \A i \in DOMAIN pending :
           i # idgen + 1 => With(pending, idgen + 1, intake)[i] = pending[i]
  BY <1>1, <1>2, WithType
<1> QED BY <1>3, <1>4

\* Once exported, always exported.
LEMMA ExportsGrow ==
    ASSUME TypeOK, [Next]_vars
    PROVE  \A r \in Requests : exports[r] > 0 => exports'[r] > 0
<1>1. CASE FinishExport
  <2>1. working.req \in Requests
    BY <1>1 DEF FinishExport, TypeOK, Entry
  <2> QED BY <1>1, <2>1 DEF FinishExport, TypeOK
<1>2. CASE ~FinishExport
  <2>1. exports' = exports
    BY <1>2 DEF Next, RunStep, WorkerStep, Start, Crash, Intake, Refuse,
       ReplayDone, AddData, AddDataFails, Send, Replay, StartExport,
       HandDone, DataDone, DataDoneFails, Idle,
       vars, queue, goroutines, history
  <2> QED BY <2>1
<1> QED BY <1>1, <1>2

\* A dead process does nothing but start.
LEMMA DeadStep ==
    ASSUME DeadIsEmpty, [Next]_vars
    PROVE  DeadIsEmpty'
<1> USE DEF vars, queue, goroutines, history
<1>1. CASE Start
  BY <1>1 DEF Start, DeadIsEmpty
<1>2. CASE Crash \/ AddDataFails
  BY <1>2 DEF Crash, AddDataFails, Die, DeadIsEmpty, NoMemory
<1>3. CASE up /\ up' = up
  BY <1>3 DEF DeadIsEmpty
<1>4. CASE UNCHANGED vars
  BY <1>4 DEF DeadIsEmpty, NoMemory
<1>5. CASE ~up
  <2>1. ~Crash /\ ~ReplayDone /\ ~AddData /\ ~AddDataFails /\ ~Idle
    BY <1>5 DEF DeadIsEmpty, NoMemory, Crash, ReplayDone, AddData,
       AddDataFails, Idle
  <2>2. ~Send /\ ~StartExport /\ ~FinishExport /\ ~HandDone
    BY <1>5 DEF DeadIsEmpty, NoMemory, Send, StartExport, FinishExport,
       HandDone
  <2>3. ~ (\E r \in Requests : Intake(r) \/ Refuse(r))
    BY <1>5 DEF Intake, Refuse
  <2>4. toReplay = {} /\ finishing = {}
    BY <1>5 DEF DeadIsEmpty, NoMemory
  <2> QED BY <1>1, <1>4, <2>1, <2>2, <2>3, <2>4 DEF Next, RunStep, WorkerStep
<1>6. CASE up /\ ~Crash /\ ~AddDataFails /\ ~Start
  <2>1. up' = up
    BY <1>6 DEF Next, RunStep, WorkerStep, Intake, Refuse,
       ReplayDone, AddData, Send, Replay, StartExport, FinishExport,
       HandDone, DataDone, DataDoneFails, Idle
  <2> QED BY <1>3, <1>6, <2>1
<1> QED BY <1>1, <1>2, <1>5, <1>6

\* Only a live process changes the queue.
LEMMA LiveStep ==
    ASSUME DeadIsEmpty
    PROVE  /\ AddData => up
           /\ \A id \in finishing : up
BY DEF DeadIsEmpty, NoMemory, AddData

LEMMA IdsStep ==
    ASSUME TypeOK, FileIdsBounded, IdsBounded, CarriedByAll, DeadIsEmpty,
           [Next]_vars
    PROVE  IdsBounded' /\ FileIdsBounded'
<1> USE DEF vars, queue, goroutines, history
<1>1. CASE Start
  <2>1. \A i \in DOMAIN file : i <= MaxIdOf(file)
    BY MaxIdOfBounds DEF TypeOK, FileIdsBounded
  <2>2. finishing = {}
    BY <1>1 DEF Start, DeadIsEmpty, NoMemory
  <2> QED BY <1>1, <2>1, <2>2 DEF Start, IdsBounded, FileIdsBounded
<1>2. CASE Crash \/ AddDataFails
  <2>1. DOMAIN pending' = {} /\ finishing' = {} /\ up' = FALSE /\ file' = file
    BY <1>2, EmptyMapType DEF Crash, AddDataFails, Die
  <2> QED BY <2>1 DEF IdsBounded, FileIdsBounded
<1>3. CASE AddData
  <2>1. idgen + 1 \in Nat \ {0} /\ intake \in Requests
    BY <1>3 DEF AddData, TypeOK
  <2>2. DOMAIN pending' = DOMAIN pending \cup {idgen + 1}
    BY <1>3, AddDataMap
  <2>3. \A i \in DOMAIN pending' : i <= idgen'
    BY <1>3, <2>2 DEF AddData, IdsBounded, TypeOK, IsQueueMap
  <2>4. file' = pending' /\ idgen' \in Nat /\ finishing' = finishing
        /\ idgen' = idgen + 1
    BY <1>3, <2>1 DEF AddData
  <2>5. \A i \in finishing' : i <= idgen'
    BY <2>4 DEF IdsBounded, TypeOK
  <2> QED BY <2>3, <2>4, <2>5 DEF IdsBounded, FileIdsBounded
<1>4. CASE HandDone
  <2>1. working.id <= idgen
    BY <1>4 DEF HandDone, CarriedByAll, Carried
  <2> QED BY <1>4, <2>1 DEF HandDone, IdsBounded, FileIdsBounded
<1>5. ASSUME NEW id \in finishing, DataDone(id) \/ DataDoneFails(id)
      PROVE  IdsBounded' /\ FileIdsBounded'
  <2>1. DOMAIN pending' \subseteq DOMAIN pending
    BY <1>5, WithoutType DEF DataDone, DataDoneFails, TypeOK
  <2>2. /\ file' = file \/ file' = pending'
        /\ idgen' = idgen /\ up' = up
        /\ finishing' \subseteq finishing
    BY <1>5 DEF DataDone, DataDoneFails
  <2> QED BY <2>1, <2>2 DEF IdsBounded, FileIdsBounded, TypeOK
<1>6. CASE UNCHANGED <<file, up, pending, idgen, finishing>>
  BY <1>6 DEF IdsBounded, FileIdsBounded
<1>7. ASSUME NEW r \in Requests, Intake(r) \/ Refuse(r)
      PROVE  UNCHANGED <<file, up, pending, idgen, finishing>>
  BY <1>7 DEF Intake, Refuse
<1>8. ASSUME NEW id \in toReplay, Replay(id)
      PROVE  UNCHANGED <<file, up, pending, idgen, finishing>>
  BY <1>8 DEF Replay
<1>9. CASE ReplayDone \/ Send \/ StartExport \/ FinishExport \/ Idle
           \/ UNCHANGED vars
  BY <1>6, <1>9 DEF ReplayDone, Send, StartExport, FinishExport, Idle
<1> QED
  BY <1>1, <1>2, <1>3, <1>4, <1>5, <1>6, <1>7, <1>8, <1>9
     DEF Next, RunStep, WorkerStep

\* Entries stay carried when only new ids are added to pending or ids deleted.
LEMMA CarriedKept ==
    ASSUME NEW e \in Entry, Carried(e), idgen \in Nat, idgen' \in Nat,
           idgen <= idgen',
           \A i \in DOMAIN pending' :
              i <= idgen => i \in DOMAIN pending /\ pending'[i] = pending[i]
    PROVE  /\ e.id <= idgen'
           /\ e.id \in DOMAIN pending' => pending'[e.id] = e.req
BY DEF Carried, Entry

\* What the goroutines carry is carried after a step that leaves them alone.
LEMMA CarriedKeptByAll ==
    ASSUME TypeOK, CarriedByAll, idgen' \in Nat, idgen <= idgen',
           \A i \in DOMAIN pending' :
              i <= idgen => i \in DOMAIN pending /\ pending'[i] = pending[i],
           UNCHANGED <<forward, working, handing, exports>>,
           \/ sending' = sending
           \/ /\ sending' # NoEntry
              /\ sending'.id <= idgen'
              /\ sending'.id \in DOMAIN pending'
                    => pending'[sending'.id] = sending'.req
    PROVE  CarriedByAll'
<1>1. \A i \in DOMAIN forward : forward[i] \in Entry
  BY DEF TypeOK
<1>2. \A i \in DOMAIN forward' :
         /\ forward'[i].id <= idgen'
         /\ forward'[i].id \in DOMAIN pending'
               => pending'[forward'[i].id] = forward'[i].req
  BY <1>1, CarriedKept DEF CarriedByAll, TypeOK
<1>3. working' # NoEntry =>
         /\ working'.id <= idgen'
         /\ working'.id \in DOMAIN pending'
               => pending'[working'.id] = working'.req
  BY CarriedKept DEF CarriedByAll, TypeOK
<1>4. sending' # NoEntry =>
         /\ sending'.id <= idgen'
         /\ sending'.id \in DOMAIN pending'
               => pending'[sending'.id] = sending'.req
  BY CarriedKept DEF CarriedByAll, TypeOK
<1>5. handing' => working' # NoEntry /\ exports'[working'.req] > 0
  BY DEF CarriedByAll
<1> QED BY <1>2, <1>3, <1>4, <1>5 DEF CarriedByAll, Carried

LEMMA CarriedStep ==
    ASSUME TypeOK, IdsBounded, CarriedByAll, DeadIsEmpty, [Next]_vars
    PROVE  CarriedByAll'
<1> USE DEF vars, queue, goroutines, history
<1>1. CASE Start
  <2>1. /\ forward' = <<>> /\ sending' = NoEntry /\ working' = NoEntry
        /\ handing' = FALSE
    BY <1>1 DEF Start, DeadIsEmpty, NoMemory
  <2> QED BY <2>1 DEF CarriedByAll
<1>2. CASE Crash \/ AddDataFails
  <2>1. /\ forward' = <<>> /\ sending' = NoEntry /\ working' = NoEntry
        /\ handing' = FALSE
    BY <1>2 DEF Crash, AddDataFails, Die
  <2> QED BY <2>1 DEF CarriedByAll
<1>3. CASE UNCHANGED <<pending, idgen, sending, forward, working, handing,
                       exports>>
  BY <1>3 DEF CarriedByAll, Carried
<1>4. ASSUME NEW r \in Requests, Intake(r) \/ Refuse(r) PROVE CarriedByAll'
  BY <1>3, <1>4 DEF Intake, Refuse
<1>5. CASE ReplayDone \/ Idle \/ UNCHANGED vars
  BY <1>3, <1>5 DEF ReplayDone, Idle
<1>6. CASE AddData
  <2>1. idgen \in Nat /\ idgen + 1 \in Nat \ {0} /\ intake \in Requests
    BY <1>6 DEF AddData, TypeOK
  <2>2. /\ DOMAIN pending' = DOMAIN pending \cup {idgen + 1}
        /\ pending'[idgen + 1] = intake
        /\ \A i \in DOMAIN pending :
             i # idgen + 1 => pending'[i] = pending[i]
    BY <1>6, AddDataMap
  <2>3. /\ idgen' = idgen + 1
        /\ sending' = [id |-> idgen + 1, req |-> intake]
        /\ UNCHANGED <<forward, working, handing, exports>>
    BY <1>6 DEF AddData
  <2>4. sending' # NoEntry
    BY <2>1, <2>3, NoEntryAssumption DEF Entry
  <2>5. \A i \in DOMAIN pending' :
           i <= idgen => i \in DOMAIN pending /\ pending'[i] = pending[i]
    BY <2>1, <2>2 DEF TypeOK, IsQueueMap
  <2>6. /\ sending'.id <= idgen'
        /\ pending'[sending'.id] = sending'.req
    BY <2>1, <2>2, <2>3
  <2> QED BY <2>1, <2>3, <2>4, <2>5, <2>6, CarriedKeptByAll
<1>7. ASSUME NEW e \in Entry, Carried(e), Forward(e),
             UNCHANGED <<pending, idgen, working, handing, exports>>,
             sending' = sending \/ sending' = NoEntry
      PROVE  CarriedByAll'
  <2>1. \A i \in DOMAIN forward' :
           forward'[i] = e \/ \E j \in DOMAIN forward : forward'[i] = forward[j]
    BY <1>7 DEF Forward, TypeOK
  <2>2. \A i \in DOMAIN forward' : Carried(forward'[i])
    BY <1>7, <2>1 DEF CarriedByAll
  <2>3. \A i \in DOMAIN forward' :
           /\ forward'[i].id <= idgen'
           /\ forward'[i].id \in DOMAIN pending'
                 => pending'[forward'[i].id] = forward'[i].req
    BY <1>7, <2>2 DEF Carried
  <2> QED BY <1>7, <2>3 DEF CarriedByAll, Carried
<1>8. CASE Send
  <2>1. sending \in Entry /\ Carried(sending)
    BY <1>8 DEF Send, TypeOK, CarriedByAll
  <2> QED BY <1>7, <1>8, <2>1 DEF Send
<1>9. ASSUME NEW id \in toReplay, Replay(id) PROVE CarriedByAll'
  <2>1. id \in DOMAIN pending /\ EntryOf(pending, id) \in Entry
    BY DEF TypeOK, IsQueueMap, EntryOf, Entry
  <2>2. Carried(EntryOf(pending, id))
    BY <2>1 DEF Carried, EntryOf, IdsBounded
  <2> QED BY <1>7, <1>9, <2>1, <2>2 DEF Replay
<1>10. CASE StartExport
  <2>1. forward \in Seq(Entry) /\ forward # <<>>
    BY <1>10 DEF StartExport, TypeOK
  <2>2. working' = forward[1] /\ 1 \in DOMAIN forward
    BY <1>10, <2>1 DEF StartExport
  <2>3. \A i \in DOMAIN forward' : i + 1 \in DOMAIN forward
                                   /\ forward'[i] = forward[i + 1]
    BY <1>10, <2>1 DEF StartExport
  <2>4. /\ UNCHANGED <<pending, idgen, sending, exports>>
        /\ handing' = handing
        /\ working = NoEntry
    BY <1>10 DEF StartExport
  <2>5. ~ handing
    BY <2>4 DEF CarriedByAll
  <2> QED BY <2>2, <2>3, <2>4, <2>5 DEF CarriedByAll, Carried
<1>11. CASE FinishExport
  <2>1. working \in Entry /\ exports \in [Requests -> Nat]
    BY <1>11 DEF FinishExport, TypeOK
  <2>2. exports'[working.req] > 0
    BY <1>11, <2>1 DEF FinishExport, Entry
  <2> QED BY <1>11, <2>2 DEF FinishExport, CarriedByAll, Carried
<1>12. CASE HandDone
  BY <1>12 DEF HandDone, CarriedByAll, Carried
<1>13. ASSUME NEW id \in finishing, DataDone(id) \/ DataDoneFails(id)
       PROVE  CarriedByAll'
  <2>1. /\ pending' = Without(pending, id)
        /\ UNCHANGED <<idgen, sending, forward, working, handing, exports>>
    BY <1>13 DEF DataDone, DataDoneFails
  <2>2. \A i \in DOMAIN pending' :
           i \in DOMAIN pending /\ pending'[i] = pending[i]
    BY <2>1, WithoutType DEF TypeOK
  <2>3. idgen' \in Nat /\ idgen <= idgen'
    BY <2>1 DEF TypeOK
  <2> QED BY <2>1, <2>2, <2>3, CarriedKeptByAll
<1> QED
  BY <1>1, <1>2, <1>4, <1>5, <1>6, <1>8, <1>9, <1>10, <1>11, <1>12, <1>13
     DEF Next, RunStep, WorkerStep

\* What is removed from pending was exported.
LEMMA FinishingStep ==
    ASSUME TypeOK, TypeOK', IdsBounded, CarriedByAll, FinishingExported,
           DeadIsEmpty, [Next]_vars
    PROVE  FinishingExported'
<1> USE DEF vars, queue, goroutines, history
<1>0. \A r \in Requests : exports[r] > 0 => exports'[r] > 0
  BY ExportsGrow
<1>1. ASSUME finishing' \subseteq finishing,
             \A i \in finishing' \cap DOMAIN pending' :
                i \in DOMAIN pending /\ pending'[i] = pending[i]
      PROVE  FinishingExported'
  <2>1. \A i \in DOMAIN pending : pending[i] \in Requests
    BY DEF TypeOK, IsQueueMap
  <2> QED BY <1>0, <1>1, <2>1 DEF FinishingExported
<1>2. CASE Start \/ Crash \/ AddDataFails
  <2>1. finishing' = {}
    BY <1>2 DEF Start, Crash, AddDataFails, Die, DeadIsEmpty, NoMemory
  <2> QED BY <2>1 DEF FinishingExported
<1>3. CASE AddData
  <2>1. idgen \in Nat /\ idgen + 1 \in Nat \ {0} /\ intake \in Requests
    BY <1>3 DEF AddData, TypeOK
  <2>2. pending' = With(pending, idgen + 1, intake) /\ finishing' = finishing
    BY <1>3 DEF AddData
  <2>3. /\ DOMAIN pending' = DOMAIN pending \cup {idgen + 1}
        /\ \A i \in DOMAIN pending :
             i # idgen + 1 => pending'[i] = pending[i]
    BY <1>3, AddDataMap
  <2>4. \A i \in finishing : i # idgen + 1
    BY <2>1 DEF IdsBounded, TypeOK
  <2> QED BY <1>1, <2>2, <2>3, <2>4
<1>4. CASE HandDone
  <2>1. /\ finishing' = finishing \cup {working.id}
        /\ pending' = pending /\ exports' = exports
        /\ handing /\ working # NoEntry
    BY <1>4 DEF HandDone
  <2>2. working.id \in DOMAIN pending => exports[pending[working.id]] > 0
    BY <2>1 DEF CarriedByAll, Carried
  <2> QED BY <2>1, <2>2 DEF FinishingExported
<1>5. ASSUME NEW id \in finishing, DataDone(id) \/ DataDoneFails(id)
      PROVE  FinishingExported'
  <2>1. finishing' \subseteq finishing /\ pending' = Without(pending, id)
    BY <1>5 DEF DataDone, DataDoneFails
  <2>2. \A i \in DOMAIN pending' :
           i \in DOMAIN pending /\ pending'[i] = pending[i]
    BY <2>1, WithoutType DEF TypeOK
  <2> QED BY <1>1, <2>1, <2>2
<1>6. CASE UNCHANGED <<pending, finishing>>
  BY <1>1, <1>6
<1>7. ASSUME NEW r \in Requests, Intake(r) \/ Refuse(r)
      PROVE  UNCHANGED <<pending, finishing>>
  BY <1>7 DEF Intake, Refuse
<1>8. ASSUME NEW id \in toReplay, Replay(id)
      PROVE  UNCHANGED <<pending, finishing>>
  BY <1>8 DEF Replay
<1>9. CASE ReplayDone \/ Send \/ StartExport \/ FinishExport \/ Idle
           \/ UNCHANGED vars
  BY <1>6, <1>9 DEF ReplayDone, Send, StartExport, FinishExport, Idle
<1> QED
  BY <1>2, <1>3, <1>4, <1>5, <1>6, <1>7, <1>8, <1>9
     DEF Next, RunStep, WorkerStep

\* What the file lacks of pending, and what it holds beyond it.
LEMMA FileStep ==
    ASSUME TypeOK, TypeOK', FinishingExported, FileCoversPending,
           DeadIsEmpty, [Next]_vars
    PROVE  FileCoversPending'
<1> USE DEF vars, queue, goroutines, history
<1>0. \A r \in Requests : exports[r] > 0 => exports'[r] > 0
  BY ExportsGrow
<1>1. ASSUME file' = pending' PROVE FileCoversPending'
  BY <1>1 DEF FileCoversPending
<1>2. ASSUME UNCHANGED <<file, up, pending>> PROVE FileCoversPending'
  <2>1. \A i \in DOMAIN file : file[i] \in Requests
    BY DEF TypeOK, IsQueueMap
  <2> QED BY <1>0, <1>2, <2>1 DEF FileCoversPending
<1>3. CASE Start
  BY <1>1, <1>3 DEF Start
<1>4. CASE Crash \/ AddDataFails
  BY <1>4 DEF Crash, AddDataFails, Die, FileCoversPending
<1>5. CASE AddData
  BY <1>1, <1>5 DEF AddData
<1>6. ASSUME NEW id \in finishing, DataDone(id) PROVE FileCoversPending'
  BY <1>1, <1>6 DEF DataDone
<1>7. ASSUME NEW id \in finishing, DataDoneFails(id)
      PROVE  FileCoversPending'
  <2>1. /\ pending' = Without(pending, id)
        /\ UNCHANGED <<file, up, exports>>
    BY <1>7 DEF DataDoneFails
  <2>2. /\ DOMAIN pending' = DOMAIN pending \ {id}
        /\ \A i \in DOMAIN pending' : pending'[i] = pending[i]
    BY <2>1, WithoutType DEF TypeOK
  <2>3. up
    BY <1>7, LiveStep
  <2>4. id \in DOMAIN pending => file[id] = pending[id]
    BY <2>3 DEF FileCoversPending
  <2>5. id \in DOMAIN pending => exports[file[id]] > 0
    BY <2>4 DEF FinishingExported
  <2> QED BY <2>1, <2>2, <2>3, <2>5 DEF FileCoversPending
<1>8. ASSUME NEW r \in Requests, Intake(r) \/ Refuse(r)
      PROVE  UNCHANGED <<file, up, pending>>
  BY <1>8 DEF Intake, Refuse
<1>9. ASSUME NEW id \in toReplay, Replay(id)
      PROVE  UNCHANGED <<file, up, pending>>
  BY <1>9 DEF Replay
<1>10. CASE ReplayDone \/ Send \/ StartExport \/ FinishExport \/ HandDone
            \/ Idle \/ UNCHANGED vars
  BY <1>2, <1>10 DEF ReplayDone, Send, StartExport, FinishExport, HandDone,
     Idle
<1> QED
  BY <1>2, <1>3, <1>4, <1>5, <1>6, <1>7, <1>8, <1>9, <1>10
     DEF Next, RunStep, WorkerStep

\* An accepted request leaves the file only when it was exported.
LEMMA NothingLostStep ==
    ASSUME TypeOK, TypeOK', IdsBounded, FinishingExported, FileCoversPending,
           DeadIsEmpty, NothingLost, [Next]_vars
    PROVE  NothingLost'
<1> USE DEF vars, queue, goroutines, history
<1>0. \A r \in Requests : exports[r] > 0 => exports'[r] > 0
  BY ExportsGrow
<1>1. ASSUME UNCHANGED <<file, accepted>> PROVE NothingLost'
  BY <1>0, <1>1 DEF NothingLost, RequestsIn, TypeOK
<1>2. CASE AddData
  <2>0. up
    BY <1>2 DEF AddData
  <2>1. idgen \in Nat /\ idgen + 1 \in Nat \ {0} /\ intake \in Requests
    BY <1>2 DEF AddData, TypeOK
  <2>2. /\ pending' = With(pending, idgen + 1, intake)
        /\ file' = pending'
        /\ accepted' = accepted \cup {intake}
        /\ exports' = exports
    BY <1>2 DEF AddData
  <2>3. /\ DOMAIN pending' = DOMAIN pending \cup {idgen + 1}
        /\ pending'[idgen + 1] = intake
        /\ \A i \in DOMAIN pending :
             i # idgen + 1 => pending'[i] = pending[i]
    BY <1>2, AddDataMap
  <2>4. intake \in RequestsIn(file')
    BY <2>2, <2>3 DEF RequestsIn
  <2>5. \A i \in DOMAIN pending : i # idgen + 1
    BY <2>1 DEF IdsBounded, TypeOK, IsQueueMap
  <2>6. \A i \in DOMAIN file :
           exports[file[i]] > 0 \/ file[i] \in RequestsIn(file')
    <3>1. ASSUME NEW i \in DOMAIN pending
          PROVE  file[i] = file'[i] /\ i \in DOMAIN file'
      BY <2>0, <2>2, <2>3, <2>5 DEF FileCoversPending
    <3>2. \A i \in DOMAIN file \ DOMAIN pending : exports[file[i]] > 0
      BY <2>0 DEF FileCoversPending
    <3> QED BY <3>1, <3>2 DEF RequestsIn
  <2>7. ASSUME NEW r \in accepted
        PROVE  exports[r] > 0 \/ r \in RequestsIn(file')
    BY <2>6 DEF NothingLost, RequestsIn
  <2> QED BY <2>2, <2>4, <2>7 DEF NothingLost
<1>3. ASSUME NEW id \in finishing, DataDone(id) PROVE NothingLost'
  <2>1. /\ pending' = Without(pending, id) /\ file' = pending'
        /\ accepted' = accepted /\ exports' = exports
    BY <1>3 DEF DataDone
  <2>2. /\ DOMAIN pending' = DOMAIN pending \ {id}
        /\ \A i \in DOMAIN pending' : pending'[i] = pending[i]
    BY <2>1, WithoutType DEF TypeOK
  <2>3. up
    BY <1>3, LiveStep
  <2>4. \A i \in DOMAIN file :
           exports[file[i]] > 0 \/ file[i] \in RequestsIn(file')
    <3>1. ASSUME NEW i \in DOMAIN pending, i # id
          PROVE  file[i] = file'[i] /\ i \in DOMAIN file'
      <4>1. file[i] = pending[i]
        BY <2>3 DEF FileCoversPending
      <4>2. i \in DOMAIN pending' /\ pending'[i] = pending[i]
        BY <2>2, <3>1
      <4> QED BY <2>1, <4>1, <4>2
    <3>2. id \in DOMAIN pending => exports[file[id]] > 0
      BY <2>3 DEF FileCoversPending, FinishingExported
    <3>3. \A i \in DOMAIN file \ DOMAIN pending : exports[file[i]] > 0
      BY <2>3 DEF FileCoversPending
    <3> QED BY <3>1, <3>2, <3>3 DEF RequestsIn
  <2> QED BY <2>1, <2>4 DEF NothingLost, RequestsIn
<1>4. CASE ~AddData /\ ~ (\E id \in finishing : DataDone(id))
  <2>1. UNCHANGED <<file, accepted>>
    BY <1>4 DEF Next, RunStep, WorkerStep, Start, Crash, Intake, Refuse,
       ReplayDone, AddDataFails, Send, Replay, StartExport, FinishExport,
       HandDone, DataDoneFails, Idle
  <2> QED BY <1>1, <2>1
<1> QED BY <1>2, <1>3, <1>4

-----------------------------------------------------------------------------
(* The theorems                                                            *)

LEMMA IndInit == Init => IndInv
<1> SUFFICES ASSUME Init PROVE IndInv
  OBVIOUS
<1>1. TypeOK /\ FileIdsBounded
  BY TypeInit
<1>2. DOMAIN file = {} /\ DOMAIN pending = {}
  BY EmptyMapType DEF Init, NoMemory
<1>3. /\ forward = <<>> /\ sending = NoEntry /\ working = NoEntry
      /\ handing = FALSE /\ finishing = {} /\ accepted = {} /\ up = FALSE
  BY DEF Init, NoMemory
<1>4. CarriedByAll
  BY <1>3 DEF CarriedByAll
<1>5. IdsBounded /\ FinishingExported /\ FileCoversPending /\ NothingLost
  BY <1>2, <1>3 DEF IdsBounded, FinishingExported, FileCoversPending,
     NothingLost
<1>6. DeadIsEmpty
  BY DEF Init, DeadIsEmpty
<1> QED BY <1>1, <1>4, <1>5, <1>6 DEF IndInv, QueueInv

LEMMA IndStep == IndInv /\ [Next]_vars => IndInv'
<1> SUFFICES ASSUME IndInv, [Next]_vars PROVE IndInv'
  OBVIOUS
<1> USE DEF IndInv, QueueInv
<1>1. TypeOK'
  BY TypeStep
<1>2. CarriedByAll'
  BY CarriedStep
<1>3. IdsBounded' /\ FileIdsBounded'
  BY IdsStep
<1>4. FinishingExported'
  BY <1>1, FinishingStep
<1>5. FileCoversPending'
  BY <1>1, FileStep
<1>6. DeadIsEmpty'
  BY DeadStep
<1>7. NothingLost'
  BY <1>1, NothingLostStep
<1> QED BY <1>1, <1>2, <1>3, <1>4, <1>5, <1>6, <1>7

LEMMA Inductive == Spec => []IndInv
BY IndInit, IndStep, PTL DEF Spec

\* Type correctness of the queue in every reachable state.
THEOREM TypeCorrect == Spec => []TypeOK
<1>1. IndInv => TypeOK
  BY DEF IndInv, QueueInv
<1> QED BY <1>1, Inductive, PTL

\* However often the process dies and whichever saves fail, an accepted
\* request stays in the file until it was exported.
THEOREM NothingIsLost == Spec => []NothingLost
<1>1. IndInv => NothingLost
  BY DEF IndInv, QueueInv
<1> QED BY <1>1, Inductive, PTL

-----------------------------------------------------------------------------
(* Every entry is at one place.                                            *)

DistinctForward ==
    \A i, j \in DOMAIN forward : i # j => forward[i].id # forward[j].id

\* EveryEntryTracked without its sequence of places.
Tracked ==
    LET s == IdsIn(sending)
        w == IdsIn(working)
    IN  /\ DOMAIN pending = toReplay \cup s \cup ForwardIds \cup w \cup finishing
        /\ toReplay \cap (s \cup ForwardIds \cup w \cup finishing) = {}
        /\ s \cap (ForwardIds \cup w \cup finishing) = {}
        /\ ForwardIds \cap (w \cup finishing) = {}
        /\ w \cap finishing = {}
        /\ DistinctForward
        /\ waiters = ForwardIds \cup w

LEMMA TrackedPlaces == Tracked => EveryEntryTracked
<1> SUFFICES ASSUME Tracked PROVE EveryEntryTracked
  OBVIOUS
<1> DEFINE places == <<toReplay, IdsIn(sending), ForwardIds, IdsIn(working), finishing>>
<1>1. /\ places[1] = toReplay /\ places[2] = IdsIn(sending) /\ places[3] = ForwardIds
      /\ places[4] = IdsIn(working) /\ places[5] = finishing
  OBVIOUS
<1>2. 1 .. 5 = {1, 2, 3, 4, 5}
  OBVIOUS
<1> HIDE DEF places
<1>3. UNION {places[p] : p \in 1 .. 5} =
        places[1] \cup places[2] \cup places[3] \cup places[4] \cup places[5]
  BY <1>2
<1>4. \A p, q \in 1 .. 5 : p # q => places[p] \cap places[q] = {}
  BY <1>1, <1>2 DEF Tracked
<1> QED
  BY <1>1, <1>3, <1>4 DEF Tracked, DistinctForward, EveryEntryTracked, places

\* The ids in the channel when an entry is appended, and when the first is taken.
LEMMA ForwardIdsAppend ==
    ASSUME TypeOK, NEW e \in Entry, forward' = Append(forward, e),
           e.id \notin ForwardIds, DistinctForward
    PROVE  ForwardIds' = ForwardIds \cup {e.id} /\ DistinctForward'
<1>1. /\ forward \in Seq(Entry) /\ DOMAIN forward' = DOMAIN forward \cup {Len(forward) + 1}
      /\ \A i \in DOMAIN forward : forward'[i] = forward[i]
      /\ forward'[Len(forward) + 1] = e /\ Len(forward) + 1 \notin DOMAIN forward
  BY DEF TypeOK
<1>2. \A i \in DOMAIN forward : forward[i].id # e.id
  BY DEF ForwardIds
<1> QED
  BY <1>1, <1>2 DEF ForwardIds, DistinctForward

LEMMA ForwardIdsTail ==
    ASSUME TypeOK, forward # <<>>, forward' = Tail(forward), DistinctForward
    PROVE  /\ ForwardIds = ForwardIds' \cup {Head(forward).id}
           /\ Head(forward).id \notin ForwardIds' /\ DistinctForward'
           /\ Head(forward) \in Entry
<1>1. /\ forward \in Seq(Entry) /\ Len(forward) \in Nat /\ Len(forward) > 0
      /\ Len(forward') = Len(forward) - 1
      /\ DOMAIN forward = 1 .. Len(forward) /\ DOMAIN forward' = 1 .. Len(forward) - 1
      /\ \A i \in DOMAIN forward' : forward'[i] = forward[i + 1]
      /\ Head(forward) = forward[1] /\ 1 \in DOMAIN forward
  BY DEF TypeOK
<1>2. \A i \in DOMAIN forward' : i + 1 \in DOMAIN forward /\ i + 1 # 1 /\ i \in Nat
  BY <1>1
<1>3. \A i \in DOMAIN forward : i # 1 =>
         i - 1 \in DOMAIN forward' /\ forward'[i - 1] = forward[i]
  BY <1>1
<1>4. ForwardIds = ForwardIds' \cup {Head(forward).id}
  <2>1. \A i \in DOMAIN forward : forward[i].id \in ForwardIds' \cup {Head(forward).id}
    BY <1>1, <1>3 DEF ForwardIds
  <2>2. \A i \in DOMAIN forward' : forward'[i].id \in ForwardIds
    BY <1>1, <1>2 DEF ForwardIds
  <2> QED
    BY <1>1, <2>1, <2>2 DEF ForwardIds
<1>5. Head(forward).id \notin ForwardIds'
  BY <1>1, <1>2 DEF ForwardIds, DistinctForward
<1>6. DistinctForward'
  <2>1. ASSUME NEW i \in DOMAIN forward', NEW j \in DOMAIN forward', i # j
        PROVE  forward'[i].id # forward'[j].id
    <3>1. i + 1 # j + 1 /\ i + 1 \in DOMAIN forward /\ j + 1 \in DOMAIN forward
      BY <1>2, <2>1
    <3> QED
      BY <1>1, <2>1, <3>1 DEF DistinctForward
  <2> QED
    BY <2>1 DEF DistinctForward
<1> QED
  BY <1>1, <1>4, <1>5, <1>6

LEMMA ForwardIdsEmpty ==
    ASSUME forward = <<>>
    PROVE  ForwardIds = {} /\ DistinctForward
BY DEF ForwardIds, DistinctForward

\* NoEntry is no entry: the ids of what a goroutine holds.
LEMMA IdsInEntry ==
    /\ IdsIn(NoEntry) = {}
    /\ \A e \in Entry : e # NoEntry /\ IdsIn(e) = {e.id}
BY NoEntryAssumption DEF IdsIn

\* A process without memory tracks its entries, all of them in the replay.
LEMMA TrackedWithoutMemory ==
    ASSUME sending = NoEntry, working = NoEntry, forward = <<>>,
           waiters = {}, finishing = {}, DOMAIN pending = toReplay
    PROVE  Tracked
BY ForwardIdsEmpty, IdsInEntry DEF Tracked

LEMMA TrackedStep ==
    ASSUME IndInv, TypeOK', Tracked, [Next]_vars
    PROVE  Tracked'
<1> USE DEF vars, queue, goroutines, history
<1>0. TypeOK /\ IdsBounded /\ DeadIsEmpty /\ CarriedByAll
  BY DEF IndInv, QueueInv
<1>1. CASE UNCHANGED <<pending, toReplay, sending, forward, working, waiters,
                       finishing>>
  BY <1>1 DEF Tracked, IdsIn, ForwardIds, DistinctForward
<1>2. CASE Start
  <2>1. sending' = NoEntry /\ working' = NoEntry /\ forward' = <<>>
        /\ waiters' = {} /\ finishing' = {} /\ DOMAIN pending' = toReplay'
    BY <1>0, <1>2 DEF Start, DeadIsEmpty, NoMemory
  <2>2. ForwardIds' = {} /\ DistinctForward'
    BY <2>1 DEF ForwardIds, DistinctForward
  <2>3. IdsIn(sending') = {} /\ IdsIn(working') = {}
    BY <2>1, IdsInEntry
  <2> QED BY <2>1, <2>2, <2>3 DEF Tracked
<1>3. CASE Crash \/ AddDataFails
  <2>1. sending' = NoEntry /\ working' = NoEntry /\ forward' = <<>>
        /\ waiters' = {} /\ finishing' = {} /\ DOMAIN pending' = toReplay'
    BY <1>3, EmptyMapType DEF Crash, AddDataFails, Die
  <2>2. ForwardIds' = {} /\ DistinctForward'
    BY <2>1 DEF ForwardIds, DistinctForward
  <2>3. IdsIn(sending') = {} /\ IdsIn(working') = {}
    BY <2>1, IdsInEntry
  <2> QED BY <2>1, <2>2, <2>3 DEF Tracked
<1>4. CASE AddData
  <2>1. sending = NoEntry /\ sending' = [id |-> idgen + 1, req |-> intake]
        /\ UNCHANGED <<toReplay, forward, working, waiters, finishing>>
        /\ intake \in Requests /\ idgen \in Nat
    BY <1>0, <1>4 DEF AddData, TypeOK
  <2>2. DOMAIN pending' = DOMAIN pending \cup {idgen + 1}
    BY <1>0, <1>4, AddDataMap
  <2>3. idgen + 1 \notin DOMAIN pending
    BY <1>0, <2>1 DEF IdsBounded, TypeOK, IsQueueMap
  <2>4. sending' \in Entry
    BY <2>1 DEF Entry
  <2>5. IdsIn(sending) = {} /\ IdsIn(sending') = {idgen + 1}
    BY <2>1, <2>4, IdsInEntry
  <2>6. ForwardIds' = ForwardIds /\ DistinctForward'
    BY <2>1 DEF ForwardIds, DistinctForward, Tracked
  <2>7. IdsIn(working') = IdsIn(working)
    BY <2>1
  <2> QED BY <2>1, <2>2, <2>3, <2>5, <2>6, <2>7 DEF Tracked
<1>5. CASE Send
  <2>1. sending \in Entry /\ forward' = Append(forward, sending)
        /\ waiters' = waiters \cup {sending.id} /\ sending' = NoEntry
        /\ UNCHANGED <<pending, toReplay, working, finishing>>
    BY <1>0, <1>5 DEF Send, Forward, TypeOK
  <2>2. IdsIn(sending) = {sending.id} /\ IdsIn(sending') = {}
    BY <2>1, IdsInEntry
  <2>3. sending.id \notin ForwardIds /\ DistinctForward
    BY <2>2 DEF Tracked
  <2>4. ForwardIds' = ForwardIds \cup {sending.id} /\ DistinctForward'
    BY <1>0, <2>1, <2>3, ForwardIdsAppend
  <2>5. IdsIn(working') = IdsIn(working)
    BY <2>1
  <2> QED BY <2>1, <2>2, <2>4, <2>5 DEF Tracked
<1>6. ASSUME NEW id \in toReplay, Replay(id) PROVE Tracked'
  <2> DEFINE e == EntryOf(pending, id)
  <2>1. e \in Entry /\ e.id = id
    BY <1>0, <1>6 DEF TypeOK, IsQueueMap, EntryOf, Entry
  <2>2. forward' = Append(forward, e)
        /\ waiters' = waiters \cup {e.id} /\ toReplay' = toReplay \ {id}
        /\ UNCHANGED <<pending, sending, working, finishing>>
    BY <1>6 DEF Replay, Forward
  <2>3. e.id \notin ForwardIds /\ DistinctForward
    BY <1>6, <2>1 DEF Tracked
  <2> HIDE DEF e
  <2>4. ForwardIds' = ForwardIds \cup {id} /\ DistinctForward'
    BY <1>0, <2>1, <2>2, <2>3, ForwardIdsAppend
  <2>5. IdsIn(working') = IdsIn(working) /\ IdsIn(sending') = IdsIn(sending)
    BY <2>2
  <2> QED BY <1>6, <2>1, <2>2, <2>4, <2>5 DEF Tracked
<1>7. CASE StartExport
  <2>1. working = NoEntry /\ forward # <<>> /\ working' = Head(forward)
        /\ forward' = Tail(forward)
        /\ UNCHANGED <<pending, toReplay, sending, waiters, finishing>>
    BY <1>7 DEF StartExport
  <2>2. DistinctForward
    BY DEF Tracked
  <2>3. /\ ForwardIds = ForwardIds' \cup {Head(forward).id}
        /\ Head(forward).id \notin ForwardIds' /\ DistinctForward'
        /\ Head(forward) \in Entry
    BY <1>0, <2>1, <2>2, ForwardIdsTail
  <2>4. IdsIn(working) = {} /\ IdsIn(working') = {Head(forward).id}
    BY <2>1, <2>3, IdsInEntry
  <2>5. IdsIn(sending') = IdsIn(sending)
    BY <2>1
  <2> QED BY <2>1, <2>3, <2>4, <2>5 DEF Tracked
<1>8. CASE HandDone
  <2>1. working \in Entry /\ working' = NoEntry
        /\ waiters' = waiters \ {working.id}
        /\ finishing' = finishing \cup {working.id}
        /\ UNCHANGED <<pending, toReplay, sending, forward>>
    BY <1>0, <1>8 DEF HandDone, TypeOK
  <2>2. IdsIn(working) = {working.id} /\ IdsIn(working') = {}
    BY <2>1, IdsInEntry
  <2>3. ForwardIds' = ForwardIds /\ DistinctForward'
    BY <2>1 DEF ForwardIds, DistinctForward, Tracked
  <2>4. IdsIn(sending') = IdsIn(sending)
    BY <2>1
  <2> QED BY <2>1, <2>2, <2>3, <2>4 DEF Tracked
<1>9. ASSUME NEW id \in finishing, DataDone(id) \/ DataDoneFails(id)
      PROVE  Tracked'
  <2>1. /\ pending' = Without(pending, id) /\ finishing' = finishing \ {id}
        /\ UNCHANGED <<toReplay, sending, forward, working, waiters>>
    BY <1>9 DEF DataDone, DataDoneFails
  <2>2. DOMAIN pending' = DOMAIN pending \ {id}
    BY <1>0, <2>1, WithoutType DEF TypeOK
  <2>3. ForwardIds' = ForwardIds /\ DistinctForward'
    BY <2>1 DEF ForwardIds, DistinctForward, Tracked
  <2>4. IdsIn(sending') = IdsIn(sending) /\ IdsIn(working') = IdsIn(working)
    BY <2>1
  <2> QED BY <1>9, <2>1, <2>2, <2>3, <2>4 DEF Tracked
<1>10. ASSUME NEW r \in Requests, Intake(r) \/ Refuse(r) PROVE Tracked'
  BY <1>1, <1>10 DEF Intake, Refuse
<1>11. CASE ReplayDone \/ FinishExport \/ Idle \/ UNCHANGED vars
  BY <1>1, <1>11 DEF ReplayDone, FinishExport, Idle
<1> QED
  BY <1>2, <1>3, <1>4, <1>5, <1>6, <1>7, <1>8, <1>9, <1>10, <1>11
     DEF Next, RunStep, WorkerStep

LEMMA TrackedInit == Init => Tracked
<1> SUFFICES ASSUME Init PROVE Tracked
  OBVIOUS
<1>1. DOMAIN pending = {} /\ toReplay = {}
  BY EmptyMapType DEF Init, NoMemory
<1> QED BY <1>1, TrackedWithoutMemory DEF Init, NoMemory

LEMMA TrackedInvariant == Spec => []Tracked
<1>1. IndInv' => TypeOK'
  BY DEF IndInv, QueueInv
<1>2. IndInv /\ IndInv' /\ Tracked /\ [Next]_vars => Tracked'
  BY <1>1, TrackedStep
<1> QED BY <1>2, TrackedInit, Inductive, PTL DEF Spec

\* No entry of the queue is ever stuck, doubled or left without a waiter.
THEOREM EntriesTracked == Spec => []EveryEntryTracked
BY TrackedInvariant, TrackedPlaces, PTL

-----------------------------------------------------------------------------
(* One export per start of the process.  The bound holds for a request that *)
(* was exported as often as the process was started; the export of another *)
(* one must find its count below the bound: every entry of pending which   *)
(* this process has not exported has one left.  That needs a request to be *)
(* under one id only, so a request that is saved must be a new one.        *)

NoRequestTwice(map) ==
    \A i, j \in DOMAIN map : i # j => map[i] # map[j]

\* The export of an entry by this process has ended.
ExportedNow(id) == id \in finishing \/ (handing /\ working.id = id)

NewRequests ==
    /\ accepted \subseteq delivered
    /\ intake # NoRequest => intake \in delivered /\ intake \notin accepted
    /\ \A i \in DOMAIN file : file[i] \in accepted
    /\ \A i \in DOMAIN pending : pending[i] \in accepted
    /\ \A r \in Requests : exports[r] > 0 => r \in accepted
    /\ NoRequestTwice(file) /\ NoRequestTwice(pending)

OneLeft ==
    /\ up => boots >= 1
    /\ AtMostOncePerBoot
    /\ \A i \in DOMAIN pending : ~ ExportedNow(i) => exports[pending[i]] < boots

LEMMA NewRequestsStep ==
    ASSUME IndInv, TypeOK', Tracked, NewRequests, [Next]_vars
    PROVE  NewRequests'
<1> USE DEF vars, queue, goroutines, history
<1>0. TypeOK /\ IdsBounded /\ DeadIsEmpty /\ CarriedByAll
  BY DEF IndInv, QueueInv
<1>1. CASE UNCHANGED <<file, pending, intake, delivered, accepted, exports>>
  BY <1>1 DEF NewRequests, NoRequestTwice
<1>2. CASE Start
  <2>1. pending' = file /\ UNCHANGED <<file, intake, delivered, accepted, exports>>
    BY <1>2 DEF Start
  <2> QED BY <2>1 DEF NewRequests, NoRequestTwice
<1>3. CASE Crash \/ AddDataFails
  <2>1. DOMAIN pending' = {} /\ intake' = NoRequest
        /\ UNCHANGED <<file, delivered, accepted, exports>>
    BY <1>3, EmptyMapType DEF Crash, AddDataFails, Die
  <2> QED BY <2>1 DEF NewRequests, NoRequestTwice
<1>4. CASE AddData
  <2>1. /\ intake \in Requests /\ intake # NoRequest /\ intake' = NoRequest
        /\ file' = pending' /\ accepted' = accepted \cup {intake}
        /\ UNCHANGED <<delivered, exports>> /\ idgen \in Nat
    BY <1>0, <1>4 DEF AddData, TypeOK
  <2>2. /\ DOMAIN pending' = DOMAIN pending \cup {idgen + 1}
        /\ pending'[idgen + 1] = intake
        /\ \A i \in DOMAIN pending : i # idgen + 1 => pending'[i] = pending[i]
    BY <1>0, <1>4, AddDataMap
  <2>3. \A i \in DOMAIN pending : pending[i] # intake
    BY <2>1 DEF NewRequests
  <2>4. NoRequestTwice(pending)'
    BY <2>2, <2>3 DEF NewRequests, NoRequestTwice
  <2>5. \A i \in DOMAIN pending' : pending'[i] \in accepted'
    BY <2>1, <2>2 DEF NewRequests
  <2>6. NoRequestTwice(file)'
    BY <2>1, <2>4 DEF NoRequestTwice
  <2> QED BY <2>1, <2>4, <2>5, <2>6 DEF NewRequests
<1>5. CASE FinishExport
  <2>1. working \in Entry /\ working.req \in Requests
        /\ exports' = [exports EXCEPT ![working.req] = @ + 1]
        /\ UNCHANGED <<file, pending, intake, delivered, accepted>>
    BY <1>0, <1>5 DEF FinishExport, TypeOK, Entry
  <2>2. IdsIn(working) = {working.id}
    BY <2>1, IdsInEntry
  <2>3. working.id \in DOMAIN pending /\ pending[working.id] = working.req
    BY <1>0, <1>5, <2>2 DEF FinishExport, Tracked, CarriedByAll, Carried
  <2>4. working.req \in accepted
    BY <2>3 DEF NewRequests
  <2>5. \A r \in Requests : r # working.req => exports'[r] = exports[r]
    BY <1>0, <2>1 DEF TypeOK
  <2>6. \A r \in Requests : exports'[r] > 0 => r \in accepted
    BY <2>4, <2>5 DEF NewRequests
  <2> QED BY <2>1, <2>6 DEF NewRequests, NoRequestTwice
<1>6. ASSUME NEW id \in finishing, DataDone(id) \/ DataDoneFails(id)
      PROVE  NewRequests'
  <2>1. /\ pending' = Without(pending, id)
        /\ file' = file \/ file' = pending'
        /\ UNCHANGED <<intake, delivered, accepted, exports>>
    BY <1>6 DEF DataDone, DataDoneFails
  <2>2. /\ DOMAIN pending' \subseteq DOMAIN pending
        /\ \A i \in DOMAIN pending' : pending'[i] = pending[i]
    BY <1>0, <2>1, WithoutType DEF TypeOK
  <2>3. NoRequestTwice(pending)' /\ \A i \in DOMAIN pending' : pending'[i] \in accepted
    BY <2>2 DEF NewRequests, NoRequestTwice
  <2> QED BY <2>1, <2>3 DEF NewRequests, NoRequestTwice
<1>7. ASSUME NEW r \in Requests, Intake(r) PROVE NewRequests'
  <2>1. r \notin delivered /\ delivered' = delivered \cup {r} /\ intake' = r
        /\ UNCHANGED <<file, pending, accepted, exports>>
    BY <1>7 DEF Intake
  <2> QED BY <2>1 DEF NewRequests, NoRequestTwice
<1>8. ASSUME NEW r \in Requests, Refuse(r) PROVE NewRequests'
  <2>1. delivered' = delivered \cup {r}
        /\ UNCHANGED <<intake, file, pending, accepted, exports>>
    BY <1>8 DEF Refuse
  <2> QED BY <2>1 DEF NewRequests, NoRequestTwice
<1>9. ASSUME NEW id \in toReplay, Replay(id) PROVE NewRequests'
  BY <1>1, <1>9 DEF Replay
<1>10. CASE ReplayDone \/ Send \/ StartExport \/ HandDone \/ Idle \/ UNCHANGED vars
  BY <1>1, <1>10 DEF ReplayDone, Send, StartExport, HandDone, Idle
<1> QED
  BY <1>2, <1>3, <1>4, <1>5, <1>6, <1>7, <1>8, <1>9, <1>10
     DEF Next, RunStep, WorkerStep

LEMMA OneLeftStep ==
    ASSUME IndInv, TypeOK', Tracked, NewRequests, OneLeft, [Next]_vars
    PROVE  OneLeft'
<1> USE DEF vars, queue, goroutines, history
<1>0. TypeOK /\ IdsBounded /\ DeadIsEmpty /\ CarriedByAll
  BY DEF IndInv, QueueInv
<1>1. CASE UNCHANGED <<up, boots, exports, pending, finishing, working, handing>>
  BY <1>1 DEF OneLeft, AtMostOncePerBoot, ExportedNow
<1>2. CASE Start
  <2>1. pending' = file /\ boots' = boots + 1 /\ exports' = exports
    BY <1>2 DEF Start
  <2>2. boots \in Nat /\ \A r \in Requests : exports[r] \in Nat /\ exports[r] <= boots
    BY <1>0 DEF TypeOK, OneLeft, AtMostOncePerBoot
  <2>3. \A i \in DOMAIN file : file[i] \in Requests
    BY <1>0 DEF TypeOK, IsQueueMap
  <2>4. \A r \in Requests : exports[r] < boots + 1
    BY <2>2
  <2> QED BY <2>1, <2>2, <2>3, <2>4 DEF OneLeft, AtMostOncePerBoot
<1>3. CASE Crash \/ AddDataFails
  <2>1. DOMAIN pending' = {} /\ up' = FALSE /\ boots' = boots /\ exports' = exports
    BY <1>3, EmptyMapType DEF Crash, AddDataFails, Die
  <2> QED BY <2>1 DEF OneLeft, AtMostOncePerBoot
<1>4. CASE AddData
  <2>1. /\ intake \in Requests /\ intake # NoRequest /\ up /\ idgen \in Nat
        /\ UNCHANGED <<up, boots, exports, finishing, working, handing>>
    BY <1>0, <1>4 DEF AddData, TypeOK
  <2>2. /\ DOMAIN pending' = DOMAIN pending \cup {idgen + 1}
        /\ pending'[idgen + 1] = intake
        /\ \A i \in DOMAIN pending : i # idgen + 1 => pending'[i] = pending[i]
    BY <1>0, <1>4, AddDataMap
  <2>3. ~ (exports[intake] > 0)
    BY <2>1 DEF NewRequests
  <2>4. exports[intake] \in Nat /\ boots \in Nat /\ boots >= 1
    BY <1>0, <2>1 DEF TypeOK, OneLeft
  <2>5. exports[intake] < boots
    BY <2>3, <2>4
  <2> QED BY <2>1, <2>2, <2>5 DEF OneLeft, AtMostOncePerBoot, ExportedNow
<1>5. CASE FinishExport
  <2>1. working \in Entry /\ working.req \in Requests /\ ~ handing /\ handing'
        /\ exports' = [exports EXCEPT ![working.req] = @ + 1]
        /\ UNCHANGED <<up, boots, pending, finishing, working>>
    BY <1>0, <1>5 DEF FinishExport, TypeOK, Entry
  <2>2. IdsIn(working) = {working.id}
    BY <2>1, IdsInEntry
  <2>3. /\ working.id \in DOMAIN pending /\ pending[working.id] = working.req
        /\ working.id \notin finishing
    BY <1>0, <1>5, <2>2 DEF FinishExport, Tracked, CarriedByAll, Carried
  <2>4. exports[working.req] < boots
    BY <2>1, <2>3 DEF OneLeft, ExportedNow
  <2>5. /\ boots \in Nat /\ exports \in [Requests -> Nat]
        /\ \A r \in Requests : r # working.req => exports'[r] = exports[r]
        /\ exports'[working.req] = exports[working.req] + 1
    BY <1>0, <2>1 DEF TypeOK
  <2>6. exports'[working.req] <= boots
    BY <2>1, <2>4, <2>5
  <2>7. AtMostOncePerBoot'
    BY <2>1, <2>5, <2>6 DEF OneLeft, AtMostOncePerBoot
  <2>8. ASSUME NEW i \in DOMAIN pending, ~ ExportedNow(i)'
        PROVE  exports'[pending[i]] < boots
    <3>1. i # working.id /\ ~ ExportedNow(i)
      BY <2>1, <2>8 DEF ExportedNow
    <3>2. pending[i] # working.req /\ pending[i] \in Requests
      BY <1>0, <2>3, <3>1 DEF NewRequests, NoRequestTwice, TypeOK, IsQueueMap
    <3>3. exports[pending[i]] < boots
      BY <3>1 DEF OneLeft
    <3> QED BY <2>5, <3>2, <3>3
  <2> QED BY <2>1, <2>7, <2>8 DEF OneLeft
<1>6. CASE HandDone
  <2>1. handing /\ ~ handing' /\ finishing' = finishing \cup {working.id}
        /\ UNCHANGED <<up, boots, exports, pending>>
    BY <1>6 DEF HandDone
  <2> QED BY <2>1 DEF OneLeft, AtMostOncePerBoot, ExportedNow
<1>7. CASE StartExport
  <2>1. ~ handing
    BY <1>0, <1>7 DEF StartExport, CarriedByAll
  <2>2. UNCHANGED <<up, boots, exports, pending, finishing, handing>>
    BY <1>7 DEF StartExport
  <2> QED BY <2>1, <2>2 DEF OneLeft, AtMostOncePerBoot, ExportedNow
<1>8. ASSUME NEW id \in finishing, DataDone(id) \/ DataDoneFails(id)
      PROVE  OneLeft'
  <2>1. /\ pending' = Without(pending, id) /\ finishing' = finishing \ {id}
        /\ UNCHANGED <<up, boots, exports, working, handing>>
    BY <1>8 DEF DataDone, DataDoneFails
  <2>2. /\ DOMAIN pending' = DOMAIN pending \ {id}
        /\ \A i \in DOMAIN pending' : pending'[i] = pending[i]
    BY <1>0, <2>1, WithoutType DEF TypeOK
  <2> QED BY <2>1, <2>2 DEF OneLeft, AtMostOncePerBoot, ExportedNow
<1>9. ASSUME NEW r \in Requests, Intake(r) \/ Refuse(r) PROVE OneLeft'
  BY <1>1, <1>9 DEF Intake, Refuse
<1>10. ASSUME NEW id \in toReplay, Replay(id) PROVE OneLeft'
  BY <1>1, <1>10 DEF Replay
<1>11. CASE ReplayDone \/ Send \/ Idle \/ UNCHANGED vars
  BY <1>1, <1>11 DEF ReplayDone, Send, Idle
<1> QED
  BY <1>2, <1>3, <1>4, <1>5, <1>6, <1>7, <1>8, <1>9, <1>10, <1>11
     DEF Next, RunStep, WorkerStep

LEMMA OnceInit == Init => NewRequests /\ OneLeft
<1> SUFFICES ASSUME Init PROVE NewRequests /\ OneLeft
  OBVIOUS
<1>1. /\ DOMAIN file = {} /\ DOMAIN pending = {} /\ intake = NoRequest
      /\ up = FALSE /\ boots = 0 /\ accepted = {}
      /\ \A r \in Requests : exports[r] = 0
  BY EmptyMapType DEF Init, NoMemory
<1> QED BY <1>1 DEF NewRequests, NoRequestTwice, OneLeft, AtMostOncePerBoot

\* Whatever saves fail, a request is exported at most once per start of the
\* process.
THEOREM OncePerBoot == Spec => []AtMostOncePerBoot
<1>1. IndInv' => TypeOK'
  BY DEF IndInv, QueueInv
<1>2. IndInv /\ IndInv' /\ Tracked /\ (NewRequests /\ OneLeft) /\ [Next]_vars
        => (NewRequests /\ OneLeft)'
  BY <1>1, NewRequestsStep, OneLeftStep
<1>3. OneLeft => AtMostOncePerBoot
  BY DEF OneLeft
<1> QED
  BY <1>2, <1>3, OnceInit, TrackedInvariant, Inductive, PTL DEF Spec

-----------------------------------------------------------------------------
(* The order in which entries are served.  Those saved before the start    *)
(* are replayed in any order; the new ones follow them in the channel, in  *)
(* the order of their ids, which is that of their saves.                   *)

InOrder ==
    /\ bootMax <= idgen \/ ~up
    /\ replaying =>
         /\ idgen = bootMax /\ sending = NoEntry
         /\ \A i \in DOMAIN forward : forward[i].id <= bootMax
    /\ sending # NoEntry => sending.id = idgen
    /\ \A i, j \in DOMAIN forward :
         i < j /\ forward[i].id > bootMax => forward[i].id <= forward[j].id

LEMMA InOrderStep ==
    ASSUME IndInv, TypeOK', InOrder, [Next]_vars
    PROVE  InOrder'
<1> USE DEF vars, queue, goroutines, history
<1>0. TypeOK /\ IdsBounded /\ DeadIsEmpty /\ CarriedByAll
  BY DEF IndInv, QueueInv
<1>1. CASE UNCHANGED <<up, idgen, bootMax, replaying, sending, forward>>
  BY <1>1 DEF InOrder
<1>2. CASE Start
  <2>1. /\ idgen' = bootMax' /\ sending' = NoEntry /\ forward' = <<>>
        /\ idgen' \in Nat
    BY <1>0, <1>2 DEF Start, DeadIsEmpty, NoMemory, TypeOK
  <2> QED BY <2>1 DEF InOrder
<1>3. CASE Crash \/ AddDataFails
  <2>1. ~ up' /\ ~ replaying' /\ sending' = NoEntry /\ forward' = <<>>
    BY <1>3 DEF Crash, AddDataFails, Die
  <2> QED BY <2>1 DEF InOrder
<1>4. CASE AddData
  <2>1. /\ ~ replaying /\ idgen \in Nat /\ bootMax \in Nat /\ idgen' = idgen + 1
        /\ up /\ sending' = [id |-> idgen + 1, req |-> intake]
        /\ UNCHANGED <<up, bootMax, replaying, forward>>
    BY <1>0, <1>4 DEF AddData, TypeOK
  <2> QED BY <2>1 DEF InOrder
<1>5. ASSUME NEW e \in Entry, forward' = Append(forward, e),
             UNCHANGED <<up, idgen, bootMax, replaying>>,
             sending' = NoEntry,
             \/ e.id = idgen /\ ~ replaying
             \/ e.id <= bootMax /\ replaying
      PROVE  InOrder'
  <2>1. PICK n \in Nat : n = Len(forward)
    BY <1>0 DEF TypeOK
  <2>2. /\ DOMAIN forward = 1 .. n /\ DOMAIN forward' = 1 .. n + 1
        /\ forward'[n + 1] = e
        /\ \A i \in 1 .. n : forward'[i] = forward[i] /\ forward[i] \in Entry
    BY <1>0, <1>5, <2>1 DEF TypeOK
  <2>3. /\ e.id \in Nat /\ bootMax \in Nat /\ idgen \in Nat
        /\ \A i \in 1 .. n : forward[i].id \in Nat
    BY <1>0, <2>2 DEF Entry, TypeOK
  <2>4. \A i \in 1 .. n : forward[i].id <= idgen
    BY <1>0, <2>2 DEF CarriedByAll, Carried
  <2>5. \A i \in 1 .. n : forward[i].id > bootMax => forward[i].id <= e.id
    BY <1>5, <2>2, <2>3, <2>4 DEF InOrder
  <2>6. \A i, j \in DOMAIN forward' :
           i < j /\ forward'[i].id > bootMax => forward'[i].id <= forward'[j].id
    BY <2>2, <2>5 DEF InOrder
  <2>7. replaying => \A i \in DOMAIN forward' : forward'[i].id <= bootMax
    BY <1>5, <2>2, <2>3 DEF InOrder
  <2> QED BY <1>5, <2>6, <2>7 DEF InOrder
<1>6. CASE Send
  <2>1. /\ sending \in Entry /\ sending # NoEntry
        /\ forward' = Append(forward, sending) /\ sending' = NoEntry
        /\ UNCHANGED <<up, idgen, bootMax, replaying>>
    BY <1>0, <1>6 DEF Send, Forward, TypeOK
  <2>2. sending # NoEntry
    BY <2>1
  <2>3. sending.id = idgen /\ ~ replaying
    BY <2>2 DEF InOrder
  <2> QED BY <1>5, <2>1, <2>3
<1>7. ASSUME NEW id \in toReplay, Replay(id) PROVE InOrder'
  <2> DEFINE e == EntryOf(pending, id)
  <2>1. e \in Entry /\ e.id = id /\ id \in DOMAIN pending
    BY <1>0, <1>7 DEF TypeOK, IsQueueMap, EntryOf, Entry
  <2>2. /\ replaying /\ forward' = Append(forward, e)
        /\ UNCHANGED <<up, idgen, bootMax, replaying, sending>>
    BY <1>7 DEF Replay, Forward
  <2>3. e.id <= bootMax /\ sending' = NoEntry
    BY <1>0, <2>1, <2>2 DEF InOrder, IdsBounded
  <2> HIDE DEF e
  <2> QED BY <1>5, <2>1, <2>2, <2>3
<1>8. CASE StartExport
  <2>1. /\ forward # <<>> /\ forward' = Tail(forward)
        /\ UNCHANGED <<up, idgen, bootMax, replaying, sending>>
    BY <1>8 DEF StartExport
  <2>2. /\ DOMAIN forward = 1 .. Len(forward) /\ Len(forward) \in Nat
        /\ DOMAIN forward' = 1 .. Len(forward) - 1
        /\ \A i \in DOMAIN forward' : forward'[i] = forward[i + 1]
    BY <1>0, <2>1 DEF TypeOK
  <2>3. \A i \in DOMAIN forward' : i \in Nat /\ i + 1 \in DOMAIN forward
    BY <2>2
  <2>4. \A i, j \in DOMAIN forward' :
           i < j /\ forward'[i].id > bootMax => forward'[i].id <= forward'[j].id
    <3>1. ASSUME NEW i \in DOMAIN forward', NEW j \in DOMAIN forward', i < j,
                 forward'[i].id > bootMax
          PROVE  forward'[i].id <= forward'[j].id
      <4>1. /\ i + 1 < j + 1 /\ i + 1 \in DOMAIN forward /\ j + 1 \in DOMAIN forward
            /\ forward'[i] = forward[i + 1] /\ forward'[j] = forward[j + 1]
        BY <2>2, <2>3, <3>1
      <4> QED BY <3>1, <4>1 DEF InOrder
    <3> QED BY <3>1
  <2> QED BY <2>1, <2>2, <2>3, <2>4 DEF InOrder
<1>9. CASE ReplayDone
  <2>1. ~ replaying' /\ UNCHANGED <<up, idgen, bootMax, sending, forward>>
    BY <1>9 DEF ReplayDone
  <2> QED BY <2>1 DEF InOrder
<1>10. ASSUME NEW r \in Requests, Intake(r) \/ Refuse(r) PROVE InOrder'
  BY <1>1, <1>10 DEF Intake, Refuse
<1>11. ASSUME NEW id \in finishing, DataDone(id) \/ DataDoneFails(id)
       PROVE  InOrder'
  BY <1>1, <1>11 DEF DataDone, DataDoneFails
<1>12. CASE FinishExport \/ HandDone \/ Idle \/ UNCHANGED vars
  BY <1>1, <1>12 DEF FinishExport, HandDone, Idle
<1> QED
  BY <1>2, <1>3, <1>4, <1>6, <1>7, <1>8, <1>9, <1>10, <1>11, <1>12
     DEF Next, RunStep, WorkerStep

\* What an export that starts finds waiting.
LEMMA ServedStep ==
    ASSUME IndInv, InOrder, [Next]_vars,
           working = NoEntry, working' # NoEntry, working'.id > bootMax
    PROVE  \A id \in toReplay \cup ForwardIds \cup IdsIn(sending) :
             working'.id <= id
<1> USE DEF vars, queue, goroutines, history
<1>0. TypeOK /\ CarriedByAll
  BY DEF IndInv, QueueInv
<1>1. StartExport
  BY DEF Next, RunStep, WorkerStep, Start, Crash, Die, Intake, Refuse,
     ReplayDone, AddData, AddDataFails, Send, Replay, FinishExport, HandDone,
     DataDone, DataDoneFails, Idle
<1>2. /\ 1 \in DOMAIN forward /\ working' = forward[1]
      /\ DOMAIN forward = 1 .. Len(forward) /\ Len(forward) \in Nat
      /\ \A i \in DOMAIN forward : forward[i].id \in Nat
  <2>1. forward \in Seq(Entry) /\ forward # <<>> /\ working' = Head(forward)
    BY <1>0, <1>1 DEF StartExport, TypeOK
  <2>2. /\ 1 \in DOMAIN forward /\ working' = forward[1]
        /\ DOMAIN forward = 1 .. Len(forward) /\ Len(forward) \in Nat
    BY <2>1
  <2>3. \A i \in DOMAIN forward : forward[i] \in Entry
    BY <2>1
  <2> QED BY <2>2, <2>3 DEF Entry
<1>3. ~ replaying /\ toReplay = {}
  BY <1>0, <1>2 DEF InOrder, TypeOK
<1>4. \A i \in DOMAIN forward : forward[1].id <= forward[i].id
  <2>1. ASSUME NEW i \in DOMAIN forward PROVE forward[1].id <= forward[i].id
    <3>1. i = 1 \/ 1 < i
      BY <1>2
    <3> QED BY <1>2, <3>1 DEF InOrder
  <2> QED BY <2>1
<1>5. \A id \in IdsIn(sending) : forward[1].id <= id
  BY <1>0, <1>2 DEF IdsIn, InOrder, CarriedByAll, Carried
<1> QED BY <1>2, <1>3, <1>4, <1>5 DEF ForwardIds

\* A request of this boot is exported only after everything saved before it
\* was started.
THEOREM ServedInTheirOrder == Spec => ServedInOrder
<1>1. Init => InOrder
  BY DEF Init, NoMemory, InOrder
<1>2. IndInv' => TypeOK'
  BY DEF IndInv, QueueInv
<1>3. IndInv /\ IndInv' /\ InOrder /\ [Next]_vars => InOrder'
  BY <1>2, InOrderStep
<1>4. IndInv /\ InOrder /\ [Next]_vars =>
        [(/\ working = NoEntry /\ working' # NoEntry
          /\ working'.id > bootMax)
         => \A id \in toReplay \cup ForwardIds \cup IdsIn(sending) :
               working'.id <= id]_vars
  BY ServedStep
<1> QED BY <1>1, <1>3, <1>4, Inductive, PTL DEF Spec, ServedInOrder


-----------------------------------------------------------------------------
(* The step to DurableQueue needs one more invariant: whatever is queued,  *)
(* carried or exported was accepted, and what intake holds was not yet.    *)

OnlyAccepted ==
    /\ \A i \in DOMAIN file : file[i] \in accepted
    /\ \A i \in DOMAIN pending : pending[i] \in accepted
    /\ \A i \in DOMAIN forward : forward[i].req \in accepted
    /\ sending # NoEntry => sending.req \in accepted
    /\ working # NoEntry => working.req \in accepted
    /\ \A r \in Requests : exports[r] > 0 => r \in accepted
    /\ accepted \subseteq delivered
    /\ intake # NoRequest => intake \in delivered \ accepted

LEMMA OnlyAcceptedInit == Init => OnlyAccepted
<1> SUFFICES ASSUME Init PROVE OnlyAccepted
  OBVIOUS
<1>1. DOMAIN file = {} /\ DOMAIN pending = {}
  BY EmptyMapType DEF Init, NoMemory
<1>2. /\ forward = <<>> /\ sending = NoEntry /\ working = NoEntry
      /\ intake = NoRequest /\ accepted = {}
      /\ \A r \in Requests : exports[r] = 0
  BY DEF Init, NoMemory
<1> QED BY <1>1, <1>2 DEF OnlyAccepted

LEMMA OnlyAcceptedStep ==
    ASSUME TypeOK, OnlyAccepted, DeadIsEmpty, [Next]_vars
    PROVE  OnlyAccepted'
<1> USE DEF vars, queue, goroutines, history
<1>1. CASE Start
  <2>1. /\ forward = <<>> /\ sending = NoEntry /\ working = NoEntry
        /\ intake = NoRequest
    BY <1>1 DEF Start, DeadIsEmpty, NoMemory
  <2> QED BY <1>1, <2>1 DEF Start, OnlyAccepted
<1>2. CASE Crash \/ AddDataFails
  <2>1. /\ DOMAIN pending' = {} /\ forward' = <<>> /\ sending' = NoEntry
        /\ working' = NoEntry /\ intake' = NoRequest
    BY <1>2, EmptyMapType DEF Crash, AddDataFails, Die
  <2>2. UNCHANGED <<file, exports, accepted, delivered>>
    BY <1>2 DEF Crash, AddDataFails
  <2> QED BY <2>1, <2>2 DEF OnlyAccepted
<1>3. ASSUME NEW r \in Requests, Intake(r) \/ Refuse(r) PROVE OnlyAccepted'
  BY <1>3, NoRequestAssumption DEF Intake, Refuse, OnlyAccepted
<1>4. CASE AddData
  <2>1. /\ DOMAIN pending' = DOMAIN pending \cup {idgen + 1}
        /\ pending'[idgen + 1] = intake
        /\ \A i \in DOMAIN pending :
             i # idgen + 1 => pending'[i] = pending[i]
    BY <1>4, AddDataMap
  <2>2. /\ intake # NoRequest
        /\ file' = pending'
        /\ accepted' = accepted \cup {intake}
        /\ sending' = [id |-> idgen + 1, req |-> intake]
        /\ intake' = NoRequest
        /\ UNCHANGED <<forward, working, exports, delivered>>
    BY <1>4 DEF AddData
  <2>3. \A i \in DOMAIN pending' : pending'[i] \in accepted'
    BY <2>1, <2>2 DEF OnlyAccepted
  <2> QED BY <2>2, <2>3 DEF OnlyAccepted
<1>5. ASSUME NEW e \in Entry, e.req \in accepted, Forward(e),
             UNCHANGED <<file, pending, working, exports, accepted,
                         delivered, intake>>,
             sending' = sending \/ sending' = NoEntry
      PROVE  OnlyAccepted'
  <2>1. \A i \in DOMAIN forward' :
           forward'[i] = e \/ \E j \in DOMAIN forward : forward'[i] = forward[j]
    BY <1>5 DEF Forward, TypeOK
  <2> QED BY <1>5, <2>1 DEF OnlyAccepted
<1>6. CASE Send
  <2>1. sending \in Entry /\ sending.req \in accepted
    BY <1>6 DEF Send, TypeOK, OnlyAccepted
  <2> QED BY <1>5, <1>6, <2>1 DEF Send
<1>7. ASSUME NEW id \in toReplay, Replay(id) PROVE OnlyAccepted'
  <2>1. id \in DOMAIN pending /\ EntryOf(pending, id) \in Entry
    BY DEF TypeOK, IsQueueMap, EntryOf, Entry
  <2>2. EntryOf(pending, id).req \in accepted
    BY <2>1 DEF EntryOf, OnlyAccepted
  <2> QED BY <1>5, <1>7, <2>1, <2>2 DEF Replay
<1>8. CASE StartExport
  <2>1. forward \in Seq(Entry) /\ forward # <<>>
    BY <1>8 DEF StartExport, TypeOK
  <2>2. working' = forward[1] /\ 1 \in DOMAIN forward
    BY <1>8, <2>1 DEF StartExport
  <2>3. \A i \in DOMAIN forward' : i + 1 \in DOMAIN forward
                                   /\ forward'[i] = forward[i + 1]
    BY <1>8, <2>1 DEF StartExport
  <2>4. UNCHANGED <<file, pending, sending, exports, accepted, delivered,
                    intake>>
    BY <1>8 DEF StartExport
  <2> QED BY <2>2, <2>3, <2>4 DEF OnlyAccepted
<1>9. CASE FinishExport
  <2>1. working.req \in accepted
    BY <1>9 DEF FinishExport, OnlyAccepted
  <2>2. \A r \in Requests : exports'[r] = exports[r] \/ r = working.req
    BY <1>9 DEF FinishExport, TypeOK
  <2>3. UNCHANGED <<file, pending, sending, forward, working, accepted,
                    delivered, intake>>
    BY <1>9 DEF FinishExport
  <2> QED BY <2>1, <2>2, <2>3 DEF OnlyAccepted
<1>10. ASSUME NEW id \in finishing, DataDone(id) \/ DataDoneFails(id)
       PROVE  OnlyAccepted'
  <2>1. /\ pending' = Without(pending, id)
        /\ file' = file \/ file' = pending'
        /\ UNCHANGED <<sending, forward, working, exports, accepted,
                       delivered, intake>>
    BY <1>10 DEF DataDone, DataDoneFails
  <2>2. \A i \in DOMAIN pending' :
           i \in DOMAIN pending /\ pending'[i] = pending[i]
    <3>1. pending' = Without(pending, id) /\ IsQueueMap(pending)
      BY <2>1 DEF TypeOK
    <3> QED BY <3>1, WithoutType
  <2> QED BY <2>1, <2>2 DEF OnlyAccepted
<1>11. CASE HandDone
  BY <1>11 DEF HandDone, OnlyAccepted
<1>12. CASE ReplayDone \/ Idle \/ UNCHANGED vars
  BY <1>12 DEF ReplayDone, Idle, OnlyAccepted
<1> QED
  BY <1>1, <1>2, <1>3, <1>4, <1>6, <1>7, <1>8, <1>9, <1>10, <1>11, <1>12
     DEF Next, RunStep, WorkerStep

-----------------------------------------------------------------------------
(* The refinement                                                          *)

LEMMA AbstractInit == Init => Abstract!Init
<1> SUFFICES ASSUME Init PROVE Abstract!Init
  OBVIOUS
<1>1. RequestsIn(file) = {}
  BY EmptyMapType DEF Init, RequestsIn
<1>2. Exported = {}
  BY DEF Init, Exported
<1> QED BY <1>1, <1>2 DEF Abstract!Init

\* Saving pending forgets from the file only what was exported.
LEMMA SaveForgetsExported ==
    ASSUME TypeOK, up, FileCoversPending
    PROVE  /\ RequestsIn(pending) \subseteq RequestsIn(file)
           /\ RequestsIn(file) \subseteq Requests
           /\ RequestsIn(file) \ RequestsIn(pending) \subseteq Exported
<1>1. \A i \in DOMAIN pending : i \in DOMAIN file /\ file[i] = pending[i]
  BY DEF FileCoversPending
<1>2. \A i \in DOMAIN file \ DOMAIN pending : exports[file[i]] > 0
  BY DEF FileCoversPending
<1>3. \A i \in DOMAIN file : file[i] \in Requests
  BY DEF TypeOK, IsQueueMap
<1> QED BY <1>1, <1>2, <1>3 DEF RequestsIn, Exported

LEMMA AbstractStep ==
    ASSUME IndInv, OnlyAccepted, [Next]_vars
    PROVE  [Abstract!Next]_Abstract!vars
<1> USE DEF vars, queue, goroutines, history
<1>0. TypeOK /\ FinishingExported /\ FileCoversPending /\ DeadIsEmpty
      /\ NothingLost
  BY DEF IndInv, QueueInv
<1>1. ASSUME UNCHANGED <<file, exports>> PROVE UNCHANGED Abstract!vars
  BY <1>1 DEF Abstract!vars, RequestsIn, Exported
<1>2. CASE AddData
  <2> DEFINE S == RequestsIn(file) \ RequestsIn(pending)
  <2>1. up /\ intake \in Requests /\ file' = pending' /\ exports' = exports
    BY <1>0, <1>2 DEF AddData, TypeOK
  <2>2. /\ RequestsIn(pending) \subseteq RequestsIn(file)
        /\ RequestsIn(file) \subseteq Requests
        /\ S \subseteq Exported
    BY <1>0, <2>1, SaveForgetsExported
  <2>3. intake \notin RequestsIn(file) \cup Exported
    <3>1. intake \notin accepted
      BY <1>2 DEF AddData, OnlyAccepted
    <3> QED BY <2>1, <3>1 DEF OnlyAccepted, RequestsIn, Exported
  <2>4. RequestsIn(file') = RequestsIn(pending) \cup {intake}
    <3>1. /\ DOMAIN pending' = DOMAIN pending \cup {idgen + 1}
          /\ pending'[idgen + 1] = intake
          /\ \A i \in DOMAIN pending :
               i # idgen + 1 => pending'[i] = pending[i]
      BY <1>0, <1>2, AddDataMap
    <3>2. \A i \in DOMAIN pending : i # idgen + 1
      BY DEF IndInv, QueueInv, IdsBounded, TypeOK, IsQueueMap
    <3> QED BY <2>1, <3>1, <3>2 DEF RequestsIn
  <2>5. RequestsIn(file') = (RequestsIn(file) \ S) \cup {intake}
    BY <2>2, <2>4
  <2>6. Exported' = Exported
    BY <2>1 DEF Exported
  <2>7. Abstract!Accept(intake, S)
    BY <2>2, <2>3, <2>5, <2>6 DEF Abstract!Accept
  <2>8. S \in SUBSET Requests
    BY <2>2
  <2> QED BY <2>1, <2>7, <2>8 DEF Abstract!Next
<1>3. CASE FinishExport
  <2> DEFINE r == working.req
  <2>1. r \in Requests /\ file' = file
    BY <1>0, <1>3 DEF FinishExport, TypeOK, Entry
  <2>2. exports' = [exports EXCEPT ![r] = @ + 1]
        /\ exports \in [Requests -> Nat]
    BY <1>0, <1>3 DEF FinishExport, TypeOK
  <2>3. Exported' = Exported \cup {r}
    BY <2>1, <2>2 DEF Exported
  <2>4. r \in Exported \/ r \in RequestsIn(file)
    <3>1. r \in accepted
      BY <1>3 DEF FinishExport, OnlyAccepted
    <3> QED BY <1>0, <2>1, <3>1 DEF NothingLost, Exported
  <2>5. RequestsIn(file)' = RequestsIn(file)
    BY <2>1 DEF RequestsIn
  <2>6. CASE r \in Exported
    BY <2>3, <2>5, <2>6 DEF Abstract!vars
  <2>7. CASE r \in RequestsIn(file)
    <3>1. Abstract!Export(r)
      BY <2>3, <2>5, <2>7 DEF Abstract!Export
    <3> QED BY <2>1, <3>1 DEF Abstract!Next
  <2> QED BY <2>4, <2>6, <2>7
<1>4. ASSUME NEW id \in finishing, DataDone(id)
      PROVE  [Abstract!Next]_Abstract!vars
  <2> DEFINE S == RequestsIn(file) \ RequestsIn(file')
  <2>1. up
    BY <1>0, <1>4, LiveStep
  <2>2. /\ pending' = Without(pending, id) /\ file' = pending'
        /\ exports' = exports
    BY <1>4 DEF DataDone
  <2>3. /\ DOMAIN pending' = DOMAIN pending \ {id}
        /\ \A i \in DOMAIN pending' : pending'[i] = pending[i]
    BY <1>0, <2>2, WithoutType DEF TypeOK
  <2>4. /\ RequestsIn(pending) \subseteq RequestsIn(file)
        /\ RequestsIn(file) \subseteq Requests
        /\ RequestsIn(file) \ RequestsIn(pending) \subseteq Exported
    BY <1>0, <2>1, SaveForgetsExported
  <2>5. RequestsIn(file') \subseteq RequestsIn(pending)
    BY <2>2, <2>3 DEF RequestsIn
  <2>6. RequestsIn(pending) \ RequestsIn(file') \subseteq Exported
    <3>1. id \in DOMAIN pending => exports[pending[id]] > 0
      BY <1>0 DEF FinishingExported
    <3>2. \A i \in DOMAIN pending : pending[i] \in Requests
      BY <1>0 DEF TypeOK, IsQueueMap
    <3> QED BY <2>2, <2>3, <3>1, <3>2 DEF RequestsIn, Exported
  <2>7. S \subseteq RequestsIn(file) \cap Exported /\ S \in SUBSET Requests
    BY <2>4, <2>5, <2>6
  <2>8. RequestsIn(file') = RequestsIn(file) \ S /\ Exported' = Exported
    BY <2>2, <2>4, <2>5 DEF Exported
  <2>9. CASE S = {}
    BY <2>8, <2>9 DEF Abstract!vars
  <2>10. CASE S # {}
    <3>1. Abstract!Forget(S)
      BY <2>7, <2>8, <2>10 DEF Abstract!Forget
    <3> QED BY <2>7, <3>1 DEF Abstract!Next
  <2> QED BY <2>9, <2>10
<1>5. CASE ~AddData /\ ~FinishExport /\ ~ (\E id \in finishing : DataDone(id))
  <2>1. UNCHANGED <<file, exports>>
    BY <1>5 DEF Next, RunStep, WorkerStep, Start, Crash, Intake, Refuse,
       ReplayDone, AddDataFails, Send, Replay, StartExport,
       HandDone, DataDoneFails, Idle
  <2> QED BY <1>1, <2>1
<1> QED BY <1>2, <1>3, <1>4, <1>5

\* The queue of export requests implements the durable queue, for any number
\* of requests, any channel capacity, crashes and failing saves.
THEOREM Refinement == Spec => ImplementsDurableQueue
<1>1. Init => Abstract!Init
  BY AbstractInit
<1>2. OnlyAccepted /\ IndInv /\ [Next]_vars => OnlyAccepted'
  BY OnlyAcceptedStep DEF IndInv, QueueInv
<1>3. OnlyAccepted /\ IndInv /\ [Next]_vars => [Abstract!Next]_Abstract!vars
  BY AbstractStep
<1> QED
  BY <1>1, <1>2, <1>3, OnlyAcceptedInit, Inductive, PTL
     DEF Spec, ImplementsDurableQueue, Abstract!Spec
=============================================================================
