------------------------- MODULE ProjectPoolProofs --------------------------
(***************************************************************************)
(* What holds of ProjectPool for any number of projects, workers, models   *)
(* and objects, any batch size and any number of failing calls.            *)
(***************************************************************************)
EXTENDS ProjectPool, FiniteSetTheorems, TLAPS

-----------------------------------------------------------------------------
(* The objects of a sender                                                 *)

FirstObjects(n) == [i \in 1..n |-> i]

LEMMA SequenceIsFunction ==
    ASSUME NEW q \in Seq(Nat)
    PROVE  q = [i \in 1..Len(q) |-> q[i]]
OBVIOUS

\* One more object after the first n makes the first n + 1, whether it ends a
\* batch or not.
LEMMA OneMoreObject ==
    ASSUME NEW file \in Seq(Nat), NEW batch \in Seq(Nat), NEW n \in Nat,
           file \o batch = FirstObjects(n)
    PROVE  /\ file \o Append(batch, n + 1) = FirstObjects(n + 1)
           /\ (file \o Append(batch, n + 1)) \o <<>> = FirstObjects(n + 1)
<1> DEFINE more == file \o Append(batch, n + 1)
<1>1. /\ Append(batch, n + 1) \in Seq(Nat)
      /\ Len(Append(batch, n + 1)) = Len(batch) + 1
      /\ Append(batch, n + 1)[Len(batch) + 1] = n + 1
      /\ \A i \in 1..Len(batch) : Append(batch, n + 1)[i] = batch[i]
  OBVIOUS
<1>2. more \in Seq(Nat) /\ Len(more) = Len(file) + Len(batch) + 1
  BY <1>1
<1>3. Len(file \o batch) = Len(file) + Len(batch) /\ Len(file \o batch) = n
  <2>1. DOMAIN (file \o batch) = 1..n
    BY DEF FirstObjects
  <2>2. DOMAIN (file \o batch) = 1..Len(file \o batch)
    OBVIOUS
  <2>3. QED
    BY <2>1, <2>2
<1>4. \A i \in 1..n : more[i] = (file \o batch)[i]
  BY <1>1, <1>3
<1>5. more[n + 1] = n + 1
  BY <1>1, <1>3
<1>6. \A i \in 1..(n + 1) : more[i] = i
  BY <1>4, <1>5 DEF FirstObjects
<1>7. more = [i \in 1..(n + 1) |-> more[i]]
  <2> HIDE DEF more
  <2> QED BY <1>2, <1>3, SequenceIsFunction
<1>8. more = FirstObjects(n + 1)
  BY <1>6, <1>7 DEF FirstObjects
<1>9. more \o <<>> = more
  BY <1>2
<1>10. QED
  BY <1>8, <1>9

LEMMA NoObjects ==
    /\ FirstObjects(0) = <<>>
    /\ \A n \in Nat \ {0} : FirstObjects(n) # <<>>
<1>1. FirstObjects(0) = <<>>
  BY DEF FirstObjects
<1>2. ASSUME NEW n \in Nat \ {0} PROVE FirstObjects(n) # <<>>
  <2>1. 1 \in DOMAIN FirstObjects(n)
    BY DEF FirstObjects
  <2>2. QED
    BY <2>1
<1>3. QED
  BY <1>1, <1>2

-----------------------------------------------------------------------------
(* The inductive invariant                                                 *)

\* A sender of worker w has a session of the worker's project, whose file and
\* batch are the objects that were sent, and whose key has no checkpoint.
Own(w, s) ==
    /\ s.id \in DOMAIN sessions
    /\ KeyOf(s)[1] = job[w]
    /\ KeyOf(s) \notin checkpoints
    /\ s.sent <= ObjectsOf(s)
    /\ sessions[s.id].file \o s.batch = FirstObjects(s.sent)

\* A worker has one sender for a key, and has sent everything when it comes
\* to the end of a project that did not fail.
WorkerOK(w) ==
    /\ \A i \in DOMAIN senders[w] :
         Own(w, senders[w][i]) /\ KeyOf(senders[w][i])[2] \notin Inner
    /\ \A s \in inner[w] : Own(w, s) /\ KeyOf(s)[2] \in Inner
    /\ \A i, j \in DOMAIN senders[w] :
         KeyOf(senders[w][i]) = KeyOf(senders[w][j]) => i = j
    /\ \A s, t \in inner[w] : KeyOf(s) = KeyOf(t) => s = t
    /\ pc[w] = "checking" =>
         \A m \in Models : <<job[w], m>> \notin checkpoints
    /\ pc[w] = "running" =>
         \A m \in Models \ Inner : <<job[w], m>> \notin checkpoints
    /\ pc[w] \in {"progress", "reporting", "ending"} /\ ~failing[w] =>
         \A i \in DOMAIN senders[w] :
           senders[w][i].sent = ObjectsOf(senders[w][i])

\* A project is in the channel or has one worker; nothing of a project in the
\* channel has a checkpoint; a file is uploaded with its checkpoint.
JobsOK ==
    /\ \A w \in Workers : job[w] \notin todo
    /\ \A w, v \in Workers : w # v => job[w] = NoProject \/ job[w] # job[v]
    /\ \A key \in checkpoints : key[1] \notin todo
    /\ \A u \in uploads : u.key \in checkpoints

IInv ==
    /\ TypeOK
    /\ JobsOK
    /\ \A w \in Workers : WorkerOK(w)
    /\ CheckpointedIsUploaded

\* The part of TypeOK that the manager's variables have.
ManagerType ==
    /\ lastID \in Nat
    /\ DOMAIN sessions \subseteq 1..lastID
    /\ \A id \in DOMAIN sessions : sessions[id] \in Session
    /\ uploads \subseteq Upload
    /\ leftTemps \subseteq Nat
    /\ checkpoints \subseteq Key

\* What one worker does leaves the others as they are, if it keeps to the
\* sessions and checkpoints of its own project.
LEMMA OtherWorkers ==
    ASSUME IInv, NEW w \in Workers, NEW v \in Workers \ {w},
           pc'[v] = pc[v], job'[v] = job[v], failing'[v] = failing[v],
           senders'[v] = senders[v], inner'[v] = inner[v],
           \A id \in DOMAIN sessions : sessions[id].key[1] # job[w] =>
             id \in DOMAIN sessions' /\ sessions'[id] = sessions[id],
           checkpoints' \subseteq
             checkpoints \cup {key \in Key : key[1] = job[w]}
    PROVE  WorkerOK(v)'
<1> USE DEF IInv
<1>1. job[w] = job[v] => job[v] = NoProject
  BY DEF JobsOK
<1>2. ASSUME NEW s \in Sender, Own(v, s)
      PROVE  Own(v, s)' /\ KeyOf(s)' = KeyOf(s) /\ ObjectsOf(s)' = ObjectsOf(s)
  <2>1. KeyOf(s) \in Key /\ job[v] \in Projects
    BY <1>2 DEF Own, KeyOf, TypeOK, Session, Key
  <2>2. KeyOf(s)[1] # job[w]
    BY <1>1, <1>2, <2>1, NoProjectAssumption DEF Own
  <2>3. s.id \in DOMAIN sessions' /\ sessions'[s.id] = sessions[s.id]
    BY <1>2, <2>2 DEF Own, KeyOf
  <2>4. KeyOf(s) \notin checkpoints'
    BY <1>2, <2>2 DEF Own
  <2>5. QED
    BY <1>2, <2>3, <2>4 DEF Own, KeyOf, ObjectsOf
<1>3. /\ \A i \in DOMAIN senders[v] : senders[v][i] \in Sender
      /\ \A s \in inner[v] : s \in Sender
  BY DEF TypeOK
<1>4. pc[v] \in {"checking", "running"} =>
        \A m \in Models : <<job[v], m>> \notin checkpoints
                            => <<job[v], m>> \notin checkpoints'
  BY <1>1 DEF TypeOK
<1>5. WorkerOK(v)
  OBVIOUS
<1>6. QED
  BY <1>2, <1>3, <1>4, <1>5 DEF WorkerOK

\* The other workers are as they were.
OnlyWorker(w) ==
    \A v \in Workers \ {w} :
      /\ pc'[v] = pc[v] /\ job'[v] = job[v] /\ failing'[v] = failing[v]
      /\ senders'[v] = senders[v] /\ inner'[v] = inner[v]

\* What is to be shown of a step that leaves the manager alone.
LEMMA PoolStep ==
    ASSUME IInv, NEW w \in Workers, OnlyWorker(w), UNCHANGED manager,
           TypeOK', JobsOK', WorkerOK(w)'
    PROVE  IInv'
<1>1. \A v \in Workers \ {w} : WorkerOK(v)'
  BY OtherWorkers DEF manager, OnlyWorker
<1>2. CheckpointedIsUploaded'
  BY DEF IInv, CheckpointedIsUploaded, UploadsOf, manager
<1>3. QED
  BY <1>1, <1>2 DEF IInv

-----------------------------------------------------------------------------
(* The steps of a worker that call no session                              *)

\* The worker takes a project, or ends.
LEMMA TakeKeeps ==
    ASSUME IInv, NEW w \in Workers,
           Take(w) \/ NoMore(w) \/ StartProject(w) \/ StopEarly(w)
    PROVE  IInv'
<1> USE DEF IInv, Goto
<1>1. CASE Take(w)
  <2> DEFINE p == NextProject
  <2>1. p \in todo /\ p \in Projects /\ p # NoProject
    BY <1>1, NoProjectAssumption DEF Take, NextProject, TypeOK
  <2>2. /\ pc' = [pc EXCEPT ![w] = "checking"] /\ job' = [job EXCEPT ![w] = p]
        /\ todo' = todo \ {p} /\ pc[w] = "idle"
        /\ senders[w] = <<>> /\ inner[w] = {}
    BY <1>1 DEF Take, TypeOK
  <2> HIDE DEF p
  <2>3. TypeOK'
    BY <1>1, <2>1, <2>2 DEF Take, TypeOK, Places, manager
  <2>4. JobsOK'
    BY <1>1, <2>1, <2>2 DEF Take, JobsOK, TypeOK, manager
  <2>5. WorkerOK(w)'
    <3>1. \A m \in Models : <<p, m>> \notin checkpoints
      BY <2>1 DEF JobsOK
    <3>2. senders'[w] = <<>> /\ inner'[w] = {} /\ job'[w] = p
          /\ pc'[w] = "checking" /\ checkpoints' = checkpoints
      BY <1>1, <2>2 DEF Take, TypeOK, manager
    <3>3. QED
      BY <3>1, <3>2 DEF WorkerOK
  <2>6. OnlyWorker(w)
    BY <1>1, <2>2 DEF Take, OnlyWorker, TypeOK
  <2>7. QED
    BY <1>1, <2>3, <2>4, <2>5, <2>6, PoolStep DEF Take
<1>2. CASE NoMore(w)
  <2>1. TypeOK' /\ JobsOK' /\ OnlyWorker(w)
    BY <1>2 DEF NoMore, TypeOK, Places, manager, JobsOK, OnlyWorker
  <2>2. WorkerOK(w)'
    BY <1>2 DEF NoMore, WorkerOK, TypeOK
  <2>3. QED
    BY <1>2, <2>1, <2>2, PoolStep DEF NoMore
<1>3. CASE StartProject(w)
  <2>1. TypeOK' /\ JobsOK' /\ OnlyWorker(w)
    BY <1>3 DEF StartProject, TypeOK, Places, manager, JobsOK, OnlyWorker
  <2>2. WorkerOK(w)'
    BY <1>3 DEF StartProject, WorkerOK, TypeOK, manager
  <2>3. QED
    BY <1>3, <2>1, <2>2, PoolStep DEF StartProject
<1>4. CASE StopEarly(w)
  <2>1. TypeOK' /\ JobsOK' /\ OnlyWorker(w)
    BY <1>4 DEF StopEarly, TypeOK, Places, manager, JobsOK, OnlyWorker
  <2>2. WorkerOK(w)'
    <3>1. senders'[w] = <<>> /\ inner'[w] = {} /\ pc'[w] = "gone"
      BY <1>4 DEF StopEarly, TypeOK
    <3>2. QED
      BY <3>1 DEF WorkerOK
  <2>3. QED
    BY <1>4, <2>1, <2>2, PoolStep DEF StopEarly
<1>5. QED
  BY <1>1, <1>2, <1>3, <1>4

\* Only the place of the worker changes, and perhaps what it says of its
\* project: its senders are as good as before.
LEMMA SameSenders ==
    ASSUME IInv, NEW w \in Workers,
           UNCHANGED <<senders, manager, job>>,
           inner'[w] \subseteq inner[w],
           pc'[w] \notin {"checking", "running"},
           pc'[w] \in {"progress", "reporting", "ending"} /\ ~failing'[w] =>
             \A i \in DOMAIN senders[w] :
               senders[w][i].sent = ObjectsOf(senders[w][i])
    PROVE  WorkerOK(w)'
<1>1. /\ \A s : Own(w, s) => Own(w, s)'
      /\ \A s : KeyOf(s)' = KeyOf(s) /\ ObjectsOf(s)' = ObjectsOf(s)
  BY DEF Own, KeyOf, ObjectsOf, manager
<1>2. WorkerOK(w)
  BY DEF IInv
<1>3. QED
  BY <1>1, <1>2 DEF WorkerOK

\* ProjectFn returns, and the project is reported.
LEMMA ReportKeeps ==
    ASSUME IInv, NEW w \in Workers,
           \/ Succeeds(w) \/ Fails(w) \/ IncProgress(w) \/ IncProgressFails(w)
           \/ Report(w)
    PROVE  IInv'
<1> USE DEF IInv, Goto
<1>0. UNCHANGED <<senders, manager, job, todo>>
  BY DEF Succeeds, Fails, IncProgress, IncProgressFails, Report, Fatal
<1>1. JobsOK'
  BY <1>0 DEF JobsOK, manager
<1>2. OnlyWorker(w)
  BY DEF Succeeds, Fails, IncProgress, IncProgressFails, Report, Fatal,
         OnlyWorker, TypeOK
<1>3. TypeOK'
  <2>1. CASE Succeeds(w)
    <3>1. inner[w] = {}
      <4> SUFFICES ASSUME NEW s \in inner[w] PROVE FALSE
        OBVIOUS
      <4>1. Own(w, s) /\ KeyOf(s)[2] \in Inner
        BY DEF WorkerOK
      <4>2. KeyOf(s) = <<job[w], KeyOf(s)[2]>>
        BY <4>1 DEF Own, KeyOf, TypeOK, Session, Key
      <4>3. QED
        BY <2>1, <4>1, <4>2 DEF Succeeds, Own
    <3>2. QED
      BY <2>1, <3>1 DEF Succeeds, TypeOK, Places, manager
  <2>2. CASE Fails(w)
    BY <2>2 DEF Fails, TypeOK, Places, manager
  <2>3. CASE IncProgress(w)
    BY <2>3 DEF IncProgress, TypeOK, Places, manager
  <2>4. CASE IncProgressFails(w)
    BY <2>4 DEF IncProgressFails, Fatal, TypeOK, Places, manager
  <2>5. CASE Report(w)
    <3>1. [project |-> job[w], failed |-> failing[w]]
            \in [project : Projects, failed : BOOLEAN]
      BY <2>5, NoProjectAssumption DEF Report, TypeOK
    <3>2. QED
      BY <2>5, <3>1 DEF Report, TypeOK, Places, manager
  <2>6. QED
    BY <2>1, <2>2, <2>3, <2>4, <2>5
<1>4. WorkerOK(w)'
  <2>1. inner'[w] \subseteq inner[w]
    BY DEF Succeeds, Fails, IncProgress, IncProgressFails, Report, TypeOK
  <2>2. pc'[w] \in {"progress", "reporting", "ending", "gone"}
    BY DEF Succeeds, Fails, IncProgress, IncProgressFails, Report, Fatal,
           TypeOK
  <2>3. pc'[w] \in {"progress", "reporting", "ending"} /\ ~failing'[w] =>
             \A i \in DOMAIN senders[w] :
               senders[w][i].sent = ObjectsOf(senders[w][i])
    <3>1. CASE Succeeds(w)
      BY <3>1 DEF Succeeds
    <3>2. CASE Fails(w)
      BY <3>2 DEF Fails, TypeOK
    <3>3. CASE IncProgress(w) \/ Report(w)
      BY <3>3 DEF IncProgress, Report, WorkerOK
    <3>4. CASE IncProgressFails(w)
      BY <3>4 DEF IncProgressFails, Fatal, TypeOK
    <3>5. QED
      BY <3>1, <3>2, <3>3, <3>4
  <2>4. QED
    BY <1>0, <2>1, <2>2, <2>3, SameSenders
<1>5. QED
  BY <1>0, <1>1, <1>2, <1>3, <1>4, PoolStep

\* The worker has ended all sessions of its project.
LEMMA EndKeeps ==
    ASSUME IInv, NEW w \in Workers, Completed(w) \/ RolledBack(w)
    PROVE  IInv'
<1> USE DEF IInv, Goto, Free
<1>1. senders[w] = <<>> /\ inner[w] = {}
  BY DEF Completed, RolledBack, TypeOK
<1>2. TypeOK'
  BY <1>1 DEF Completed, RolledBack, TypeOK, Places, manager
<1>3. JobsOK'
  BY NoProjectAssumption DEF Completed, RolledBack, JobsOK, TypeOK, manager
<1>4. WorkerOK(w)'
  BY <1>1 DEF Completed, RolledBack, WorkerOK, TypeOK
<1>5. OnlyWorker(w)
  BY DEF Completed, RolledBack, OnlyWorker, TypeOK
<1>6. QED
  BY <1>2, <1>3, <1>4, <1>5, PoolStep DEF Completed, RolledBack

-----------------------------------------------------------------------------
(* The steps that call the manager                                         *)

\* What is to be shown of a step of worker w that calls the manager with a
\* session of its own.
LEMMA ManagerStep ==
    ASSUME IInv, NEW w \in Workers, OnlyWorker(w),
           \A id \in DOMAIN sessions : sessions[id].key[1] # job[w] =>
             id \in DOMAIN sessions' /\ sessions'[id] = sessions[id],
           checkpoints' \subseteq
             checkpoints \cup {key \in Key : key[1] = job[w]},
           TypeOK', JobsOK', WorkerOK(w)', CheckpointedIsUploaded'
    PROVE  IInv'
BY OtherWorkers DEF IInv, OnlyWorker

\* The new session.
LEMMA StartSessionKeeps ==
    ASSUME IInv, NEW key \in Key, StartSession(key)
    PROVE  /\ lastID' \in Nat /\ lastID' = lastID + 1
           /\ lastID' \notin DOMAIN sessions
           /\ DOMAIN sessions' = DOMAIN sessions \cup {lastID'}
           /\ sessions'[lastID'] = [key |-> key, file |-> <<>>]
           /\ \A id \in DOMAIN sessions : sessions'[id] = sessions[id]
           /\ ManagerType' /\ CheckpointedIsUploaded'
           /\ NewSender \in Sender
<1> USE DEF IInv, StartSession
<1>1. lastID \in Nat /\ lastID' = lastID + 1 /\ lastID' \in Nat
  BY DEF TypeOK
<1>2. lastID' \notin DOMAIN sessions
  BY <1>1 DEF TypeOK
<1>3. /\ DOMAIN sessions' = DOMAIN sessions \cup {lastID'}
      /\ sessions'[lastID'] = [key |-> key, file |-> <<>>]
      /\ \A id \in DOMAIN sessions : sessions'[id] = sessions[id]
  BY <1>2 DEF WithSession
<1>4. DOMAIN sessions' \subseteq 1..lastID'
  BY <1>1, <1>3 DEF TypeOK
<1>5. [key |-> key, file |-> <<>>] \in Session
  <2>1. <<>> \in Seq(Nat)
    OBVIOUS
  <2>2. QED
    BY <2>1 DEF Session
<1>6. \A id \in DOMAIN sessions' : sessions'[id] \in Session
  BY <1>3, <1>5 DEF TypeOK
<1>7. ManagerType'
  BY <1>1, <1>4, <1>6 DEF ManagerType, TypeOK
<1>8. CheckpointedIsUploaded'
  BY DEF CheckpointedIsUploaded, UploadsOf
<1>9. NewSender \in Sender
  <2>1. <<>> \in Seq(Nat) /\ 0 \in Nat /\ lastID + 1 \in Nat
    BY <1>1
  <2>2. QED
    BY <2>1 DEF NewSender, Sender
<1>10. QED
  BY <1>1, <1>2, <1>3, <1>7, <1>8, <1>9

\* The senders that the worker had are as good as before when a session is
\* added.
LEMMA OwnAfterStart ==
    ASSUME IInv, NEW w \in Workers, NEW key \in Key, StartSession(key),
           job'[w] = job[w]
    PROVE  /\ \A s : Own(w, s) => /\ Own(w, s)' /\ KeyOf(s)' = KeyOf(s)
                                  /\ ObjectsOf(s)' = ObjectsOf(s)
           /\ key[1] = job[w] /\ key \notin checkpoints =>
                \A s : s = NewSender => Own(w, s)' /\ KeyOf(s)' = key
<1>1. /\ lastID \in Nat /\ lastID' = lastID + 1 
      /\ DOMAIN sessions' = DOMAIN sessions \cup {lastID'}
      /\ sessions'[lastID'] = [key |-> key, file |-> <<>>]
      /\ \A id \in DOMAIN sessions : sessions'[id] = sessions[id]
  BY StartSessionKeeps DEF IInv, TypeOK
<1>2. checkpoints' = checkpoints
  BY DEF StartSession
<1>3. \A s : Own(w, s) => /\ Own(w, s)' /\ KeyOf(s)' = KeyOf(s)
                          /\ ObjectsOf(s)' = ObjectsOf(s)
  BY <1>1, <1>2 DEF Own, KeyOf, ObjectsOf
<1>4. ASSUME key[1] = job[w], key \notin checkpoints,
             NEW s, s = NewSender
      PROVE  Own(w, s)' /\ KeyOf(s)' = key
  <2>1. Objects[key[2]] \in Nat
    BY NumbersAssumption DEF Key
  <2>2. <<>> \o <<>> = FirstObjects(0)
    BY DEF FirstObjects
  <2>3. s.id = lastID' /\ s.sent = 0 /\ s.batch = <<>>
    BY <1>1, <1>4 DEF NewSender
  <2>4. sessions'[s.id].key = key /\ sessions'[s.id].file = <<>>
    BY <1>1, <2>3
  <2>5. QED
    BY <1>1, <1>2, <1>4, <2>1, <2>2, <2>3, <2>4 DEF Own, KeyOf, ObjectsOf
<1>5. QED
  BY <1>3, <1>4

\* ProjectFn opens a session.
LEMMA OpenKeeps ==
    ASSUME IInv, NEW w \in Workers, NEW m \in Models,
           OpenSession(w, m) \/ OpenInner(w, m)
    PROVE  IInv'
<1> USE DEF IInv
<1> DEFINE key == <<job[w], m>>
           new == NewSender
<1>1. pc[w] = "running" /\ StartSession(key) /\ key \notin OpenKeys(w)
      /\ UNCHANGED <<todo, pc, job, failing, fatal, failedCount, allRes, faults>>
  BY DEF OpenSession, OpenInner
<1>2. key \in Key /\ key[1] = job[w] /\ key[2] = m
  BY <1>1 DEF TypeOK, Key
<1>3. key \notin checkpoints
  BY <1>1 DEF OpenSession, OpenInner, WorkerOK
<1>4. /\ ManagerType' /\ CheckpointedIsUploaded' /\ new \in Sender
      /\ \A id \in DOMAIN sessions : id \in DOMAIN sessions'
                                     /\ sessions'[id] = sessions[id]
  BY <1>1, <1>2, StartSessionKeeps
<1>5. checkpoints' = checkpoints /\ uploads' = uploads
  BY <1>1 DEF StartSession
<1>6. /\ \A s : Own(w, s) => /\ Own(w, s)' /\ KeyOf(s)' = KeyOf(s)
                             /\ ObjectsOf(s)' = ObjectsOf(s)
      /\ \A s : s = new => Own(w, s)' /\ KeyOf(s)' = key
  BY <1>1, <1>2, <1>3, OwnAfterStart
<1>7. JobsOK'
  BY <1>1, <1>5 DEF JobsOK
<1>8. OnlyWorker(w)
  BY DEF OpenSession, OpenInner, OnlyWorker, TypeOK
<1> HIDE DEF key, new
<1>9. CASE OpenSession(w, m)
  <2>1. /\ senders' = [senders EXCEPT ![w] = Append(@, new)]
        /\ inner' = inner /\ m \notin Inner
    BY <1>9 DEF OpenSession, new
  <2>0. PICK n : n = Len(senders[w])
    OBVIOUS
  <2>2. senders[w] \in Seq(Sender) /\ senders \in [Workers -> Seq(Sender)]
    BY DEF TypeOK
  <2>3. /\ senders'[w] \in Seq(Sender) /\ senders'[w] = Append(senders[w], new)
        /\ DOMAIN senders[w] = 1..n /\ DOMAIN senders'[w] = 1..(n + 1)
        /\ n \in Nat
        /\ \A i \in 1..n : senders'[w][i] = senders[w][i]
        /\ senders'[w][n + 1] = new
    BY <1>4, <2>0, <2>1, <2>2
  <2>4. TypeOK'
    BY <1>1, <1>4, <2>1, <2>2, <2>3 DEF TypeOK, ManagerType
  <2>5. WorkerOK(w)'
    <3>1. PICK q, r : q = senders[w] /\ r = senders'[w]
      OBVIOUS
    <3>2. \A i \in 1..n : r[i] = q[i] /\ KeyOf(q[i]) # key
      BY <1>1, <2>3, <3>1 DEF OpenKeys, key
    <3>3. \A i \in 1..n : Own(w, q[i]) /\ KeyOf(q[i])[2] \notin Inner
      BY <2>3, <3>1 DEF WorkerOK
    <3>4. \A i \in 1..n : /\ Own(w, r[i])' /\ KeyOf(r[i])' = KeyOf(q[i])
                          /\ KeyOf(r[i])'[2] \notin Inner
      BY <1>6, <3>2, <3>3
    <3>5. Own(w, r[n + 1])' /\ KeyOf(r[n + 1])' = key
      BY <1>6, <2>3, <3>1
    <3>6. \A i \in 1..(n + 1) : Own(w, r[i])' /\ KeyOf(r[i])'[2] \notin Inner
      BY <1>2, <2>1, <2>3, <3>4, <3>5
    <3>7. \A i, j \in 1..n : KeyOf(q[i]) = KeyOf(q[j]) => i = j
      BY <2>3, <3>1 DEF WorkerOK
    <3>8. \A i, j \in 1..(n + 1) : KeyOf(r[i])' = KeyOf(r[j])' => i = j
      <4> SUFFICES ASSUME NEW i \in 1..(n + 1), NEW j \in 1..(n + 1),
                          KeyOf(r[i])' = KeyOf(r[j])'
                   PROVE  i = j
        OBVIOUS
      <4>1. (i \in 1..n \/ i = n + 1) /\ (j \in 1..n \/ j = n + 1)
        BY <2>3
      <4>2. CASE i \in 1..n /\ j \in 1..n
        <5>1. KeyOf(q[i]) = KeyOf(q[j])
          BY <3>4, <4>2
        <5> QED BY <3>7, <4>2, <5>1
      <4>3. CASE i \in 1..n /\ j = n + 1
        <5>1. KeyOf(q[i]) = key
          BY <3>4, <3>5, <4>3
        <5> QED BY <3>2, <4>3, <5>1
      <4>4. CASE i = n + 1 /\ j \in 1..n
        <5>1. KeyOf(q[j]) = key
          BY <3>4, <3>5, <4>4
        <5> QED BY <3>2, <4>4, <5>1
      <4> QED BY <4>1, <4>2, <4>3, <4>4
    <3>9. \A s \in inner[w] : /\ Own(w, s)' /\ KeyOf(s)'[2] \in Inner
                              /\ KeyOf(s)' = KeyOf(s)
      BY <1>6 DEF WorkerOK
    <3>10. \A s, t \in inner[w] : KeyOf(s) = KeyOf(t) => s = t
      BY DEF WorkerOK
    <3>11. pc'[w] = "running" /\ \A k \in Models \ Inner :
                                   <<job'[w], k>> \notin checkpoints'
      BY <1>1, <1>5 DEF WorkerOK
    <3>12. QED
      BY <2>1, <2>3, <3>1, <3>6, <3>8, <3>9, <3>10, <3>11 DEF WorkerOK
  <2>6. QED
    BY <1>4, <1>5, <1>7, <1>8, <2>4, <2>5, ManagerStep
<1>10. CASE OpenInner(w, m)
  <2>1. /\ inner' = [inner EXCEPT ![w] = @ \cup {new}]
        /\ senders' = senders /\ m \in Inner
    BY <1>10 DEF OpenInner, new
  <2>2. inner'[w] = inner[w] \cup {new}
    BY <2>1 DEF TypeOK
  <2>3. TypeOK'
    BY <1>1, <1>4, <2>1 DEF TypeOK, ManagerType
  <2>4. WorkerOK(w)'
    <3>1. \A s \in inner[w] : KeyOf(s) # key
      BY <1>1 DEF OpenKeys, key
    <3>2. \A s \in inner[w] : /\ Own(w, s)' /\ KeyOf(s)' = KeyOf(s)
                              /\ KeyOf(s)[2] \in Inner
      BY <1>6 DEF WorkerOK
    <3>3. \A s : s = new => Own(w, s)' /\ KeyOf(s)' = key
      BY <1>6
    <3>4. \A s \in inner'[w] : Own(w, s)' /\ KeyOf(s)'[2] \in Inner
      BY <1>2, <2>1, <2>2, <3>2, <3>3
    <3>5. \A s, t \in inner'[w] : KeyOf(s)' = KeyOf(t)' => s = t
      <4> SUFFICES ASSUME NEW s \in inner'[w], NEW t \in inner'[w],
                          KeyOf(s)' = KeyOf(t)'
                   PROVE  s = t
        OBVIOUS
      <4>1. CASE s = new
        BY <2>2, <3>1, <3>2, <3>3, <4>1
      <4>2. CASE t = new
        BY <2>2, <3>1, <3>2, <3>3, <4>2
      <4>3. CASE s \in inner[w] /\ t \in inner[w]
        BY <3>2, <4>3 DEF WorkerOK
      <4>4. QED
        BY <2>2, <4>1, <4>2, <4>3
    <3>6. PICK q : q = senders[w]
      OBVIOUS
    <3>7. \A i \in DOMAIN q : /\ Own(w, q[i])' /\ KeyOf(q[i])' = KeyOf(q[i])
                              /\ KeyOf(q[i])[2] \notin Inner
      BY <1>6, <3>6 DEF WorkerOK
    <3>8. \A i, j \in DOMAIN q : KeyOf(q[i]) = KeyOf(q[j]) => i = j
      BY <3>6 DEF WorkerOK
    <3>9. pc'[w] = "running" /\ \A k \in Models \ Inner :
                                  <<job'[w], k>> \notin checkpoints'
      BY <1>1, <1>5 DEF WorkerOK
    <3>10. QED
      BY <2>1, <3>4, <3>5, <3>6, <3>7, <3>8, <3>9 DEF WorkerOK
  <2>5. QED
    BY <1>4, <1>5, <1>7, <1>8, <2>3, <2>4, ManagerStep
<1>11. QED
  BY <1>9, <1>10

\* Sending one object through a sender of the worker.
LEMMA WriteKeeps ==
    ASSUME IInv, NEW w \in Workers, job'[w] = job[w],
           NEW s \in Sender, Own(w, s), WriteIfFull(s)
    PROVE  /\ ManagerType' /\ CheckpointedIsUploaded'
           /\ UNCHANGED <<uploads, checkpoints>>
           /\ \A id \in DOMAIN sessions \ {s.id} :
                id \in DOMAIN sessions' /\ sessions'[id] = sessions[id]
           /\ AfterSend(s) \in Sender
           /\ \A t : t = AfterSend(s) => Own(w, t)' /\ KeyOf(t)' = KeyOf(s)
           /\ \A t : Own(w, t) /\ KeyOf(t) # KeyOf(s)
                       => Own(w, t)' /\ KeyOf(t)' = KeyOf(t)
<1> USE DEF IInv
<1>1. PICK file, more : /\ file = sessions[s.id].file
                        /\ more = Append(s.batch, s.sent + 1)
  OBVIOUS
<1>2. /\ s.id \in DOMAIN sessions /\ sessions[s.id] \in Session
      /\ file \in Seq(Nat) /\ s.batch \in Seq(Nat) /\ s.sent \in Nat
      /\ file \o s.batch = FirstObjects(s.sent)
  BY <1>1 DEF Own, TypeOK, Session, Sender
<1>3. /\ file \o more = FirstObjects(s.sent + 1)
      /\ (file \o more) \o <<>> = FirstObjects(s.sent + 1)
  BY <1>1, <1>2, OneMoreObject
<1>4. more \in Seq(Nat) /\ file \o more \in Seq(Nat) /\ <<>> \in Seq(Nat)
  BY <1>1, <1>2
<1>5. /\ AfterSend(s).id = s.id /\ AfterSend(s).sent = s.sent + 1
      /\ AfterSend(s).batch = IF Full(s) THEN <<>> ELSE more
      /\ AfterSend(s) \in Sender
  <2>1. PICK b : b = IF Full(s) THEN <<>> ELSE more
    OBVIOUS
  <2>2. AfterSend(s) = [s EXCEPT !.sent = s.sent + 1, !.batch = b]
    BY <1>1, <2>1 DEF AfterSend
  <2>3. b \in Seq(Nat) /\ s.sent + 1 \in Nat
    BY <1>2, <1>4, <2>1
  <2>4. QED
    BY <2>1, <2>2, <2>3 DEF Sender
<1>6. /\ DOMAIN sessions' = DOMAIN sessions
      /\ \A id \in DOMAIN sessions \ {s.id} : sessions'[id] = sessions[id]
      /\ sessions'[s.id] = [key |-> KeyOf(s),
                            file |-> IF Full(s) THEN file \o more ELSE file]
  <2>1. CASE Full(s)
    BY <1>1, <1>2, <2>1 DEF WriteIfFull, KeyOf, Session
  <2>2. CASE ~Full(s)
    BY <1>1, <1>2, <2>2 DEF WriteIfFull, KeyOf, Session
  <2>3. QED
    BY <2>1, <2>2
<1>7. UNCHANGED <<lastID, uploads, leftTemps, checkpoints>>
      /\ s.sent + 1 <= ObjectsOf(s)
  <2>1. ObjectsOf(s) \in Nat
    BY <1>2, NumbersAssumption DEF ObjectsOf, KeyOf, Session, Key
  <2>2. QED
    BY <1>2, <2>1 DEF WriteIfFull
<1>8. ManagerType'
  <2>1. KeyOf(s) \in Key
    BY <1>2 DEF KeyOf, Session
  <2>2. sessions'[s.id] \in Session
    BY <1>2, <1>4, <1>6, <2>1 DEF Session
  <2>3. QED
    BY <1>6, <1>7, <2>2 DEF ManagerType, TypeOK
<1>9. CheckpointedIsUploaded'
  BY <1>7 DEF CheckpointedIsUploaded, UploadsOf
<1>10. ASSUME NEW t, t = AfterSend(s)
       PROVE  Own(w, t)' /\ KeyOf(t)' = KeyOf(s)
  <2>1. sessions'[t.id].key = KeyOf(s) /\ t.id \in DOMAIN sessions'
    BY <1>2, <1>5, <1>6, <1>10
  <2>2. sessions'[t.id].file \o t.batch = FirstObjects(t.sent)
    <3>1. t.id = s.id /\ t.sent = s.sent + 1
      BY <1>5, <1>10
    <3>2. CASE Full(s)
      <4>1. sessions'[s.id].file = file \o more /\ t.batch = <<>>
        BY <1>5, <1>6, <1>10, <3>2
      <4>2. QED
        BY <1>3, <3>1, <4>1
    <3>3. CASE ~Full(s)
      <4>1. sessions'[s.id].file = file /\ t.batch = more
        BY <1>5, <1>6, <1>10, <3>3
      <4>2. QED
        BY <1>3, <3>1, <4>1
    <3>4. QED
      BY <3>2, <3>3
  <2>3. KeyOf(t)' = KeyOf(s) /\ ObjectsOf(t)' = ObjectsOf(s)
    BY <2>1 DEF KeyOf, ObjectsOf
  <2>4. t.sent <= ObjectsOf(t)'
    BY <1>5, <1>7, <1>10, <2>3
  <2>5. QED
    BY <1>7, <2>1, <2>2, <2>3, <2>4 DEF Own
<1>11. ASSUME NEW t, Own(w, t), KeyOf(t) # KeyOf(s)
       PROVE  Own(w, t)' /\ KeyOf(t)' = KeyOf(t)
  <2>1. t.id # s.id /\ t.id \in DOMAIN sessions
    BY <1>11 DEF Own, KeyOf
  <2>2. t.id \in DOMAIN sessions' /\ sessions'[t.id] = sessions[t.id]
    BY <1>6, <2>1
  <2>3. QED
    BY <1>7, <1>11, <2>2 DEF Own, KeyOf, ObjectsOf
<1>12. QED
  BY <1>5, <1>6, <1>7, <1>8, <1>9, <1>10, <1>11

LEMMA SendKeeps ==
    ASSUME IInv, NEW w \in Workers, NEW i \in DOMAIN senders[w], Send(w, i)
    PROVE  IInv'
<1> USE DEF IInv
<1>1. PICK q, r, s : q = senders[w] /\ r = senders'[w] /\ s = senders[w][i]
  OBVIOUS
<1>2. /\ s \in Sender /\ q \in Seq(Sender) /\ DOMAIN q = 1..Len(q)
      /\ i \in DOMAIN q /\ Own(w, s) /\ KeyOf(s)[2] \notin Inner
  BY <1>1 DEF WorkerOK, TypeOK
<1>3. /\ pc[w] = "running" /\ WriteIfFull(s)
      /\ senders' = [senders EXCEPT ![w] = [q EXCEPT ![i] = AfterSend(s)]]
      /\ UNCHANGED <<todo, pc, job, failing, inner, fatal, failedCount, allRes,
                     faults>>
  BY <1>1 DEF Send
<1>4. /\ ManagerType' /\ CheckpointedIsUploaded'
      /\ UNCHANGED <<uploads, checkpoints>>
      /\ \A id \in DOMAIN sessions \ {s.id} :
           id \in DOMAIN sessions' /\ sessions'[id] = sessions[id]
      /\ AfterSend(s) \in Sender
      /\ \A t : t = AfterSend(s) => Own(w, t)' /\ KeyOf(t)' = KeyOf(s)
      /\ \A t : Own(w, t) /\ KeyOf(t) # KeyOf(s)
                  => Own(w, t)' /\ KeyOf(t)' = KeyOf(t)
  BY <1>2, <1>3, WriteKeeps
<1>5. /\ r = [q EXCEPT ![i] = AfterSend(s)] /\ r \in Seq(Sender)
      /\ DOMAIN r = DOMAIN q /\ r[i] = AfterSend(s)
      /\ \A j \in DOMAIN q \ {i} : r[j] = q[j]
  BY <1>1, <1>2, <1>3, <1>4 DEF TypeOK
<1>6. TypeOK'
  BY <1>1, <1>3, <1>4, <1>5 DEF TypeOK, ManagerType
<1>7. JobsOK'
  BY <1>3, <1>4 DEF JobsOK
<1>8. OnlyWorker(w)
  BY <1>3 DEF OnlyWorker, TypeOK
<1>9. WorkerOK(w)'
  <2>1. \A j \in DOMAIN q \ {i} :
          Own(w, q[j]) /\ KeyOf(q[j])[2] \notin Inner /\ KeyOf(q[j]) # KeyOf(s)
    BY <1>1, <1>2 DEF WorkerOK
  <2>2. \A j \in DOMAIN q \ {i} : Own(w, r[j])' /\ KeyOf(r[j])' = KeyOf(q[j])
    BY <1>4, <1>5, <2>1
  <2>3. Own(w, r[i])' /\ KeyOf(r[i])' = KeyOf(s) /\ q[i] = s
    BY <1>1, <1>4, <1>5
  <2>4. \A j \in DOMAIN r : Own(w, r[j])' /\ KeyOf(r[j])'[2] \notin Inner
    BY <1>2, <1>5, <2>1, <2>2, <2>3
  <2>5. \A j, k \in DOMAIN q : KeyOf(q[j]) = KeyOf(q[k]) => j = k
    BY <1>1 DEF WorkerOK
  <2>6. \A j, k \in DOMAIN r : KeyOf(r[j])' = KeyOf(r[k])' => j = k
    BY <1>5, <2>2, <2>3, <2>5
  <2>7. \A t \in inner[w] :
          Own(w, t)' /\ KeyOf(t)' = KeyOf(t) /\ KeyOf(t)[2] \in Inner
    BY <1>2, <1>4 DEF WorkerOK
  <2>8. \A t, u \in inner[w] : KeyOf(t) = KeyOf(u) => t = u
    BY DEF WorkerOK
  <2>9. pc'[w] = "running" /\ \A m \in Models \ Inner :
                                <<job'[w], m>> \notin checkpoints'
    BY <1>3, <1>4 DEF WorkerOK
  <2>10. QED
    BY <1>1, <1>3, <2>4, <2>6, <2>7, <2>8, <2>9 DEF WorkerOK
<1>10. \A id \in DOMAIN sessions : sessions[id].key[1] # job[w] => id # s.id
  BY <1>2 DEF Own, KeyOf
<1>11. QED
  BY <1>4, <1>6, <1>7, <1>8, <1>9, <1>10, ManagerStep

LEMMA SendInnerKeeps ==
    ASSUME IInv, NEW w \in Workers, NEW s \in inner[w], SendInner(w, s)
    PROVE  IInv'
<1> USE DEF IInv
<1>1. s \in Sender /\ Own(w, s) /\ KeyOf(s)[2] \in Inner
  BY DEF WorkerOK, TypeOK
<1>2. /\ pc[w] = "running" /\ WriteIfFull(s)
      /\ inner'[w] = (inner[w] \ {s}) \cup {AfterSend(s)}
      /\ UNCHANGED <<todo, pc, job, failing, senders, fatal, failedCount,
                     allRes, faults>>
  BY DEF SendInner, TypeOK
<1>3. /\ ManagerType' /\ CheckpointedIsUploaded'
      /\ UNCHANGED <<uploads, checkpoints>>
      /\ \A id \in DOMAIN sessions \ {s.id} :
           id \in DOMAIN sessions' /\ sessions'[id] = sessions[id]
      /\ AfterSend(s) \in Sender
      /\ \A t : t = AfterSend(s) => Own(w, t)' /\ KeyOf(t)' = KeyOf(s)
      /\ \A t : Own(w, t) /\ KeyOf(t) # KeyOf(s)
                  => Own(w, t)' /\ KeyOf(t)' = KeyOf(t)
  BY <1>1, <1>2, WriteKeeps
<1>4. TypeOK'
  BY <1>2, <1>3 DEF TypeOK, ManagerType, SendInner
<1>5. JobsOK'
  BY <1>2, <1>3 DEF JobsOK
<1>6. OnlyWorker(w)
  BY DEF SendInner, OnlyWorker, TypeOK
<1>7. WorkerOK(w)'
  <2>1. \A t \in inner[w] \ {s} :
          /\ Own(w, t) /\ KeyOf(t)[2] \in Inner /\ KeyOf(t) # KeyOf(s)
          /\ Own(w, t)' /\ KeyOf(t)' = KeyOf(t)
    BY <1>3 DEF WorkerOK
  <2>2. \A t : t = AfterSend(s) => Own(w, t)' /\ KeyOf(t)' = KeyOf(s)
    BY <1>3
  <2>3. \A t \in inner'[w] : Own(w, t)' /\ KeyOf(t)'[2] \in Inner
    BY <1>1, <1>2, <2>1, <2>2
  <2>4. \A t, u \in inner'[w] : KeyOf(t)' = KeyOf(u)' => t = u
    <3>1. \A t, u \in inner[w] : KeyOf(t) = KeyOf(u) => t = u
      BY DEF WorkerOK
    <3>2. QED
      BY <1>2, <2>1, <2>2, <3>1
  <2>5. PICK q : q = senders[w]
    OBVIOUS
  <2>6. \A i \in DOMAIN q : /\ Own(w, q[i])' /\ KeyOf(q[i])' = KeyOf(q[i])
                            /\ KeyOf(q[i])[2] \notin Inner
    BY <1>1, <1>3, <2>5 DEF WorkerOK
  <2>7. \A i, j \in DOMAIN q : KeyOf(q[i]) = KeyOf(q[j]) => i = j
    BY <2>5 DEF WorkerOK
  <2>8. pc'[w] = "running" /\ \A m \in Models \ Inner :
                                <<job'[w], m>> \notin checkpoints'
    BY <1>2, <1>3 DEF WorkerOK
  <2>9. QED
    BY <1>2, <2>3, <2>4, <2>5, <2>6, <2>7, <2>8 DEF WorkerOK
<1>8. \A id \in DOMAIN sessions : sessions[id].key[1] # job[w] => id # s.id
  BY <1>1 DEF Own, KeyOf
<1>9. QED
  BY <1>3, <1>4, <1>5, <1>6, <1>7, <1>8, ManagerStep

\* A session of the worker that ends takes no other one with it.
LEMMA OtherSessions ==
    ASSUME NEW w \in Workers, job'[w] = job[w],
           NEW s, Own(w, s), sessions' = WithoutSession(s.id),
           checkpoints' \subseteq checkpoints \cup {KeyOf(s)}
    PROVE  /\ DOMAIN sessions' = DOMAIN sessions \ {s.id}
           /\ \A id \in DOMAIN sessions \ {s.id} : sessions'[id] = sessions[id]
           /\ \A t : Own(w, t) /\ KeyOf(t) # KeyOf(s)
                       => /\ Own(w, t)' /\ KeyOf(t)' = KeyOf(t)
                          /\ ObjectsOf(t)' = ObjectsOf(t)
<1>1. /\ DOMAIN sessions' = DOMAIN sessions \ {s.id}
      /\ \A id \in DOMAIN sessions \ {s.id} : sessions'[id] = sessions[id]
  BY DEF WithoutSession
<1>2. ASSUME NEW t, Own(w, t), KeyOf(t) # KeyOf(s)
      PROVE  /\ Own(w, t)' /\ KeyOf(t)' = KeyOf(t)
             /\ ObjectsOf(t)' = ObjectsOf(t)
  <2>1. t.id \in DOMAIN sessions \ {s.id}
    BY <1>2 DEF Own, KeyOf
  <2>2. t.id \in DOMAIN sessions' /\ sessions'[t.id] = sessions[t.id]
    BY <1>1, <2>1
  <2>3. QED
    BY <1>2, <2>2 DEF Own, KeyOf, ObjectsOf
<1>3. QED
  BY <1>1, <1>2

\* Done: the file has every object of the key, once and in order.
LEMMA EndSessionKeeps ==
    ASSUME IInv, NEW w \in Workers, UNCHANGED <<job, todo>>,
           NEW s \in Sender, Own(w, s), s.sent = ObjectsOf(s), EndSession(s)
    PROVE  /\ ManagerType' /\ CheckpointedIsUploaded' /\ JobsOK'
           /\ checkpoints' = checkpoints \cup {KeyOf(s)}
           /\ sessions' = WithoutSession(s.id)
           /\ KeyOf(s) \in Key /\ KeyOf(s)[1] = job[w]
<1> USE DEF IInv
<1>1. PICK key, file : /\ key = KeyOf(s)
                       /\ file = sessions[s.id].file \o s.batch
  OBVIOUS
<1>2. /\ s.id \in DOMAIN sessions /\ key \in Key /\ key[1] = job[w]
      /\ key \notin checkpoints /\ s.id \in Nat
      /\ sessions[s.id].file \in Seq(Nat) /\ s.batch \in Seq(Nat)
  BY <1>1 DEF Own, TypeOK, Session, Sender, KeyOf
<1>3. file = AllObjects(key[2]) /\ Objects[key[2]] \in Nat
      /\ file = FirstObjects(Objects[key[2]])
  BY <1>1, <1>2, NumbersAssumption
  DEF Own, AllObjects, FirstObjects, ObjectsOf, Key
<1>4. /\ uploads' = uploads \cup
                      (IF file = <<>> THEN {}
                       ELSE {[id |-> s.id, key |-> key, objs |-> file]})
      /\ checkpoints' = checkpoints \cup {key}
      /\ sessions' = WithoutSession(s.id)
      /\ UNCHANGED <<lastID, leftTemps>>
  BY <1>1 DEF EndSession
<1>5. file = <<>> <=> Objects[key[2]] = 0
  BY <1>3, NoObjects
<1>6. \A u \in uploads : u.key # key
  BY <1>2 DEF JobsOK
<1>7. CheckpointedIsUploaded'
  <2> SUFFICES ASSUME NEW k \in checkpoints'
               PROVE  IF Objects[k[2]] = 0 THEN UploadsOf(k)' = {}
                      ELSE \E u \in uploads' :
                             UploadsOf(k)' = {u} /\ u.objs = AllObjects(k[2])
    BY DEF CheckpointedIsUploaded, UploadsOf
  <2>1. CASE k = key
    <3>1. CASE Objects[key[2]] = 0
      BY <1>4, <1>5, <1>6, <2>1, <3>1 DEF UploadsOf
    <3>2. CASE Objects[key[2]] # 0
      <4>1. PICK u : u = [id |-> s.id, key |-> key, objs |-> file]
        OBVIOUS
      <4>2. uploads' = uploads \cup {u} /\ u.key = key /\ u.objs = file
        BY <1>4, <1>5, <3>2, <4>1
      <4>3. UploadsOf(k)' = {u}
        BY <1>6, <2>1, <4>2 DEF UploadsOf
      <4>4. QED
        BY <1>3, <2>1, <3>2, <4>2, <4>3
    <3>3. QED
      BY <2>1, <3>1, <3>2
  <2>2. CASE k # key
    <3>1. k \in checkpoints
      BY <1>4, <2>2
    <3>2. UploadsOf(k)' = UploadsOf(k) /\ uploads \subseteq uploads'
      BY <1>4, <2>2 DEF UploadsOf
    <3>3. QED
      BY <3>1, <3>2 DEF CheckpointedIsUploaded
  <2>3. QED
    BY <2>1, <2>2
<1>8. ManagerType'
  <2>1. file \in Seq(Nat)
    BY <1>1, <1>2
  <2>2. uploads' \subseteq Upload
    BY <1>2, <1>4, <2>1 DEF Upload, TypeOK
  <2>3. /\ DOMAIN sessions' \subseteq DOMAIN sessions
        /\ \A id \in DOMAIN sessions' : sessions'[id] = sessions[id]
    BY <1>4 DEF WithoutSession
  <2>4. QED
    BY <1>2, <1>4, <2>2, <2>3 DEF ManagerType, TypeOK
<1>9. JobsOK'
  <2>1. key[1] \notin todo
    BY <1>2 DEF JobsOK
  <2>2. \A u \in uploads' : u.key \in checkpoints'
    BY <1>4 DEF JobsOK
  <2>3. QED
    BY <1>4, <2>1, <2>2 DEF JobsOK
<1>10. QED
  BY <1>1, <1>2, <1>4, <1>7, <1>8, <1>9

\* ProjectFn ends a session of its own.
LEMMA EndInnerKeeps ==
    ASSUME IInv, NEW w \in Workers, NEW s \in inner[w], EndInner(w, s)
    PROVE  IInv'
<1> USE DEF IInv
<1>1. s \in Sender /\ Own(w, s) /\ KeyOf(s)[2] \in Inner
  BY DEF WorkerOK, TypeOK
<1>2. /\ pc[w] = "running" /\ EndSession(s) /\ s.sent = ObjectsOf(s)
      /\ inner' = [inner EXCEPT ![w] = inner[w] \ {s}]
      /\ UNCHANGED <<todo, pc, job, failing, senders, fatal, failedCount,
                     allRes, faults>>
  BY DEF EndInner
<1>3. /\ ManagerType' /\ CheckpointedIsUploaded' /\ JobsOK'
      /\ checkpoints' = checkpoints \cup {KeyOf(s)}
      /\ sessions' = WithoutSession(s.id)
      /\ KeyOf(s) \in Key /\ KeyOf(s)[1] = job[w]
  BY <1>1, <1>2, EndSessionKeeps
<1>4. /\ DOMAIN sessions' = DOMAIN sessions \ {s.id}
      /\ \A id \in DOMAIN sessions \ {s.id} : sessions'[id] = sessions[id]
      /\ \A t : Own(w, t) /\ KeyOf(t) # KeyOf(s)
                  => /\ Own(w, t)' /\ KeyOf(t)' = KeyOf(t)
                     /\ ObjectsOf(t)' = ObjectsOf(t)
  BY <1>1, <1>2, <1>3, OtherSessions
<1>5. TypeOK'
  BY <1>2, <1>3 DEF TypeOK, ManagerType
<1>6. OnlyWorker(w)
  BY <1>2 DEF OnlyWorker, TypeOK
<1>7. WorkerOK(w)'
  <2>1. \A t \in inner[w] \ {s} :
          /\ KeyOf(t)[2] \in Inner /\ Own(w, t)' /\ KeyOf(t)' = KeyOf(t)
    BY <1>4 DEF WorkerOK
  <2>2. inner'[w] = inner[w] \ {s}
    BY <1>2 DEF TypeOK
  <2>3. \A t, u \in inner[w] : KeyOf(t) = KeyOf(u) => t = u
    BY DEF WorkerOK
  <2>4. PICK q : q = senders[w]
    OBVIOUS
  <2>5. \A i \in DOMAIN q : /\ Own(w, q[i])' /\ KeyOf(q[i])' = KeyOf(q[i])
                            /\ KeyOf(q[i])[2] \notin Inner
    BY <1>1, <1>4, <2>4 DEF WorkerOK
  <2>6. \A i, j \in DOMAIN q : KeyOf(q[i]) = KeyOf(q[j]) => i = j
    BY <2>4 DEF WorkerOK
  <2>7. \A m \in Models \ Inner : <<job'[w], m>> \notin checkpoints'
    BY <1>1, <1>2, <1>3 DEF WorkerOK
  <2>8. pc'[w] = "running"
    BY <1>2
  <2>9. QED
    BY <1>2, <2>1, <2>2, <2>3, <2>4, <2>5, <2>6, <2>7, <2>8 DEF WorkerOK
<1>8. \A id \in DOMAIN sessions : sessions[id].key[1] # job[w] => id # s.id
  BY <1>1 DEF Own, KeyOf
<1>9. QED
  BY <1>3, <1>4, <1>5, <1>6, <1>7, <1>8, ManagerStep

\* At the end of a project the first sender's session ends, the others are as
\* good as before.
LEMMA TailKeeps ==
    ASSUME IInv, NEW w \in Workers, pc[w] = "ending", senders[w] # <<>>,
           pc'[w] \in {"ending", "gone"},
           senders'[w] = Tail(senders[w]), inner'[w] = inner[w],
           UNCHANGED <<job, failing>>,
           NEW s, s = Head(senders[w]), sessions' = WithoutSession(s.id),
           checkpoints' \subseteq checkpoints \cup {KeyOf(s)}
    PROVE  WorkerOK(w)'
<1> USE DEF IInv
<1>1. PICK q, r : q = senders[w] /\ r = senders'[w]
  OBVIOUS
<1>2. /\ q \in Seq(Sender) /\ q # <<>> /\ s = q[1]
      /\ DOMAIN q = 1..Len(q) /\ Len(q) \in Nat \ {0}
      /\ DOMAIN r = 1..(Len(q) - 1)
      /\ \A i \in 1..(Len(q) - 1) : i + 1 \in 1..Len(q) /\ r[i] = q[i + 1]
  BY <1>1 DEF TypeOK
<1>3. /\ \A i \in DOMAIN q : Own(w, q[i]) /\ KeyOf(q[i])[2] \notin Inner
      /\ \A i, j \in DOMAIN q : KeyOf(q[i]) = KeyOf(q[j]) => i = j
      /\ ~failing[w] => \A i \in DOMAIN q : q[i].sent = ObjectsOf(q[i])
  BY <1>1 DEF WorkerOK
<1>4. Own(w, s)
  BY <1>2, <1>3
<1>5. \A t : Own(w, t) /\ KeyOf(t) # KeyOf(s)
               => /\ Own(w, t)' /\ KeyOf(t)' = KeyOf(t)
                  /\ ObjectsOf(t)' = ObjectsOf(t)
  BY <1>4, OtherSessions
<1>6. \A i \in DOMAIN r :
        /\ i + 1 \in DOMAIN q /\ r[i] = q[i + 1]
        /\ Own(w, q[i + 1]) /\ KeyOf(q[i + 1]) # KeyOf(s)
  <2> SUFFICES ASSUME NEW i \in DOMAIN r
               PROVE  /\ i + 1 \in DOMAIN q /\ r[i] = q[i + 1]
                      /\ Own(w, q[i + 1]) /\ KeyOf(q[i + 1]) # KeyOf(s)
    OBVIOUS
  <2>1. i + 1 \in DOMAIN q /\ r[i] = q[i + 1] /\ i + 1 # 1 /\ 1 \in DOMAIN q
    BY <1>2
  <2>2. QED
    BY <1>2, <1>3, <2>1
<1>7. \A i \in DOMAIN r :
        /\ Own(w, r[i])' /\ KeyOf(r[i])' = KeyOf(q[i + 1])
        /\ ObjectsOf(r[i])' = ObjectsOf(q[i + 1])
        /\ KeyOf(r[i])'[2] \notin Inner
  BY <1>3, <1>5, <1>6
<1>8. \A i, j \in DOMAIN r : KeyOf(r[i])' = KeyOf(r[j])' => i = j
  <2> SUFFICES ASSUME NEW i \in DOMAIN r, NEW j \in DOMAIN r,
                      KeyOf(r[i])' = KeyOf(r[j])'
               PROVE  i = j
    OBVIOUS
  <2>1. i + 1 = j + 1
    BY <1>3, <1>6, <1>7
  <2>2. QED
    BY <1>2, <2>1
<1>9. ~failing[w] => \A i \in DOMAIN r : r[i].sent = ObjectsOf(r[i])'
  BY <1>3, <1>6, <1>7
<1>10. inner[w] = {}
  BY DEF TypeOK
<1>11. QED
  BY <1>1, <1>7, <1>8, <1>9, <1>10 DEF WorkerOK

LEMMA DoneKeeps ==
    ASSUME IInv, NEW w \in Workers,
           Done(w) \/ Rollback(w) \/ RollbackFails(w)
    PROVE  IInv'
<1> USE DEF IInv, Goto, Fatal
<1>1. PICK s : s = Head(senders[w])
  OBVIOUS
<1>2. /\ pc[w] = "ending" /\ senders[w] # <<>>
      /\ senders' = [senders EXCEPT ![w] = Tail(senders[w])]
      /\ UNCHANGED <<todo, job, failing, inner, failedCount, allRes>>
      /\ pc' = pc \/ pc' = [pc EXCEPT ![w] = "gone"]
  BY DEF Done, Rollback, RollbackFails, Ending
<1>3. /\ s \in Sender /\ Tail(senders[w]) \in Seq(Sender)
      /\ 1 \in DOMAIN senders[w] /\ s = senders[w][1]
  BY <1>1, <1>2 DEF TypeOK
<1>4. Own(w, s)
  BY <1>3 DEF WorkerOK
<1>5. /\ sessions' = WithoutSession(s.id)
      /\ checkpoints' \subseteq checkpoints \cup {KeyOf(s)}
      /\ ManagerType' /\ CheckpointedIsUploaded' /\ JobsOK'
      /\ KeyOf(s) \in Key /\ KeyOf(s)[1] = job[w]
  <2>1. CASE Done(w)
    <3>1. s.sent = ObjectsOf(s)
      BY <1>2, <1>3, <2>1 DEF Done, WorkerOK
    <3>2. EndSession(s)
      BY <1>1, <2>1 DEF Done
    <3>3. QED
      BY <1>2, <1>3, <1>4, <3>1, <3>2, EndSessionKeeps
  <2>2. CASE Rollback(w) \/ RollbackFails(w)
    <3>1. /\ sessions' = WithoutSession(s.id)
          /\ UNCHANGED <<lastID, uploads, checkpoints>>
          /\ leftTemps' \subseteq leftTemps \cup {s.id}
      BY <1>1, <2>2 DEF Rollback, RollbackFails
    <3>2. ManagerType'
      BY <1>3, <3>1 DEF ManagerType, TypeOK, WithoutSession, Sender
    <3>3. CheckpointedIsUploaded' /\ JobsOK'
      BY <1>2, <3>1 DEF CheckpointedIsUploaded, UploadsOf, JobsOK
    <3>4. KeyOf(s) \in Key /\ KeyOf(s)[1] = job[w]
      BY <1>4 DEF Own, KeyOf, TypeOK, Session
    <3>5. QED
      BY <3>1, <3>2, <3>3, <3>4
  <2>3. QED
    BY <2>1, <2>2
<1>6. TypeOK'
  <2>1. fatal' \in BOOLEAN /\ faults' \in Nat
    <3>1. CASE Done(w) \/ Rollback(w)
      BY <3>1 DEF Done, Rollback, TypeOK
    <3>2. CASE RollbackFails(w)
      BY <3>2 DEF RollbackFails, TypeOK
    <3>3. QED
      BY <3>1, <3>2
  <2>2. QED
    BY <1>2, <1>3, <1>5, <2>1 DEF TypeOK, ManagerType, Places
<1>7. OnlyWorker(w)
  BY <1>2 DEF OnlyWorker, TypeOK
<1>8. WorkerOK(w)'
  <2>1. /\ pc'[w] \in {"ending", "gone"}
        /\ senders'[w] = Tail(senders[w]) /\ inner'[w] = inner[w]
    BY <1>2 DEF TypeOK
  <2>2. QED
    BY <1>1, <1>2, <1>5, <2>1, TailKeeps
<1>9. \A id \in DOMAIN sessions : sessions[id].key[1] # job[w] =>
        id \in DOMAIN sessions' /\ sessions'[id] = sessions[id]
  BY <1>4, <1>5 DEF Own, KeyOf, WithoutSession
<1>10. QED
  BY <1>5, <1>6, <1>7, <1>8, <1>9, ManagerStep

-----------------------------------------------------------------------------
(* The theorems                                                            *)

LEMMA AlwaysIInv == Spec => []IInv
<1>1. Init => IInv
  <2> SUFFICES ASSUME Init PROVE IInv
    OBVIOUS
  <2>1. TypeOK
    <3>1. <<>> \in Seq(Sender)
      OBVIOUS
    <3>2. sessions = [id \in {} |-> 0] /\ DOMAIN sessions = {}
      BY DEF Init, NoSessions
    <3>3. QED
      BY <3>1, <3>2 DEF Init, TypeOK, Places
  <2>2. JobsOK
    BY NoProjectAssumption DEF Init, JobsOK
  <2>3. \A w \in Workers : WorkerOK(w)
    BY DEF Init, WorkerOK
  <2>4. CheckpointedIsUploaded
    BY DEF Init, CheckpointedIsUploaded
  <2>5. QED
    BY <2>1, <2>2, <2>3, <2>4 DEF IInv
<1>2. IInv /\ [Next]_vars => IInv'
  <2> SUFFICES ASSUME IInv, [Next]_vars PROVE IInv'
    OBVIOUS
  <2>1. ASSUME NEW w \in Workers, WorkerStep(w) PROVE IInv'
    <3>1. CASE ProjectFnStep(w)
      BY <3>1, OpenKeeps, SendKeeps, SendInnerKeeps, EndInnerKeeps,
         ReportKeeps
      DEF ProjectFnStep
    <3>2. QED
      BY <2>1, <3>1, TakeKeeps, ReportKeeps, DoneKeeps, EndKeeps
      DEF WorkerStep
  <2>2. ASSUME NEW w \in Workers, Fault(w) PROVE IInv'
    BY <2>2, ReportKeeps, DoneKeeps DEF Fault
  <2>3. CASE UNCHANGED vars
    <3>1. UNCHANGED <<pool, manager, faults>>
      BY <2>3 DEF vars
    <3>2. TypeOK'
      BY <3>1 DEF IInv, TypeOK, pool, manager
    <3>3. JobsOK' /\ CheckpointedIsUploaded'
      BY <3>1 DEF IInv, JobsOK, CheckpointedIsUploaded, UploadsOf, pool,
                  manager
    <3>4. \A w \in Workers : WorkerOK(w)'
      <4>1. /\ \A w, t : Own(w, t)' <=> Own(w, t)
            /\ \A t : KeyOf(t)' = KeyOf(t) /\ ObjectsOf(t)' = ObjectsOf(t)
        BY <3>1 DEF Own, KeyOf, ObjectsOf, pool, manager
      <4>2. ASSUME NEW w \in Workers PROVE WorkerOK(w)'
        <5>1. WorkerOK(w)
          BY DEF IInv
        <5>2. QED
          BY <3>1, <4>1, <5>1 DEF WorkerOK, pool, manager
      <4>3. QED
        BY <4>2
    <3>5. QED
      BY <3>2, <3>3, <3>4 DEF IInv
  <2>4. QED
    BY <2>1, <2>2, <2>3 DEF Next, Idle
<1>3. QED
  BY <1>1, <1>2, PTL DEF Spec

\* Every variable keeps to its type, a worker that takes a project holds no
\* session of its last one.
THEOREM TypeCorrect == Spec => []TypeOK
BY AlwaysIInv, PTL DEF IInv

\* However workers, failing projects and failing calls of the manager
\* interleave, a checkpoint is set only for a key whose every object is in
\* one finished file, once and in order.
THEOREM CheckpointMeansUploaded == Spec => []CheckpointedIsUploaded
BY AlwaysIInv, PTL DEF IInv

-----------------------------------------------------------------------------
(* Why a project is left out                                               *)

Stopped == fatal \/ failedCount > ReturnEarlyAfter

\* Workers that took their last project, because it failed.
Ended == {w \in Workers : pc[w] = "gone" \/ (pc[w] = "ending" /\ failing[w])}

InWork(p) == \E w \in Workers :
    job[w] = p /\ pc[w] \in {"checking", "running", "progress", "reporting"}

\* Until the pool is stopped no project is dropped, and every worker that
\* returns while there are projects has failed at one.
ReasonInv ==
    \/ Stopped
    \/ /\ \A p \in Projects : p \in todo \/ p \in Reported \/ InWork(p)
       /\ todo # {} => Cardinality(Ended) <= failedCount

LEMMA EndedFinite == IsFiniteSet(Ended) /\ Cardinality(Ended) \in Nat
<1>1. IsFiniteSet(Ended)
  BY FiniteAssumption, FS_Subset DEF Ended
<1> QED BY <1>1, FS_CardinalityType

\* What is to be shown of a step that ends no project.
LEMMA SameReason ==
    ASSUME TypeOK, ReasonInv, fatal => fatal', failedCount' = failedCount,
           allRes' = allRes, todo' = todo, Ended' = Ended,
           \A p \in Projects : InWork(p) => InWork(p)'
    PROVE  ReasonInv'
BY DEF ReasonInv, Stopped, Reported

LEMMA ReasonStep ==
    ASSUME TypeOK, ReasonInv, [Next]_vars
    PROVE  ReasonInv'
<1> USE DEF Goto, Free
<1>1. CASE UNCHANGED vars
  BY <1>1 DEF vars, pool, ReasonInv, Stopped, Reported, InWork, Ended
<1>2. SUFFICES ASSUME NEW w \in Workers, WorkerStep(w) \/ Fault(w)
               PROVE  ReasonInv'
  BY <1>1 DEF Next, Idle
<1>3. CASE Take(w)
  <2>1. PICK p : p = NextProject
    OBVIOUS
  <2>2. /\ pc[w] = "idle" /\ todo' = todo \ {p} /\ p \in todo
        /\ job' = [job EXCEPT ![w] = p] /\ pc' = [pc EXCEPT ![w] = "checking"]
        /\ UNCHANGED <<failing, fatal, failedCount, allRes>>
    BY <1>3, <2>1 DEF Take, NextProject
  <2>3. /\ pc'[w] = "checking" /\ job'[w] = p
        /\ \A v \in Workers \ {w} : pc'[v] = pc[v] /\ job'[v] = job[v]
    BY <2>2 DEF TypeOK
  <2>4. Ended' = Ended
    BY <2>2, <2>3 DEF Ended
  <2>5. \A q \in Projects : InWork(q) => InWork(q)'
    BY <2>2, <2>3 DEF InWork
  <2>6. InWork(p)'
    BY <2>3 DEF InWork
  <2> QED BY <2>2, <2>4, <2>5, <2>6 DEF ReasonInv, Stopped, Reported
<1>4. CASE NoMore(w)
  <2>1. /\ todo = {} /\ pc[w] = "idle" /\ pc' = [pc EXCEPT ![w] = "gone"]
        /\ UNCHANGED <<todo, job, failing, fatal, failedCount, allRes>>
    BY <1>4 DEF NoMore
  <2>2. \A q \in Projects : InWork(q) => InWork(q)'
    BY <2>1 DEF InWork, TypeOK
  <2> QED BY <2>1, <2>2 DEF ReasonInv, Stopped, Reported
<1>5. CASE StopEarly(w)
  BY <1>5 DEF StopEarly, MustStop, ReasonInv, Stopped
<1>6. CASE IncProgressFails(w) \/ RollbackFails(w)
  BY <1>6 DEF IncProgressFails, RollbackFails, Fatal, ReasonInv, Stopped
<1>7. CASE Report(w)
  <2>1. /\ pc[w] = "reporting" /\ pc' = [pc EXCEPT ![w] = "ending"]
        /\ allRes' = allRes \cup {[project |-> job[w], failed |-> failing[w]]}
        /\ failedCount' = IF failing[w] THEN failedCount + 1 ELSE failedCount
        /\ UNCHANGED <<todo, job, failing, fatal>> /\ failedCount \in Nat
    BY <1>7 DEF Report, TypeOK
  <2>2. Reported' = Reported \cup {job[w]}
    <3>1. PICK r : r = [project |-> job[w], failed |-> failing[w]]
      OBVIOUS
    <3>2. r.project = job[w] /\ allRes' = allRes \cup {r}
      BY <2>1, <3>1
    <3>3. {x.project : x \in allRes \cup {r}}
            = {x.project : x \in allRes} \cup {r.project}
      OBVIOUS
    <3> QED BY <3>2, <3>3 DEF Reported
  <2>3. \A q \in Projects : InWork(q) => q \in Reported' \/ InWork(q)'
    BY <2>1, <2>2 DEF InWork, TypeOK
  <2>4. Stopped => Stopped'
    BY <2>1, NumbersAssumption DEF Stopped
  <2>5. Ended' = IF failing[w] THEN Ended \cup {w} ELSE Ended
    BY <2>1 DEF Ended, TypeOK
  <2>6. Cardinality(Ended) <= failedCount => Cardinality(Ended') <= failedCount'
    <3>1. w \notin Ended
      BY <2>1 DEF Ended
    <3>2. Cardinality(Ended \cup {w}) = Cardinality(Ended) + 1
      BY <3>1, EndedFinite, FS_AddElement
    <3> QED BY <2>1, <2>5, <3>2, EndedFinite
  <2> QED BY <2>1, <2>2, <2>3, <2>4, <2>6 DEF ReasonInv
<1>8. CASE Completed(w) \/ RolledBack(w)
  <2>1. /\ pc[w] = "ending"
        /\ IF failing[w] THEN pc' = [pc EXCEPT ![w] = "gone"]
           ELSE pc' = [pc EXCEPT ![w] = "idle"]
        /\ job' = [job EXCEPT ![w] = NoProject]
        /\ failing' = [failing EXCEPT ![w] = FALSE]
        /\ UNCHANGED <<todo, fatal, failedCount, allRes>>
    BY <1>8 DEF Completed, RolledBack
  <2>2. Ended' = Ended
    BY <2>1 DEF Ended, TypeOK
  <2>3. \A q \in Projects : InWork(q) => InWork(q)'
    BY <2>1 DEF InWork, TypeOK
  <2> QED BY <2>1, <2>2, <2>3, SameReason
<1>9. CASE StartProject(w) \/ Succeeds(w) \/ Fails(w) \/ IncProgress(w)
  <2>1. /\ pc[w] \in {"checking", "running", "progress"}
        /\ \/ pc' = [pc EXCEPT ![w] = "running"]
           \/ pc' = [pc EXCEPT ![w] = "progress"]
           \/ pc' = [pc EXCEPT ![w] = "reporting"]
        /\ failing' = failing \/ failing' = [failing EXCEPT ![w] = TRUE]
        /\ UNCHANGED <<job, todo, fatal, failedCount, allRes>>
    BY <1>9 DEF StartProject, Succeeds, Fails, IncProgress
  <2>2. Ended' = Ended
    BY <2>1 DEF Ended, TypeOK
  <2>3. \A q \in Projects : InWork(q) => InWork(q)'
    BY <2>1 DEF InWork, TypeOK
  <2> QED BY <2>1, <2>2, <2>3, SameReason
<1>10. CASE UNCHANGED <<todo, pc, job, failing, fatal, failedCount, allRes>>
  <2>1. Ended' = Ended /\ \A q \in Projects : InWork(q) => InWork(q)'
    BY <1>10 DEF Ended, InWork
  <2> QED BY <1>10, <2>1, SameReason
<1>11. ProjectFnStep(w) /\ ~Succeeds(w) =>
         UNCHANGED <<todo, pc, job, failing, fatal, failedCount, allRes>>
  BY DEF ProjectFnStep, OpenSession, OpenInner, Send, SendInner, EndInner
<1>12. Done(w) \/ Rollback(w) =>
         UNCHANGED <<todo, pc, job, failing, fatal, failedCount, allRes>>
  BY DEF Done, Rollback
<1> QED
  BY <1>2, <1>3, <1>4, <1>5, <1>6, <1>7, <1>8, <1>9, <1>10, <1>11, <1>12
     DEF WorkerStep, Fault

\* Whatever fails, Run leaves a project out of its results only after a fatal
\* error, too many failures, or a failure of each worker.
THEOREM LeftOutOnlyForAReason == Spec => []LeftOutForAReason
<1>1. Init => ReasonInv
  <2> SUFFICES ASSUME Init PROVE ReasonInv
    OBVIOUS
  <2>1. Ended = {}
    BY DEF Init, Ended
  <2> QED BY <2>1, FS_EmptySet DEF Init, ReasonInv
<1>2. TypeOK /\ ReasonInv /\ [Next]_vars => ReasonInv'
  BY ReasonStep
<1>3. TypeOK /\ ReasonInv => LeftOutForAReason
  <2> SUFFICES ASSUME TypeOK, ReasonInv, Returned, Reported # Projects, ~Stopped
               PROVE  failedCount >= Cardinality(Workers)
    BY DEF LeftOutForAReason, Stopped
  <2>1. Ended = Workers /\ \A p \in Projects : ~ InWork(p)
    BY DEF Returned, Ended, InWork
  <2>2. Reported \subseteq Projects
    BY DEF Reported, TypeOK
  <2>3. todo # {}
    BY <2>1, <2>2 DEF ReasonInv
  <2> QED BY <2>1, <2>3, EndedFinite DEF ReasonInv, TypeOK
<1> QED BY <1>1, <1>2, <1>3, TypeCorrect, PTL DEF Spec

-----------------------------------------------------------------------------
(* What the results say, and which sessions are left.                      *)

\* What every step of a worker does to the rest.
LEMMA StepFrame ==
    ASSUME IInv, NEW w \in Workers, WorkerStep(w) \/ Fault(w)
    PROVE  /\ checkpoints \subseteq checkpoints' /\ allRes \subseteq allRes'
           /\ OnlyWorker(w)
           /\ \A id \in DOMAIN sessions \cap DOMAIN sessions' :
                sessions'[id].key = sessions[id].key
<1> USE DEF IInv
<1>1. CASE UNCHANGED <<sessions, checkpoints>>
  <2>1. OnlyWorker(w) /\ allRes \subseteq allRes'
    BY <1>1 DEF WorkerStep, Fault, ProjectFnStep, Take, NoMore, StartProject,
       StopEarly, OpenSession, OpenInner, Send, SendInner, EndInner, Succeeds,
       Fails, IncProgress, IncProgressFails, Report, Done, Rollback,
       RollbackFails, Completed, RolledBack, Goto, Free, Fatal, OnlyWorker, TypeOK
  <2> QED BY <1>1, <2>1
<1>2. ASSUME NEW m \in Models, OpenSession(w, m) \/ OpenInner(w, m)
      PROVE  /\ UNCHANGED <<checkpoints, allRes>> /\ OnlyWorker(w)
             /\ \A id \in DOMAIN sessions : sessions'[id].key = sessions[id].key
  <2>1. StartSession(<<job[w], m>>) /\ allRes' = allRes /\ OnlyWorker(w)
    BY <1>2 DEF OpenSession, OpenInner, OnlyWorker, TypeOK
  <2>2. lastID \in Nat /\ lastID' \notin DOMAIN sessions
    BY <2>1 DEF StartSession, TypeOK
  <2> QED BY <2>1, <2>2 DEF StartSession, WithSession
<1>3. ASSUME NEW s \in Sender, WriteIfFull(s)
      PROVE  /\ UNCHANGED checkpoints
             /\ \A id \in DOMAIN sessions : sessions'[id].key = sessions[id].key
  BY <1>3 DEF WriteIfFull, TypeOK, Session
<1>4. ASSUME NEW i \in DOMAIN senders[w], Send(w, i)
      PROVE  /\ UNCHANGED <<checkpoints, allRes>> /\ OnlyWorker(w)
             /\ \A id \in DOMAIN sessions : sessions'[id].key = sessions[id].key
  <2>1. senders[w][i] \in Sender
    BY DEF TypeOK
  <2> QED BY <1>3, <1>4, <2>1 DEF Send, OnlyWorker, TypeOK
<1>5. ASSUME NEW s \in inner[w], SendInner(w, s)
      PROVE  /\ UNCHANGED <<checkpoints, allRes>> /\ OnlyWorker(w)
             /\ \A id \in DOMAIN sessions : sessions'[id].key = sessions[id].key
  <2>1. s \in Sender
    BY DEF TypeOK
  <2> QED BY <1>3, <1>5, <2>1 DEF SendInner, OnlyWorker, TypeOK
<1>6. ASSUME NEW s \in inner[w], EndInner(w, s)
      PROVE  /\ checkpoints \subseteq checkpoints' /\ allRes' = allRes
             /\ OnlyWorker(w)
             /\ \A id \in DOMAIN sessions' : sessions'[id] = sessions[id]
  BY <1>6 DEF EndInner, EndSession, WithoutSession, OnlyWorker, TypeOK
<1>7. CASE Done(w) \/ Rollback(w) \/ RollbackFails(w)
  BY <1>7 DEF Done, Rollback, RollbackFails, EndSession, WithoutSession,
     Fatal, Goto, OnlyWorker, TypeOK
<1>8. CASE ProjectFnStep(w) /\ ~Succeeds(w)
  BY <1>2, <1>4, <1>5, <1>6, <1>8 DEF ProjectFnStep
<1>9. Take(w) \/ NoMore(w) \/ StartProject(w) \/ StopEarly(w) \/ Succeeds(w)
        \/ IncProgress(w) \/ Report(w) \/ Completed(w) \/ RolledBack(w)
        \/ Fails(w) \/ IncProgressFails(w)
        => UNCHANGED <<sessions, checkpoints>>
  BY DEF Take, NoMore, StartProject, StopEarly, Succeeds, IncProgress, Report,
     Completed, RolledBack, Fails, IncProgressFails, manager
<1> QED BY <1>1, <1>7, <1>8, <1>9 DEF WorkerStep, Fault, ProjectFnStep

Result(p, f) == [project |-> p, failed |-> f]

SenderKeys(w) == {KeyOf(senders[w][i]) : i \in DOMAIN senders[w]}

\* What is said of a worker's project is true, or will be when it has ended.
ToldTrue(w) ==
    /\ pc[w] \in {"progress", "reporting", "ending"} /\ ~failing[w] =>
         \A m \in Models : <<job[w], m>> \in SenderKeys(w) \cup checkpoints
    /\ pc[w] = "ending" => Result(job[w], failing[w]) \in allRes

BeingEnded(p) == \E w \in Workers : pc[w] = "ending" /\ job[w] = p /\ ~failing[w]

ResultInv ==
    /\ \A w \in Workers : ToldTrue(w)
    /\ \A p \in Projects : Result(p, FALSE) \in allRes =>
         BeingEnded(p) \/ \A m \in Models : <<p, m>> \in checkpoints
    /\ \A key \in checkpoints :
         key[2] \in Inner \/ Result(key[1], FALSE) \in allRes

\* The senders of other workers keep their keys.
LEMMA OthersToldTrue ==
    ASSUME IInv, IInv', ResultInv, NEW w \in Workers,
           WorkerStep(w) \/ Fault(w), NEW v \in Workers \ {w}
    PROVE  ToldTrue(v)'
<1>1. /\ checkpoints \subseteq checkpoints' /\ allRes \subseteq allRes'
      /\ pc'[v] = pc[v] /\ job'[v] = job[v] /\ failing'[v] = failing[v]
      /\ senders'[v] = senders[v]
      /\ \A id \in DOMAIN sessions \cap DOMAIN sessions' :
           sessions'[id].key = sessions[id].key
  BY StepFrame DEF OnlyWorker
<1>2. PICK q : q = senders[v]
  OBVIOUS
<1>3. \A i \in DOMAIN q : q[i].id \in DOMAIN sessions \cap DOMAIN sessions'
  BY <1>1, <1>2 DEF IInv, WorkerOK, Own
<1>4. \A i \in DOMAIN q : KeyOf(q[i])' = KeyOf(q[i])
  BY <1>1, <1>3 DEF KeyOf
<1>5. SenderKeys(v) \subseteq SenderKeys(v)'
  BY <1>1, <1>2, <1>4 DEF SenderKeys
<1> QED BY <1>1, <1>5 DEF ResultInv, ToldTrue

\* What is to be shown of a step that neither reports nor ends a project that
\* did not fail, and sets no checkpoint.
LEMMA SameResults ==
    ASSUME IInv, IInv', ResultInv, NEW w \in Workers,
           WorkerStep(w) \/ Fault(w), ToldTrue(w)',
           UNCHANGED <<allRes, checkpoints>>,
           pc[w] = "ending" /\ ~failing[w] =>
             UNCHANGED <<pc, job, failing>>
    PROVE  ResultInv'
<1>1. \A v \in Workers : ToldTrue(v)'
  BY OthersToldTrue
<1>2. \A p \in Projects : BeingEnded(p) => BeingEnded(p)'
  BY StepFrame DEF BeingEnded, OnlyWorker
<1> QED BY <1>1, <1>2 DEF ResultInv

LEMMA ResultStep ==
    ASSUME IInv, IInv', ResultInv, [Next]_vars
    PROVE  ResultInv'
<1> USE DEF Goto, Free
<1>1. CASE UNCHANGED vars
  BY <1>1 DEF vars, pool, manager, ResultInv, ToldTrue, SenderKeys, KeyOf,
     BeingEnded
<1>2. SUFFICES ASSUME NEW w \in Workers, WorkerStep(w) \/ Fault(w)
               PROVE  ResultInv'
  BY <1>1 DEF Next, Idle
<1>3. TypeOK /\ TypeOK' /\ ToldTrue(w)
  BY DEF IInv, ResultInv
<1>4. ASSUME pc'[w] \notin {"progress", "reporting", "ending"},
             ~ (pc[w] = "ending" /\ ~failing[w]),
             UNCHANGED <<allRes, checkpoints>>
      PROVE  ResultInv'
  BY <1>2, <1>4, SameResults DEF ToldTrue
<1>5. CASE Take(w) \/ NoMore(w) \/ StartProject(w) \/ StopEarly(w)
           \/ RolledBack(w) \/ IncProgressFails(w) \/ RollbackFails(w)
  <2>1. /\ pc'[w] \in {"gone", "checking", "running"}
        /\ ~ (pc[w] = "ending" /\ ~failing[w])
        /\ UNCHANGED <<allRes, checkpoints>>
    BY <1>3, <1>5 DEF Take, NoMore, StartProject, StopEarly, RolledBack,
       IncProgressFails, RollbackFails, Fatal, TypeOK, manager
  <2> QED BY <1>4, <2>1
<1>6. ASSUME NEW m \in Models, OpenSession(w, m) \/ OpenInner(w, m)
      PROVE  ResultInv'
  BY <1>4, <1>6 DEF OpenSession, OpenInner, StartSession
<1>7. ASSUME NEW i \in DOMAIN senders[w], Send(w, i) PROVE ResultInv'
  BY <1>4, <1>7 DEF Send, WriteIfFull
<1>8. ASSUME NEW s \in inner[w], SendInner(w, s) PROVE ResultInv'
  BY <1>4, <1>8 DEF SendInner, WriteIfFull
<1>9. ASSUME NEW s \in inner[w], EndInner(w, s) PROVE ResultInv'
  <2>1. KeyOf(s)[2] \in Inner
    BY DEF IInv, WorkerOK
  <2>2. /\ pc[w] = "running" /\ UNCHANGED <<pc, job, failing, senders, allRes>>
        /\ checkpoints' = checkpoints \cup {KeyOf(s)}
    BY <1>9 DEF EndInner, EndSession
  <2>3. \A v \in Workers : ToldTrue(v)'
    BY <1>2, <2>2, OthersToldTrue DEF ToldTrue
  <2>4. \A p \in Projects : BeingEnded(p)' <=> BeingEnded(p)
    BY <2>2 DEF BeingEnded
  <2> QED BY <2>1, <2>2, <2>3, <2>4 DEF ResultInv
<1>10. CASE Succeeds(w)
  <2>1. /\ pc[w] = "running" /\ pc' = [pc EXCEPT ![w] = "progress"]
        /\ UNCHANGED <<job, failing, senders, inner, sessions, checkpoints, allRes>>
        /\ \A m \in Models \ Inner : <<job[w], m>> \in OpenKeys(w)
        /\ \A m \in Inner : <<job[w], m>> \in checkpoints
    BY <1>10 DEF Succeeds, manager
  <2>2. inner[w] = {} /\ pc'[w] = "progress"
    BY <1>3, <2>1 DEF TypeOK
  <2>3. OpenKeys(w) = SenderKeys(w)
    BY <2>2 DEF OpenKeys, SenderKeys
  <2>4. SenderKeys(w)' = SenderKeys(w)
    BY <2>1 DEF SenderKeys, KeyOf
  <2>5. ToldTrue(w)'
    BY <2>1, <2>2, <2>3, <2>4 DEF ToldTrue
  <2> QED BY <1>2, <2>1, <2>5, SameResults
<1>11. CASE Fails(w)
  <2>1. /\ pc[w] = "running" /\ pc'[w] = "progress" /\ failing'[w]
        /\ UNCHANGED <<checkpoints, allRes>>
    BY <1>3, <1>11 DEF Fails, TypeOK, manager
  <2> QED BY <1>2, <2>1, SameResults DEF ToldTrue
<1>12. CASE IncProgress(w)
  <2>1. /\ pc[w] = "progress" /\ pc'[w] = "reporting"
        /\ UNCHANGED <<job, failing, senders, sessions, checkpoints, allRes>>
    BY <1>3, <1>12 DEF IncProgress, TypeOK, manager
  <2>2. SenderKeys(w)' = SenderKeys(w)
    BY <2>1 DEF SenderKeys, KeyOf
  <2>3. ToldTrue(w)'
    BY <1>3, <2>1, <2>2 DEF ToldTrue
  <2> QED BY <1>2, <2>1, <2>3, SameResults
<1>13. CASE Report(w)
  <2>1. /\ pc[w] = "reporting" /\ pc' = [pc EXCEPT ![w] = "ending"]
        /\ pc'[w] = "ending"
        /\ allRes' = allRes \cup {Result(job[w], failing[w])}
        /\ UNCHANGED <<job, failing, senders, sessions, checkpoints>>
    BY <1>3, <1>13 DEF Report, TypeOK, manager, Result
  <2>2. SenderKeys(w)' = SenderKeys(w)
    BY <2>1 DEF SenderKeys, KeyOf
  <2>3. ToldTrue(w)'
    BY <1>3, <2>1, <2>2 DEF ToldTrue
  <2>4. \A v \in Workers : ToldTrue(v)'
    BY <1>2, <2>3, OthersToldTrue
  <2>5. \A p \in Projects : BeingEnded(p) => BeingEnded(p)'
    BY <1>3, <2>1 DEF BeingEnded, TypeOK
  <2>6. ASSUME NEW p \in Projects, Result(p, FALSE) \in allRes',
               Result(p, FALSE) \notin allRes
        PROVE  BeingEnded(p)'
    <3>1. Result(p, FALSE) = Result(job[w], failing[w])
      BY <2>1, <2>6
    <3>2. p = job[w] /\ failing[w] = FALSE
      BY <3>1 DEF Result
    <3> QED BY <2>1, <3>2 DEF BeingEnded
  <2> QED BY <2>1, <2>4, <2>5, <2>6 DEF ResultInv
<1>14. CASE Done(w)
  <2>1. PICK s, q, r : s = Head(senders[w]) /\ q = senders[w] /\ r = senders'[w]
    OBVIOUS
  <2>2. /\ pc[w] = "ending" /\ ~failing[w] /\ q # <<>>
        /\ UNCHANGED <<pc, job, failing, allRes>>
        /\ checkpoints' = checkpoints \cup {KeyOf(s)}
        /\ sessions' = WithoutSession(s.id)
        /\ r = Tail(q) /\ q \in Seq(Sender)
    BY <1>3, <1>14, <2>1 DEF Done, Ending, EndSession, TypeOK
  <2>3. /\ s = q[1] /\ 1 \in DOMAIN q /\ Len(q) \in Nat
        /\ DOMAIN q = 1 .. Len(q) /\ DOMAIN r = 1 .. Len(q) - 1
        /\ \A i \in DOMAIN r : r[i] = q[i + 1]
        /\ \A i \in DOMAIN q : i # 1 => i - 1 \in DOMAIN r /\ r[i - 1] = q[i]
    BY <2>1, <2>2
  <2>4. KeyOf(s)[1] = job[w]
    <3>1. \A i \in DOMAIN q : Own(w, q[i])
      BY <2>1 DEF IInv, WorkerOK
    <3>2. Own(w, s)
      BY <2>3, <3>1
    <3> QED BY <3>2 DEF Own
  <2>5. \A i \in DOMAIN q : i # 1 => KeyOf(q[i]) \in SenderKeys(w)'
    <3>1. \A i \in DOMAIN r : r[i].id \in DOMAIN sessions'
      BY <2>1 DEF IInv, WorkerOK, Own
    <3>2. \A i \in DOMAIN r : KeyOf(r[i])' = KeyOf(r[i])
      BY <2>2, <3>1 DEF KeyOf, WithoutSession
    <3> QED BY <2>1, <2>3, <3>2 DEF SenderKeys
  <2>6. \A key \in SenderKeys(w) : key = KeyOf(s) \/ key \in SenderKeys(w)'
    BY <2>1, <2>3, <2>5 DEF SenderKeys
  <2>7. ToldTrue(w)'
    BY <1>3, <2>2, <2>6 DEF ToldTrue
  <2>8. \A v \in Workers : ToldTrue(v)'
    BY <1>2, <2>7, OthersToldTrue
  <2>9. \A p \in Projects : BeingEnded(p)' <=> BeingEnded(p)
    BY <2>2 DEF BeingEnded
  <2>10. Result(KeyOf(s)[1], FALSE) \in allRes
    <3>1. failing[w] = FALSE
      BY <1>3, <2>2 DEF TypeOK
    <3> QED BY <1>3, <2>2, <2>4, <3>1 DEF ToldTrue
  <2> QED BY <2>2, <2>8, <2>9, <2>10 DEF ResultInv
<1>15. CASE Rollback(w)
  <2>1. /\ pc[w] = "ending" /\ failing[w]
        /\ UNCHANGED <<pc, job, failing, checkpoints, allRes>>
    BY <1>15 DEF Rollback, Ending
  <2> QED BY <1>2, <1>3, <2>1, SameResults DEF ToldTrue
<1>16. CASE Completed(w)
  <2>1. /\ pc[w] = "ending" /\ senders[w] = <<>> /\ ~failing[w]
        /\ pc'[w] = "idle" /\ UNCHANGED <<checkpoints, allRes>>
    BY <1>3, <1>16 DEF Completed, TypeOK, manager
  <2>2. SenderKeys(w) = {}
    BY <2>1 DEF SenderKeys
  <2>3. \A m \in Models : <<job[w], m>> \in checkpoints
    BY <1>3, <2>1, <2>2 DEF ToldTrue
  <2>4. \A v \in Workers : ToldTrue(v)'
    BY <1>2, <2>1, OthersToldTrue DEF ToldTrue
  <2>5. \A p \in Projects : BeingEnded(p) => BeingEnded(p)' \/ p = job[w]
    BY <1>2, StepFrame DEF BeingEnded, OnlyWorker
  <2> QED BY <2>1, <2>3, <2>4, <2>5 DEF ResultInv
<1> QED
  BY <1>2, <1>5, <1>6, <1>7, <1>8, <1>9, <1>10, <1>11, <1>12, <1>13, <1>14,
     <1>15, <1>16 DEF WorkerStep, Fault, ProjectFnStep

\* When Run returns without an error, a project without an error has every
\* checkpoint, and nothing but what ProjectFn ended itself was uploaded of
\* another.
THEOREM ResultsAreTrue == Spec => []ResultsTrue
<1>1. Init => ResultInv
  BY DEF Init, ResultInv, ToldTrue
<1>2. IInv /\ IInv' /\ ResultInv /\ [Next]_vars => ResultInv'
  BY ResultStep
<1>3. IInv /\ ResultInv => ResultsTrue
  <2> SUFFICES ASSUME IInv, ResultInv, Returned, NEW key \in Key
               PROVE  IF Result(key[1], FALSE) \in allRes
                      THEN key \in checkpoints
                      ELSE key[2] \notin Inner =>
                             key \notin checkpoints /\ UploadsOf(key) = {}
    BY DEF ResultsTrue, Result
  <2>1. key[1] \in Projects /\ key[2] \in Models /\ key = <<key[1], key[2]>>
    BY DEF Key
  <2>2. ~ BeingEnded(key[1])
    BY DEF Returned, BeingEnded
  <2>3. key \notin checkpoints => UploadsOf(key) = {}
    BY DEF IInv, JobsOK, UploadsOf
  <2> QED BY <2>1, <2>2, <2>3 DEF ResultInv
<1> QED BY <1>1, <1>2, <1>3, AlwaysIInv, PTL DEF Spec

\* A session that is open has a sender of some worker, or was opened by the
\* ProjectFn of a project that failed.
HasSender(id) ==
    \E w \in Workers :
      \/ \E i \in DOMAIN senders[w] : senders[w][i].id = id
      \/ \E s \in inner[w] : s.id = id

OfFailed(key) ==
    /\ key[2] \in Inner
    /\ \/ Result(key[1], TRUE) \in allRes
       \/ \E w \in Workers : job[w] = key[1] /\ failing[w]
                             /\ pc[w] \in {"progress", "reporting"}

LeftInv ==
    \/ fatal
    \/ /\ leftTemps = {}
       /\ \A w \in Workers : pc[w] = "gone" => senders[w] = <<>>
       /\ \A id \in DOMAIN sessions : HasSender(id) \/ OfFailed(sessions[id].key)

\* What is to be shown of a step that leaves the sessions alone.
LEMMA SameSessions ==
    ASSUME LeftInv, fatal' = fatal, UNCHANGED <<sessions, leftTemps, senders, inner>>,
           \A w \in Workers : pc'[w] = "gone" /\ pc[w] # "gone" => senders[w] = <<>>,
           \A key : OfFailed(key) => OfFailed(key)'
    PROVE  LeftInv'
BY DEF LeftInv, HasSender

\* The same of a step of worker w that changes one session, opens or ends it.
LEMMA OwnSessions ==
    ASSUME IInv, IInv', LeftInv, NEW w \in Workers, WorkerStep(w) \/ Fault(w),
           UNCHANGED <<fatal, leftTemps, pc, job, failing, allRes>>,
           pc[w] # "gone",
           \A id \in DOMAIN sessions' \ DOMAIN sessions : HasSender(id)',
           \A id \in DOMAIN sessions' :
             \/ \E i \in DOMAIN senders[w] : senders[w][i].id = id
             \/ \E s \in inner[w] : s.id = id
             => HasSender(id)'
    PROVE  LeftInv'
<1>1. CASE fatal
  BY <1>1 DEF LeftInv
<1>2. CASE ~fatal
  <2>1. \A v \in Workers \ {w} : senders'[v] = senders[v] /\ inner'[v] = inner[v]
    BY StepFrame DEF OnlyWorker
  <2>2. \A id \in DOMAIN sessions' : HasSender(id) => HasSender(id)'
    BY <2>1 DEF HasSender
  <2>3. \A key : OfFailed(key) => OfFailed(key)'
    BY DEF OfFailed
  <2>4. \A id \in DOMAIN sessions \cap DOMAIN sessions' :
           sessions'[id].key = sessions[id].key
    BY StepFrame
  <2>5. \A v \in Workers : pc'[v] = "gone" => senders'[v] = <<>>
    BY <1>2, <2>1 DEF LeftInv
  <2> QED BY <1>2, <2>2, <2>3, <2>4, <2>5 DEF LeftInv
<1> QED BY <1>1, <1>2

LEMMA LeftStep ==
    ASSUME IInv, IInv', LeftInv, [Next]_vars
    PROVE  LeftInv'
<1> USE DEF Goto, Free
<1>1. CASE UNCHANGED vars
  <2>1. UNCHANGED <<fatal, sessions, leftTemps, senders, inner, pc, job, failing, allRes>>
    BY <1>1 DEF vars, pool, manager
  <2>2. \A key : OfFailed(key) => OfFailed(key)'
    BY <2>1 DEF OfFailed
  <2> QED BY <2>1, <2>2, SameSessions
<1>2. SUFFICES ASSUME NEW w \in Workers, WorkerStep(w) \/ Fault(w)
               PROVE  LeftInv'
  BY <1>1 DEF Next, Idle
<1>3. TypeOK /\ TypeOK'
  BY DEF IInv
<1>4. CASE Take(w) \/ NoMore(w) \/ StartProject(w) \/ StopEarly(w)
           \/ Completed(w) \/ RolledBack(w)
  <2>1. /\ pc[w] \in {"idle", "checking", "ending"} /\ senders[w] = <<>>
        /\ UNCHANGED <<fatal, sessions, leftTemps, senders, inner, allRes>>
    BY <1>3, <1>4 DEF Take, NoMore, StartProject, StopEarly, Completed,
       RolledBack, manager, TypeOK
  <2>2. \A v \in Workers \ {w} :
           pc'[v] = pc[v] /\ job'[v] = job[v] /\ failing'[v] = failing[v]
    BY <1>2, StepFrame DEF OnlyWorker
  <2>3. \A key : OfFailed(key) => OfFailed(key)'
    BY <2>1, <2>2 DEF OfFailed
  <2> QED BY <2>1, <2>2, <2>3, SameSessions
<1>5. CASE Succeeds(w) \/ IncProgress(w) \/ Report(w)
  <2>1. /\ pc[w] \in {"running", "progress", "reporting"} /\ pc'[w] # "gone"
        /\ pc[w] = "progress" => pc'[w] = "reporting"
        /\ pc[w] = "reporting" =>
             allRes' = allRes \cup {Result(job[w], failing[w])}
        /\ UNCHANGED <<fatal, sessions, leftTemps, senders, inner, job, failing>>
    BY <1>3, <1>5 DEF Succeeds, IncProgress, Report, manager, TypeOK, Result
  <2>2. /\ \A v \in Workers \ {w} : pc'[v] = pc[v]
        /\ allRes \subseteq allRes'
    BY <1>2, StepFrame DEF OnlyWorker
  <2>3. failing[w] \in BOOLEAN
    BY <1>3 DEF TypeOK
  <2>4. \A key : OfFailed(key) => OfFailed(key)'
    BY <2>1, <2>2, <2>3 DEF OfFailed
  <2> QED BY <2>1, <2>2, <2>4, SameSessions
<1>6. CASE Fails(w)
  <2>1. /\ pc[w] = "running" /\ pc'[w] = "progress" /\ failing'[w]
        /\ inner' = [inner EXCEPT ![w] = {}]
        /\ UNCHANGED <<fatal, sessions, leftTemps, senders, job, allRes>>
    BY <1>3, <1>6 DEF Fails, manager, TypeOK
  <2>2. \A v \in Workers \ {w} :
           /\ pc'[v] = pc[v] /\ failing'[v] = failing[v]
           /\ inner'[v] = inner[v]
    BY <1>2, StepFrame DEF OnlyWorker
  <2>3. \A key : OfFailed(key) => OfFailed(key)'
    BY <2>1, <2>2 DEF OfFailed
  <2>4. \A s \in inner[w] : /\ s.id \in DOMAIN sessions
                            /\ OfFailed(sessions[s.id].key)'
    <3>1. \A s \in inner[w] : /\ s.id \in DOMAIN sessions
                              /\ sessions[s.id].key[1] = job[w]
                              /\ sessions[s.id].key[2] \in Inner
      BY DEF IInv, WorkerOK, Own, KeyOf
    <3> QED BY <2>1, <3>1 DEF OfFailed
  <2>5. \A id \in DOMAIN sessions :
           HasSender(id) => HasSender(id)' \/ OfFailed(sessions[id].key)'
    BY <2>1, <2>2, <2>4 DEF HasSender
  <2> QED BY <2>1, <2>2, <2>3, <2>5 DEF LeftInv
<1>7. CASE IncProgressFails(w) \/ RollbackFails(w)
  BY <1>7 DEF IncProgressFails, RollbackFails, Fatal, LeftInv
<1>8. ASSUME NEW m \in Models, OpenSession(w, m) PROVE LeftInv'
  <2>1. PICK q, r, e : q = senders[w] /\ r = senders'[w] /\ e = NewSender
    OBVIOUS
  <2>2. /\ r = Append(q, e) /\ q \in Seq(Sender)
        /\ DOMAIN sessions' = DOMAIN sessions \cup {e.id}
        /\ pc[w] = "running" /\ inner' = inner
        /\ UNCHANGED <<fatal, leftTemps, pc, job, failing, allRes>>
    BY <1>3, <1>8, <2>1 DEF OpenSession, StartSession, WithSession, TypeOK, NewSender
  <2>3. /\ Len(q) + 1 \in DOMAIN r /\ r[Len(q) + 1] = e
        /\ \A i \in DOMAIN q : i \in DOMAIN r /\ r[i] = q[i]
    BY <2>2
  <2>4. \A i \in DOMAIN r : HasSender(r[i].id)'
    BY <2>1 DEF HasSender
  <2>5. HasSender(e.id)'
    BY <2>3, <2>4
  <2>6. \A i \in DOMAIN q : HasSender(q[i].id)'
    BY <2>3, <2>4
  <2>7. \A s \in inner[w] : HasSender(s.id)'
    BY <2>2 DEF HasSender
  <2> QED BY <1>2, <2>1, <2>2, <2>5, <2>6, <2>7, OwnSessions
<1>9. ASSUME NEW m \in Models, OpenInner(w, m) PROVE LeftInv'
  <2>1. PICK e : e = NewSender
    OBVIOUS
  <2>2. /\ inner'[w] = inner[w] \cup {e}
        /\ DOMAIN sessions' = DOMAIN sessions \cup {e.id}
        /\ pc[w] = "running" /\ senders' = senders
        /\ UNCHANGED <<fatal, leftTemps, pc, job, failing, allRes>>
    BY <1>3, <1>9, <2>1 DEF OpenInner, StartSession, WithSession, TypeOK, NewSender
  <2>3. \A s \in inner'[w] : HasSender(s.id)'
    BY DEF HasSender
  <2>4. HasSender(e.id)' /\ \A s \in inner[w] : HasSender(s.id)'
    BY <2>2, <2>3
  <2>5. PICK q : q = senders[w]
    OBVIOUS
  <2>6. \A i \in DOMAIN q : HasSender(q[i].id)'
    BY <2>2, <2>5 DEF HasSender
  <2> QED BY <1>2, <2>2, <2>4, <2>5, <2>6, OwnSessions
<1>10. ASSUME NEW i \in DOMAIN senders[w], Send(w, i) PROVE LeftInv'
  <2>1. PICK q, r, s : q = senders[w] /\ r = senders'[w] /\ s = q[i]
    OBVIOUS
  <2>2. /\ r = [q EXCEPT ![i] = AfterSend(s)] /\ q \in Seq(Sender) /\ s \in Sender
        /\ i \in DOMAIN q /\ DOMAIN sessions' = DOMAIN sessions
        /\ pc[w] = "running" /\ inner' = inner
        /\ UNCHANGED <<fatal, leftTemps, pc, job, failing, allRes>>
    BY <1>3, <1>10, <2>1 DEF Send, WriteIfFull, TypeOK
  <2>3. AfterSend(s).id = s.id
    BY <2>2 DEF AfterSend, Sender
  <2>4. \A j \in DOMAIN q : j \in DOMAIN r /\ r[j].id = q[j].id
    BY <2>1, <2>2, <2>3
  <2>5. \A j \in DOMAIN r : HasSender(r[j].id)'
    BY <2>1 DEF HasSender
  <2>6. \A j \in DOMAIN q : HasSender(q[j].id)'
    <3>1. ASSUME NEW j \in DOMAIN q PROVE HasSender(q[j].id)'
      <4>1. j \in DOMAIN r /\ r[j].id = q[j].id
        BY <2>4
      <4> QED BY <2>5, <4>1
    <3> QED BY <3>1
  <2>7. \A t \in inner[w] : HasSender(t.id)'
    BY <2>2 DEF HasSender
  <2> QED BY <1>2, <2>1, <2>2, <2>6, <2>7, OwnSessions
<1>11. ASSUME NEW s \in inner[w], SendInner(w, s) PROVE LeftInv'
  <2>1. /\ inner'[w] = (inner[w] \ {s}) \cup {AfterSend(s)} /\ s \in Sender
        /\ DOMAIN sessions' = DOMAIN sessions
        /\ pc[w] = "running" /\ senders' = senders
        /\ UNCHANGED <<fatal, leftTemps, pc, job, failing, allRes>>
    BY <1>3, <1>11 DEF SendInner, WriteIfFull, TypeOK
  <2>2. AfterSend(s).id = s.id
    BY <2>1 DEF AfterSend, Sender
  <2>3. \A id : \/ \E j \in DOMAIN senders[w] : senders[w][j].id = id
                \/ \E t \in inner[w] : t.id = id
                => HasSender(id)'
    BY <2>1, <2>2 DEF HasSender
  <2> QED BY <1>2, <2>1, <2>3, OwnSessions
<1>12. ASSUME NEW s \in inner[w], EndInner(w, s) PROVE LeftInv'
  <2>1. /\ inner'[w] = inner[w] \ {s}
        /\ DOMAIN sessions' = DOMAIN sessions \ {s.id}
        /\ pc[w] = "running" /\ senders' = senders
        /\ UNCHANGED <<fatal, leftTemps, pc, job, failing, allRes>>
    BY <1>3, <1>12 DEF EndInner, EndSession, WithoutSession, TypeOK
  <2>2. \A id \in DOMAIN sessions' :
                \/ \E j \in DOMAIN senders[w] : senders[w][j].id = id
                \/ \E t \in inner[w] : t.id = id
                => HasSender(id)'
    BY <2>1 DEF HasSender
  <2> QED BY <1>2, <2>1, <2>2, OwnSessions
<1>13. CASE Done(w) \/ Rollback(w)
  <2>1. PICK s, q, r : s = Head(senders[w]) /\ q = senders[w] /\ r = senders'[w]
    OBVIOUS
  <2>2. /\ pc[w] = "ending" /\ q # <<>> /\ inner' = inner
        /\ UNCHANGED <<fatal, leftTemps, pc, job, failing, allRes>>
        /\ DOMAIN sessions' = DOMAIN sessions \ {s.id}
        /\ r = Tail(q) /\ q \in Seq(Sender)
    BY <1>3, <1>13, <2>1 DEF Done, Rollback, Ending, EndSession, WithoutSession, TypeOK
  <2>3. /\ s = q[1]
        /\ \A i \in DOMAIN q : i # 1 => i - 1 \in DOMAIN r /\ r[i - 1] = q[i]
    BY <2>1, <2>2
  <2>4. \A id \in DOMAIN sessions' :
                \/ \E j \in DOMAIN senders[w] : senders[w][j].id = id
                \/ \E t \in inner[w] : t.id = id
                => HasSender(id)'
    <3>1. ASSUME NEW id \in DOMAIN sessions', NEW j \in DOMAIN q, q[j].id = id
          PROVE  HasSender(id)'
      <4>1. j # 1
        BY <2>2, <2>3, <3>1
      <4>2. j - 1 \in DOMAIN r /\ r[j - 1].id = id
        BY <2>3, <3>1, <4>1
      <4> QED BY <2>1, <4>2 DEF HasSender
    <3>2. ASSUME NEW id, NEW t \in inner[w], t.id = id PROVE HasSender(id)'
      BY <2>2, <3>2 DEF HasSender
    <3> QED BY <2>1, <3>1, <3>2
  <2> QED BY <1>2, <2>2, <2>4, OwnSessions
<1> QED
  BY <1>2, <1>4, <1>5, <1>6, <1>7, <1>8, <1>9, <1>10, <1>11, <1>12, <1>13
     DEF WorkerStep, Fault, ProjectFnStep

\* When Run returns without an error the only temp files left are those of
\* sessions that the ProjectFn of a failed project had opened itself.
THEOREM OnlyInnerAreLeft == Spec => []OnlyInnerLeft
<1>1. Init => LeftInv
  BY DEF Init, LeftInv, NoSessions
<1>2. IInv /\ IInv' /\ LeftInv /\ [Next]_vars => LeftInv'
  BY LeftStep
<1>3. IInv /\ LeftInv => OnlyInnerLeft
  <2> SUFFICES ASSUME IInv, LeftInv, Returned, ~fatal PROVE OnlyInnerLeft
    BY DEF OnlyInnerLeft
  <2>1. \A w \in Workers : senders[w] = <<>> /\ inner[w] = {}
    BY DEF LeftInv, Returned, IInv, TypeOK
  <2>2. \A id \in DOMAIN sessions : ~ HasSender(id)
    BY <2>1 DEF HasSender
  <2>3. \A id \in DOMAIN sessions :
           LET key == sessions[id].key
           IN  key[2] \in Inner /\ Result(key[1], TRUE) \in allRes
    BY <2>2 DEF LeftInv, OfFailed, Returned
  <2> QED BY <2>3 DEF LeftInv, OnlyInnerLeft, Result
<1> QED BY <1>1, <1>2, <1>3, AlwaysIInv, PTL DEF Spec

\* What has become of the sessions when Run returns is what its results say.
THEOREM ProjectsAreSettled == Spec => []Settled
BY ResultsAreTrue, OnlyInnerAreLeft, PTL DEF Settled
=============================================================================
