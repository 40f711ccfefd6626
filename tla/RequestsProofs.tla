--------------------------- MODULE RequestsProofs ---------------------------
(***************************************************************************)
(* Proofs about what goes over http.  The log, for any number of           *)
(* goroutines, lines and failing uploads: lines reach the backend in       *)
(* order, and every line is on its way, sent, or part of an upload that    *)
(* failed.  The calls, for any number of calls, slots and expiries of each *)
(* client: they return what the service has, or end for a reason.          *)
(***************************************************************************)
EXTENDS MCRequests, TLAPS

Ascends(s) == \A i, j \in DOMAIN s : i < j => s[i] < s[j]
Before(s, t) == \A a \in ToSet(s), b \in ToSet(t) : a < b

\* Two parts of the way are in order when each is, and the first before the second.
LEMMA AscendsConcat ==
    ASSUME NEW s \in Seq(Nat), NEW t \in Seq(Nat)
    PROVE  Ascends(s \o t) <=> Ascends(s) /\ Ascends(t) /\ Before(s, t)
<1> DEFINE u == s \o t
<1>0. /\ u \in Seq(Nat) /\ Len(u) = Len(s) + Len(t)
      /\ \A i \in 1 .. Len(s) : u[i] = s[i]
      /\ \A i \in 1 .. Len(t) : u[Len(s) + i] = t[i]
      /\ \A k \in Len(s) + 1 .. Len(s) + Len(t) : u[k] = t[k - Len(s)]
      /\ DOMAIN s = 1 .. Len(s) /\ DOMAIN t = 1 .. Len(t) /\ DOMAIN u = 1 .. Len(u)
      /\ Len(s) \in Nat /\ Len(t) \in Nat
  OBVIOUS
<1> HIDE DEF u
<1>1. ASSUME Ascends(u) PROVE Ascends(s) /\ Ascends(t) /\ Before(s, t)
  <2>1. Ascends(s)
    BY <1>0, <1>1 DEF Ascends
  <2>2. ASSUME NEW i \in DOMAIN t, NEW j \in DOMAIN t, i < j PROVE t[i] < t[j]
    <3>0. /\ i \in 1 .. Len(t) /\ j \in 1 .. Len(t) /\ i < j
          /\ DOMAIN u = 1 .. Len(s) + Len(t) /\ Len(s) \in Nat /\ Len(t) \in Nat
      BY <1>0, <2>2
    <3>1. Len(s) + i \in DOMAIN u /\ Len(s) + j \in DOMAIN u /\ Len(s) + i < Len(s) + j
      BY <3>0
    <3>2. u[Len(s) + i] = t[i] /\ u[Len(s) + j] = t[j]
      BY <1>0, <3>0
    <3> QED
      BY <1>1, <3>1, <3>2 DEF Ascends
  <2>3. ASSUME NEW i \in DOMAIN s, NEW j \in DOMAIN t PROVE s[i] < t[j]
    <3>1. i \in DOMAIN u /\ Len(s) + j \in DOMAIN u /\ i < Len(s) + j
      BY <1>0, <2>3
    <3> QED
      BY <1>0, <1>1, <2>3, <3>1 DEF Ascends
  <2> QED
    BY <2>1, <2>2, <2>3 DEF Ascends, Before, ToSet
<1>2. ASSUME Ascends(s), Ascends(t), Before(s, t),
             NEW i \in DOMAIN u, NEW j \in DOMAIN u, i < j
      PROVE  u[i] < u[j]
  <2>1. CASE j <= Len(s)
    <3>1. i \in DOMAIN s /\ j \in DOMAIN s
      BY <1>0, <1>2, <2>1
    <3> QED
      BY <1>0, <1>2, <3>1 DEF Ascends
  <2>2. CASE i <= Len(s) /\ j > Len(s)
    <3>1. i \in DOMAIN s /\ j - Len(s) \in DOMAIN t /\ u[j] = t[j - Len(s)]
      BY <1>0, <1>2, <2>2
    <3> QED
      BY <1>0, <1>2, <2>2, <3>1 DEF Before, ToSet
  <2>3. CASE i > Len(s)
    <3>0. /\ i \in Nat /\ j \in Nat /\ Len(s) < i /\ Len(s) < j
          /\ i <= Len(s) + Len(t) /\ j <= Len(s) + Len(t)
      BY <1>0, <1>2, <2>3
    <3>1. i \in Len(s) + 1 .. Len(s) + Len(t) /\ j \in Len(s) + 1 .. Len(s) + Len(t)
      BY <1>0, <3>0
    <3>2. i - Len(s) \in 1 .. Len(t) /\ j - Len(s) \in 1 .. Len(t)
      BY <1>0, <3>0
    <3>3. i - Len(s) < j - Len(s)
      BY <1>0, <1>2, <3>0
    <3>4. u[i] = t[i - Len(s)] /\ u[j] = t[j - Len(s)]
      BY <1>0, <3>1
    <3> QED
      BY <1>0, <1>2, <3>2, <3>3, <3>4 DEF Ascends
  <2> QED
    BY <1>0, <1>2, <2>1, <2>2, <2>3
<1> QED
  BY <1>1, <1>2 DEF u, Ascends

LEMMA ToSetConcat ==
    ASSUME NEW s \in Seq(Nat), NEW t \in Seq(Nat)
    PROVE  ToSet(s \o t) = ToSet(s) \cup ToSet(t)
<1>1. ASSUME NEW x \in ToSet(t) PROVE x \in ToSet(s \o t)
  <2>1. PICK i \in DOMAIN t : x = t[i]
    BY <1>1 DEF ToSet
  <2>2. Len(s) + i \in DOMAIN (s \o t) /\ (s \o t)[Len(s) + i] = x
    BY <2>1
  <2> QED
    BY <2>2 DEF ToSet
<1>2. ASSUME NEW x \in ToSet(s) PROVE x \in ToSet(s \o t)
  BY <1>2 DEF ToSet
<1>3. ASSUME NEW x \in ToSet(s \o t) PROVE x \in ToSet(s) \cup ToSet(t)
  <2>1. PICK i \in DOMAIN (s \o t) : x = (s \o t)[i]
    BY <1>3 DEF ToSet
  <2>2. CASE i <= Len(s)
    BY <2>1, <2>2 DEF ToSet
  <2>3. CASE i > Len(s)
    <3>1. i - Len(s) \in DOMAIN t /\ t[i - Len(s)] = x
      BY <2>1, <2>3
    <3> QED
      BY <3>1 DEF ToSet
  <2> QED
    BY <2>1, <2>2, <2>3
<1> QED
  BY <1>1, <1>2, <1>3

\* What is taken from the front, and put at the end.
LEMMA HeadTail ==
    ASSUME NEW s \in Seq(Nat), s # <<>>
    PROVE  /\ Head(s) \in ToSet(s) /\ Tail(s) \in Seq(Nat)
           /\ ToSet(s) = {Head(s)} \cup ToSet(Tail(s))
           /\ Ascends(s) => /\ Ascends(Tail(s))
                             /\ \A b \in ToSet(Tail(s)) : Head(s) < b
<1>1. /\ Len(s) > 0 /\ Tail(s) \in Seq(Nat) /\ Len(Tail(s)) = Len(s) - 1
      /\ Head(s) = s[1] /\ 1 \in DOMAIN s
      /\ \A i \in DOMAIN Tail(s) : i + 1 \in DOMAIN s /\ Tail(s)[i] = s[i + 1] /\ 1 < i + 1
      /\ \A i \in DOMAIN s : i # 1 => i - 1 \in DOMAIN Tail(s) /\ Tail(s)[i - 1] = s[i]
  OBVIOUS
<1>2. ToSet(s) = {Head(s)} \cup ToSet(Tail(s))
  <2>1. ASSUME NEW x \in ToSet(s), x # Head(s) PROVE x \in ToSet(Tail(s))
    <3>1. PICK i \in DOMAIN s : x = s[i]
      BY <2>1 DEF ToSet
    <3>2. i - 1 \in DOMAIN Tail(s) /\ Tail(s)[i - 1] = x
      BY <1>1, <2>1, <3>1
    <3> QED
      BY <3>2 DEF ToSet
  <2>2. ToSet(Tail(s)) \subseteq ToSet(s) /\ Head(s) \in ToSet(s)
    BY <1>1 DEF ToSet
  <2> QED
    BY <2>1, <2>2
<1>3. ASSUME Ascends(s) PROVE Ascends(Tail(s))
  <2>1. ASSUME NEW i \in DOMAIN Tail(s), NEW j \in DOMAIN Tail(s), i < j
        PROVE  Tail(s)[i] < Tail(s)[j]
    <3>1. i + 1 < j + 1
      BY <1>1, <2>1
    <3> QED
      BY <1>1, <1>3, <2>1, <3>1 DEF Ascends
  <2> QED
    BY <2>1 DEF Ascends
<1>4. ASSUME Ascends(s), NEW b \in ToSet(Tail(s)) PROVE Head(s) < b
  <2>1. PICK i \in DOMAIN Tail(s) : b = Tail(s)[i]
    BY <1>4 DEF ToSet
  <2> QED
    BY <1>1, <1>4, <2>1 DEF Ascends
<1> QED
  BY <1>1, <1>2, <1>3, <1>4 DEF ToSet

LEMMA AppendIs ==
    ASSUME NEW s \in Seq(Nat), NEW x \in Nat
    PROVE  /\ Append(s, x) \in Seq(Nat)
           /\ ToSet(Append(s, x)) = ToSet(s) \cup {x}
           /\ Ascends(Append(s, x)) <=> Ascends(s) /\ \A a \in ToSet(s) : a < x
<1>1. Append(s, x) = s \o <<x>> /\ <<x>> \in Seq(Nat) /\ ToSet(<<x>>) = {x}
  BY DEF ToSet
<1>2. Ascends(<<x>>)
  BY DEF Ascends
<1>3. Ascends(s \o <<x>>) <=> Ascends(s) /\ Before(s, <<x>>)
  BY <1>1, <1>2, AscendsConcat
<1>4. ToSet(s \o <<x>>) = ToSet(s) \cup ToSet(<<x>>)
  BY <1>1, ToSetConcat
<1> QED
  BY <1>1, <1>3, <1>4 DEF Before

----------------------------------------------------------------------------
(* The invariant: each part of the way is in order, and the parts are; a line that is *)
(* written is later than all of them.                                                 *)
Typed ==
    /\ lines \in Nat
    /\ writer \in Writers \cup {NoWriter}
    /\ writer # NoWriter => lines > 0
    /\ ch \in Seq(Nat) /\ buf \in Seq(Nat) /\ sent \in Seq(Nat)
    /\ reader \in {"receive", "upload", "ended"}
    /\ closing \in {"open", "closed", "done"}
    /\ reader = "ended" => ch = <<>> /\ closing # "open"
    /\ closing = "done" => reader = "ended" /\ buf = <<>>

OnTheWay == ToSet(sent) \cup ToSet(buf) \cup ToSet(ch)
Ordered ==
    /\ Ascends(sent) /\ Ascends(buf) /\ Ascends(ch)
    /\ Before(sent, buf) /\ Before(sent, ch) /\ Before(buf, ch)
    /\ \A n \in OnTheWay : n <= lines /\ (writer # NoWriter => n < lines)

IInv == Typed /\ Ordered /\ Accounted

LEMMA EmptySet == ToSet(<<>>) = {}
BY DEF ToSet

LEMMA InitHolds == Init => IInv
BY EmptySet, LogSenderAssumption
   DEF Init, IInv, Typed, Ordered, OnTheWay, Accounted, Lines, Ascends, Before

\* What an upload does with the buffer.
LEMMA UploadsParts ==
    ASSUME IInv, Uploads
    PROVE  /\ buf' = <<>> /\ sent' \in {sent, sent \o buf} /\ sent' \in Seq(Nat)
           /\ ToSet(sent') \subseteq ToSet(sent) \cup ToSet(buf)
           /\ Ascends(sent')
           /\ ToSet(sent) \subseteq ToSet(sent') /\ dropped \subseteq dropped'
           /\ ToSet(buf) \subseteq ToSet(sent') \cup dropped'
<1>1. /\ sent \in Seq(Nat) /\ buf \in Seq(Nat) /\ sent \o buf \in Seq(Nat)
      /\ Ascends(sent \o buf) /\ Ascends(sent)
  BY AscendsConcat DEF IInv, Typed, Ordered
<1>2. ToSet(sent \o buf) = ToSet(sent) \cup ToSet(buf)
  BY <1>1, ToSetConcat
<1> QED
  BY <1>1, <1>2 DEF Uploads

----------------------------------------------------------------------------
(* Each step keeps it. *)

LEMMA LogKeeps ==
    ASSUME IInv, NEW w \in Writers, Log(w)
    PROVE  IInv'
<1> USE LogSenderAssumption DEF Log, IInv
<1>1. Typed'
  BY DEF Typed
<1>2. Ordered'
  <2>1. OnTheWay \subseteq Nat
    BY DEF Typed, OnTheWay, ToSet
  <2>2. OnTheWay' = OnTheWay
    BY DEF OnTheWay
  <2>3. \A n \in OnTheWay : n < lines + 1 /\ n <= lines + 1
    BY <2>1 DEF Typed, Ordered
  <2> QED
    BY <2>2, <2>3 DEF Ordered, Before, Ascends
<1>3. Accounted'
  BY DEF Typed, Accounted, Lines
<1> QED
  BY <1>1, <1>2, <1>3

LEMMA WriteKeeps ==
    ASSUME IInv, Write
    PROVE  IInv'
<1>1. /\ lines \in Nat /\ ch \in Seq(Nat) /\ writer # NoWriter /\ writer' = NoWriter
      /\ ch' = Append(ch, lines) /\ UNCHANGED <<lines, buf, reader, closing, sent, dropped>>
      /\ closing = "open" /\ reader # "ended"
  BY DEF Write, IInv, Typed
<1>2. /\ ch' \in Seq(Nat) /\ ToSet(ch') = ToSet(ch) \cup {lines}
      /\ Ascends(ch') <=> Ascends(ch) /\ \A a \in ToSet(ch) : a < lines
  BY <1>1, AppendIs
<1>3. Typed'
  BY <1>1, <1>2, LogSenderAssumption DEF IInv, Typed
<1>4. Ordered'
  BY <1>1, <1>2 DEF IInv, Typed, Ordered, OnTheWay, Before
<1>5. Accounted'
  BY <1>1, <1>2 DEF IInv, Typed, Accounted, Lines
<1> QED
  BY <1>3, <1>4, <1>5 DEF IInv

LEMMA ReceiveKeeps ==
    ASSUME IInv, Receive
    PROVE  IInv'
<1>1. /\ ch \in Seq(Nat) /\ ch # <<>> /\ buf \in Seq(Nat) /\ Ascends(ch)
      /\ ch' = Tail(ch) /\ buf' = Append(buf, Head(ch))
      /\ reader = "receive" /\ reader' \in {"receive", "upload"}
      /\ UNCHANGED <<lines, writer, closing, sent, dropped>>
  BY DEF Receive, IInv, Typed, Ordered
<1>2. /\ Head(ch) \in ToSet(ch) /\ ch' \in Seq(Nat) /\ Ascends(ch')
      /\ ToSet(ch) = {Head(ch)} \cup ToSet(ch')
      /\ \A b \in ToSet(ch') : Head(ch) < b
  BY <1>1, HeadTail
<1>3. Head(ch) \in Nat
  BY <1>1
<1>4. /\ buf' \in Seq(Nat) /\ ToSet(buf') = ToSet(buf) \cup {Head(ch)}
      /\ Ascends(buf') <=> Ascends(buf) /\ \A a \in ToSet(buf) : a < Head(ch)
  BY <1>1, <1>3, AppendIs
<1>5. Typed'
  BY <1>1, <1>2, <1>4 DEF IInv, Typed
<1>6. Ordered'
  BY <1>1, <1>2, <1>4 DEF IInv, Ordered, OnTheWay, Before
<1>7. Accounted'
  BY <1>1, <1>2, <1>4 DEF IInv, Accounted, Lines
<1> QED
  BY <1>5, <1>6, <1>7 DEF IInv

\* What Upload and CloseRest have in common: the buffer is handed over.
LEMMA HandOverKeeps ==
    ASSUME IInv, Uploads, UNCHANGED <<lines, writer, ch>>,
           closing' # "done" \/ ch = <<>>
    PROVE  Ordered' /\ Accounted'
<1>1. /\ buf' = <<>> /\ ToSet(buf') = {}
      /\ ToSet(sent') \subseteq ToSet(sent) \cup ToSet(buf) /\ Ascends(sent')
      /\ ToSet(sent) \subseteq ToSet(sent') /\ dropped \subseteq dropped'
      /\ ToSet(buf) \subseteq ToSet(sent') \cup dropped'
  BY UploadsParts, EmptySet
<1>2. Ordered'
  BY <1>1 DEF IInv, Ordered, OnTheWay, Before, Ascends
<1>3. Accounted'
  BY <1>1, EmptySet DEF IInv, Typed, Accounted, Lines
<1> QED
  BY <1>2, <1>3

LEMMA UploadKeeps ==
    ASSUME IInv, Upload \/ CloseRest
    PROVE  IInv'
<1>1. CASE Uploads
  <2>1. /\ UNCHANGED <<lines, writer, ch>>
        /\ closing' # "done" \/ ch = <<>>
    BY DEF Upload, CloseRest, IInv, Typed
  <2>2. Ordered' /\ Accounted'
    BY <1>1, <2>1, HandOverKeeps
  <2>3. Typed'
    <3>1. buf' = <<>> /\ buf' \in Seq(Nat) /\ sent' \in Seq(Nat)
      BY <1>1, UploadsParts
    <3>2. CASE Upload
      BY <3>1, <3>2 DEF Upload, IInv, Typed
    <3>3. CASE CloseRest
      BY <3>1, <3>3 DEF CloseRest, IInv, Typed
    <3> QED
      BY <3>2, <3>3
  <2> QED
    BY <2>2, <2>3 DEF IInv
<1>2. CASE CloseRest /\ buf = <<>> /\ UNCHANGED <<buf, sent, dropped>>
  <2>1. /\ UNCHANGED <<lines, writer, ch, buf, sent, dropped, reader>> /\ closing' = "done"
        /\ ch = <<>> /\ buf = <<>> /\ reader = "ended"
    BY <1>2 DEF CloseRest, IInv, Typed
  <2>2. Typed'
    BY <2>1 DEF IInv, Typed
  <2>3. Ordered'
    BY <2>1 DEF IInv, Ordered, OnTheWay, Before, Ascends
  <2>4. Accounted'
    BY <2>1, EmptySet DEF IInv, Accounted, Lines
  <2> QED
    BY <2>2, <2>3, <2>4 DEF IInv
<1> QED
  BY <1>1, <1>2 DEF Upload, CloseRest

\* The steps that move no line.
LEMMA OthersKeep ==
    ASSUME IInv, WritePanics \/ ReaderEnds \/ Close \/ Exit \/ UNCHANGED vars
    PROVE  IInv'
<1>1. /\ UNCHANGED <<lines, writer, ch, buf, sent, dropped>>
      /\ closing' = "done" <=> closing = "done"
  BY DEF WritePanics, ReaderEnds, Close, Exit, vars
<1>2. Typed'
  BY DEF WritePanics, ReaderEnds, Close, Exit, vars, IInv, Typed
<1>3. Ordered'
  BY <1>1 DEF IInv, Ordered, OnTheWay, Before, Ascends
<1>4. Accounted'
  BY <1>1 DEF IInv, Accounted, Lines
<1> QED
  BY <1>2, <1>3, <1>4 DEF IInv

LEMMA StepKeeps == IInv /\ [Next]_vars => IInv'
BY LogKeeps, WriteKeeps, ReceiveKeeps, UploadKeeps, OthersKeep
   DEF Next, Sending, Writing

LEMMA Invariant == Spec => []IInv
BY InitHolds, StepKeeps, PTL DEF Spec

----------------------------------------------------------------------------
\* The backend gets the lines in the order in which they were logged, none twice
\* (sender.go:131).
THEOREM InOrderHolds == Spec => []InOrder
<1>1. ASSUME IInv PROVE InOrder
  <2>1. /\ sent \in Seq(Nat) /\ buf \in Seq(Nat) /\ ch \in Seq(Nat)
        /\ sent \o buf \in Seq(Nat)
    BY <1>1 DEF IInv, Typed
  <2>2. Ascends(sent \o buf) /\ ToSet(sent \o buf) = ToSet(sent) \cup ToSet(buf)
    BY <1>1, <2>1, AscendsConcat, ToSetConcat DEF IInv, Ordered
  <2>3. Before(sent \o buf, ch)
    BY <1>1, <2>2 DEF IInv, Ordered, Before
  <2>4. Ascends((sent \o buf) \o ch)
    BY <1>1, <2>1, <2>2, <2>3, AscendsConcat DEF IInv, Ordered
  <2> QED
    BY <2>4 DEF InOrder, Ascends
<1> QED
  BY <1>1, Invariant, PTL

\* No line is lost but in an upload that failed, also when the service ends: what was
\* in the channel and in the buffer is uploaded first (sender.go:239).
THEOREM EveryLineAccounted == Spec => []Accounted
BY Invariant, PTL DEF IInv

\* The backend gets what was logged, as it was logged, but for uploads that fail.
THEOREM LinesAreKept == Spec => []LinesKept
BY InOrderHolds, EveryLineAccounted, PTL DEF LinesKept

\* The types: a line that is somewhere was logged, and the channel holds what it can.
THEOREM TypeCorrect == Spec => []TypeOK
<1>1. Init => TypeOK
  BY LogSenderAssumption DEF Init, TypeOK, Lines
<1>2. IInv /\ TypeOK /\ [Next]_vars => TypeOK'
  <2> SUFFICES ASSUME IInv, TypeOK, [Next]_vars PROVE TypeOK'
    OBVIOUS
  <2> USE LogSenderAssumption
  <2>1. ASSUME NEW w \in Writers, Log(w) PROVE TypeOK'
    <3>1. Lines \subseteq Lines'
      BY <2>1 DEF Log, TypeOK, Lines
    <3>2. ch \in Seq(Lines') /\ buf \in Seq(Lines') /\ sent \in Seq(Lines')
          /\ dropped \subseteq Lines'
      BY <3>1 DEF TypeOK
    <3> QED
      BY <2>1, <3>2 DEF Log, TypeOK
  <2>2. CASE Write
    <3>1. lines \in Lines
      BY <2>2 DEF Write, IInv, Typed, Lines
    <3> QED
      BY <2>2, <3>1 DEF Write, TypeOK, Lines
  <2>3. CASE Receive
    <3>1. Head(ch) \in Lines /\ Tail(ch) \in Seq(Lines) /\ Len(Tail(ch)) = Len(ch) - 1
      BY <2>3 DEF Receive, TypeOK
    <3> QED
      BY <2>3, <3>1 DEF Receive, TypeOK, Lines
  <2>4. ASSUME Uploads, UNCHANGED lines
        PROVE  /\ buf' \in Seq(Lines') /\ sent' \in Seq(Lines')
               /\ dropped' \subseteq Lines' /\ faults' \in 0 .. MaxFaults
    <3>1. sent \o buf \in Seq(Lines) /\ ToSet(buf) \subseteq Lines
      BY DEF TypeOK, ToSet
    <3>2. /\ buf' = <<>> /\ Lines' = Lines /\ sent' \in {sent, sent \o buf}
          /\ dropped' \in {dropped, dropped \cup ToSet(buf)}
          /\ faults' = faults \/ (faults < MaxFaults /\ faults' = faults + 1)
      BY <2>4 DEF Uploads, Lines
    <3>3. dropped' \subseteq Lines' /\ sent' \in Seq(Lines')
      BY <3>1, <3>2 DEF TypeOK
    <3>4. faults' \in 0 .. MaxFaults
      BY <3>2 DEF TypeOK
    <3> QED
      BY <3>2, <3>3, <3>4
  <2>5. CASE Upload
    BY <2>4, <2>5 DEF Upload, TypeOK, Lines
  <2>6. CASE CloseRest
    BY <2>4, <2>6 DEF CloseRest, TypeOK, Lines
  <2>7. CASE WritePanics \/ ReaderEnds \/ Close \/ Exit \/ UNCHANGED vars
    BY <2>7 DEF WritePanics, ReaderEnds, Close, Exit, vars, TypeOK, Lines
  <2> QED
    BY <2>1, <2>2, <2>3, <2>5, <2>6, <2>7 DEF Next, Sending, Writing
<1> QED
  BY <1>1, <1>2, Invariant, PTL DEF Spec

----------------------------------------------------------------------------
(* The calls: Requests, as MCRequests instantiates it, for any number of   *)
(* calls, slots and expiries.                                              *)

\* What a client does not try again although it may be another time.
NotRetried(c, o) ==
    \/ c.name \in {"GithubOnce", "JiraCloud", "JiraHosted"} /\ o # "none"
    \/ c.name \in {"BitbucketPages", "Bitbucket"} /\ o \in {"none", "cut"}
    \/ c.name \in {"Azure", "Sonarqube", "Gcal", "Office365"}

\* What it returns as if nothing were there.
Nothing(c, o) ==
    \/ c.name = "BitbucketPages" /\ o \in {"missing", "garbled", "cut"}
    \/ c.name = "Bitbucket" /\ o = "missing"
    \/ c.name = "Sonarqube" /\ o = "cut"

\* What the proof uses of the descriptions of the clients.
ClientOK(c) ==
    /\ "ok" \notin c.retry \cup c.throttles \cup c.again \cup c.panics \cup c.empty
    /\ \A o \in c.empty : Nothing(c, o)
    /\ c.panics \subseteq {"none"}
    /\ c.panics # {} => c.name \in {"GithubOnce", "JiraCloud", "JiraHosted"}
    /\ \A o \in R!Transient :
         /\ o \in c.retry => c.retries > 0 \/ NotRetried(c, o)
         /\ o \notin c.empty \cup c.retry \cup c.throttles \cup c.again \cup c.panics =>
              NotRetried(c, o)

\* A call that sleeps knows what it does next.
Sleepers == \A w \in Calls : phase[w] = "paused" => then[w] # ""

\* A token is valid for a minute.  It is not valid because it has expired, and once more
\* if a call that meets it has got a new one before, unless one was refused although it
\* was valid.
Expiries ==
    /\ \A h \in R!Holders : /\ recent[h] => fresh[h]
                            /\ ~ fresh[h] => expiries >= 1
    /\ \A w \in Calls :
         /\ ~ accepted[w] => expiries >= 1
         /\ renewed[w] \/ phase[w] = "refreshing" => expiries >= 1 \/ denied[w]
         /\ renewed[w] /\ (~ accepted[w] \/ ~ fresh[R!Holder(w)]) => expiries >= 2 \/ denied[w]

\* An end has its reason, which no later step takes away.
EndOK(w) ==
    /\ phase[w] = "done" => data[w] \/ Nothing(client, outcome[w])
    /\ phase[w] = "panicked" =>
         refused[w] \/ (outcome[w] = "none" /\ client.panics # {})
    /\ phase[w] = "failed" /\ outcome[w] \in R!Transient =>
         \/ NotRetried(client, outcome[w])
         \/ client.retries > 0 /\ retried[w] = client.retries
         \/ outcome[w] \in client.throttles /\ throttled[w] = client.mostThrottled
         \/ renewed[w] /\ client.loses
    /\ phase[w] = "failed" /\ outcome[w] \in {"unauthorized", "ok"} =>
         \/ client.oauth = "" \/ refused[w] \/ client.loses
         \/ client.refreshCounts /\ retried[w] = client.retries
         \/ client.renewsOnce /\ (expiries > 1 \/ denied[w])

CallsInv ==
    R!TypeOK /\ Sleepers /\ Expiries /\ R!Resumed /\ \A w \in Calls : EndOK(w)

\* What a step of one call leaves alone.
OnlyCall(w) ==
    /\ client' = client /\ expiries' = expiries
    /\ \A v \in Calls \ {w} :
         /\ phase'[v] = phase[v] /\ then'[v] = then[v]
         /\ retried'[v] = retried[v] /\ throttled'[v] = throttled[v]
         /\ renewed'[v] = renewed[v] /\ accepted'[v] = accepted[v]
         /\ outcome'[v] = outcome[v] /\ data'[v] = data[v] /\ refused'[v] = refused[v]
         /\ denied'[v] = denied[v]

\* What such a step has to keep.
Kept(w) ==
    /\ R!TypeOK' /\ Sleepers'
    /\ phase[w] \notin R!Ended /\ OnlyCall(w)
    /\ EndOK(w)'
    /\ \A h \in R!Holders : (recent'[h] => fresh'[h]) /\ (fresh[h] => fresh'[h])
    /\ ~ accepted'[w] => expiries >= 1
    /\ renewed'[w] \/ phase'[w] = "refreshing" => expiries >= 1 \/ denied'[w]
    /\ renewed'[w] /\ (~ accepted'[w] \/ ~ fresh'[R!Holder(w)]) => expiries >= 2 \/ denied'[w]
    /\ announced' => (announced /\ phase[w] # "paused") \/ phase'[w] = "paused"

\* Why a call may end in that way.
Reason(w, how, o) ==
    /\ how = "done" => o = "ok" \/ Nothing(client, o)
    /\ how = "panicked" => refused'[w] \/ (o = "none" /\ client.panics # {})
    /\ how = "failed" /\ o \in R!Transient =>
         \/ NotRetried(client, o)
         \/ client.retries > 0 /\ retried[w] = client.retries
         \/ o \in client.throttles /\ throttled[w] = client.mostThrottled
         \/ renewed[w] /\ client.loses
    /\ how = "failed" /\ o \in {"unauthorized", "ok"} =>
         \/ client.oauth = "" \/ refused'[w] \/ client.loses
         \/ client.refreshCounts /\ retried[w] = client.retries
         \/ client.renewsOnce /\ (expiries > 1 \/ denied'[w])


\* The clients are as the invariant needs them.
LEMMA ClientsAreOK == \A c \in Clients : ClientOK(c)
<1> USE DEF ClientOK, Nothing, NotRetried, R!Transient, Base
<1>1. ClientOK(Github)
  BY DEF Github
<1>2. ClientOK(GithubOnce)
  BY DEF GithubOnce, PkgRequests, MaxDuration, RetryDelay, MaxAttempts
<1>3. ClientOK(JiraHosted)
  BY DEF JiraHosted, PkgRequests, MaxDuration, RetryDelay, MaxAttempts
<1>4. ClientOK(JiraCloud)
  BY DEF JiraCloud, PkgRequests, MaxDuration, RetryDelay, MaxAttempts
<1>5. ClientOK(Gitlab)
  BY DEF Gitlab
<1>6. ClientOK(Bitbucket)
  BY DEF Bitbucket
<1>7. ClientOK(BitbucketPages)
  BY DEF BitbucketPages, Bitbucket
<1>8. ClientOK(Azure)
  BY DEF Azure
<1>9. ClientOK(Sonarqube)
  BY DEF Sonarqube
<1>10. ClientOK(Office365) /\ ClientOK(Gcal)
  BY DEF Office365, Gcal
<1> QED
  BY <1>1, <1>2, <1>3, <1>4, <1>5, <1>6, <1>7, <1>8, <1>9, <1>10, ClientsAssumption
     DEF AllClients

\* The client whose calls these are.
LEMMA TheClient ==
    ASSUME R!TypeOK
    PROVE  /\ ClientOK(client) /\ client.retries \in Nat /\ client.mostThrottled \in Nat
           /\ client.oauth \in {"", "manager", "user"}
BY ClientsAreOK, CallsAssumption DEF R!TypeOK, R!RequestsAssumption

\* A call that ends has an outcome, and its data if it is an answer.
LEMMA EndsEffect ==
    ASSUME R!TypeOK, NEW w \in Calls, NEW how \in R!Ended, NEW o \in R!Outcomes,
           R!Ends(w, how, o)
    PROVE  /\ phase' \in [Calls -> R!Phases] /\ phase'[w] = how
           /\ outcome' \in [Calls -> R!Outcomes \cup {""}] /\ outcome'[w] = o
           /\ data' \in [Calls -> BOOLEAN]
           /\ data'[w] <=> how = "done" /\ o = "ok"
           /\ \A v \in Calls \ {w} : /\ phase'[v] = phase[v]
                                     /\ outcome'[v] = outcome[v] /\ data'[v] = data[v]
<1>1. phase' = [phase EXCEPT ![w] = how] /\ outcome' = [outcome EXCEPT ![w] = o]
  BY DEF R!Ends, R!Goes
<1>2. PICK d \in BOOLEAN : (d <=> how = "done" /\ o = "ok") /\ data' = [data EXCEPT ![w] = d]
  BY DEF R!Ends
<1> QED
  BY <1>1, <1>2 DEF R!TypeOK, R!Phases

\* One that is sent has the token of now.
LEMMA SendsEffect ==
    ASSUME R!TypeOK, NEW w \in Calls, R!Sends(w)
    PROVE  /\ phase' \in [Calls -> R!Phases] /\ phase'[w] = "sent"
           /\ accepted' \in [Calls -> BOOLEAN]
           /\ R!Holder(w) \in R!Holders
           /\ accepted'[w] = fresh[R!Holder(w)]
           /\ \A v \in Calls \ {w} : phase'[v] = phase[v] /\ accepted'[v] = accepted[v]
<1>1. R!Holder(w) \in R!Holders
  BY DEF R!Holder, R!Holders
<1> QED
  BY <1>1 DEF R!Sends, R!Goes, R!TypeOK, R!Phases

\* One that is tried again is sent, or sleeps before.
LEMMA AgainEffect ==
    ASSUME R!TypeOK, NEW w \in Calls, NEW o \in R!Outcomes, R!Again(w, o)
    PROVE  /\ phase' \in [Calls -> R!Phases] /\ phase'[w] \in {"sent", "paused"}
           /\ then' \in [Calls -> {"", "checking", "waiting", "sent"}]
           /\ phase'[w] = "paused" => then'[w] = "sent"
           /\ announced' \in BOOLEAN
           /\ announced' => announced \/ phase'[w] = "paused"
           /\ accepted' \in [Calls -> BOOLEAN]
           /\ R!Holder(w) \in R!Holders
           /\ accepted'[w] = accepted[w] \/ accepted'[w] = fresh[R!Holder(w)]
           /\ \A v \in Calls \ {w} : /\ phase'[v] = phase[v] /\ then'[v] = then[v]
                                     /\ accepted'[v] = accepted[v]
<1>1. CASE o \in client.pauses
  <2>1. /\ phase' = [phase EXCEPT ![w] = "paused"] /\ then' = [then EXCEPT ![w] = "sent"]
        /\ announced' = TRUE /\ accepted' = accepted
    BY <1>1 DEF R!Again, R!Pauses, R!Goes
  <2>2. R!Holder(w) \in R!Holders
    BY DEF R!Holder, R!Holders
  <2> QED
    BY <2>1, <2>2 DEF R!TypeOK, R!Phases
<1>2. CASE o \notin client.pauses
  BY <1>2, SendsEffect DEF R!Again, R!TypeOK
<1> QED
  BY <1>1, <1>2

\* A new token is a valid one.
LEMMA TokensEffect ==
    ASSUME CallsInv, NEW h \in R!Holders,
           \/ UNCHANGED <<fresh, recent>>
           \/ fresh' = [fresh EXCEPT ![h] = TRUE] /\ recent' = [recent EXCEPT ![h] = TRUE]
    PROVE  /\ fresh' \in [R!Holders -> BOOLEAN] /\ recent' \in [R!Holders -> BOOLEAN]
           /\ \A k \in R!Holders : (recent'[k] => fresh'[k]) /\ (fresh[k] => fresh'[k])
BY DEF CallsInv, R!TypeOK, Expiries

\* The steps that end a call.
LEMMA EndsStep ==
    ASSUME CallsInv, NEW w \in Calls, NEW how \in R!Ended, NEW o \in R!Outcomes,
           phase[w] \in {"sent", "refreshing"}, R!Ends(w, how, o),
           UNCHANGED <<client, then, retried, throttled, renewed, accepted, expiries, announced>>,
           refused' = refused \/ refused' = [refused EXCEPT ![w] = TRUE],
           denied' = denied \/ denied' = [denied EXCEPT ![w] = TRUE],
           \/ UNCHANGED <<fresh, recent>>
           \/ /\ fresh' = [fresh EXCEPT ![R!Holder(w)] = TRUE]
              /\ recent' = [recent EXCEPT ![R!Holder(w)] = TRUE],
           Reason(w, how, o)
    PROVE  Kept(w)
<1>0. R!TypeOK /\ R!Holder(w) \in R!Holders
  BY DEF CallsInv, R!Holder, R!Holders
<1>1. /\ phase' \in [Calls -> R!Phases] /\ phase'[w] = how
      /\ outcome' \in [Calls -> R!Outcomes \cup {""}] /\ outcome'[w] = o
      /\ data' \in [Calls -> BOOLEAN]
      /\ data'[w] <=> how = "done" /\ o = "ok"
      /\ \A v \in Calls \ {w} : /\ phase'[v] = phase[v]
                                /\ outcome'[v] = outcome[v] /\ data'[v] = data[v]
  BY <1>0, EndsEffect
<1>2. /\ fresh' \in [R!Holders -> BOOLEAN] /\ recent' \in [R!Holders -> BOOLEAN]
      /\ \A k \in R!Holders : (recent'[k] => fresh'[k]) /\ (fresh[k] => fresh'[k])
  BY <1>0, TokensEffect
<1>3. /\ refused' \in [Calls -> BOOLEAN] /\ \A v \in Calls \ {w} : refused'[v] = refused[v]
      /\ denied' \in [Calls -> BOOLEAN] /\ \A v \in Calls \ {w} : denied'[v] = denied[v]
      /\ denied[w] => denied'[w]
  BY <1>0 DEF R!TypeOK
<1>4. R!TypeOK' /\ Sleepers'
  <2>1. R!TypeOK'
    BY <1>0, <1>1, <1>2, <1>3 DEF R!TypeOK
  <2> QED
    BY <1>1, <2>1 DEF CallsInv, Sleepers, R!Ended
<1>5. phase[w] \notin R!Ended /\ OnlyCall(w)
  BY <1>1, <1>3 DEF R!Ended, OnlyCall
<1>6. EndOK(w)'
  BY <1>1 DEF EndOK, Reason
<1>7. /\ ~ accepted'[w] => expiries >= 1
      /\ renewed'[w] \/ phase'[w] = "refreshing" => expiries >= 1 \/ denied'[w]
      /\ renewed'[w] /\ (~ accepted'[w] \/ ~ fresh'[R!Holder(w)]) => expiries >= 2 \/ denied'[w]
  BY <1>0, <1>1, <1>2, <1>3 DEF CallsInv, Expiries, R!Ended
<1> QED
  BY <1>2, <1>4, <1>5, <1>6, <1>7 DEF Kept

\* The steps after which it is tried again.
LEMMA AgainStep ==
    ASSUME CallsInv, NEW w \in Calls, NEW o \in R!Outcomes, phase[w] = "sent", R!Again(w, o),
           UNCHANGED <<client, renewed, outcome, data, refused, denied, fresh, recent, expiries>>,
           retried' = retried \/ \E n \in 0 .. client.retries : retried' = [retried EXCEPT ![w] = n],
           \E n \in 0 .. client.mostThrottled : throttled' = [throttled EXCEPT ![w] = n]
    PROVE  Kept(w)
<1>0. R!TypeOK
  BY DEF CallsInv
<1>1. /\ phase' \in [Calls -> R!Phases] /\ phase'[w] \in {"sent", "paused"}
      /\ then' \in [Calls -> {"", "checking", "waiting", "sent"}]
      /\ phase'[w] = "paused" => then'[w] = "sent"
      /\ announced' \in BOOLEAN
      /\ announced' => announced \/ phase'[w] = "paused"
      /\ accepted' \in [Calls -> BOOLEAN]
      /\ R!Holder(w) \in R!Holders
      /\ accepted'[w] = accepted[w] \/ accepted'[w] = fresh[R!Holder(w)]
      /\ \A v \in Calls \ {w} : /\ phase'[v] = phase[v] /\ then'[v] = then[v]
                                /\ accepted'[v] = accepted[v]
  BY <1>0, AgainEffect
<1>2. /\ retried' \in [Calls -> 0 .. client.retries]
      /\ throttled' \in [Calls -> 0 .. client.mostThrottled]
      /\ \A v \in Calls \ {w} : retried'[v] = retried[v] /\ throttled'[v] = throttled[v]
  <2>1. /\ retried \in [Calls -> 0 .. client.retries] /\ client' = client
        /\ throttled \in [Calls -> 0 .. client.mostThrottled]
    BY <1>0 DEF R!TypeOK
  <2>2. /\ retried' \in [Calls -> 0 .. client.retries]
        /\ \A v \in Calls \ {w} : retried'[v] = retried[v]
    BY <2>1
  <2>3. /\ throttled' \in [Calls -> 0 .. client.mostThrottled]
        /\ \A v \in Calls \ {w} : throttled'[v] = throttled[v]
    BY <2>1
  <2> QED
    BY <2>2, <2>3
<1>3. R!TypeOK' /\ Sleepers'
  <2>1. R!TypeOK'
    BY <1>0, <1>1, <1>2 DEF R!TypeOK
  <2> QED
    BY <1>1, <2>1 DEF CallsInv, Sleepers
<1>4. phase[w] \notin R!Ended /\ OnlyCall(w)
  BY <1>1, <1>2 DEF R!Ended, OnlyCall
<1>5. EndOK(w)'
  BY <1>1 DEF EndOK
<1>6. /\ ~ accepted'[w] => expiries >= 1
      /\ renewed'[w] \/ phase'[w] = "refreshing" => expiries >= 1 \/ denied'[w]
      /\ renewed'[w] /\ (~ accepted'[w] \/ ~ fresh'[R!Holder(w)]) => expiries >= 2 \/ denied'[w]
      /\ \A h \in R!Holders : (recent'[h] => fresh'[h]) /\ (fresh[h] => fresh'[h])
  BY <1>1 DEF CallsInv, Expiries
<1> QED
  BY <1>1, <1>3, <1>4, <1>5, <1>6 DEF Kept

\* What an answer leads to.
LEMMA AnsweredKept ==
    ASSUME CallsInv, NEW w \in Calls, NEW o \in R!Outcomes, R!Answered(w, o)
    PROVE  Kept(w)
<1>0. /\ R!TypeOK /\ ClientOK(client) /\ phase[w] = "sent" /\ client' = client
      /\ R!Holder(w) \in R!Holders
  BY TheClient DEF CallsInv, R!Answered, R!Holder, R!Holders
<1>1. CASE R!Accepted(w, o)
  <2>1. /\ UNCHANGED <<client, then, retried, throttled, renewed, accepted, expiries, announced,
                      refused, denied, fresh, recent>>
        /\ o \in client.empty \cup {"ok"}
    BY <1>0, <1>1 DEF R!Accepted, R!counts, R!tokens
  <2>2. CASE renewed[w] /\ client.loses
    <3>1. R!Ends(w, "failed", o)
      BY <1>1, <2>2 DEF R!Accepted
    <3>2. Reason(w, "failed", o)
      BY <2>2 DEF Reason
    <3> QED
      BY <1>0, <2>1, <3>1, <3>2, EndsStep DEF R!Ended
  <2>3. CASE ~ (renewed[w] /\ client.loses)
    <3>1. R!Ends(w, "done", o)
      BY <1>1, <2>3 DEF R!Accepted
    <3>2. Reason(w, "done", o)
      BY <1>0, <2>1 DEF Reason, ClientOK
    <3> QED
      BY <1>0, <2>1, <3>1, <3>2, EndsStep DEF R!Ended
  <2> QED
    BY <2>2, <2>3
<1>2. CASE R!Retried(w, o) /\ (o # "unauthorized" \/ client.oauth = "")
  <2>0. o \in client.retry /\ UNCHANGED <<refused, denied, fresh, recent, expiries>>
    BY <1>2 DEF R!Retried
  <2>1. CASE retried[w] = client.retries
    <3>1. R!Ends(w, "failed", o) /\ UNCHANGED <<then, retried, throttled, renewed, accepted, announced>>
      BY <1>2, <2>1 DEF R!Retried, R!counts
    <3>2. Reason(w, "failed", o)
      BY <1>0, <1>2, <2>0, <2>1 DEF Reason, ClientOK
    <3> QED
      BY <1>0, <2>0, <3>1, <3>2, EndsStep DEF R!Ended
  <2>2. CASE retried[w] # client.retries
    <3>1. /\ retried' = [retried EXCEPT ![w] = @ + 1] /\ throttled' = [throttled EXCEPT ![w] = 0]
          /\ R!Again(w, o) /\ UNCHANGED <<renewed, outcome, data>>
      BY <1>2, <2>2 DEF R!Retried
    <3>2. /\ retried[w] \in 0 .. client.retries
          /\ client.retries \in Nat /\ client.mostThrottled \in Nat
      BY <1>0, TheClient DEF R!TypeOK
    <3>3. retried[w] + 1 \in 0 .. client.retries /\ 0 \in 0 .. client.mostThrottled
      BY <2>2, <3>2
    <3>4. retried' = [retried EXCEPT ![w] = retried[w] + 1]
      BY <3>1
    <3> QED
      BY <1>0, <2>0, <3>1, <3>3, <3>4, AgainStep
  <2> QED
    BY <2>1, <2>2
<1>3. CASE R!Throttled(w, o) /\ (o # "unauthorized" \/ client.oauth = "")
  <2>0. /\ o \in client.throttles \cup client.again
        /\ UNCHANGED <<refused, denied, fresh, recent, expiries>>
    BY <1>3 DEF R!Throttled
  <2>1. CASE o \in client.throttles /\ throttled[w] = client.mostThrottled
    <3>1. R!Ends(w, "failed", o) /\ UNCHANGED <<then, retried, throttled, renewed, accepted, announced>>
      BY <1>3, <2>1 DEF R!Throttled, R!counts
    <3>2. Reason(w, "failed", o)
      BY <1>0, <1>3, <2>0, <2>1 DEF Reason, ClientOK
    <3> QED
      BY <1>0, <2>0, <3>1, <3>2, EndsStep DEF R!Ended
  <2>2. CASE ~ (o \in client.throttles /\ throttled[w] = client.mostThrottled)
    <3>1. /\ throttled' = [throttled EXCEPT ![w] =
                             IF o \in client.throttles \/ @ < client.mostThrottled
                             THEN @ + 1 ELSE @]
          /\ R!Again(w, o) /\ UNCHANGED <<retried, renewed, outcome, data>>
      BY <1>3, <2>2 DEF R!Throttled
    <3>2. \E n \in 0 .. client.mostThrottled : throttled' = [throttled EXCEPT ![w] = n]
      <4>1. throttled[w] \in 0 .. client.mostThrottled /\ client.mostThrottled \in Nat
        BY <1>0, TheClient DEF R!TypeOK
      <4>2. CASE o \in client.throttles \/ throttled[w] < client.mostThrottled
        <5>1. throttled[w] + 1 \in 0 .. client.mostThrottled
          BY <2>2, <4>1, <4>2
        <5>2. throttled' = [throttled EXCEPT ![w] = throttled[w] + 1]
          BY <3>1, <4>2
        <5> QED
          BY <5>1, <5>2
      <4>3. CASE ~ (o \in client.throttles \/ throttled[w] < client.mostThrottled)
        <5>1. throttled' = [throttled EXCEPT ![w] = throttled[w]]
          BY <3>1, <4>3
        <5> QED
          BY <4>1, <5>1
      <4> QED
        BY <4>2, <4>3
    <3> QED
      BY <1>0, <2>0, <3>1, <3>2, AgainStep
  <2> QED
    BY <2>1, <2>2
<1>4. CASE R!Unauthorized(w) /\ o = "unauthorized" /\ client.oauth # ""
  <2>0. /\ UNCHANGED <<then, retried, throttled, renewed, refused, fresh, recent, accepted,
                       expiries, announced>>
        /\ denied' = [denied EXCEPT ![w] = denied[w] \/ accepted[w]]
    BY <1>4 DEF R!Unauthorized, R!counts, R!tokens
  <2>1. /\ denied' = denied \/ denied' = [denied EXCEPT ![w] = TRUE]
        /\ denied'[w] <=> denied[w] \/ accepted[w]
    BY <1>0, <2>0 DEF R!TypeOK
  <2>2. CASE renewed[w] /\ client.renewsOnce
    <3>1. R!Ends(w, "failed", o)
      BY <1>4, <2>2 DEF R!Unauthorized
    <3>2. expiries > 1 \/ denied'[w]
      <4>1. expiries \in 0 .. MaxExpiries /\ MaxExpiries \in Nat
        BY <1>0, CallsAssumption DEF R!TypeOK, R!RequestsAssumption
      <4>2. expiries >= 2 \/ denied'[w]
        BY <2>1, <2>2 DEF CallsInv, Expiries
      <4> QED
        BY <4>1, <4>2
    <3>3. Reason(w, "failed", o)
      BY <1>4, <2>2, <3>2 DEF Reason, R!Transient
    <3> QED
      BY <1>0, <2>0, <2>1, <3>1, <3>3, EndsStep DEF R!Ended
  <2>3. CASE ~ (renewed[w] /\ client.renewsOnce)
    <3>1. phase' = [phase EXCEPT ![w] = "refreshing"] /\ UNCHANGED <<outcome, data>>
      BY <1>4, <2>3 DEF R!Unauthorized, R!Goes
    <3>2. /\ denied' \in [Calls -> BOOLEAN]
          /\ \A v \in Calls \ {w} : denied'[v] = denied[v]
      BY <1>0, <2>1 DEF R!TypeOK
    <3>3. R!TypeOK' /\ Sleepers'
      BY <1>0, <2>0, <3>1, <3>2 DEF R!TypeOK, R!Phases, CallsInv, Sleepers
    <3>4. phase'[w] = "refreshing" /\ \A v \in Calls \ {w} : phase'[v] = phase[v]
      BY <1>0, <3>1 DEF R!TypeOK
    <3>5. phase[w] \notin R!Ended /\ OnlyCall(w) /\ EndOK(w)'
      BY <1>0, <2>0, <3>1, <3>2, <3>4 DEF R!Ended, OnlyCall, EndOK
    <3>6. /\ ~ accepted'[w] => expiries >= 1
          /\ renewed'[w] \/ phase'[w] = "refreshing" => expiries >= 1 \/ denied'[w]
          /\ renewed'[w] /\ (~ accepted'[w] \/ ~ fresh'[R!Holder(w)]) =>
               expiries >= 2 \/ denied'[w]
      BY <1>0, <2>0, <2>1 DEF CallsInv, Expiries
    <3> QED
      BY <1>0, <2>0, <3>3, <3>4, <3>5, <3>6 DEF Kept, CallsInv, Expiries
  <2> QED
    BY <2>2, <2>3
<1>5. CASE R!Failed(w, o) /\ (o # "unauthorized" \/ client.oauth = "")
  <2>1. /\ UNCHANGED <<client, then, retried, throttled, renewed, accepted, expiries, announced,
                      refused, denied, fresh, recent>>
        /\ R!Ends(w, "failed", o)
    BY <1>0, <1>5 DEF R!Failed, R!counts, R!tokens
  <2>2. CASE o \in client.panics
    <3>1. Reason(w, "failed", o)
      BY <1>0, <1>5, <2>2 DEF Reason, ClientOK, R!Failed
    <3> QED
      BY <1>0, <2>1, <3>1, EndsStep DEF R!Ended
  <2>3. CASE o \notin client.panics
    <3>1. Reason(w, "failed", o)
      BY <1>0, <1>5, <2>3 DEF Reason, ClientOK, R!Failed
    <3> QED
      BY <1>0, <2>1, <3>1, EndsStep DEF R!Ended
  <2> QED
    BY <2>2, <2>3
<1>6. CASE R!Panics(w, o)
  <2>1. /\ UNCHANGED <<client, then, retried, throttled, renewed, accepted, expiries, announced,
                      refused, denied, fresh, recent>>
        /\ R!Ends(w, "panicked", o) /\ o \in client.panics
    BY <1>0, <1>6 DEF R!Panics, R!counts, R!tokens
  <2>2. Reason(w, "panicked", o)
    BY <1>0, <2>1 DEF Reason, ClientOK
  <2> QED
    BY <1>0, <2>1, <2>2, EndsStep DEF R!Ended
<1> QED
  BY <1>1, <1>2, <1>3, <1>4, <1>5, <1>6 DEF R!Answered

\* The end of a refresh.
LEMMA RefreshKept ==
    ASSUME CallsInv, NEW w \in Calls, R!Refresh(w)
    PROVE  Kept(w)
<1> DEFINE h == R!Holder(w)
<1>0. /\ R!TypeOK /\ phase[w] = "refreshing" /\ h \in R!Holders
      /\ "unauthorized" \in R!Outcomes /\ "unauthorized" \notin R!Transient
      /\ UNCHANGED <<client, then, throttled, denied, expiries, announced>>
  BY DEF CallsInv, R!Refresh, R!Holder, R!Holders, R!Outcomes, R!Transient
<1> DEFINE Got == \/ UNCHANGED <<fresh, recent>> /\ recent[h]
                  \/ /\ fresh' = [fresh EXCEPT ![h] = TRUE]
                     /\ recent' = [recent EXCEPT ![h] = TRUE]
<1>1. CASE /\ Got /\ refused' = refused /\ client.refreshCounts /\ retried[w] = client.retries
           /\ R!Ends(w, "failed", "unauthorized") /\ UNCHANGED <<retried, renewed, accepted>>
  <2>1. Reason(w, "failed", "unauthorized")
    BY <1>0, <1>1 DEF Reason
  <2> QED
    BY <1>0, <1>1, <2>1, EndsStep DEF R!Ended
<1>2. CASE /\ Got /\ refused' = refused /\ ~ (client.refreshCounts /\ retried[w] = client.retries)
           /\ renewed' = [renewed EXCEPT ![w] = TRUE]
           /\ retried' = [retried EXCEPT ![w] = IF client.refreshCounts THEN @ + 1 ELSE @]
           /\ R!Goes(w, "sent") /\ accepted' = [accepted EXCEPT ![w] = fresh'[h]]
           /\ UNCHANGED <<outcome, data>>
  <2>1. /\ fresh' \in [R!Holders -> BOOLEAN] /\ recent' \in [R!Holders -> BOOLEAN]
        /\ \A k \in R!Holders : (recent'[k] => fresh'[k]) /\ (fresh[k] => fresh'[k])
    BY <1>0, <1>2, TokensEffect
  <2>2. fresh'[h]
    <3>1. CASE UNCHANGED <<fresh, recent>> /\ recent[h]
      BY <1>0, <3>1 DEF CallsInv, Expiries
    <3>2. CASE fresh' = [fresh EXCEPT ![h] = TRUE]
      BY <1>0, <3>2 DEF R!TypeOK
    <3> QED
      BY <1>2, <3>1, <3>2
  <2>3. accepted' \in [Calls -> BOOLEAN] /\ accepted'[w] /\ \A v \in Calls \ {w} : accepted'[v] = accepted[v]
    <3>1. fresh'[h] \in BOOLEAN
      BY <1>0, <2>1
    <3> QED
      BY <1>0, <1>2, <2>2, <3>1 DEF R!TypeOK
  <2>4. /\ phase' \in [Calls -> R!Phases] /\ phase'[w] = "sent"
        /\ \A v \in Calls \ {w} : phase'[v] = phase[v]
    BY <1>0, <1>2 DEF R!Goes, R!TypeOK, R!Phases
  <2>5. renewed' \in [Calls -> BOOLEAN] /\ \A v \in Calls \ {w} : renewed'[v] = renewed[v]
    BY <1>0, <1>2 DEF R!TypeOK
  <2>6. /\ retried' \in [Calls -> 0 .. client.retries]
        /\ \A v \in Calls \ {w} : retried'[v] = retried[v]
    <3>1. retried[w] \in 0 .. client.retries /\ client.retries \in Nat
      BY <1>0, TheClient DEF R!TypeOK
    <3>2. CASE client.refreshCounts
      <4>1. retried[w] + 1 \in 0 .. client.retries /\ retried' = [retried EXCEPT ![w] = @ + 1]
        BY <1>2, <3>1, <3>2
      <4> QED
        BY <1>0, <4>1 DEF R!TypeOK
    <3>3. CASE ~ client.refreshCounts
      BY <1>0, <1>2, <3>1, <3>3 DEF R!TypeOK
    <3> QED
      BY <3>2, <3>3
  <2>7. R!TypeOK'
    BY <1>0, <1>2, <2>1, <2>3, <2>4, <2>5, <2>6 DEF R!TypeOK
  <2>8. Sleepers'
    BY <1>0, <2>4 DEF CallsInv, Sleepers
  <2>9. phase[w] \notin R!Ended /\ OnlyCall(w)
    BY <1>0, <1>2, <2>3, <2>4, <2>5, <2>6 DEF R!Ended, OnlyCall
  <2>10. EndOK(w)'
    BY <2>4 DEF EndOK
  <2>11. /\ ~ accepted'[w] => expiries >= 1
         /\ renewed'[w] \/ phase'[w] = "refreshing" => expiries >= 1 \/ denied'[w]
         /\ ~ (renewed'[w] /\ (~ accepted'[w] \/ ~ fresh'[R!Holder(w)]))
    BY <1>0, <2>2, <2>3 DEF CallsInv, Expiries
  <2> QED
    BY <1>0, <2>1, <2>4, <2>7, <2>8, <2>9, <2>10, <2>11 DEF Kept
<1>3. ASSUME NEW how \in {"failed", "panicked"}, R!Ends(w, how, "unauthorized"),
             refused' = [refused EXCEPT ![w] = TRUE],
             UNCHANGED <<retried, renewed, fresh, recent, accepted>>
      PROVE  Kept(w)
  <2>1. refused'[w]
    BY <1>0, <1>3 DEF R!TypeOK
  <2>2. Reason(w, how, "unauthorized") /\ how \in R!Ended
    BY <1>0, <2>1 DEF Reason, R!Ended
  <2> QED
    BY <1>0, <1>3, <2>2, EndsStep
<1>4. \/ /\ Got /\ refused' = refused
         /\ IF client.refreshCounts /\ retried[w] = client.retries
            THEN R!Ends(w, "failed", "unauthorized") /\ UNCHANGED <<retried, renewed, accepted>>
            ELSE /\ renewed' = [renewed EXCEPT ![w] = TRUE]
                 /\ retried' = [retried EXCEPT ![w] = IF client.refreshCounts THEN @ + 1 ELSE @]
                 /\ R!Goes(w, "sent") /\ accepted' = [accepted EXCEPT ![w] = fresh'[h]]
                 /\ UNCHANGED <<outcome, data>>
      \/ /\ \E how \in {"failed", "panicked"} : R!Ends(w, how, "unauthorized")
         /\ refused' = [refused EXCEPT ![w] = TRUE]
         /\ UNCHANGED <<retried, renewed, fresh, recent, accepted>>
  BY DEF R!Refresh
<1> QED
  BY <1>1, <1>2, <1>3, <1>4

\* The steps of a call that wait, or are over waiting.
LEMMA WaitingKept ==
    ASSUME CallsInv, NEW w \in Calls,
           \/ R!Call(w) \/ R!Take(w) \/ R!Resume(w) \/ \E o \in R!Outcomes : R!CheckQuota(w, o)
    PROVE  Kept(w)
<1>0. /\ R!TypeOK /\ phase[w] \notin R!Ended /\ R!Holder(w) \in R!Holders
      /\ UNCHANGED <<client, retried, throttled, renewed, outcome, data, refused, denied, fresh,
                     recent, expiries>>
  BY DEF CallsInv, R!Call, R!Take, R!Resume, R!CheckQuota, R!Ended, R!Holder, R!Holders,
         R!counts, R!result, R!tokens
<1>1. /\ phase' \in [Calls -> R!Phases]
      /\ phase'[w] \in {"checking", "waiting", "sent", "paused"}
      /\ \A v \in Calls \ {w} : phase'[v] = phase[v]
      /\ accepted' \in [Calls -> BOOLEAN]
      /\ accepted'[w] = accepted[w] \/ accepted'[w] = fresh[R!Holder(w)]
      /\ \A v \in Calls \ {w} : accepted'[v] = accepted[v]
      /\ then' \in [Calls -> {"", "checking", "waiting", "sent"}]
      /\ phase'[w] = "paused" => then'[w] # ""
      /\ \A v \in Calls \ {w} : then'[v] = then[v]
      /\ announced' \in BOOLEAN
      /\ announced' => (announced /\ phase[w] # "paused") \/ phase'[w] = "paused"
  <2>1. CASE R!Call(w)
    <3>1. /\ phase' = [phase EXCEPT ![w] = "waiting"] \/ phase' = [phase EXCEPT ![w] = "checking"]
          /\ UNCHANGED <<accepted, then, announced>> /\ phase[w] = "idle"
      BY <2>1 DEF R!Call, R!Goes, R!tokens
    <3> QED
      BY <1>0, <3>1 DEF R!TypeOK, R!Phases
  <2>2. CASE R!Take(w)
    <3>1. R!Sends(w) /\ UNCHANGED <<then, announced>> /\ phase[w] = "waiting"
      BY <2>2 DEF R!Take
    <3> QED
      BY <1>0, <3>1, SendsEffect DEF R!TypeOK
  <2>3. CASE R!Resume(w)
    <3>1. /\ phase[w] = "paused" /\ then' = [then EXCEPT ![w] = ""] /\ announced' = FALSE
          /\ then[w] \in {"checking", "waiting", "sent"}
      BY <1>0, <2>3 DEF R!Resume, CallsInv, Sleepers, R!TypeOK
    <3>2. CASE then[w] = "sent"
      <4>1. R!Sends(w)
        BY <2>3, <3>2 DEF R!Resume
      <4> QED
        BY <1>0, <3>1, <4>1, SendsEffect DEF R!TypeOK
    <3>3. CASE then[w] # "sent"
      <4>1. phase' = [phase EXCEPT ![w] = then[w]] /\ accepted' = accepted
        BY <2>3, <3>3 DEF R!Resume, R!Goes
      <4> QED
        BY <1>0, <3>1, <3>3, <4>1 DEF R!TypeOK, R!Phases
    <3> QED
      BY <3>2, <3>3
  <2>4. ASSUME NEW o \in R!Outcomes, R!CheckQuota(w, o)
        PROVE  /\ accepted' = accepted /\ phase[w] = "checking"
               /\ \/ /\ phase' = [phase EXCEPT ![w] = "waiting"]
                     /\ UNCHANGED <<then, announced>>
                  \/ /\ phase' = [phase EXCEPT ![w] = "paused"] /\ announced' = TRUE
                     /\ \/ then' = [then EXCEPT ![w] = "checking"]
                        \/ then' = [then EXCEPT ![w] = "waiting"]
    BY <2>4 DEF R!CheckQuota, R!Pauses, R!Goes, R!tokens
  <2>5. CASE \E o \in R!Outcomes : R!CheckQuota(w, o)
    BY <1>0, <2>4, <2>5 DEF R!TypeOK, R!Phases
  <2> QED
    BY <2>1, <2>2, <2>3, <2>5
<1>2. R!TypeOK'
  BY <1>0, <1>1 DEF R!TypeOK
<1>3. Sleepers'
  BY <1>1 DEF CallsInv, Sleepers
<1>4. OnlyCall(w) /\ EndOK(w)'
  BY <1>0, <1>1 DEF OnlyCall, EndOK
<1>5. /\ ~ accepted'[w] => expiries >= 1
      /\ renewed'[w] \/ phase'[w] = "refreshing" => expiries >= 1 \/ denied'[w]
      /\ renewed'[w] /\ (~ accepted'[w] \/ ~ fresh'[R!Holder(w)]) => expiries >= 2 \/ denied'[w]
      /\ \A h \in R!Holders : (recent'[h] => fresh'[h]) /\ (fresh[h] => fresh'[h])
  BY <1>0, <1>1 DEF CallsInv, Expiries
<1> QED
  BY <1>0, <1>1, <1>2, <1>3, <1>4, <1>5 DEF Kept

\* What the step of a call keeps is the invariant: the other calls end as they did.
LEMMA KeptInv ==
    ASSUME CallsInv, NEW w \in Calls, Kept(w)
    PROVE  CallsInv'
<1>1. /\ R!TypeOK /\ R!TypeOK' /\ Sleepers' /\ client' = client /\ expiries' = expiries
      /\ \A v \in Calls \ {w} :
           /\ phase'[v] = phase[v] /\ then'[v] = then[v]
           /\ retried'[v] = retried[v] /\ throttled'[v] = throttled[v]
           /\ renewed'[v] = renewed[v] /\ accepted'[v] = accepted[v]
           /\ outcome'[v] = outcome[v] /\ data'[v] = data[v] /\ refused'[v] = refused[v]
           /\ denied'[v] = denied[v]
  BY DEF CallsInv, Kept, OnlyCall
<1>2. \A v \in Calls : EndOK(v)'
  <2> SUFFICES ASSUME NEW v \in Calls PROVE EndOK(v)'
    OBVIOUS
  <2>1. CASE v = w
    BY <2>1 DEF Kept
  <2>2. CASE v # w
    <3>1. /\ EndOK(v) /\ client' = client /\ expiries' = expiries /\ phase'[v] = phase[v]
          /\ retried'[v] = retried[v] /\ throttled'[v] = throttled[v]
          /\ renewed'[v] = renewed[v] /\ outcome'[v] = outcome[v] /\ data'[v] = data[v]
          /\ refused'[v] = refused[v] /\ denied'[v] = denied[v]
      BY <1>1, <2>2 DEF CallsInv
    <3> QED
      BY <3>1 DEF EndOK
  <2> QED
    BY <2>1, <2>2
<1>3. \A h \in R!Holders : (recent'[h] => fresh'[h]) /\ (~ fresh'[h] => expiries' >= 1)
  BY <1>1 DEF Kept, CallsInv, Expiries
<1>4. ASSUME NEW v \in Calls
      PROVE  /\ ~ accepted'[v] => expiries' >= 1
             /\ renewed'[v] \/ phase'[v] = "refreshing" => expiries' >= 1 \/ denied'[v]
             /\ renewed'[v] /\ (~ accepted'[v] \/ ~ fresh'[R!Holder(v)']) =>
                  expiries' >= 2 \/ denied'[v]
  <2>1. R!Holder(v)' = R!Holder(v) /\ R!Holder(v) \in R!Holders
    BY <1>1 DEF R!Holder, R!Holders
  <2>2. CASE v = w
    BY <1>1, <2>1, <2>2 DEF Kept
  <2>3. CASE v # w
    BY <1>1, <2>1, <2>3 DEF Kept, CallsInv, Expiries
  <2> QED
    BY <2>2, <2>3
<1>5. Expiries'
  <2>1. R!Holders' = R!Holders
    BY DEF R!Holders
  <2> QED
    BY <1>3, <1>4, <2>1 DEF Expiries
<1>6. R!Resumed'
  <2> SUFFICES ASSUME \A v \in Calls : phase'[v] # "paused", announced' PROVE FALSE
    BY DEF R!Resumed
  <2>1. announced /\ phase[w] # "paused"
    BY DEF Kept
  <2>2. \A v \in Calls : phase[v] # "paused"
    BY <1>1, <2>1
  <2> QED
    BY <2>1, <2>2 DEF CallsInv, R!Resumed
<1> QED
  BY <1>1, <1>2, <1>5, <1>6 DEF CallsInv

\* A token gets old.
LEMMA MinuteInv ==
    ASSUME CallsInv, NEW h \in R!Holders, R!MinutePasses(h)
    PROVE  CallsInv'
<1>1. /\ UNCHANGED <<client, phase, then, retried, throttled, renewed, outcome, data, refused,
                     denied, fresh, accepted, expiries, announced>>
      /\ recent' = [recent EXCEPT ![h] = FALSE] /\ R!TypeOK
  BY DEF CallsInv, R!MinutePasses, R!counts, R!result
<1>2. recent' \in [R!Holders -> BOOLEAN] /\ \A k \in R!Holders : recent'[k] => recent[k]
  BY <1>1 DEF R!TypeOK
<1>3. R!TypeOK' /\ Sleepers' /\ R!Resumed'
  BY <1>1, <1>2 DEF CallsInv, R!TypeOK, Sleepers, R!Resumed
<1>4. Expiries'
  BY <1>1, <1>2 DEF CallsInv, Expiries, R!Holder, R!Holders
<1>5. \A w \in Calls : EndOK(w)'
  BY <1>1 DEF CallsInv, EndOK
<1> QED
  BY <1>3, <1>4, <1>5 DEF CallsInv

\* A token expires; none that a call has got anew does so for the first time.
LEMMA ExpireInv ==
    ASSUME CallsInv, NEW h \in R!Holders, R!Expire(h)
    PROVE  CallsInv'
<1>1. /\ UNCHANGED <<client, phase, then, retried, throttled, renewed, outcome, data, refused,
                     denied, recent, announced>>
      /\ fresh' = [fresh EXCEPT ![h] = FALSE] /\ fresh[h] /\ ~ recent[h]
      /\ accepted' = [w \in Calls |-> accepted[w] /\ R!Holder(w) # h]
      /\ expiries < MaxExpiries /\ expiries' = expiries + 1 /\ R!TypeOK
  BY DEF CallsInv, R!Expire, R!counts, R!result
<1>2. expiries' \in 0 .. MaxExpiries /\ expiries \in Nat /\ expiries' >= 1
  <2>1. MaxExpiries \in Nat
    BY CallsAssumption DEF R!RequestsAssumption
  <2>2. expiries \in 0 .. MaxExpiries
    BY <1>1 DEF R!TypeOK
  <2> QED
    BY <1>1, <2>1, <2>2
<1>3. /\ fresh' \in [R!Holders -> BOOLEAN]
      /\ \A k \in R!Holders : k # h => fresh'[k] = fresh[k]
  BY <1>1 DEF R!TypeOK
<1>4. accepted' \in [Calls -> BOOLEAN]
  BY <1>1
<1>5. R!TypeOK' /\ Sleepers' /\ R!Resumed'
  BY <1>1, <1>2, <1>3, <1>4 DEF CallsInv, R!TypeOK, Sleepers, R!Resumed
<1>6. \A k \in R!Holders : (recent'[k] => fresh'[k]) /\ (~ fresh'[k] => expiries' >= 1)
  BY <1>1, <1>2, <1>3 DEF CallsInv, Expiries
<1>7. \A w \in Calls :
        /\ renewed'[w] => expiries' >= 2 \/ denied'[w]
        /\ renewed'[w] \/ phase'[w] = "refreshing" => expiries' >= 1 \/ denied'[w]
  BY <1>1, <1>2 DEF CallsInv, Expiries
<1>8. Expiries'
  <2>1. R!Holders' = R!Holders
    BY DEF R!Holders
  <2> QED
    BY <1>2, <1>6, <1>7, <2>1 DEF Expiries
<1>9. ASSUME NEW w \in Calls PROVE EndOK(w)'
  <2>1. /\ EndOK(w) /\ expiries \in Nat /\ expiries' = expiries + 1
        /\ UNCHANGED <<client, phase, retried, throttled, renewed, outcome, data, refused, denied>>
    BY <1>1, <1>2 DEF CallsInv
  <2>2. expiries > 1 => expiries' > 1
    BY <2>1
  <2>3. /\ Nothing(client, outcome[w])' = Nothing(client, outcome[w])
        /\ NotRetried(client, outcome[w])' = NotRetried(client, outcome[w])
    BY <2>1
  <2> QED
    BY <2>1, <2>2, <2>3 DEF EndOK
<1> QED
  BY <1>5, <1>8, <1>9 DEF CallsInv

\* Every step of the calls.
LEMMA CallsStep ==
    ASSUME CallsInv, R!Next
    PROVE  CallsInv'
<1>1. ASSUME NEW w \in Calls,
             \/ R!Call(w) \/ R!Take(w) \/ R!Resume(w) \/ R!Refresh(w)
             \/ \E o \in R!Outcomes : R!CheckQuota(w, o) \/ R!Answered(w, o)
      PROVE  CallsInv'
  <2>1. CASE R!Refresh(w)
    BY <2>1, RefreshKept, KeptInv
  <2>2. CASE R!Call(w) \/ R!Take(w) \/ R!Resume(w) \/ \E o \in R!Outcomes : R!CheckQuota(w, o)
    BY <2>2, WaitingKept, KeptInv
  <2>3. CASE \E o \in R!Outcomes : R!Answered(w, o)
    BY <2>3, AnsweredKept, KeptInv
  <2> QED
    BY <1>1, <2>1, <2>2, <2>3
<1> QED
  BY <1>1, ExpireInv, MinuteInv DEF R!Next

LEMMA CallsInit == R!Init => CallsInv
<1> SUFFICES ASSUME R!Init PROVE CallsInv
  OBVIOUS
<1>1. /\ client \in Clients /\ client.retries \in Nat /\ client.mostThrottled \in Nat
      /\ MaxExpiries \in Nat
  BY CallsAssumption DEF R!Init, R!RequestsAssumption
<1>2. R!TypeOK
  <2>1. 0 \in 0 .. client.retries /\ 0 \in 0 .. client.mostThrottled /\ 0 \in 0 .. MaxExpiries
    BY <1>1
  <2>2. /\ retried \in [Calls -> 0 .. client.retries]
        /\ throttled \in [Calls -> 0 .. client.mostThrottled]
        /\ expiries \in 0 .. MaxExpiries
    BY <2>1 DEF R!Init
  <2>3. /\ renewed \in [Calls -> BOOLEAN] /\ data \in [Calls -> BOOLEAN]
        /\ accepted \in [Calls -> BOOLEAN] /\ refused \in [Calls -> BOOLEAN]
        /\ denied \in [Calls -> BOOLEAN]
        /\ fresh \in [R!Holders -> BOOLEAN] /\ recent \in [R!Holders -> BOOLEAN]
        /\ announced \in BOOLEAN
    BY DEF R!Init
  <2>4. /\ phase \in [Calls -> R!Phases] /\ then \in [Calls -> {"", "checking", "waiting", "sent"}]
        /\ outcome \in [Calls -> R!Outcomes \cup {""}]
    BY DEF R!Init, R!Phases
  <2> QED
    BY <1>1, <2>2, <2>3, <2>4 DEF R!TypeOK
<1>3. Sleepers /\ Expiries /\ R!Resumed
  BY DEF R!Init, Sleepers, Expiries, R!Resumed, R!Holders, R!Holder
<1>4. \A w \in Calls : EndOK(w)
  BY DEF R!Init, EndOK
<1> QED
  BY <1>2, <1>3, <1>4 DEF CallsInv

LEMMA CallsInvariant == MCSpec => []CallsInv
<1>1. MCInit => CallsInv
  BY CallsInit DEF MCInit
<1>2. CallsInv /\ [MCNext]_<<part, vars, callVars>> => CallsInv'
  <2> SUFFICES ASSUME CallsInv, [MCNext]_<<part, vars, callVars>> PROVE CallsInv'
    OBVIOUS
  <2>1. CASE R!Next
    BY <2>1, CallsStep
  <2>2. CASE UNCHANGED callVars
    <3>1. R!TypeOK' /\ Sleepers' /\ R!Resumed'
      BY <2>2 DEF callVars, CallsInv, R!TypeOK, Sleepers, R!Resumed
    <3>2. Expiries'
      BY <2>2 DEF callVars, CallsInv, Expiries, R!Holder
    <3>3. \A w \in Calls : EndOK(w)'
      BY <2>2 DEF callVars, CallsInv, EndOK
    <3> QED
      BY <3>1, <3>2, <3>3 DEF CallsInv
  <2> QED
    BY <2>1, <2>2 DEF MCNext
<1> QED
  BY <1>1, <1>2, PTL DEF MCSpec

\* However calls interleave, meet the same expired token and wait for the same slots, each
\* returns what the service has or fails for a reason (bitbucket/api/requester.go:153,
\* pkg/requests/requests.go:186, pkg/oauthtoken): no client gives up early or panics but
\* those that the property names.
THEOREM CallsEndForAReason == MCSpec => []EndsForAReason
<1>1. ASSUME CallsInv PROVE R!Complete /\ R!PanicsWithoutResponse
  BY <1>1, TheClient DEF CallsInv, EndOK, Nothing, ClientOK, R!Complete, R!PanicsWithoutResponse
<1>2. ASSUME CallsInv PROVE R!GivenUpLate
  BY <1>2 DEF CallsInv, EndOK, NotRetried, R!GivenUpLate
<1>3. ASSUME CallsInv PROVE R!ExpiryFailsNoCall
  BY <1>3 DEF CallsInv, EndOK, R!ExpiryFailsNoCall
<1> QED
  BY <1>1, <1>2, <1>3, CallsInvariant, PTL DEF CallsInv, EndsForAReason, R!EndsForAReason

\* When no call sleeps the backend has been told that the integration goes on
\* (github/requests.go:170): no pause is announced for ever.
THEOREM ResumedWhenAwake == MCSpec => []Resumed
BY CallsInvariant, PTL DEF CallsInv, Resumed
=============================================================================
