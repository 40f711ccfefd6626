--------------------- MODULE PullRequestPipelineProofs ----------------------
(***************************************************************************)
(* What holds of PullRequestPipeline for any number of exporters and pages *)
(* and any capacity of the channels.                                       *)
(***************************************************************************)
EXTENDS PullRequestPipeline, TLAPS

\* The pages in a channel.
In(s) == {s[i] : i \in DOMAIN s}

LEMMA InEmpty == In(<<>>) = {}
BY DEF In

\* Sending to a channel adds a page.
LEMMA InAppend ==
    ASSUME NEW s \in Seq(Page), NEW p \in Page
    PROVE  Append(s, p) \in Seq(Page) /\ In(Append(s, p)) = In(s) \cup {p}
<1>1. Append(s, p) \in Seq(Page) /\ Len(Append(s, p)) = Len(s) + 1
  OBVIOUS
<1>2. \A i \in 1..Len(s) : Append(s, p)[i] = s[i]
  OBVIOUS
<1>3. Append(s, p)[Len(s) + 1] = p
  OBVIOUS
<1>4. DOMAIN s = 1..Len(s) /\ DOMAIN Append(s, p) = 1..(Len(s) + 1)
  BY <1>1
<1>5. Len(s) \in Nat
  OBVIOUS
<1>6. QED
  BY <1>1, <1>2, <1>3, <1>4, <1>5 DEF In

\* Receiving from a channel takes its first page out.
LEMMA InTail ==
    ASSUME NEW s \in Seq(Page), s # <<>>
    PROVE  /\ Head(s) \in Page /\ Tail(s) \in Seq(Page)
           /\ In(s) = {Head(s)} \cup In(Tail(s))
<1>1. /\ Head(s) = s[1] /\ Head(s) \in Page
      /\ Tail(s) \in Seq(Page) /\ Len(Tail(s)) = Len(s) - 1
      /\ Len(s) \in Nat \ {0}
  OBVIOUS
<1>2. \A i \in 1..(Len(s) - 1) : Tail(s)[i] = s[i + 1]
  OBVIOUS
<1>3. DOMAIN s = 1..Len(s) /\ DOMAIN Tail(s) = 1..(Len(s) - 1)
  BY <1>1
<1>4. In(s) \subseteq {Head(s)} \cup In(Tail(s))
  <2> SUFFICES ASSUME NEW i \in 1..Len(s)
               PROVE  s[i] \in {Head(s)} \cup In(Tail(s))
    BY <1>3 DEF In
  <2>1. CASE i = 1
    BY <2>1, <1>1
  <2>2. CASE i # 1
    <3>1. i - 1 \in 1..(Len(s) - 1) /\ Tail(s)[i - 1] = s[i]
      BY <2>2, <1>1, <1>2
    <3>2. QED
      BY <3>1, <1>3 DEF In
  <2>3. QED
    BY <2>1, <2>2
<1>5. {Head(s)} \cup In(Tail(s)) \subseteq In(s)
  <2>1. \A i \in 1..(Len(s) - 1) : i + 1 \in 1..Len(s)
    BY <1>1
  <2>2. QED
    BY <2>1, <1>1, <1>2, <1>3 DEF In
<1>6. QED
  BY <1>1, <1>4, <1>5

-----------------------------------------------------------------------------
(* Type correctness                                                        *)

\* The types are kept by the listing and the feeder.
LEMMA FeederType ==
    ASSUME TypeOK,
           ListPage \/ ListingEnds \/ ListingFails \/ FeederStep
    PROVE  TypeOK'
<1> USE ChannelsAssumption, PagesAssumption, NoPageAssumption,
        FeederAssumption
    DEF TypeOK, Channel, Page
<1>1. CASE ListPage
  BY <1>1 DEF ListPage, errors, exporters
<1>2. CASE ListingEnds \/ ListingFails
  BY <1>2 DEF ListingEnds, ListingFails, feed, errors, exporters
<1>3. CASE Feed
  <2>1. item \in Page /\ next \in Channel /\ chan[next] \in Seq(Page)
    BY <1>3 DEF Feed
  <2>2. Append(chan[next], item) \in Seq(Page)
    BY <2>1
  <2>3. chan' \in [Channel -> Seq(Page)]
    BY <1>3, <2>1, <2>2 DEF Feed
  <2>4. next' \in 1..(Channels + 1) /\ (item' # NoPage => next' \in Channel)
        /\ item' \in Page \cup {NoPage}
    BY <1>3, <2>1 DEF Feed
  <2>5. QED
    BY <1>3, <2>3, <2>4 DEF Feed, list, errors, exporters
<1>4. CASE CloseChannels
  BY <1>4 DEF CloseChannels, list, exporters, Caller
<1>5. QED
  BY <1>1, <1>2, <1>3, <1>4 DEF FeederStep

\* The types are kept by an exporter.
LEMMA ExporterType ==
    ASSUME TypeOK, NEW c \in Channel, ExporterStep(c) \/ ExportFails(c)
    PROVE  TypeOK'
<1> USE ChannelsAssumption, NoPageAssumption DEF TypeOK
<1>1. CASE Receive(c)
  <2>1. Head(chan[c]) \in Page /\ Tail(chan[c]) \in Seq(Page)
    BY <1>1, InTail DEF Receive
  <2>2. QED
    BY <1>1, <2>1 DEF Receive, list, feed, errors
<1>2. CASE ExportPage(c)
  <2>1. page[c] \in Page
    BY <1>2 DEF ExportPage
  <2>2. exported' \in [Channel -> SUBSET Page]
    BY <1>2, <2>1 DEF ExportPage
  <2>3. QED
    BY <1>2, <2>2 DEF ExportPage, list, feed, errors
<1>3. CASE ExportFails(c) \/ ExporterEnds(c)
  BY <1>3 DEF ExportFails, ExporterEnds, list, feed, exporters, Caller
<1>4. QED
  BY <1>1, <1>2, <1>3 DEF ExporterStep

\* The types are kept by setErr.
LEMMA SetErrType ==
    ASSUME TypeOK, NEW g \in Caller, SetErrStep(g)
    PROVE  TypeOK'
<1> USE ChannelsAssumption DEF TypeOK
<1>1. CASE LockErr(g)
  BY <1>1 DEF LockErr, list, feed, exporters
<1>2. CASE Drain(g)
  <2>1. stage[g] \in Channel
    BY <1>2 DEF Drain, Channel
  <2>2. Tail(chan[stage[g]]) \in Seq(Page)
    BY <1>2, <2>1, InTail DEF Drain
  <2>3. QED
    BY <1>2, <2>1, <2>2 DEF Drain, list, feed, exporters, errors
<1>3. CASE Drained(g)
  <2>1. stage[g] + 1 \in 1..(Channels + 1)
    BY <1>3 DEF Drained
  <2>2. QED
    BY <1>3, <2>1 DEF Drained, list, feed, exporters
<1>4. CASE UnlockErr(g)
  BY <1>4 DEF UnlockErr, list, feed, exporters
<1>5. QED
  BY <1>1, <1>2, <1>3, <1>4 DEF SetErrStep

\* Every variable keeps to its type, whichever requests fail.
THEOREM TypeCorrect == Spec => []TypeOK
<1>1. Init => TypeOK
  <2> SUFFICES ASSUME Init PROVE TypeOK
    OBVIOUS
  <2>1. 1 \in Channel /\ 1 \in 1..(Channels + 1) /\ 0 \in 0..Pages
    BY ChannelsAssumption, PagesAssumption DEF Channel
  <2>2. <<>> \in Seq(Page)
    OBVIOUS
  <2>3. QED
    BY <2>1, <2>2 DEF Init, TypeOK
<1>2. TypeOK /\ [Next]_vars => TypeOK'
  <2> SUFFICES ASSUME TypeOK, [Next]_vars PROVE TypeOK'
    OBVIOUS
  <2>1. CASE Return
    BY <2>1 DEF Return, TypeOK, list, feed, exporters, errors
  <2>2. CASE UNCHANGED vars
    BY <2>2 DEF vars, TypeOK, list, feed, exporters, errors
  <2>3. QED
    BY <2>1, <2>2, FeederType, ExporterType, SetErrType DEF Next, Idle
<1>3. QED
  BY <1>1, <1>2, PTL DEF Spec

-----------------------------------------------------------------------------
(* The mutex of setErr                                                     *)

\* The feeder calls setErr after it has closed the channels.
Holder == HolderDrains /\ (feeding => place[Feeder] = "working")

\* errMu is held by the goroutine that drains, and by no other.
THEOREM HolderIsTheDrainer == Spec => []HolderDrains
<1> USE NoPageAssumption, FeederAssumption DEF Holder, HolderDrains
<1>1. Init => Holder
  BY DEF Init, Caller, Channel
<1>2. TypeOK /\ Holder /\ [Next]_vars => Holder'
  <2> SUFFICES ASSUME TypeOK, Holder, [Next]_vars
               PROVE  Holder'
    OBVIOUS
  <2>1. CASE ListPage \/ ListingEnds \/ ListingFails \/ Feed \/ Return
             \/ UNCHANGED vars
    BY <2>1 DEF ListPage, ListingEnds, ListingFails, Feed, Return, vars,
                feed, errors
  <2>2. CASE CloseChannels
    BY <2>2 DEF CloseChannels, TypeOK, Caller
  <2>3. ASSUME NEW c \in Channel, ExporterStep(c) \/ ExportFails(c)
        PROVE  Holder'
    <3>1. c \in Caller /\ c # Feeder
      BY DEF Caller, Channel
    <3>2. CASE Receive(c) \/ ExportPage(c)
      BY <3>2 DEF Receive, ExportPage, feed, errors
    <3>3. CASE ExporterEnds(c) \/ ExportFails(c)
      <4>1. place'[c] # "draining" /\ place[c] = "working" /\ c \in Channel
        BY <3>1, <3>3 DEF ExporterEnds, ExportFails, TypeOK
      <4>2. \A h \in Caller \ {c} : place'[h] = place[h]
        BY <3>1, <3>3 DEF ExporterEnds, ExportFails, TypeOK
      <4>3. errMu' = errMu /\ feeding' = feeding
        BY <3>3 DEF ExporterEnds, ExportFails, feed
      <4>4. Feeder \in Caller
        BY DEF Caller
      <4>5. QED
        BY <3>1, <4>1, <4>2, <4>3, <4>4
    <3>4. QED
      BY <2>3, <3>2, <3>3 DEF ExporterStep
  <2>4. ASSUME NEW g \in Caller, SetErrStep(g) PROVE Holder'
    <3>1. \A h \in Caller : h # NoPage
      BY DEF Caller, Channel
    <3>2. CASE LockErr(g)
      BY <3>1, <3>2 DEF LockErr, TypeOK, feed
    <3>3. CASE Drain(g) \/ Drained(g)
      BY <3>3 DEF Drain, Drained, feed, errors
    <3>4. CASE UnlockErr(g)
      BY <3>1, <3>4 DEF UnlockErr, TypeOK, feed
    <3>5. QED
      BY <2>4, <3>2, <3>3, <3>4 DEF SetErrStep
  <2>5. QED
    BY <2>1, <2>2, <2>3, <2>4 DEF Next, Idle, FeederStep
<1>3. Holder => HolderDrains
  OBVIOUS
<1>4. QED
  BY <1>1, <1>2, <1>3, TypeCorrect, PTL DEF Spec

-----------------------------------------------------------------------------
(* What the end of the goroutines means                                    *)

\* A goroutine that has drained some channels has seen them closed; an
\* exporter that has ended has drained all of them, or has read its own to
\* the end; the channels are closed after the last page was copied.
ClosedAndEmpty ==
    /\ ~feeding => ~listing /\ item = NoPage
    /\ \A g \in Caller : stage[g] > 1 => ~feeding
    /\ \A g \in Caller : \A c \in Channel : c < stage[g] => chan[c] = <<>>
    /\ \A c \in Channel : place[c] # "working" => page[c] = NoPage
    /\ \A c \in Channel : place[c] = "done" => ~feeding /\ chan[c] = <<>>
    /\ result # "none" => ExportersDone

LEMMA ClosedAndEmptyFeeder ==
    ASSUME TypeOK, ClosedAndEmpty,
           ListPage \/ ListingEnds \/ ListingFails \/ FeederStep
    PROVE  ClosedAndEmpty'
<1> USE FeederAssumption, NoPageAssumption DEF ClosedAndEmpty, ExportersDone
<1>1. CASE ListPage \/ ListingEnds \/ ListingFails
  BY <1>1 DEF ListPage, ListingEnds, ListingFails, feed, exporters, errors
<1>2. CASE Feed
  <2>1. feeding /\ feeding' /\ ~(\E c \in Channel : place[c] = "done")
    BY <1>2 DEF Feed
  <2>2. \A g \in Caller : stage[g] = 1
    BY <2>1, ChannelsAssumption DEF TypeOK
  <2>3. QED
    BY <1>2, <2>1, <2>2 DEF Feed, list, exporters, errors, Channel
<1>3. CASE CloseChannels
  <2>1. \A c \in Channel : place'[c] = place[c]
    BY <1>3 DEF CloseChannels, TypeOK, Channel, Caller
  <2>2. QED
    BY <1>3, <2>1 DEF CloseChannels, list, exporters
<1>4. QED
  BY <1>1, <1>2, <1>3 DEF FeederStep

LEMMA ClosedAndEmptyExporter ==
    ASSUME TypeOK, ClosedAndEmpty,
           NEW c \in Channel, ExporterStep(c) \/ ExportFails(c)
    PROVE  ClosedAndEmpty'
<1> USE DEF ClosedAndEmpty, ExportersDone, TypeOK, Caller
<1>1. CASE Receive(c)
  <2>1. \A d \in Channel : chan[d] = <<>> => chan'[d] = <<>>
    BY <1>1 DEF Receive
  <2>2. QED
    BY <1>1, <2>1 DEF Receive, list, feed, errors
<1>2. CASE ExportPage(c)
  BY <1>2 DEF ExportPage, list, feed, errors
<1>3. CASE ExportFails(c)
  BY <1>3 DEF ExportFails, list, feed
<1>4. CASE ExporterEnds(c)
  BY <1>4 DEF ExporterEnds, list, feed, exporters
<1>5. QED
  BY <1>1, <1>2, <1>3, <1>4 DEF ExporterStep

LEMMA ClosedAndEmptySetErr ==
    ASSUME TypeOK, ClosedAndEmpty, NEW g \in Caller, SetErrStep(g)
    PROVE  ClosedAndEmpty'
<1> USE DEF ClosedAndEmpty, ExportersDone, TypeOK, Caller
<1>1. CASE LockErr(g)
  BY <1>1 DEF LockErr, list, feed, exporters
<1>2. CASE Drain(g)
  <2>1. \A d \in Channel : chan[d] = <<>> => chan'[d] = <<>>
    BY <1>2 DEF Drain
  <2>2. QED
    BY <1>2, <2>1 DEF Drain, list, feed, exporters, errors
<1>3. CASE Drained(g)
  <2>1. \A d \in Channel : d < stage[g] + 1 => d < stage[g] \/ d = stage[g]
    BY DEF Channel
  <2>2. \A d \in Channel : d < stage[g] + 1 => chan[d] = <<>>
    BY <1>3, <2>1 DEF Drained
  <2>3. \A h \in Caller : stage'[h] = IF h = g THEN stage[g] + 1 ELSE stage[h]
    BY <1>3 DEF Drained
  <2>4. QED
    BY <1>3, <2>2, <2>3 DEF Drained, list, feed, exporters
<1>4. CASE UnlockErr(g)
  <2>1. stage[g] \in 1..(Channels + 1) /\ stage[g] > Channels
    BY <1>4 DEF UnlockErr
  <2>2. ~feeding /\ \A d \in Channel : d < stage[g]
    BY <2>1, ChannelsAssumption DEF Channel
  <2>3. QED
    BY <1>4, <2>1, <2>2, ChannelsAssumption
    DEF UnlockErr, list, feed, exporters
<1>5. QED
  BY <1>1, <1>2, <1>3, <1>4 DEF SetErrStep

LEMMA AlwaysClosedAndEmpty == Spec => []ClosedAndEmpty
<1>1. Init => ClosedAndEmpty
  BY DEF Init, ClosedAndEmpty, Channel, Caller
<1>2. TypeOK /\ ClosedAndEmpty /\ [Next]_vars => ClosedAndEmpty'
  <2> SUFFICES ASSUME TypeOK, ClosedAndEmpty, [Next]_vars
               PROVE  ClosedAndEmpty'
    OBVIOUS
  <2>1. CASE Return
    BY <2>1 DEF Return, ClosedAndEmpty, ExportersDone, list, feed, exporters,
                errors
  <2>2. CASE UNCHANGED vars
    BY <2>2 DEF vars, ClosedAndEmpty, ExportersDone, list, feed, exporters,
                errors
  <2>3. QED
    BY <2>1, <2>2, ClosedAndEmptyFeeder, ClosedAndEmptyExporter,
       ClosedAndEmptySetErr
    DEF Next, Idle
<1>3. QED
  BY <1>1, <1>2, TypeCorrect, PTL DEF Spec

\* After the function has returned no goroutine of it sends anything: the
\* sessions can be ended.
THEOREM QuietWhenReturned == Spec => []QuietAfterReturn
<1>1. ClosedAndEmpty => QuietAfterReturn
  <2> SUFFICES ASSUME ClosedAndEmpty, result # "none"
               PROVE  QuietAfterReturn
    BY DEF QuietAfterReturn
  <2>1. \A c \in Channel : place[c] = "done"
    BY DEF ClosedAndEmpty, ExportersDone
  <2>2. 1 \in Channel
    BY ChannelsAssumption DEF Channel
  <2>3. QED
    BY <2>1, <2>2 DEF ClosedAndEmpty, QuietAfterReturn
<1>2. QED
  BY <1>1, AlwaysClosedAndEmpty, PTL

-----------------------------------------------------------------------------
(* No page is lost without an error                                        *)

\* Some goroutine has an error, or has reported it.
Failing ==
    \/ listErr \/ rerr
    \/ \E c \in Channel : place[c] \in {"failed", "draining"}

\* The pages that exporter c is done with, or will come to.
Reaches(c) ==
    exported[c] \cup In(chan[c]) \cup {page[c]}
      \cup (IF next <= c THEN {item} ELSE {})

\* Unless somebody fails every page that was listed reaches every exporter.
NoPageLost ==
    /\ ~listing => listErr \/ listed = Pages
    /\ \A g \in Caller : place[g] = "draining" => rerr
    /\ place[Feeder] = "failed" => listErr
    /\ Failing \/ \A c \in Channel : 1..listed \subseteq Reaches(c)
    /\ result = "ok" => ~rerr \/ listErr

LEMMA NoPageLostFeeder ==
    ASSUME TypeOK, ClosedAndEmpty, NoPageLost,
           ListPage \/ ListingEnds \/ ListingFails \/ FeederStep
    PROVE  NoPageLost'
<1> USE FeederAssumption, NoPageAssumption DEF NoPageLost, Failing
<1>1. CASE ListPage
  <2>1. \A c \in Channel : 1 <= c
    BY DEF Channel
  <2>2. \A c \in Channel : 1..listed \subseteq Reaches(c) =>
                           1..listed' \subseteq Reaches(c)'
    <3> SUFFICES ASSUME NEW c \in Channel, 1..listed \subseteq Reaches(c)
                 PROVE  1..listed' \subseteq Reaches(c)'
      OBVIOUS
    <3>1. listed' = listed + 1 /\ listed \in Nat /\ item = NoPage
          /\ item' = listed + 1 /\ next' = 1
      BY <1>1, PagesAssumption DEF ListPage, TypeOK
    <3>2. 1..listed' = 1..listed \cup {listed + 1}
      BY <3>1
    <3>3. NoPage \notin 1..listed
      OBVIOUS
    <3>4. exported' = exported /\ chan' = chan /\ page' = page
      BY <1>1 DEF ListPage, exporters
    <3>5. 1..listed \subseteq exported[c] \cup In(chan[c]) \cup {page[c]}
      BY <3>1, <3>3 DEF Reaches
    <3>6. listed + 1 \in Reaches(c)'
      BY <2>1, <3>1 DEF Reaches
    <3>7. QED
      BY <3>2, <3>4, <3>5, <3>6 DEF Reaches
  <2>3. QED
    BY <1>1, <2>2 DEF ListPage, errors
<1>2. CASE ListingEnds \/ ListingFails
  BY <1>2 DEF ListingEnds, ListingFails, feed, exporters, errors, Reaches
<1>3. CASE Feed
  <2>1. \A c \in Channel : Reaches(c) \subseteq Reaches(c)' \cup {NoPage}
    <3> SUFFICES ASSUME NEW c \in Channel
                 PROVE  Reaches(c) \subseteq Reaches(c)' \cup {NoPage}
      OBVIOUS
    <3>1. item \in Page /\ next \in Channel /\ chan[next] \in Seq(Page)
          /\ next' = next + 1
      BY <1>3 DEF Feed, TypeOK
    <3>2. In(Append(chan[next], item)) = In(chan[next]) \cup {item}
      BY <3>1, InAppend
    <3>3. exported' = exported /\ page' = page
      BY <1>3 DEF Feed, exporters
    <3>4. CASE c = next
      <4>1. chan'[c] = Append(chan[next], item)
        BY <1>3, <3>1, <3>4 DEF Feed, TypeOK
      <4>2. QED
        BY <3>2, <3>3, <3>4, <4>1 DEF Reaches
    <3>5. CASE c # next
      <4>1. chan'[c] = chan[c]
        BY <1>3, <3>1, <3>5 DEF Feed, TypeOK
      <4>2. next <= c => next' <= c /\ item' = item
        BY <1>3, <3>1, <3>5 DEF Feed, Channel
      <4>3. QED
        BY <3>3, <4>1, <4>2 DEF Reaches
    <3>6. QED
      BY <3>4, <3>5
  <2>2. NoPage \notin 1..listed
    OBVIOUS
  <2>3. QED
    BY <1>3, <2>1, <2>2 DEF Feed, list, errors
<1>4. CASE CloseChannels
  <2>1. \A c \in Channel : place'[c] = place[c]
    BY <1>4 DEF CloseChannels, TypeOK, Channel, Caller
  <2>2. \A c \in Channel : Reaches(c)' = Reaches(c)
    BY <1>4 DEF CloseChannels, exporters, Reaches
  <2>3. place'[Feeder] = (IF listErr THEN "failed" ELSE "done")
    BY <1>4 DEF CloseChannels, TypeOK, Caller
  <2>4. listed' = listed /\ listing' = listing /\ listErr' = listErr
        /\ rerr' = rerr /\ result' = result
    BY <1>4 DEF CloseChannels, list
  <2>5. \A g \in Caller : place'[g] = "draining" => place[g] = "draining"
    BY <2>1, <2>3 DEF Caller
  <2>6. QED
    BY <2>1, <2>2, <2>3, <2>4, <2>5
<1>5. QED
  BY <1>1, <1>2, <1>3, <1>4 DEF FeederStep

LEMMA NoPageLostExporter ==
    ASSUME TypeOK, ClosedAndEmpty, NoPageLost,
           NEW c \in Channel, ExporterStep(c) \/ ExportFails(c)
    PROVE  NoPageLost'
<1> USE FeederAssumption, NoPageAssumption DEF NoPageLost, Failing
<1>1. c \in Caller /\ c # Feeder /\ Feeder \in Caller
  BY DEF Caller, Channel
<1>2. CASE Receive(c)
  <2>1. \A d \in Channel : Reaches(d) \subseteq Reaches(d)' \cup {NoPage}
    <3> SUFFICES ASSUME NEW d \in Channel
                 PROVE  Reaches(d) \subseteq Reaches(d)' \cup {NoPage}
      OBVIOUS
    <3>1. chan[c] \in Seq(Page) /\ chan[c] # <<>> /\ page[c] = NoPage
      BY <1>2 DEF Receive, TypeOK
    <3>2. In(chan[c]) = {Head(chan[c])} \cup In(Tail(chan[c]))
      BY <3>1, InTail
    <3>3. exported' = exported /\ item' = item /\ next' = next
      BY <1>2 DEF Receive, feed
    <3>4. chan'[c] = Tail(chan[c]) /\ page'[c] = Head(chan[c])
      BY <1>2 DEF Receive, TypeOK
    <3>5. d # c => chan'[d] = chan[d] /\ page'[d] = page[d]
      BY <1>2 DEF Receive, TypeOK
    <3>6. CASE d = c
      BY <3>1, <3>2, <3>3, <3>4, <3>6 DEF Reaches
    <3>7. CASE d # c
      BY <3>3, <3>5, <3>7 DEF Reaches
    <3>8. QED
      BY <3>6, <3>7
  <2>2. NoPage \notin 1..listed
    OBVIOUS
  <2>3. QED
    BY <1>2, <2>1, <2>2 DEF Receive, list, errors
<1>3. CASE ExportPage(c)
  <2>1. \A d \in Channel : Reaches(d) \subseteq Reaches(d)'
    BY <1>3 DEF ExportPage, Reaches, TypeOK, feed
  <2>2. QED
    BY <1>3, <2>1 DEF ExportPage, list, errors
<1>4. CASE ExportFails(c)
  <2>1. place'[c] = "failed" /\ \A g \in Caller \ {c} : place'[g] = place[g]
    BY <1>1, <1>4 DEF ExportFails, TypeOK
  <2>2. QED
    BY <1>1, <1>4, <2>1 DEF ExportFails, list
<1>5. CASE ExporterEnds(c)
  <2>1. place'[c] = "done" /\ place[c] = "working"
        /\ \A g \in Caller \ {c} : place'[g] = place[g]
    BY <1>1, <1>5 DEF ExporterEnds, TypeOK
  <2>2. \A d \in Channel : Reaches(d)' = Reaches(d)
    BY <1>5 DEF ExporterEnds, feed, exporters, Reaches
  <2>3. \A d \in Channel : d \in Caller
    BY DEF Caller
  <2>4. Failing => Failing'
    BY <1>5, <2>1, <2>3 DEF ExporterEnds, list
  <2>5. QED
    BY <1>1, <1>5, <2>1, <2>2, <2>4 DEF ExporterEnds, list
<1>6. QED
  BY <1>2, <1>3, <1>4, <1>5 DEF ExporterStep

LEMMA NoPageLostSetErr ==
    ASSUME TypeOK, ClosedAndEmpty, NoPageLost,
           NEW g \in Caller, SetErrStep(g)
    PROVE  NoPageLost'
<1> USE FeederAssumption DEF NoPageLost
<1>1. CASE LockErr(g)
  <2>1. result = "ok" => listErr
    BY <1>1 DEF LockErr, ClosedAndEmpty, ExportersDone, Caller
  <2>2. rerr' /\ place' = [place EXCEPT ![g] = "draining"]
    BY <1>1 DEF LockErr
  <2>3. place'[Feeder] = "failed" => place[Feeder] = "failed"
    BY <2>2 DEF TypeOK, Caller
  <2>4. QED
    BY <1>1, <2>1, <2>2, <2>3 DEF LockErr, list, Failing
<1>2. CASE Drain(g)
  <2>1. rerr /\ rerr'
    BY <1>2 DEF Drain, errors
  <2>2. QED
    BY <1>2, <2>1 DEF Drain, list, errors, Failing
<1>3. CASE Drained(g)
  BY <1>3 DEF Drained, list, feed, exporters, Failing, Reaches
<1>4. CASE UnlockErr(g)
  <2>1. rerr /\ rerr' /\ \A h \in Caller \ {g} : place'[h] = place[h]
    BY <1>4 DEF UnlockErr, TypeOK
  <2>2. place'[g] = "done" /\ Feeder \in Caller
    BY <1>4 DEF UnlockErr, TypeOK, Caller
  <2>3. QED
    BY <1>4, <2>1, <2>2 DEF UnlockErr, list, Failing
<1>5. QED
  BY <1>1, <1>2, <1>3, <1>4 DEF SetErrStep

LEMMA AlwaysNoPageLost == Spec => []NoPageLost
<1>1. Init => NoPageLost
  <2> SUFFICES ASSUME Init PROVE NoPageLost
    OBVIOUS
  <2>1. 1..listed = {}
    BY DEF Init
  <2>2. QED
    BY <2>1 DEF Init, NoPageLost, Caller
<1>2. TypeOK /\ ClosedAndEmpty /\ NoPageLost /\ [Next]_vars => NoPageLost'
  <2> SUFFICES ASSUME TypeOK, ClosedAndEmpty, NoPageLost, [Next]_vars
               PROVE  NoPageLost'
    OBVIOUS
  <2>1. CASE Return
    BY <2>1 DEF Return, NoPageLost, Failing, Reaches, list, feed, exporters,
                errors
  <2>2. CASE UNCHANGED vars
    BY <2>2 DEF vars, NoPageLost, Failing, Reaches, list, feed, exporters,
                errors
  <2>3. QED
    BY <2>1, <2>2, NoPageLostFeeder, NoPageLostExporter, NoPageLostSetErr
    DEF Next, Idle
<1>3. QED
  BY <1>1, <1>2, TypeCorrect, AlwaysClosedAndEmpty, PTL DEF Spec

\* A page that an exporter misses is an error of the function, unless it is
\* the listing that failed.
THEOREM MissedMeansError == Spec => []OkMeansExported
<1>1. TypeOK /\ ClosedAndEmpty /\ NoPageLost => OkMeansExported
  <2> SUFFICES ASSUME TypeOK, ClosedAndEmpty, NoPageLost,
                      result = "ok", ~listErr, NEW c \in Channel
               PROVE  exported[c] = Page
    BY DEF OkMeansExported
  <2>1. \A d \in Channel : place[d] = "done"
    BY DEF ClosedAndEmpty, ExportersDone
  <2>2. ~Failing
    BY <2>1 DEF Failing, NoPageLost
  <2>3. ~listing /\ item = NoPage /\ chan[c] = <<>> /\ page[c] = NoPage
    BY <2>1 DEF ClosedAndEmpty
  <2>4. Page \subseteq Reaches(c)
    BY <2>2, <2>3 DEF NoPageLost, Page
  <2>5. Page \subseteq exported[c]
    BY <2>3, <2>4, InEmpty, NoPageAssumption DEF Reaches, Page
  <2>6. QED
    BY <2>5 DEF TypeOK
<1>2. QED
  BY <1>1, TypeCorrect, AlwaysClosedAndEmpty, AlwaysNoPageLost, PTL

-----------------------------------------------------------------------------
(* Room for all pages                                                      *)

\* The pages that the feeder has sent to channel c.
SentTo(c) == IF item # NoPage /\ next <= c THEN listed - 1 ELSE listed

\* The page that exporter c has taken out: it works on it, or has failed on it.
TakenOut(c) == IF page[c] # NoPage \/ place[c] \in {"failed", "draining"} THEN 1 ELSE 0

\* An exporter that has failed has taken out a page that no drain has.
Counted ==
    /\ item # NoPage => listed > 0
    /\ \A c \in Channel : Len(chan[c]) + TakenOut(c) <= SentTo(c)

\* Nothing is sent, and the exporters have no more than before.
LEMMA CountedKept ==
    ASSUME TypeOK, Counted, UNCHANGED <<listed, item, next>>,
           \A c \in Channel :
               Len(chan[c])' + TakenOut(c)' <= Len(chan[c]) + TakenOut(c),
           TypeOK'
    PROVE  Counted'
<1> SUFFICES ASSUME NEW c \in Channel
             PROVE  Len(chan[c])' + TakenOut(c)' <= SentTo(c)'
  BY DEF Counted
<1>1. SentTo(c)' = SentTo(c) /\ SentTo(c) \in Nat
  BY PagesAssumption DEF SentTo, TypeOK, Counted
<1>2. Len(chan[c]) \in Nat /\ TakenOut(c) \in {0, 1}
      /\ Len(chan[c])' \in Nat /\ TakenOut(c)' \in {0, 1}
  BY DEF TypeOK, TakenOut
<1>3. QED
  BY <1>1, <1>2 DEF Counted

LEMMA CountedFeeder ==
    ASSUME TypeOK, TypeOK', Counted,
           ListPage \/ ListingEnds \/ ListingFails \/ FeederStep
    PROVE  Counted'
<1> USE FeederAssumption, NoPageAssumption
<1>1. CASE ListPage
  <2>1. /\ item = NoPage /\ item' = listed + 1 /\ listed' = listed + 1 /\ listed \in Nat
        /\ next' = 1 /\ chan' = chan /\ page' = page /\ place' = place
    BY <1>1, PagesAssumption DEF ListPage, TypeOK, exporters, errors
  <2>2. ASSUME NEW c \in Channel
        PROVE  Len(chan[c])' + TakenOut(c)' <= SentTo(c)'
    <3>1. SentTo(c) = listed /\ SentTo(c)' = listed
      BY <2>1 DEF SentTo, Channel
    <3>2. TakenOut(c)' = TakenOut(c)
      BY <2>1 DEF TakenOut
    <3>3. QED
      BY <2>1, <3>1, <3>2 DEF Counted
  <2>3. QED
    BY <2>1, <2>2 DEF Counted
<1>2. CASE ListingEnds \/ ListingFails
  BY <1>2 DEF ListingEnds, ListingFails, feed, exporters, errors, Counted, SentTo, TakenOut
<1>3. CASE Feed
  <2>1. /\ item \in Page /\ next \in Channel /\ chan[next] \in Seq(Page)
        /\ listed' = listed /\ listed \in Nat /\ page' = page /\ place' = place
    BY <1>3, PagesAssumption DEF Feed, TypeOK, list, exporters, errors
  <2>2. Len(Append(chan[next], item)) = Len(chan[next]) + 1
    BY <2>1
  <2>3. \A c \in Channel :
            chan'[c] = IF c = next THEN Append(chan[next], item) ELSE chan[c]
    BY <1>3, <2>1 DEF Feed, TypeOK
  <2>4. ASSUME NEW c \in Channel
        PROVE  Len(chan[c])' + TakenOut(c)' <= SentTo(c)'
    <3>1. TakenOut(c)' = TakenOut(c) /\ TakenOut(c) \in {0, 1}
      BY <2>1 DEF TakenOut
    <3>2. Len(chan[c]) + TakenOut(c) <= SentTo(c) /\ Len(chan[c]) \in Nat
      BY DEF Counted, TypeOK
    <3>3. CASE c = next
      <4>1. SentTo(c) = listed - 1
        BY <1>3, <3>3, <2>1 DEF SentTo, Feed, Channel
      <4>2. SentTo(c)' = listed
        BY <1>3, <3>3, <2>1 DEF SentTo, Feed, Channel
      <4>3. Len(chan'[c]) = Len(chan[c]) + 1
        BY <2>2, <2>3, <3>3
      <4>4. Len(chan[c]) + TakenOut(c) <= listed - 1
        BY <3>2, <4>1
      <4>5. QED
        BY <2>1, <3>1, <3>2, <4>2, <4>3, <4>4
    <3>4. CASE c # next
      <4>1. SentTo(c)' = SentTo(c)
        BY <1>3, <3>4, <2>1, ChannelsAssumption DEF SentTo, Feed, Channel
      <4>2. QED
        BY <2>3, <3>1, <3>2, <3>4, <4>1
    <3>5. QED
      BY <3>3, <3>4
  <2>5. item' # NoPage => listed' > 0
    BY <1>3, <2>1 DEF Feed, Counted
  <2>6. QED
    BY <2>4, <2>5 DEF Counted
<1>4. CASE CloseChannels
  <2>1. \A c \in Channel : place'[c] = place[c]
    BY <1>4 DEF CloseChannels, TypeOK, Channel, Caller
  <2>2. QED
    BY <1>4, <2>1 DEF CloseChannels, list, exporters, Counted, SentTo, TakenOut
<1>5. QED
  BY <1>1, <1>2, <1>3, <1>4 DEF FeederStep

LEMMA CountedExporter ==
    ASSUME TypeOK, TypeOK', Counted, NEW c \in Channel, ExporterStep(c) \/ ExportFails(c)
    PROVE  Counted'
<1>1. UNCHANGED <<listed, item, next>>
  BY DEF ExporterStep, Receive, ExportPage, ExportFails, ExporterEnds, list, feed
<1>2. ASSUME NEW d \in Channel
      PROVE  Len(chan[d])' + TakenOut(d)' <= Len(chan[d]) + TakenOut(d)
  <2>1. chan[c] \in Seq(Page) /\ Len(chan[d]) \in Nat /\ c \in Caller /\ d \in Caller
    BY DEF TypeOK, Caller
  <2>2. CASE Receive(c)
    <3>1. Len(Tail(chan[c])) = Len(chan[c]) - 1
      BY <2>1, <2>2 DEF Receive
    <3>2. CASE d = c
      BY <2>1, <2>2, <3>1, <3>2, NoPageAssumption DEF Receive, TakenOut, TypeOK, errors
    <3>3. CASE d # c
      BY <2>1, <2>2, <3>3 DEF Receive, TakenOut, TypeOK, errors
    <3>4. QED
      BY <3>2, <3>3
  <2>3. CASE ExportPage(c)
    BY <2>1, <2>3 DEF ExportPage, TakenOut, TypeOK, errors
  <2>4. CASE ExportFails(c)
    BY <2>1, <2>4 DEF ExportFails, TakenOut, TypeOK
  <2>5. CASE ExporterEnds(c)
    BY <2>1, <2>5 DEF ExporterEnds, TakenOut, TypeOK, exporters
  <2>6. QED
    BY <2>2, <2>3, <2>4, <2>5 DEF ExporterStep
<1>3. QED
  BY <1>1, <1>2, CountedKept

LEMMA CountedSetErr ==
    ASSUME TypeOK, TypeOK', Counted, NEW g \in Caller, SetErrStep(g)
    PROVE  Counted'
<1>1. UNCHANGED <<listed, item, next>>
  BY DEF SetErrStep, LockErr, Drain, Drained, UnlockErr, list, feed
<1>2. ASSUME NEW d \in Channel
      PROVE  Len(chan[d])' + TakenOut(d)' <= Len(chan[d]) + TakenOut(d)
  <2>1. chan[d] \in Seq(Page) /\ Len(chan[d]) \in Nat /\ d \in Caller
    BY DEF TypeOK, Caller
  <2>2. CASE LockErr(g)
    BY <2>1, <2>2 DEF LockErr, TakenOut, TypeOK, exporters
  <2>3. CASE Drain(g)
    <3>1. CASE d = stage[g]
      BY <2>1, <2>3, <3>1 DEF Drain, TakenOut, TypeOK, exporters, errors
    <3>2. CASE d # stage[g]
      BY <2>1, <2>3, <3>2 DEF Drain, TakenOut, TypeOK, exporters, errors
    <3>3. QED
      BY <3>1, <3>2
  <2>4. CASE Drained(g)
    BY <2>1, <2>4 DEF Drained, TakenOut, exporters
  <2>5. CASE UnlockErr(g)
    BY <2>1, <2>5 DEF UnlockErr, TakenOut, TypeOK, exporters
  <2>6. QED
    BY <2>2, <2>3, <2>4, <2>5 DEF SetErrStep
<1>3. QED
  BY <1>1, <1>2, CountedKept

LEMMA AlwaysCounted == Spec => []Counted
<1>1. Init => Counted
  BY DEF Init, Counted, SentTo, TakenOut, Caller
<1>2. TypeOK /\ TypeOK' /\ Counted /\ [Next]_vars => Counted'
  <2> SUFFICES ASSUME TypeOK, TypeOK', Counted, [Next]_vars
               PROVE  Counted'
    OBVIOUS
  <2>1. CASE Return \/ UNCHANGED vars
    BY <2>1 DEF Return, vars, list, feed, exporters, errors, Counted, SentTo, TakenOut
  <2>2. QED
    BY <2>1, CountedFeeder, CountedExporter, CountedSetErr DEF Next, Idle
<1>3. QED
  BY <1>1, <1>2, TypeCorrect, PTL DEF Spec

\* With no more pages than a channel has room for, and one that an exporter has taken
\* out, the function is never stuck, whichever requests fail: a channel that nobody reads
\* has room for what is left.
THEOREM EnoughRoom ==
    ASSUME Pages <= Capacity + 1
    PROVE  Spec => []~Blocked
<1>1. TypeOK /\ ClosedAndEmpty /\ Counted => ~Blocked
  <2> SUFFICES ASSUME TypeOK, ClosedAndEmpty, Counted, Blocked
               PROVE  FALSE
    OBVIOUS
  <2>1. next \in Channel /\ item # NoPage /\ next \in Caller
    BY DEF Blocked, TypeOK, Caller
  <2>2. place[next] \in {"failed", "draining"}
    BY <2>1 DEF Blocked, TypeOK, ClosedAndEmpty
  <2>3. TakenOut(next) = 1 /\ SentTo(next) = listed - 1
    BY <2>1, <2>2 DEF TakenOut, SentTo, Channel
  <2>4. Capacity + 1 <= listed - 1
    BY <2>1, <2>3 DEF Counted, Blocked
  <2>5. QED
    BY <2>4, CapacityAssumption, PagesAssumption DEF TypeOK
<1>2. QED
  BY <1>1, TypeCorrect, AlwaysClosedAndEmpty, AlwaysCounted, PTL
=============================================================================
