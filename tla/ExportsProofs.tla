---------------------------- MODULE ExportsProofs ---------------------------
(***************************************************************************)
(* Proofs about what an export consists of.  A listing, for any set of     *)
(* listings that are Sound, any number of objects, size of pages, lengths  *)
(* of time and faults: no change falls between two checkpoints.  The       *)
(* Export of an integration, for any plans that settle and any number of   *)
(* failures: it leaves no session and no gap, and nothing of it runs on.   *)
(* A request for an export, for any requests and any number of failures:   *)
(* it is answered once per attempt that was not interrupted, and with      *)
(* success only after its upload, and what is started for it is what was   *)
(* asked for.  The commits of a repo, for any number of them and of pull   *)
(* requests: from export to export each is sent once, and what is said of  *)
(* a branch is what its definition says.                                   *)
(***************************************************************************)
EXTENDS MCExports, RepoState, FiniteSetTheorems, WellFoundedInduction, TLAPS

\* The listings that NothingMissed is about and for which there is something to show.
Exact == Reliable /\ listing.since # "nothing"

\* The next export lists the object again, for it has changed after this one began.
Later(o) == IF listing.since = "after" THEN stamp[o] > start ELSE stamp[o] >= start

\* The object is in a page that is still to be fetched.
ToCome(o) ==
    /\ pc = "listing"
    /\ listing.pages = "cursor" => cursor = NoPlace \/ Before(cursor, Place(o))
    /\ listing.pages = "offset" => Rank(o) >= offset
    /\ listing.pages = "ids" => o \in ids

\* Times and checkpoints do not run ahead of the dates that updates get.
Times ==
    /\ \A o \in deleted : stamp[o] # 0
    /\ pc = "idle" => start = 0 /\ cursor = NoPlace /\ offset = 0 /\ ids = {}
    /\ Exact =>
         /\ lp <= second /\ start <= second
         /\ \A o \in Objects : stamp[o] <= (IF listing.dates = "exact" THEN clock ELSE second)

\* No version that was not sent is lost: the next export has it if this one fails, and if
\* it ends, the one after it, unless it is part of this one.
Unsent ==
    Exact => \A o \in unsent :
        /\ Exists(o) /\ Taken(o)
        /\ pc # "idle" => Later(o) \/ o \in collected \/ ToCome(o)

IInv == TypeOK /\ Times /\ Unsent

----------------------------------------------------------------------------
(* The listing's rules, and the order of places. *)

LEMMA TheListing ==
    ASSUME listing \in Listings
    PROVE  listing \in ListingType /\ Sound(listing)
BY ListingsAssumption, SoundAssumption

LEMMA ExactListing ==
    ASSUME listing \in Listings, Exact
    PROVE  /\ listing.since \in {"stops", "skips", "from", "after"}
           /\ listing.dates \in {"exact", "seconds"}
           /\ listing.pages \in {"cursor", "offset", "ids", "one"}
           /\ listing.since = "after" => listing.dates = "exact"
           /\ listing.since = "stops" => listing.next = "updatedDown"
           /\ listing.pages = "offset" => Order # "updatedUp"
           /\ Order \in {"updatedUp", "updatedDown", "createdUp", "createdDown"}
           /\ listing.shift \in Int /\ listing.shift <= 0
           /\ ~ lost
BY TheListing DEF Exact, Reliable, ListingType, Sound, Order, Orders

\* A date that the service reads as an earlier one than the checkpoint leaves nothing out.
LEMMA TakenStamp ==
    ASSUME listing \in Listings, Exact, lp \in Nat, NEW o, stamp[o] \in Nat
    PROVE  /\ lp = 0 \/ (IF listing.since = "after" THEN stamp[o] > lp ELSE stamp[o] >= lp)
                => Taken(o)
           /\ listing.since = "stops" => (Taken(o) <=> lp = 0 \/ stamp[o] >= lp)
<1>1. /\ listing.since \in {"stops", "skips", "from", "after"}
      /\ listing.shift \in Int /\ listing.shift <= 0
  BY ExactListing
<1>2. AskedFor <= lp /\ AskedFor \in Int
  BY <1>1 DEF AskedFor
<1> QED
  BY <1>1, <1>2 DEF Taken

LEMMA Numbers ==
    /\ NObjects \in Nat /\ PageSize \in Nat /\ PageSize > 0
    /\ Minute \in Nat /\ Minute > 0 /\ MaxClock \in Nat /\ MaxFaults \in Nat
BY NumbersAssumption

LEMMA PlaceType ==
    ASSUME TypeOK, NEW o \in Objects
    PROVE  /\ Place(o) \in Nat \X Nat
           /\ Place(o)[2] = o /\ o \in Nat
           /\ Place(o)[1] = (IF Order \in {"updatedUp", "updatedDown"} THEN stamp[o] ELSE 0)
<1>1. stamp[o] \in Nat /\ o \in Nat
  BY Numbers DEF TypeOK, Objects
<1> QED
  BY <1>1 DEF Place

LEMMA BeforeOrder ==
    ASSUME NEW a \in Nat \X Nat, NEW b \in Nat \X Nat, NEW c \in Nat \X Nat
    PROVE  /\ Before(a, b) /\ Before(b, c) => Before(a, c)
           /\ ~ Before(a, a)
           /\ a[2] # b[2] => Before(a, b) \/ Before(b, a)
BY DEF Before, Less

\* The rank is a number, and does not fall when the objects before one become more.
LEMMA AnswerFinite ==
    IsFiniteSet(Objects) /\ IsFiniteSet(Answer) /\ Answer \subseteq Objects
<1>1. IsFiniteSet(Objects)
  BY Numbers, FS_Interval DEF Objects
<1>2. Answer \subseteq Objects
  BY DEF Answer
<1> QED
  BY <1>1, <1>2, FS_Subset

LEMMA RankGrows ==
    ASSUME NEW o,
           \A p \in Answer : Before(Place(p), Place(o)) =>
               p \in Answer' /\ (Before(Place(p), Place(o)))'
    PROVE  Rank(o) \in Nat /\ Rank(o)' \in Nat /\ Rank(o)' >= Rank(o)
<1> DEFINE S == {p \in Answer : Before(Place(p), Place(o))}
           T == {p \in Answer' : (Before(Place(p), Place(o)))'}
<1>1. IsFiniteSet(S) /\ S \subseteq T
  BY AnswerFinite, FS_Subset
<1>2. IsFiniteSet(T)
  <2>1. Answer' \subseteq Objects
    BY DEF Answer, Objects
  <2> QED
    BY <2>1, AnswerFinite, FS_Subset
<1>3. Cardinality(S) \in Nat /\ Cardinality(T) \in Nat /\ Cardinality(S) <= Cardinality(T)
  BY <1>1, <1>2, FS_Subset, FS_CardinalityType
<1> QED
  BY <1>3 DEF Rank

----------------------------------------------------------------------------
(* Changes of the service. *)

LEMMA ChangeEffect ==
    ASSUME IInv, Change, NEW d \in Dates(clock', second')
    PROVE  /\ clock' = clock + 1 /\ clock \in Nat /\ clock' \in Nat
           /\ second' \in 1 .. clock' /\ second' >= second /\ second \in Nat /\ second <= clock
           /\ d \in 1 .. clock'
           /\ Exact => IF listing.dates = "exact" THEN d = clock' ELSE d = second'
<1>1. /\ clock \in Nat /\ second \in 1 .. clock /\ clock' = clock + 1
      /\ second' = clock + 1 \/ second' = second
  BY DEF IInv, TypeOK, Change
<1>2. second' \in 1 .. clock' /\ second' >= second
  BY <1>1
<1>3. d \in 1 .. clock' /\ (listing.dates # "given" =>
         IF listing.dates = "exact" THEN d = clock' ELSE d = second')
  <2>1. CASE listing.dates = "given"
    BY <2>1 DEF Dates
  <2>2. CASE listing.dates # "given"
    <3>1. d = IF listing.dates = "exact" THEN clock' ELSE second'
      BY <2>2 DEF Dates
    <3> QED
      BY <1>1, <1>2, <3>1
  <2> QED
    BY <2>1, <2>2
<1>4. Exact => listing.dates # "given"
  BY DEF Exact, Reliable
<1> QED
  BY <1>1, <1>2, <1>3, <1>4

\* An object that is created or updated will be listed by the export that comes after the
\* one under way, and moves none of the others towards what was fetched already.
LEMMA ChangedKept ==
    ASSUME IInv, Change, NEW o \in Objects, NEW d \in Dates(clock', second'),
           stamp' = [stamp EXCEPT ![o] = d], stamp[o] = 0 \/ Exists(o),
           unsent' = unsent \cup {o},
           collected' = collected \/ collected' = collected \ {o},
           UNCHANGED <<listing, deleted, lp, pc, start, pages, errors, lost>>
    PROVE  IInv'
<1>1. /\ clock' = clock + 1 /\ clock \in Nat /\ clock' \in Nat
      /\ second' \in 1 .. clock' /\ second' >= second /\ second \in Nat /\ second <= clock
      /\ d \in 1 .. clock'
      /\ Exact => IF listing.dates = "exact" THEN d = clock' ELSE d = second'
  BY ChangeEffect
<1>2. /\ TypeOK /\ UNCHANGED <<cursor, offset, ids>>
      /\ stamp \in [Objects -> 0 .. clock] /\ lp \in 0 .. clock /\ start \in 0 .. clock
      /\ listing \in Listings
  BY DEF IInv, TypeOK, pages
<1>3. /\ stamp'[o] = d /\ \A v \in Objects : v # o => stamp'[v] = stamp[v]
      /\ stamp' \in [Objects -> 0 .. clock']
  <2>1. \A v \in Objects : stamp[v] \in 0 .. clock'
    BY <1>1, <1>2
  <2> QED
    BY <1>1, <1>2, <2>1
<1>4. TypeOK'
  <2>1. lp' \in 0 .. clock' /\ start' \in 0 .. clock'
    BY <1>1, <1>2
  <2>2. clock' \in Nat /\ second' \in 1 .. clock'
    BY <1>1
  <2> QED
    BY <1>2, <1>3, <2>1, <2>2 DEF TypeOK
<1>5. Exact' <=> Exact
  BY DEF Exact, Reliable
<1>6. \A v \in deleted : v # o
  BY DEF IInv, Times, Exists
<1>7. Times'
  <2>1. \A v \in deleted' : stamp'[v] # 0
    BY <1>2, <1>3, <1>6 DEF IInv, Times, TypeOK
  <2>2. pc' = "idle" => start' = 0 /\ cursor' = NoPlace /\ offset' = 0 /\ ids' = {}
    BY <1>2 DEF IInv, Times
  <2>3. ASSUME Exact
        PROVE  /\ lp' <= second' /\ start' <= second'
               /\ \A v \in Objects :
                    stamp'[v] <= (IF listing'.dates = "exact" THEN clock' ELSE second')
    <3>1. /\ lp <= second /\ start <= second
          /\ \A v \in Objects : stamp[v] <= (IF listing.dates = "exact" THEN clock ELSE second)
      BY <2>3 DEF IInv, Times
    <3>2. lp' <= second' /\ start' <= second'
      BY <1>1, <1>2, <3>1
    <3>3. ASSUME NEW v \in Objects
          PROVE  stamp'[v] <= (IF listing.dates = "exact" THEN clock' ELSE second')
      <4>1. CASE v = o
        BY <1>1, <1>3, <2>3, <4>1
      <4>2. CASE v # o
        <5>1. stamp'[v] = stamp[v] /\ stamp[v] \in Nat
          BY <1>2, <1>3, <4>2
        <5> QED
          BY <1>1, <3>1, <5>1
      <4> QED
        BY <4>1, <4>2
    <3> QED
      BY <3>2, <3>3
  <2> QED
    BY <1>5, <2>1, <2>2, <2>3 DEF Times
<1>8. Unsent'
  <2> SUFFICES ASSUME Exact, Exact', NEW v \in unsent \cup {o}
               PROVE  /\ Exists(v)' /\ Taken(v)'
                      /\ pc # "idle" => Later(v)' \/ v \in collected' \/ ToCome(v)'
    BY <1>5 DEF Unsent
  <2>0. /\ lp <= second /\ start <= second /\ lp \in Nat /\ start \in Nat /\ v \in Objects
        /\ \A u \in Objects : stamp[u] <= (IF listing.dates = "exact" THEN clock ELSE second)
        /\ listing.since = "after" => listing.dates = "exact"
    BY <1>2, ExactListing DEF IInv, Times, TypeOK
  <2>1. /\ Exists(o)' /\ Taken(o)' /\ Later(o)' /\ stamp[o] \in Nat /\ d >= stamp[o]
    <3>1. stamp[o] \in Nat /\ d >= stamp[o]
      BY <1>1, <1>2, <2>0
    <3>2. Exists(o)'
      BY <1>1, <1>3, <1>6 DEF Exists
    <3>3. IF listing.since = "after" THEN d > lp /\ d > start ELSE d >= lp /\ d >= start
      BY <1>1, <2>0
    <3>4. Later(o)'
      BY <1>3, <3>3 DEF Later
    <3>5. Taken(o)'
      <4>1. /\ listing.since \in {"stops", "skips", "from", "after"}
            /\ listing.shift \in Int /\ listing.shift <= 0
        BY <1>2, ExactListing
      <4>2. AskedFor' <= lp /\ AskedFor' \in Int /\ d \in Nat
        BY <1>1, <2>0, <4>1 DEF AskedFor
      <4> QED
        BY <1>3, <2>0, <3>3, <4>1, <4>2 DEF Taken
    <3> QED
      BY <3>1, <3>2, <3>4, <3>5
  <2>2. ASSUME NEW u \in Objects, u # o
        PROVE  /\ Exists(u)' = Exists(u) /\ Taken(u)' = Taken(u) /\ Later(u)' = Later(u)
               /\ Place(u)' = Place(u)
    <3>1. stamp'[u] = stamp[u] /\ listing' = listing /\ lp' = lp /\ start' = start
      BY <1>3, <2>2
    <3>2. listing.since # "window"
      BY DEF Exact, Reliable
    <3> QED
      BY <3>1, <3>2 DEF Exists, Taken, AskedFor, Later, Place, Order
  <2>3. CASE v = o
    BY <2>1, <2>3
  <2>4. CASE v # o
    <3>1. /\ Exists(v) /\ Taken(v)
          /\ pc # "idle" => Later(v) \/ v \in collected \/ ToCome(v)
      BY <2>4 DEF IInv, Unsent
    <3>2. ASSUME ToCome(v) PROVE ToCome(v)'
      <4>1. Before(cursor, Place(v))' = Before(cursor, Place(v))
        BY <1>2, <2>0, <2>2, <2>4 DEF Before, Down, Order
      <4>2. ASSUME listing.pages = "offset" PROVE Rank(v)' >= offset
        <5>1. ASSUME NEW p \in Answer, Before(Place(p), Place(v))
              PROVE  p \in Answer' /\ (Before(Place(p), Place(v)))'
          <6>0. p \in Objects /\ Place(v)' = Place(v) /\ Order' = Order /\ (Down' <=> Down)
            BY <2>0, <2>2, <2>4 DEF Answer, Order, Down
          <6>1. CASE p # o
            <7>1. p \in Answer'
              BY <2>2, <6>0, <6>1 DEF Answer, Objects
            <7>2. Place(p)' = Place(p)
              BY <2>2, <6>0, <6>1
            <7> QED
              BY <5>1, <6>0, <7>1, <7>2 DEF Before
          <6>2. CASE p = o
            <7>1. p \in Answer'
              BY <2>1, <6>0, <6>2 DEF Answer, Objects
            <7>2. /\ Order \in {"updatedDown", "createdUp", "createdDown"}
              BY <1>2, <4>2, ExactListing
            <7>3. CASE Order = "updatedDown"
              <8>1. /\ Place(o) = <<stamp[o], o>> /\ Place(o)' = <<d, o>>
                    /\ Place(v) = <<stamp[v], v>> /\ stamp[v] \in Nat /\ v \in Nat /\ o \in Nat
                BY <1>2, <1>3, <2>0, <6>0, <7>3, Numbers DEF Place, Objects
              <8>2. Less(Place(v), Place(o))
                BY <5>1, <6>2, <7>3 DEF Before, Down
              <8>3. d \in Nat /\ d >= stamp[o] /\ stamp[o] \in Nat
                BY <1>1, <2>1
              <8>4. Less(Place(v), Place(o)')
                BY <8>1, <8>2, <8>3 DEF Less
              <8> QED
                BY <6>0, <6>2, <7>1, <7>3, <8>4 DEF Before, Down
            <7>4. CASE Order # "updatedDown"
              <8>1. Place(o)' = Place(o)
                BY <6>0, <7>2, <7>4 DEF Place
              <8> QED
                BY <5>1, <6>0, <6>2, <7>1, <8>1 DEF Before
            <7> QED
              BY <7>3, <7>4
          <6> QED
            BY <6>1, <6>2
        <5>2. Rank(v) \in Nat /\ Rank(v)' \in Nat /\ Rank(v)' >= Rank(v)
          BY <5>1, RankGrows
        <5>3. Rank(v) >= offset /\ offset \in Nat
          BY <1>2, <3>2, <4>2 DEF ToCome, TypeOK
        <5> QED
          BY <5>2, <5>3
      <4> QED
        BY <1>2, <3>2, <4>1, <4>2 DEF ToCome
    <3>3. v \in collected => v \in collected'
      BY <2>4
    <3> QED
      BY <2>0, <2>2, <2>4, <3>1, <3>2, <3>3
  <2> QED
    BY <2>3, <2>4
<1> QED
  BY <1>4, <1>7, <1>8 DEF IInv

LEMMA CreateKept ==
    ASSUME IInv, NEW o \in Objects, CreateObject(o)
    PROVE  IInv'
<1>1. PICK d \in Dates(clock', second') : stamp' = [stamp EXCEPT ![o] = d]
  BY DEF CreateObject
<1> QED
  BY <1>1, ChangedKept DEF CreateObject

LEMMA UpdateKept ==
    ASSUME IInv, NEW o \in Objects, UpdateObject(o)
    PROVE  IInv'
<1>1. CASE listing.since # "created"
  <2>1. PICK d \in Dates(clock', second') : stamp' = [stamp EXCEPT ![o] = d]
    BY <1>1 DEF UpdateObject
  <2> QED
    BY <2>1, ChangedKept DEF UpdateObject
<1>2. CASE listing.since = "created"
  <2>1. /\ UNCHANGED <<listing, stamp, deleted, lp, pc, start, cursor, offset, ids, errors, lost>>
        /\ unsent' = unsent \cup {o} /\ collected' = collected \ {o} /\ Change
    BY <1>2 DEF UpdateObject, pages
  <2>2. /\ clock' = clock + 1 /\ clock \in Nat
        /\ second' \in 1 .. clock' /\ TypeOK
    BY <2>1 DEF Change, IInv, TypeOK
  <2>3. /\ stamp' \in [Objects -> 0 .. clock'] /\ lp' \in 0 .. clock' /\ start' \in 0 .. clock'
        /\ clock' \in Nat
    <3>1. /\ stamp \in [Objects -> 0 .. clock] /\ lp \in 0 .. clock /\ start \in 0 .. clock
      BY <2>2 DEF TypeOK
    <3> QED
      BY <2>1, <2>2, <3>1
  <2>4. TypeOK'
    BY <2>1, <2>2, <2>3 DEF TypeOK
  <2>5. ~ Exact'
    BY <1>2, <2>1 DEF Exact, Reliable
  <2> QED
    BY <2>1, <2>4, <2>5 DEF IInv, Times, Unsent
<1> QED
  BY <1>1, <1>2

\* What is deleted from a list that an offset counts is a loss; a list of ids stays as it is.
LEMMA DeleteKept ==
    ASSUME IInv, NEW o \in Objects, DeleteObject(o)
    PROVE  IInv'
<1>1. /\ UNCHANGED <<listing, clock, second, stamp, lp, pc, start, cursor, offset, ids, errors>>
      /\ deleted' = deleted \cup {o} /\ unsent' = unsent \ {o} /\ collected' = collected \ {o}
      /\ lost' = lost \/ lost' = (listing.since # "nothing")
      /\ listing.pages \in {"offset", "ids"} /\ stamp[o] # 0 /\ TypeOK
  BY DEF DeleteObject, Loses, pages, Exists, IInv
<1>2. TypeOK'
  <2>1. lost' \in BOOLEAN
    BY <1>1 DEF TypeOK
  <2> QED
    BY <1>1, <2>1 DEF TypeOK
<1>3. Exact' => Exact /\ lost' = lost
  BY <1>1, <1>2 DEF Exact, Reliable, TypeOK
<1>4. Times'
  BY <1>1, <1>3 DEF IInv, Times
<1>5. Exact' => ~ (pc = "listing" /\ listing.pages = "offset")
  BY <1>1 DEF Exact, Reliable, DeleteObject, Loses
<1>6. ASSUME Exact', NEW v \in unsent'
      PROVE  /\ Exists(v)' /\ Taken(v)'
             /\ pc' # "idle" => Later(v)' \/ v \in collected' \/ ToCome(v)'
  <2>1. /\ v # o /\ Exists(v) /\ Taken(v) /\ listing.since # "window"
        /\ pc # "idle" => Later(v) \/ v \in collected \/ ToCome(v)
    BY <1>1, <1>3, <1>6 DEF IInv, Unsent, Exact, Reliable
  <2>2. Exists(v)' /\ Taken(v)'
    BY <1>1, <2>1 DEF Exists, Taken, AskedFor
  <2>3. Later(v) => Later(v)'
    BY <1>1 DEF Later
  <2>4. ToCome(v) => ToCome(v)'
    BY <1>1, <1>5, <1>6 DEF ToCome
  <2> QED
    BY <1>1, <2>1, <2>2, <2>3, <2>4
<1> QED
  BY <1>2, <1>4, <1>6 DEF IInv, Unsent

LEMMA TickKept ==
    ASSUME IInv, Tick
    PROVE  IInv'
<1>1. /\ UNCHANGED <<listing, stamp, deleted, unsent, lp, pc, start, cursor, offset, ids,
                     collected, errors, lost>>
      /\ clock' = clock + 1 /\ second' \in {second, clock + 1} /\ listing.since = "window" /\ TypeOK
  BY DEF Tick, pages, IInv
<1>2. /\ clock \in Nat /\ second \in 1 .. clock
      /\ stamp \in [Objects -> 0 .. clock] /\ lp \in 0 .. clock /\ start \in 0 .. clock
  BY <1>1 DEF TypeOK
<1>3. /\ stamp' \in [Objects -> 0 .. clock'] /\ lp' \in 0 .. clock' /\ start' \in 0 .. clock'
      /\ clock' \in Nat /\ second' \in 1 .. clock'
  BY <1>1, <1>2
<1>4. TypeOK'
  BY <1>1, <1>3 DEF TypeOK
<1>5. ~ Exact'
  BY <1>1 DEF Exact, Reliable
<1> QED
  BY <1>1, <1>4, <1>5 DEF IInv, Times, Unsent

----------------------------------------------------------------------------
(* The export. *)

LEMMA StartKept ==
    ASSUME IInv, StartExport
    PROVE  IInv'
<1>1. /\ UNCHANGED <<listing, clock, second, stamp, deleted, unsent, lp, cursor, offset,
                     collected, errors, lost>>
      /\ pc = "idle" /\ pc' = "listing"
      /\ start' = IF listing.since = "window" THEN clock ELSE second
      /\ ids' = IF listing.pages = "ids" THEN Answer ELSE {}
      /\ TypeOK
  BY DEF StartExport, service, IInv
<1>2. TypeOK'
  <2>1. start' \in 0 .. clock
    <3>1. clock \in Nat /\ second \in 1 .. clock
      BY <1>1 DEF TypeOK
    <3> QED
      BY <1>1, <3>1
  <2>2. ids' \subseteq Objects
    BY <1>1, AnswerFinite
  <2> QED
    BY <1>1, <2>1, <2>2 DEF TypeOK
<1>3. Exact' <=> Exact
  BY <1>1 DEF Exact, Reliable
<1>4. Exact => start' = second /\ listing.since # "window"
  BY <1>1 DEF Exact, Reliable
<1>5. Times'
  <2>1. second \in Nat
    BY <1>1 DEF TypeOK
  <2> QED
    BY <1>1, <1>3, <1>4, <2>1 DEF IInv, Times
<1>6. ASSUME Exact, NEW v \in unsent PROVE Exists(v)' /\ Taken(v)' /\ ToCome(v)'
  <2>1. /\ v \in Objects /\ Exists(v) /\ Taken(v) /\ listing.since # "window"
        /\ cursor = NoPlace /\ offset = 0
    BY <1>1, <1>4, <1>6 DEF IInv, Unsent, Times, TypeOK
  <2>2. Exists(v)' /\ Taken(v)'
    BY <1>1, <2>1 DEF Exists, Taken, AskedFor
  <2>3. v \in Answer
    BY <2>1 DEF Answer
  <2>4. Rank(v)' >= 0
    <3>1. \A p \in Answer : Before(Place(p), Place(v)) =>
             p \in Answer' /\ (Before(Place(p), Place(v)))'
      BY <1>1, <1>4, <1>6 DEF Answer, Before, Down, Place, Order, Less, Exists, Taken, AskedFor,
                             relativeDuration
    <3> QED
      BY <3>1, RankGrows
  <2>5. ToCome(v)'
    BY <1>1, <2>1, <2>3, <2>4 DEF ToCome
  <2> QED
    BY <2>2, <2>5
<1> QED
  BY <1>1, <1>2, <1>3, <1>5, <1>6 DEF IInv, Unsent

\* What is not in the page is behind all of it.
LEMMA PageIsPrefix ==
    ASSUME TypeOK, NEW page \in SUBSET Ahead, Page(page)
    PROVE  /\ \A o \in page, p \in Ahead \ page : Before(Place(o), Place(p))
           /\ listing.pages # "offset" /\ page = {} => page = Ahead
           /\ listing.pages = "offset" => \A p \in Ahead \ page : Rank(p) >= offset + PageSize
<1>1. Ahead \subseteq Objects
  BY DEF Ahead, Answer, TypeOK
<1>2. ASSUME NEW p \in Objects PROVE Rank(p) \in Nat
  <2>1. \A q \in Answer : Before(Place(q), Place(p)) => q \in Objects
    BY DEF Answer
  <2>2. IsFiniteSet({q \in Answer : Before(Place(q), Place(p))})
    BY AnswerFinite, FS_Subset
  <2> QED
    BY <2>2, FS_CardinalityType DEF Rank
<1>3. CASE listing.pages = "offset"
  <2>1. page = {o \in Ahead : Rank(o) < offset + PageSize} /\ offset \in Nat
    BY <1>3 DEF Page, TypeOK
  <2>2. \A p \in Ahead \ page : Rank(p) >= offset + PageSize
    BY <1>1, <1>2, <2>1, Numbers
  <2>3. ASSUME NEW o \in page, NEW p \in Ahead \ page PROVE Before(Place(o), Place(p))
    <3>0. /\ o \in Objects /\ p \in Objects /\ o # p /\ Rank(o) < Rank(p)
          /\ Rank(o) \in Nat /\ Rank(p) \in Nat
      BY <1>1, <1>2, <2>1, <2>2, <2>3, Numbers
    <3>1. CASE Before(Place(p), Place(o))
      <4> DEFINE S == {q \in Answer : Before(Place(q), Place(p))}
                 T == {q \in Answer : Before(Place(q), Place(o))}
      <4>1. S \subseteq T
        <5> SUFFICES ASSUME NEW q \in Answer, Before(Place(q), Place(p))
                     PROVE  Before(Place(q), Place(o))
          OBVIOUS
        <5>1. q \in Objects
          BY DEF Answer
        <5>2. /\ Place(q) \in Nat \X Nat /\ Place(p) \in Nat \X Nat /\ Place(o) \in Nat \X Nat
          BY <3>0, <5>1, PlaceType
        <5> QED
          BY <3>1, <5>2, BeforeOrder
      <4>2. IsFiniteSet(T)
        BY AnswerFinite, FS_Subset
      <4>3. Cardinality(S) <= Cardinality(T)
        BY <4>1, <4>2, FS_Subset
      <4> QED
        BY <3>0, <4>3 DEF Rank
    <3>2. Before(Place(o), Place(p)) \/ Before(Place(p), Place(o))
      <4>1. /\ Place(p) \in Nat \X Nat /\ Place(o) \in Nat \X Nat
            /\ Place(o)[2] = o /\ Place(p)[2] = p
        BY <3>0, PlaceType
      <4> QED
        BY <3>0, <4>1, BeforeOrder
    <3> QED
      BY <3>1, <3>2
  <2> QED
    BY <1>3, <2>2, <2>3
<1>4. CASE listing.pages = "one"
  BY <1>4 DEF Page
<1>5. CASE listing.pages \notin {"offset", "one"}
  <2>1. /\ Prefix(page)
        /\ Cardinality(page) = PageSize \/ (Cardinality(page) < PageSize /\ page = Ahead)
    BY <1>5 DEF Page
  <2>2. page = {} => Cardinality(page) = 0
    BY FS_EmptySet
  <2> QED
    BY <1>5, <2>1, <2>2, Numbers DEF Prefix
<1> QED
  BY <1>3, <1>4, <1>5

\* A page sends what it has of the unsent objects, and leaves the others to come.
LEMMA FetchKept ==
    ASSUME IInv, FetchPage
    PROVE  IInv'
<1>1. PICK page \in SUBSET Ahead :
        /\ Page(page)
        /\ LET kept == {o \in page : Taken(o)}
               last == \/ page = Ahead
                       \/ listing.pages = "first"
                       \/ listing.since = "stops" /\ kept # page
           IN  /\ collected' = collected \cup kept
               /\ pc' = IF last THEN "listed" ELSE "listing"
        /\ IF page = {} THEN cursor' = cursor
           ELSE \E o \in page : /\ cursor' = Place(o)
                                /\ \A p \in page \ {o} : Before(Place(p), Place(o))
        /\ offset' = offset + PageSize
        /\ ids' = ids \ page
  BY DEF FetchPage
<1> DEFINE kept == {o \in page : Taken(o)}
           last == \/ page = Ahead
                   \/ listing.pages = "first"
                   \/ listing.since = "stops" /\ kept # page
<1>2. /\ UNCHANGED <<listing, clock, second, stamp, deleted, unsent, lp, start, errors, lost>>
      /\ pc = "listing" /\ TypeOK /\ Ahead \subseteq Objects
      /\ pc' = IF last THEN "listed" ELSE "listing"
      /\ collected' = collected \cup kept /\ offset' = offset + PageSize /\ ids' = ids \ page
  BY <1>1 DEF FetchPage, service, IInv, Ahead, Answer, TypeOK
<1>3. TypeOK'
  <2>1. cursor' \in Nat \X Nat
    <3>1. CASE page = {}
      BY <1>1, <1>2, <3>1 DEF TypeOK
    <3>2. CASE page # {}
      <4>1. PICK o \in page : cursor' = Place(o)
        BY <1>1, <3>2
      <4> QED
        BY <1>2, <4>1, PlaceType
    <3> QED
      BY <3>1, <3>2
  <2>2. collected' \subseteq Objects /\ ids' \subseteq Objects /\ offset' \in Nat
        /\ pc' \in {"idle", "listing", "listed"}
    BY <1>2, Numbers DEF TypeOK
  <2> QED
    BY <1>2, <2>1, <2>2 DEF TypeOK
<1>4. Exact' <=> Exact
  BY <1>2 DEF Exact, Reliable
<1>5. Times'
  BY <1>2, <1>4 DEF IInv, Times
<1>6. ASSUME Exact, NEW v \in unsent
      PROVE  /\ Exists(v)' /\ Taken(v)'
             /\ Later(v)' \/ v \in collected' \/ ToCome(v)'
  <2>1. /\ v \in Objects /\ Exists(v) /\ Taken(v) /\ listing.since # "window"
        /\ Later(v) \/ v \in collected \/ ToCome(v)
    BY <1>2, <1>6 DEF IInv, Unsent, TypeOK, Exact, Reliable
  <2>2. Exists(v)' /\ Taken(v)' /\ (Later(v) => Later(v)')
    BY <1>2, <2>1 DEF Exists, Taken, AskedFor, Later
  <2>3. CASE v \in page
    BY <1>2, <2>1, <2>2, <2>3
  <2>4. ASSUME ToCome(v), v \notin page PROVE ToCome(v)'
    <3>1. v \in Ahead \ page
      BY <1>2, <2>1, <2>4 DEF Ahead, Answer, ToCome
    <3>2. /\ \A o \in page : Before(Place(o), Place(v))
          /\ listing.pages # "offset" => page # {}
          /\ listing.pages = "offset" => Rank(v) >= offset + PageSize
      BY <1>1, <1>2, <3>1, PageIsPrefix
    <3>3. listing.pages # "first"
      BY <1>6 DEF Exact, Reliable
    <3>4. ~ (listing.since = "stops" /\ kept # page)
      <4> SUFFICES ASSUME listing.since = "stops", NEW p \in page, ~ Taken(p) PROVE FALSE
        OBVIOUS
      <4>1. p \in Objects /\ stamp[p] \in Nat /\ stamp[v] \in Nat /\ lp \in Nat
        BY <1>2, <2>1 DEF TypeOK
      <4>2. lp # 0 /\ stamp[p] < lp
        BY <1>2, <1>6, <4>1, TakenStamp DEF TypeOK
      <4>3. Order = "updatedDown"
        BY <1>2, <1>6, <4>2, ExactListing DEF TypeOK, Order
      <4>4. Less(Place(v), Place(p))
        BY <3>2, <4>3 DEF Before, Down
      <4>5. stamp[v] <= stamp[p]
        BY <4>1, <4>3, <4>4 DEF Less, Place
      <4>6. stamp[v] >= lp
        BY <1>2, <1>6, <2>1, <4>2, TakenStamp DEF TypeOK
      <4> QED
        BY <4>1, <4>2, <4>5, <4>6
    <3>5. pc' = "listing"
      BY <1>2, <3>1, <3>3, <3>4
    <3>6. Order' = Order /\ Place(v)' = Place(v) /\ Down' = Down
      BY <1>2 DEF Order, Place, Down
    <3>7. listing.pages = "cursor" => Before(cursor', Place(v)')
      <4> SUFFICES ASSUME listing.pages = "cursor" PROVE Before(cursor', Place(v))
        BY <3>6
      <4>1. PICK o \in page : cursor' = Place(o)
        BY <1>1, <3>2
      <4> QED
        BY <3>2, <4>1
    <3>8. listing.pages = "offset" => Rank(v)' >= offset'
      <4>1. \A p \in Answer : Before(Place(p), Place(v)) =>
               p \in Answer' /\ (Before(Place(p), Place(v)))'
        BY <1>2, <2>1 DEF Answer, Before, Down, Place, Order, Less, Exists, Taken, AskedFor, Objects
      <4>2. Rank(v) \in Nat /\ Rank(v)' \in Nat /\ Rank(v)' >= Rank(v)
        BY <4>1, RankGrows
      <4> QED
        BY <1>2, <3>2, <4>2, Numbers DEF TypeOK
    <3>9. listing.pages = "ids" => v \in ids'
      BY <1>2, <2>4 DEF ToCome
    <3>10. Before(cursor', Place(v)') => Before(cursor, Place(v))'
      BY <3>6 DEF Before
    <3> QED
      BY <1>2, <3>5, <3>7, <3>8, <3>9, <3>10 DEF ToCome
  <2> QED
    BY <1>2, <2>1, <2>2, <2>3, <2>4
<1> QED
  BY <1>2, <1>3, <1>4, <1>5, <1>6 DEF IInv, Unsent

\* An error leaves the checkpoint as it was, or is a loss.
LEMMA FailsKept ==
    ASSUME IInv, RequestFails
    PROVE  IInv'
<1>0. /\ UNCHANGED <<listing, clock, second, stamp, deleted, unsent, lp>>
      /\ TypeOK /\ errors' \in Nat
  BY DEF RequestFails, service, IInv, TypeOK
<1>1. CASE Forget /\ lost' = lost
  <2>1. TypeOK'
    <3>1. start' \in 0 .. clock'
      BY <1>0, <1>1 DEF Forget, TypeOK
    <3> QED
      BY <1>0, <1>1, <3>1 DEF Forget, TypeOK, NoPlace
  <2>2. Exact' <=> Exact
    BY <1>0, <1>1 DEF Exact, Reliable
  <2>3. Times'
    <3>1. Exact => second \in Nat /\ second' = second
      BY <1>0 DEF TypeOK
    <3> QED
      BY <1>0, <1>1, <2>2, <3>1 DEF IInv, Times, Forget
  <2>4. ASSUME Exact, NEW v \in unsent PROVE Exists(v)' /\ Taken(v)' /\ pc' = "idle"
    <3>1. Exists(v) /\ Taken(v) /\ listing.since # "window"
      BY <2>4 DEF IInv, Unsent, Exact, Reliable
    <3> QED
      BY <1>0, <1>1, <3>1 DEF Exists, Taken, AskedFor, Forget
  <2> QED
    BY <1>0, <2>1, <2>2, <2>3, <2>4 DEF IInv, Unsent
<1>2. CASE /\ pc' = "listed" /\ Loses /\ UNCHANGED <<start, pages>>
           /\ collected' = collected \/ collected' = {}
  <2>1. lost' \in BOOLEAN /\ (lost' <=> listing.since # "nothing")
    BY <1>2 DEF Loses
  <2>2. TypeOK'
    BY <1>0, <1>2, <2>1 DEF TypeOK, pages
  <2>3. ~ Exact'
    BY <1>0, <2>1 DEF Exact, Reliable
  <2> QED
    BY <1>0, <1>2, <2>2, <2>3 DEF IInv, Times, Unsent
<1> QED
  BY <1>1, <1>2 DEF RequestFails

\* What was not part of this export will be taken by the next one.
LEMMA DoneKept ==
    ASSUME IInv, Done
    PROVE  IInv'
<1>0. /\ UNCHANGED <<listing, clock, second, stamp, deleted, errors, lost>> /\ TypeOK
      /\ lp' = start /\ unsent' = unsent \ collected /\ pc = "listed"
      /\ pc' = "idle" /\ start' = 0 /\ collected' = {}
      /\ cursor' = NoPlace /\ offset' = 0 /\ ids' = {}
  BY DEF Done, Forget, service, IInv
<1>1. TypeOK'
  <2>1. start' \in 0 .. clock' /\ lp' \in 0 .. clock'
    BY <1>0 DEF TypeOK
  <2> QED
    BY <1>0, <2>1 DEF TypeOK, NoPlace
<1>2. Exact' <=> Exact
  BY <1>0 DEF Exact, Reliable
<1>3. Times'
  <2>1. second \in Nat
    BY <1>0 DEF TypeOK
  <2> QED
    BY <1>0, <1>2, <2>1 DEF IInv, Times
<1>4. ASSUME Exact, NEW v \in unsent' PROVE Exists(v)' /\ Taken(v)'
  <2>1. Exists(v) /\ Later(v)
    BY <1>0, <1>4 DEF IInv, Unsent, ToCome
  <2>2. listing.since \in {"stops", "skips", "from", "after"}
    BY <1>0, <1>4, ExactListing DEF TypeOK
  <2>3. listing.shift \in Int /\ listing.shift <= 0
    BY <1>0, <1>4, ExactListing DEF TypeOK
  <2>4. start \in Nat /\ stamp[v] \in Nat /\ AskedFor' <= start /\ AskedFor' \in Int
    BY <1>0, <2>3 DEF TypeOK, AskedFor
  <2> QED
    BY <1>0, <2>1, <2>2, <2>4 DEF Exists, Later, Taken
<1> QED
  BY <1>0, <1>1, <1>2, <1>3, <1>4 DEF IInv, Unsent

----------------------------------------------------------------------------
LEMMA InitInv == Init => IInv
<1> SUFFICES ASSUME Init PROVE IInv
  OBVIOUS
<1>1. PICK old \in 0 .. NObjects :
        /\ stamp = [o \in Objects |-> IF o <= old THEN 1 ELSE 0]
        /\ unsent = 1 .. old
  BY DEF Init
<1>2. 1 .. old \subseteq Objects /\ old \in Nat
  BY Numbers DEF Objects
<1>3. stamp \in [Objects -> 0 .. 1]
  BY <1>1
<1>4. TypeOK
  <2>1. /\ clock \in Nat /\ second \in 1 .. clock /\ lp \in 0 .. clock /\ start \in 0 .. clock
        /\ stamp \in [Objects -> 0 .. clock] /\ errors \in Nat /\ offset \in Nat
    BY <1>3 DEF Init
  <2>2. cursor \in Nat \X Nat /\ unsent \subseteq Objects
    BY <1>1, <1>2 DEF Init, NoPlace
  <2> QED
    BY <2>1, <2>2 DEF Init, TypeOK
<1>5. Times
  <2>1. \A o \in Objects : stamp[o] <= 1
    BY <1>3
  <2> QED
    BY <2>1 DEF Init, Times
<1>6. ASSUME NEW v \in unsent PROVE Exists(v) /\ Taken(v)
  <2>1. v \in Objects /\ v <= old
    BY <1>1, <1>2, <1>6
  <2>2. stamp[v] = 1
    BY <1>1, <2>1
  <2> QED
    BY <2>2 DEF Exists, Taken, Init
<1> QED
  BY <1>4, <1>5, <1>6 DEF IInv, Unsent, Init

LEMMA Invariant == Spec => []IInv
<1>1. IInv /\ [Next]_vars => IInv'
  <2> SUFFICES ASSUME IInv, [Next]_vars PROVE IInv'
    OBVIOUS
  <2>1. CASE Next
    <3>1. CASE ServiceStep
      BY <3>1, TickKept, CreateKept, UpdateKept, DeleteKept DEF ServiceStep
    <3>2. CASE ExportStep
      BY <3>2, StartKept, FetchKept, DoneKept DEF ExportStep
    <3>3. CASE RequestFails
      BY <3>3, FailsKept
    <3> QED
      BY <2>1, <3>1, <3>2, <3>3 DEF Next
  <2>2. CASE UNCHANGED vars
    <3>1. UNCHANGED <<listing, clock, second, stamp, deleted, unsent, lp, pc, start, cursor,
                      offset, ids, collected, errors, lost>>
      BY <2>2 DEF vars, service, pages
    <3>2. TypeOK' /\ (Exact' <=> Exact)
      BY <3>1 DEF IInv, TypeOK, Exact, Reliable
    <3>3. Times'
      BY <3>1, <3>2 DEF IInv, Times
    <3>4. \A v \in unsent : /\ Exists(v)' = Exists(v) /\ Taken(v)' = Taken(v)
                            /\ Later(v)' = Later(v) /\ ToCome(v)' = ToCome(v)
      BY <3>1 DEF Exists, Taken, AskedFor, Later, ToCome, relativeDuration, Rank, Answer, Before, Down,
                  Order, Place, Less
    <3> QED
      BY <3>1, <3>2, <3>3, <3>4 DEF IInv, Unsent
  <2> QED
    BY <2>1, <2>2
<1> QED
  BY <1>1, InitInv, PTL DEF Spec

\* No change falls between two checkpoints of a listing whose description is Sound,
\* whatever is created, updated and deleted while its pages are fetched, and whichever
\* requests fail: an object whose current version was not sent is taken by the next export
\* (PaginateNewerThan in github and gitlab, the queries to bitbucket and azure).
THEOREM NothingIsMissed == Spec => []NothingMissed
<1>1. IInv => NothingMissed
  <2> SUFFICES ASSUME IInv, Reliable, NEW o \in unsent PROVE Taken(o)
    BY DEF IInv, NothingMissed
  <2>1. CASE listing.since = "nothing"
    BY <2>1 DEF Taken
  <2>2. CASE listing.since # "nothing"
    BY <2>2 DEF IInv, Unsent, Exact
  <2> QED
    BY <2>1, <2>2
<1> QED
  BY <1>1, Invariant, PTL

----------------------------------------------------------------------------
(* ExportPlan.  The invariant follows each session from where it is opened *)
(* to where the plan has it ended: by the function (Closing), by the pool  *)
(* (Pooling), or never, as nothing is written to it (Untouched); and a     *)
(* session that lacks objects to the failure of the function (Missed).     *)

Last(t) == Len(plan.threads[t])

\* The function fails and returns at its end, and starts its helpers once.
Returning ==
    /\ at["main"] > 0
    /\ "main" \in failed \/ result # "none" => at["main"] = Last("main")
    /\ result # "none" => (result = "error" <=> "main" \in failed)
    /\ export # "none" => result # "none"
    /\ \A n \in at["main"] .. Last("main") :
         P!Main(plan)[n].op = "start" => \A t \in P!Threads \ {"main"} : at[t] = 0

\* While an awaited helper runs the function is on its way to wait for it.
Joining ==
    \A t \in P!Threads \ {"main"} :
        P!Awaited(plan, t) /\ at[t] \notin {0, Last(t)} => P!Joins(plan, at["main"])

Deferring ==
    \A d \in deferred :
        \E n \in DOMAIN plan.threads[d[1]] :
            plan.threads[d[1]][n].op = "defer" /\ plan.threads[d[1]][n].session = d[2]

\* Whatever the function has opened it is still going to end.
Pending(s) ==
    \/ <<"main", s>> \in deferred
    \/ \E m \in at["main"] .. Last("main") : P!Ends(P!Main(plan)[m], s)
Closing ==
    \A s \in Sessions :
        P!Closes(plan, s) /\ state[s] = "open" /\ "main" \notin failed
            => result = "none" /\ Pending(s)

\* What the pool is to end it knows, unless it is opened too late, without an object.
OpensLate(s) ==
    \E t \in P!Threads : \E n \in DOMAIN plan.threads[t] : P!Late(plan, s, t, n)
Pooling ==
    \A s \in Sessions :
        P!Pools(plan, s) /\ state[s] = "open" =>
            \/ result = "none" /\ s \in context
            \/ result # "none" /\ OpensLate(s) /\ s \notin written /\ queue = 0
TooLate ==
    \A s \in Sessions : \A t \in P!Threads : \A n \in DOMAIN plan.threads[t] :
        P!Late(plan, s, t, n) /\ at[t] <= n => s \notin written /\ queue = 0

Untouched == \A s \in Sessions : P!Unused(plan, s) => s \notin written

\* A session is ended when nothing of it is left to be sent, and not after a failure.
Ending ==
    \A s \in Sessions :
        P!Fails(plan, s) /\ state[s] = "ended" =>
            \A m \in at["main"] .. Last("main") : ~ P!Touches(P!Main(plan)[m], s)
Missed ==
    \A s \in missing : P!Fails(plan, s) => "main" \in failed /\ state[s] # "ended"

PlanInv ==
    /\ P!TypeOK /\ Returning /\ Joining /\ Deferring /\ Closing /\ Pooling /\ TooLate
    /\ Untouched /\ Ending /\ Missed

----------------------------------------------------------------------------
LEMMA PlanShape ==
    ASSUME P!TypeOK
    PROVE  /\ P!Settles(plan) /\ P!Possible(plan) /\ MaxStops \in Nat
           /\ "main" \in P!Threads
           /\ plan.room \in Nat
           /\ \A t \in P!Threads :
                /\ Last(t) \in Nat \ {0}
                /\ DOMAIN plan.threads[t] = 1 .. Last(t)
                /\ at[t] \in 0 .. Last(t)
                /\ \A n \in 1 .. Last(t) :
                     /\ plan.threads[t][n] \in P!Steps
                     /\ plan.threads[t][n].op = "finish" <=> n = Last(t)
<1>1. plan \in Plans /\ P!IsPlan(plan) /\ P!Settles(plan) /\ MaxStops \in Nat
  BY PlansAssumption, SettlesAssumption DEF P!TypeOK, P!PlansAssumption
<1>2. P!Possible(plan) /\ plan.room \in Nat /\ "main" \in P!Threads
  BY <1>1 DEF P!Settles, P!IsPlan, P!Threads
<1>3. ASSUME NEW t \in P!Threads
      PROVE  /\ Last(t) \in Nat \ {0}
             /\ DOMAIN plan.threads[t] = 1 .. Last(t)
             /\ at[t] \in 0 .. Last(t)
             /\ \A n \in 1 .. Last(t) :
                  /\ plan.threads[t][n] \in P!Steps
                  /\ plan.threads[t][n].op = "finish" <=> n = Last(t)
  <2>1. plan.threads[t] \in Seq(P!Steps) /\ Len(plan.threads[t]) > 0
    BY <1>1 DEF P!IsPlan
  <2>2. /\ Last(t) \in Nat \ {0}
        /\ DOMAIN plan.threads[t] = 1 .. Last(t)
        /\ \A n \in 1 .. Last(t) : plan.threads[t][n] \in P!Steps
    BY <2>1 DEF Last
  <2>3. at[t] \in 0 .. Last(t)
    BY <2>2 DEF P!TypeOK, Last
  <2>4. \A n \in 1 .. Last(t) : plan.threads[t][n].op = "finish" <=> n = Last(t)
    BY <1>2, <2>2 DEF P!Possible, Last
  <2> QED
    BY <2>2, <2>3, <2>4
<1> QED
  BY <1>1, <1>2, <1>3

LEMMA StepShape ==
    ASSUME P!TypeOK, NEW t \in P!Threads, at[t] > 0
    PROVE  /\ P!Step(t) \in P!Steps /\ at[t] \in 1 .. Last(t)
           /\ P!Step(t).op = "finish" <=> at[t] = Last(t)
<1>1. at[t] \in 1 .. Last(t)
  BY PlanShape
<1> QED
  BY <1>1, PlanShape DEF P!Step

\* A set of numbers has a least one.
LEMMA Least ==
    ASSUME NEW T, T \subseteq Nat, T # {}
    PROVE  \E n \in T : \A m \in T : n <= m
<1>1. IsWellFoundedOn(OpToRel(<, Nat), Nat)
  BY NatLessThanWellFounded
<1>2. PICK n \in T : \A m \in T : ~ (<<m, n>> \in OpToRel(<, Nat))
  BY <1>1, WFMin, Zenon
<1>3. \A m \in T : ~ (m < n)
  BY <1>2 DEF OpToRel
<1> QED
  BY <1>3

\* The next of some steps is there.
LEMMA AheadThere ==
    ASSUME P!TypeOK, NEW t \in P!Threads, NEW ops,
           NEW i \in (at[t] + 1) .. Last(t), plan.threads[t][i].op \in ops
    PROVE  /\ P!Ahead(t, ops) \in (at[t] + 1) .. Last(t)
           /\ plan.threads[t][P!Ahead(t, ops)].op \in ops
           /\ \A m \in (at[t] + 1) .. (P!Ahead(t, ops) - 1) : plan.threads[t][m].op \notin ops
<1> DEFINE T == {n \in (at[t] + 1) .. Last(t) : plan.threads[t][n].op \in ops}
<1>0. at[t] \in Nat /\ Last(t) \in Nat
  BY PlanShape
<1>1. T \subseteq Nat /\ T # {}
  BY <1>0
<1>2. PICK n \in T : \A m \in T : n <= m
  BY <1>1, Least
<1>3. /\ n \in (at[t] + 1) .. Len(plan.threads[t])
      /\ plan.threads[t][n].op \in ops
      /\ \A m \in (at[t] + 1) .. (n - 1) : plan.threads[t][m].op \notin ops
  BY <1>0, <1>2 DEF Last
<1> HIDE DEF T
<1> QED
  BY <1>3 DEF P!Ahead, Last

----------------------------------------------------------------------------
(* What the steps of a thread do.  The proofs about the invariant use of a *)
(* step only what Effect says: where the thread goes, and what becomes of  *)
(* the one session the step is about.                                      *)

\* Where the thread goes.
Skips(t, k) ==
    \A s \in Sessions : P!Closes(plan, s) =>
        \A m \in (at[t] + 1) .. Last(t) : m < k => ~ P!Ends(P!Main(plan)[m], s)
Moved(t) ==
    /\ at[t] \in 1 .. Last(t) - 1 /\ P!Step(t) \in P!Steps
    /\ \E k \in at[t] .. Last(t) :
        /\ at' = [at EXCEPT ![t] = k]
        /\ failed' \in {failed, failed \cup {t}}
        /\ t = "main" =>
            /\ "main" \in failed' => k = Last(t)
            /\ P!Steady(P!Step(t)) => k = at[t] + 1
            /\ "main" \in failed' \/ Skips(t, k)

LEMMA AdvanceMoves ==
    ASSUME P!TypeOK, Returning, NEW t \in P!Threads, at[t] > 0, P!Step(t).op # "finish",
           P!Advance(t), UNCHANGED failed
    PROVE  Moved(t)
<1>1. /\ at[t] \in 1 .. Last(t) - 1 /\ P!Step(t) \in P!Steps /\ Last(t) \in Nat
      /\ at[t] + 1 \in at[t] .. Last(t)
  BY StepShape, PlanShape
<1>2. t = "main" => "main" \notin failed
  BY <1>1 DEF Returning
<1>4. Skips(t, at[t] + 1)
  <2>1. \A m \in (at[t] + 1) .. Last(t) : ~ (m < at[t] + 1)
    BY <1>1
  <2> QED
    BY <2>1 DEF Skips
<1> QED
  BY <1>1, <1>2, <1>4 DEF Moved, P!Advance, P!To

LEMMA LeaveMoves ==
    ASSUME P!TypeOK, Returning, NEW t \in P!Threads, at[t] > 0, P!Step(t).op # "finish",
           P!Leave(t), ~ P!Steady(P!Step(t))
    PROVE  Moved(t) /\ t \in failed'
<1>1. /\ at[t] \in 1 .. Last(t) - 1 /\ P!Step(t) \in P!Steps /\ Last(t) \in Nat
      /\ Last(t) \in at[t] + 1 .. Last(t) /\ plan.threads[t][Last(t)].op = "finish"
  BY StepShape, PlanShape
<1> DEFINE k == P!Ahead(t, {"answer", "finish"})
<1>2. k \in (at[t] + 1) .. Last(t) /\ plan.threads[t][k].op \in {"answer", "finish"}
  BY <1>1, AheadThere
<1>3. t = "main" => k = Last(t)
  BY <1>1, <1>2, PlanShape DEF P!Possible, P!Main
<1>4. k \in at[t] .. Last(t)
  BY <1>1, <1>2
<1>5. at' = [at EXCEPT ![t] = k] /\ failed' = failed \cup {t}
  BY DEF P!Leave, P!To
<1> HIDE DEF k
<1> QED
  BY <1>1, <1>3, <1>4, <1>5 DEF Moved

LEMMA GoesMoves ==
    ASSUME P!TypeOK, Returning, NEW t \in P!Threads, at[t] > 0, P!Step(t).op # "finish",
           P!Goes(t), P!Steady(P!Step(t)) => P!Step(t).op \notin {"give", "close"}
    PROVE  Moved(t) /\ (P!Step(t).errors \subseteq {"return"} => t \in failed')
<1>1. /\ at[t] \in 1 .. Last(t) - 1 /\ P!Step(t) \in P!Steps /\ Last(t) \in Nat \ {0}
      /\ Last(t) \in at[t] + 1 .. Last(t) /\ plan.threads[t][Last(t)].op = "finish"
      /\ DOMAIN plan.threads[t] = 1 .. Last(t) /\ at[t] \in DOMAIN plan.threads[t]
  BY StepShape, PlanShape
<1>2. P!Steady(P!Step(t)) => P!Step(t).errors = {"log"}
  BY DEF P!Steady
<1>0. t = "main" => "main" \notin failed
  BY <1>1 DEF Returning
<1>3. CASE "return" \in P!Step(t).errors /\ P!Leave(t)
  BY <1>2, <1>3, LeaveMoves
<1>4. CASE "log" \in P!Step(t).errors /\ P!Advance(t) /\ UNCHANGED failed
  BY <1>4, AdvanceMoves
<1>5. CASE /\ "stop" \in P!Step(t).errors
           /\ P!To(t, P!Ahead(t, {"git", "finish"})) /\ UNCHANGED failed
  <2> DEFINE k == P!Ahead(t, {"git", "finish"})
  <2>1. k \in (at[t] + 1) .. Last(t)
    BY <1>1, AheadThere
  <2>2. k \in at[t] .. Last(t)
    BY <1>1, <2>1
  <2>3. ASSUME t = "main", NEW s \in Sessions, P!Closes(plan, s)
        PROVE  \A m \in (at[t] + 1) .. Last(t) : ~ P!Ends(P!Main(plan)[m], s)
    BY <1>1, <1>5, <2>3 DEF P!Closes, P!Main, P!Step, Last
  <2>4. at' = [at EXCEPT ![t] = k] /\ failed' = failed
    BY <1>5 DEF P!To
  <2>5. t = "main" => Skips(t, k)
    BY <2>3 DEF Skips
  <2>6. ~ P!Steady(P!Step(t)) /\ ~ (P!Step(t).errors \subseteq {"return"})
    BY <1>2, <1>5
  <2> HIDE DEF k
  <2> QED
    BY <1>0, <1>1, <2>2, <2>4, <2>5, <2>6 DEF Moved
<1>6. CASE /\ "close" \in P!Step(t).errors
           /\ P!To(t, P!Ahead(t, {"close"})) /\ failed' = failed \cup {t}
  <2> DEFINE k == P!Ahead(t, {"close"})
  <2>1. t # "main"
    BY <1>1, <1>6, PlanShape DEF P!Possible, P!Main, P!Step
  <2>2. \E m \in (at[t] + 1) .. Last(t) : plan.threads[t][m].op = "close"
    BY <1>1, <1>6, PlanShape DEF P!Possible, P!Step, Last
  <2>3. k \in at[t] .. Last(t)
    <3>1. k \in (at[t] + 1) .. Last(t)
      BY <2>2, AheadThere
    <3> QED
      BY <1>1, <3>1
  <2>4. at' = [at EXCEPT ![t] = k] /\ failed' = failed \cup {t}
    BY <1>6 DEF P!To
  <2> HIDE DEF k
  <2> QED
    BY <1>1, <1>6, <2>1, <2>3, <2>4 DEF Moved
<1>7. CASE "leave" \in P!Step(t).errors /\ P!To(t, at[t] + 2) /\ UNCHANGED failed
  <2>1. at[t] + 2 <= Last(t)
    BY <1>1, <1>7, PlanShape DEF P!Possible, P!Step, Last
  <2>2. at[t] + 2 \in at[t] .. Last(t)
    BY <1>1, <2>1
  <2>3. ASSUME t = "main", NEW s \in Sessions, P!Closes(plan, s)
        PROVE  \A m \in (at[t] + 1) .. Last(t) : m < at[t] + 2 => ~ P!Ends(P!Main(plan)[m], s)
    <3>1. ~ P!Ends(P!Main(plan)[at[t] + 1], s)
      BY <1>1, <1>7, <2>3 DEF P!Closes, P!Main, P!Step
    <3>2. \A m \in (at[t] + 1) .. Last(t) : m < at[t] + 2 => m = at[t] + 1
      BY <1>1
    <3> QED
      BY <3>1, <3>2
  <2>4. at' = [at EXCEPT ![t] = at[t] + 2] /\ failed' = failed
    BY <1>7 DEF P!To
  <2>5. ASSUME t = "main" PROVE Skips(t, at[t] + 2)
    BY <2>3, <2>5 DEF Skips
  <2>6. ~ P!Steady(P!Step(t)) /\ ~ (P!Step(t).errors \subseteq {"return"})
    BY <1>2, <1>7
  <2> QED
    BY <1>0, <1>1, <2>2, <2>4, <2>5, <2>6 DEF Moved
<1> QED
  BY <1>3, <1>4, <1>5, <1>6, <1>7 DEF P!Goes

LEMMA MovedTypes ==
    ASSUME P!TypeOK, NEW t \in P!Threads, Moved(t), UNCHANGED plan
    PROVE  /\ at' \in [P!Threads -> Nat] /\ \A u \in P!Threads : at'[u] <= Len(plan'.threads[u])
           /\ failed' \subseteq P!Threads
<1>1. PICK k \in at[t] .. Last(t) :
        at' = [at EXCEPT ![t] = k] /\ failed' \in {failed, failed \cup {t}}
  BY DEF Moved
<1>2. Last(t) \in Nat /\ at[t] \in Nat
  BY PlanShape
<1>3. k \in Nat /\ k <= Last(t)
  BY <1>1, <1>2
<1> QED
  BY <1>1, <1>3 DEF P!TypeOK, Last

LEMMA FaultType ==
    ASSUME P!TypeOK, P!Fault
    PROVE  faults' \in 0 .. MaxStops
BY PlanShape DEF P!TypeOK, P!Fault

\* And what the steps of a thread do to the channel and the sessions.
Sends(t) ==
    \/ queue' = queue
    \/ /\ P!Step(t).op = "give" /\ queue' = queue + 1
       /\ plan.room = 0 => \E h \in P!Threads : P!At(h, "receive")
    \/ P!Step(t).op = "receive" /\ queue > 0 /\ queue' = queue - 1
Files(t) ==
    /\ \A s \in written' \ written :
         P!Writes(P!Step(t), s) /\ (P!Step(t).op = "receive" => queue > 0)
    /\ \A s \in missing' \ missing :
         \/ P!Step(t).op = "pool" /\ P!Step(t).session = s
         \/ P!Touches(P!Step(t), s) /\ (P!Step(t).errors \subseteq {"return"} => t \in failed')
Settled(t) ==
    /\ \/ /\ P!Step(t).op \in {"open", "context"}
          /\ state' = [state EXCEPT ![P!Step(t).session] = "open"]
          /\ P!Step(t).op = "context" => P!Step(t).session \in context'
       \/ P!Step(t).op = "end" /\ state' = [state EXCEPT ![P!Step(t).session] = "ended"]
       \/ state' = state /\ (P!Step(t).op = "end" => t \in failed')
    /\ context \subseteq context'
    /\ deferred' = IF P!Step(t).op = "defer" THEN deferred \cup {<<t, P!Step(t).session>>}
                                           ELSE deferred
Waited ==
    \A u \in P!Threads \ {"main"} : P!Awaited(plan, u) => at[u] \in {0, Last(u)}
Effect(t) ==
    /\ Moved(t) /\ P!Step(t).op \notin {"start", "finish"}
    /\ P!Step(t).op = "wait" => t = "main" /\ Waited
    /\ export = "none" /\ UNCHANGED <<plan, result, export>>
    /\ Sends(t) /\ Files(t) /\ Settled(t)
    /\ P!TypeOK'

LEMMA EffectOf ==
    ASSUME P!TypeOK, NEW t \in P!Threads,
           Moved(t), P!Step(t).op \notin {"start", "finish"},
           P!Step(t).op = "wait" => t = "main" /\ Waited,
           export = "none", UNCHANGED <<plan, result, export>>,
           Sends(t), Files(t), Settled(t),
           queue' \in 0 .. plan.room + 1, closed' \in BOOLEAN,
           answer' \in {"none", "ok", "error"},
           state' \in [Sessions -> {"none", "open", "ended", "removed"}],
           context' \subseteq Sessions, deferred' \subseteq P!Threads \X Sessions,
           written' \subseteq Sessions, missing' \subseteq Sessions,
           faults' \in 0 .. MaxStops
    PROVE  Effect(t)
<1>1. P!TypeOK'
  BY MovedTypes DEF P!TypeOK
<1> QED
  BY <1>1 DEF Effect

LEMMA AskEffect ==
    ASSUME P!TypeOK, Returning, NEW t \in P!Threads, P!Ask(t)
    PROVE  Effect(t)
<1>1. /\ at[t] > 0 /\ P!Step(t).op \in {"ask", "git"} /\ export = "none"
      /\ UNCHANGED <<plan, P!channels, state, context, deferred, written, result, export>>
  BY DEF P!Ask, P!At
<1>2. /\ Moved(t) /\ Files(t) /\ missing' \subseteq Sessions
      /\ faults' \in 0 .. MaxStops
  <2>1. CASE P!Advance(t) /\ UNCHANGED <<failed, missing, faults>>
    BY <1>1, <2>1, AdvanceMoves DEF P!TypeOK, Files
  <2>2. CASE P!Fault /\ P!Lacks(t) /\ P!Goes(t)
    <3>1. Moved(t) /\ (P!Step(t).errors \subseteq {"return"} => t \in failed')
      BY <1>1, <2>2, GoesMoves
    <3>2. missing' \subseteq Sessions /\ faults' \in 0 .. MaxStops
      BY <1>1, <2>2, StepShape, PlanShape DEF P!Lacks, P!Fault, P!TypeOK, P!Steps
    <3>3. Files(t)
      BY <1>1, <2>2, <3>1 DEF Files, P!Lacks, P!Touches
    <3> QED
      BY <3>1, <3>2, <3>3
  <2> QED
    BY <2>1, <2>2 DEF P!Ask
<1>3. Sends(t) /\ Settled(t)
  BY <1>1 DEF Sends, Settled, P!channels
<1> QED
  BY <1>1, <1>2, <1>3, EffectOf DEF P!TypeOK, P!channels

LEMMA OpenEffect ==
    ASSUME P!TypeOK, Returning, NEW t \in P!Threads, P!Open(t)
    PROVE  Effect(t)
<1>1. /\ at[t] > 0 /\ P!Step(t).op \in {"open", "context"} /\ export = "none"
      /\ state' = [state EXCEPT ![P!Step(t).session] = "open"]
      /\ \/ P!Step(t).op = "open" /\ UNCHANGED context
         \/ P!Step(t).op = "context" /\ context' = context \cup {P!Step(t).session}
      /\ P!Advance(t)
      /\ UNCHANGED <<plan, failed, P!channels, deferred, written, missing, result,
                     export, faults>>
  BY DEF P!Open, P!At
<1>2. P!Step(t).session \in Sessions
  BY <1>1, StepShape, PlanShape DEF P!Possible, P!Step
<1>3. Moved(t)
  BY <1>1, AdvanceMoves
<1>4. Sends(t) /\ Settled(t) /\ Files(t)
  BY <1>1 DEF Sends, Settled, Files, P!channels
<1> QED
  BY <1>1, <1>2, <1>3, <1>4, EffectOf DEF P!TypeOK, P!channels

LEMMA OpenFailsEffect ==
    ASSUME P!TypeOK, Returning, NEW t \in P!Threads, P!OpenFails(t)
    PROVE  Effect(t)
<1>1. /\ at[t] > 0 /\ P!Step(t).op \in {"open", "context"} /\ export = "none"
      /\ P!Fault /\ P!Lacks(t) /\ P!Leave(t)
      /\ UNCHANGED <<plan, P!channels, state, context, deferred, written, result, export>>
  BY DEF P!OpenFails, P!At
<1>2. Moved(t) /\ t \in failed'
  BY <1>1, LeaveMoves DEF P!Steady
<1>3. missing' \subseteq Sessions /\ faults' \in 0 .. MaxStops
  BY <1>1, StepShape, PlanShape DEF P!Lacks, P!Fault, P!TypeOK, P!Steps
<1>4. Sends(t) /\ Settled(t) /\ Files(t)
  BY <1>1, <1>2 DEF Sends, Settled, Files, P!channels, P!Lacks, P!Touches
<1> QED
  BY <1>1, <1>2, <1>3, <1>4, EffectOf DEF P!TypeOK, P!channels

LEMMA DeferEffect ==
    ASSUME P!TypeOK, Returning, NEW t \in P!Threads, P!Defer(t)
    PROVE  Effect(t)
<1>1. /\ at[t] > 0 /\ P!Step(t).op = "defer" /\ export = "none"
      /\ deferred' = deferred \cup {<<t, P!Step(t).session>>}
      /\ P!Advance(t)
      /\ UNCHANGED <<plan, failed, P!channels, state, context, written, missing, result,
                     export, faults>>
  BY DEF P!Defer, P!At
<1>2. P!Step(t).session \in Sessions
  BY <1>1, StepShape, PlanShape DEF P!Possible, P!Step
<1>3. Moved(t)
  BY <1>1, AdvanceMoves
<1>4. Sends(t) /\ Settled(t) /\ Files(t)
  BY <1>1 DEF Sends, Settled, Files, P!channels
<1> QED
  BY <1>1, <1>2, <1>3, <1>4, EffectOf DEF P!TypeOK, P!channels

LEMMA FillEffect ==
    ASSUME P!TypeOK, Returning, NEW t \in P!Threads, P!Fill(t)
    PROVE  Effect(t)
<1>1. /\ at[t] > 0 /\ P!Step(t).op = "fill" /\ export = "none"
      /\ written' \in {written, written \cup {P!Step(t).session}}
      /\ UNCHANGED <<plan, P!channels, state, context, deferred, result, export>>
  BY DEF P!Fill, P!At
<1>2. P!Step(t).session \in Sessions
  BY <1>1, StepShape, PlanShape DEF P!Possible, P!Step
<1>3. /\ Moved(t) /\ Files(t) /\ missing' \subseteq Sessions
      /\ faults' \in 0 .. MaxStops
  <2>1. CASE P!Advance(t) /\ UNCHANGED <<missing, failed, faults>>
    BY <1>1, <2>1, AdvanceMoves DEF P!TypeOK, Files, P!Writes
  <2>2. CASE P!Fault /\ P!Lacks(t) /\ P!Goes(t)
    <3>1. Moved(t) /\ (P!Step(t).errors \subseteq {"return"} => t \in failed')
      BY <1>1, <2>2, GoesMoves
    <3>2. missing' \subseteq Sessions /\ faults' \in 0 .. MaxStops
      BY <1>1, <2>2, StepShape, PlanShape DEF P!Lacks, P!Fault, P!TypeOK, P!Steps
    <3>3. Files(t)
      BY <1>1, <2>2, <3>1 DEF Files, P!Lacks, P!Touches, P!Writes
    <3> QED
      BY <3>1, <3>2, <3>3
  <2> QED
    BY <2>1, <2>2 DEF P!Fill
<1>4. Sends(t) /\ Settled(t)
  BY <1>1 DEF Sends, Settled, P!channels
<1> QED
  BY <1>1, <1>2, <1>3, <1>4, EffectOf DEF P!TypeOK, P!channels

LEMMA EndEffect ==
    ASSUME P!TypeOK, Returning, NEW t \in P!Threads, P!End(t)
    PROVE  Effect(t)
<1>1. /\ at[t] > 0 /\ P!Step(t).op = "end" /\ export = "none"
      /\ UNCHANGED <<plan, P!channels, context, deferred, written, missing, result, export>>
  BY DEF P!End, P!At
<1>2. P!Step(t).session \in Sessions
  BY <1>1, StepShape, PlanShape DEF P!Possible, P!Step
<1>3. /\ Moved(t) /\ Settled(t) /\ faults' \in 0 .. MaxStops
      /\ state' \in [Sessions -> {"none", "open", "ended", "removed"}]
  <2>1. CASE /\ state' = [state EXCEPT ![P!Step(t).session] = "ended"]
             /\ P!Advance(t) /\ UNCHANGED <<failed, faults>>
    BY <1>1, <1>2, <2>1, AdvanceMoves DEF P!TypeOK, Settled
  <2>2. CASE P!Fault /\ P!Leave(t) /\ UNCHANGED state
    <3>1. Moved(t) /\ t \in failed'
      BY <1>1, <2>2, LeaveMoves DEF P!Steady
    <3>2. Settled(t)
      BY <1>1, <2>2, <3>1 DEF Settled
    <3> QED
      BY <2>2, <3>1, <3>2, FaultType DEF P!TypeOK
  <2> QED
    BY <2>1, <2>2 DEF P!End
<1>4. Sends(t) /\ Files(t)
  BY <1>1 DEF Sends, Files, P!channels
<1> QED
  BY <1>1, <1>3, <1>4, EffectOf DEF P!TypeOK, P!channels

LEMMA PoolEffect ==
    ASSUME P!TypeOK, Returning, NEW t \in P!Threads, P!Pool(t)
    PROVE  Effect(t)
<1> DEFINE shared == {P!Step(t).session} \ {P!NoSession}
<1>1. /\ at[t] > 0 /\ P!Step(t).op = "pool" /\ export = "none"
      /\ written' \in {written, written \cup shared}
      /\ UNCHANGED <<plan, P!channels, state, context, deferred, result, export>>
  BY DEF P!Pool, P!At
<1>2. shared \subseteq Sessions
  BY <1>1, StepShape DEF P!Steps
<1>3. /\ Moved(t) /\ missing' \in {missing, missing \cup shared}
      /\ faults' \in 0 .. MaxStops
  <2>1. CASE P!Advance(t) /\ UNCHANGED <<missing, failed, faults>>
    BY <1>1, <2>1, AdvanceMoves DEF P!TypeOK
  <2>2. CASE P!Fault /\ P!Leave(t) /\ UNCHANGED missing
    <3>1. Moved(t)
      BY <1>1, <2>2, LeaveMoves DEF P!Steady
    <3> QED
      BY <2>2, <3>1, FaultType
  <2>3. CASE P!Fault /\ P!Advance(t) /\ UNCHANGED failed /\ missing' = missing \cup shared
    BY <1>1, <2>3, AdvanceMoves, PlanShape DEF P!TypeOK, P!Fault
  <2> QED
    BY <2>1, <2>2, <2>3 DEF P!Pool
<1>4. Sends(t) /\ Settled(t) /\ Files(t)
  BY <1>1, <1>3 DEF Sends, Settled, Files, P!channels, P!Writes
<1> HIDE DEF shared
<1> QED
  BY <1>1, <1>2, <1>3, <1>4, EffectOf DEF P!TypeOK, P!channels

LEMMA GiveEffect ==
    ASSUME P!TypeOK, Returning, NEW t \in P!Threads, P!Give(t)
    PROVE  Effect(t)
<1>1. /\ at[t] > 0 /\ P!Step(t).op = "give" /\ export = "none"
      /\ queue' = queue + 1 /\ P!Advance(t)
      /\ \/ queue < plan.room
         \/ plan.room = 0 /\ queue = 0 /\ \E h \in P!Threads : P!At(h, "receive")
      /\ UNCHANGED <<plan, failed, closed, answer, P!files, result, export, faults>>
  BY DEF P!Give, P!At
<1>2. queue' \in 0 .. plan.room + 1 /\ (queue < plan.room => plan.room # 0)
  BY <1>1, PlanShape DEF P!TypeOK
<1>3. Moved(t)
  BY <1>1, AdvanceMoves
<1>4. Sends(t) /\ Settled(t) /\ Files(t)
  BY <1>1, <1>2 DEF Sends, Settled, Files, P!files
<1> QED
  BY <1>1, <1>2, <1>3, <1>4, EffectOf DEF P!TypeOK, P!files

LEMMA CloseEffect ==
    ASSUME P!TypeOK, Returning, NEW t \in P!Threads, P!Close(t)
    PROVE  Effect(t)
<1>1. /\ at[t] > 0 /\ P!Step(t).op = "close" /\ export = "none"
      /\ closed' = TRUE /\ P!Advance(t)
      /\ UNCHANGED <<plan, failed, queue, answer, P!files, result, export, faults>>
  BY DEF P!Close, P!At
<1>2. Moved(t)
  BY <1>1, AdvanceMoves
<1>3. Sends(t) /\ Settled(t) /\ Files(t)
  BY <1>1 DEF Sends, Settled, Files, P!files
<1> QED
  BY <1>1, <1>2, <1>3, EffectOf DEF P!TypeOK, P!files

LEMMA ReceiveEffect ==
    ASSUME P!TypeOK, Returning, NEW t \in P!Threads, P!Receive(t)
    PROVE  Effect(t)
<1> DEFINE handed == {P!Step(t).session} \ {P!NoSession}
<1>1. /\ at[t] > 0 /\ P!Step(t).op = "receive" /\ export = "none"
      /\ queue > 0 /\ queue' = queue - 1
      /\ UNCHANGED <<plan, closed, answer, state, context, deferred, result, export>>
  BY DEF P!Receive, P!At
<1>2. queue' \in 0 .. plan.room + 1
  BY <1>1, PlanShape DEF P!TypeOK
<1>3. /\ Moved(t) /\ Files(t) /\ missing' \subseteq Sessions /\ written' \subseteq Sessions
      /\ faults' \in 0 .. MaxStops
  <2>1. CASE /\ written' \in {written, written \cup handed}
             /\ UNCHANGED <<at, failed, missing, faults>>
    <3>1. /\ at[t] \in 1 .. Last(t) - 1 /\ P!Step(t) \in P!Steps /\ Last(t) \in Nat
          /\ at[t] \in at[t] .. Last(t)
      BY <1>1, StepShape, PlanShape
    <3>2. at' = [at EXCEPT ![t] = at[t]]
      BY <2>1 DEF P!TypeOK
    <3>3. t = "main" => "main" \notin failed'
      BY <2>1, <3>1 DEF Returning
    <3>4. \A m \in (at[t] + 1) .. Last(t) : ~ (m < at[t])
      BY <3>1
    <3>5. Skips(t, at[t])
      BY <3>4 DEF Skips
    <3>6. Moved(t)
      BY <1>1, <2>1, <3>1, <3>2, <3>3, <3>5 DEF Moved, P!Steady
    <3>7. Files(t) /\ missing' \subseteq Sessions /\ written' \subseteq Sessions
      BY <1>1, <2>1, <3>1 DEF Files, P!Writes, P!TypeOK, P!Steps
    <3> QED
      BY <2>1, <3>6, <3>7 DEF P!TypeOK
  <2>2. CASE P!Fault /\ P!Lacks(t) /\ P!Leave(t) /\ UNCHANGED written
    <3>1. Moved(t) /\ t \in failed'
      BY <1>1, <2>2, LeaveMoves DEF P!Steady
    <3>2. missing' \subseteq Sessions /\ faults' \in 0 .. MaxStops
      BY <1>1, <2>2, StepShape, PlanShape DEF P!Lacks, P!Fault, P!TypeOK, P!Steps
    <3>3. Files(t)
      BY <1>1, <2>2, <3>1 DEF Files, P!Lacks, P!Touches
    <3> QED
      BY <2>2, <3>1, <3>2, <3>3 DEF P!TypeOK
  <2> QED
    BY <2>1, <2>2 DEF P!Receive
<1>4. Sends(t) /\ Settled(t)
  BY <1>1 DEF Sends, Settled
<1> QED
  BY <1>1, <1>2, <1>3, <1>4, EffectOf DEF P!TypeOK

LEMMA ReceiveEndsEffect ==
    ASSUME P!TypeOK, Returning, NEW t \in P!Threads, P!ReceiveEnds(t)
    PROVE  Effect(t)
<1>1. /\ at[t] > 0 /\ P!Step(t).op = "receive" /\ export = "none" /\ P!Advance(t)
      /\ UNCHANGED <<plan, failed, P!channels, P!files, result, export, faults>>
  BY DEF P!ReceiveEnds, P!At
<1>2. Moved(t)
  BY <1>1, AdvanceMoves
<1>3. Sends(t) /\ Settled(t) /\ Files(t)
  BY <1>1 DEF Sends, Settled, Files, P!files, P!channels
<1> QED
  BY <1>1, <1>2, <1>3, EffectOf DEF P!TypeOK, P!files, P!channels

LEMMA AnswerEffect ==
    ASSUME P!TypeOK, Returning, NEW t \in P!Threads, P!Answer(t)
    PROVE  Effect(t)
<1>1. /\ at[t] > 0 /\ P!Step(t).op = "answer" /\ export = "none" /\ P!Advance(t)
      /\ answer' \in {"none", "ok", "error"}
      /\ UNCHANGED <<plan, failed, queue, closed, P!files, result, export, faults>>
  BY DEF P!Answer, P!At
<1>2. Moved(t)
  BY <1>1, AdvanceMoves
<1>3. Sends(t) /\ Settled(t) /\ Files(t)
  BY <1>1 DEF Sends, Settled, Files, P!files
<1> QED
  BY <1>1, <1>2, <1>3, EffectOf DEF P!TypeOK, P!files

LEMMA TakeEffect ==
    ASSUME P!TypeOK, Returning, NEW t \in P!Threads, P!Take(t)
    PROVE  Effect(t)
<1>1. /\ at[t] > 0 /\ P!Step(t).op = "take" /\ export = "none"
      /\ UNCHANGED <<plan, P!channels, P!files, result, export, faults>>
  BY DEF P!Take, P!At
<1>2. Moved(t)
  BY <1>1, AdvanceMoves, GoesMoves DEF P!Take
<1>3. Sends(t) /\ Settled(t) /\ Files(t)
  BY <1>1 DEF Sends, Settled, Files, P!files, P!channels
<1> QED
  BY <1>1, <1>2, <1>3, EffectOf DEF P!TypeOK, P!files, P!channels

LEMMA WaitEffect ==
    ASSUME P!TypeOK, Returning, P!Wait
    PROVE  Effect("main")
<1>0. "main" \in P!Threads
  BY DEF P!Threads
<1>1. /\ at["main"] > 0 /\ P!Step("main").op = "wait" /\ export = "none" /\ P!Advance("main")
      /\ \A t \in P!Helpers : P!Ended(t) \/ P!Answers(t)
      /\ UNCHANGED <<plan, failed, P!channels, P!files, result, export, faults>>
  BY DEF P!Wait, P!At
<1>2. Moved("main")
  BY <1>0, <1>1, AdvanceMoves
<1>3. Sends("main") /\ Settled("main") /\ Files("main")
  BY <1>1 DEF Sends, Settled, Files, P!files, P!channels
<1>4. Waited
  <2> SUFFICES ASSUME NEW u \in P!Threads \ {"main"}, P!Awaited(plan, u), at[u] # 0
               PROVE  at[u] = Last(u)
    BY DEF Waited
  <2>1. u \in P!Helpers
    BY PlanShape DEF P!Helpers
  <2>2. ~ P!Answers(u)
    BY PlanShape DEF P!Answers, P!Awaited, Last
  <2> QED
    BY <1>1, <2>1, <2>2 DEF P!Ended, Last
<1> QED
  BY <1>0, <1>1, <1>2, <1>3, <1>4, EffectOf DEF P!TypeOK, P!files, P!channels

LEMMA ThreadEffect ==
    ASSUME P!TypeOK, Returning, NEW t \in P!Threads, P!ThreadStep(t)
    PROVE  Effect(t) \/ P!EndDeferred(t)
BY AskEffect, OpenEffect, OpenFailsEffect, DeferEffect, FillEffect, EndEffect, PoolEffect,
   GiveEffect, CloseEffect, ReceiveEffect, ReceiveEndsEffect, AnswerEffect, TakeEffect
   DEF P!ThreadStep

----------------------------------------------------------------------------
(* The steps of a thread keep the invariant. *)

LEMMA EffectAt ==
    ASSUME P!TypeOK, NEW t \in P!Threads, Effect(t)
    PROVE  /\ \A u \in P!Threads :
                /\ at[u] \in Nat /\ at'[u] \in Nat /\ at'[u] >= at[u]
                /\ u # t => at'[u] = at[u]
                /\ Last(u) \in Nat \ {0} /\ at'[u] <= Last(u)
           /\ at[t] \in 1 .. Last(t) - 1 /\ P!Step(t) \in P!Steps
           /\ failed \subseteq failed' /\ failed' \subseteq failed \cup {t}
           /\ t = "main" =>
                /\ "main" \in failed' => at'["main"] = Last("main")
                /\ P!Steady(P!Step(t)) => at'["main"] = at["main"] + 1
                /\ "main" \in failed' \/ Skips("main", at'["main"])
<1>1. PICK k \in at[t] .. Last(t) :
        /\ at' = [at EXCEPT ![t] = k]
        /\ failed' \in {failed, failed \cup {t}}
        /\ t = "main" =>
            /\ "main" \in failed' => k = Last(t)
            /\ P!Steady(P!Step(t)) => k = at[t] + 1
            /\ "main" \in failed' \/ Skips(t, k)
  BY DEF Effect, Moved
<1>2. /\ at[t] \in 1 .. Last(t) - 1 /\ P!Step(t) \in P!Steps
      /\ \A u \in P!Threads : Last(u) \in Nat \ {0} /\ at[u] \in 0 .. Last(u)
      /\ at \in [P!Threads -> Nat]
  BY PlanShape DEF Effect, Moved, P!TypeOK
<1>3. at'[t] = k /\ k \in Nat /\ k >= at[t] /\ k <= Last(t)
  BY <1>1, <1>2
<1>4. \A u \in P!Threads : u # t => at'[u] = at[u]
  BY <1>1, <1>2
<1>5. \A u \in P!Threads :
        /\ at[u] \in Nat /\ at'[u] \in Nat /\ at'[u] >= at[u]
        /\ Last(u) \in Nat \ {0} /\ at'[u] <= Last(u)
  BY <1>2, <1>3, <1>4
<1> QED
  BY <1>1, <1>2, <1>3, <1>4, <1>5

LEMMA EffectReturning ==
    ASSUME PlanInv, NEW t \in P!Threads, Effect(t)
    PROVE  Returning'
<1>0. P!TypeOK /\ Returning
  BY DEF PlanInv
<1>1. UNCHANGED <<plan, result, export>> /\ export = "none" /\ P!Step(t).op # "start"
  BY DEF Effect
<1>2. /\ at["main"] \in Nat /\ at'["main"] \in Nat /\ at'["main"] >= at["main"]
      /\ t # "main" => at'["main"] = at["main"]
      /\ Last("main") \in Nat
      /\ at[t] \in 1 .. Last(t) - 1
      /\ failed \subseteq failed' /\ failed' \subseteq failed \cup {t}
      /\ t = "main" => ("main" \in failed' => at'["main"] = Last("main"))
  BY <1>0, EffectAt, PlanShape
<1>3. at'["main"] > 0
  BY <1>0, <1>2 DEF Returning
<1>4. result # "none" \/ "main" \in failed => t # "main"
  BY <1>0, <1>2 DEF Returning
<1>5. "main" \in failed' \/ result' # "none" => at'["main"] = Last("main")
  BY <1>0, <1>1, <1>2, <1>4 DEF Returning
<1>6. result' # "none" => (result' = "error" <=> "main" \in failed')
  BY <1>0, <1>1, <1>2, <1>4 DEF Returning
<1>7. ASSUME NEW n \in at'["main"] .. Last("main"), P!Main(plan)[n].op = "start",
             NEW u \in P!Threads \ {"main"}
      PROVE  at'[u] = 0
  <2>1. n \in at["main"] .. Last("main")
    BY <1>2
  <2>2. \A h \in P!Threads \ {"main"} : at[h] = 0
    BY <1>0, <1>7, <2>1 DEF Returning
  <2>3. t = "main"
    BY <1>2, <2>2
  <2> QED
    BY <1>0, <2>2, <2>3, EffectAt
<1> QED
  BY <1>1, <1>3, <1>5, <1>6, <1>7 DEF Returning, Last

LEMMA EffectJoining ==
    ASSUME PlanInv, NEW t \in P!Threads, Effect(t)
    PROVE  Joining'
<1>0. P!TypeOK /\ Joining
  BY DEF PlanInv
<1>1. plan' = plan /\ (P!Step(t).op = "wait" => t = "main" /\ Waited)
  BY DEF Effect
<1> SUFFICES ASSUME NEW u \in P!Threads \ {"main"}, P!Awaited(plan, u),
                    at'[u] \notin {0, Last(u)}
             PROVE  P!Joins(plan, at'["main"])
  BY <1>1 DEF Joining, Last
<1>2. /\ at[t] \in 1 .. Last(t) - 1 /\ Last(t) \in Nat
      /\ u # t => at'[u] = at[u]
      /\ t # "main" => at'["main"] = at["main"]
      /\ t = "main" => (P!Steady(P!Step(t)) => at'["main"] = at["main"] + 1)
  BY <1>0, EffectAt, PlanShape
<1>3. at[u] \notin {0, Last(u)}
  BY <1>2
<1>4. P!Joins(plan, at["main"]) /\ P!Step(t).op # "wait"
  BY <1>0, <1>1, <1>3 DEF Joining, Waited
<1>5. CASE t # "main"
  BY <1>2, <1>4, <1>5
<1>6. CASE t = "main"
  <2>1. PICK w \in at["main"] .. Len(P!Main(plan)) :
          /\ P!Main(plan)[w].op = "wait"
          /\ \A m \in at["main"] .. (w - 1) : P!Steady(P!Main(plan)[m])
    BY <1>4 DEF P!Joins
  <2>2. at["main"] \in Nat /\ Len(P!Main(plan)) \in Nat /\ P!Step(t) = P!Main(plan)[at["main"]]
    BY <1>0, <1>6, PlanShape DEF Last, P!Main, P!Step
  <2>3. w # at["main"]
    BY <1>4, <2>1, <2>2
  <2>4. at["main"] \in at["main"] .. (w - 1)
    BY <2>1, <2>2, <2>3
  <2>5. at'["main"] = at["main"] + 1
    BY <1>2, <1>6, <2>1, <2>2, <2>4
  <2>6. /\ w \in at'["main"] .. Len(P!Main(plan))
        /\ \A m \in at'["main"] .. (w - 1) : m \in at["main"] .. (w - 1)
    BY <2>1, <2>2, <2>3, <2>5
  <2> QED
    BY <2>1, <2>6 DEF P!Joins
<1> QED
  BY <1>5, <1>6

LEMMA EffectDeferring ==
    ASSUME PlanInv, NEW t \in P!Threads, Effect(t)
    PROVE  Deferring'
<1>1. /\ P!TypeOK /\ Deferring /\ plan' = plan
      /\ deferred' = IF P!Step(t).op = "defer" THEN deferred \cup {<<t, P!Step(t).session>>}
                                             ELSE deferred
  BY DEF PlanInv, Effect, Settled
<1>2. at[t] \in DOMAIN plan.threads[t]
  BY <1>1, EffectAt, PlanShape
<1> QED
  BY <1>1, <1>2 DEF Deferring, P!Step

LEMMA EffectClosing ==
    ASSUME PlanInv, NEW t \in P!Threads, Effect(t)
    PROVE  Closing'
<1>0. P!TypeOK /\ Closing /\ Returning
  BY DEF PlanInv
<1>1. plan' = plan /\ result' = result /\ Settled(t)
  BY DEF Effect
<1> SUFFICES ASSUME NEW s \in Sessions, P!Closes(plan, s), state'[s] = "open",
                    "main" \notin failed'
             PROVE  result = "none" /\ Pending(s)'
  BY <1>1 DEF Closing
<1>2. /\ at[t] \in 1 .. Last(t) - 1 /\ Last(t) \in Nat /\ Last("main") \in Nat
      /\ at["main"] \in Nat /\ at'["main"] \in Nat /\ at'["main"] >= at["main"]
      /\ t # "main" => at'["main"] = at["main"]
      /\ failed \subseteq failed'
      /\ t = "main" => Skips("main", at'["main"])
      /\ at[t] \in DOMAIN plan.threads[t]
      /\ P!Step(t) = plan.threads[t][at[t]] /\ Last("main") = Len(P!Main(plan))
  BY <1>0, EffectAt, PlanShape DEF P!Step, Last, P!Main
<1>3. t = "main" => result = "none"
  BY <1>0, <1>2 DEF Returning
<1>4. deferred \subseteq deferred'
  BY <1>1 DEF Settled
<1>5. ASSUME NEW m \in at["main"] .. Last("main"), P!Ends(P!Main(plan)[m], s),
             m # at["main"] \/ t # "main"
      PROVE  Pending(s)'
  <2>1. m >= at'["main"]
    BY <1>2, <1>5 DEF Skips
  <2>2. m \in at'["main"] .. Last("main")
    BY <1>2, <1>5, <2>1
  <2> QED
    BY <1>1, <1>5, <2>2 DEF Pending, Last
<1>6. CASE P!Opens(P!Step(t), s)
  <2>1. PICK m \in (at[t] + 1) .. Len(P!Main(plan)) : P!Ends(P!Main(plan)[m], s)
    BY <1>2, <1>6 DEF P!Closes
  <2>2. t = "main"
    BY <1>2, <1>6 DEF P!Closes
  <2> QED
    BY <1>2, <1>3, <1>5, <2>1, <2>2
<1>7. CASE ~ P!Opens(P!Step(t), s)
  <2>1. state[s] = "open"
    BY <1>0, <1>1, <1>7 DEF Settled, P!Opens, P!TypeOK
  <2>2. result = "none" /\ Pending(s)
    BY <1>0, <1>2, <2>1 DEF Closing
  <2>3. CASE <<"main", s>> \in deferred
    BY <1>4, <2>2, <2>3 DEF Pending
  <2>4. ASSUME NEW m \in at["main"] .. Last("main"), P!Ends(P!Main(plan)[m], s)
        PROVE  Pending(s)'
    <3>1. CASE m = at["main"] /\ t = "main"
      <4>1. P!Ends(P!Step(t), s) /\ t \notin failed'
        BY <1>2, <2>4, <3>1 DEF P!Main
      <4>2. CASE P!Step(t).op = "end"
        BY <1>0, <1>1, <1>7, <4>1, <4>2 DEF Settled, P!Ends, P!TypeOK
      <4>3. CASE P!Step(t).op = "defer"
        BY <1>1, <3>1, <4>1, <4>3 DEF Settled, P!Ends, Pending
      <4> QED
        BY <4>1, <4>2, <4>3 DEF P!Ends
    <3> QED
      BY <1>5, <2>4, <3>1
  <2> QED
    BY <2>2, <2>3, <2>4 DEF Pending
<1> QED
  BY <1>6, <1>7

\* After the return neither the function nor a helper that it has waited for goes on.
LEMMA AfterReturn ==
    ASSUME PlanInv, NEW t \in P!Threads, at[t] \in 1 .. Last(t) - 1, result # "none"
    PROVE  t # "main" /\ ~ P!Awaited(plan, t)
<1>0. P!TypeOK /\ Returning /\ Joining
  BY DEF PlanInv
<1>1. /\ at["main"] = Last("main") /\ Last("main") \in Nat \ {0} /\ Last(t) \in Nat
      /\ Last("main") = Len(P!Main(plan)) /\ P!Main(plan)[Last("main")].op = "finish"
  BY <1>0, PlanShape DEF Returning, Last, P!Main
<1>2. t # "main"
  BY <1>1
<1>3. ~ P!Joins(plan, at["main"])
  BY <1>1 DEF P!Joins
<1>4. at[t] \notin {0, Last(t)}
  BY <1>1
<1> QED
  BY <1>0, <1>2, <1>3, <1>4 DEF Joining

LEMMA EffectTooLate ==
    ASSUME PlanInv, NEW t \in P!Threads, Effect(t)
    PROVE  TooLate'
<1>0. P!TypeOK /\ TooLate
  BY DEF PlanInv
<1>1. plan' = plan /\ Sends(t) /\ Files(t)
  BY DEF Effect
<1> SUFFICES ASSUME NEW s \in Sessions, NEW u \in P!Threads, NEW n \in DOMAIN plan.threads[u],
                    P!Late(plan, s, u, n), at'[u] <= n
             PROVE  s \notin written' /\ queue' = 0
  BY <1>1 DEF TooLate
<1>2. /\ at[u] \in Nat /\ at'[u] \in Nat /\ at'[u] >= at[u]
      /\ n \in Nat
      /\ \A h \in P!Threads : at[h] > 0 =>
            at[h] \in DOMAIN plan.threads[h] /\ P!Step(h) = plan.threads[h][at[h]]
      /\ at[t] > 0
  BY <1>0, EffectAt, PlanShape DEF P!Step
<1>3. at[u] <= n
  BY <1>2
<1>4. s \notin written /\ queue = 0
  BY <1>0, <1>3 DEF TooLate
<1>5. ASSUME NEW h \in P!Threads PROVE ~ P!At(h, "receive")
  <2> SUFFICES ASSUME at[h] > 0, P!Step(h).op = "receive" PROVE FALSE
    BY DEF P!At
  <2>1. h = u /\ at[h] > n
    BY <1>2 DEF P!Late
  <2> QED
    BY <1>2, <1>3, <2>1
<1>6. queue' = 0
  BY <1>1, <1>4, <1>5 DEF Sends, P!Late
<1>7. s \notin written'
  <2> SUFFICES ASSUME s \in written' PROVE FALSE
    OBVIOUS
  <2>1. P!Writes(P!Step(t), s) /\ P!Step(t).op # "receive"
    BY <1>1, <1>4 DEF Files
  <2>2. P!Step(t).op \in {"fill", "pool"} /\ P!Step(t).session = s
    BY <2>1 DEF P!Writes
  <2> QED
    BY <1>2, <2>2 DEF P!Late
<1> QED
  BY <1>6, <1>7

LEMMA EffectPooling ==
    ASSUME PlanInv, NEW t \in P!Threads, Effect(t)
    PROVE  Pooling'
<1>0. P!TypeOK /\ Pooling /\ TooLate
  BY DEF PlanInv
<1>1. plan' = plan /\ result' = result /\ Settled(t) /\ Sends(t) /\ Files(t)
  BY DEF Effect
<1> SUFFICES ASSUME NEW s \in Sessions, P!Pools(plan, s), state'[s] = "open"
             PROVE  \/ result = "none" /\ s \in context'
                    \/ /\ result # "none" /\ OpensLate(s)
                       /\ s \notin written' /\ queue' = 0
  BY <1>1 DEF Pooling, OpensLate
<1>2. /\ at[t] \in 1 .. Last(t) - 1 /\ Last(t) \in Nat
      /\ at[t] \in DOMAIN plan.threads[t] /\ P!Step(t) = plan.threads[t][at[t]]
  BY <1>0, EffectAt, PlanShape DEF P!Step
<1>3. \/ result = "none" /\ s \in context'
      \/ result # "none" /\ OpensLate(s) /\ s \notin written /\ queue = 0
  <2>1. CASE P!Opens(P!Step(t), s)
    <3>1. /\ P!Step(t).op = "context"
          /\ t = "main" \/ P!Awaited(plan, t) \/ P!Late(plan, s, t, at[t])
      BY <1>2, <2>1 DEF P!Pools
    <3>2. CASE result = "none"
      <4>1. s \in context' \/ state' = state
        BY <1>1, <2>1, <3>1 DEF Settled, P!Opens
      <4>2. state[s] = "open" => s \in context
        BY <1>0, <3>2 DEF Pooling
      <4> QED
        BY <1>1, <3>2, <4>1, <4>2 DEF Settled
    <3>3. CASE result # "none"
      <4>1. P!Late(plan, s, t, at[t])
        BY <1>2, <3>1, <3>3, AfterReturn
      <4>2. s \notin written /\ queue = 0
        BY <1>0, <1>2, <4>1 DEF TooLate
      <4> QED
        BY <1>2, <3>3, <4>1, <4>2 DEF OpensLate
    <3> QED
      BY <3>2, <3>3
  <2>2. CASE ~ P!Opens(P!Step(t), s)
    <3>1. state[s] = "open"
      BY <1>0, <1>1, <2>2 DEF Settled, P!Opens, P!TypeOK
    <3> QED
      BY <1>0, <1>1, <3>1 DEF Pooling, Settled
  <2> QED
    BY <2>1, <2>2
<1>4. ASSUME result # "none", OpensLate(s), s \notin written, queue = 0
      PROVE  s \notin written' /\ queue' = 0
  <2>0. PICK u \in P!Threads : \E n \in DOMAIN plan.threads[u] : P!Late(plan, s, u, n)
    BY <1>4 DEF OpensLate
  <2>1. PICK n \in DOMAIN plan.threads[u] : P!Late(plan, s, u, n)
    BY <2>0
  <2>2. P!Step(t).op # "give"
    <3>1. P!Step(t).op = "give" => t = "main" \/ P!Awaited(plan, t)
      BY <1>2, <2>1 DEF P!Late
    <3> QED
      BY <1>2, <1>4, <3>1, AfterReturn
  <2>3. ~ (P!Step(t).op \in {"fill", "pool"} /\ P!Step(t).session = s)
    BY <1>2, <2>1 DEF P!Late
  <2>4. queue' = 0
    BY <1>1, <1>4, <2>2 DEF Sends
  <2>5. s \notin written'
    BY <1>1, <1>4, <2>3 DEF Files, P!Writes
  <2> QED
    BY <2>4, <2>5
<1> QED
  BY <1>3, <1>4

LEMMA EffectUntouched ==
    ASSUME PlanInv, NEW t \in P!Threads, Effect(t)
    PROVE  Untouched'
<1>1. P!TypeOK /\ Untouched /\ plan' = plan /\ Files(t)
  BY DEF PlanInv, Effect
<1>2. at[t] \in DOMAIN plan.threads[t] /\ P!Step(t) = plan.threads[t][at[t]]
  BY <1>1, EffectAt, PlanShape DEF P!Step
<1> QED
  BY <1>1, <1>2 DEF Untouched, Files, P!Unused

LEMMA EffectEnding ==
    ASSUME PlanInv, NEW t \in P!Threads, Effect(t)
    PROVE  Ending'
<1>0. P!TypeOK /\ Ending
  BY DEF PlanInv
<1>1. plan' = plan /\ Settled(t)
  BY DEF Effect
<1> SUFFICES ASSUME NEW s \in Sessions, P!Fails(plan, s), state'[s] = "ended",
                    NEW m \in at'["main"] .. Last("main"), P!Touches(P!Main(plan)[m], s)
             PROVE  FALSE
  BY <1>1 DEF Ending, Last
<1>2. /\ at[t] \in 1 .. Last(t) - 1 /\ Last(t) \in Nat /\ Last("main") \in Nat
      /\ at["main"] \in Nat /\ at'["main"] \in Nat /\ at'["main"] >= at["main"]
      /\ at[t] \in DOMAIN plan.threads[t] /\ P!Step(t) = plan.threads[t][at[t]]
      /\ Last("main") = Len(P!Main(plan))
  BY <1>0, EffectAt, PlanShape DEF P!Step, Last, P!Main
<1>3. m \in at["main"] .. Last("main")
  BY <1>2
<1>4. state[s] # "ended"
  BY <1>0, <1>3 DEF Ending
<1>5. P!Step(t).op = "end" /\ P!Step(t).session = s
  BY <1>0, <1>1, <1>4 DEF Settled, P!TypeOK
<1>6. t = "main" /\ \A k \in (at[t] + 1) .. Len(P!Main(plan)) : ~ P!Touches(P!Main(plan)[k], s)
  BY <1>2, <1>5 DEF P!Fails
<1>7. ~ P!Touches(P!Main(plan)[at["main"]], s)
  BY <1>2, <1>5, <1>6 DEF P!Touches, P!Main
<1> QED
  BY <1>2, <1>3, <1>6, <1>7

LEMMA EffectMissed ==
    ASSUME PlanInv, NEW t \in P!Threads, Effect(t)
    PROVE  Missed'
<1>0. P!TypeOK /\ Missed /\ Ending /\ Returning
  BY DEF PlanInv
<1>1. plan' = plan /\ Settled(t) /\ Files(t) /\ P!TypeOK'
  BY DEF Effect
<1> SUFFICES ASSUME NEW s \in missing', P!Fails(plan, s)
             PROVE  "main" \in failed' /\ state'[s] # "ended"
  BY <1>1 DEF Missed
<1>2. /\ at[t] \in 1 .. Last(t) - 1 /\ Last(t) \in Nat /\ Last("main") \in Nat
      /\ at["main"] \in Nat
      /\ at[t] \in DOMAIN plan.threads[t] /\ P!Step(t) = plan.threads[t][at[t]]
      /\ failed \subseteq failed'
  BY <1>0, EffectAt, PlanShape DEF P!Step
<1>3. s \in Sessions
  BY <1>1 DEF P!TypeOK
<1>4. CASE s \in missing
  <2>1. "main" \in failed /\ state[s] # "ended"
    BY <1>0, <1>4 DEF Missed
  <2>2. t # "main"
    BY <1>0, <1>2, <2>1 DEF Returning
  <2>3. ~ (P!Step(t).op = "end" /\ P!Step(t).session = s)
    BY <1>2, <2>2 DEF P!Fails
  <2> QED
    BY <1>0, <1>1, <1>2, <1>3, <2>1, <2>3 DEF Settled, P!TypeOK
<1>5. CASE s \notin missing
  <2>1. \/ P!Step(t).op = "pool" /\ P!Step(t).session = s
        \/ P!Touches(P!Step(t), s) /\ (P!Step(t).errors \subseteq {"return"} => t \in failed')
    BY <1>1, <1>5 DEF Files
  <2>2. P!Touches(P!Step(t), s) /\ t = "main" /\ "main" \in failed'
    BY <1>2, <2>1 DEF P!Fails
  <2>3. at["main"] \in at["main"] .. Last("main") /\ P!Step(t) = P!Main(plan)[at["main"]]
    BY <1>2, <2>2 DEF P!Main
  <2>4. state[s] # "ended"
    BY <1>0, <1>3, <2>2, <2>3 DEF Ending
  <2> QED
    BY <1>0, <1>1, <1>3, <2>2, <2>4 DEF Settled, P!Touches, P!TypeOK
<1> QED
  BY <1>4, <1>5

LEMMA EffectKeeps ==
    ASSUME PlanInv, NEW t \in P!Threads, Effect(t)
    PROVE  PlanInv'
<1>1. P!TypeOK'
  BY DEF Effect
<1> QED
  BY <1>1, EffectReturning, EffectJoining, EffectDeferring, EffectClosing, EffectPooling,
     EffectTooLate, EffectUntouched, EffectEnding, EffectMissed DEF PlanInv

----------------------------------------------------------------------------
(* The other steps. *)

LEMMA EndDeferredKeeps ==
    ASSUME PlanInv, NEW t \in P!Threads, P!EndDeferred(t)
    PROVE  PlanInv'
<1>1. PICK s \in Sessions :
        /\ <<t, s>> \in deferred
        /\ deferred' = deferred \ {<<t, s>>}
        /\ state' = [state EXCEPT ![s] = "ended"]
  BY DEF P!EndDeferred
<1>2. UNCHANGED <<plan, at, failed, P!channels, context, written, missing, result,
                  export, faults>>
  BY DEF P!EndDeferred
<1>3. P!TypeOK /\ state'[s] = "ended" /\ \A q \in Sessions : q # s => state'[q] = state[q]
  BY <1>1 DEF PlanInv, P!TypeOK
<1>4. P!TypeOK'
  BY <1>1, <1>2 DEF PlanInv, P!TypeOK, P!channels
<1>5. ~ P!Fails(plan, s)
  <2>1. PICK n \in DOMAIN plan.threads[t] :
          plan.threads[t][n].op = "defer" /\ plan.threads[t][n].session = s
    BY <1>1 DEF PlanInv, Deferring
  <2> QED
    BY <2>1 DEF P!Fails
<1>6. Returning' /\ Joining' /\ TooLate' /\ Untouched' /\ Deferring'
  BY <1>1, <1>2 DEF PlanInv, Returning, Joining, TooLate, Untouched, Deferring, P!channels, Last
<1>7. Closing'
  <2> SUFFICES ASSUME NEW q \in Sessions, P!Closes(plan, q), state'[q] = "open",
                      "main" \notin failed
               PROVE  result = "none" /\ Pending(q)'
    BY <1>2 DEF Closing
  <2>1. q # s /\ state[q] = "open"
    BY <1>3
  <2>2. result = "none" /\ Pending(q)
    BY <2>1 DEF PlanInv, Closing
  <2> QED
    BY <1>1, <1>2, <2>1, <2>2 DEF Pending, Last
<1>8. Pooling'
  BY <1>2, <1>3 DEF PlanInv, Pooling, OpensLate, P!channels
<1>9. Ending' /\ Missed'
  <2>1. \A q \in Sessions : P!Fails(plan, q) => state'[q] = state[q]
    BY <1>3, <1>5
  <2>2. Ending'
    BY <1>2, <2>1 DEF PlanInv, Ending, Last
  <2>3. missing \subseteq Sessions
    BY <1>3 DEF P!TypeOK
  <2>4. Missed'
    BY <1>2, <2>1, <2>3 DEF PlanInv, Missed
  <2> QED
    BY <2>2, <2>4
<1> QED
  BY <1>4, <1>6, <1>7, <1>8, <1>9 DEF PlanInv

LEMMA StartKeeps ==
    ASSUME PlanInv, P!Start
    PROVE  PlanInv'
<1>0. P!TypeOK /\ Returning
  BY DEF PlanInv
<1>1. /\ at["main"] > 0 /\ P!Step("main").op = "start"
      /\ at' = [t \in P!Threads |->
                  IF t = "main" THEN at[t] + 1
                  ELSE IF Len(plan.threads[t]) > 1 THEN 1 ELSE 0]
      /\ UNCHANGED <<plan, failed, P!channels, P!files, result, export, faults>>
  BY DEF P!Start, P!At
<1>2. /\ "main" \in P!Threads /\ at["main"] \in 1 .. Last("main") - 1
      /\ Last("main") \in Nat /\ Last("main") = Len(P!Main(plan))
      /\ DOMAIN P!Main(plan) = 1 .. Last("main")
      /\ P!Main(plan)[at["main"]].op = "start"
  BY <1>0, <1>1, StepShape, PlanShape DEF Last, P!Main, P!Step
<1>3. at'["main"] = at["main"] + 1 /\ at'["main"] \in 1 .. Last("main")
  BY <1>1, <1>2
<1>4. \A t \in P!Threads \ {"main"} : at[t] = 0 /\ at'[t] \in {0, 1}
  <2>1. at["main"] \in at["main"] .. Last("main")
    BY <1>2
  <2>2. \A t \in P!Threads \ {"main"} : at[t] = 0
    BY <1>0, <1>2, <2>1 DEF Returning
  <2> QED
    BY <1>1, <2>2
<1>5. P!TypeOK'
  <2>1. at' \in [P!Threads -> Nat] /\ \A t \in P!Threads : at'[t] <= Len(plan.threads[t])
    <3>1. \A t \in P!Threads : Len(plan.threads[t]) \in Nat
      BY <1>0, PlanShape DEF Last
    <3> QED
      BY <1>1, <1>2, <1>3, <3>1 DEF Last
  <2> QED
    BY <1>0, <1>1, <2>1 DEF P!TypeOK, P!channels, P!files
<1>6. "main" \notin failed /\ result = "none"
  BY <1>0, <1>2 DEF Returning
<1>7. Returning'
  <2>1. ASSUME NEW n \in at'["main"] .. Last("main"), P!Main(plan)[n].op = "start"
        PROVE  FALSE
    <3>1. n \in DOMAIN P!Main(plan) /\ at["main"] \in DOMAIN P!Main(plan) /\ n # at["main"]
      BY <1>2, <1>3
    <3> QED
      BY <1>0, <1>2, <2>1, <3>1, PlanShape DEF P!Possible
  <2> QED
    BY <1>0, <1>1, <1>3, <1>6, <2>1 DEF Returning, Last
<1>8. Joining'
  <2>1. ASSUME NEW t \in P!Threads, P!Awaited(plan, t) PROVE P!Joins(plan, at'["main"])
    BY <1>2, <1>3, <2>1 DEF P!Awaited
  <2> QED
    BY <1>1, <2>1 DEF Joining
<1>9. Deferring' /\ Untouched' /\ Missed' /\ Pooling'
  BY <1>1 DEF PlanInv, Deferring, Untouched, Missed, Pooling, OpensLate, P!channels, P!files
<1>10. Closing'
  <2> SUFFICES ASSUME NEW s \in Sessions, P!Closes(plan, s), state[s] = "open",
                      "main" \notin failed
               PROVE  result = "none" /\ Pending(s)'
    BY <1>1 DEF Closing, P!files
  <2>1. result = "none" /\ Pending(s)
    BY DEF PlanInv, Closing
  <2>2. ~ P!Ends(P!Main(plan)[at["main"]], s)
    BY <1>2 DEF P!Ends
  <2>3. \A m \in at["main"] .. Last("main") : m # at["main"] => m \in at'["main"] .. Last("main")
    BY <1>2, <1>3
  <2> QED
    BY <1>1, <2>1, <2>2, <2>3 DEF Pending, Last, P!files
<1>11. Ending'
  <2>1. \A m \in at'["main"] .. Last("main") : m \in at["main"] .. Last("main")
    BY <1>2, <1>3
  <2> QED
    BY <1>1, <2>1 DEF PlanInv, Ending, Last, P!files
<1>12. TooLate'
  <2>1. \A t \in P!Threads : at[t] \in Nat /\ at'[t] \in Nat /\ at[t] <= at'[t]
    BY <1>2, <1>3, <1>4
  <2> SUFFICES ASSUME NEW s \in Sessions, NEW u \in P!Threads,
                      NEW n \in DOMAIN plan.threads[u], P!Late(plan, s, u, n), at'[u] <= n
               PROVE  s \notin written /\ queue = 0
    BY <1>1 DEF TooLate, P!channels, P!files
  <2>2. n \in Nat
    BY <1>0, PlanShape
  <2>3. at[u] <= n
    BY <2>1, <2>2
  <2> QED
    BY <2>3 DEF PlanInv, TooLate
<1> QED
  BY <1>5, <1>7, <1>8, <1>9, <1>10, <1>11, <1>12 DEF PlanInv

LEMMA ReturnKeeps ==
    ASSUME PlanInv, P!Return
    PROVE  PlanInv'
<1>0. P!TypeOK /\ Returning
  BY DEF PlanInv
<1>1. /\ at["main"] > 0 /\ P!Step("main").op = "finish" /\ export = "none" /\ result = "none"
      /\ \A s \in Sessions : <<"main", s>> \notin deferred
      /\ result' = IF "main" \in failed THEN "error" ELSE "ok"
      /\ state' = [s \in Sessions |->
                      IF s \in context
                      THEN IF "main" \in failed THEN "removed" ELSE "ended"
                      ELSE state[s]]
      /\ context' = {}
      /\ UNCHANGED <<plan, at, failed, P!channels, deferred, written, missing, export, faults>>
  BY DEF P!Return, P!At
<1>2. /\ at["main"] = Last("main") /\ Last("main") \in Nat \ {0}
      /\ P!Main(plan)[at["main"]].op = "finish"
  BY <1>0, <1>1, StepShape, PlanShape DEF P!Main, P!Step
<1>3. \A m \in at["main"] .. Last("main") : P!Main(plan)[m].op = "finish"
  BY <1>2
<1>4. P!TypeOK'
  BY <1>0, <1>1 DEF P!TypeOK, P!channels
<1>5. Returning'
  BY <1>0, <1>1, <1>2 DEF Returning, Last
<1>6. Joining' /\ Deferring' /\ TooLate' /\ Untouched'
  BY <1>1 DEF PlanInv, Joining, Deferring, TooLate, Untouched, Last, P!channels
<1>7. Closing'
  <2> SUFFICES ASSUME NEW s \in Sessions, P!Closes(plan, s), state'[s] = "open",
                      "main" \notin failed
               PROVE  FALSE
    BY <1>1 DEF Closing
  <2>1. state[s] = "open"
    BY <1>1
  <2>2. Pending(s)
    BY <2>1 DEF PlanInv, Closing
  <2> QED
    BY <1>1, <1>3, <2>2 DEF Pending, P!Ends
<1>8. Pooling'
  <2>1. \A s \in Sessions : state'[s] = "open" => state[s] = "open" /\ s \notin context
    BY <1>1
  <2> QED
    BY <1>1, <2>1 DEF PlanInv, Pooling
<1>9. Ending'
  BY <1>1, <1>3 DEF PlanInv, Ending, P!Touches, Last
<1>10. Missed'
  <2>1. missing \subseteq Sessions
    BY <1>0 DEF P!TypeOK
  <2> QED
    BY <1>1, <2>1 DEF PlanInv, Missed
<1> QED
  BY <1>4, <1>5, <1>6, <1>7, <1>8, <1>9, <1>10 DEF PlanInv

LEMMA CheckFilesKeeps ==
    ASSUME PlanInv, P!CheckFiles
    PROVE  PlanInv'
<1>1. /\ result # "none" /\ export' \in {"accepted", "refused"}
      /\ UNCHANGED <<plan, at, failed, P!channels, P!files, result, faults>>
  BY DEF P!CheckFiles
<1> QED
  BY <1>1 DEF PlanInv, P!TypeOK, Returning, Joining, Deferring, Closing, Pooling, TooLate,
              Untouched, Ending, Missed, Pending, OpensLate, Last, P!channels, P!files

LEMMA PlanInit == P!Init => PlanInv
<1> SUFFICES ASSUME P!Init PROVE PlanInv
  OBVIOUS
<1>1. /\ plan \in Plans
      /\ at = [t \in P!Threads |-> IF t = "main" THEN 1 ELSE 0]
      /\ failed = {}
      /\ queue = 0 /\ closed = FALSE /\ answer = "none"
      /\ state = [s \in Sessions |-> "none"]
      /\ context = {} /\ deferred = {}
      /\ written = {} /\ missing = {}
      /\ result = "none" /\ export = "none" /\ faults = 0
  BY DEF P!Init
<1>2. /\ plan.room \in Nat /\ MaxStops \in Nat
      /\ \A t \in P!Threads : Len(plan.threads[t]) \in Nat /\ Len(plan.threads[t]) > 0
  BY <1>1, PlansAssumption DEF P!PlansAssumption, P!IsPlan
<1>3. P!TypeOK
  <2>1. at \in [P!Threads -> Nat]
    BY <1>1
  <2>2. \A t \in P!Threads : at[t] <= Len(plan.threads[t])
    BY <1>1, <1>2
  <2>3. queue \in 0 .. plan.room + 1 /\ faults \in 0 .. MaxStops
    BY <1>1, <1>2
  <2>4. state \in [Sessions -> {"none", "open", "ended", "removed"}]
    BY <1>1
  <2> QED
    BY <1>1, <2>1, <2>2, <2>3, <2>4 DEF P!TypeOK
<1>4. at["main"] = 1 /\ \A t \in P!Threads \ {"main"} : at[t] = 0
  BY <1>1 DEF P!Threads
<1> QED
  BY <1>1, <1>3, <1>4 DEF PlanInv, Returning, Joining, Deferring, Closing, Pooling, TooLate,
                          Untouched, Ending, Missed

\* Each step of the function, of a helper and of the agent keeps the invariant.
LEMMA PlanStep == PlanInv /\ [P!Next]_(P!vars) => PlanInv'
<1> SUFFICES ASSUME PlanInv, [P!Next]_(P!vars) PROVE PlanInv'
  OBVIOUS
<1>0. P!TypeOK /\ Returning /\ "main" \in P!Threads
  BY DEF PlanInv, P!Threads
<1>1. CASE P!MainStep
  BY <1>0, <1>1, StartKeeps, WaitEffect, EffectKeeps, ReturnKeeps, CheckFilesKeeps
     DEF P!MainStep
<1>2. ASSUME NEW t \in P!Threads, P!ThreadStep(t) PROVE PlanInv'
  BY <1>0, <1>2, ThreadEffect, EffectKeeps, EndDeferredKeeps
<1>3. CASE UNCHANGED P!vars
  BY <1>3 DEF PlanInv, P!TypeOK, Returning, Joining, Deferring, Closing, Pooling, TooLate,
              Untouched, Ending, Missed, Pending, OpensLate, Last, P!vars, P!channels, P!files
<1> QED
  BY <1>1, <1>2, <1>3 DEF P!Next

LEMMA PlanInvariant == P!Spec => []PlanInv
BY PlanInit, PlanStep, PTL DEF P!Spec

----------------------------------------------------------------------------
\* The invariant and what is required of a plan give the property: an open session with
\* objects is one that the function ends (it is neither the pool's nor unused), so the
\* function has failed; and whoever lacks objects has failed it too.
LEMMA PlanSettles == PlanInv => P!SessionsSettled
<1> SUFFICES ASSUME PlanInv PROVE P!SessionsSettled
  OBVIOUS
<1>0. P!TypeOK /\ Returning /\ P!Settles(plan)
  BY PlanShape DEF PlanInv
<1>1. P!NothingLeft
  <2> SUFFICES ASSUME export = "refused", NEW s \in Sessions \ plan.leaves,
                      s \in written, state[s] = "open"
               PROVE  result = "error" /\ ~ plan.project
    BY <1>0 DEF P!NothingLeft, P!LeftOpen, P!TypeOK
  <2>1. result # "none"
    BY <1>0 DEF Returning
  <2>2. ~ P!Pools(plan, s)
    BY <2>1 DEF PlanInv, Pooling
  <2>3. ~ P!Unused(plan, s)
    BY DEF PlanInv, Untouched
  <2>4. P!Closes(plan, s)
    BY <1>0, <2>2, <2>3 DEF P!Settles
  <2>5. "main" \in failed
    BY <2>1, <2>4 DEF PlanInv, Closing
  <2> QED
    BY <1>0, <2>1, <2>4, <2>5 DEF Returning, P!Closes
<1>2. P!AcceptedIsComplete
  <2> SUFFICES ASSUME export = "accepted", NEW s \in missing,
                      result = "ok" \/ state[s] = "ended", s \notin plan.misses
               PROVE  FALSE
    BY DEF P!AcceptedIsComplete
  <2>1. P!Fails(plan, s)
    BY <1>0 DEF P!Settles, P!TypeOK
  <2>2. "main" \in failed /\ state[s] # "ended"
    BY <2>1 DEF PlanInv, Missed
  <2> QED
    BY <1>0, <2>2 DEF Returning
<1>3. P!QuietAfterReturn
  <2> SUFFICES ASSUME result # "none", ~ plan.leaks, NEW t \in P!Helpers
               PROVE  P!Ended(t) /\ \A s \in Sessions : <<t, s>> \notin deferred
    BY DEF P!QuietAfterReturn
  <2>1. /\ t \in P!Threads \ {"main"} /\ at[t] > 0
        /\ P!Awaited(plan, t)
        /\ \A n \in DOMAIN plan.threads[t] : plan.threads[t][n].op # "defer"
    BY <1>0 DEF P!Helpers, P!Settles, P!Quiet
  <2>2. at[t] \in 0 .. Last(t) /\ Last(t) \in Nat
    BY <1>0, <2>1, PlanShape
  <2>3. at[t] = Last(t)
    <3> SUFFICES ASSUME at[t] # Last(t) PROVE FALSE
      OBVIOUS
    <3>1. at[t] \in 1 .. Last(t) - 1
      BY <2>1, <2>2
    <3> QED
      BY <2>1, <3>1, AfterReturn
  <2>4. ASSUME NEW s \in Sessions, <<t, s>> \in deferred PROVE FALSE
    BY <2>1, <2>4 DEF PlanInv, Deferring
  <2> QED
    BY <2>3, <2>4 DEF P!Ended, Last
<1> QED
  BY <1>0, <1>1, <1>2, <1>3 DEF P!SessionsSettled

\* For any plans that settle, any sessions and helpers and any number of failing steps:
\* when an integration's Export returns (integrations/*/export.go), no session with
\* objects is left open but by an error, so that the agent does not refuse what was
\* exported (cmdexport/export.go); what it accepts has no checkpoint beyond objects that
\* were not sent; and no goroutine of the integration runs on.  The exceptions are those
\* that a plan names.
THEOREM SessionsAreSettled == P!Spec => []SessionsSettled
BY PlanInvariant, PlanSettles, PTL DEF SessionsSettled

----------------------------------------------------------------------------
(* ExportAnswers.  The invariant says how many answers a request can have  *)
(* at each point of its way.                                               *)

Counts == [success: Nat, failure: Nat, lost: Nat]

\* The part of TypeOK that the proofs need.
AnswersTyped ==
    /\ status \in [A!Numbers -> {"new", "rejected", "queued", "done"}]
    /\ running \in {0} \cup {r \in A!Numbers : status[r] = "queued"}
    /\ step \in A!Steps /\ (step = "idle" <=> running = 0)
    /\ answers \in [A!Numbers -> Counts]
    /\ crashes \in [A!Numbers -> Nat]
    /\ failures \in 0 .. MaxFailures

Given(r) == answers[r].success + answers[r].failure
IsAnswered(r) ==
    status[r] \in {"rejected", "done"} \/ (running = r /\ step = "answered")

\* Before a request is answered it has no more answers than it was interrupted, and
\* then one more.
Counted ==
    \A r \in A!Numbers :
        /\ Given(r) <= crashes[r] + (IF IsAnswered(r) THEN 1 ELSE 0)
        /\ IsAnswered(r) => Given(r) + answers[r].lost > 0
        /\ crashes[r] <= failures /\ answers[r].lost <= failures
        /\ status[r] \in {"new", "rejected"} => answers[r].success = 0

\* Success is answered only after the upload.
Uploaded ==
    /\ step \in {"clean", "succeeded"} => running \in delivered
    /\ A!SuccessIsDelivered

AInv == AnswersTyped /\ Counted /\ Uploaded

LEMMA AnswersInit == A!Init => AInv
<1> SUFFICES ASSUME A!Init PROVE AInv
  OBVIOUS
<1> USE DEF A!Init, A!Answers
<1>1. AnswersTyped
  BY AnswersAssumption DEF A!AnswersAssumption, AnswersTyped, A!Steps, Counts
<1>2. Counted
  BY AnswersAssumption DEF A!AnswersAssumption, Counted, Given, IsAnswered
<1>3. Uploaded
  BY DEF Uploaded, A!SuccessIsDelivered
<1> QED
  BY <1>1, <1>2, <1>3 DEF AInv

\* The steps of an export that neither answer nor end it.
Works ==
    \/ \E r \in A!Numbers : A!Take(r)
    \/ A!Announce \/ A!Prepare \/ A!Export \/ A!Upload \/ A!UploadPanics \/ A!Clean

\* Such a step changes where the export is, and goes to its answer with success only
\* after the upload.
Moves ==
    /\ step # "answered" /\ step' # "answered"
    /\ step' \in A!Steps /\ (step' = "idle" <=> running' = 0)
    /\ running' \in {0} \cup {r \in A!Numbers : status[r] = "queued"}
    /\ UNCHANGED <<status, answers, crashes>>
    /\ failures' \in 0 .. MaxFailures /\ failures' >= failures
    /\ delivered \subseteq delivered'
    /\ step' \in {"clean", "succeeded"} => running' \in delivered'

LEMMA WorksStep ==
    ASSUME AInv, Works
    PROVE  Moves
<1> USE AnswersAssumption DEF A!AnswersAssumption, AInv, AnswersTyped, Uploaded, A!Goes, A!Fault, A!Steps, Moves
<1>1. ASSUME NEW r \in A!Numbers, A!Take(r) PROVE Moves
  BY <1>1 DEF A!Take, A!First, A!Queued, A!Numbers
<1>2. CASE A!Announce
  BY <1>2 DEF A!Announce
<1>3. CASE A!Prepare
  BY <1>3 DEF A!Prepare
<1>4. CASE A!Export
  BY <1>4 DEF A!Export
<1>5. CASE A!Upload
  BY <1>5 DEF A!Upload
<1>6. CASE A!UploadPanics
  BY <1>6 DEF A!UploadPanics
<1>7. CASE A!Clean
  BY <1>7 DEF A!Clean
<1> QED
  BY <1>1, <1>2, <1>3, <1>4, <1>5, <1>6, <1>7 DEF Works

LEMMA WorksKeeps ==
    ASSUME AInv, Works
    PROVE  AInv'
<1> USE WorksStep DEF Moves
<1>1. AnswersTyped'
  BY DEF AInv, AnswersTyped
<1>2. Counted'
  BY DEF AInv, AnswersTyped, Counted, Given, IsAnswered, Counts
<1>3. Uploaded'
  BY DEF AInv, Uploaded, A!SuccessIsDelivered
<1> QED
  BY <1>1, <1>2, <1>3 DEF AInv

\* Publishing gives a request one answer, a failing of it, or both.
LEMMA PublishesCounts ==
    ASSUME AnswersTyped, NEW r \in A!Numbers, NEW a \in {"success", "failure"}, A!Publishes(r, a)
    PROVE  /\ answers' \in [A!Numbers -> Counts]
           /\ failures' \in 0 .. MaxFailures /\ failures' >= failures
           /\ \A q \in A!Numbers \ {r} : answers'[q] = answers[q]
           /\ Given(r)' <= Given(r) + 1
           /\ Given(r)' + answers'[r].lost > 0
           /\ answers'[r].lost <= answers[r].lost + (failures' - failures)
           /\ \A b \in {"success", "failure"} :
                 answers'[r][b] # answers[r][b] => b = a /\ answers'[r][b] > 0
<1> USE AnswersAssumption DEF A!AnswersAssumption, AnswersTyped, Counts, Given
<1>1. CASE answers' = [answers EXCEPT ![r][a] = @ + 1] /\ UNCHANGED failures
  BY <1>1
<1>2. CASE A!Fault /\ answers' = [answers EXCEPT ![r].lost = @ + 1]
  BY <1>2 DEF A!Fault
<1>3. CASE A!Fault /\ answers' = [answers EXCEPT ![r].lost = @ + 1, ![r][a] = @ + 1]
  BY <1>3 DEF A!Fault
<1> QED
  BY <1>1, <1>2, <1>3 DEF A!Publishes

LEMMA RejectKeeps ==
    ASSUME AInv, NEW r \in A!Numbers, A!Reject(r)
    PROVE  AInv'
<1>1. /\ status[r] = "new" /\ running # r
      /\ status' = [status EXCEPT ![r] = "rejected"]
      /\ UNCHANGED <<running, step, delivered, crashes>>
      /\ A!Publishes(r, "failure")
  BY DEF A!Reject, A!First, A!NewOnes, AInv, AnswersTyped, A!Numbers
<1> USE <1>1, PublishesCounts DEF AInv
<1>2. AnswersTyped'
  BY DEF AnswersTyped
<1>3. Counted'
  BY DEF AnswersTyped, Counted, Given, IsAnswered, Counts
<1>4. Uploaded'
  BY DEF AnswersTyped, Uploaded, A!SuccessIsDelivered, Counted, Counts
<1> QED
  BY <1>2, <1>3, <1>4

LEMMA AcceptKeeps ==
    ASSUME AInv, NEW r \in A!Numbers, A!Accept(r)
    PROVE  AInv'
<1>1. /\ status[r] = "new" /\ running # r
      /\ status' = [status EXCEPT ![r] = "queued"]
      /\ UNCHANGED <<running, step, delivered, crashes, answers, failures>>
  BY DEF A!Accept, A!First, A!NewOnes, AInv, AnswersTyped, A!Numbers
<1> USE <1>1 DEF AInv
<1>2. AnswersTyped'
  BY DEF AnswersTyped
<1>3. Counted'
  BY DEF AnswersTyped, Counted, Given, IsAnswered, Counts
<1>4. Uploaded'
  BY DEF AnswersTyped, Uploaded, A!SuccessIsDelivered, Counted, Counts
<1> QED
  BY <1>2, <1>3, <1>4

\* An answer with success comes after the upload; with an earlier answer, after an
\* interruption too.
LEMMA AnswerKeeps ==
    ASSUME AInv, A!Answer
    PROVE  AInv'
<1> DEFINE a == IF step = "failed" THEN "failure" ELSE "success"
<1>1. /\ running \in A!Numbers /\ status[running] = "queued" /\ ~IsAnswered(running)
      /\ step \in {"succeeded", "failed"} /\ step' = "answered"
      /\ UNCHANGED <<status, running, delivered, crashes>>
      /\ a \in {"success", "failure"} /\ A!Publishes(running, a)
  BY DEF A!Answer, A!Goes, AInv, AnswersTyped, IsAnswered, A!Numbers
<1>2. /\ answers' \in [A!Numbers -> Counts]
      /\ failures' \in 0 .. MaxFailures /\ failures' >= failures
      /\ \A q \in A!Numbers \ {running} : answers'[q] = answers[q]
      /\ Given(running)' <= Given(running) + 1
      /\ Given(running)' + answers'[running].lost > 0
      /\ answers'[running].lost <= answers[running].lost + (failures' - failures)
      /\ \A b \in {"success", "failure"} :
            answers'[running][b] # answers[running][b] => b = a
  BY <1>1, PublishesCounts DEF AInv, Given
<1>3. AnswersTyped'
  BY <1>1, <1>2 DEF AInv, AnswersTyped, A!Steps
<1>4. Counted'
  BY <1>1, <1>2 DEF AInv, AnswersTyped, Counted, Given, IsAnswered, Counts
<1>5. Uploaded'
  <2>1. Given(running) <= crashes[running] /\ Given(running) \in Nat
    BY <1>1 DEF AInv, Counted, AnswersTyped, Given, Counts
  <2>2. A!SuccessIsDelivered'
    BY <1>1, <1>2, <2>1 DEF AInv, AnswersTyped, Uploaded, A!SuccessIsDelivered, Given, Counts
  <2> QED
    BY <1>1, <2>2 DEF Uploaded
<1> QED
  BY <1>3, <1>4, <1>5 DEF AInv

LEMMA DoneKeeps ==
    ASSUME AInv, A!Done
    PROVE  AInv'
<1>1. /\ running \in A!Numbers /\ status[running] = "queued" /\ IsAnswered(running)
      /\ step' = "idle" /\ running' = 0
      /\ status' = [status EXCEPT ![running] = "done"]
      /\ UNCHANGED <<delivered, answers, crashes, failures>>
  BY DEF A!Done, A!Goes, AInv, AnswersTyped, IsAnswered, A!Numbers
<1> USE <1>1 DEF AInv
<1>2. AnswersTyped'
  BY DEF AnswersTyped, A!Steps
<1>3. Counted'
  BY DEF AnswersTyped, Counted, Given, IsAnswered, Counts, A!Numbers
<1>4. Uploaded'
  BY DEF Uploaded, A!SuccessIsDelivered
<1> QED
  BY <1>2, <1>3, <1>4

LEMMA CrashKeeps ==
    ASSUME AInv, A!Crash
    PROVE  AInv'
<1>1. /\ running \in A!Numbers
      /\ step' = "idle" /\ running' = 0
      /\ crashes' = [crashes EXCEPT ![running] = @ + 1]
      /\ failures' = failures + 1 /\ failures' \in 0 .. MaxFailures
      /\ UNCHANGED <<status, delivered, answers>>
  BY AnswersAssumption DEF A!AnswersAssumption, A!Crash, A!Fault, A!Goes, AInv, AnswersTyped
<1> USE <1>1 DEF AInv
<1>2. AnswersTyped'
  BY DEF AnswersTyped, A!Steps
<1>3. Counted'
  BY DEF AnswersTyped, Counted, Given, IsAnswered, Counts, A!Numbers
<1>4. Uploaded'
  BY DEF AnswersTyped, Uploaded, A!SuccessIsDelivered
<1> QED
  BY <1>2, <1>3, <1>4

LEMMA AnswersStep == AInv /\ [A!Next]_(A!vars) => AInv'
<1> SUFFICES ASSUME AInv, [A!Next]_(A!vars) PROVE AInv'
  OBVIOUS
<1>1. CASE A!Exporting
  BY <1>1, WorksKeeps, AnswerKeeps, DoneKeeps DEF A!Exporting, Works
<1>2. CASE A!Crash
  BY <1>2, CrashKeeps
<1>3. CASE \E r \in A!Numbers : A!Reject(r) \/ A!Accept(r)
  BY <1>3, RejectKeeps, AcceptKeeps
<1>4. CASE UNCHANGED A!vars
  BY <1>4 DEF A!vars, AInv, AnswersTyped, Counted, Given, IsAnswered, Uploaded, A!SuccessIsDelivered
<1> QED
  BY <1>1, <1>2, <1>3, <1>4 DEF A!Next

LEMMA AnswersInvariant == A!Spec => []AInv
BY AnswersInit, AnswersStep, PTL DEF A!Spec

----------------------------------------------------------------------------
(* The integrations that are started. *)

Listed(ins) == DOMAIN ins \subseteq Nat /\ \A k \in DOMAIN ins : A!IsIntegration(ins[k])

LEMMA PlacesAreNumbers ==
    ASSUME NEW ins, Listed(ins)
    PROVE  \A k \in DOMAIN ins : k \in Nat /\ DOMAIN ins[k].inclusions \subseteq Nat
BY DEF Listed, A!IsIntegration, A!IsList

LEMMA AskedIsListed ==
    ASSUME NEW body \in Bodies
    PROVE  Listed(Extra \o body)
<1>1. /\ Extra \in Seq(A!Range(Extra)) /\ body \in Seq(A!Range(body))
      /\ \A k \in DOMAIN Extra : A!IsIntegration(Extra[k])
      /\ \A k \in DOMAIN body : A!IsIntegration(body[k])
  BY AnswersAssumption DEF A!AnswersAssumption, A!IsList
<1>2. /\ DOMAIN (Extra \o body) \subseteq Nat
      /\ \A k \in DOMAIN (Extra \o body) :
           \/ k \in DOMAIN Extra /\ (Extra \o body)[k] = Extra[k]
           \/ k - Len(Extra) \in DOMAIN body /\ (Extra \o body)[k] = body[k - Len(Extra)]
  BY <1>1
<1> QED
  BY <1>1, <1>2, Zenon DEF Listed

\* A place of the list is the pair of its parts.
LEMMA PlaceParts ==
    ASSUME NEW ins, NEW x
    PROVE  x \in A!Places(ins) <=>
             \E k \in DOMAIN ins : \E i \in DOMAIN ins[k].inclusions : x = <<k, i>>
BY DEF A!Places

\* Every project that is asked for is left at the first place that asks for it.
LEMMA AskedFirst ==
    ASSUME NEW ins, Listed(ins), NEW x \in A!Places(ins)
    PROVE  \E y \in A!Deduped(ins) :
             ins[y[1]].def = ins[x[1]].def /\ A!Project(ins, y) = A!Project(ins, x)
<1> DEFINE Alike(y) == /\ ins[y[1]].def = ins[x[1]].def
                       /\ A!Project(ins, y) = A!Project(ins, x)
           K == {k \in DOMAIN ins : \E i \in DOMAIN ins[k].inclusions : Alike(<<k, i>>)}
<1>1. K \subseteq Nat /\ K # {}
  BY PlaceParts, PlacesAreNumbers
<1>2. PICK k \in K : \A m \in K : k <= m
  BY <1>1, Least
<1> DEFINE own == {i \in DOMAIN ins[k].inclusions : Alike(<<k, i>>)}
<1>3. own \subseteq Nat /\ own # {}
  BY <1>2, PlacesAreNumbers
<1>4. PICK i \in own : \A m \in own : i <= m
  BY <1>3, Least
<1>5. <<k, i>> \in A!Places(ins) /\ Alike(<<k, i>>)
  BY PlaceParts
<1>6. ASSUME NEW y \in A!Places(ins), A!Earlier(y, <<k, i>>), Alike(y) PROVE FALSE
  <2>1. PICK j \in DOMAIN ins : \E h \in DOMAIN ins[j].inclusions : y = <<j, h>>
    BY PlaceParts
  <2>0. PICK h \in DOMAIN ins[j].inclusions : y = <<j, h>>
    BY <2>1
  <2>2. j \in K /\ (j = k => h \in own)
    BY <1>6, <2>0
  <2>3. j < k \/ (j = k /\ h < i)
    BY <1>6, <2>0 DEF A!Earlier
  <2>4. k \in Nat /\ j \in Nat /\ i \in Nat /\ h \in Nat
    BY <2>1, PlacesAreNumbers
  <2> QED
    BY <1>2, <1>4, <2>2, <2>3, <2>4
<1>7. ~ A!Seen(ins, <<k, i>>)
  <2> SUFFICES ASSUME A!Seen(ins, <<k, i>>) PROVE FALSE
    OBVIOUS
  <2>1. PICK y \in A!Places(ins) :
          /\ A!Earlier(y, <<k, i>>)
          /\ ins[y[1]].def = ins[<<k, i>>[1]].def /\ A!Project(ins, y) = A!Project(ins, <<k, i>>)
    BY DEF A!Seen
  <2> QED
    BY <1>5, <1>6, <2>1
<1> QED
  BY <1>5, <1>7 DEF A!Deduped

LEMMA SameIsAccount ==
    ASSUME NEW a, NEW b
    PROVE  A!Same(a, b) <=> A!SameAccount(a, b)
BY DEF A!Same, A!SameAccount, A!AuthToString

\* Each of the integrations that are left has the account of one that is started.
LEMMA AccountFirst ==
    ASSUME NEW ins, Listed(ins), NEW k \in A!Left(ins)
    PROVE  \E j \in A!Firsts(ins) : A!Same(ins[j], ins[k])
<1> DEFINE T == {j \in A!Left(ins) : A!Same(ins[j], ins[k])}
<1>1. T \subseteq Nat /\ T # {}
  BY PlaceParts, PlacesAreNumbers DEF A!Left, A!Deduped, A!Same
<1>2. PICK j \in T : \A m \in T : j <= m
  BY <1>1, Least
<1>3. \A m \in A!Left(ins) : A!Same(ins[m], ins[j]) => j <= m
  BY <1>2 DEF A!Same
<1> QED
  BY <1>2, <1>3 DEF A!Firsts

\* What is started, in terms of the list.
LEMMA MergedIs ==
    ASSUME NEW ins, Listed(ins)
    PROVE  /\ DOMAIN A!Merged(ins) = A!Firsts(ins)
           /\ A!Firsts(ins) \subseteq A!Left(ins) /\ A!Left(ins) \subseteq DOMAIN ins
           /\ \A k \in A!Firsts(ins) :
                /\ DOMAIN A!Merged(ins)[k] = {"def", "access", "refresh", "inclusions"}
                /\ A!Merged(ins)[k].def = ins[k].def
                /\ A!Merged(ins)[k].access = ins[k].access
                /\ A!Merged(ins)[k].refresh = ins[k].refresh
                /\ A!Merged(ins)[k].inclusions = A!Collected(ins, k)
<1>1. A!Firsts(ins) \subseteq A!Left(ins)
  BY DEF A!Firsts
<1>2. ASSUME NEW x \in A!Deduped(ins) PROVE x[1] \in DOMAIN ins
  <2>1. x \in A!Places(ins)
    BY DEF A!Deduped
  <2>2. PICK j \in DOMAIN ins : \E i \in DOMAIN ins[j].inclusions : x = <<j, i>>
    BY <2>1, PlaceParts
  <2>3. PICK i \in DOMAIN ins[j].inclusions : x = <<j, i>>
    BY <2>2
  <2> QED
    BY <2>3
<1>3. A!Left(ins) \subseteq DOMAIN ins
  BY <1>2 DEF A!Left
<1>4. ASSUME NEW k \in A!Firsts(ins)
      PROVE  /\ DOMAIN A!Merged(ins)[k] = {"def", "access", "refresh", "inclusions"}
             /\ A!Merged(ins)[k].def = ins[k].def
             /\ A!Merged(ins)[k].access = ins[k].access
             /\ A!Merged(ins)[k].refresh = ins[k].refresh
             /\ A!Merged(ins)[k].inclusions = A!Collected(ins, k)
  <2>1. ins[k] = [def |-> ins[k].def, access |-> ins[k].access,
                  refresh |-> ins[k].refresh, inclusions |-> ins[k].inclusions]
    BY <1>1, <1>3 DEF Listed, A!IsIntegration
  <2>2. A!Merged(ins)[k] = [ins[k] EXCEPT !.inclusions = A!Collected(ins, k)]
    BY DEF A!Merged
  <2>3. A!Merged(ins)[k] = [def |-> ins[k].def, access |-> ins[k].access,
                            refresh |-> ins[k].refresh,
                            inclusions |-> A!Collected(ins, k)]
    BY <2>1, <2>2
  <2> QED
    BY <2>3
<1> QED
  BY <1>1, <1>3, <1>4 DEF A!Merged

LEMMA CollectedIs ==
    ASSUME NEW ins, NEW k
    PROVE  /\ DOMAIN A!Collected(ins, k) = {x \in A!Deduped(ins) : A!Same(ins[x[1]], ins[k])}
           /\ \A x \in A!Deduped(ins) : A!Same(ins[x[1]], ins[k]) =>
                A!Collected(ins, k)[x] = A!Project(ins, x)
BY DEF A!Collected

\* Each place in what is started is one that is left in the list, and the other way round.
LEMMA MergedPlaces ==
    ASSUME NEW ins, Listed(ins)
    PROVE  /\ \A k \in DOMAIN A!Merged(ins) :
                \A x \in DOMAIN A!Merged(ins)[k].inclusions :
                  /\ x \in A!Deduped(ins)
                  /\ A!SameAccount(ins[x[1]], A!Merged(ins)[k])
                  /\ A!Merged(ins)[k].inclusions[x] = A!Project(ins, x)
           /\ \A x \in A!Deduped(ins) :
                \E k \in DOMAIN A!Merged(ins) :
                  x \in DOMAIN A!Merged(ins)[k].inclusions
<1>1. ASSUME NEW x \in A!Deduped(ins)
      PROVE  \E k \in A!Firsts(ins) : A!Same(ins[x[1]], ins[k])
  <2>1. x[1] \in A!Left(ins)
    BY DEF A!Left
  <2>2. PICK k \in A!Firsts(ins) : A!Same(ins[k], ins[x[1]])
    BY <2>1, AccountFirst
  <2> QED
    BY <2>2 DEF A!Same
<1>2. ASSUME NEW k \in A!Firsts(ins), NEW x \in A!Deduped(ins), A!Same(ins[x[1]], ins[k])
      PROVE  A!SameAccount(ins[x[1]], A!Merged(ins)[k])
  <2>1. A!SameAccount(ins[x[1]], ins[k])
    BY <1>2, SameIsAccount
  <2> QED
    BY <2>1, MergedIs DEF A!SameAccount
<1>3. /\ DOMAIN A!Merged(ins) = A!Firsts(ins)
      /\ \A k \in A!Firsts(ins) : A!Merged(ins)[k].inclusions = A!Collected(ins, k)
  BY MergedIs
<1>4. ASSUME NEW k \in DOMAIN A!Merged(ins), NEW x \in DOMAIN A!Merged(ins)[k].inclusions
      PROVE  /\ x \in A!Deduped(ins) /\ A!Same(ins[x[1]], ins[k])
             /\ A!Merged(ins)[k].inclusions[x] = A!Project(ins, x)
  <2>1. x \in DOMAIN A!Collected(ins, k) /\ A!Merged(ins)[k].inclusions = A!Collected(ins, k)
    BY <1>3, <1>4
  <2>2. x \in {y \in A!Deduped(ins) : A!Same(ins[y[1]], ins[k])}
    BY <2>1, CollectedIs, Zenon
  <2>3. x \in A!Deduped(ins) /\ A!Same(ins[x[1]], ins[k])
    BY <2>2
  <2> QED
    BY <2>1, <2>3, CollectedIs
<1>5. ASSUME NEW x \in A!Deduped(ins)
      PROVE  \E k \in DOMAIN A!Merged(ins) : x \in DOMAIN A!Merged(ins)[k].inclusions
  <2>1. PICK k \in A!Firsts(ins) : A!Same(ins[x[1]], ins[k])
    BY <1>1
  <2>2. x \in {y \in A!Deduped(ins) : A!Same(ins[y[1]], ins[k])}
    BY <2>1
  <2>3. x \in DOMAIN A!Collected(ins, k)
    BY <2>2, CollectedIs, Zenon
  <2> QED
    BY <1>3, <2>3
<1> QED
  BY <1>2, <1>3, <1>4, <1>5

\* No two of what is started have the same account.
LEMMA MergedApart ==
    ASSUME NEW ins, Listed(ins), NEW j \in DOMAIN A!Merged(ins),
           NEW k \in DOMAIN A!Merged(ins),
           A!SameAccount(A!Merged(ins)[j], A!Merged(ins)[k])
    PROVE  j = k
<1>1. /\ j \in A!Firsts(ins) /\ k \in A!Firsts(ins)
      /\ j \in A!Left(ins) /\ k \in A!Left(ins)
      /\ j \in DOMAIN ins /\ k \in DOMAIN ins
  BY MergedIs
<1>2. A!SameAccount(ins[j], ins[k])
  BY <1>1, MergedIs DEF A!SameAccount
<1>3. A!Same(ins[j], ins[k]) /\ A!Same(ins[k], ins[j])
  BY <1>2, SameIsAccount DEF A!Same
<1>4. j <= k /\ k <= j
  BY <1>1, <1>3 DEF A!Firsts
<1> QED
  BY <1>1, <1>4, PlacesAreNumbers

\* One place asks for each project of a definition.
LEMMA DedupedOnce ==
    ASSUME NEW ins, Listed(ins), NEW x \in A!Deduped(ins), NEW y \in A!Deduped(ins),
           ins[x[1]].def = ins[y[1]].def, A!Project(ins, x) = A!Project(ins, y)
    PROVE  x = y
<1>1. PICK k \in DOMAIN ins : \E i \in DOMAIN ins[k].inclusions : x = <<k, i>>
  BY PlaceParts DEF A!Deduped
<1>2. PICK i \in DOMAIN ins[k].inclusions : x = <<k, i>>
  BY <1>1
<1>3. PICK m \in DOMAIN ins : \E n \in DOMAIN ins[m].inclusions : y = <<m, n>>
  BY PlaceParts DEF A!Deduped
<1>4. PICK n \in DOMAIN ins[m].inclusions : y = <<m, n>>
  BY <1>3
<1>5. i \in Nat /\ k \in Nat /\ m \in Nat /\ n \in Nat
  BY <1>2, <1>4, PlacesAreNumbers
<1>6. ~ A!Earlier(x, y) /\ ~ A!Earlier(y, x)
  BY DEF A!Deduped, A!Seen
<1> QED
  BY <1>2, <1>4, <1>5, <1>6 DEF A!Earlier

\* What is started for a list has each project of it once, from an integration with the
\* same account, and nothing else.
LEMMA MergedRight ==
    ASSUME NEW ins, Listed(ins)
    PROVE  /\ \A k \in DOMAIN ins : \A i \in DOMAIN ins[k].inclusions :
                \E j \in DOMAIN A!Merged(ins) : \E x \in DOMAIN A!Merged(ins)[j].inclusions :
                  /\ A!Merged(ins)[j].def = ins[k].def
                  /\ A!Merged(ins)[j].inclusions[x] = ins[k].inclusions[i]
           /\ \A j \in DOMAIN A!Merged(ins) : \A x \in DOMAIN A!Merged(ins)[j].inclusions :
                \E k \in DOMAIN ins : \E i \in DOMAIN ins[k].inclusions :
                  /\ A!Merged(ins)[j].def = ins[k].def
                  /\ A!Merged(ins)[j].inclusions[x] = ins[k].inclusions[i]
                  /\ A!SameAccount(ins[k], A!Merged(ins)[j])
           /\ \A j, k \in DOMAIN A!Merged(ins) :
                \A x \in DOMAIN A!Merged(ins)[j].inclusions :
                \A y \in DOMAIN A!Merged(ins)[k].inclusions :
                  /\ A!Merged(ins)[j].def = A!Merged(ins)[k].def
                  /\ A!Merged(ins)[j].inclusions[x] = A!Merged(ins)[k].inclusions[y]
                  => j = k /\ x = y
<1>1. ASSUME NEW k \in DOMAIN ins, NEW i \in DOMAIN ins[k].inclusions
      PROVE  \E j \in DOMAIN A!Merged(ins) : \E x \in DOMAIN A!Merged(ins)[j].inclusions :
               /\ A!Merged(ins)[j].def = ins[k].def
               /\ A!Merged(ins)[j].inclusions[x] = ins[k].inclusions[i]
  <2>1. <<k, i>> \in A!Places(ins)
    BY PlaceParts
  <2>2. PICK x \in A!Deduped(ins) :
          ins[x[1]].def = ins[<<k, i>>[1]].def /\ A!Project(ins, x) = A!Project(ins, <<k, i>>)
    BY <2>1, AskedFirst
  <2>3. ins[x[1]].def = ins[k].def /\ A!Project(ins, x) = ins[k].inclusions[i]
    BY <2>2 DEF A!Project
  <2>4. PICK j \in DOMAIN A!Merged(ins) : x \in DOMAIN A!Merged(ins)[j].inclusions
    BY MergedPlaces
  <2>5. /\ A!SameAccount(ins[x[1]], A!Merged(ins)[j])
        /\ A!Merged(ins)[j].inclusions[x] = A!Project(ins, x)
    BY <2>4, MergedPlaces
  <2> QED
    BY <2>3, <2>4, <2>5 DEF A!SameAccount
<1>2. ASSUME NEW j \in DOMAIN A!Merged(ins), NEW x \in DOMAIN A!Merged(ins)[j].inclusions
      PROVE  \E k \in DOMAIN ins : \E i \in DOMAIN ins[k].inclusions :
               /\ A!Merged(ins)[j].def = ins[k].def
               /\ A!Merged(ins)[j].inclusions[x] = ins[k].inclusions[i]
               /\ A!SameAccount(ins[k], A!Merged(ins)[j])
  <2>1. /\ x \in A!Deduped(ins)
        /\ A!SameAccount(ins[x[1]], A!Merged(ins)[j])
        /\ A!Merged(ins)[j].inclusions[x] = A!Project(ins, x)
    BY <1>2, MergedPlaces
  <2>2. PICK k \in DOMAIN ins : \E i \in DOMAIN ins[k].inclusions : x = <<k, i>>
    BY <2>1, PlaceParts DEF A!Deduped
  <2>3. PICK i \in DOMAIN ins[k].inclusions : x = <<k, i>>
    BY <2>2
  <2>4. x[1] = k /\ A!Project(ins, x) = ins[k].inclusions[i]
    BY <2>3 DEF A!Project
  <2> QED
    BY <2>1, <2>4 DEF A!SameAccount
<1>3. ASSUME NEW j \in DOMAIN A!Merged(ins), NEW k \in DOMAIN A!Merged(ins),
             NEW x \in DOMAIN A!Merged(ins)[j].inclusions,
             NEW y \in DOMAIN A!Merged(ins)[k].inclusions,
             A!Merged(ins)[j].def = A!Merged(ins)[k].def,
             A!Merged(ins)[j].inclusions[x] = A!Merged(ins)[k].inclusions[y]
      PROVE  j = k /\ x = y
  <2>1. /\ x \in A!Deduped(ins) /\ y \in A!Deduped(ins)
        /\ A!SameAccount(ins[x[1]], A!Merged(ins)[j])
        /\ A!SameAccount(ins[y[1]], A!Merged(ins)[k])
        /\ A!Merged(ins)[j].inclusions[x] = A!Project(ins, x)
        /\ A!Merged(ins)[k].inclusions[y] = A!Project(ins, y)
    BY <1>3, MergedPlaces
  <2>2. ins[x[1]].def = ins[y[1]].def /\ A!Project(ins, x) = A!Project(ins, y)
    BY <1>3, <2>1 DEF A!SameAccount
  <2>3. x = y
    BY <2>1, <2>2, DedupedOnce
  <2>4. A!SameAccount(A!Merged(ins)[j], A!Merged(ins)[k])
    BY <2>1, <2>3 DEF A!SameAccount
  <2> QED
    BY <2>3, <2>4, MergedApart
<1> QED
  BY <1>1, <1>2, <1>3

\* What is started is what the current request asks for, or an earlier one.
StartedInv ==
    /\ requests \in [A!Numbers -> [body: Bodies, url: BOOLEAN]]
    /\ delivered \subseteq A!Numbers
    /\ started = <<>> \/ \E body \in Bodies : started = A!Started(body)
    /\ step = "export" =>
         running \in A!Numbers /\ started = A!Started(requests[running].body)

LEMMA StartedInit == A!Init => StartedInv
BY DEF A!Init, StartedInv

LEMMA StartedStep == AInv /\ StartedInv /\ [A!Next]_(A!vars) => StartedInv'
<1> SUFFICES ASSUME AInv, StartedInv, [A!Next]_(A!vars) PROVE StartedInv'
  OBVIOUS
<1>0. running \in A!Numbers \/ step = "idle"
  BY DEF AInv, AnswersTyped
<1>1. CASE A!Prepare
  <2>1. running \in A!Numbers /\ requests[running].body \in Bodies
    BY <1>0, <1>1 DEF A!Prepare, StartedInv
  <2> QED
    BY <1>1, <2>1 DEF A!Prepare, A!Goes, StartedInv
<1>2. CASE A!Upload
  BY <1>0, <1>2 DEF A!Upload, A!Goes, StartedInv
<1>3. CASE \E r \in A!Numbers : A!Take(r)
  BY <1>3 DEF A!Take, A!Goes, StartedInv
<1>4. CASE \E r \in A!Numbers : A!Reject(r) \/ A!Accept(r)
  BY <1>4 DEF A!Reject, A!Accept, StartedInv
<1>5. CASE A!Announce \/ A!Export \/ A!UploadPanics \/ A!Clean \/ A!Answer \/ A!Done \/ A!Crash
  BY <1>5 DEF A!Announce, A!Export, A!UploadPanics, A!Clean, A!Answer, A!Done, A!Crash,
              A!Goes, StartedInv
<1>6. CASE UNCHANGED A!vars
  BY <1>6 DEF A!vars, StartedInv
<1> QED
  BY <1>1, <1>2, <1>3, <1>4, <1>5, <1>6 DEF A!Next, A!Exporting

LEMMA StartedTypes == AInv /\ StartedInv => A!TypeOK
<1> SUFFICES ASSUME AInv, StartedInv PROVE A!TypeOK
  OBVIOUS
<1>1. \A k \in DOMAIN started :
        DOMAIN started[k] = {"def", "access", "refresh", "inclusions"}
  <2>1. CASE started = <<>>
    BY <2>1
  <2>2. ASSUME NEW body \in Bodies, started = A!Started(body)
        PROVE  \A k \in DOMAIN started :
                 DOMAIN started[k] = {"def", "access", "refresh", "inclusions"}
    BY <2>2, AskedIsListed, MergedIs DEF A!Started
  <2> QED
    BY <2>1, <2>2 DEF StartedInv
<1>2. ASSUME NEW r \in A!Numbers
      PROVE  crashes[r] \in 0 .. MaxFailures
  BY AnswersAssumption DEF A!AnswersAssumption, AInv, AnswersTyped, Counted
<1>3. ASSUME NEW r \in A!Numbers
      PROVE  answers[r] \in [A!Answers -> 0 .. MaxFailures + 1]
  <2>0. answers[r] \in Counts /\ crashes[r] \in Nat /\ failures \in 0 .. MaxFailures
    BY DEF AInv, AnswersTyped
  <2>1. /\ answers[r].success + answers[r].failure <= crashes[r] + 1
        /\ crashes[r] <= failures /\ answers[r].lost <= failures
    BY <2>0 DEF AInv, Counted, Given, Counts
  <2>2. /\ answers[r].success \in 0 .. MaxFailures + 1
        /\ answers[r].failure \in 0 .. MaxFailures + 1
        /\ answers[r].lost \in 0 .. MaxFailures + 1
    BY <2>0, <2>1, AnswersAssumption DEF A!AnswersAssumption, Counts
  <2> QED
    BY <2>0, <2>2 DEF Counts, A!Answers
<1> QED
  BY <1>1, <1>2, <1>3 DEF A!TypeOK, AInv, AnswersTyped, StartedInv

LEMMA StartedIsRight == AInv /\ StartedInv => StartedRight
<1> SUFFICES ASSUME AInv, StartedInv PROVE StartedRight
  OBVIOUS
<1>1. A!EachProjectOnce
  <2> SUFFICES ASSUME step = "export" PROVE A!EachProjectOnce
    BY DEF A!EachProjectOnce
  <2> DEFINE ins == Extra \o requests[running].body
  <2>1. started = A!Merged(ins) /\ Listed(ins)
    BY AskedIsListed DEF StartedInv, A!Started
  <2> HIDE DEF ins
  <2>2. /\ \A k \in DOMAIN ins : \A i \in DOMAIN ins[k].inclusions :
             \E j \in DOMAIN started : \E x \in DOMAIN started[j].inclusions :
               /\ started[j].def = ins[k].def
               /\ started[j].inclusions[x] = ins[k].inclusions[i]
        /\ \A j \in DOMAIN started : \A x \in DOMAIN started[j].inclusions :
             \E k \in DOMAIN ins : \E i \in DOMAIN ins[k].inclusions :
               /\ started[j].def = ins[k].def
               /\ started[j].inclusions[x] = ins[k].inclusions[i]
               /\ A!SameAccount(ins[k], started[j])
        /\ \A j, k \in DOMAIN started :
             \A x \in DOMAIN started[j].inclusions : \A y \in DOMAIN started[k].inclusions :
               /\ started[j].def = started[k].def
               /\ started[j].inclusions[x] = started[k].inclusions[y]
               => j = k /\ x = y
    BY <2>1, MergedRight
  <2> QED
    BY <2>2 DEF A!EachProjectOnce, A!Range, ins
<1>2. A!AccountsApart
  <2>1. CASE started = <<>>
    BY <2>1 DEF A!AccountsApart
  <2>2. ASSUME NEW body \in Bodies, started = A!Started(body) PROVE A!AccountsApart
    BY <2>2, AskedIsListed, MergedApart DEF A!AccountsApart, A!Started
  <2> QED
    BY <2>1, <2>2 DEF StartedInv
<1> QED
  BY <1>1, <1>2, StartedTypes DEF StartedRight, A!StartedRight

----------------------------------------------------------------------------
\* A request is answered once, and once more at most for each time that the process was
\* interrupted while it was exported; none leaves the queue without an attempt to
\* answer it (exporter.go:108, run.go:37).
THEOREM AnswersOnce == A!Spec => []A!AnsweredOnce
<1>1. AInv => A!AnsweredOnce
  BY DEF AInv, AnswersTyped, Counted, Given, IsAnswered, Counts, A!AnsweredOnce
<1> QED
  BY <1>1, AnswersInvariant, PTL

\* The backend is told of a success only when the upload is complete, and of a failure
\* beside it only after an interruption (exporter.go:139).
THEOREM SuccessDelivered == A!Spec => []A!SuccessIsDelivered
<1>1. AInv => A!SuccessIsDelivered
  BY DEF AInv, Uploaded
<1> QED
  BY <1>1, AnswersInvariant, PTL

\* The backend is told of each request, once, and what has become of it.
THEOREM AnswersAreTrue == A!Spec => []AnswersTrue
<1>1. A!AnsweredOnce /\ A!SuccessIsDelivered => AnswersTrue
  BY DEF AnswersTrue, A!AnswersTrue
<1> QED
  BY <1>1, AnswersOnce, SuccessDelivered, PTL

\* For any requests and any configuration: what is started for a request has each project
\* that they ask for once, with the authorization of one that asked for it, and no account
\* is used by two integrations, whatever failed before (exporter.go:295, 336).
THEOREM RightIsStarted == A!Spec => []StartedRight
<1>1. A!Spec => []StartedInv
  BY StartedInit, StartedStep, AnswersInvariant, PTL DEF A!Spec
<1> QED
  BY <1>1, StartedIsRight, AnswersInvariant, PTL

----------------------------------------------------------------------------
(***************************************************************************)
(* RepoCommits.  What was seen is closed: with a commit its parents were   *)
(* seen, so that stopping at the commits that were seen misses nothing     *)
(* behind them.                                                            *)
(***************************************************************************)

RepoInv ==
    /\ H!TypeOK
    /\ seen = DOMAIN graph
    /\ \A c \in seen : graph[c] = repo[c] /\ H!Range(repo[c]) \subseteq seen
    /\ sent = [c \in H!Commits |-> inVain[c] + IF c \in seen THEN 1 ELSE 0]
    /\ \A b \in DOMAIN branches : branches[b] # H!None => branches[b] \in seen

\* A walk stays within what is closed, and has the parents of all that it visits.
LEMMA ReachWithin ==
    ASSUME NEW next, NEW from, NEW S, S \subseteq DOMAIN next, from \in S, H!Closed(next, S)
    PROVE  H!Reach(next, from) \subseteq S
BY DEF H!Reach

LEMMA ReachStarts ==
    ASSUME NEW next, NEW from, from \in DOMAIN next
    PROVE  from \in H!Reach(next, from) /\ H!Reach(next, from) \subseteq DOMAIN next
BY DEF H!Reach

LEMMA ReachClosed ==
    ASSUME NEW next, NEW from
    PROVE  H!Closed(next, H!Reach(next, from))
<1> SUFFICES ASSUME NEW c \in H!Reach(next, from),
                    NEW p \in next[c] \cap DOMAIN next
             PROVE  p \in H!Reach(next, from)
  BY DEF H!Closed
<1>1. ASSUME NEW S \in SUBSET DOMAIN next, from \in S, H!Closed(next, S)
      PROVE  p \in S
  BY <1>1 DEF H!Reach, H!Closed
<1> QED
  BY <1>1 DEF H!Reach

\* The parents of a commit are earlier commits.
LEMMA ParentsThere ==
    ASSUME H!TypeOK
    PROVE  /\ Len(repo) \in Nat /\ DOMAIN repo = 1 .. Len(repo)
           /\ \A c \in DOMAIN repo : H!Range(repo[c]) \subseteq DOMAIN repo
           /\ H!Heads \subseteq DOMAIN repo
<1>1. repo \in Seq(Seq(H!Commits))
  BY DEF H!TypeOK
<1>2. Len(repo) \in Nat /\ DOMAIN repo = 1 .. Len(repo)
  BY <1>1
<1>3. ASSUME NEW c \in DOMAIN repo, NEW p \in H!Range(repo[c])
      PROVE  p \in DOMAIN repo
  <2>1. p \in H!Commits
    BY <1>1, <1>2 DEF H!Range
  <2>2. p < c
    BY DEF H!TypeOK
  <2> QED
    BY <1>2, <2>1, <2>2 DEF H!Commits
<1>4. H!Heads \subseteq DOMAIN repo
  BY DEF H!TypeOK, H!Heads
<1> QED
  BY <1>2, <1>3, <1>4

\* What an export reads, with what was seen, is closed and has the heads.
LEMMA ReadClosed ==
    ASSUME RepoInv
    PROVE  /\ H!RepoAllCommits \subseteq DOMAIN repo \ seen
           /\ H!Heads \subseteq seen \cup H!RepoAllCommits
           /\ \A c \in seen \cup H!RepoAllCommits :
                H!Range(repo[c]) \subseteq seen \cup H!RepoAllCommits
<1> DEFINE stopped == H!StopAt(repo, seen)
<1>0. H!TypeOK /\ seen \subseteq DOMAIN repo
  BY DEF RepoInv, H!TypeOK
<1>1. /\ DOMAIN stopped = DOMAIN repo
      /\ \A c \in DOMAIN repo \ seen : stopped[c] = H!Range(repo[c])
  BY DEF H!StopAt
<1>2. \A h \in H!Heads \ seen : h \in H!Reach(stopped, h) /\ H!Reach(stopped, h) \subseteq DOMAIN repo
  BY <1>0, <1>1, ReachStarts, ParentsThere
<1>3. \A c : c \in H!RepoAllCommits <=>
                c \notin seen /\ \E h \in H!Heads \ seen : c \in H!Reach(stopped, h)
  <2> DEFINE visited == {H!Reach(stopped, h) : h \in H!Heads \ seen}
  <2>1. H!RepoAllCommits = (UNION visited) \ seen
    BY Zenon DEF H!RepoAllCommits
  <2>2. \A S : S \in visited <=> \E h \in H!Heads \ seen : S = H!Reach(stopped, h)
    BY Zenon
  <2> HIDE DEF stopped, visited
  <2>3. \A c : c \in H!RepoAllCommits <=> c \notin seen /\ \E S \in visited : c \in S
    BY <2>1
  <2>4. ASSUME NEW c, NEW S \in visited, c \in S
        PROVE  \E h \in H!Heads \ seen : c \in H!Reach(stopped, h)
    <3>1. PICK h \in H!Heads \ seen : S = H!Reach(stopped, h)
      BY <2>2, <2>4, Zenon
    <3> QED
      BY <2>4, <3>1
  <2>5. ASSUME NEW c, NEW h \in H!Heads \ seen, c \in H!Reach(stopped, h)
        PROVE  \E S \in visited : c \in S
    <3>1. H!Reach(stopped, h) \in visited
      BY <2>2, Zenon
    <3> QED
      BY <2>5, <3>1
  <2> QED
    BY <2>3, <2>4, <2>5, Zenon
<1> HIDE DEF stopped
<1>4. ASSUME NEW c \in H!RepoAllCommits
      PROVE  H!Range(repo[c]) \subseteq seen \cup H!RepoAllCommits
  <2>1. PICK h \in H!Heads \ seen : c \in H!Reach(stopped, h)
    BY <1>3
  <2>2. c \in DOMAIN repo /\ c \notin seen
    BY <1>2, <1>3, <2>1
  <2>3. stopped[c] \cap DOMAIN stopped \subseteq H!Reach(stopped, h)
    BY <2>1, ReachClosed DEF H!Closed
  <2>4. H!Range(repo[c]) \subseteq H!Reach(stopped, h)
    BY <1>0, <1>1, <2>2, <2>3, ParentsThere
  <2> QED
    BY <1>3, <2>4
<1> QED
  BY <1>2, <1>3, <1>4 DEF RepoInv

LEMMA RepoInit == H!RepoAssumption /\ H!Init => RepoInv
<1> SUFFICES ASSUME H!RepoAssumption, H!Init PROVE RepoInv
  OBVIOUS
<1>0. MaxCommits \in Nat \ {0}
  BY DEF H!RepoAssumption
<1>1. /\ repo \in Seq(Seq(H!Commits)) /\ Len(repo) = 1 /\ DOMAIN repo = {1}
      /\ repo[1] = <<>> /\ H!Range(repo[1]) = {}
  BY DEF H!Init, H!Range
<1>2. H!TypeOK
  BY <1>0, <1>1 DEF H!Init, H!TypeOK, H!Commits, H!None, H!NoneTold
<1>3. /\ seen = {} /\ DOMAIN graph = {} /\ DOMAIN branches = {}
      /\ sent = [c \in H!Commits |-> 0] /\ inVain = [c \in H!Commits |-> 0]
  BY DEF H!Init
<1> QED
  BY <1>2, <1>3 DEF RepoInv

\* A repo that grows keeps the commits that it has.
LEMMA GrowEffect ==
    ASSUME H!RepoAssumption, RepoInv, H!Grow
    PROVE  /\ UNCHANGED H!kept
           /\ H!TypeOK'
           /\ \A c \in DOMAIN repo : c \in DOMAIN repo' /\ repo'[c] = repo[c]
<1>0. /\ H!TypeOK /\ Len(repo) \in Nat /\ DOMAIN repo = 1 .. Len(repo)
      /\ MaxCommits \in Nat /\ prTold' = H!NoneTold
  BY ParentsThere DEF RepoInv, H!RepoAssumption, H!Grow
<1>1. ASSUME NEW ps \in Seq(H!Commits), Len(ps) <= 2, H!Range(ps) \subseteq DOMAIN repo,
             repo' = Append(repo, ps), H!New <= MaxCommits,
             default' \in DOMAIN repo \cup {H!New},
             branch' \in DOMAIN repo \cup {H!None, H!New}, UNCHANGED H!kept
      PROVE  /\ H!TypeOK'
             /\ \A c \in DOMAIN repo : c \in DOMAIN repo' /\ repo'[c] = repo[c]
  <2>1. /\ repo' \in Seq(Seq(H!Commits)) /\ Len(repo') = Len(repo) + 1
        /\ DOMAIN repo' = 1 .. Len(repo) + 1
        /\ repo'[Len(repo) + 1] = ps
        /\ \A c \in DOMAIN repo : c \in DOMAIN repo' /\ repo'[c] = repo[c]
    BY <1>0, <1>1 DEF H!TypeOK
  <2>2. \A c \in DOMAIN repo' :
          Len(repo'[c]) <= 2 /\ \A p \in H!Range(repo'[c]) : p < c
    <3> SUFFICES ASSUME NEW c \in DOMAIN repo'
                 PROVE  Len(repo'[c]) <= 2 /\ \A p \in H!Range(repo'[c]) : p < c
      OBVIOUS
    <3>1. CASE c \in DOMAIN repo
      BY <2>1, <3>1 DEF RepoInv, H!TypeOK
    <3>2. CASE c = Len(repo) + 1
      BY <1>0, <1>1, <2>1, <3>2
    <3> QED
      BY <1>0, <2>1, <3>1, <3>2
  <2>3. default' \in DOMAIN repo' /\ branch' \in DOMAIN repo' \cup {H!None}
    BY <1>0, <1>1, <2>1 DEF H!New
  <2>4. DOMAIN repo \subseteq DOMAIN repo'
    BY <2>1
  <2>5. branches' \in {<<>>} \cup [{"default", "branch"} -> DOMAIN repo' \cup {H!None}]
    BY <1>1, <2>4 DEF RepoInv, H!TypeOK, H!kept
  <2>6. /\ prCommit' \in [PRs -> DOMAIN repo' \cup {H!None}]
        /\ prTold' \in [PRs -> DOMAIN repo' \cup {H!None}]
        /\ seen' \subseteq DOMAIN repo' /\ DOMAIN graph' \subseteq DOMAIN repo'
        /\ sent' \in [H!Commits -> Nat] /\ inVain' \in [H!Commits -> Nat]
    BY <1>0, <1>1, <2>4 DEF H!TypeOK, H!kept, H!NoneTold
  <2>7. Len(repo') <= MaxCommits
    BY <1>1, <2>1 DEF H!New
  <2> QED
    BY <2>1, <2>2, <2>3, <2>5, <2>6, <2>7 DEF H!TypeOK
<1>2. ASSUME UNCHANGED <<repo, H!kept>>, default' \in DOMAIN repo,
             branch' \in DOMAIN repo \cup {H!None}
      PROVE  /\ H!TypeOK'
             /\ \A c \in DOMAIN repo : c \in DOMAIN repo' /\ repo'[c] = repo[c]
  BY <1>0, <1>2 DEF H!TypeOK, H!kept, H!NoneTold
<1>3. default \in DOMAIN repo /\ branch \in DOMAIN repo \cup {H!None}
      /\ DOMAIN repo \subseteq H!Commits
  BY <1>0 DEF H!TypeOK, H!Commits
<1>4. ASSUME NEW d \in BOOLEAN, H!Commit(d)
      PROVE  /\ UNCHANGED H!kept /\ H!TypeOK'
             /\ \A c \in DOMAIN repo : c \in DOMAIN repo' /\ repo'[c] = repo[c]
  <2>1. PICK ps : /\ \/ ps \in {<<default>>, <<branch>>} /\ ps[1] # H!None
                     \/ /\ ps \in {<<default, branch>>, <<branch, default>>}
                        /\ branch # H!None /\ default # H!None
                  /\ repo' = Append(repo, ps)
    BY <1>4, <1>3, <1>0 DEF H!Commit, H!None
  <2>2. ps \in Seq(H!Commits) /\ Len(ps) <= 2 /\ H!Range(ps) \subseteq DOMAIN repo
    <3>1. ASSUME NEW h \in DOMAIN repo, ps = <<h>>
          PROVE  ps \in Seq(H!Commits) /\ Len(ps) <= 2 /\ H!Range(ps) \subseteq DOMAIN repo
      BY <1>3, <3>1 DEF H!Range
    <3>2. ASSUME NEW h \in DOMAIN repo, NEW g \in DOMAIN repo, ps = <<h, g>>
          PROVE  ps \in Seq(H!Commits) /\ Len(ps) <= 2 /\ H!Range(ps) \subseteq DOMAIN repo
      <4>1. h \in H!Commits /\ g \in H!Commits
        BY <1>3
      <4>2. DOMAIN ps = {1, 2} /\ ps[1] = h /\ ps[2] = g
        BY <3>2
      <4> QED
        BY <3>2, <4>1, <4>2 DEF H!Range
    <3>3. CASE ps \in {<<default, branch>>, <<branch, default>>} /\ branch # H!None
      BY <1>3, <3>2, <3>3
    <3> QED
      BY <1>3, <2>1, <3>1, <3>3
  <2>3. /\ H!New <= MaxCommits /\ UNCHANGED H!kept
        /\ default' \in {default, H!New} /\ branch' \in {branch, H!New}
    BY <1>4 DEF H!Commit
  <2> QED
    BY <1>1, <1>3, <2>1, <2>2, <2>3
<1>5. ASSUME H!Orphan
      PROVE  /\ UNCHANGED H!kept /\ H!TypeOK'
             /\ \A c \in DOMAIN repo : c \in DOMAIN repo' /\ repo'[c] = repo[c]
  <2>1. /\ H!New <= MaxCommits /\ repo' = Append(repo, <<>>) /\ branch' = H!New
        /\ UNCHANGED <<default, H!kept>>
    BY <1>5 DEF H!Orphan
  <2>2. <<>> \in Seq(H!Commits) /\ Len(<<>>) <= 2 /\ H!Range(<<>>) = {}
    BY DEF H!Range
  <2> QED
    BY <1>1, <1>3, <2>1, <2>2
<1>6. ASSUME H!Delete \/ \E c \in DOMAIN repo : H!Create(c) \/ H!Move(c)
      PROVE  /\ UNCHANGED H!kept /\ H!TypeOK'
             /\ \A c \in DOMAIN repo : c \in DOMAIN repo' /\ repo'[c] = repo[c]
  <2>1. /\ UNCHANGED <<repo, default, H!kept>>
        /\ branch' \in DOMAIN repo \cup {H!None}
    BY <1>6 DEF H!Delete, H!Create, H!Move
  <2> QED
    BY <1>2, <1>3, <2>1
<1> QED
  BY <1>4, <1>5, <1>6 DEF H!Grow

LEMMA GrowKeeps ==
    ASSUME H!RepoAssumption, RepoInv, H!Grow
    PROVE  RepoInv'
<1>1. /\ UNCHANGED H!kept /\ H!TypeOK' /\ seen \subseteq DOMAIN repo
      /\ \A c \in seen : repo'[c] = repo[c]
  BY GrowEffect DEF RepoInv, H!TypeOK
<1>2. \A c \in seen' : graph'[c] = repo'[c] /\ H!Range(repo'[c]) \subseteq seen'
  BY <1>1 DEF RepoInv, H!kept
<1>3. /\ seen' = DOMAIN graph'
      /\ sent' = [c \in H!Commits |-> inVain'[c] + IF c \in seen' THEN 1 ELSE 0]
      /\ \A b \in DOMAIN branches' : branches'[b] # H!None => branches'[b] \in seen'
  BY <1>1 DEF RepoInv, H!kept
<1> QED
  BY <1>1, <1>2, <1>3 DEF RepoInv, H!Range, H!Commits, H!None

LEMMA RunKeeps ==
    ASSUME RepoInv, NEW prs \in H!Given, H!Run(prs, H!RepoAllCommits)
    PROVE  RepoInv'
<1> DEFINE new == H!RepoAllCommits
<1>1. /\ seen' = seen \cup new
      /\ graph' = [c \in DOMAIN graph \cup new |-> repo[c]]
      /\ sent' = [c \in H!Commits |-> sent[c] + IF c \in new THEN 1 ELSE 0]
      /\ branches' = H!NewBranches /\ prCommit' = H!NewPRCommits(prs)
      /\ UNCHANGED <<repo, default, branch, inVain>>
      /\ \E ps \in H!PRsBySHA(prs, new) :
           prTold' = [p \in PRs |-> IF p \in ps THEN prs[p] ELSE H!None]
  BY DEF H!Run, H!NewGraph
<1>2. /\ new \subseteq DOMAIN repo \ seen /\ H!Heads \subseteq seen \cup new
      /\ \A c \in seen \cup new : H!Range(repo[c]) \subseteq seen \cup new
  BY ReadClosed
<1> HIDE DEF new
<1>3. PICK given \in SUBSET PRs : prs \in [given -> DOMAIN repo]
  BY DEF H!Given
<1>4. /\ prCommit' \in [PRs -> DOMAIN repo \cup {H!None}]
      /\ prTold' \in [PRs -> DOMAIN repo \cup {H!None}]
  <2>1. prCommit' \in [PRs -> DOMAIN repo \cup {H!None}]
    BY <1>1, <1>3 DEF RepoInv, H!TypeOK, H!NewPRCommits
  <2>2. PICK ps \in H!PRsBySHA(prs, new) :
          prTold' = [p \in PRs |-> IF p \in ps THEN prs[p] ELSE H!None]
    BY <1>1
  <2>3. ps \subseteq given
    BY <1>3 DEF H!PRsBySHA, H!PRsKept
  <2> QED
    BY <1>3, <2>1, <2>2, <2>3 DEF RepoInv, H!TypeOK
<1>5. /\ branches' \in [{"default", "branch"} -> DOMAIN repo \cup {H!None}]
      /\ \A b \in DOMAIN branches' : branches'[b] # H!None => branches'[b] \in seen'
  BY <1>1, <1>2 DEF RepoInv, H!TypeOK, H!NewBranches, H!Heads
<1>6. sent' = [c \in H!Commits |-> inVain'[c] + IF c \in seen' THEN 1 ELSE 0]
  BY <1>1, <1>2 DEF RepoInv, H!TypeOK
<1>7. /\ seen' = DOMAIN graph' /\ seen' \subseteq DOMAIN repo
      /\ \A c \in seen' : graph'[c] = repo'[c] /\ H!Range(repo'[c]) \subseteq seen'
  BY <1>1, <1>2 DEF RepoInv, H!TypeOK
<1>8. sent' \in [H!Commits -> Nat] /\ inVain' \in [H!Commits -> Nat]
  BY <1>1 DEF RepoInv, H!TypeOK
<1>9. H!TypeOK'
  BY <1>1, <1>4, <1>5, <1>7, <1>8 DEF RepoInv, H!TypeOK
<1> QED
  BY <1>5, <1>6, <1>7, <1>9 DEF RepoInv, H!None, H!Range, H!Commits

LEMMA FailKeeps ==
    ASSUME RepoInv, H!Fail(H!RepoAllCommits)
    PROVE  RepoInv'
<1> DEFINE new == H!RepoAllCommits
<1>1. /\ sent' = [c \in H!Commits |-> sent[c] + IF c \in new THEN 1 ELSE 0]
      /\ inVain' = [c \in H!Commits |-> inVain[c] + IF c \in new THEN 1 ELSE 0]
      /\ prTold' \in [PRs -> DOMAIN repo \cup {H!None}]
      /\ UNCHANGED <<repo, default, branch, seen, graph, branches, prCommit>>
  BY DEF H!Fail, H!NoneTold
<1> HIDE DEF new
<1>2. sent' \in [H!Commits -> Nat] /\ inVain' \in [H!Commits -> Nat]
  BY <1>1 DEF RepoInv, H!TypeOK
<1>3. sent' = [c \in H!Commits |-> inVain'[c] + IF c \in seen' THEN 1 ELSE 0]
  BY <1>1 DEF RepoInv, H!TypeOK
<1> QED
  BY <1>1, <1>2, <1>3 DEF RepoInv, H!TypeOK, H!Range, H!Commits, H!None

LEMMA RepoStep ==
    H!RepoAssumption /\ RepoInv /\ [H!Next]_(H!vars) => RepoInv'
<1> SUFFICES ASSUME H!RepoAssumption, RepoInv, [H!Next]_(H!vars) PROVE RepoInv'
  OBVIOUS
<1>1. CASE H!Grow
  BY <1>1, GrowKeeps
<1>2. CASE UNCHANGED H!vars
  BY <1>2 DEF H!vars, H!kept, RepoInv, H!TypeOK
<1>3. CASE H!Export
  <2>1. \/ \E prs \in H!Given : H!Skip(prs) \/ H!Run(prs, H!RepoAllCommits)
        \/ H!Fail(H!RepoAllCommits)
    BY <1>3 DEF H!Export
  <2> QED
    BY <1>2, <2>1, RunKeeps, FailKeeps DEF H!Skip
<1> QED
  BY <1>1, <1>2, <1>3 DEF H!Next

LEMMA RepoInvariant == H!RepoAssumption => (H!Spec => []RepoInv)
<1> SUFFICES ASSUME H!RepoAssumption PROVE H!Spec => []RepoInv
  OBVIOUS
<1>1. H!Init => RepoInv
  BY RepoInit
<1>2. RepoInv /\ [H!Next]_(H!vars) => RepoInv'
  BY RepoStep
<1> QED
  BY <1>1, <1>2, PTL DEF H!Spec

\* When no branch has moved, all that is behind the branches was seen.
LEMMA ExportedSeen ==
    ASSUME RepoInv, H!Exported
    PROVE  H!Heads \subseteq seen /\ \A h \in H!Heads : H!Reach(H!Parents(repo), h) \subseteq seen
<1>1. H!Heads \subseteq seen
  BY DEF RepoInv, H!Exported, H!NewBranches, H!Heads
<1>2. H!Closed(H!Parents(repo), seen) /\ seen \subseteq DOMAIN H!Parents(repo)
  BY DEF RepoInv, H!TypeOK, H!Closed, H!Parents
<1> QED
  BY <1>1, <1>2, ReachWithin

LEMMA RepoTrue == H!RepoAssumption /\ RepoInv => H!CommitsTrue
<1> SUFFICES ASSUME H!RepoAssumption, RepoInv PROVE H!CommitsTrue
  OBVIOUS
<1>1. H!GraphComplete
  BY ExportedSeen DEF RepoInv, H!GraphComplete
<1>2. H!SentOnce
  <2>1. \A c \in H!Commits :
          inVain[c] \in Nat /\ sent[c] = inVain[c] + IF c \in seen THEN 1 ELSE 0
    BY DEF RepoInv, H!TypeOK
  <2>2. seen \subseteq H!Commits
    <3>1. MaxCommits \in Nat
      BY DEF H!RepoAssumption
    <3>2. /\ DOMAIN repo = 1 .. Len(repo) /\ Len(repo) \in Nat
          /\ Len(repo) <= MaxCommits /\ seen \subseteq DOMAIN repo
      BY ParentsThere DEF RepoInv, H!TypeOK
    <3> QED
      BY <3>1, <3>2 DEF H!Commits
  <2> QED
    BY <2>1, <2>2, ExportedSeen DEF H!SentOnce
<1>3. H!SkipsNothingNew
  BY ExportedSeen DEF H!SkipsNothingNew, H!skipRipsrc, H!Exported, H!RepoAllCommits
<1> QED
  BY <1>1, <1>2, <1>3 DEF RepoInv, H!CommitsTrue

\* For any number of commits, any graph of them, and any pull requests: from export to
\* export, however the branches move, each commit of a branch is sent exactly once by the
\* exports that do not fail (commits.go:84), the graph of the checkpoint has all that is behind each branch
\* (process.go:178), and an export that is skipped has nothing to send
\* (exportrepo.go:200).
THEOREM CommitsAreTrue == H!RepoAssumption => (H!Spec => []CommitsTrue)
<1> SUFFICES ASSUME H!RepoAssumption PROVE H!Spec => []CommitsTrue
  OBVIOUS
<1>1. H!Spec => []RepoInv
  BY RepoInvariant
<1>2. RepoInv => CommitsTrue
  BY RepoTrue DEF CommitsTrue
<1> QED
  BY <1>1, <1>2, PTL

\* A pull request is noted as seen at a commit of the repo only by an export that sends the
\* branch that ends there, for it or for one with the same last commit
\* (exportrepo.go:246).
THEOREM PullRequestsAreSent == H!Spec => PullRequestsSent
<1> DEFINE Seen == \A p \in PRs : prCommit'[p] # prCommit[p] /\ prCommit'[p] \in DOMAIN graph' =>
                     \E q \in PRs : prTold'[q] = prCommit'[p] /\ prCommit'[q] = prCommit'[p]
<1>1. ASSUME [H!Next]_(H!vars) PROVE [Seen]_(H!vars)
  <2>1. CASE UNCHANGED H!vars
    BY <2>1
  <2>2. CASE H!Grow
    BY <2>2 DEF H!Grow, H!Commit, H!Orphan, H!Delete, H!Create, H!Move, H!kept
  <2>3. ASSUME NEW prs \in H!Given, H!Run(prs, H!RepoAllCommits),
               NEW p \in PRs, prCommit'[p] # prCommit[p], prCommit'[p] \in DOMAIN graph'
        PROVE  \E q \in PRs : prTold'[q] = prCommit'[p] /\ prCommit'[q] = prCommit'[p]
    <3> DEFINE known == DOMAIN graph \cup H!RepoAllCommits
    <3>1. PICK given \in SUBSET PRs : prs \in [given -> DOMAIN repo]
      BY DEF H!Given
    <3>2. PICK ps \in H!PRsBySHA(prs, H!RepoAllCommits) :
            prTold' = [q \in PRs |-> IF q \in ps THEN prs[q] ELSE H!None]
      BY <2>3 DEF H!Run
    <3>3. /\ prCommit' = [q \in PRs |-> IF q \in DOMAIN prs THEN prs[q] ELSE prCommit[q]]
          /\ DOMAIN graph' = known
      BY <2>3 DEF H!Run, H!NewPRCommits, H!NewGraph
    <3>4. /\ ps \subseteq DOMAIN prs
          /\ \A q \in DOMAIN prs : prs[q] \in known => \E o \in ps : prs[o] = prs[q]
      BY <3>2 DEF H!PRsBySHA, H!PRsKept
    <3> HIDE DEF known
    <3>5. p \in DOMAIN prs /\ prCommit'[p] = prs[p] /\ prs[p] \in known
      BY <2>3, <3>3
    <3>6. PICK q \in ps : prs[q] = prs[p]
      BY <3>4, <3>5
    <3> QED
      BY <3>1, <3>2, <3>3, <3>4, <3>5, <3>6
  <2>4. CASE H!Export
    BY <2>1, <2>3, <2>4 DEF H!Export, H!Skip, H!Fail
  <2> QED
    BY <1>1, <2>1, <2>2, <2>4 DEF H!Next
<1> QED
  BY <1>1, PTL DEF H!Spec, PullRequestsSent, H!PullRequestsSent

----------------------------------------------------------------------------
(***************************************************************************)
(* History.  A walk does not leave a part of the graph that has all that   *)
(* is behind its commits.  The graph of the checkpoint is such a part of   *)
(* the repo, so that what is made of it is what would be made of the repo, *)
(* then and when the repo has grown.                                       *)
(***************************************************************************)

\* All that is behind these commits is among them.
Whole(gr, S) == S \subseteq DOMAIN gr /\ \A c \in S : H!Range(gr[c]) \subseteq S

\* Two graphs that are the same there.
SamePart(gr, other, S) == Whole(gr, S) /\ S \subseteq DOMAIN other /\ \A c \in S : other[c] = gr[c]

LEMMA ReachSame ==
    ASSUME NEW next, NEW other, NEW S, NEW from \in S,
           S \subseteq DOMAIN next, S \subseteq DOMAIN other,
           \A c \in S : other[c] = next[c] /\ next[c] \subseteq S
    PROVE  H!Reach(next, from) = H!Reach(other, from) /\ H!Reach(next, from) \subseteq S
<1>1. H!Reach(next, from) \subseteq S /\ H!Reach(other, from) \subseteq S
  BY ReachWithin DEF H!Closed
<1>2. from \in H!Reach(next, from) /\ from \in H!Reach(other, from)
  BY ReachStarts
<1>3. H!Closed(other, H!Reach(next, from)) /\ H!Closed(next, H!Reach(other, from))
  BY <1>1, ReachClosed DEF H!Closed
<1>4. H!Reach(other, from) \subseteq H!Reach(next, from)
  BY <1>1, <1>2, <1>3, ReachWithin
<1>5. H!Reach(next, from) \subseteq H!Reach(other, from)
  BY <1>1, <1>2, <1>3, ReachWithin
<1> QED
  BY <1>1, <1>4, <1>5

\* What is reached from a commit that was reached was reached.
LEMMA ReachGoesOn ==
    ASSUME NEW next, NEW from \in DOMAIN next, NEW c \in H!Reach(next, from)
    PROVE  H!Reach(next, c) \subseteq H!Reach(next, from)
BY ReachStarts, ReachClosed, ReachWithin

\* A walk visits its first commit and what is reached from those with which it goes on.
LEMMA ReachFirst ==
    ASSUME NEW next, NEW from \in DOMAIN next, NEW c \in H!Reach(next, from), c # from
    PROVE  \E p \in next[from] \cap DOMAIN next : c \in H!Reach(next, p)
<1> DEFINE S == {x \in DOMAIN next : x = from \/ \E p \in next[from] \cap DOMAIN next : x \in H!Reach(next, p)}
<1>1. ASSUME NEW x \in S, NEW q \in next[x] \cap DOMAIN next
      PROVE  q \in S
  <2>1. CASE x = from
    <3>1. q \in H!Reach(next, q)
      BY ReachStarts
    <3> QED
      BY <2>1, <3>1
  <2>2. CASE x # from
    <3>1. PICK p \in next[from] \cap DOMAIN next : x \in H!Reach(next, p)
      BY <2>2
    <3>2. q \in H!Reach(next, p)
      BY <3>1, ReachClosed DEF H!Closed
    <3> QED
      BY <3>1, <3>2
  <2> QED
    BY <2>1, <2>2
<1>2. H!Closed(next, S) /\ S \subseteq DOMAIN next /\ from \in S
  BY <1>1 DEF H!Closed
<1> HIDE DEF S
<1>3. c \in S
  BY <1>2, ReachWithin
<1> QED
  BY <1>3 DEF S

\* A walk only comes to earlier commits.
LEMMA ReachEarlier ==
    ASSUME NEW next, NEW from \in DOMAIN next, DOMAIN next \subseteq Nat,
           \A c \in DOMAIN next : \A p \in next[c] : p < c
    PROVE  \A c \in H!Reach(next, from) : c \in DOMAIN next /\ c <= from
<1> DEFINE S == {c \in DOMAIN next : c <= from}
<1>1. H!Closed(next, S)
  BY DEF H!Closed
<1>2. S \subseteq DOMAIN next /\ from \in S
  OBVIOUS
<1> HIDE DEF S
<1>3. H!Reach(next, from) \subseteq S
  BY <1>1, <1>2, ReachWithin
<1> QED
  BY <1>3 DEF S

\* What is reached in the part that is the same.
LEMMA WalksSame ==
    ASSUME NEW gr, NEW other, NEW S, SamePart(gr, other, S), NEW from \in S
    PROVE  /\ H!Reach(H!Parents(gr), from) = H!Reach(H!Parents(other), from)
           /\ H!Reach(H!Parents(gr), from) \subseteq S
           /\ \A stops : /\ H!Reach(H!StopAt(gr, stops), from) = H!Reach(H!StopAt(other, stops), from)
                      /\ H!Reach(H!StopAt(gr, stops), from) \subseteq S
                      /\ H!Reach(H!BranchParents(gr, stops), from) =
                           H!Reach(H!BranchParents(other, stops), from)
                      /\ H!Reach(H!BranchParents(gr, stops), from) \subseteq S
<1>0. /\ S \subseteq DOMAIN gr /\ S \subseteq DOMAIN other
      /\ \A c \in S : other[c] = gr[c] /\ H!Range(gr[c]) \subseteq S
  BY DEF SamePart, Whole
<1>1. /\ H!Reach(H!Parents(gr), from) = H!Reach(H!Parents(other), from)
      /\ H!Reach(H!Parents(gr), from) \subseteq S
  <2>1. /\ S \subseteq DOMAIN H!Parents(gr) /\ S \subseteq DOMAIN H!Parents(other)
        /\ \A c \in S : H!Parents(other)[c] = H!Parents(gr)[c] /\ H!Parents(gr)[c] \subseteq S
    BY <1>0 DEF H!Parents
  <2> QED
    BY <2>1, ReachSame
<1>2. ASSUME NEW stops
      PROVE  /\ H!Reach(H!StopAt(gr, stops), from) = H!Reach(H!StopAt(other, stops), from)
             /\ H!Reach(H!StopAt(gr, stops), from) \subseteq S
  <2>1. /\ S \subseteq DOMAIN H!StopAt(gr, stops) /\ S \subseteq DOMAIN H!StopAt(other, stops)
        /\ \A c \in S : H!StopAt(other, stops)[c] = H!StopAt(gr, stops)[c] /\ H!StopAt(gr, stops)[c] \subseteq S
    BY <1>0 DEF H!StopAt
  <2> QED
    BY <2>1, ReachSame
<1>3. ASSUME NEW stops
      PROVE  /\ H!Reach(H!BranchParents(gr, stops), from) = H!Reach(H!BranchParents(other, stops), from)
             /\ H!Reach(H!BranchParents(gr, stops), from) \subseteq S
  <2>1. /\ S \subseteq DOMAIN H!BranchParents(gr, stops) /\ S \subseteq DOMAIN H!BranchParents(other, stops)
        /\ \A c \in S : /\ H!BranchParents(other, stops)[c] = H!BranchParents(gr, stops)[c]
                        /\ H!BranchParents(gr, stops)[c] \subseteq S
    BY <1>0 DEF H!BranchParents
  <2> QED
    BY <2>1, ReachSame
<1> QED
  BY <1>1, <1>2, <1>3

\* The parts of what is sent of a branch.
LEMMA PartsSame ==
    ASSUME NEW gr, NEW other, NEW S, SamePart(gr, other, S), NEW d \in S, NEW h \in S
    PROVE  LET reach == H!ReachForBranch(gr, d, h)
               points == H!ForkPoints(gr, reach, h)
           IN /\ H!reachableFromHead(gr, d) = H!reachableFromHead(other, d)
              /\ reach = H!ReachForBranch(other, d, h) /\ reach \subseteq S
              /\ H!branchCommits(gr, reach, h) = H!branchCommits(other, reach, h)
              /\ H!branchCommits(gr, reach, h) \subseteq S
              /\ points = H!ForkPoints(other, reach, h)
              /\ H!dedupLinearFromHead(gr, points) = H!dedupLinearFromHead(other, points)
              /\ H!behindBranch(gr, d, h) = H!behindBranch(other, d, h)
              /\ H!getMergeCommit(gr, d, h) = H!getMergeCommit(other, d, h)
<1> DEFINE reach == H!ReachForBranch(gr, d, h)
           points == H!ForkPoints(gr, reach, h)
<1>0. \A c \in S : other[c] = gr[c] /\ H!Range(gr[c]) \subseteq S
  BY DEF SamePart, Whole
<1>1. /\ H!reachableFromHead(gr, d) = H!reachableFromHead(other, d)
      /\ H!reachableFromHead(gr, d) \subseteq S
  BY WalksSame DEF H!reachableFromHead
<1>2. reach = H!ReachForBranch(other, d, h) /\ reach \subseteq S
  BY <1>1, WalksSame DEF H!ReachForBranch
<1> HIDE DEF reach
<1>3. /\ H!branchCommits(gr, reach, h) = H!branchCommits(other, reach, h)
      /\ H!branchCommits(gr, reach, h) \subseteq S
  BY WalksSame DEF H!branchCommits
<1>4. points = H!ForkPoints(other, reach, h) /\ points \subseteq S
  BY <1>0, <1>2, <1>3 DEF H!ForkPoints
<1> HIDE DEF points
<1>5. H!dedupLinearFromHead(gr, points) = H!dedupLinearFromHead(other, points)
  <2>1. ASSUME NEW c \in points, NEW p \in H!Range(gr[c])
        PROVE  H!Reach(H!Parents(gr), p) = H!Reach(H!Parents(other), p)
    BY <1>0, <1>4, WalksSame
  <2>2. \A c \in points : other[c] = gr[c]
    BY <1>0, <1>4
  <2> QED
    BY <2>1, <2>2 DEF H!dedupLinearFromHead
<1>6. H!behindBranch(gr, d, h) = H!behindBranch(other, d, h)
  BY <1>1, WalksSame DEF H!behindBranch, H!reachableFromHead
<1>7. H!getMergeCommit(gr, d, h) = H!getMergeCommit(other, d, h)
  BY <1>0, <1>1 DEF H!getMergeCommit
<1> QED
  BY <1>1, <1>2, <1>3, <1>4, <1>5, <1>6, <1>7 DEF reach, points

\* What is sent of a branch depends on what is behind it and the default branch only.
LEMMA BranchSame ==
    ASSUME NEW gr, NEW other, NEW S, SamePart(gr, other, S), NEW d \in S, NEW h \in S
    PROVE  H!processBranch(gr, d, h) = H!processBranch(other, d, h)
<1> DEFINE reach == H!ReachForBranch(gr, d, h)
           points == H!ForkPoints(gr, reach, h)
<1>1. /\ H!reachableFromHead(gr, d) = H!reachableFromHead(other, d)
      /\ reach = H!ReachForBranch(other, d, h)
      /\ H!branchCommits(gr, reach, h) = H!branchCommits(other, reach, h)
      /\ points = H!ForkPoints(other, reach, h)
      /\ H!dedupLinearFromHead(gr, points) = H!dedupLinearFromHead(other, points)
      /\ H!behindBranch(gr, d, h) = H!behindBranch(other, d, h)
      /\ H!getMergeCommit(gr, d, h) = H!getMergeCommit(other, d, h)
  BY PartsSame
<1> DEFINE merged == h \in H!reachableFromHead(gr, d)
           toSend(g, commits, from) ==
             [head |-> h, default |-> d, merged |-> merged, commits |-> commits, from |-> from,
              mergeCommits |-> IF merged THEN H!getMergeCommit(g, d, h) ELSE {},
              behind |-> IF ~ merged /\ from # {} THEN H!behindBranch(g, d, h) ELSE 0]
<1>2. H!processBranch(gr, d, h) =
        toSend(gr, H!branchCommits(gr, reach, h), H!dedupLinearFromHead(gr, points))
  BY Zenon DEF H!processBranch
<1>3. H!processBranch(other, d, h) =
        toSend(other, H!branchCommits(other, reach, h), H!dedupLinearFromHead(other, points))
  <2>1. H!processBranch(other, d, h) =
          LET r == H!ReachForBranch(other, d, h)
              from == H!dedupLinearFromHead(other, H!ForkPoints(other, r, h))
              m == h \in H!reachableFromHead(other, d)
          IN [head |-> h, default |-> d, merged |-> m,
              commits |-> H!branchCommits(other, r, h), from |-> from,
              mergeCommits |-> IF m THEN H!getMergeCommit(other, d, h) ELSE {},
              behind |-> IF ~ m /\ from # {} THEN H!behindBranch(other, d, h) ELSE 0]
    BY Zenon DEF H!processBranch
  <2> HIDE DEF reach, points
  <2> QED
    BY <1>1, <2>1
<1> HIDE DEF reach, points, merged
<1> QED
  BY <1>1, <1>2, <1>3

\* A graph that has all that is behind the heads has the commits that the walks come to.
LEMMA CommitsFound ==
    ASSUME NEW gr, NEW S, Whole(gr, S), NEW d \in S, NEW h \in S
    PROVE  ~ H!CommitNotFound(gr, d, h)
<1> DEFINE reach == H!ReachForBranch(gr, d, h)
<1>1. SamePart(gr, gr, S) /\ S \subseteq DOMAIN gr /\ \A c \in S : H!Range(gr[c]) \subseteq S
  BY DEF SamePart, Whole
<1>2. reach \subseteq S /\ H!branchCommits(gr, reach, h) \subseteq S
  BY <1>1, PartsSame
<1> QED
  BY <1>1, <1>2 DEF H!CommitNotFound

----------------------------------------------------------------------------
(* What is sent of a branch is what its definition says. *)

\* A history of commits: parents are there and are earlier.
Acyclic(gr) ==
    /\ DOMAIN gr \subseteq Nat
    /\ \A c \in DOMAIN gr : \A p \in H!Range(gr[c]) : p \in DOMAIN gr /\ p < c

\* All that is behind a commit, as the walks see it.
Behind(gr, c) == H!Reach(H!Parents(gr), c)

\* What the default branch has without the other one.
Apart(gr, d, h) ==
    IF h \in Behind(gr, d) THEN H!Reach(H!StopAt(gr, {h}), d) ELSE Behind(gr, d)

LEMMA BehindFacts ==
    ASSUME NEW gr, Acyclic(gr), NEW c \in DOMAIN gr
    PROVE  /\ c \in Behind(gr, c) /\ Behind(gr, c) \subseteq DOMAIN gr
           /\ \A x \in Behind(gr, c) : x <= c /\ H!Range(gr[x]) \subseteq Behind(gr, c)
           /\ \A x \in Behind(gr, c) : Behind(gr, x) \subseteq Behind(gr, c)
           /\ \A x \in Behind(gr, c) \ {c} : \E p \in H!Range(gr[c]) : x \in Behind(gr, p)
<1> DEFINE next == H!Parents(gr)
<1>1. /\ DOMAIN next = DOMAIN gr
      /\ \A x \in DOMAIN gr : next[x] = H!Range(gr[x])
  BY DEF H!Parents
<1>2. DOMAIN next \subseteq Nat /\ \A x \in DOMAIN next : \A p \in next[x] : p < x
  BY <1>1 DEF Acyclic
<1> HIDE DEF next
<1>3. c \in H!Reach(next, c) /\ H!Reach(next, c) \subseteq DOMAIN next
  BY <1>1, ReachStarts
<1>4. \A x \in H!Reach(next, c) : x <= c
  BY <1>1, <1>2, ReachEarlier
<1>5. \A x \in H!Reach(next, c) : H!Range(gr[x]) \subseteq H!Reach(next, c)
  BY <1>1, <1>3, ReachClosed DEF H!Closed, Acyclic
<1>6. \A x \in H!Reach(next, c) : H!Reach(next, x) \subseteq H!Reach(next, c)
  BY <1>1, ReachGoesOn
<1>7. \A x \in H!Reach(next, c) \ {c} : \E p \in H!Range(gr[c]) : x \in H!Reach(next, p)
  BY <1>1, ReachFirst
<1> QED
  BY <1>1, <1>3, <1>4, <1>5, <1>6, <1>7 DEF Behind, next

\* A set that has the commit, and with each commit its parents, has all that is behind it.
LEMMA BehindWithin ==
    ASSUME NEW gr, NEW c, NEW S, Whole(gr, S), c \in S
    PROVE  Behind(gr, c) \subseteq S
<1>1. S \subseteq DOMAIN H!Parents(gr) /\ H!Closed(H!Parents(gr), S)
  BY DEF Whole, H!Closed, H!Parents
<1> QED
  BY <1>1, ReachWithin DEF Behind

LEMMA ApartFacts ==
    ASSUME NEW gr, Acyclic(gr), NEW d \in DOMAIN gr, NEW h \in DOMAIN gr
    PROVE  /\ Apart(gr, d, h) = H!ReachForBranch(gr, d, h)
           /\ Apart(gr, d, h) \subseteq DOMAIN gr
           /\ \A c \in Apart(gr, d, h) \ {h} : H!Range(gr[c]) \subseteq Apart(gr, d, h)
<1>1. Apart(gr, d, h) = H!ReachForBranch(gr, d, h)
  BY DEF Apart, Behind, H!ReachForBranch, H!reachableFromHead
<1>2. CASE h \in Behind(gr, d)
  <2> DEFINE next == H!StopAt(gr, {h})
  <2>1. DOMAIN next = DOMAIN gr /\ \A c \in DOMAIN gr \ {h} : next[c] = H!Range(gr[c])
    BY DEF H!StopAt
  <2> HIDE DEF next
  <2>2. H!Reach(next, d) \subseteq DOMAIN gr
    BY <2>1, ReachStarts
  <2>3. \A c \in H!Reach(next, d) \ {h} : H!Range(gr[c]) \subseteq H!Reach(next, d)
    BY <2>1, <2>2, ReachClosed DEF H!Closed, Acyclic
  <2> QED
    BY <1>1, <1>2, <2>2, <2>3 DEF Apart, next
<1>3. CASE h \notin Behind(gr, d)
  <2>1. Apart(gr, d, h) = Behind(gr, d)
    BY <1>3 DEF Apart
  <2> QED
    BY <1>1, <2>1, BehindFacts
<1> QED
  BY <1>2, <1>3

LEMMA OwnFacts ==
    ASSUME NEW gr, Acyclic(gr), NEW d \in DOMAIN gr, NEW h \in DOMAIN gr
    PROVE  H!branchCommits(gr, Apart(gr, d, h), h) = (Behind(gr, h) \ Apart(gr, d, h)) \cup {h}
<1> DEFINE reach == Apart(gr, d, h)
           next == H!BranchParents(gr, reach)
           own == H!Reach(next, h)
<1>1. reach \subseteq DOMAIN gr /\ \A c \in reach \ {h} : H!Range(gr[c]) \subseteq reach
  BY ApartFacts
<1> HIDE DEF reach
<1>2. DOMAIN next = DOMAIN gr /\ \A c \in DOMAIN gr : next[c] = H!Range(gr[c]) \ reach
  BY DEF H!BranchParents
<1> HIDE DEF next
<1>3. own \subseteq (Behind(gr, h) \ reach) \cup {h}
  <2> DEFINE S == (Behind(gr, h) \ reach) \cup {h}
  <2>1. S \subseteq DOMAIN next /\ h \in S
    BY <1>2, BehindFacts
  <2>2. H!Closed(next, S)
    BY <1>2, BehindFacts DEF H!Closed
  <2> QED
    BY <2>1, <2>2, ReachWithin
<1>4. Behind(gr, h) \subseteq own \cup reach
  <2>1. h \in own /\ own \subseteq DOMAIN gr
    BY <1>2, ReachStarts
  <2>2. \A c \in own : H!Range(gr[c]) \subseteq own \cup reach
    BY <1>2, <2>1, ReachClosed DEF H!Closed, Acyclic
  <2> HIDE DEF own
  <2>3. Whole(gr, own \cup reach)
    BY <1>1, <2>1, <2>2 DEF Whole
  <2> QED
    BY <2>1, <2>3, BehindWithin
<1>5. h \in own
  BY <1>2, ReachStarts
<1>6. H!branchCommits(gr, reach, h) = own
  BY DEF H!branchCommits, next
<1> QED
  BY <1>3, <1>4, <1>5, <1>6 DEF reach

LEMMA ForkFacts ==
    ASSUME NEW gr, Acyclic(gr), NEW points \in SUBSET DOMAIN gr
    PROVE  H!dedupLinearFromHead(gr, points) =
             {p \in points : Behind(gr, p) \cap points = {p}}
<1> SUFFICES ASSUME NEW c \in points
             PROVE  (\A p \in H!Range(gr[c]) : Behind(gr, p) \cap points = {})
                      <=> Behind(gr, c) \cap points = {c}
  BY DEF H!dedupLinearFromHead, Behind
<1>1. c \in DOMAIN gr /\ c \in Nat
  BY DEF Acyclic
<1>2. \A p \in H!Range(gr[c]) :
        p \in DOMAIN gr /\ p \in Nat /\ p < c /\ p \in Behind(gr, c)
  BY <1>1, BehindFacts DEF Acyclic
<1>3. \A p \in H!Range(gr[c]) : Behind(gr, p) \subseteq Behind(gr, c) \ {c}
  BY <1>1, <1>2, BehindFacts
<1> QED
  BY <1>1, <1>3, BehindFacts

LEMMA CardinalitySame == ASSUME NEW S PROVE H!Cardinality(S) = Cardinality(S)
BY Zenon DEF H!Cardinality, Cardinality

LEMMA LacksFacts ==
    ASSUME NEW gr, Acyclic(gr), NEW d \in DOMAIN gr, NEW h \in DOMAIN gr,
           IsFiniteSet(DOMAIN gr)
    PROVE  LET lacked == Behind(gr, d) \ Behind(gr, h)
           IN /\ H!behindBranch(gr, d, h) >= Cardinality(lacked)
              /\ (\A x \in Behind(gr, d) : \A p, q \in H!Range(gr[x]) : p = q) =>
                   H!behindBranch(gr, d, h) = Cardinality(lacked)
<1> DEFINE lacked == Behind(gr, d) \ Behind(gr, h)
           rfb == H!Reach(H!StopAt(gr, Behind(gr, d)), h)
           walk == H!Reach(H!StopAt(gr, rfb), d)
<1>a. \A stops : /\ DOMAIN H!StopAt(gr, stops) = DOMAIN gr
              /\ \A c \in DOMAIN gr : H!StopAt(gr, stops)[c] = IF c \in stops THEN {} ELSE H!Range(gr[c])
  BY DEF H!StopAt
<1>b. H!behindBranch(gr, d, h) = Cardinality(walk \ rfb)
  BY CardinalitySame DEF H!behindBranch, H!reachableFromHead, Behind
<1>1. /\ h \in rfb /\ rfb \subseteq DOMAIN gr
      /\ \A c \in rfb \ Behind(gr, d) : H!Range(gr[c]) \subseteq rfb
  BY <1>a, ReachStarts, ReachClosed DEF H!Closed, Acyclic
<1>2. rfb \subseteq Behind(gr, h)
  <2>1. H!Closed(H!StopAt(gr, Behind(gr, d)), Behind(gr, h))
    BY <1>a, BehindFacts DEF H!Closed
  <2> QED
    BY <1>a, <2>1, BehindFacts, ReachWithin
<1> HIDE DEF rfb
<1>3. /\ d \in walk /\ walk \subseteq DOMAIN gr
      /\ \A c \in walk \ rfb : H!Range(gr[c]) \subseteq walk
  BY <1>a, <1>1, ReachStarts, ReachClosed DEF H!Closed, Acyclic
<1>4. lacked \subseteq walk \ rfb
  <2>1. Whole(gr, walk \cup Behind(gr, h))
    BY <1>2, <1>3, BehindFacts DEF Whole
  <2>2. Behind(gr, d) \subseteq walk \cup Behind(gr, h)
    BY <1>3, <2>1, BehindWithin
  <2> QED
    BY <1>2, <2>2
<1>5. ASSUME \A x \in Behind(gr, d) : \A p, q \in H!Range(gr[x]) : p = q
      PROVE  walk \ rfb \subseteq lacked
  <2>1. walk \subseteq Behind(gr, d)
    <3>1. H!Closed(H!StopAt(gr, rfb), Behind(gr, d))
      BY <1>a, BehindFacts DEF H!Closed
    <3> QED
      BY <1>a, <3>1, BehindFacts, ReachWithin
  <2> SUFFICES ASSUME NEW c \in walk \ rfb, c \in Behind(gr, h) PROVE FALSE
    BY <2>1
  <2>2. PICK q \in rfb \cap Behind(gr, d) : c \in Behind(gr, q)
    <3> DEFINE S == {x \in DOMAIN gr : x \in rfb \/ \E q \in rfb \cap Behind(gr, d) : x \in Behind(gr, q)}
    <3>1. ASSUME NEW x \in S, NEW p \in H!Range(gr[x])
          PROVE  p \in S
      <4>1. p \in DOMAIN gr
        BY DEF Acyclic
      <4>2. CASE x \in rfb \ Behind(gr, d)
        BY <1>1, <4>1, <4>2
      <4>3. ASSUME NEW q \in rfb \cap Behind(gr, d), x \in Behind(gr, q)
            PROVE  p \in S
        <5>1. q \in DOMAIN gr /\ p \in Behind(gr, q)
          BY <1>1, <4>3, BehindFacts
        <5> QED
          BY <4>1, <5>1
      <4>4. CASE x \in rfb \cap Behind(gr, d)
        BY <4>3, <4>4, BehindFacts
      <4> QED
        BY <4>2, <4>3, <4>4
    <3>2. Whole(gr, S) /\ h \in S
      BY <1>1, <3>1 DEF Whole
    <3> HIDE DEF S
    <3>3. c \in S
      BY <3>2, BehindWithin
    <3> QED
      BY <3>3 DEF S
  <2> DEFINE T == {x \in Behind(gr, d) : q \in Behind(gr, x)}
  <2>3. ASSUME NEW x \in T, x \notin rfb, NEW p \in H!Range(gr[x])
        PROVE  p \in T
    <3>1. x \in DOMAIN gr /\ x # q /\ p \in Behind(gr, d)
      BY <2>3, BehindFacts
    <3>2. PICK o \in H!Range(gr[x]) : q \in Behind(gr, o)
      BY <3>1, BehindFacts
    <3>3. o = p
      BY <1>5, <3>2
    <3> QED
      BY <3>1, <3>2, <3>3
  <2>4. H!Closed(H!StopAt(gr, rfb), T) /\ d \in T /\ T \subseteq DOMAIN gr
    BY <1>a, <2>3, BehindFacts DEF H!Closed
  <2> HIDE DEF T
  <2>5. c \in T
    BY <1>a, <2>4, ReachWithin
  <2>6. c \in DOMAIN gr /\ q \in DOMAIN gr /\ q \in Behind(gr, c)
    BY <1>1, <1>3, <2>5 DEF T
  <2>7. q <= c /\ c <= q /\ q \in Nat /\ c \in Nat
    BY <2>2, <2>6, BehindFacts DEF Acyclic
  <2> QED
    BY <2>2, <2>7
<1>6. IsFiniteSet(walk \ rfb)
  BY <1>3, FS_Subset
<1>7. /\ Cardinality(lacked) <= Cardinality(walk \ rfb)
      /\ Cardinality(lacked) \in Nat /\ Cardinality(walk \ rfb) \in Nat
  BY <1>4, <1>6, FS_Subset, FS_CardinalityType
<1>8. (\A x \in Behind(gr, d) : \A p, q \in H!Range(gr[x]) : p = q) => lacked = walk \ rfb
  BY <1>4, <1>5
<1> HIDE DEF lacked, walk
<1>9. /\ H!behindBranch(gr, d, h) >= Cardinality(lacked)
      /\ (\A x \in Behind(gr, d) : \A p, q \in H!Range(gr[x]) : p = q) =>
           H!behindBranch(gr, d, h) = Cardinality(lacked)
  BY <1>b, <1>7, <1>8
<1> QED
  BY <1>9 DEF lacked

\* What is sent of a branch of the repo.
LEMMA SentTrue ==
    ASSUME H!TypeOK, NEW d \in DOMAIN repo, NEW h \in DOMAIN repo,
           told = H!processBranch(repo, d, h)
    PROVE  H!OwnCommits /\ H!OldestForks /\ H!BehindByMissing
<1> DEFINE merged == h \in Behind(repo, d)
           reach == H!ReachForBranch(repo, d, h)
           points == H!ForkPoints(repo, reach, h)
<1>0. /\ told.head = h /\ told.default = d /\ told.merged = merged
      /\ told.commits = H!branchCommits(repo, reach, h)
      /\ told.from = H!dedupLinearFromHead(repo, points)
      /\ ~ merged /\ told.from # {} => told.behind = H!behindBranch(repo, d, h)
  BY DEF H!processBranch, Behind, H!reachableFromHead
<1>1. repo \in Seq(Seq(H!Commits)) /\ Len(repo) \in Nat /\ DOMAIN repo = 1 .. Len(repo)
  BY ParentsThere DEF H!TypeOK
<1>2. Acyclic(repo)
  BY <1>1, ParentsThere DEF Acyclic, H!TypeOK
<1>3. IsFiniteSet(DOMAIN repo)
  BY <1>1, FS_Interval
<1>4. \A c : H!Ancestors(c) = Behind(repo, c)
  BY DEF H!Ancestors, Behind
<1>5. H!Elsewhere = reach /\ reach = Apart(repo, d, h) /\ reach \subseteq DOMAIN repo
  <2>1. H!Elsewhere = Apart(repo, d, h)
    BY <1>0, <1>4 DEF H!Elsewhere, H!Without, Apart
  <2> QED
    BY <1>2, <2>1, ApartFacts
<1> HIDE DEF reach
<1>6. H!OwnCommits
  BY <1>0, <1>2, <1>4, <1>5, OwnFacts DEF H!OwnCommits
<1>7. H!OldestForks
  <2> DEFINE met == {p \in H!Elsewhere : \E c \in told.commits : p \in H!Range(repo[c])}
  <2>1. met = points /\ points \in SUBSET DOMAIN repo
    BY <1>0, <1>5 DEF H!ForkPoints
  <2> HIDE DEF points, met
  <2>2. told.from = {p \in met : H!Ancestors(p) \cap met = {p}}
    BY <1>0, <1>2, <1>4, <2>1, ForkFacts
  <2> QED
    BY <2>2 DEF met, H!OldestForks
<1>8. ASSUME ~ told.merged, told.from # {}
      PROVE  LET lacked == H!Ancestors(told.default) \ H!Ancestors(told.head)
             IN /\ told.behind >= H!Cardinality(lacked)
                /\ H!Linear(told.default) => told.behind = H!Cardinality(lacked)
  <2>1. told.behind = H!behindBranch(repo, d, h)
    BY <1>0, <1>8
  <2>2. ASSUME NEW c \in DOMAIN repo, Len(repo[c]) < 2,
               NEW p \in H!Range(repo[c]), NEW q \in H!Range(repo[c])
        PROVE  p = q
    <3>1. repo[c] \in Seq(H!Commits)
      BY <1>1
    <3>2. DOMAIN repo[c] \subseteq {1}
      BY <2>2, <3>1
    <3> QED
      BY <3>2 DEF H!Range
  <2>3. H!Linear(d) => \A x \in Behind(repo, d) : \A p, q \in H!Range(repo[x]) : p = q
    BY <1>2, <1>4, <2>2, BehindFacts DEF H!Linear
  <2> QED
    BY <1>0, <1>2, <1>3, <1>4, <2>1, <2>3, LacksFacts, CardinalitySame
<1> QED
  BY <1>6, <1>7, <1>8 DEF H!BehindByMissing

\* What was sent is what the graph, and the repo, say of the heads at the last export.
ToldInv ==
    IF branches = <<>> THEN told = H!NoBranch
    ELSE /\ branches["default"] # H!None
         /\ told = IF branches["branch"] = H!None THEN H!NoBranch
                   ELSE H!processBranch(repo, branches["default"], branches["branch"])

LEMMA ToldTrue == RepoInv /\ ToldInv => H!BranchTrue
<1> SUFFICES ASSUME RepoInv, ToldInv PROVE H!BranchTrue
  OBVIOUS
<1>1. H!TypeOK /\ seen \subseteq DOMAIN repo
  BY DEF RepoInv, H!TypeOK
<1>2. H!ToldIsCurrent
  BY DEF H!ToldIsCurrent, H!Exported, H!NewBranches, ToldInv
<1>3. CASE told = H!NoBranch
  BY <1>2, <1>3 DEF H!BranchTrue, H!OwnCommits, H!OldestForks, H!BehindByMissing
<1>4. CASE told # H!NoBranch
  <2>1. /\ branches # <<>> /\ branches["branch"] # H!None
        /\ told = H!processBranch(repo, branches["default"], branches["branch"])
        /\ branches["default"] # H!None
    BY <1>4 DEF ToldInv
  <2>2. DOMAIN branches = {"default", "branch"}
    BY <1>1, <2>1 DEF H!TypeOK
  <2>3. branches["default"] \in DOMAIN repo /\ branches["branch"] \in DOMAIN repo
    BY <1>1, <2>1, <2>2 DEF RepoInv
  <2>4. H!OwnCommits /\ H!OldestForks /\ H!BehindByMissing
    BY <1>1, <2>1, <2>3, SentTrue
  <2> QED
    BY <1>2, <2>4 DEF H!BranchTrue
<1> QED
  BY <1>3, <1>4

\* The steps of History are steps of RepoCommits,
LEMMA HistoryStep == [H!HistoryNext]_<<H!vars, told>> => [H!Next]_(H!vars)
BY DEF H!HistoryNext, H!ExportBranch, H!Next, H!Export

\* so that what was shown of the commits holds of History too.
LEMMA HistoryCommits == H!HistorySpec => H!Spec
<1>1. H!HistoryInit => H!Init
  BY DEF H!HistoryInit
<1> QED
  BY <1>1, HistoryStep, PTL DEF H!HistorySpec, H!Spec

\* What was said stays true while the repo grows,
LEMMA ToldGrow ==
    ASSUME H!RepoAssumption, RepoInv, ToldInv, H!Grow, UNCHANGED told
    PROVE  ToldInv'
<1>1. /\ branches' = branches /\ seen \subseteq DOMAIN repo
      /\ \A c \in DOMAIN repo : c \in DOMAIN repo' /\ repo'[c] = repo[c]
  BY GrowEffect DEF H!kept, RepoInv, H!TypeOK
<1>2. SamePart(repo, repo', seen)
  BY <1>1 DEF RepoInv, SamePart, Whole
<1>3. ASSUME branches # <<>>, branches["branch"] # H!None
      PROVE  H!processBranch(repo, branches["default"], branches["branch"]) =
               H!processBranch(repo', branches["default"], branches["branch"])
  <2>1. DOMAIN branches = {"default", "branch"} /\ branches["default"] # H!None
    BY <1>3 DEF RepoInv, H!TypeOK, ToldInv
  <2>2. branches["default"] \in seen /\ branches["branch"] \in seen
    BY <1>3, <2>1 DEF RepoInv
  <2> QED
    BY <1>2, <2>2, BranchSame
<1>4. H!NoBranch' = H!NoBranch /\ H!None' = H!None
  BY DEF H!NoBranch, H!None
<1> QED
  BY <1>1, <1>3, <1>4 DEF ToldInv

\* and an export says what the repo says, of the graph that it leaves in the checkpoint.
LEMMA ToldExport ==
    ASSUME H!RepoAssumption, RepoInv, ToldInv, H!ExportBranch
    PROVE  ToldInv'
<1> DEFINE new == H!RepoAllCommits
           gr == H!NewGraph(new)
<1>1. \/ \E prs \in H!Given : H!Run(prs, new) /\ told' = H!BranchSent(gr)
      \/ (H!Fail(new) \/ \E prs \in H!Given : H!Skip(prs)) /\ UNCHANGED told
  BY DEF H!ExportBranch
<1>2. CASE \E prs \in H!Given : H!Run(prs, new) /\ told' = H!BranchSent(gr)
  <2> DEFINE S == seen \cup new
  <2>1. /\ S \subseteq DOMAIN repo /\ H!Heads \subseteq S
        /\ \A c \in S : H!Range(repo[c]) \subseteq S
    BY ReadClosed DEF RepoInv, H!TypeOK
  <2>2. DOMAIN gr = S /\ \A c \in S : gr[c] = repo[c]
    BY DEF H!NewGraph, RepoInv
  <2>3. /\ branches' = H!NewBranches /\ UNCHANGED <<repo, default, branch>>
        /\ told' = H!BranchSent(gr)
    BY <1>2 DEF H!Run
  <2> HIDE DEF new, gr, S
  <2>4. /\ branches'["default"] = default /\ branches'["branch"] = branch
        /\ branches' # <<>> /\ default # H!None
    <3>1. default \in Nat \ {0}
      BY ParentsThere DEF RepoInv, H!TypeOK
    <3> QED
      BY <2>3, <3>1 DEF H!NewBranches, H!None
  <2>5. CASE branch = H!None
    BY <2>3, <2>4, <2>5 DEF ToldInv, H!BranchSent, H!None, H!NoBranch
  <2>6. CASE branch # H!None
    <3>1. default \in S /\ branch \in S
      BY <2>1, <2>4, <2>6 DEF H!Heads
    <3>2. SamePart(repo, gr, S) /\ Whole(gr, S)
      BY <2>1, <2>2 DEF SamePart, Whole
    <3>3. /\ ~ H!CommitNotFound(gr, default, branch)
          /\ H!processBranch(gr, default, branch) = H!processBranch(repo, default, branch)
      BY <3>1, <3>2, CommitsFound, BranchSame
    <3>4. told' = H!processBranch(repo, default, branch)
      BY <2>3, <2>6, <3>3 DEF H!BranchSent
    <3>5. H!processBranch(repo, default, branch) =
            H!processBranch(repo', branches'["default"], branches'["branch"])
      BY <2>3, <2>4
    <3> QED
      BY <2>4, <2>6, <3>4, <3>5 DEF ToldInv, H!None
  <2> QED
    BY <2>5, <2>6
<1>3. CASE (H!Fail(new) \/ \E prs \in H!Given : H!Skip(prs)) /\ UNCHANGED told
  <2>1. UNCHANGED <<repo, branches, told>>
    BY <1>3 DEF H!Fail, H!Skip, H!vars, H!kept
  <2> QED
    BY <2>1 DEF ToldInv, H!NoBranch, H!None
<1> QED
  BY <1>1, <1>2, <1>3

\* For any number of commits, any graph of them, and however the branches move: the
\* commits that are sent of a branch are those that the default branch does not have, or
\* of a merged one would not have without it (branch_commits.go), it was made from the
\* oldest commits in which it meets the default branch (process.go:226), it is behind by
\* no less than what it lacks, by exactly that when the default branch is linear
\* (behind_branch.go), and an export that is skipped leaves nothing untrue.
THEOREM BranchesAreTrue == H!RepoAssumption => (H!HistorySpec => []BranchTrue)
<1> SUFFICES ASSUME H!RepoAssumption PROVE H!HistorySpec => []BranchTrue
  OBVIOUS
<1>1. H!HistoryInit => RepoInv /\ ToldInv
  BY RepoInit DEF H!HistoryInit, H!Init, ToldInv
<1>2. ASSUME RepoInv, ToldInv, [H!HistoryNext]_<<H!vars, told>>
      PROVE  RepoInv' /\ ToldInv'
  <2>1. RepoInv'
    BY <1>2, HistoryStep, RepoStep
  <2>2. CASE H!Grow /\ UNCHANGED told
    BY <1>2, <2>1, <2>2, ToldGrow
  <2>3. CASE H!ExportBranch
    BY <1>2, <2>1, <2>3, ToldExport
  <2>4. CASE UNCHANGED <<H!vars, told>>
    BY <1>2, <2>1, <2>4 DEF H!vars, H!kept, ToldInv, H!NoBranch, H!None
  <2> QED
    BY <1>2, <2>1, <2>2, <2>3, <2>4 DEF H!HistoryNext
<1>3. RepoInv /\ ToldInv => BranchTrue
  BY ToldTrue DEF BranchTrue
<1> QED
  BY <1>1, <1>2, <1>3, PTL DEF H!HistorySpec

----------------------------------------------------------------------------
(***************************************************************************)
(* What the walks have in common: some commits are to be visited, and one  *)
(* of them after the other, in any order, is left alone when it was        *)
(* visited before, and otherwise visited and gone on from.                 *)
(***************************************************************************)

\* One turn of a walk, from the commits `todo' that are to be visited and `done' that were.
Visits(next, todo, done, todo1, done1) ==
    \E c \in todo :
        IF c \in done THEN todo1 = todo \ {c} /\ done1 = done
        ELSE todo1 = (todo \ {c}) \cup next[c] /\ done1 = done \cup {c}

\* What was visited was reached, and all that is next to it was visited or will be.
OnItsWay(next, from, todo, done) ==
    /\ from \in todo \cup done
    /\ todo \cup done \subseteq H!Reach(next, from)
    /\ \A c \in done : next[c] \subseteq todo \cup done

LEMMA VisitsOnTheWay ==
    ASSUME NEW next, NEW from \in DOMAIN next,
           \A c \in DOMAIN next : next[c] \subseteq DOMAIN next,
           NEW todo, NEW done, NEW todo1, NEW done1,
           OnItsWay(next, from, todo, done), Visits(next, todo, done, todo1, done1)
    PROVE  OnItsWay(next, from, todo1, done1)
<1>1. PICK c \in todo : IF c \in done THEN todo1 = todo \ {c} /\ done1 = done
                        ELSE todo1 = (todo \ {c}) \cup next[c] /\ done1 = done \cup {c}
  BY DEF Visits
<1>2. CASE c \in done
  BY <1>1, <1>2 DEF OnItsWay
<1>3. CASE c \notin done
  <2>1. c \in DOMAIN next /\ next[c] \subseteq H!Reach(next, from)
    BY ReachStarts, ReachClosed DEF OnItsWay, H!Closed
  <2> QED
    BY <1>1, <1>3, <2>1 DEF OnItsWay
<1> QED
  BY <1>2, <1>3

\* For any graph that has the parents of its commits: a walk with a set of what was visited
\* (branch_commits.go:15, behind_branch.go:5, process.go:204) has visited
\* Reach when nothing is left to be visited, in whichever order it has done so.
THEOREM WalksVisitReach ==
    ASSUME NEW next, NEW from \in DOMAIN next,
           \A c \in DOMAIN next : next[c] \subseteq DOMAIN next,
           NEW n \in Nat, NEW todo, NEW done,
           todo[0] = {from}, done[0] = {},
           \A i \in 0 .. n - 1 : Visits(next, todo[i], done[i], todo[i + 1], done[i + 1]),
           todo[n] = {}
    PROVE  done[n] = H!Reach(next, from)
<1> DEFINE offWay == {i \in 0 .. n : ~ OnItsWay(next, from, todo[i], done[i])}
<1>1. 0 \notin offWay
  BY ReachStarts DEF OnItsWay
<1>2. offWay = {}
  <2> SUFFICES ASSUME offWay # {} PROVE FALSE
    OBVIOUS
  <2>1. PICK i \in offWay : \A j \in offWay : i <= j
    <3>1. offWay \in SUBSET Nat
      OBVIOUS
    <3> HIDE DEF offWay
    <3> QED
      BY <3>1, Least
  <2>2. i \in 1 .. n /\ i - 1 \in 0 .. n - 1 /\ i - 1 \notin offWay
    BY <1>1, <2>1
  <2>3. OnItsWay(next, from, todo[i - 1], done[i - 1])
    BY <2>2
  <2>4. Visits(next, todo[i - 1], done[i - 1], todo[(i - 1) + 1], done[(i - 1) + 1])
    BY <2>2
  <2>5. OnItsWay(next, from, todo[(i - 1) + 1], done[(i - 1) + 1])
    BY <2>3, <2>4, VisitsOnTheWay
  <2>6. (i - 1) + 1 = i
    BY <2>2
  <2> QED
    BY <2>1, <2>5, <2>6
<1>3. OnItsWay(next, from, {}, done[n])
  <2>1. n \in 0 .. n /\ n \notin offWay
    <3> HIDE DEF offWay
    <3> QED
      BY <1>2
  <2>2. OnItsWay(next, from, todo[n], done[n])
    BY <2>1
  <2> QED
    BY <2>2
<1>4. done[n] \subseteq DOMAIN next /\ H!Closed(next, done[n]) /\ from \in done[n]
  BY <1>3, ReachStarts DEF OnItsWay, H!Closed
<1>5. H!Reach(next, from) \subseteq done[n]
  BY <1>4, ReachWithin
<1> QED
  BY <1>3, <1>5 DEF OnItsWay
=============================================================================
