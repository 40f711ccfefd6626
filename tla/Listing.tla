------------------------------ MODULE Listing ------------------------------
(***************************************************************************)
(* One incremental listing of an integration (the pull requests of a repo, *)
(* the issues of a project, ...) and the service whose objects it lists    *)
(* page by page, while somebody creates, updates and deletes them.         *)
(*                                                                         *)
(* An export takes the time of its start as the new checkpoint, lists what *)
(* changed since the last one and sets the checkpoint at the end.  What    *)
(* can go wrong depends on how the listing is written: in which order the  *)
(* service returns objects, how the code asks for the next page, which     *)
(* objects it asks for or picks, how precise the dates are, and what the   *)
(* code does with an error.  `listing' is such a description; the module   *)
(* IntegrationListings has one of every listing of the integrations.       *)
(***************************************************************************)
EXTENDS Integers, FiniteSets

CONSTANTS Listings,     \* the descriptions, see ListingType
          NObjects,     \* objects are 1 .. NObjects, in the order of creation
          PageSize,     \* a page has at most that many
          Minute,       \* ticks of the clock in a minute
          MaxClock,     \* bound on the clock, and so on updates
          MaxFaults     \* bound on requests that fail and objects that are deleted

\* first, next: the order of the first listing, and of all later ones.
\* pages: the next page is asked for by a cursor or an offset, taken from a list
\*   of ids that was read before; everything is in one page, or only the first
\*   page is read.
\* since: all objects are listed ("nothing"); the code ends the listing at an
\*   object older than the checkpoint ("stops"), or leaves such objects out and
\*   goes on ("skips"); the service is asked for objects updated since the
\*   checkpoint ("from"), after it ("after"), or in the last minutes ("window");
\*   the code takes objects created after the checkpoint ("created").
\* dates: of an update the service tells the time, the time in seconds, or a date
\*   that the author of the object gave.
\* fails: what errors may do: leave the checkpoint as it was and remove what was
\*   listed ("keeps"), end the listing as if it were complete ("swallows"), or
\*   remove what was listed although the checkpoint moves ("moves").
\* shift: by how many ticks the date that the service is asked for, of objects "from" it
\*   or "after" it, is later than the checkpoint: local time that is sent as if it were
\*   that of another zone.
Orders == {"updatedUp", "updatedDown", "createdUp", "createdDown"}
ListingType ==
    [first : Orders, next : Orders,
     pages : {"cursor", "offset", "ids", "one", "first"},
     since : {"nothing", "stops", "skips", "from", "after", "window", "created"},
     dates : {"exact", "seconds", "given"},
     fails : SUBSET {"keeps", "swallows", "moves"},
     shift : Int]

ASSUME ListingsAssumption == Listings \subseteq ListingType
ASSUME NumbersAssumption ==
    /\ NObjects \in Nat /\ PageSize \in Nat \ {0} /\ Minute \in Nat \ {0}
    /\ MaxClock \in Nat /\ MaxFaults \in Nat

Objects == 1 .. NObjects
NoPlace == <<0, 0>>

VARIABLES
    listing,    \* the listing of this behaviour
    clock,      \* the time
    second,     \* the time at which the current second began
    stamp,      \* the date the service tells of each object, 0 before it exists
    deleted,    \* objects that were deleted
    unsent,     \* objects whose current version was never part of an export
    lp,         \* last processed: the checkpoint, 0 before the first export
    pc,         \* "idle", "listing", "listed"
    start,      \* the checkpoint to be set at the end
    cursor,     \* place of the last object of the last page
    offset,     \* number of objects asked for so far
    ids,        \* ids that are still to be fetched
    collected,  \* objects whose current version this export has
    errors,     \* requests that failed
    lost        \* history: the checkpoint moves although objects were left out

service == <<clock, second, stamp, deleted>>
pages == <<cursor, offset, ids>>
vars == <<listing, service, unsent, lp, pc, start, pages, collected, errors, lost>>

----------------------------------------------------------------------------
(* What the service returns. *)

Exists(o) == stamp[o] # 0 /\ o \notin deleted
Order == IF lp = 0 THEN listing.first ELSE listing.next
Down == Order \in {"updatedDown", "createdDown"}

\* The place of an object in the order, and which of two places comes first.
Place(o) == IF Order \in {"updatedUp", "updatedDown"} THEN <<stamp[o], o>>
                                                      ELSE <<0, o>>
Less(a, b) == a[1] < b[1] \/ (a[1] = b[1] /\ a[2] < b[2])
Before(a, b) == IF Down THEN Less(b, a) ELSE Less(a, b)

\* The window of the last minutes, which is computed anew for every page: the
\* time since the checkpoint, rounded to minutes, at least one.
relativeDuration ==
    LET n == (2 * (clock - lp) + Minute) \div (2 * Minute)
    IN  Minute * (IF n = 0 THEN 1 ELSE n)

\* The date in the request, as the service reads it.
AskedFor == lp + listing.shift

\* An object that the listing takes, given the checkpoint.
Taken(o) ==
    \/ lp = 0
    \/ listing.since = "nothing"
    \/ listing.since \in {"stops", "skips"} /\ stamp[o] >= lp
    \/ listing.since = "created" /\ stamp[o] > lp
    \/ listing.since = "from" /\ stamp[o] >= AskedFor
    \/ listing.since = "after" /\ stamp[o] > AskedFor
    \/ listing.since = "window" /\ stamp[o] + relativeDuration >= clock

\* The objects the service has for the request; the rest of the condition is the
\* code's own.
Answer == {o \in Objects :
              /\ Exists(o)
              /\ listing.since \in {"from", "after", "window"} => Taken(o)}

Rank(o) == Cardinality({p \in Answer : Before(Place(p), Place(o))})

\* What a request for the next page is about, and what it may return of it.
Ahead ==
    {o \in IF listing.pages = "ids" THEN {i \in ids : Exists(i)} ELSE Answer :
        /\ listing.pages = "cursor" => cursor = NoPlace \/ Before(cursor, Place(o))
        /\ listing.pages = "offset" => Rank(o) >= offset}
Prefix(page) == \A o \in page, p \in Ahead \ page : Before(Place(o), Place(p))
Page(page) ==
    \/ /\ listing.pages = "offset"
       /\ page = {o \in Ahead : Rank(o) < offset + PageSize}
    \/ listing.pages = "one" /\ page = Ahead
    \/ /\ listing.pages \notin {"offset", "one"}
       /\ Prefix(page)
       /\ \/ Cardinality(page) = PageSize
          \/ Cardinality(page) < PageSize /\ page = Ahead

----------------------------------------------------------------------------
Init ==
    /\ listing \in Listings
    /\ clock = 1 /\ second = 1
    /\ \E old \in 0 .. NObjects :
        /\ stamp = [o \in Objects |-> IF o <= old THEN 1 ELSE 0]
        /\ unsent = 1 .. old
    /\ deleted = {}
    /\ lp = 0 /\ pc = "idle" /\ start = 0
    /\ cursor = NoPlace /\ offset = 0 /\ ids = {}
    /\ collected = {} /\ errors = 0 /\ lost = FALSE

\* Time passes, which matters to windows only: the other listings see it with the
\* next change.
Tick ==
    /\ listing.since = "window"
    /\ clock < MaxClock
    /\ clock' = clock + 1
    /\ second' \in {second, clock + 1}
    /\ UNCHANGED <<listing, stamp, deleted, unsent, lp, pc, start, pages,
                   collected, errors, lost>>

\* The dates that the service may tell of a change, given the time and the second.
Dates(now, sec) ==
    IF listing.dates = "given" THEN 1 .. now
    ELSE {IF listing.dates = "exact" THEN now ELSE sec}

Faults == errors + Cardinality(deleted)

\* Objects were left out, and the checkpoint moves all the same.
Loses == lost' = (listing.since # "nothing")

\* Changes that others make.  Two of them, or one and the start of an export, are
\* never at the same time.  Nothing is said about what happens after a loss.  Seconds
\* do not matter to a listing in full.
Change ==
    /\ clock < MaxClock
    /\ ~ lost
    /\ clock' = clock + 1
    /\ \/ second' = clock + 1
       \/ listing.since # "nothing" /\ second' = second

CreateObject(o) ==
    /\ Change
    /\ stamp[o] = 0
    /\ \A p \in Objects : p < o => stamp[p] # 0
    /\ \E d \in Dates(clock', second') : stamp' = [stamp EXCEPT ![o] = d]
    /\ unsent' = unsent \cup {o}
    /\ UNCHANGED <<listing, deleted, lp, pc, start, pages, collected, errors, lost>>

UpdateObject(o) ==
    /\ Change
    /\ Exists(o)
    /\ listing.dates # "given"
    /\ IF listing.since = "created" THEN UNCHANGED stamp
       ELSE \E d \in Dates(clock', second') : stamp' = [stamp EXCEPT ![o] = d]
    /\ unsent' = unsent \cup {o}
    /\ collected' = collected \ {o}
    /\ UNCHANGED <<listing, deleted, lp, pc, start, pages, errors, lost>>

\* What is behind it in a listing under way moves one place up.
DeleteObject(o) ==
    /\ Faults < MaxFaults
    /\ listing.pages \in {"offset", "ids"}
    /\ Exists(o)
    /\ deleted' = deleted \cup {o}
    /\ unsent' = unsent \ {o}
    /\ collected' = collected \ {o}
    /\ IF pc = "listing" /\ listing.pages = "offset" THEN Loses ELSE UNCHANGED lost
    /\ UNCHANGED <<listing, clock, second, stamp, lp, pc, start, pages,
                   errors>>

----------------------------------------------------------------------------
(* The export. *)

\* The export ends, with its variables.
Forget ==
    /\ pc' = "idle" /\ start' = 0 /\ collected' = {}
    /\ cursor' = NoPlace /\ offset' = 0 /\ ids' = {}

\* A session begins: its start, in seconds, will be the checkpoint.
StartExport ==
    /\ pc = "idle"
    /\ pc' = "listing"
    /\ start' = IF listing.since = "window" THEN clock ELSE second
    /\ ids' = IF listing.pages = "ids" THEN Answer ELSE {}
    /\ UNCHANGED <<listing, service, unsent, lp, cursor, offset, collected, errors,
                   lost>>

\* A bug to catch: the listing ends at objects of the checkpoint's second.
FetchPage_StopsAtSame ==
    /\ pc = "listing"
    /\ \E page \in SUBSET Ahead :
        /\ Page(page)
        /\ LET kept == {o \in page : Taken(o) /\ (lp = 0 \/ stamp[o] > lp)}
               last == \/ page = Ahead
                       \/ listing.pages = "first"
                       \/ listing.since = "stops" /\ kept # page
           IN  /\ collected' = collected \cup kept
               /\ pc' = IF last THEN "listed" ELSE "listing"
        /\ IF page = {} THEN cursor' = cursor
           ELSE \E o \in page : /\ cursor' = Place(o)
                                /\ \A p \in page \ {o} : Before(Place(p), Place(o))
        /\ offset' = offset + PageSize
        /\ ids' = ids \ page
    /\ UNCHANGED <<listing, service, unsent, lp, start, errors, lost>>

\* One request: the page is sent, up to an object that ends the listing.
FetchPage ==
    /\ pc = "listing"
    /\ \E page \in SUBSET Ahead :
        /\ Page(page)
        /\ LET kept == {o \in page : Taken(o)}
               last == \/ page = Ahead
                       \/ listing.pages = "first"
                       \/ listing.since = "stops" /\ kept # page
           IN  /\ collected' = collected \cup kept
               /\ pc' = IF last THEN "listed" ELSE "listing"
        /\ IF page = {} THEN cursor' = cursor
           ELSE \E o \in page : /\ cursor' = Place(o)
                                /\ \A p \in page \ {o} : Before(Place(p), Place(o))
        /\ offset' = offset + PageSize
        /\ ids' = ids \ page
    /\ UNCHANGED <<listing, service, unsent, lp, start, errors, lost>>

\* A bug to catch: the session is done although its listing failed.
RequestFails_DoneAnyway ==
    /\ pc = "listing"
    /\ Faults < MaxFaults
    /\ errors' = errors + 1
    /\ pc' = "listed"
    /\ UNCHANGED <<listing, service, unsent, lp, start, pages, collected, lost>>

\* A request fails, after its retries.
RequestFails ==
    /\ pc = "listing"
    /\ Faults < MaxFaults
    /\ errors' = errors + 1
    /\ \/ "keeps" \in listing.fails /\ Forget /\ UNCHANGED lost
       \/ \E how \in listing.fails \ {"keeps"} :
            /\ pc' = "listed"
            /\ collected' = IF how = "swallows" THEN collected ELSE {}
            /\ Loses
            /\ UNCHANGED <<start, pages>>
    /\ UNCHANGED <<listing, service, unsent, lp>>

\* The session is done and the export delivered.
Done ==
    /\ pc = "listed"
    /\ lp' = start
    /\ unsent' = unsent \ collected
    /\ Forget
    /\ UNCHANGED <<listing, service, errors, lost>>

ServiceStep == \/ Tick
               \/ \E o \in Objects : \/ CreateObject(o)
                                     \/ UpdateObject(o)
                                     \/ DeleteObject(o)
ExportStep == StartExport \/ FetchPage \/ Done
Next == ServiceStep \/ ExportStep \/ RequestFails

\* Exports are requested again and again, and a listing goes on.
Spec == Init /\ [][Next]_vars /\ WF_vars(ExportStep)

----------------------------------------------------------------------------
(* Properties. *)

\* The types of all variables; no checkpoint is in the future.
TypeOK ==
    /\ listing \in Listings
    /\ clock \in Nat /\ second \in 1 .. clock
    /\ stamp \in [Objects -> 0 .. clock]
    /\ deleted \subseteq Objects
    /\ unsent \subseteq Objects /\ collected \subseteq Objects
    /\ ids \subseteq Objects
    /\ lp \in 0 .. clock /\ start \in 0 .. clock
    /\ pc \in {"idle", "listing", "listed"}
    /\ cursor \in Nat \X Nat /\ offset \in Nat
    /\ errors \in Nat /\ lost \in BOOLEAN

\* What listings are reliable, and what the other ones miss:
\* - in the window of jira (relativeDuration in commonapi/issues.go) the rounding
\*   may leave out up to half a minute after the checkpoint, and as it is rounded
\*   anew for each page, objects may leave the list while an offset counts them;
\* - a commit has the date its author gave, and is pushed later;
\* - pull requests of azure are exported when they are created, not when they
\*   change (FetchPullRequests in azure/api/src_pull_requests.go);
\* - some listings read their first page only;
\* - after an error that is only logged, or one of a project whose root session
\*   has the checkpoint, the rest is not listed again;
\* - an offset into a list that an object was deleted from skips another;
\* - on hosts east of UTC the work items of azure are asked for from a local time that is
\*   marked as UTC (azure/api/work_issue.go:28), and sonarqube's measures from one whose
\*   zone has the wrong sign (sonarqube/api/common.go:102): what changes in the hours
\*   after the checkpoint is not listed until it changes again.
Reliable ==
    /\ listing.since # "window"
    /\ listing.since # "created"
    /\ listing.pages # "first"
    /\ listing.dates = "given" => listing.since = "nothing"
    /\ listing.shift <= 0
    /\ ~ lost

\* What is required of the others: a query for changes after the checkpoint needs dates
\* that tell changes within a second apart; a listing may end at an old object only if all
\* behind it are older; and an update must not move what an offset counts towards its
\* beginning.
Sound(l) ==
    /\ l.since = "after" => l.dates = "exact"
    /\ l.since = "stops" => l.next = "updatedDown"
    /\ l.pages = "offset" => "updatedUp" \notin {l.first, l.next}

\* Between exports an object whose current version was never exported will be
\* taken by the next one: no change falls between two checkpoints, whatever was
\* changed while pages were fetched; and no checkpoint is in the future.  (PaginateNewerThan in github and gitlab,
\* updated_on and ChangedDate in the queries to bitbucket and azure.)
NothingMissed ==
    TypeOK /\ (pc = "idle" /\ Reliable => \A o \in unsent : Taken(o))

\* When the changes end everything has been exported, as last changed, after
\* finitely many exports.
EverythingSent == <>[](unsent = {} \/ ~ Reliable)
=============================================================================
