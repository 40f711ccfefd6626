------------------------ MODULE PullRequestPipeline -------------------------
(***************************************************************************)
(* How the github integration exports the pull requests of a repo          *)
(* (exportPullRequestsForRepo): one goroutine lists pages of them, a       *)
(* feeder copies each page to three buffered channels, and three exporters *)
(* export the comments, the reviews and the commits.  Whoever fails calls  *)
(* setErr, which drains the channels.  bitbucket has the same pipeline     *)
(* with two exporters.                                                     *)
(*                                                                         *)
(* A page is exported as a whole: an exporter that fails in the middle of  *)
(* one has failed on it.                                                   *)
(***************************************************************************)
EXTENDS Naturals, Sequences

CONSTANTS
    Channels,  \* how many channels and exporters there are (3, or 2)
    Capacity,  \* of each channel (10 in the code)
    Pages,     \* how many pages of pull requests the repo has
    NoPage,    \* no page is held
    Feeder     \* the feeder, as the owner of errMu

Channel == 1..Channels
Page == 1..Pages

\* Who may hold errMu.
Caller == Channel \cup {Feeder}

ASSUME ChannelsAssumption == Channels \in Nat \ {0}
ASSUME CapacityAssumption == Capacity \in Nat \ {0}
ASSUME PagesAssumption == Pages \in Nat
ASSUME NoPageAssumption == NoPage \notin Nat
ASSUME FeederAssumption == Feeder \notin Nat \cup {NoPage}

VARIABLES
    listed,    \* pages the listing has handed to the feeder
    listing,   \* exportPullRequestsRepo has not returned
    listErr,   \* pullRequestsErr is not nil
    item,      \* the page the feeder copies
    next,      \* the channel it sends the page to next
    feeding,   \* the channels are not closed yet
    chan,      \* the pages in each channel
    page,      \* the page each exporter works on
    place,     \* where each exporter and the feeder's call of setErr are
    stage,     \* the channel each of them drains
    errMu,     \* who holds errMu, or NoPage
    rerr,      \* the result rerr is not nil
    exported,  \* the pages each exporter is done with
    result     \* "none", or what the function returned: "ok", "error"

list == <<listed, listing, listErr>>
feed == <<item, next, feeding>>
exporters == <<page, exported>>
errors == <<place, stage, errMu, rerr>>
vars == <<list, feed, chan, exporters, errors, result>>

Init ==
    /\ listed = 0 /\ listing = TRUE /\ listErr = FALSE
    /\ item = NoPage /\ next = 1 /\ feeding = TRUE
    /\ chan = [c \in Channel |-> <<>>]
    /\ page = [c \in Channel |-> NoPage]
    /\ exported = [c \in Channel |-> {}]
    /\ place = [g \in Caller |-> "working"]
    /\ stage = [g \in Caller |-> 1]
    /\ errMu = NoPage
    /\ rerr = FALSE
    /\ result = "none"

-----------------------------------------------------------------------------
(* The listing and the feeder                                              *)

\* pullRequestsInitial has no buffer: the feeder takes the page at once.
ListPage ==
    /\ listing
    /\ listed < Pages
    /\ item = NoPage
    /\ listed' = listed + 1
    /\ item' = listed'
    /\ next' = 1
    /\ UNCHANGED <<listing, listErr, feeding, chan, exporters, errors, result>>

ListingEnds ==
    /\ listing
    /\ listed = Pages
    /\ listing' = FALSE
    /\ UNCHANGED <<listed, listErr, feed, chan, exporters, errors, result>>

\* A request of the listing fails.
ListingFails ==
    /\ listing
    /\ listed < Pages
    /\ listing' = FALSE
    /\ listErr' = TRUE
    /\ UNCHANGED <<listed, feed, chan, exporters, errors, result>>

\* The page goes to one channel after the other; a full one blocks.
Feed ==
    /\ item # NoPage
    /\ Len(chan[next]) < Capacity
    /\ chan' = [chan EXCEPT ![next] = Append(@, item)]
    /\ next' = next + 1
    /\ item' = IF next = Channels THEN NoPage ELSE item
    /\ UNCHANGED <<list, feeding, exporters, errors, result>>

\* The feeder closes the channels, and calls setErr if the listing failed.
CloseChannels ==
    /\ ~listing
    /\ item = NoPage
    /\ feeding
    /\ feeding' = FALSE
    /\ place' = [place EXCEPT ![Feeder] = IF listErr THEN "failed" ELSE "done"]
    /\ UNCHANGED <<list, item, next, chan, exporters, stage, errMu, rerr,
                   result>>

-----------------------------------------------------------------------------
(* The exporters                                                           *)

Receive(c) ==
    /\ place[c] = "working"
    /\ page[c] = NoPage
    /\ chan[c] # <<>>
    /\ page' = [page EXCEPT ![c] = Head(chan[c])]
    /\ chan' = [chan EXCEPT ![c] = Tail(@)]
    /\ UNCHANGED <<list, feed, exported, errors, result>>

ExportPage(c) ==
    /\ place[c] = "working"
    /\ page[c] # NoPage
    /\ exported' = [exported EXCEPT ![c] = @ \cup {page[c]}]
    /\ page' = [page EXCEPT ![c] = NoPage]
    /\ UNCHANGED <<list, feed, chan, errors, result>>

\* A bug to catch: the exporter goes on with the next page.
ExportFails_GoesOn(c) ==
    /\ place[c] = "working"
    /\ page[c] # NoPage
    /\ page' = [page EXCEPT ![c] = NoPage]
    /\ UNCHANGED <<list, feed, chan, exported, errors, result>>

\* The exporter returns an error; its goroutine calls setErr.
ExportFails(c) ==
    /\ place[c] = "working"
    /\ page[c] # NoPage
    /\ page' = [page EXCEPT ![c] = NoPage]
    /\ place' = [place EXCEPT ![c] = "failed"]
    /\ UNCHANGED <<list, feed, chan, exported, stage, errMu, rerr, result>>

\* The channel is closed and empty.
ExporterEnds(c) ==
    /\ place[c] = "working"
    /\ page[c] = NoPage
    /\ chan[c] = <<>>
    /\ ~feeding
    /\ place' = [place EXCEPT ![c] = "done"]
    /\ UNCHANGED <<list, feed, chan, exporters, stage, errMu, rerr, result>>

-----------------------------------------------------------------------------
(* setErr: under errMu the channels are drained one after the other, each  *)
(* until it is closed.                                                     *)

LockErr(g) ==
    /\ place[g] = "failed"
    /\ errMu = NoPage
    /\ errMu' = g
    /\ rerr' = TRUE
    /\ place' = [place EXCEPT ![g] = "draining"]
    /\ UNCHANGED <<list, feed, chan, exporters, stage, result>>

Drain(g) ==
    /\ place[g] = "draining"
    /\ stage[g] <= Channels
    /\ chan[stage[g]] # <<>>
    /\ chan' = [chan EXCEPT ![stage[g]] = Tail(@)]
    /\ UNCHANGED <<list, feed, exporters, errors, result>>

Drained(g) ==
    /\ place[g] = "draining"
    /\ stage[g] <= Channels
    /\ chan[stage[g]] = <<>>
    /\ ~feeding
    /\ stage' = [stage EXCEPT ![g] = @ + 1]
    /\ UNCHANGED <<list, feed, chan, exporters, place, errMu, rerr, result>>

\* A bug to catch: setErr returns without unlocking.
UnlockErr_Never(g) ==
    /\ place[g] = "draining"
    /\ stage[g] > Channels
    /\ place' = [place EXCEPT ![g] = "done"]
    /\ UNCHANGED <<list, feed, chan, exporters, stage, errMu, rerr, result>>

UnlockErr(g) ==
    /\ place[g] = "draining"
    /\ stage[g] > Channels
    /\ errMu' = NoPage
    /\ place' = [place EXCEPT ![g] = "done"]
    /\ UNCHANGED <<list, feed, chan, exporters, stage, rerr, result>>

-----------------------------------------------------------------------------
\* A bug to catch: the first exporter is not in the wait group.
ExportersDone_ButFirst == \A c \in Channel \ {1} : place[c] = "done"

\* wg.Wait(): for the exporters, not for the feeder's call of setErr.
ExportersDone == \A c \in Channel : place[c] = "done"

Return ==
    /\ result = "none"
    /\ ExportersDone
    /\ result' = IF rerr THEN "error" ELSE "ok"
    /\ UNCHANGED <<list, feed, chan, exporters, errors>>

Idle ==
    /\ result # "none"
    /\ \A g \in Caller : place[g] = "done"
    /\ UNCHANGED vars

FeederStep == Feed \/ CloseChannels

ExporterStep(c) == Receive(c) \/ ExportPage(c) \/ ExporterEnds(c)

SetErrStep(g) == LockErr(g) \/ Drain(g) \/ Drained(g) \/ UnlockErr(g)

Next ==
    \/ ListPage \/ ListingEnds \/ ListingFails
    \/ FeederStep
    \/ \E c \in Channel : ExporterStep(c) \/ ExportFails(c)
    \/ \E g \in Caller : SetErrStep(g)
    \/ Return
    \/ Idle

Spec == Init /\ [][Next]_vars

\* Every goroutine that can go on does; the requests of the listing and of
\* the exporters return, with or without an error.
FairSpec ==
    /\ Spec
    /\ WF_vars(ListPage \/ ListingEnds)
    /\ WF_vars(FeederStep)
    /\ \A c \in Channel : WF_vars(ExporterStep(c))
    /\ \A g \in Caller : WF_vars(SetErrStep(g))
    /\ WF_vars(Return)

-----------------------------------------------------------------------------
(* Properties                                                              *)

\* Type correctness of the goroutines, the channels and errMu.
TypeOK ==
    /\ listed \in 0..Pages
    /\ listing \in BOOLEAN /\ listErr \in BOOLEAN /\ feeding \in BOOLEAN
    /\ item \in Page \cup {NoPage}
    /\ next \in 1..(Channels + 1)
    /\ item # NoPage => next \in Channel
    /\ chan \in [Channel -> Seq(Page)]
    /\ page \in [Channel -> Page \cup {NoPage}]
    /\ exported \in [Channel -> SUBSET Page]
    /\ place \in [Caller -> {"working", "failed", "draining", "done"}]
    /\ stage \in [Caller -> 1..(Channels + 1)]
    /\ errMu \in Caller \cup {NoPage}
    /\ rerr \in BOOLEAN
    /\ result \in {"none", "ok", "error"}

\* errMu is held by the goroutine that drains, and by no other.
HolderDrains == \A g \in Caller : place[g] = "draining" <=> errMu = g

\* When the function returns nothing of it uses its sessions any more: no
\* page is listed, waits, or is being exported, so the sessions can be ended
\* (integration.go:619-712, process.go:137).
QuietAfterReturn ==
    result # "none" =>
      /\ ~listing /\ item = NoPage /\ ~feeding
      /\ \A c \in Channel : chan[c] = <<>> /\ page[c] = NoPage

\* When the function returns no error, every exporter has exported every page
\* that was listed, or the listing failed; then the error may come too late,
\* since nothing waits for the feeder, and exporters may miss pages that its
\* setErr drained.  An exporter's own error is never lost.
OkMeansExported ==
    result = "ok" =>
      \/ listErr
      \/ \A c \in Channel : exported[c] = Page

\* The feeder waits for room in a channel that nobody reads any more, while the
\* holder of errMu waits for the next page, or the end, of another channel: its drain
\* comes to the full one only when this one is closed, which is up to the feeder.
Blocked ==
    /\ item # NoPage
    /\ Len(chan[next]) = Capacity
    /\ place[next] # "working"
    /\ \E g \in Caller : errMu = g /\ stage[g] # next /\ chan[stage[g]] = <<>>

\* Whichever requests fail, the function returns, or it is stuck in the one way that
\* setErr allows: it drains one channel after the other (integration.go:642-647).
ReturnsOrBlocks == <>(result # "none" \/ Blocked)

\* The function returns, since setErr empties all channels: "drain all pull requests on
\* error" (integration.go:641).  This is so for as many pages as a channel has room for,
\* and one (EnoughRoom, in PullRequestPipelineProofs); it is not with more of them.
Returns == <>(result # "none")
=============================================================================
