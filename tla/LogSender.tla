----------------------------- MODULE LogSender ------------------------------
(***************************************************************************)
(* The log sender of the service: what is logged goes through a bounded    *)
(* channel to one goroutine, which uploads it in batches.                  *)
(*                                                                         *)
(* All loggers of the service share a mutex that is held during Write, so  *)
(* one goroutine is in it and the others wait for the mutex.  When the     *)
(* service ends it closes the sender first and gives its other parts five  *)
(* seconds, in which they go on logging.                                   *)
(***************************************************************************)
EXTENDS Naturals, Sequences, SequencesExt

CONSTANTS
    Writers,   \* goroutines that log
    NoWriter,
    Capacity,  \* of the channel
    MaxLines,  \* bound on the lines
    MaxFaults  \* bound on uploads that fail

ASSUME LogSenderAssumption ==
    /\ Capacity \in Nat \ {0} /\ MaxLines \in Nat /\ MaxFaults \in Nat
    /\ NoWriter \notin Writers

VARIABLES
    lines,    \* how many were logged: a line is its number
    writer,   \* the goroutine that is in Write, with the last line
    ch,       \* the channel
    buf,      \* of the sender
    reader,   \* "receive", "upload", "ended"
    closing,  \* "open", "closed": the channel is; "done": Close has returned
    sent,     \* what the backend was sent
    dropped,  \* lines of uploads that have failed
    process,  \* "up", "exited", "panicked"
    faults

vars == <<lines, writer, ch, buf, reader, closing, sent, dropped, process, faults>>

Lines == 1 .. lines

TypeOK ==
    /\ lines \in 0 .. MaxLines
    /\ writer \in Writers \cup {NoWriter}
    /\ ch \in Seq(Lines) /\ Len(ch) <= Capacity
    /\ buf \in Seq(Lines) /\ sent \in Seq(Lines)
    /\ dropped \subseteq Lines
    /\ reader \in {"receive", "upload", "ended"}
    /\ closing \in {"open", "closed", "done"}
    /\ process \in {"up", "exited", "panicked"}
    /\ faults \in 0 .. MaxFaults
    /\ reader = "ended" => closing # "open" /\ ch = <<>>
    /\ closing = "done" => reader = "ended"

Init ==
    /\ lines = 0 /\ writer = NoWriter
    /\ ch = <<>> /\ buf = <<>>
    /\ reader = "receive" /\ closing = "open"
    /\ sent = <<>> /\ dropped = {}
    /\ process = "up" /\ faults = 0

----------------------------------------------------------------------------
(* The goroutines that log. *)

Log(w) ==
    /\ writer = NoWriter /\ lines < MaxLines
    /\ writer' = w /\ lines' = lines + 1
    /\ UNCHANGED <<ch, buf, reader, closing, sent, dropped, process, faults>>

\* The goroutine waits while the channel is full, and with it all that log.
Write ==
    /\ writer # NoWriter /\ closing = "open"
    /\ Len(ch) < Capacity
    /\ ch' = Append(ch, lines) /\ writer' = NoWriter
    /\ UNCHANGED <<lines, buf, reader, closing, sent, dropped, process, faults>>

\* A send on a closed channel ends the process.
WritePanics ==
    /\ writer # NoWriter /\ closing # "open"
    /\ process' = "panicked"
    /\ UNCHANGED <<lines, writer, ch, buf, reader, closing, sent, dropped, faults>>

----------------------------------------------------------------------------
(* The sender's goroutine. *)

\* The buffer is uploaded when it is large or old; nothing looks at it until the next
\* line comes.
Receive ==
    /\ reader = "receive" /\ ch # <<>>
    /\ buf' = Append(buf, Head(ch)) /\ ch' = Tail(ch)
    /\ reader' \in {"receive", "upload"}
    /\ UNCHANGED <<lines, writer, closing, sent, dropped, process, faults>>

\* upload: the buffer is emptied, whether the backend takes it or not; and it may have
\* taken what is reported as failed.
Uploads ==
    /\ buf' = <<>>
    /\ \/ sent' = sent \o buf /\ UNCHANGED <<dropped, faults>>
       \/ /\ faults < MaxFaults /\ faults' = faults + 1
          /\ sent' \in {sent, sent \o buf}
          /\ dropped' = dropped \cup ToSet(buf)

\* A bug to catch: the goroutine ends when the channel is closed, whatever is in it.
Upload_Ends ==
    /\ reader = "upload"
    /\ Uploads
    /\ reader' = IF faults' = faults THEN "receive" ELSE "ended"
    /\ UNCHANGED <<lines, writer, ch, closing, process>>

Upload ==
    /\ reader = "upload"
    /\ Uploads
    /\ reader' = "receive"
    /\ UNCHANGED <<lines, writer, ch, closing, process>>

\* The range over the channel ends when it is closed and empty.
ReaderEnds ==
    /\ reader = "receive" /\ closing = "closed" /\ ch = <<>>
    /\ reader' = "ended"
    /\ UNCHANGED <<lines, writer, ch, buf, closing, sent, dropped, process, faults>>

----------------------------------------------------------------------------
(* The end of the service. *)

Close ==
    /\ closing = "open" /\ closing' = "closed"
    /\ UNCHANGED <<lines, writer, ch, buf, reader, sent, dropped, process, faults>>

\* A bug to catch: what is left in the buffer is not uploaded.
CloseRest_NoUpload ==
    /\ closing = "closed" /\ reader = "ended"
    /\ closing' = "done"
    /\ UNCHANGED <<lines, writer, ch, buf, reader, sent, dropped, process, faults>>

CloseRest ==
    /\ closing = "closed" /\ reader = "ended"
    /\ IF buf = <<>> THEN UNCHANGED <<buf, sent, dropped, faults>> ELSE Uploads
    /\ closing' = "done"
    /\ UNCHANGED <<lines, writer, ch, reader, process>>

\* The five seconds are over, or the process is ended in some other way.
Exit ==
    /\ process' = "exited"
    /\ UNCHANGED <<lines, writer, ch, buf, reader, closing, sent, dropped, faults>>

Sending == Receive \/ Upload \/ ReaderEnds \/ CloseRest
Writing == Write \/ WritePanics

Next ==
    /\ process = "up"
    /\ Sending \/ Writing \/ Close \/ Exit \/ \E w \in Writers : Log(w)

\* The goroutines go on while they can; an upload ends after two minutes at most.
Fairness == WF_vars(process = "up" /\ Sending) /\ WF_vars(process = "up" /\ Writing)
Spec == Init /\ [][Next]_vars
FairSpec == Spec /\ Fairness

----------------------------------------------------------------------------
(* Properties. *)

\* Lines reach the backend in the order in which they were logged, and none twice: the
\* buffer is handed over once, also when its upload fails (sender.go:131).
InOrder ==
    LET way == sent \o buf \o ch
    IN \A i, j \in DOMAIN way : i < j => way[i] < way[j]

\* Every line is somewhere on its way, or was sent, or belongs to an upload that failed;
\* when Close has returned it is one of the latter two (sender.go:243).  The last one is
\* still in the hand of the goroutine that logs it, whose Write ends in a panic if the
\* sender was closed.
Accounted ==
    \A n \in Lines :
        \/ n \in ToSet(sent) \cup dropped
        \/ closing # "done" /\ n \in ToSet(buf) \cup ToSet(ch)
        \/ n = lines /\ writer # NoWriter

\* The backend gets what was logged, as it was logged, but for uploads that fail.
LinesKept == InOrder /\ Accounted

\* A goroutine that logs goes on, however long the channel was full and whatever becomes
\* of the uploads, unless the process ends (sender.go:233).
WritersGoOn == (writer # NoWriter) ~> (writer = NoWriter \/ process # "up")
=============================================================================
