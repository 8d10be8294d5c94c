--------------------------- MODULE ScanSession -----------------------------
(***************************************************************************)
(* The state of a scan session on TCP port 9400 (PROTOCOL.md) and the      *)
(* printer's end of it.  Module Download has the client's end.             *)
(***************************************************************************)
EXTENDS ByteStream

CONSTANTS
    Jobs,           \* what may lie in the feeder
    \* The client's limits.
    maxStrips, maxStripBytes, maxPageBytes, maxTotalBytes, maxPages,
    MaxBusy,        \* bound on the busy answers in a row
    Patience,       \* so many busy answers in a row use up a long deadline
    Faults,         \* the kinds of fault the environment may produce
    MaxFaults       \* bound on how many faults one behaviour has

\* The printer is late for a streaming POLL, or for anything else; the
\* connection breaks; somebody presses Stop; the printer loses its power.
FaultKinds == {"slow", "stall", "drop", "cancel", "off"}

ASSUME LimitsAssumption ==
    /\ maxStrips \in Nat /\ maxStripBytes \in Nat /\ maxPageBytes \in Nat
    /\ maxTotalBytes \in Nat /\ maxPages \in Nat
    /\ MaxBusy \in Nat /\ MaxFaults \in Nat /\ Patience \in Nat \ {0}
ASSUME FaultsAssumption == Faults \subseteq FaultKinds

\* A page is its strips' sizes in bytes, one at least, and the mode it is sent
\* in.
Pages == [strips : Seq(Nat \ {0}) \ {<<>>}, streaming : BOOLEAN]
ASSUME JobsAssumption == \A j \in Jobs : j \in Seq(Pages)

VARIABLES
    \* The client, Download's locals.
    step,           \* what it waits for
    k,              \* which setup command it has sent
    streaming,      \* streamingActive
    chunk,          \* chunkSize and isLast of the strip being fetched
    chunks,         \* chunks
    pageBytes, totalBytes,
    pages,          \* pages, each a sequence of strips
    result,         \* "none" while it runs, then "ok" or the kind of error
    \* The connection.
    outbox, inbox,
    deadline,       \* for its next answer, and how much of it is used up
    \* The printer.
    job,            \* what lies in the feeder
    page,           \* the page it last began to scan, 0 before the first
    armed,          \* READY has come for this page
    sent,           \* how many of its strips have been fetched
    busy,           \* busy answers given in a row
    cancelled,      \* somebody pressed Stop on the printer
    off,            \* it has lost its power
    faults          \* how many faults have happened

pageVars    == <<streaming, chunk, chunks, pageBytes>>
scanVars    == <<totalBytes, pages, result>>
clientVars  == <<step, k, pageVars, scanVars>>
printerVars == <<job, page, armed, sent, busy, cancelled, off>>
vars        == <<clientVars, outbox, inbox, deadline, printerVars, faults>>

\* The commands before the first POLL: the probe connection's handshake, the
\* data connection's, and the scan request.
Handshake == <<"INFO", "PROBE", "INFO", "PROBE">>
Setup     == Handshake \o Handshake
             \o <<"REQUEST", "PARAMS", "EXTRA", "DIMS", "READY">>

\* How many bytes the answer to a setup command has.
AnswerLen(cmd) == CASE cmd = "INFO" -> 70
                    [] cmd \in {"PROBE", "PARAMS", "EXTRA"} -> 255
                    [] OTHER -> 32

Steps == {"dial", "setup", "status", "drain", "chunk", "strip", "padding",
          "next", "rearm", "endack", "discack", "closed"}
Results == {"none", "ok", "io", "limit"}
NoChunk == [size |-> 0, last |-> FALSE]

\* SetDeadline: 30 s ("long") or 2 s ("short") from now.
Fresh(kind) == [kind |-> kind, used |-> 0]

TypeOK ==
    /\ step \in Steps /\ result \in Results
    /\ result # "none" <=> step = "closed"
    /\ k \in 0..Len(Setup) /\ streaming \in BOOLEAN
    /\ chunk.size \in Nat /\ chunk.last \in BOOLEAN
    /\ Len(chunks) <= maxStrips /\ Len(pages) <= maxPages
    /\ pageBytes \in 0..maxPageBytes /\ totalBytes \in 0..maxTotalBytes
    /\ Len(outbox) <= 2
    /\ deadline \in [kind : {"long", "short"}, used : 0..Patience]
    /\ job \in Jobs /\ page \in 0..(Len(job) + 1) /\ armed \in BOOLEAN
    /\ sent \in Nat /\ busy \in 0..MaxBusy
    /\ cancelled \in BOOLEAN /\ off \in BOOLEAN
    /\ faults \in 0..MaxFaults

Init ==
    /\ step = "dial" /\ k = 0 /\ streaming = FALSE /\ chunk = NoChunk
    /\ chunks = <<>> /\ pageBytes = 0 /\ totalBytes = 0 /\ pages = <<>>
    /\ result = "none"
    /\ outbox = <<>> /\ inbox = <<>> /\ deadline = Fresh("long")
    /\ job \in Jobs /\ page = 0 /\ armed = FALSE /\ sent = 0 /\ busy = 0
    /\ cancelled = FALSE /\ off = FALSE
    /\ faults = 0

Fault(f) == f \in Faults /\ faults < MaxFaults /\ faults' = faults + 1

-----------------------------------------------------------------------------
(***************************************************************************)
(* The printer.                                                            *)
(***************************************************************************)
OnPage    == armed /\ page \in 1..Len(job)
Scanning  == OnPage /\ ~cancelled
Remaining == Scanning /\ sent < Len(job[page].strips)

Say(ms)   == inbox' = inbox \o ms /\ outbox' = Tail(outbox)
Reply(ms) == Say(ms) /\ UNCHANGED deadline
Asked(cmd) == step # "closed" /\ ~off /\ outbox # <<>> /\ Head(outbox) = cmd

\* A busy printer takes its time, and the client asks again.
Busy(tag, len) ==
    /\ busy < MaxBusy /\ deadline.used < Patience
    /\ busy' = busy + 1 /\ deadline' = [deadline EXCEPT !.used = @ + 1]
    /\ Say(<<Message(tag, len)>>)
    /\ UNCHANGED <<job, page, armed, sent, cancelled, off>>

\* INFO ... DIMS, END and DISC are acknowledged, and so is the first PARAMS.
AnswerPlain ==
    /\ \E cmd \in {"INFO", "PROBE", "REQUEST", "EXTRA", "DIMS", "END", "DISC"} :
         Asked(cmd) /\ Reply(<<Message("ack", AnswerLen(cmd))>>)
    /\ UNCHANGED <<printerVars, clientVars, faults>>

\* What the printer says of the next page.  It may also announce one when the
\* feeder is empty, and then has nothing to send for it.
NextPage == CASE cancelled                      -> {"none"}
              [] ~cancelled /\ page < Len(job)  -> {"next"}
              [] ~cancelled /\ page >= Len(job) -> {"none", "next"}

AnswerParams ==
    /\ Asked("PARAMS")
    /\ \/ /\ page = 0
          /\ Reply(<<Message("ack", 255)>>) /\ UNCHANGED printerVars
       \/ page > 0 /\ Busy("wait", 255)
       \/ /\ page > 0
          /\ \E tag \in NextPage : Reply(<<Message(tag, 255)>>)
          /\ armed' = FALSE /\ busy' = 0
          /\ UNCHANGED <<job, page, sent, cancelled, off>>
    /\ UNCHANGED <<clientVars, faults>>

\* The answer is a POLL status with a chunk size of zero.
AnswerReady ==
    /\ Asked("READY")
    /\ armed' = TRUE /\ sent' = 0 /\ busy' = 0
    /\ page' = IF page <= Len(job) THEN page + 1 ELSE page
    /\ Reply(<<Message("ready", 32)>>)
    /\ UNCHANGED <<job, cancelled, off, clientVars, faults>>

\* Out of strips, the printer is silent in streaming mode, or says so in one
\* of two ways; not armed, it offers placeholder strips for ever.  The client
\* also heeds a last strip that is marked in streaming mode.
Offers ==
    IF ~armed THEN {Message("ready", 32)}
    ELSE LET strips == job[page].strips
             last   == (sent + 1 = Len(strips))
             offer  == [Message("ready", 32) EXCEPT !.last = last]
         IN IF job[page].streaming THEN {offer, Message("ready", 32)}
            ELSE { [offer EXCEPT !.size = strips[sent + 1]] }

AnswerPoll ==
    /\ Asked("POLL")
    /\ \/ Scanning /\ Busy("busy", 32)
       \/ /\ Remaining \/ ~armed
          /\ \E m \in Offers : Reply(<<m>>)
          /\ busy' = 0 /\ UNCHANGED <<job, page, armed, sent, cancelled, off>>
       \/ /\ Scanning /\ ~Remaining /\ job[page].streaming
          /\ Reply(<<>>)
          /\ UNCHANGED printerVars
       \/ /\ armed /\ ~Remaining
          /\ \/ Reply(<<Message("end", 32)>>)
             \/ Reply(<<Message("signal", 255)>>)
          /\ UNCHANGED printerVars
    /\ UNCHANGED <<clientVars, faults>>

\* A strip that was announced is delivered, even to a scan just stopped.
NextStrip ==
    IF OnPage /\ sent < Len(job[page].strips)
      THEN [Message("strip", job[page].strips[sent + 1]) EXCEPT
              !.what = <<page, sent + 1>>]
      ELSE Message("strip", 1)

AnswerFetch ==
    /\ Asked("FETCH")
    /\ Reply(IF OnPage /\ ~job[page].streaming THEN <<NextStrip>>
             ELSE <<NextStrip, Message("pad", 16)>>)
    /\ sent' = IF armed THEN sent + 1 ELSE sent
    /\ UNCHANGED <<job, page, armed, busy, cancelled, off, clientVars, faults>>

\* Somebody presses Stop on the printer.
Cancel ==
    /\ step # "closed" /\ ~cancelled /\ Fault("cancel")
    /\ cancelled' = TRUE
    /\ UNCHANGED <<clientVars, outbox, inbox, deadline, job, page, armed, sent,
                   busy, off>>

\* The printer loses its power, maybe in the middle of its last answer.  (It
\* answers no dial, and the connection just goes silent.)
PowerLost ==
    /\ step \notin {"dial", "closed"} /\ ~off /\ Fault("off")
    /\ off' = TRUE
    /\ \/ UNCHANGED inbox
       \/ \E i \in 1..Len(inbox) :
            inbox' = Append(SubSeq(inbox, 1, i - 1),
                            Message("cut", inbox[i].len \div 2))
    /\ UNCHANGED <<clientVars, outbox, deadline, job, page, armed, sent, busy,
                   cancelled>>

Printer == \/ AnswerPlain \/ AnswerParams \/ AnswerReady \/ AnswerPoll
           \/ AnswerFetch
=============================================================================
