------------------------------ MODULE Download ------------------------------
(***************************************************************************)
(* tcp.Download and the printer it fetches a scan from (PROTOCOL.md).      *)
(*                                                                         *)
(* The client sends one command and waits for the answer, so a client step *)
(* is: read the answer, decide, send the next command.  A read takes the   *)
(* number of bytes the code asks for, whatever they are, so a stream that  *)
(* has slipped stays slipped.  The printer handles one command a step.     *)
(*                                                                         *)
(* Left out: the contents of the setup exchanges, which the client does    *)
(* not look at, and a message that arrives in pieces, unless the printer   *)
(* loses its power in the middle of it.                                    *)
(***************************************************************************)
EXTENDS ScanSession

-----------------------------------------------------------------------------
(***************************************************************************)
(* The client.                                                             *)
(***************************************************************************)
Send(cmd) == outbox' = Append(outbox, cmd)

\* recvExact(n): all n bytes have come, and are taken.
Receive(n) == Bytes(inbox) >= n /\ inbox' = Skip(inbox, n)

\* dataConn.SetDeadline.
SetDeadline(kind) == deadline' = Fresh(kind)

\* Download returns.
Return(r) == step' = "closed" /\ result' = r

\* (A bug: the last strip or byte within a limit is not let through.)
TooLongEarly(strips, bytes) == strips >= maxStrips \/ bytes >= maxPageBytes

\* (A bug: a strip too many is let through.)
TooLongLate(strips, bytes) == strips > maxStrips + 1 \/ bytes > maxPageBytes

\* The limits on one page, checked after each strip.
TooLong(strips, bytes) == strips > maxStrips \/ bytes > maxPageBytes

\* net.DialTimeout of the probe connection.
Dial ==
    /\ step = "dial"
    /\ step' = "setup" /\ k' = 1 /\ Send(Setup[1]) /\ SetDeadline("long")
    /\ UNCHANGED <<pageVars, scanVars, inbox, printerVars, faults>>

\* A setup exchange.  After the first handshake the data connection is dialed,
\* after the last exchange the first page begins, each with a fresh deadline.
SetupAnswered ==
    /\ step = "setup" /\ Receive(AnswerLen(Setup[k]))
    /\ IF k \in {Len(Handshake), Len(Setup)} THEN SetDeadline("long")
       ELSE UNCHANGED deadline
    /\ IF k < Len(Setup)
         THEN k' = k + 1 /\ Send(Setup[k + 1]) /\ UNCHANGED step
         ELSE step' = "status" /\ Send("POLL") /\ UNCHANGED k
    /\ UNCHANGED <<pageVars, scanVars, printerVars, faults>>

\* Where the scan goes after a page's POLL/FETCH loop: it ends without strips,
\* fails over a limit, or asks for the next page.
AfterPage(strips, bytes) ==
    \/ /\ strips = <<>>
       /\ step' = "endack" /\ Send("END")
       /\ UNCHANGED <<pages, totalBytes, result>>
    \/ /\ strips # <<>>
       /\ Len(pages) >= maxPages \/ totalBytes + bytes > maxTotalBytes
       /\ Return("limit")
       /\ UNCHANGED <<outbox, pages, totalBytes>>
    \/ /\ strips # <<>>
       /\ Len(pages) < maxPages /\ totalBytes + bytes <= maxTotalBytes
       /\ pages' = Append(pages, strips)
       /\ totalBytes' = totalBytes + bytes
       /\ step' = "next" /\ Send("PARAMS")
       /\ UNCHANGED result

\* (A bug: chunks is declared outside the page loop.)
EndPageKeepsStrips(strips, bytes) ==
    /\ streaming' = FALSE /\ chunk' = NoChunk /\ chunks' = strips
    /\ pageBytes' = 0
    /\ AfterPage(strips, bytes)

\* The page's POLL/FETCH loop is over with these strips and bytes, and its
\* locals are gone.
EndPage(strips, bytes) ==
    /\ streaming' = FALSE /\ chunk' = NoChunk /\ chunks' = <<>>
    /\ pageBytes' = 0
    /\ AfterPage(strips, bytes)

\* A strip that exceeds no limit, and one that does.
TakeStrip(strip, bytes) ==
    /\ chunks' = Append(chunks, strip)
    /\ pageBytes' = pageBytes + bytes

Refuse ==
    /\ Return("limit")
    /\ UNCHANGED <<k, pageVars, totalBytes, pages, outbox>>

Overrun(bytes) ==
    /\ TooLong(Len(chunks) + 1, pageBytes + bytes)
    /\ Refuse

\* The answer to POLL.  "signal" is the 255-byte packet that is no POLL
\* status, and so is anything else a slipped stream may show.
IsStatus(m) == m.tag \in {"ready", "busy", "end"}

StatusBusy ==
    /\ step = "status" /\ Receive(32) /\ First(inbox).tag = "busy"
    /\ SetDeadline("long")
    /\ Send("POLL")
    /\ UNCHANGED <<clientVars, printerVars, faults>>

StatusReady ==
    /\ step = "status" /\ Receive(32) /\ First(inbox).tag = "ready"
    /\ SetDeadline("long")
    /\ chunk' = [size |-> First(inbox).size, last |-> First(inbox).last]
    /\ streaming' = (streaming \/ First(inbox).size = 0)
    /\ step' = IF First(inbox).size = 0 THEN "strip" ELSE "chunk"
    /\ Send("FETCH")
    /\ UNCHANGED <<k, chunks, pageBytes, scanVars, printerVars, faults>>

StatusEnd ==
    /\ step = "status" /\ Receive(32) /\ First(inbox).tag = "end"
    /\ SetDeadline("long")
    /\ EndPage(chunks, pageBytes)
    /\ UNCHANGED <<k, printerVars, faults>>

\* (A bug: the signal ends the page, and its tail is left to be read.)
SignalLeavesTail ==
    /\ step = "status" /\ Receive(32) /\ ~IsStatus(First(inbox))
    /\ SetDeadline("long")
    /\ EndPage(chunks, pageBytes)
    /\ UNCHANGED <<k, printerVars, faults>>

StatusSignal ==
    /\ step = "status" /\ Receive(32) /\ ~IsStatus(First(inbox))
    /\ SetDeadline("long")
    /\ step' = "drain"
    /\ UNCHANGED <<k, pageVars, scanVars, outbox, printerVars, faults>>

Drained ==
    /\ step = "drain" /\ Receive(255 - 32)
    /\ EndPage(chunks, pageBytes)
    /\ UNCHANGED <<k, deadline, printerVars, faults>>

\* A strip of announced size.
ChunkRead ==
    /\ step = "chunk" /\ Receive(chunk.size)
    /\ LET whole == First(inbox).tag = "strip" /\ First(inbox).len = chunk.size
           strip == IF whole THEN First(inbox).what ELSE <<0, 0>>
       IN \/ Overrun(chunk.size)
          \/ /\ ~TooLong(Len(chunks) + 1, pageBytes + chunk.size)
             /\ chunk.last
             /\ EndPage(Append(chunks, strip), pageBytes + chunk.size)
             /\ UNCHANGED k
          \/ /\ ~TooLong(Len(chunks) + 1, pageBytes + chunk.size)
             /\ ~chunk.last
             /\ TakeStrip(strip, chunk.size)
             /\ step' = "status" /\ Send("POLL")
             /\ UNCHANGED <<k, streaming, chunk, scanVars>>
    /\ UNCHANGED <<deadline, printerVars, faults>>

\* The limit on a streaming strip, checked up to the 0xff of its EOI.
StripTooLong(bytes) == bytes - 1 > maxStripBytes

\* readJPEGStrip: everything up to the next EOI, which ends a strip.
StripRead ==
    /\ step = "strip" /\ HasMessage(inbox, "strip")
    /\ LET i     == FirstOf(inbox, "strip")
           bytes == BytesUpTo(inbox, i)
           strip == IF i = 1 THEN inbox[1].what ELSE <<0, 0>>
       IN /\ inbox' = SubSeq(inbox, i + 1, Len(inbox))
          /\ \/ StripTooLong(bytes) /\ Refuse /\ UNCHANGED deadline
             \/ Overrun(bytes) /\ UNCHANGED deadline
             \/ /\ ~StripTooLong(bytes)
                /\ ~TooLong(Len(chunks) + 1, pageBytes + bytes)
                /\ TakeStrip(strip, bytes)
                /\ step' = "padding" /\ SetDeadline("long")
                /\ UNCHANGED <<k, streaming, chunk, scanVars, outbox>>
    /\ UNCHANGED <<printerVars, faults>>

AfterPadding ==
    IF chunk.last
      THEN EndPage(chunks, pageBytes) /\ UNCHANGED deadline
      ELSE /\ step' = "status" /\ Send("POLL") /\ SetDeadline("short")
           /\ UNCHANGED <<pageVars, scanVars>>

\* drainPostEOIPadding.
PaddingDrained ==
    /\ step = "padding" /\ Receive(16) /\ AfterPadding
    /\ UNCHANGED <<k, printerVars, faults>>

\* The next-page check reads status[1] of whatever comes first.
NextStatus(m) == CASE m.tag = "none" -> {"done"}
                   [] m.tag \in {"next", "ready"} -> {"more"}
                   [] m.tag = "end" -> {"done"}
                   [] m.tag \in {"wait", "busy"} -> {"wait"}
                   [] OTHER -> {"done", "more", "wait"}

NextAnswered ==
    /\ step = "next" /\ Receive(255)
    /\ \E s \in NextStatus(First(inbox)) :
         /\ step' = CASE s = "done" -> "endack" [] s = "more" -> "rearm"
                      [] s = "wait" -> "next"
         /\ Send(CASE s = "done" -> "END" [] s = "more" -> "READY"
                   [] s = "wait" -> "PARAMS")
    /\ UNCHANGED <<k, pageVars, scanVars, deadline, printerVars, faults>>

Rearmed ==
    /\ step = "rearm" /\ Receive(32)
    /\ step' = "status" /\ Send("POLL") /\ SetDeadline("long")
    /\ UNCHANGED <<k, pageVars, scanVars, printerVars, faults>>

EndAnswered ==
    /\ step = "endack" /\ Receive(32)
    /\ step' = "discack" /\ Send("DISC")
    /\ UNCHANGED <<k, pageVars, scanVars, deadline, printerVars, faults>>

DiscAnswered ==
    /\ step = "discack" /\ Receive(32)
    /\ Return("ok")
    /\ UNCHANGED <<k, pageVars, totalBytes, pages, outbox, deadline, printerVars,
                   faults>>

\* What the client waits for has not come in full.
Starved ==
    CASE step = "setup"   -> Bytes(inbox) < AnswerLen(Setup[k])
      [] step = "drain"   -> Bytes(inbox) < 255 - 32
      [] step = "chunk"   -> Bytes(inbox) < chunk.size
      [] step = "strip"   -> ~HasMessage(inbox, "strip")
      [] step = "padding" -> Bytes(inbox) < 16
      [] step = "next"    -> Bytes(inbox) < 255
      [] step \in {"status", "rearm", "endack", "discack"} -> Bytes(inbox) < 32
      [] OTHER -> FALSE

\* A printer that has something to say may not manage to in time, although it
\* is neither slow nor stalled: it has been busy for all of the deadline, or
\* the deadline is the short one, which suits only the POLL after a strip.
PollAfterStrip == step = "status" /\ streaming
Overdue == \/ deadline.used = Patience
           \/ deadline.kind = "short" /\ ~PollAfterStrip

\* The deadline passes.  With nothing on its way to a printer that is on it
\* will; otherwise the printer is too slow: for the POLL after a streaming
\* strip, or for the 30 s of any other read.
DeadlinePasses ==
    /\ Starved
    /\ \/ (outbox = <<>> \/ off \/ Overdue) /\ UNCHANGED faults
       \/ outbox # <<>> /\ ~off
          /\ Fault(IF PollAfterStrip THEN "slow" ELSE "stall")

\* (A bug: the POLL that was not answered is sent again.)
TimeoutPollsAgain ==
    /\ DeadlinePasses
    /\ step = "status" /\ streaming
    /\ inbox' = <<>> /\ Send("POLL") /\ SetDeadline("short")
    /\ UNCHANGED <<clientVars, printerVars>>

\* (A bug: a strip that does not come ends the page, too.)
AnyTimeoutEndsPage ==
    /\ DeadlinePasses
    /\ step \in {"status", "strip"} /\ streaming
    /\ inbox' = <<>> /\ SetDeadline("long")
    /\ EndPage(chunks, pageBytes)
    /\ UNCHANGED <<k, printerVars>>

\* (A bug: the deadline that has told the end of the page stays in force.)
TimeoutLeavesDeadline ==
    /\ DeadlinePasses
    /\ step = "status" /\ streaming
    /\ inbox' = <<>>
    /\ EndPage(chunks, pageBytes)
    /\ UNCHANGED <<k, deadline, printerVars>>

\* After a streaming strip that is the end of the page, and the next page has
\* a deadline of its own.
TimeoutEndsPage ==
    /\ DeadlinePasses
    /\ step = "status" /\ streaming
    /\ inbox' = <<>> /\ SetDeadline("long")
    /\ EndPage(chunks, pageBytes)
    /\ UNCHANGED <<k, printerVars>>

\* Half a padding is as good as a whole one, and the POLL after it has a
\* deadline of its own.
TimeoutIgnored ==
    /\ DeadlinePasses
    /\ step = "padding" /\ ~chunk.last
    /\ inbox' = <<>>
    /\ AfterPadding
    /\ UNCHANGED <<k, printerVars>>

\* A limit that is exceeded is noticed before the read that fails is: that on
\* a strip by what has come of it, those on the pages after the tail of an
\* end-of-page signal or the padding of a last strip.
LimitFirst ==
    \/ step = "strip" /\ Starved /\ Bytes(inbox) > maxStripBytes
    \/ /\ step = "drain" \/ (step = "padding" /\ chunk.last)
       /\ chunks # <<>>
       /\ Len(pages) >= maxPages \/ totalBytes + pageBytes > maxTotalBytes

\* Anywhere else it is an error.  (In the tail of an end-of-page signal and in
\* the padding of a last strip it is ignored, and the next write fails on the
\* deadline that has passed.)
TimeoutFails ==
    /\ DeadlinePasses
    /\ ~(step = "padding" /\ ~chunk.last) /\ ~(step = "status" /\ streaming)
    /\ Return(IF LimitFirst THEN "limit" ELSE "io")
    /\ UNCHANGED <<k, pageVars, totalBytes, pages, outbox, inbox, deadline,
                   printerVars>>

\* The connection is refused or breaks.  (A broken read of padding or of a
\* signal's tail is ignored, and the next write fails.)
ConnectionBreaks ==
    /\ step # "closed" /\ Fault("drop")
    /\ Return(IF LimitFirst THEN "limit" ELSE "io")
    /\ UNCHANGED <<k, pageVars, totalBytes, pages, outbox, inbox, deadline,
                   printerVars>>

Client ==
    \/ Dial \/ SetupAnswered \/ StatusBusy \/ StatusReady \/ StatusEnd
    \/ StatusSignal \/ Drained \/ ChunkRead \/ StripRead \/ PaddingDrained
    \/ NextAnswered \/ Rearmed \/ EndAnswered \/ DiscAnswered
    \/ TimeoutEndsPage \/ TimeoutIgnored \/ TimeoutFails

-----------------------------------------------------------------------------
\* Download has returned; what is left of the connection is closed with it.
Returned == step = "closed" /\ UNCHANGED vars

Next == Client \/ ConnectionBreaks \/ Printer \/ Cancel \/ PowerLost \/ Returned

Spec == Init /\ [][Next]_vars

\* The client runs, and a command that has reached the printer is handled.
FairSpec == Spec /\ WF_vars(Client) /\ WF_vars(Printer)

-----------------------------------------------------------------------------
(***************************************************************************)
(* Properties.                                                             *)
(***************************************************************************)
PageOf(p) == [i \in 1..Len(job[p].strips) |-> <<p, i>>]

\* What was downloaded is what lay in the feeder, unless the scan is stopped
\* on the printer: from a printer that stays on, every page taken so far is a
\* whole page, the pages are in order with none left out or repeated, and a
\* scan that ends well has them all (README, "Download": all image strips).  A
\* page that is left early, mixed with its neighbour or taken twice breaks it.
PagesFaithful ==
    ~cancelled =>
      /\ off \/ \A p \in 1..Len(pages) : p <= Len(job) /\ pages[p] = PageOf(p)
      /\ result = "ok" => pages = [p \in 1..Len(job) |-> PageOf(p)]

\* Seen from its caller, a download takes the pages over one at a time, whole
\* and in order; a page is cut only by Stop or by a printer that dies, nothing
\* follows it, and a download that ends well has all there was or was stopped.
T == INSTANCE Transfer WITH
       Feeders <- {[p \in 1..Len(j) |-> [i \in 1..Len(j[p].strips) |-> <<p, i>>]] :
                     j \in Jobs},
       feeder <- [p \in 1..Len(job) |-> PageOf(p)],
       taken <- pages, stopped <- cancelled, dead <- off, outcome <- result
TakesPages == T!Spec

\* The limits reject a scan exactly when it exceeds one of them, also when the
\* deadline passes while the limits are checked.  (That on a strip is checked
\* in streaming mode only, and lets one byte more pass.)
PageSize(p)  == UpTo(job[p].strips)[Len(job[p].strips)]
TotalSize    == UpTo([p \in 1..Len(job) |-> PageSize(p)])[Len(job)]
WithinLimits ==
    /\ Len(job) <= maxPages /\ TotalSize <= maxTotalBytes
    /\ \A p \in 1..Len(job) :
         /\ Len(job[p].strips) <= maxStrips /\ PageSize(p) <= maxPageBytes
         /\ job[p].streaming => \A i \in 1..Len(job[p].strips) :
                                 job[p].strips[i] <= maxStripBytes + 1
LimitsExact ==
    /\ result = "ok" /\ ~cancelled => WithinLimits
    /\ result = "limit" => ~WithinLimits

\* While the client waits, the only bytes that can come are the answer to its
\* last command: it is never behind or ahead of the printer by a message.
InStep ==
    \/ off
    \/ outbox = <<>> /\ \A i \in 2..Len(inbox) : inbox[i].tag = "pad"
    \/ Len(outbox) = 1 /\ inbox = <<>>

\* Client and printer never wait for each other: without a fault no answer is
\* waited for in vain, in either mode and from page to page, and no deadline is
\* left over from an earlier step.  Only a printer that has used up, being busy
\* after a page, the one deadline that covers everything up to the next page's
\* READY, or to the end of the session, is given up.
OnlyFaultsFail ==
    [][result' = "io" /\ faults' = 0
         => /\ step \in {"next", "rearm", "endack", "discack"}
            /\ deadline.used = Patience]_vars

\* A download always ends, if the printer is not busy for ever.
Ends == <>(result # "none")

\* "Single-page scans return a one-element slice" (tcp.go, Download): a scan
\* that ends well has a page.
ScanHasPage == result = "ok" => pages # <<>>

\* "Keep sending PARAMS until the printer signals done or ready" (tcp.go, the
\* next-page check): a printer that answers is not given up, however long it
\* takes over the next page.
WaitsForPrinter == result = "io" => faults > 0
=============================================================================
