--------------------------- MODULE DownloadProofs ---------------------------
(***************************************************************************)
(* Proofs about Download, for every job, every limit and every number of   *)
(* faults: the invariant that ties the client's position to what is on its *)
(* way and to the printer's, and what follows from it.                     *)
(***************************************************************************)
EXTENDS Download, SumProofs

\* The pages of a job, and how long they are.
PageIn(j, p) == [i \in 1..Len(j[p].strips) |-> <<p, i>>]
SizeIn(j, p) == UpTo(j[p].strips)[Len(j[p].strips)]
SizesIn(j)   == [p \in 1..Len(j) |-> SizeIn(j, p)]

\* ps are the first pages of the job, and whole.
Whole(j, ps) ==
    /\ Len(ps) <= Len(j)
    /\ \A p \in 1..Len(ps) : ps[p] = PageIn(j, p)

\* The first n strips of a streaming page are within the limit on a strip.
StripsWithin(j, p, n) ==
    j[p].streaming => \A i \in 1..n : j[p].strips[i] <= maxStripBytes + 1

\* The first n pages of the job are within the limits on a page.
PagesWithin(j, n) ==
    \A p \in 1..n : /\ Len(j[p].strips) <= maxStrips
                    /\ SizeIn(j, p) <= maxPageBytes
                    /\ StripsWithin(j, p, Len(j[p].strips))

\* cs are the first strips of page p.
FirstStrips(p, cs) == \A i \in 1..Len(cs) : cs[i] = <<p, i>>

Lines    == job[page].strips
AllWhole == Whole(job, pages)

\* The page in hand has all its strips, or was stopped; or there is no page.
Complete == cancelled \/ page > Len(job) \/ Len(chunks) = Len(Lines)

\* So has the scan.
Done == cancelled \/ (AllWhole /\ Len(pages) = Len(job))

PageSteps  == {"status", "drain", "chunk", "strip", "padding"}
AfterSteps == {"next", "rearm", "endack", "discack"}

Commands == {"INFO", "PROBE", "REQUEST", "PARAMS", "EXTRA", "DIMS", "READY",
             "POLL", "FETCH", "END", "DISC"}

TypeInv ==
    /\ TypeOK /\ (step = "setup" => k # 0)
    /\ job \in Seq(Pages)
    /\ outbox \in Seq(Commands) /\ inbox \in Seq(Messages)
    /\ chunk \in [size : Nat, last : BOOLEAN]
    /\ chunks \in Seq(Nat \X Nat) /\ pages \in Seq(Seq(Nat \X Nat))

\* The strips of the page in hand are its first ones, in order.
ChunksInv ==
    /\ Len(chunks) <= Len(Lines)
    /\ FirstStrips(page, chunks) /\ StripsWithin(job, page, Len(chunks))
    /\ pageBytes = UpTo(Lines)[Len(chunks)]
    /\ streaming => job[page].streaming
    /\ chunks # <<>> /\ job[page].streaming => streaming
    /\ step = "padding" => streaming /\ (chunk.last => Len(chunks) = Len(Lines))
    /\ step \in {"chunk", "strip"} =>
         /\ Len(chunks) < Len(Lines)
         /\ chunk.last => Len(chunks) + 1 = Len(Lines)
    /\ step = "strip" => streaming
    /\ step = "chunk" => chunk.size = Lines[Len(chunks) + 1] /\ ~streaming

NothingInHand == chunks = <<>> /\ pageBytes = 0 /\ ~streaming

PageInv ==
    /\ step \in PageSteps =>
         /\ armed /\ page = Len(pages) + 1 /\ AllWhole
         /\ \/ page <= Len(job) /\ ChunksInv
            \/ /\ ~(page <= Len(job)) /\ NothingInHand
               /\ step \in {"status", "drain"}
    /\ step \in {"dial", "setup"} => pages = <<>> /\ totalBytes = 0
    /\ step \in {"dial", "setup"} \cup AfterSteps => NothingInHand

\* What was taken is within the limits.
TakenInv ==
    AllWhole =>
      /\ totalBytes = UpTo(SizesIn(job))[Len(pages)]
      /\ PagesWithin(job, Len(pages))

ResultInv ==
    /\ cancelled \/ off \/ AllWhole
    /\ result = "ok" => Done
    /\ result = "limit" => ~WithinLimits
    /\ off => faults > 0

DeadlineInv ==
    step # "closed" =>
      /\ deadline.kind = "short" => step = "status" /\ streaming
      /\ deadline.used # 0 =>
           step \in AfterSteps \/ (step = "status" /\ outbox = <<>>)

\* What is on its way while client and printer are in step, one case for each
\* thing the client may wait for.
StripMsg(i) == [Message("strip", Lines[i]) EXCEPT !.what = <<page, i>>]

DialOK == outbox = <<>> /\ inbox = <<>> /\ ~off /\ page = 0 /\ ~armed

SetupOK ==
    \/ outbox = <<Setup[k]>> /\ inbox = <<>> /\ page = 0 /\ ~armed
    \/ /\ outbox = <<>> /\ Len(inbox) = 1
       /\ inbox[1].len = AnswerLen(Setup[k])
       /\ IF k = Len(Setup) THEN page = 1 /\ armed /\ sent = 0
          ELSE page = 0 /\ ~armed

Offer(m) ==
    /\ m.tag = "ready" /\ m.len = 32 /\ m.last \in BOOLEAN
    /\ page <= Len(job) /\ Len(chunks) < Len(Lines)
    /\ m.size = IF job[page].streaming THEN 0 ELSE Lines[Len(chunks) + 1]
    /\ m.last => Len(chunks) + 1 = Len(Lines)

StatusOK ==
    /\ sent = Len(chunks)
    /\ \/ outbox = <<"POLL">> /\ inbox = <<>>
       \/ /\ outbox = <<>> /\ Len(inbox) = 1
          /\ \/ inbox[1] = Message("busy", 32)
             \/ Offer(inbox[1])
             \/ /\ inbox[1] \in {Message("end", 32), Message("signal", 255)}
                /\ Complete
       \/ /\ outbox = <<>> /\ inbox = <<>>
          /\ page <= Len(job) /\ job[page].streaming
          /\ Len(chunks) = Len(Lines)

ChunkOK ==
    /\ ~job[page].streaming
    /\ \/ outbox = <<"FETCH">> /\ inbox = <<>> /\ sent = Len(chunks)
       \/ /\ outbox = <<>> /\ inbox = <<StripMsg(Len(chunks) + 1)>>
          /\ sent = Len(chunks) + 1

StripOK ==
    \/ outbox = <<"FETCH">> /\ inbox = <<>> /\ sent = Len(chunks)
    \/ /\ outbox = <<>> /\ sent = Len(chunks) + 1
       /\ Len(inbox) = 2 /\ inbox[1] = StripMsg(Len(chunks) + 1)
       /\ \/ inbox[2] = Message("pad", 16)
          \/ off /\ inbox[2] = Message("cut", 8)

PaddingOK ==
    outbox = <<>> /\ inbox = <<Message("pad", 16)>> /\ sent = Len(chunks)

DrainOK ==
    /\ outbox = <<>> /\ inbox = <<Message("tail", 223)>>
    /\ sent = Len(chunks) /\ Complete

NextOK ==
    /\ page = Len(pages) /\ page # 0 /\ page <= Len(job)
    /\ \/ outbox = <<"PARAMS">> /\ inbox = <<>> /\ (AllWhole \/ cancelled)
       \/ /\ outbox = <<>> /\ inbox = <<Message("wait", 255)>>
          /\ AllWhole \/ cancelled
       \/ /\ outbox = <<>> /\ inbox = <<Message("next", 255)>>
          /\ AllWhole
       \/ outbox = <<>> /\ inbox = <<Message("none", 255)>> /\ Done

RearmOK ==
    /\ AllWhole
    /\ \/ /\ outbox = <<"READY">> /\ inbox = <<>>
          /\ page = Len(pages) /\ page <= Len(job)
       \/ /\ outbox = <<>> /\ inbox = <<Message("ready", 32)>>
          /\ armed /\ page = Len(pages) + 1 /\ sent = 0

EndOK(cmd) ==
    /\ Done
    /\ \/ outbox = <<cmd>> /\ inbox = <<>>
       \/ outbox = <<>> /\ inbox = <<Message("ack", 32)>>

InStepInv ==
    /\ step = "dial"    => DialOK
    /\ step = "setup"   => SetupOK
    /\ step = "status"  => StatusOK
    /\ step = "chunk"   => ChunkOK
    /\ step = "strip"   => StripOK
    /\ step = "padding" => PaddingOK
    /\ step = "drain"   => DrainOK
    /\ step = "next"    => NextOK
    /\ step = "rearm"   => RearmOK
    /\ step = "endack"  => EndOK("END")
    /\ step = "discack" => EndOK("DISC")

\* Or the printer is gone, and what is on its way answers nothing.
CutSignal == step = "status" /\ inbox = <<Message("cut", 127)>>
CutStrip  == step = "strip" => Bytes(inbox) < Lines[Len(chunks) + 1]
Lost      == off /\ (Starved \/ CutSignal) /\ CutStrip

WireInv ==
    /\ outbox # <<>> /\ step # "closed" => inbox = <<>>
    /\ step \in {"padding", "drain"} => outbox = <<>>
    /\ step \notin {"next", "endack", "closed"} => Len(outbox) <= 1
    /\ InStepInv \/ Lost
    /\ step = "closed" => InStep

SessionInv ==
    /\ TypeInv /\ PageInv /\ TakenInv /\ ResultInv /\ DeadlineInv /\ WireInv

-----------------------------------------------------------------------------
(***************************************************************************)
(* Facts.                                                                  *)
(***************************************************************************)
\* Two sequences, one after the other.
LEMMA Concatenated ==
  ASSUME NEW S, NEW a \in Seq(S), NEW b \in Seq(S)
  PROVE  /\ a \o b \in Seq(S) /\ Len(a \o b) = Len(a) + Len(b)
         /\ \A i \in 1..Len(a) : (a \o b)[i] = a[i]
         /\ \A i \in 1..Len(b) : (a \o b)[Len(a) + i] = b[i]
OBVIOUS

\* The commands before the first POLL: the last one, and only it, is READY.
LEMMA SetupFacts ==
  /\ Len(Handshake) = 4 /\ Len(Setup) = 13 /\ Setup[1] = "INFO"
  /\ Setup[13] = "READY"
  /\ \A i \in 1..12 : Setup[i] \in {"INFO", "PROBE", "REQUEST", "PARAMS",
                                    "EXTRA", "DIMS"}
  /\ \A i \in 1..13 : Setup[i] \in Commands
<1> DEFINE H == <<"INFO", "PROBE", "INFO", "PROBE">>
           R == <<"REQUEST", "PARAMS", "EXTRA", "DIMS", "READY">>
           HH == H \o H
           U == HH \o R
<1>1. Handshake = H /\ Setup = U
  BY DEF Handshake, Setup
<1>2. "INFO" \in Commands /\ "PROBE" \in Commands
  BY DEF Commands
<1>3. /\ "REQUEST" \in Commands /\ "PARAMS" \in Commands
      /\ "EXTRA" \in Commands /\ "DIMS" \in Commands /\ "READY" \in Commands
  BY DEF Commands
<1>4. /\ H \in Seq(Commands) /\ Len(H) = 4 /\ H[1] = "INFO"
      /\ H[2] = "PROBE" /\ H[3] = "INFO" /\ H[4] = "PROBE"
  BY <1>2
<1>5. /\ R \in Seq(Commands) /\ Len(R) = 5
      /\ R[1] = "REQUEST" /\ R[2] = "PARAMS" /\ R[3] = "EXTRA"
      /\ R[4] = "DIMS" /\ R[5] = "READY"
  BY <1>3
<1> HIDE DEF H, R
<1>6. /\ HH \in Seq(Commands) /\ Len(HH) = Len(H) + Len(H)
      /\ \A i \in 1..Len(H) : HH[i] = H[i]
      /\ \A i \in 1..Len(H) : HH[Len(H) + i] = H[i]
  <2>1. H \in Seq(Commands)
    BY <1>4
  <2> QED BY <2>1, Concatenated
<1> HIDE DEF HH
<1>7. /\ U \in Seq(Commands) /\ Len(U) = Len(HH) + Len(R)
      /\ \A i \in 1..Len(HH) : U[i] = HH[i]
      /\ \A i \in 1..Len(R) : U[Len(HH) + i] = R[i]
  <2>1. HH \in Seq(Commands) /\ R \in Seq(Commands)
    BY <1>5, <1>6
  <2> QED BY <2>1, Concatenated
<1> HIDE DEF U
<1>8. Len(U) = 13
  BY <1>4, <1>5, <1>6, <1>7
<1>9. \A i \in 1..8 : U[i] \in {"INFO", "PROBE"}
  <2>1. \A i \in 1..4 : H[i] \in {"INFO", "PROBE"}
    BY <1>4
  <2>2. \A i \in 1..4 : HH[i] \in {"INFO", "PROBE"}
    BY <1>4, <1>6, <2>1
  <2>3. \A i \in 5..8 : i - 4 \in 1..4 /\ HH[4 + (i - 4)] = H[i - 4]
    BY <1>4, <1>6
  <2>4. \A i \in 5..8 : HH[i] \in {"INFO", "PROBE"}
    BY <2>1, <2>3
  <2> QED BY <1>4, <1>6, <1>7, <2>2, <2>4
<1>10. /\ U[9] = "REQUEST" /\ U[10] = "PARAMS" /\ U[11] = "EXTRA"
       /\ U[12] = "DIMS" /\ U[13] = "READY"
  <2>1. /\ U[8 + 1] = R[1] /\ U[8 + 2] = R[2] /\ U[8 + 3] = R[3]
        /\ U[8 + 4] = R[4] /\ U[8 + 5] = R[5]
    BY <1>4, <1>5, <1>6, <1>7
  <2> QED BY <1>5, <2>1
<1>11. U[1] = "INFO"
  BY <1>4, <1>6, <1>7
<1>12. \A i \in 1..12 : i \in 1..8 \/ i = 9 \/ i = 10 \/ i = 11 \/ i = 12
  OBVIOUS
<1>13. \A i \in 1..12 : U[i] \in {"INFO", "PROBE", "REQUEST", "PARAMS",
                                  "EXTRA", "DIMS"}
  BY <1>9, <1>10, <1>12
<1>14. \A i \in 1..13 : U[i] \in Commands
  <2>1. U \in Seq(Commands)
    BY <1>7
  <2>2. \A i \in 1..Len(U) : U[i] \in Commands
    BY <2>1
  <2> QED BY <1>8, <2>2
<1> QED BY <1>1, <1>4, <1>8, <1>10, <1>11, <1>13, <1>14

\* The answers have these lengths.
LEMMA AnswerFacts ==
  /\ \A i \in 1..13 : AnswerLen(Setup[i]) \in Nat \ {0}
  /\ \A cmd \in {"INFO", "PROBE", "REQUEST", "PARAMS", "EXTRA", "DIMS",
                 "READY", "END", "DISC"} : AnswerLen(cmd) \in Nat \ {0}
  /\ AnswerLen("READY") = 32 /\ AnswerLen("PARAMS") = 255
  /\ AnswerLen("END") = 32 /\ AnswerLen("DISC") = 32
BY SetupFacts DEF AnswerLen

\* What the printer says is a message, of that length.
LEMMA Said ==
  \A tag \in Tags, len \in Nat :
    /\ Message(tag, len) \in Messages
    /\ Message(tag, len).tag = tag /\ Message(tag, len).len = len
    /\ Message(tag, len).size = 0 /\ Message(tag, len).last = FALSE
<1> SUFFICES ASSUME NEW tag \in Tags, NEW len \in Nat
             PROVE  /\ Message(tag, len) \in Messages
                    /\ Message(tag, len).tag = tag
                    /\ Message(tag, len).len = len
                    /\ Message(tag, len).size = 0
                    /\ Message(tag, len).last = FALSE
  OBVIOUS
<1> QED BY MessageType DEF Message

-----------------------------------------------------------------------------
(***************************************************************************)
(* Facts about jobs.                                                       *)
(***************************************************************************)
\* The strips of a page are numbers, one at least; so are the sizes of the
\* pages; and a page's size is the sum of its strips.
LEMMA PageFacts ==
  ASSUME NEW j \in Seq(Pages), NEW p \in 1..Len(j)
  PROVE  /\ j[p].strips \in Seq(Nat) /\ Len(j[p].strips) # 0
         /\ \A i \in 1..Len(j[p].strips) : j[p].strips[i] \in Nat \ {0}
         /\ j[p].streaming \in BOOLEAN
         /\ SizeIn(j, p) \in Nat
<1>1. j[p] \in Pages
  OBVIOUS
<1> DEFINE s == j[p].strips
<1>2. s \in Seq(Nat \ {0}) /\ s # <<>> /\ j[p].streaming \in BOOLEAN
  BY <1>1 DEF Pages
<1>3. SizeIn(j, p) = UpTo(s)[Len(s)]
  BY DEF SizeIn
<1> HIDE DEF s
<1>4. s \in Seq(Nat) /\ Len(s) # 0 /\ \A i \in 1..Len(s) : s[i] \in Nat \ {0}
  BY <1>2
<1>5. UpTo(s) \in [0..Len(s) -> Nat]
  BY <1>4, SumsType
<1>6. UpTo(s)[Len(s)] \in Nat
  BY <1>4, <1>5
<1> QED BY <1>2, <1>3, <1>4, <1>6 DEF s

LEMMA SizesFacts ==
  ASSUME NEW j \in Seq(Pages)
  PROVE  /\ SizesIn(j) \in Seq(Nat) /\ Len(SizesIn(j)) = Len(j)
         /\ \A p \in 1..Len(j) : SizesIn(j)[p] = SizeIn(j, p)
<1>1. \A p \in 1..Len(j) : SizeIn(j, p) \in Nat
  BY PageFacts
<1> QED BY <1>1 DEF SizesIn

\* The limits are about the job only.
LEMMA LimitsFacts ==
  ASSUME job \in Seq(Pages)
  PROVE  WithinLimits <=> /\ Len(job) <= maxPages
                          /\ UpTo(SizesIn(job))[Len(job)] <= maxTotalBytes
                          /\ PagesWithin(job, Len(job))
BY DEF WithinLimits, TotalSize, PageSize, PagesWithin, StripsWithin, SizesIn,
       SizeIn

LEMMA LimitsFrame ==
  ASSUME UNCHANGED job PROVE WithinLimits' = WithinLimits
BY DEF WithinLimits, TotalSize, PageSize

-----------------------------------------------------------------------------
(***************************************************************************)
(* The invariant holds at the beginning.                                   *)
(***************************************************************************)
LEMMA InitInv ==
  Init => SessionInv
<1> SUFFICES ASSUME Init PROVE SessionInv
  OBVIOUS
<1> USE LimitsAssumption, JobsAssumption
<1>1. job \in Seq(Pages) /\ Len(job) \in Nat
  BY DEF Init
<1>2. TypeInv
  <2>1. TypeOK
    <3>1. step \in Steps /\ result \in Results /\ (result # "none" <=> step = "closed")
      BY DEF Init, Steps, Results
    <3>2. k \in 0..Len(Setup)
      BY SetupFacts DEF Init
    <3>3. page \in 0..(Len(job) + 1) /\ job \in Jobs
      BY <1>1 DEF Init
    <3>4. deadline \in [kind : {"long", "short"}, used : 0..Patience]
      BY DEF Init, Fresh
    <3>5. Len(chunks) <= maxStrips /\ Len(pages) <= maxPages /\ Len(outbox) <= 2
      BY DEF Init
    <3>6. pageBytes \in 0..maxPageBytes /\ totalBytes \in 0..maxTotalBytes
          /\ busy \in 0..MaxBusy /\ faults \in 0..MaxFaults /\ sent \in Nat
      BY DEF Init
    <3>7. chunk.size \in Nat /\ chunk.last \in BOOLEAN
      BY DEF Init, NoChunk
    <3>8. streaming \in BOOLEAN /\ armed \in BOOLEAN
          /\ cancelled \in BOOLEAN /\ off \in BOOLEAN
      BY DEF Init
    <3> QED BY <3>1, <3>2, <3>3, <3>4, <3>5, <3>6, <3>7, <3>8 DEF TypeOK
  <2> QED BY <1>1, <2>1 DEF Init, TypeInv, NoChunk
<1>3. AllWhole
  BY <1>1 DEF Init, AllWhole, Whole
<1>4. PageInv
  BY DEF Init, PageInv, PageSteps, AfterSteps, NothingInHand
<1>5. TakenInv
  <2>1. UpTo(SizesIn(job))[0] = 0
    BY <1>1, SizesFacts, SumsStep
  <2>2. PagesWithin(job, 0)
    BY DEF PagesWithin
  <2> QED BY <2>1, <2>2 DEF Init, TakenInv
<1>6. ResultInv
  BY <1>3 DEF Init, ResultInv
<1>7. DeadlineInv
  BY DEF Init, DeadlineInv, Fresh
<1>8. WireInv
  BY DEF Init, WireInv, InStepInv, DialOK
<1> QED BY <1>2, <1>4, <1>5, <1>6, <1>7, <1>8 DEF SessionInv

-----------------------------------------------------------------------------
(***************************************************************************)
(* What the printer does preserves it.                                     *)
(***************************************************************************)
\* In step, at most one command is on its way, and then no answer.
LEMMA OneCommand ==
  ASSUME SessionInv, InStepInv, step # "closed", outbox # <<>>
  PROVE  inbox = <<>> /\ outbox = <<Head(outbox)>>
<1>1. \E c : outbox = <<c>>
  <2>1. step \in Steps
    BY DEF SessionInv, TypeInv, TypeOK
  <2> QED BY <2>1 DEF InStepInv, DialOK, SetupOK, StatusOK, ChunkOK, StripOK,
             PaddingOK, DrainOK, NextOK, RearmOK, EndOK, Steps
<1> QED BY <1>1 DEF SessionInv, WireInv

\* A printer that is asked something has heard everything before it, and what
\* it says is all there is to hear.
LEMMA AskedInStep ==
  ASSUME SessionInv, NEW cmd, Asked(cmd)
  PROVE  /\ InStepInv /\ ~off /\ step # "closed"
         /\ inbox = <<>> /\ outbox = <<cmd>>
<1>1. InStepInv /\ ~off /\ step # "closed" /\ outbox # <<>>
  BY DEF Asked, SessionInv, WireInv, Lost
<1>2. Head(outbox) = cmd
  BY DEF Asked
<1> QED BY <1>1, <1>2, OneCommand

LEMMA SaidInStep ==
  ASSUME SessionInv, NEW cmd, Asked(cmd), NEW ms \in Seq(Messages), Say(ms)
  PROVE  inbox' = ms /\ outbox' = <<>>
<1>1. inbox = <<>> /\ outbox = <<cmd>>
  BY AskedInStep
<1>2. inbox' = inbox \o ms /\ outbox' = Tail(outbox)
  BY DEF Say
<1>3. <<>> \o ms = ms
  OBVIOUS
<1>4. Tail(<<cmd>>) = <<>>
  OBVIOUS
<1> QED BY <1>1, <1>2, <1>3, <1>4

\* What a step of the printer leaves typed.
LEMMA PrinterType ==
  ASSUME TypeInv, UNCHANGED <<clientVars, job, cancelled, off, faults>>,
         inbox' \in Seq(Messages), outbox' = <<>>,
         deadline' \in [kind : {"long", "short"}, used : 0..Patience],
         page' \in 0..(Len(job) + 1), armed' \in BOOLEAN, sent' \in Nat,
         busy' \in 0..MaxBusy
  PROVE  TypeInv'
<1>1. TypeOK'
  BY DEF TypeInv, TypeOK, clientVars, pageVars, scanVars
<1> QED BY <1>1 DEF TypeInv, clientVars, pageVars, scanVars

\* A step of the printer that leaves its place in the job alone.
LEMMA PrinterFrame ==
  ASSUME SessionInv, UNCHANGED <<clientVars, job, page, cancelled, off, faults>>,
         step # "closed", armed' = armed \/ step \notin PageSteps,
         outbox' = <<>>,
         \/ deadline' = deadline
         \/ deadline'.kind = deadline.kind /\ step \in {"status", "next"}
  PROVE  PageInv' /\ TakenInv' /\ ResultInv' /\ DeadlineInv'
<1> USE DEF SessionInv, clientVars, pageVars, scanVars
<1>1. AllWhole' = AllWhole /\ Complete' = Complete /\ Done' = Done
      /\ WithinLimits' = WithinLimits
  BY LimitsFrame DEF AllWhole, Complete, Done, Lines
<1>2. PageInv'
  BY <1>1 DEF PageInv, PageSteps, AfterSteps, NothingInHand, ChunksInv, Lines
<1>3. TakenInv'
  BY <1>1 DEF TakenInv
<1>4. ResultInv'
  BY <1>1 DEF ResultInv
<1>5. DeadlineInv'
  BY DEF DeadlineInv, AfterSteps
<1> QED BY <1>2, <1>3, <1>4, <1>5

LEMMA AnswerPlainInv ==
  ASSUME SessionInv, AnswerPlain PROVE SessionInv'
<1>1. PICK cmd \in {"INFO", "PROBE", "REQUEST", "EXTRA", "DIMS", "END", "DISC"} :
        Asked(cmd) /\ Reply(<<Message("ack", AnswerLen(cmd))>>)
  BY DEF AnswerPlain
<1> DEFINE m == Message("ack", AnswerLen(cmd))
<1>2. UNCHANGED <<printerVars, clientVars, faults, deadline>>
  BY <1>1 DEF AnswerPlain, Reply
<1>3. m \in Messages /\ m.len = AnswerLen(cmd)
  <2>1. AnswerLen(cmd) \in Nat
    BY AnswerFacts
  <2> QED BY <2>1, Said DEF Tags
<1>4. inbox' = <<m>> /\ outbox' = <<>>
  <2>1. <<m>> \in Seq(Messages)
    BY <1>3
  <2> QED BY <1>1, <2>1, SaidInStep DEF Reply
<1>5. InStepInv /\ step # "closed" /\ inbox = <<>> /\ outbox = <<cmd>>
  BY <1>1, AskedInStep
<1>6. TypeInv'
  BY <1>2, <1>3, <1>4, PrinterType DEF SessionInv, TypeInv, TypeOK, printerVars
<1>7. PageInv' /\ TakenInv' /\ ResultInv' /\ DeadlineInv'
  BY <1>2, <1>4, <1>5, PrinterFrame DEF printerVars
<1> HIDE DEF m
<1>8. WireInv'
  <2>1. step \in {"setup", "endack", "discack"}
    BY <1>5 DEF SessionInv, TypeInv, TypeOK, Steps, InStepInv, DialOK, StatusOK,
       ChunkOK, StripOK, PaddingOK, DrainOK, NextOK, RearmOK
  <2>2. CASE step = "setup"
    <3>1. SetupOK /\ k \in 1..13 /\ cmd = Setup[k]
      BY <1>5, <2>2, SetupFacts DEF InStepInv, SetupOK, SessionInv, TypeInv, TypeOK
    <3>2. k # 13
      BY <3>1, SetupFacts
    <3>3. SetupOK'
      BY <1>2, <1>3, <1>4, <1>5, <3>1, <3>2, SetupFacts
      DEF SetupOK, printerVars, clientVars
    <3> QED BY <1>2, <1>4, <2>2, <3>3 DEF WireInv, InStepInv, clientVars
  <2>3. CASE step \in {"endack", "discack"}
    <3>1. Done' /\ cmd \in {"END", "DISC"}
      BY <1>2, <1>5, <2>3 DEF InStepInv, EndOK, Done, AllWhole, printerVars,
         clientVars, scanVars
    <3>2. m = Message("ack", 32)
      BY <3>1, AnswerFacts DEF m
    <3>3. \A c : EndOK(c)'
      BY <1>4, <3>1, <3>2 DEF EndOK
    <3> QED BY <1>2, <1>4, <2>3, <3>3 DEF WireInv, InStepInv, clientVars
  <2> QED BY <2>1, <2>2, <2>3
<1> QED BY <1>6, <1>7, <1>8 DEF SessionInv

\* The first and the next PARAMS.
LEMMA AnswerParamsInv ==
  ASSUME SessionInv, AnswerParams PROVE SessionInv'
<1>1. Asked("PARAMS") /\ UNCHANGED <<clientVars, faults>>
  BY DEF AnswerParams
<1>2. /\ InStepInv /\ ~off /\ step # "closed"
      /\ inbox = <<>> /\ outbox = <<"PARAMS">>
  BY <1>1, AskedInStep
<1>3. step \in {"setup", "next"}
  BY <1>2 DEF SessionInv, TypeInv, TypeOK, Steps, InStepInv, DialOK, StatusOK,
     ChunkOK, StripOK, PaddingOK, DrainOK, NextOK, RearmOK, EndOK
<1>4. \A m \in Messages : Say(<<m>>) => inbox' = <<m>> /\ outbox' = <<>>
  <2>1. \A m \in Messages : <<m>> \in Seq(Messages)
    OBVIOUS
  <2> QED BY <1>1, <2>1, SaidInStep
<1>5. \A tag \in {"ack", "wait", "next", "none"} :
        Message(tag, 255) \in Messages /\ Message(tag, 255).len = 255
  BY Said DEF Tags
<1>6. CASE page = 0 /\ Reply(<<Message("ack", 255)>>) /\ UNCHANGED printerVars
  <2>1. /\ inbox' = <<Message("ack", 255)>> /\ outbox' = <<>>
        /\ UNCHANGED deadline
    BY <1>4, <1>5, <1>6 DEF Reply
  <2>2. TypeInv'
    <3>1. <<Message("ack", 255)>> \in Seq(Messages)
      BY <1>5
    <3> QED BY <1>1, <1>6, <2>1, <3>1, PrinterType
        DEF SessionInv, TypeInv, TypeOK, printerVars
  <2>3. PageInv' /\ TakenInv' /\ ResultInv' /\ DeadlineInv'
    BY <1>1, <1>2, <1>6, <2>1, PrinterFrame DEF printerVars
  <2>4. step = "setup"
    BY <1>2, <1>3, <1>6 DEF InStepInv, NextOK
  <2>5. SetupOK /\ k \in 1..13 /\ Setup[k] = "PARAMS"
    BY <1>2, <2>4, SetupFacts DEF InStepInv, SetupOK, SessionInv, TypeInv, TypeOK
  <2>6. SetupOK'
    <3>1. k # 13 /\ AnswerLen(Setup[k]) = 255 /\ k' = k
      BY <1>1, <2>5, SetupFacts, AnswerFacts DEF clientVars
    <3>2. page = 0 /\ ~armed /\ page' = 0 /\ ~armed'
      BY <1>2, <1>6, <2>5 DEF SetupOK, printerVars
    <3>3. Len(inbox') = 1 /\ inbox'[1].len = 255
      BY <1>5, <2>1
    <3> QED BY <2>1, <2>5, <3>1, <3>2, <3>3, SetupFacts DEF SetupOK
  <2>7. WireInv'
    BY <1>1, <2>1, <2>4, <2>6 DEF WireInv, InStepInv, clientVars
  <2> QED BY <2>2, <2>3, <2>7 DEF SessionInv
<1>7. ASSUME page > 0
      PROVE  /\ step = "next" /\ page = Len(pages) /\ page # 0
             /\ page <= Len(job) /\ (AllWhole \/ cancelled)
  BY <1>2, <1>3, <1>7 DEF InStepInv, SetupOK, NextOK, SessionInv, WireInv
<1>8. CASE page > 0 /\ Busy("wait", 255)
  <2>1. /\ inbox' = <<Message("wait", 255)>> /\ outbox' = <<>>
        /\ deadline' = [deadline EXCEPT !.used = @ + 1]
        /\ deadline.used < Patience /\ busy' = busy + 1 /\ busy < MaxBusy
        /\ UNCHANGED <<job, page, armed, sent, cancelled, off>>
    BY <1>4, <1>5, <1>8 DEF Busy
  <2>2. TypeInv'
    <3>1. <<Message("wait", 255)>> \in Seq(Messages)
      BY <1>5
    <3>0. /\ deadline \in [kind : {"long", "short"}, used : 0..Patience]
          /\ busy \in 0..MaxBusy
      BY DEF SessionInv, TypeInv, TypeOK
    <3>2. deadline' \in [kind : {"long", "short"}, used : 0..Patience]
      <4>1. deadline.used + 1 \in 0..Patience
        BY <2>1, <3>0, LimitsAssumption
      <4> QED BY <2>1, <3>0, <4>1
    <3>3. busy' \in 0..MaxBusy
      BY <2>1, <3>0, LimitsAssumption
    <3> QED BY <1>1, <2>1, <3>1, <3>2, <3>3, PrinterType
        DEF SessionInv, TypeInv, TypeOK
  <2>3. deadline'.kind = deadline.kind
    BY <2>1 DEF SessionInv, TypeInv, TypeOK
  <2>4. PageInv' /\ TakenInv' /\ ResultInv' /\ DeadlineInv'
    BY <1>1, <1>2, <1>7, <1>8, <2>1, <2>3, PrinterFrame
  <2>5. NextOK'
    BY <1>1, <1>7, <1>8, <2>1
    DEF NextOK, AllWhole, clientVars, scanVars
  <2>6. WireInv'
    BY <1>1, <1>7, <1>8, <2>1, <2>5 DEF WireInv, InStepInv, clientVars
  <2> QED BY <2>2, <2>4, <2>6 DEF SessionInv
<1>9. CASE /\ page > 0 /\ armed' = FALSE /\ busy' = 0
            /\ \E tag \in NextPage : Reply(<<Message(tag, 255)>>)
            /\ UNCHANGED <<job, page, sent, cancelled, off>>
  <2>1. PICK tag \in NextPage : Reply(<<Message(tag, 255)>>)
    BY <1>9
  <2>2. \/ tag = "next" /\ ~cancelled
        \/ tag = "none" /\ (cancelled \/ page >= Len(job))
    <3>1. cancelled \in BOOLEAN /\ page \in Nat /\ Len(job) \in Nat
      BY DEF SessionInv, TypeInv, TypeOK
    <3> QED BY <2>1, <3>1 DEF NextPage
  <2>3. Message(tag, 255) \in Messages
    BY <1>5, <2>2
  <2>4. /\ inbox' = <<Message(tag, 255)>> /\ outbox' = <<>>
        /\ UNCHANGED deadline
    BY <1>4, <2>1, <2>3 DEF Reply
  <2>5. TypeInv'
    <3>1. <<Message(tag, 255)>> \in Seq(Messages)
      BY <2>3
    <3>2. busy' \in 0..MaxBusy
      BY <1>9, LimitsAssumption
    <3> QED BY <1>1, <1>9, <2>4, <3>1, <3>2, PrinterType
        DEF SessionInv, TypeInv, TypeOK
  <2>6. PageInv' /\ TakenInv' /\ ResultInv' /\ DeadlineInv'
    BY <1>1, <1>2, <1>7, <1>9, <2>4, PrinterFrame DEF PageSteps
  <2>7. tag = "none" => Done
    <3>1. job \in Seq(Pages) /\ page \in Nat /\ Len(job) \in Nat
      BY DEF SessionInv, TypeInv, TypeOK
    <3> QED BY <1>7, <1>9, <2>2, <3>1 DEF Done
  <2>8. NextOK'
    <3>1. UNCHANGED <<page, pages, job, cancelled>>
      BY <1>1, <1>9 DEF clientVars, scanVars
    <3>2. CASE tag = "next" /\ ~cancelled
      BY <1>7, <1>9, <2>4, <3>1, <3>2 DEF NextOK, AllWhole
    <3>3. CASE tag = "none"
      BY <1>7, <1>9, <2>4, <2>7, <3>1, <3>3 DEF NextOK, Done, AllWhole
    <3> QED BY <2>2, <3>2, <3>3
  <2>9. WireInv'
    BY <1>1, <1>7, <1>9, <2>4, <2>8 DEF WireInv, InStepInv, clientVars
  <2> QED BY <2>5, <2>6, <2>9 DEF SessionInv
<1> QED BY <1>6, <1>8, <1>9 DEF AnswerParams

\* READY, the first and the next.
LEMMA AnswerReadyInv ==
  ASSUME SessionInv, AnswerReady PROVE SessionInv'
<1>1. /\ Asked("READY") /\ Reply(<<Message("ready", 32)>>)
      /\ armed' = TRUE /\ sent' = 0 /\ busy' = 0
      /\ page' = IF page <= Len(job) THEN page + 1 ELSE page
      /\ UNCHANGED <<job, cancelled, off, clientVars, faults>>
  BY DEF AnswerReady
<1>2. /\ InStepInv /\ ~off /\ step # "closed"
      /\ inbox = <<>> /\ outbox = <<"READY">>
  BY <1>1, AskedInStep
<1>3. Message("ready", 32) \in Messages /\ Message("ready", 32).len = 32
  BY Said DEF Tags
<1>4. <<Message("ready", 32)>> \in Seq(Messages)
  BY <1>3
<1>5. inbox' = <<Message("ready", 32)>> /\ outbox' = <<>> /\ UNCHANGED deadline
  BY <1>1, <1>4, SaidInStep DEF Reply
<1>6. step \in {"setup", "rearm"}
  BY <1>2 DEF SessionInv, TypeInv, TypeOK, Steps, InStepInv, DialOK, StatusOK,
     ChunkOK, StripOK, PaddingOK, DrainOK, NextOK, EndOK
<1>7. job \in Seq(Pages) /\ page \in 0..(Len(job) + 1)
  BY DEF SessionInv, TypeInv, TypeOK
<1>8. TypeInv'
  <2>1. page' \in 0..(Len(job) + 1)
    BY <1>1, <1>7
  <2>2. busy' \in 0..MaxBusy /\ sent' \in Nat /\ armed' \in BOOLEAN
    BY <1>1, LimitsAssumption
  <2>3. deadline' \in [kind : {"long", "short"}, used : 0..Patience]
    BY <1>5 DEF SessionInv, TypeInv, TypeOK
  <2> QED BY <1>1, <1>4, <1>5, <2>1, <2>2, <2>3, PrinterType DEF SessionInv
<1>9. AllWhole' = AllWhole /\ Done' = Done /\ WithinLimits' = WithinLimits
  BY <1>1, LimitsFrame DEF AllWhole, Done, clientVars, scanVars
<1>10. PageInv' /\ TakenInv' /\ ResultInv' /\ DeadlineInv'
  <2> USE DEF SessionInv, clientVars, pageVars, scanVars
  <2>1. PageInv'
    BY <1>1, <1>6 DEF PageInv, PageSteps, AfterSteps, NothingInHand
  <2>2. TakenInv' /\ ResultInv'
    BY <1>1, <1>9 DEF TakenInv, ResultInv
  <2>3. DeadlineInv'
    BY <1>1, <1>5, <1>6 DEF DeadlineInv, AfterSteps
  <2> QED BY <2>1, <2>2, <2>3
<1>11. WireInv'
  <2>1. CASE step = "setup"
    <3>1. SetupOK /\ k \in 1..13 /\ Setup[k] = "READY"
      BY <1>2, <2>1, SetupFacts DEF InStepInv, SetupOK, SessionInv, TypeInv, TypeOK
    <3>2. k = 13 /\ page = 0
      BY <1>2, <3>1, SetupFacts DEF SetupOK
    <3>3. page' = 1 /\ k' = 13
      BY <1>1, <1>7, <3>2 DEF clientVars
    <3>4. SetupOK'
      <4>1. AnswerLen(Setup[13]) = 32
        BY SetupFacts, AnswerFacts
      <4>2. Len(inbox') = 1 /\ inbox'[1].len = 32
        BY <1>3, <1>5
      <4> QED BY <1>1, <1>5, <3>3, <4>1, <4>2, SetupFacts DEF SetupOK
    <3> QED BY <1>1, <1>5, <2>1, <3>4 DEF WireInv, InStepInv, clientVars
  <2>2. CASE step = "rearm"
    <3>1. /\ AllWhole /\ page = Len(pages) /\ page <= Len(job)
      BY <1>2, <2>2 DEF InStepInv, RearmOK
    <3>2. page' = Len(pages) + 1
      BY <1>1, <1>7, <3>1
    <3>3. RearmOK'
      BY <1>1, <1>5, <1>9, <3>1, <3>2 DEF RearmOK, clientVars, scanVars
    <3> QED BY <1>1, <1>5, <2>2, <3>3 DEF WireInv, InStepInv, clientVars
  <2> QED BY <1>6, <2>1, <2>2
<1> QED BY <1>8, <1>10, <1>11 DEF SessionInv

\* What is known of the page in hand while the printer is asked about it.
LEMMA PageInHand ==
  ASSUME SessionInv, step \in PageSteps
  PROVE  /\ armed /\ page = Len(pages) + 1 /\ AllWhole
         /\ page \in 1..(Len(job) + 1) /\ Len(pages) \in Nat
         /\ Len(chunks) \in Nat /\ job \in Seq(Pages) /\ Len(job) \in Nat
         /\ page <= Len(job) =>
              /\ page \in 1..Len(job) /\ ChunksInv
              /\ Lines \in Seq(Nat) /\ Len(Lines) # 0 /\ Len(Lines) \in Nat
              /\ \A i \in 1..Len(Lines) : Lines[i] \in Nat \ {0}
              /\ job[page].streaming \in BOOLEAN
         /\ ~(page <= Len(job)) => NothingInHand /\ step \in {"status", "drain"}
<1>1. /\ armed /\ page = Len(pages) + 1 /\ AllWhole
      /\ \/ page <= Len(job) /\ ChunksInv
         \/ ~(page <= Len(job)) /\ NothingInHand /\ step \in {"status", "drain"}
  BY DEF SessionInv, PageInv
<1>2. /\ page \in 0..(Len(job) + 1) /\ job \in Seq(Pages)
      /\ chunks \in Seq(Nat \X Nat) /\ pages \in Seq(Seq(Nat \X Nat))
  BY DEF SessionInv, TypeInv, TypeOK
<1>3. Len(pages) \in Nat /\ Len(chunks) \in Nat /\ Len(job) \in Nat
  BY <1>2
<1>4. page \in 1..(Len(job) + 1)
  BY <1>1, <1>2, <1>3
<1>5. ASSUME page <= Len(job) PROVE page \in 1..Len(job) /\ ChunksInv
  BY <1>1, <1>3, <1>4, <1>5
<1>6. ASSUME page \in 1..Len(job)
      PROVE  /\ Lines \in Seq(Nat) /\ Len(Lines) # 0 /\ Len(Lines) \in Nat
             /\ \A i \in 1..Len(Lines) : Lines[i] \in Nat \ {0}
             /\ job[page].streaming \in BOOLEAN
  BY <1>2, <1>6, PageFacts DEF Lines
<1> QED BY <1>1, <1>2, <1>3, <1>4, <1>5, <1>6

\* A page's first strips are no more than the page.
LEMMA FirstStripsFacts ==
  ASSUME job \in Seq(Pages), page \in 1..Len(job), NEW n \in 0..Len(Lines)
  PROVE  /\ Lines \in Seq(Nat) /\ Len(Lines) \in Nat
         /\ UpTo(Lines)[n] \in Nat /\ SizeIn(job, page) \in Nat
         /\ UpTo(Lines)[n] <= SizeIn(job, page)
         /\ UpTo(Lines)[0] = 0
         /\ n # Len(Lines) =>
              /\ UpTo(Lines)[n + 1] = UpTo(Lines)[n] + Lines[n + 1]
              /\ UpTo(Lines)[n + 1] <= SizeIn(job, page)
              /\ Lines[n + 1] \in Nat
<1>1. Lines \in Seq(Nat) /\ SizeIn(job, page) \in Nat
  BY PageFacts DEF Lines
<1>2. SizeIn(job, page) = UpTo(Lines)[Len(Lines)]
  BY DEF SizeIn, Lines
<1> DEFINE s == Lines
           up == UpTo(s)
<1> HIDE DEF s
<1>3. s \in Seq(Nat) /\ Len(s) \in Nat /\ n \in 0..Len(s)
  BY <1>1 DEF s
<1>4. up \in [0..Len(s) -> Nat]
  BY <1>3, SumsType
<1>5. up[0] = 0 /\ \A i \in 1..Len(s) : up[i] = up[i - 1] + s[i]
  BY <1>3, SumsStep
<1>6. \A i \in 0..Len(s) : up[i] <= up[Len(s)]
  <2> TAKE i \in 0..Len(s)
  <2>1. Len(s) \in i..Len(s)
    BY <1>3
  <2> QED BY <1>3, <2>1, SumsMonotone
<1> HIDE DEF up
<1>7. up[n] \in Nat /\ up[n] <= up[Len(s)]
  BY <1>3, <1>4, <1>6
<1>8. ASSUME n # Len(s)
      PROVE  /\ up[n + 1] = up[n] + s[n + 1] /\ up[n + 1] <= up[Len(s)]
             /\ s[n + 1] \in Nat
  <2>1. n + 1 \in 1..Len(s) /\ n + 1 \in 0..Len(s) /\ (n + 1) - 1 = n
    BY <1>3, <1>8
  <2>2. up[n + 1] = up[(n + 1) - 1] + s[n + 1]
    BY <1>5, <2>1
  <2>3. up[n + 1] <= up[Len(s)]
    BY <1>6, <2>1
  <2>4. s[n + 1] \in Nat
    BY <1>3, <2>1
  <2> QED BY <2>1, <2>2, <2>3, <2>4
<1> QED BY <1>1, <1>2, <1>3, <1>5, <1>7, <1>8 DEF up, s

\* The message a strip comes in.
LEMMA StripMsgFacts ==
  ASSUME NEW i \in Nat, page \in Nat, Lines[i] \in Nat
  PROVE  /\ StripMsg(i) \in Messages /\ StripMsg(i).tag = "strip"
         /\ StripMsg(i).len = Lines[i] /\ StripMsg(i).what = <<page, i>>
BY DEF StripMsg, Message, Messages, Tags

\* What a client that reads a strip, announced or not, has in hand.
LEMMA StripInHand ==
  ASSUME SessionInv, step \in {"chunk", "strip"}
  PROVE  /\ page \in 1..Len(job) /\ ChunksInv /\ Len(chunks) \in Nat
         /\ job \in Seq(Pages) /\ page \in Nat
         /\ Len(Lines) \in Nat /\ Len(chunks) < Len(Lines)
         /\ Len(chunks) + 1 \in 0..Len(Lines)
         /\ Lines[Len(chunks) + 1] \in Nat \ {0}
         /\ pageBytes \in 0..maxPageBytes /\ chunks \in Seq(Nat \X Nat)
         /\ UpTo(Lines)[Len(chunks) + 1] = pageBytes + Lines[Len(chunks) + 1]
         /\ StripMsg(Len(chunks) + 1) \in Messages
         /\ StripMsg(Len(chunks) + 1).tag = "strip"
         /\ StripMsg(Len(chunks) + 1).len = Lines[Len(chunks) + 1]
         /\ StripMsg(Len(chunks) + 1).what = <<page, Len(chunks) + 1>>
<1>1. /\ page \in 1..Len(job) /\ ChunksInv /\ Len(chunks) \in Nat
      /\ job \in Seq(Pages) /\ Len(Lines) \in Nat
      /\ \A i \in 1..Len(Lines) : Lines[i] \in Nat \ {0}
  BY PageInHand DEF PageSteps
<1>2. Len(chunks) < Len(Lines) /\ pageBytes = UpTo(Lines)[Len(chunks)]
  BY <1>1 DEF ChunksInv
<1>3. Len(chunks) + 1 \in 1..Len(Lines) /\ Len(chunks) \in 0..Len(Lines)
      /\ Len(chunks) # Len(Lines)
  BY <1>1, <1>2
<1>4. UpTo(Lines)[Len(chunks) + 1] = pageBytes + Lines[Len(chunks) + 1]
  BY <1>1, <1>2, <1>3, FirstStripsFacts
<1>5. page \in Nat
  BY <1>1
<1>6. /\ StripMsg(Len(chunks) + 1) \in Messages
      /\ StripMsg(Len(chunks) + 1).tag = "strip"
      /\ StripMsg(Len(chunks) + 1).len = Lines[Len(chunks) + 1]
      /\ StripMsg(Len(chunks) + 1).what = <<page, Len(chunks) + 1>>
  BY <1>1, <1>3, <1>5, StripMsgFacts
<1>7. pageBytes \in 0..maxPageBytes /\ chunks \in Seq(Nat \X Nat)
  BY DEF SessionInv, TypeInv, TypeOK
<1> QED BY <1>1, <1>2, <1>3, <1>4, <1>5, <1>6, <1>7, SMTT(20)

\* POLL.
LEMMA AnswerPollInv ==
  ASSUME SessionInv, AnswerPoll PROVE SessionInv'
<1>1. Asked("POLL") /\ UNCHANGED <<clientVars, faults>>
  BY DEF AnswerPoll
<1>2. /\ InStepInv /\ ~off /\ step # "closed"
      /\ inbox = <<>> /\ outbox = <<"POLL">>
  BY <1>1, AskedInStep
<1>3. step = "status" /\ StatusOK
  <2>1. ASSUME step = "setup" PROVE FALSE
    <3>1. k \in 1..13 /\ Setup[k] = "POLL"
      BY <1>2, <2>1, SetupFacts DEF InStepInv, SetupOK, SessionInv, TypeInv, TypeOK
    <3>2. k = 13 \/ k \in 1..12
      BY <3>1
    <3> QED BY <3>1, <3>2, SetupFacts
  <2> QED BY <1>2, <2>1 DEF SessionInv, TypeInv, TypeOK, Steps, InStepInv, DialOK,
          ChunkOK, StripOK, PaddingOK, DrainOK, NextOK, RearmOK, EndOK
<1>4. sent = Len(chunks)
  BY <1>3 DEF StatusOK
<1>5. step \in PageSteps
  BY <1>3 DEF PageSteps
<1>6. /\ armed /\ page \in 1..(Len(job) + 1)
      /\ Len(chunks) \in Nat /\ Len(job) \in Nat
      /\ page <= Len(job) =>
              /\ page \in 1..Len(job) /\ ChunksInv
              /\ Len(Lines) # 0 /\ Len(Lines) \in Nat
              /\ \A i \in 1..Len(Lines) : Lines[i] \in Nat \ {0}
              /\ job[page].streaming \in BOOLEAN
  BY <1>5, PageInHand
<1>7. ASSUME NEW m \in Messages, Say(<<m>>) PROVE inbox' = <<m>> /\ outbox' = <<>>
  <2>1. <<m>> \in Seq(Messages)
    OBVIOUS
  <2> QED BY <1>1, <1>7, <2>1, SaidInStep
<1>8. ASSUME NEW m \in Messages, inbox' = <<m>>, outbox' = <<>>,
             UNCHANGED <<job, page, armed, sent, cancelled, off>>,
             busy' \in 0..MaxBusy,
             \/ UNCHANGED deadline
             \/ deadline' = [deadline EXCEPT !.used = @ + 1]
                /\ deadline.used < Patience,
             \/ m = Message("busy", 32)
             \/ Offer(m)
             \/ m \in {Message("end", 32), Message("signal", 255)} /\ Complete
      PROVE  SessionInv'
  <2>1. /\ deadline \in [kind : {"long", "short"}, used : 0..Patience]
    BY DEF SessionInv, TypeInv, TypeOK
  <2>2. deadline' \in [kind : {"long", "short"}, used : 0..Patience]
        /\ deadline'.kind = deadline.kind
    BY <1>8, <2>1, LimitsAssumption
  <2>3. TypeInv'
    <3>1. <<m>> \in Seq(Messages)
      OBVIOUS
    <3> QED BY <1>1, <1>8, <2>2, <3>1, PrinterType DEF SessionInv, TypeInv, TypeOK
  <2>4. PageInv' /\ TakenInv' /\ ResultInv' /\ DeadlineInv'
    BY <1>1, <1>2, <1>3, <1>8, <2>2, PrinterFrame
  <2>5. UNCHANGED <<chunks, job, page, sent, cancelled, step>>
    BY <1>1, <1>8 DEF clientVars, pageVars
  <2>6. Complete' = Complete /\ \A x : Offer(x)' = Offer(x)
    BY <2>5 DEF Complete, Offer, Lines
  <2>7. StatusOK'
    <3>1. inbox'[1] = m /\ Len(inbox') = 1
      BY <1>8
    <3>2. \/ inbox'[1] = Message("busy", 32)
          \/ Offer(inbox[1])'
          \/ inbox'[1] \in {Message("end", 32), Message("signal", 255)} /\ Complete'
      BY <1>8, <2>6, <3>1
    <3> QED BY <1>4, <1>8, <2>5, <3>1, <3>2 DEF StatusOK
  <2>8. WireInv'
    BY <1>3, <1>8, <2>5, <2>7 DEF WireInv, InStepInv
  <2> QED BY <2>3, <2>4, <2>8 DEF SessionInv
<1>9. /\ Message("busy", 32) \in Messages /\ Message("end", 32) \in Messages
      /\ Message("signal", 255) \in Messages /\ Message("ready", 32) \in Messages
      /\ busy \in 0..MaxBusy /\ MaxBusy \in Nat
  <2>1. /\ Message("busy", 32) \in Messages /\ Message("end", 32) \in Messages
        /\ Message("signal", 255) \in Messages
        /\ Message("ready", 32) \in Messages
    BY Said DEF Tags
  <2>2. busy \in 0..MaxBusy /\ MaxBusy \in Nat
    BY LimitsAssumption DEF SessionInv, TypeInv, TypeOK
  <2> QED BY <2>1, <2>2
<1>10. CASE Scanning /\ Busy("busy", 32)
  <2>1. /\ Say(<<Message("busy", 32)>>) /\ busy' \in 0..MaxBusy
        /\ deadline' = [deadline EXCEPT !.used = @ + 1] /\ deadline.used < Patience
        /\ UNCHANGED <<job, page, armed, sent, cancelled, off>>
    BY <1>9, <1>10 DEF Busy
  <2> QED BY <1>7, <1>8, <1>9, <2>1
<1>11. CASE /\ Remaining \/ ~armed
            /\ \E m \in Offers : Reply(<<m>>)
            /\ busy' = 0 /\ UNCHANGED <<job, page, armed, sent, cancelled, off>>
  <2>1. PICK m \in Offers : Say(<<m>>) /\ UNCHANGED deadline
    BY <1>11 DEF Reply
  <2>2. page \in 1..Len(job) /\ sent < Len(Lines)
    BY <1>6, <1>11 DEF Remaining, Scanning, OnPage, Lines
  <2>3. /\ Lines[sent + 1] \in Nat /\ Len(Lines) \in Nat
        /\ job[page].streaming \in BOOLEAN
    BY <1>4, <1>6, <2>2
  <2> DEFINE offer == [Message("ready", 32) EXCEPT !.last = (sent + 1 = Len(Lines))]
  <2>4. \/ job[page].streaming /\ m \in {offer, Message("ready", 32)}
        \/ ~job[page].streaming /\ m = [offer EXCEPT !.size = Lines[sent + 1]]
    BY <1>6, <2>3 DEF Offers, Lines
  <2>5. /\ m.tag = "ready" /\ m.len = 32 /\ m.last \in BOOLEAN
        /\ m.size = IF job[page].streaming THEN 0 ELSE Lines[sent + 1]
        /\ m.last => sent + 1 = Len(Lines)
        /\ m \in Messages
    <3> DEFINE last == (sent + 1 = Len(Lines))
    <3>1. /\ offer = [tag |-> "ready", len |-> 32, size |-> 0, last |-> last,
                      what |-> <<0, 0>>]
          /\ Message("ready", 32) = [tag |-> "ready", len |-> 32, size |-> 0,
                                     last |-> FALSE, what |-> <<0, 0>>]
      BY DEF Message
    <3>2. last \in BOOLEAN /\ <<0, 0>> \in Nat \X Nat /\ "ready" \in Tags
      BY DEF Tags
    <3> DEFINE made(size, l) == [tag |-> "ready", len |-> 32, size |-> size,
                                 last |-> l, what |-> <<0, 0>>]
    <3>3. \A size \in Nat, l \in BOOLEAN :
            /\ made(size, l).tag = "ready" /\ made(size, l).len = 32
            /\ made(size, l).size = size /\ made(size, l).last = l
            /\ made(size, l) \in Messages
      BY <3>2 DEF Messages
    <3>4. \A size : [made(0, last) EXCEPT !.size = size] = made(size, last)
      OBVIOUS
    <3>5. offer = made(0, last) /\ Message("ready", 32) = made(0, FALSE)
      BY <3>1
    <3>6. last => sent + 1 = Len(Lines)
      OBVIOUS
    <3> HIDE DEF made, last, offer
    <3>7. CASE job[page].streaming
      <4>1. m = made(0, last) \/ m = made(0, FALSE)
        BY <2>4, <3>5, <3>7
      <4>2. CASE m = made(0, last)
        BY <3>2, <3>3, <3>6, <3>7, <4>2
      <4>3. CASE m = made(0, FALSE)
        BY <3>3, <3>7, <4>3
      <4> QED BY <4>1, <4>2, <4>3
    <3>8. CASE ~job[page].streaming
      <4>1. m = made(Lines[sent + 1], last)
        BY <2>4, <3>4, <3>5, <3>8
      <4> QED BY <2>3, <3>2, <3>3, <3>6, <3>8, <4>1
    <3> QED BY <3>7, <3>8
  <2>6. Offer(m)
    BY <1>4, <2>2, <2>5 DEF Offer
  <2>7. busy' \in 0..MaxBusy
    BY <1>9, <1>11
  <2>8. inbox' = <<m>> /\ outbox' = <<>>
    BY <1>7, <2>1, <2>5
  <2> QED BY <1>8, <1>11, <2>1, <2>5, <2>6, <2>7, <2>8
<1>12. CASE /\ Scanning /\ ~Remaining /\ job[page].streaming
            /\ Reply(<<>>) /\ UNCHANGED printerVars
  <2>1. inbox' = <<>> /\ outbox' = <<>> /\ UNCHANGED deadline
    <3>1. <<>> \in Seq(Messages)
      OBVIOUS
    <3> QED BY <1>1, <1>12, <3>1, SaidInStep DEF Reply
  <2>2. page \in 1..Len(job) /\ Len(chunks) = Len(Lines)
    BY <1>4, <1>6, <1>12 DEF Remaining, Scanning, OnPage, Lines, ChunksInv
  <2>3. TypeInv'
    BY <1>1, <1>12, <2>1, PrinterType DEF SessionInv, TypeInv, TypeOK, printerVars
  <2>4. PageInv' /\ TakenInv' /\ ResultInv' /\ DeadlineInv'
    BY <1>1, <1>2, <1>12, <2>1, PrinterFrame DEF printerVars
  <2>5. UNCHANGED <<chunks, job, page, sent, step>>
    BY <1>1, <1>12 DEF clientVars, pageVars, printerVars
  <2>6. StatusOK'
    BY <1>4, <1>12, <2>1, <2>2, <2>5 DEF StatusOK, Lines
  <2>7. WireInv'
    BY <1>3, <2>1, <2>5, <2>6 DEF WireInv, InStepInv
  <2> QED BY <2>3, <2>4, <2>7 DEF SessionInv
<1>13. CASE /\ armed /\ ~Remaining
            /\ \/ Reply(<<Message("end", 32)>>)
               \/ Reply(<<Message("signal", 255)>>)
            /\ UNCHANGED printerVars
  <2>1. PICK m \in {Message("end", 32), Message("signal", 255)} :
          Say(<<m>>) /\ UNCHANGED deadline
    BY <1>13 DEF Reply
  <2>2. Complete
    <3>1. CASE cancelled \/ page > Len(job)
      BY <3>1 DEF Complete
    <3>2. CASE ~cancelled /\ page <= Len(job)
      <4>1. page \in 1..Len(job)
        BY <1>6, <3>2
      <4> QED BY <1>4, <1>6, <1>13, <3>2, <4>1
          DEF Remaining, Scanning, OnPage, Lines, ChunksInv, Complete
    <3>3. page <= Len(job) \/ page > Len(job)
      BY <1>6
    <3> QED BY <3>1, <3>2, <3>3
  <2>3. UNCHANGED <<job, page, armed, sent, cancelled, off, busy>>
    BY <1>13 DEF printerVars
  <2> QED BY <1>7, <1>8, <1>9, <2>1, <2>2, <2>3
<1> QED BY <1>10, <1>11, <1>12, <1>13 DEF AnswerPoll

\* FETCH.
LEMMA AnswerFetchInv ==
  ASSUME SessionInv, AnswerFetch PROVE SessionInv'
<1>1. /\ Asked("FETCH")
      /\ Reply(IF OnPage /\ ~job[page].streaming THEN <<NextStrip>>
               ELSE <<NextStrip, Message("pad", 16)>>)
      /\ sent' = IF armed THEN sent + 1 ELSE sent
      /\ UNCHANGED <<job, page, armed, busy, cancelled, off, clientVars, faults>>
  BY DEF AnswerFetch
<1>2. /\ InStepInv /\ ~off /\ step # "closed"
      /\ inbox = <<>> /\ outbox = <<"FETCH">>
  BY <1>1, AskedInStep
<1>3. step \in {"chunk", "strip"}
  <2>1. ASSUME step = "setup" PROVE FALSE
    <3>1. k \in 1..13 /\ Setup[k] = "FETCH"
      BY <1>2, <2>1, SetupFacts DEF InStepInv, SetupOK, SessionInv, TypeInv, TypeOK
    <3>2. k = 13 \/ k \in 1..12
      BY <3>1
    <3> QED BY <3>1, <3>2, SetupFacts
  <2> QED BY <1>2, <2>1 DEF SessionInv, TypeInv, TypeOK, Steps, InStepInv, DialOK,
          StatusOK, PaddingOK, DrainOK, NextOK, RearmOK, EndOK
<1>4. /\ armed /\ page \in 1..Len(job) /\ ChunksInv /\ Len(chunks) \in Nat
      /\ Len(Lines) \in Nat /\ \A i \in 1..Len(Lines) : Lines[i] \in Nat \ {0}
  BY <1>3, PageInHand DEF PageSteps
<1>5. sent = Len(chunks) /\ Len(chunks) < Len(Lines)
  BY <1>2, <1>3, <1>4 DEF InStepInv, ChunkOK, StripOK, ChunksInv
<1> DEFINE m == StripMsg(Len(chunks) + 1)
           pad == Message("pad", 16)
<1>6. OnPage /\ NextStrip = m
  BY <1>4, <1>5 DEF OnPage, NextStrip, Lines, StripMsg
<1>7. m \in Messages /\ pad \in Messages
  <2>1. /\ Len(chunks) + 1 \in Nat /\ page \in Nat
        /\ Lines[Len(chunks) + 1] \in Nat
    BY <1>4, <1>5
  <2>2. \A len \in Nat, i \in Nat :
          [Message("strip", len) EXCEPT !.what = <<page, i>>] \in Messages
    BY <2>1 DEF Message, Messages, Tags
  <2> QED BY <2>1, <2>2, Said DEF StripMsg, Tags
<1>8. /\ outbox' = <<>> /\ UNCHANGED deadline
      /\ job[page].streaming => inbox' = <<m, pad>>
      /\ ~job[page].streaming => inbox' = <<m>>
      /\ inbox' \in Seq(Messages)
  <2>1. <<m>> \in Seq(Messages) /\ <<m, pad>> \in Seq(Messages)
    BY <1>7
  <2>2. CASE job[page].streaming
    <3>1. Say(<<m, pad>>) /\ UNCHANGED deadline
      BY <1>1, <1>6, <2>2 DEF Reply
    <3> QED BY <1>1, <2>1, <2>2, <3>1, SaidInStep
  <2>3. CASE ~job[page].streaming
    <3>1. Say(<<m>>) /\ UNCHANGED deadline
      BY <1>1, <1>6, <2>3 DEF Reply
    <3> QED BY <1>1, <2>1, <2>3, <3>1, SaidInStep
  <2> QED BY <2>2, <2>3
<1>9. sent' = Len(chunks) + 1 /\ sent' \in Nat
  BY <1>1, <1>4, <1>5
<1>10. TypeInv'
  BY <1>1, <1>8, <1>9, PrinterType DEF SessionInv, TypeInv, TypeOK
<1>11. PageInv' /\ TakenInv' /\ ResultInv' /\ DeadlineInv'
  BY <1>1, <1>2, <1>8, PrinterFrame
<1>12. UNCHANGED <<chunks, job, page, step>>
  BY <1>1 DEF clientVars, pageVars
<1>13. StripMsg(Len(chunks) + 1)' = m
  BY <1>12 DEF StripMsg, Lines
<1> HIDE DEF m
<1>14. CASE step = "chunk"
  <2>1. ~job[page].streaming
    BY <1>2, <1>14 DEF InStepInv, ChunkOK
  <2>2. ChunkOK'
    BY <1>8, <1>9, <1>12, <1>13, <2>1 DEF ChunkOK
  <2>3. WireInv'
    BY <1>8, <1>12, <1>14, <2>2 DEF WireInv, InStepInv
  <2> QED BY <1>10, <1>11, <2>3 DEF SessionInv
<1>15. CASE step = "strip"
  <2>1. job[page].streaming
    BY <1>4, <1>15 DEF ChunksInv
  <2>2. Len(inbox') = 2 /\ inbox'[1] = m /\ inbox'[2] = pad
    BY <1>8, <2>1
  <2>3. StripOK'
    BY <1>8, <1>9, <1>12, <1>13, <2>2 DEF StripOK
  <2>4. WireInv'
    BY <1>8, <1>12, <1>15, <2>3 DEF WireInv, InStepInv
  <2> QED BY <1>10, <1>11, <2>4 DEF SessionInv
<1> QED BY <1>3, <1>14, <1>15

-----------------------------------------------------------------------------
(***************************************************************************)
(* So does what happens to the printer and to the connection.              *)
(***************************************************************************)
\* Stop on the printer.
LEMMA CancelInv ==
  ASSUME SessionInv, Cancel PROVE SessionInv'
<1>1. /\ cancelled' = TRUE /\ step # "closed"
      /\ faults < MaxFaults /\ faults' = faults + 1
      /\ UNCHANGED <<clientVars, outbox, inbox, deadline, job, page, armed, sent,
                     busy, off>>
  BY DEF Cancel, Fault
<1>2. faults \in 0..MaxFaults /\ faults' \in 0..MaxFaults
  BY <1>1, LimitsAssumption DEF SessionInv, TypeInv, TypeOK
<1>3. TypeInv'
  <2>1. TypeOK'
    BY <1>1, <1>2 DEF SessionInv, TypeInv, TypeOK, clientVars, pageVars, scanVars
  <2> QED BY <1>1, <2>1 DEF SessionInv, TypeInv, clientVars, pageVars, scanVars
<1> USE DEF clientVars, pageVars, scanVars
<1>4. AllWhole' = AllWhole /\ Lines' = Lines /\ WithinLimits' = WithinLimits
      /\ Complete' /\ Done' /\ (ChunksInv' <=> ChunksInv)
  BY <1>1, LimitsFrame DEF AllWhole, Lines, Complete, Done, ChunksInv
<1>5. PageInv' /\ TakenInv' /\ DeadlineInv'
  BY <1>1, <1>4 DEF SessionInv, PageInv, PageSteps, AfterSteps, NothingInHand,
     TakenInv, DeadlineInv
<1>6. ResultInv'
  BY <1>1, <1>2, <1>4 DEF SessionInv, ResultInv
<1>7. WireInv'
  <2>1. Lost' = Lost
    BY <1>1, <1>4 DEF Lost, Starved, CutSignal, CutStrip
  <2>2. \A i : StripMsg(i)' = StripMsg(i)
    BY <1>1, <1>4 DEF StripMsg
  <2>3. \A m : Offer(m)' = Offer(m)
    BY <1>1, <1>4 DEF Offer
  <2>4. SetupOK => SetupOK'
    BY <1>1 DEF SetupOK
  <2>5. StatusOK => StatusOK'
    BY <1>1, <1>4, <2>3 DEF StatusOK
  <2>6. (ChunkOK => ChunkOK') /\ (StripOK => StripOK')
    BY <1>1, <2>2 DEF ChunkOK, StripOK
  <2>7. /\ DialOK => DialOK'
        /\ PaddingOK => PaddingOK'
        /\ DrainOK => DrainOK'
        /\ NextOK => NextOK'
        /\ RearmOK => RearmOK'
        /\ EndOK("END") => EndOK("END")'
        /\ EndOK("DISC") => EndOK("DISC")'
    BY <1>1, <1>4 DEF DialOK, PaddingOK, DrainOK, NextOK, RearmOK, EndOK
  <2>8. InStepInv => InStepInv'
    <3> SUFFICES ASSUME InStepInv PROVE InStepInv'
      OBVIOUS
    <3>1. step' = step
      BY <1>1
    <3> QED BY <3>1, <2>4, <2>5, <2>6, <2>7 DEF InStepInv
  <2> QED BY <1>1, <2>1, <2>8 DEF SessionInv, WireInv
<1> QED BY <1>3, <1>5, <1>6, <1>7 DEF SessionInv

\* Half of an answer is less than the answer.
LEMMA HalfAnswer ==
  ASSUME NEW m \in Messages
  PROVE  LET cut == Message("cut", m.len \div 2) IN
         /\ cut \in Messages /\ cut.tag = "cut" /\ Bytes(<<cut>>) = m.len \div 2
         /\ m.len \div 2 \in Nat /\ (m.len # 0 => m.len \div 2 < m.len)
         /\ m.len = 16 => cut = Message("cut", 8)
<1> DEFINE cut == Message("cut", m.len \div 2)
<1>1. m.len \in Nat
  BY DEF Messages
<1>2. m.len \div 2 \in Nat /\ (m.len # 0 => m.len \div 2 < m.len)
  BY <1>1
<1>3. cut \in Messages /\ cut.tag = "cut" /\ cut.len = m.len \div 2
  BY <1>2, Said DEF Tags
<1>4. Bytes(<<cut>>) = cut.len
  BY <1>3, BytesOfOne
<1>5. m.len = 16 => cut = Message("cut", 8)
  <2>1. 16 \div 2 = 8
    OBVIOUS
  <2> QED BY <2>1
<1> QED BY <1>2, <1>3, <1>4, <1>5

\* The printer loses its power.
LEMMA PowerLostInv ==
  ASSUME SessionInv, PowerLost PROVE SessionInv'
<1>1. /\ step \notin {"dial", "closed"} /\ ~off /\ off' = TRUE
      /\ faults < MaxFaults /\ faults' = faults + 1
      /\ UNCHANGED <<clientVars, outbox, deadline, job, page, armed, sent, busy,
                     cancelled>>
      /\ \/ UNCHANGED inbox
         \/ \E i \in 1..Len(inbox) :
              inbox' = Append(SubSeq(inbox, 1, i - 1),
                              Message("cut", inbox[i].len \div 2))
  BY DEF PowerLost, Fault
<1>2. faults \in 0..MaxFaults /\ faults' \in 0..MaxFaults /\ faults' > 0
  BY <1>1, LimitsAssumption DEF SessionInv, TypeInv, TypeOK
<1>3. InStepInv
  BY <1>1 DEF SessionInv, WireInv, Lost
<1>4. inbox \in Seq(Messages)
  BY DEF SessionInv, TypeInv
<1>5. ASSUME NEW i \in 1..Len(inbox)
      PROVE  /\ inbox[i] \in Messages
             /\ Message("cut", inbox[i].len \div 2) \in Messages
             /\ SubSeq(inbox, 1, i - 1) \in Seq(Messages)
             /\ Append(SubSeq(inbox, 1, i - 1),
                       Message("cut", inbox[i].len \div 2)) \in Seq(Messages)
  <2>1. inbox[i] \in Messages
    BY <1>4
  <2>2. Message("cut", inbox[i].len \div 2) \in Messages
    BY <2>1, HalfAnswer
  <2>3. SubSeq(inbox, 1, i - 1) \in Seq(Messages)
    BY <1>4
  <2> QED BY <2>1, <2>2, <2>3
<1>6. inbox' \in Seq(Messages)
  BY <1>1, <1>4, <1>5
<1> USE DEF clientVars, pageVars, scanVars
<1>7. TypeInv'
  <2>1. TypeOK'
    BY <1>1, <1>2 DEF SessionInv, TypeInv, TypeOK
  <2> QED BY <1>1, <1>6, <2>1 DEF SessionInv, TypeInv
<1>8. AllWhole' = AllWhole /\ Lines' = Lines /\ WithinLimits' = WithinLimits
      /\ Complete' = Complete /\ Done' = Done /\ (ChunksInv' <=> ChunksInv)
  BY <1>1, LimitsFrame DEF AllWhole, Lines, Complete, Done, ChunksInv
<1>9. PageInv' /\ TakenInv' /\ DeadlineInv'
  BY <1>1, <1>8 DEF SessionInv, PageInv, PageSteps, AfterSteps, NothingInHand,
     TakenInv, DeadlineInv
<1>10. ResultInv'
  BY <1>1, <1>2, <1>8 DEF SessionInv, ResultInv
<1>11. CASE UNCHANGED inbox
  <2>1. \A i : StripMsg(i)' = StripMsg(i)
    BY <1>1, <1>8 DEF StripMsg
  <2>2. \A m : Offer(m)' = Offer(m)
    BY <1>1, <1>8 DEF Offer
  <2>3. SetupOK => SetupOK'
    BY <1>1, <1>11 DEF SetupOK
  <2>4. StatusOK => StatusOK'
    BY <1>1, <1>8, <1>11, <2>2 DEF StatusOK
  <2>5. (ChunkOK => ChunkOK') /\ (StripOK => StripOK')
    BY <1>1, <1>11, <2>1 DEF ChunkOK, StripOK
  <2>6. /\ PaddingOK => PaddingOK'
        /\ DrainOK => DrainOK'
        /\ NextOK => NextOK'
        /\ RearmOK => RearmOK'
        /\ EndOK("END") => EndOK("END")'
        /\ EndOK("DISC") => EndOK("DISC")'
    BY <1>1, <1>8, <1>11 DEF PaddingOK, DrainOK, NextOK, RearmOK, EndOK
  <2>7. InStepInv'
    <3>1. step' = step
      BY <1>1
    <3> QED BY <1>1, <1>3, <3>1, <2>3, <2>4, <2>5, <2>6 DEF InStepInv
  <2>8. WireInv'
    BY <1>1, <1>11, <2>7 DEF SessionInv, WireInv
  <2> QED BY <1>7, <1>9, <1>10, <2>8 DEF SessionInv
<1>12. ASSUME NEW i \in 1..Len(inbox),
              inbox' = Append(SubSeq(inbox, 1, i - 1),
                              Message("cut", inbox[i].len \div 2))
       PROVE  WireInv'
  <2>1. outbox = <<>> /\ outbox' = <<>> /\ step' = step
    BY <1>1, <1>4, <1>12 DEF SessionInv, WireInv
  <2> DEFINE m == inbox[i]
             cut == Message("cut", m.len \div 2)
  <2>2. /\ m \in Messages /\ cut.tag = "cut" /\ Bytes(<<cut>>) = m.len \div 2
        /\ m.len \div 2 \in Nat /\ (m.len # 0 => m.len \div 2 < m.len)
        /\ m.len = 16 => cut = Message("cut", 8)
    BY <1>5, HalfAnswer
  <2>3. inbox' = Append(SubSeq(inbox, 1, i - 1), cut)
    BY <1>12
  <2> HIDE DEF cut
  <2>4. CASE i = 1
    <3>1. inbox' = <<cut>>
      <4>1. SubSeq(inbox, 1, 0) = <<>>
        BY <1>4
      <4>2. 1 - 1 = 0
        OBVIOUS
      <4>3. Append(<<>>, cut) = <<cut>>
        OBVIOUS
      <4> QED BY <2>3, <2>4, <4>1, <4>2, <4>3
    <3>2. m = inbox[1]
      BY <2>4
    <3> DEFINE half == m.len \div 2
    <3>3. Bytes(inbox') = half /\ half \in Nat /\ (m.len # 0 => half < m.len)
      BY <2>2, <3>1
    <3> HIDE DEF half
    <3>4. Starved' \/ CutSignal'
      <4>1. step \in Steps
        BY DEF SessionInv, TypeInv, TypeOK
      <4>2. CASE step = "setup"
        <5>1. m.len = AnswerLen(Setup[k]) /\ k \in 1..13
          BY <1>3, <1>12, <2>1, <3>2, <4>2, SetupFacts
          DEF InStepInv, SetupOK, SessionInv, TypeInv, TypeOK
        <5>2. AnswerLen(Setup[k]) \in Nat \ {0} /\ k' = k
          BY <1>1, <5>1, AnswerFacts
        <5>3. Bytes(inbox') < AnswerLen(Setup[k])
          BY <3>3, <5>1, <5>2
        <5> QED BY <2>1, <4>2, <5>2, <5>3 DEF Starved
      <4>3. CASE step = "status"
        <5>1. \/ m = Message("busy", 32) \/ Offer(m)
              \/ m \in {Message("end", 32), Message("signal", 255)}
          BY <1>3, <1>12, <2>1, <3>2, <4>3 DEF InStepInv, StatusOK
        <5>2. \/ m.len = 32
              \/ m = Message("signal", 255) /\ m.len = 255
          BY <5>1, Said DEF Offer, Tags
        <5>3. CASE m.len = 32
          BY <2>1, <3>3, <4>3, <5>3 DEF Starved
        <5>4. CASE m.len = 255
          <6>1. cut = Message("cut", 127)
            <7>1. 255 \div 2 = 127
              OBVIOUS
            <7> QED BY <5>4, <7>1 DEF cut
          <6> QED BY <2>1, <3>1, <4>3, <6>1 DEF CutSignal
        <5> QED BY <5>2, <5>3, <5>4
      <4>4. CASE step = "chunk"
        <5>1. m = StripMsg(Len(chunks) + 1) /\ chunk.size = Lines[Len(chunks) + 1]
              /\ chunk.size \in Nat \ {0}
          <6>1. ChunkOK
            BY <1>3, <4>4 DEF InStepInv
          <6>2. m = StripMsg(Len(chunks) + 1)
            BY <1>12, <2>1, <3>2, <6>1 DEF ChunkOK
          <6>3. ChunksInv /\ \A j \in 1..Len(Lines) : Lines[j] \in Nat \ {0}
            BY <4>4, <6>1, PageInHand DEF PageSteps, ChunkOK
          <6>4. chunk.size = Lines[Len(chunks) + 1] /\ Len(chunks) < Len(Lines)
                /\ Len(chunks) \in Nat /\ Len(Lines) \in Nat
            BY <4>4, <6>3, PageInHand DEF ChunksInv, PageSteps
          <6>5. Len(chunks) + 1 \in 1..Len(Lines)
            BY <6>4
          <6> QED BY <6>2, <6>3, <6>4, <6>5
        <5>2. m.len = chunk.size
          BY <5>1 DEF StripMsg, Message
        <5> QED BY <1>1, <2>1, <3>3, <4>4, <5>1, <5>2 DEF Starved
      <4>5. CASE step = "strip"
        <5>1. ~HasMessage(inbox', "strip")
          BY <2>2, <3>1 DEF HasMessage
        <5> QED BY <2>1, <4>5, <5>1 DEF Starved
      <4>6. CASE step = "padding"
        <5>1. m = Message("pad", 16)
          BY <1>3, <3>2, <4>6 DEF InStepInv, PaddingOK
        <5>2. m.len = 16
          BY <5>1, Said DEF Tags
        <5> QED BY <2>1, <3>3, <4>6, <5>2 DEF Starved
      <4>7. CASE step = "drain"
        <5>1. m = Message("tail", 223)
          BY <1>3, <3>2, <4>7 DEF InStepInv, DrainOK
        <5>2. m.len = 223
          BY <5>1, Said DEF Tags
        <5> QED BY <2>1, <3>3, <4>7, <5>2 DEF Starved
      <4>8. CASE step = "next"
        <5>1. \E tag \in {"wait", "next", "none"} : m = Message(tag, 255)
          BY <1>3, <1>12, <2>1, <3>2, <4>8 DEF InStepInv, NextOK
        <5>2. m.len = 255
          BY <5>1, Said DEF Tags
        <5> QED BY <2>1, <3>3, <4>8, <5>2 DEF Starved
      <4>9. CASE step \in {"rearm", "endack", "discack"}
        <5>1. \E tag \in {"ready", "ack"} : m = Message(tag, 32)
          BY <1>3, <1>12, <2>1, <3>2, <4>9 DEF InStepInv, RearmOK, EndOK
        <5>2. m.len = 32
          BY <5>1, Said DEF Tags
        <5> QED BY <2>1, <3>3, <4>9, <5>2 DEF Starved
      <4> QED BY <1>1, <4>1, <4>2, <4>3, <4>4, <4>5, <4>6, <4>7, <4>8, <4>9
          DEF Steps
    <3>5. CutStrip'
      <4>1. CASE step = "strip"
        <5>1. StripOK
          BY <1>3, <4>1 DEF InStepInv
        <5>2. m = StripMsg(Len(chunks) + 1)
          BY <1>12, <2>1, <3>2, <5>1 DEF StripOK
        <5>3. m.len = Lines[Len(chunks) + 1] /\ m.len # 0 /\ m.len \in Nat
          BY <4>1, <5>2, StripInHand
        <5> QED BY <1>1, <1>8, <3>3, <5>3 DEF CutStrip
      <4> QED BY <2>1, <4>1 DEF CutStrip
    <3> QED BY <1>1, <2>1, <3>4, <3>5 DEF WireInv, Lost
  <2>5. CASE i # 1
    <3>1. step = "strip" /\ Len(inbox) = 2 /\ i = 2
      <4>1. Len(inbox) \in Nat /\ i \in 1..Len(inbox)
        BY <1>4, <1>12
      <4>2. step = "strip"
        <5>1. step \in Steps /\ Len(inbox) # 0 /\ Len(inbox) # 1
          <6>1. step \in Steps
            BY DEF SessionInv, TypeInv, TypeOK
          <6>2. \A n \in Nat : \A x \in 1..n : x # 1 => n # 0 /\ n # 1
            OBVIOUS
          <6>3. Len(inbox) # 0 /\ Len(inbox) # 1
            BY <2>5, <4>1, <6>2, Zenon
          <6> QED BY <6>1, <6>3
        <5>2. inbox # <<>> /\ \A x : inbox # <<x>>
          BY <5>1
        <5>3. step \notin {"dial", "setup", "status", "chunk"}
          BY <1>3, <5>1, <5>2 DEF InStepInv, DialOK, SetupOK, StatusOK, ChunkOK
        <5>4. step \notin {"padding", "drain", "next"}
          BY <1>3, <5>1, <5>2 DEF InStepInv, PaddingOK, DrainOK, NextOK
        <5>5. step \notin {"rearm", "endack", "discack"}
          BY <1>3, <5>1, <5>2 DEF InStepInv, RearmOK, EndOK
        <5> QED BY <1>1, <5>1, <5>3, <5>4, <5>5 DEF Steps
      <4>3. Len(inbox) = 2
        BY <1>3, <2>1, <4>2 DEF InStepInv, StripOK
      <4> QED BY <2>5, <4>2, <4>3
    <3>2. /\ sent = Len(chunks) + 1 /\ inbox[1] = StripMsg(Len(chunks) + 1)
          /\ m = Message("pad", 16)
      BY <1>1, <1>3, <2>1, <3>1 DEF InStepInv, StripOK
    <3>3. cut = Message("cut", 8)
      BY <2>2, <3>2, Said DEF Tags
    <3>4. /\ Len(inbox') = 2 /\ inbox'[1] = inbox[1] /\ inbox'[2] = cut
      <4>1. /\ SubSeq(inbox, 1, 1) \in Seq(Messages)
            /\ Len(SubSeq(inbox, 1, 1)) = 1 /\ SubSeq(inbox, 1, 1)[1] = inbox[1]
        BY <1>4, <3>1
      <4>2. inbox' = Append(SubSeq(inbox, 1, 1), cut)
        <5>1. 2 - 1 = 1
          OBVIOUS
        <5> QED BY <2>3, <3>1, <5>1
      <4> QED BY <4>1, <4>2
    <3>5. UNCHANGED <<sent, chunks>> /\ StripMsg(Len(chunks) + 1)' = inbox[1]
      BY <1>1, <1>8, <3>2 DEF StripMsg
    <3>6. StripOK'
      BY <1>1, <2>1, <3>2, <3>3, <3>4, <3>5 DEF StripOK
    <3> QED BY <2>1, <3>1, <3>6 DEF WireInv, InStepInv
  <2> QED BY <2>4, <2>5
<1> QED BY <1>1, <1>7, <1>9, <1>10, <1>11, <1>12 DEF SessionInv
-----------------------------------------------------------------------------
(***************************************************************************)
(* The limits, and the end of a page.                                      *)
(***************************************************************************)
\* A page over a limit makes a scan over it.
LEMMA OverPageLimit ==
  ASSUME job \in Seq(Pages), page \in 1..Len(job),
         NEW n \in 0..Len(Lines),
         n > maxStrips \/ UpTo(Lines)[n] > maxPageBytes
  PROVE  ~WithinLimits
<1>1. /\ Len(Lines) \in Nat /\ UpTo(Lines)[n] \in Nat
      /\ SizeIn(job, page) \in Nat /\ UpTo(Lines)[n] <= SizeIn(job, page)
  BY FirstStripsFacts
<1>2. maxStrips \in Nat /\ maxPageBytes \in Nat
  BY LimitsAssumption
<1>3. ~(Len(Lines) <= maxStrips /\ SizeIn(job, page) <= maxPageBytes)
  BY <1>1, <1>2
<1>4. ~PagesWithin(job, Len(job))
  BY <1>3 DEF PagesWithin, Lines
<1> QED BY <1>4, LimitsFacts

\* So does a streaming strip.
LEMMA OverStripLimit ==
  ASSUME job \in Seq(Pages), page \in 1..Len(job), job[page].streaming,
         NEW n \in 1..Len(Lines), ~(Lines[n] <= maxStripBytes + 1)
  PROVE  ~WithinLimits
<1>1. ~StripsWithin(job, page, Len(Lines))
  BY DEF StripsWithin, Lines
<1>2. ~PagesWithin(job, Len(job))
  BY <1>1 DEF PagesWithin, Lines
<1> QED BY <1>2, LimitsFacts

\* So do a page too many, and the bytes of the pages so far.
LEMMA OverScanLimit ==
  ASSUME job \in Seq(Pages), page \in 1..Len(job),
         NEW n \in 0..Len(Lines),
         \/ page > maxPages
         \/ UpTo(SizesIn(job))[page - 1] + UpTo(Lines)[n] > maxTotalBytes
  PROVE  ~WithinLimits
<1>1. /\ UpTo(Lines)[n] \in Nat
      /\ SizeIn(job, page) \in Nat /\ UpTo(Lines)[n] <= SizeIn(job, page)
  BY FirstStripsFacts
<1> DEFINE s == SizesIn(job)
           up == UpTo(s)
<1>2. s \in Seq(Nat) /\ Len(s) = Len(job) /\ s[page] = SizeIn(job, page)
  BY SizesFacts
<1> HIDE DEF s
<1>3. up \in [0..Len(s) -> Nat] /\ up[page] = up[page - 1] + s[page]
  BY <1>2, SumsType, SumsStep
<1>4. up[page] <= up[Len(s)]
  <2>1. page \in 0..Len(s) /\ Len(s) \in page..Len(s)
    BY <1>2
  <2> QED BY <1>2, <2>1, SumsMonotone
<1> HIDE DEF up
<1>5. /\ page - 1 \in 0..Len(job) /\ page \in 0..Len(job)
      /\ Len(job) \in 0..Len(job) /\ Len(job) \in Nat /\ page \in Nat
  OBVIOUS
<1>6. up[page - 1] \in Nat /\ up[page] \in Nat /\ up[Len(job)] \in Nat
  BY <1>2, <1>3, <1>5
<1>7. maxPages \in Nat /\ maxTotalBytes \in Nat
  BY LimitsAssumption
<1>8. CASE page > maxPages
  <2>1. ~(Len(job) <= maxPages)
    BY <1>5, <1>7, <1>8
  <2> QED BY <2>1, LimitsFacts
<1>9. CASE up[page - 1] + UpTo(Lines)[n] > maxTotalBytes
  <2>1. up[page - 1] + UpTo(Lines)[n] <= up[Len(job)]
    <3>1. \A a, b, x, y, z \in Nat :
            b = a + z /\ x <= z /\ b <= y => a + x <= y
      OBVIOUS
    <3>2. up[page] = up[page - 1] + SizeIn(job, page) /\ up[page] <= up[Len(job)]
      BY <1>2, <1>3, <1>4
    <3> QED BY <1>1, <1>6, <3>1, <3>2
  <2>2. ~(up[Len(job)] <= maxTotalBytes)
    BY <1>1, <1>6, <1>7, <1>9, <2>1
  <2> QED BY <2>2, LimitsFacts DEF up, s
<1> QED BY <1>8, <1>9 DEF up, s

\* The strips of a page that are all there are the page.
LEMMA PageIsWhole ==
  ASSUME NEW p, NEW strips \in Seq(Nat \X Nat), FirstStrips(p, strips),
         Len(strips) = Len(job[p].strips)
  PROVE  strips = PageIn(job, p)
<1>1. strips = [i \in 1..Len(strips) |-> strips[i]]
  OBVIOUS
<1>2. \A i \in 1..Len(strips) : strips[i] = <<p, i>>
  BY DEF FirstStrips
<1>3. strips = [i \in 1..Len(strips) |-> <<p, i>>]
  BY <1>1, <1>2, Zenon
<1> QED BY <1>3 DEF PageIn

\* One page more is whole, or not.
LEMMA WholeAppend ==
  ASSUME NEW j \in Seq(Pages), NEW ps \in Seq(Seq(Nat \X Nat)), Whole(j, ps),
         Len(ps) + 1 <= Len(j), NEW strips \in Seq(Nat \X Nat)
  PROVE  Whole(j, Append(ps, strips)) <=> strips = PageIn(j, Len(ps) + 1)
<1> DEFINE qs == Append(ps, strips)
<1>1. /\ Len(qs) = Len(ps) + 1 /\ qs[Len(ps) + 1] = strips
      /\ \A p \in 1..Len(ps) : qs[p] = ps[p]
      /\ Len(ps) \in Nat /\ Len(j) \in Nat
  OBVIOUS
<1> HIDE DEF qs
<1>2. \A p \in 1..Len(qs) : p \in 1..Len(ps) \/ p = Len(ps) + 1
  BY <1>1
<1>3. Len(ps) + 1 \in 1..Len(qs)
  BY <1>1
<1>4. Whole(j, qs) <=> strips = PageIn(j, Len(ps) + 1)
  BY <1>1, <1>2, <1>3 DEF Whole
<1> QED BY <1>4 DEF qs

\* A download that returns has nothing more to keep.
LEMMA ClosedInv ==
  ASSUME SessionInv, step' = "closed", result' \in {"ok", "io", "limit"},
         UNCHANGED <<k, totalBytes, pages, printerVars>>,
         faults' \in 0..MaxFaults, faults' >= faults, streaming' \in BOOLEAN,
         chunk' \in [size : Nat, last : BOOLEAN],
         chunks' \in Seq(Nat \X Nat), Len(chunks') <= maxStrips,
         pageBytes' \in 0..maxPageBytes, inbox' \in Seq(Messages),
         outbox' \in Seq(Commands), Len(outbox') <= 2,
         deadline' \in [kind : {"long", "short"}, used : 0..Patience],
         result' = "ok" => Done, result' = "limit" => ~WithinLimits, InStep'
  PROVE  SessionInv'
<1> USE DEF printerVars
<1>1. TypeInv'
  <2>1. step' \in Steps /\ result' \in Results /\ result' # "none"
    BY DEF Steps, Results
  <2>2. chunk'.size \in Nat /\ chunk'.last \in BOOLEAN
    OBVIOUS
  <2>3. TypeOK'
    BY <2>1, <2>2 DEF SessionInv, TypeInv, TypeOK
  <2> QED BY <2>3 DEF SessionInv, TypeInv
<1>2. AllWhole' = AllWhole /\ WithinLimits' = WithinLimits /\ Done' = Done
  BY LimitsFrame DEF AllWhole, Done
<1>3. PageInv' /\ DeadlineInv' /\ WireInv'
  BY DEF PageInv, PageSteps, AfterSteps, DeadlineInv, WireInv, InStepInv
<1>4. TakenInv'
  BY <1>2 DEF SessionInv, TakenInv
<1>5. ResultInv'
  <2>1. faults \in 0..MaxFaults
    BY DEF SessionInv, TypeInv, TypeOK
  <2> QED BY <1>2, <2>1, LimitsAssumption DEF SessionInv, ResultInv
<1> QED BY <1>1, <1>3, <1>4, <1>5 DEF SessionInv

\* The end of a page, from any of the places that find it.  The client has
\* all of the page, unless the scan was stopped or the printer is gone, and
\* hears nothing more.
LEMMA EndPageInv ==
  ASSUME SessionInv, step \in PageSteps,
         NEW strips \in Seq(Nat \X Nat), NEW bytes \in 0..maxPageBytes,
         EndPage(strips, bytes),
         UNCHANGED <<k, printerVars, faults>>, inbox' = <<>>,
         deadline' \in [kind : {"long"}, used : 0..Patience],
         off \/ outbox = <<>>, Len(strips) <= maxStrips,
         ~(page <= Len(job)) => strips = <<>>,
         page <= Len(job) => /\ FirstStrips(page, strips)
                             /\ StripsWithin(job, page, Len(strips))
                             /\ Len(strips) <= Len(Lines)
                             /\ bytes = UpTo(Lines)[Len(strips)],
         cancelled \/ off \/ ~(page <= Len(job)) \/ Len(strips) = Len(Lines)
  PROVE  SessionInv'
<1>1. /\ streaming' = FALSE /\ chunk' = NoChunk /\ chunks' = <<>>
      /\ pageBytes' = 0 /\ AfterPage(strips, bytes)
      /\ UNCHANGED <<job, page, armed, sent, busy, cancelled, off>>
  BY DEF EndPage, printerVars
<1>2. /\ armed /\ page = Len(pages) + 1 /\ AllWhole
      /\ page \in 1..(Len(job) + 1) /\ Len(pages) \in Nat
      /\ job \in Seq(Pages) /\ Len(job) \in Nat
      /\ page <= Len(job) =>
            /\ page \in 1..Len(job)
            /\ Lines \in Seq(Nat) /\ Len(Lines) # 0 /\ Len(Lines) \in Nat
  BY PageInHand
<1>3. /\ chunk' \in [size : Nat, last : BOOLEAN] /\ chunk'.size \in Nat
      /\ chunk'.last \in BOOLEAN /\ streaming' \in BOOLEAN
      /\ chunks' \in Seq(Nat \X Nat) /\ Len(chunks') <= maxStrips
      /\ pageBytes' \in 0..maxPageBytes
      /\ <<>> \in Seq(Messages)
      /\ deadline' \in [kind : {"long", "short"}, used : 0..Patience]
      /\ deadline'.kind = "long"
  <2>1. chunk' \in [size : Nat, last : BOOLEAN] /\ chunk'.size \in Nat
        /\ chunk'.last \in BOOLEAN
    BY <1>1 DEF NoChunk
  <2>2. chunks' \in Seq(Nat \X Nat) /\ Len(chunks') = 0
    BY <1>1
  <2>3. 0 <= maxStrips /\ 0 \in 0..maxPageBytes
    BY LimitsAssumption
  <2>4. deadline' \in [kind : {"long", "short"}, used : 0..Patience]
        /\ deadline'.kind = "long"
    OBVIOUS
  <2>5. <<>> \in Seq(Messages)
    OBVIOUS
  <2> QED BY <1>1, <2>1, <2>2, <2>3, <2>4, <2>5
<1>4. /\ outbox \in Seq(Commands) /\ Len(outbox) <= 1
      /\ pages \in Seq(Seq(Nat \X Nat)) /\ totalBytes \in 0..maxTotalBytes
      /\ result = "none"
  BY DEF SessionInv, WireInv, TypeInv, TypeOK, PageSteps
<1>5. ASSUME NEW cmd \in Commands, Send(cmd)
      PROVE  /\ outbox' \in Seq(Commands) /\ Len(outbox') <= 2
             /\ ~off => outbox' = <<cmd>>
  <2>1. outbox' = Append(outbox, cmd)
    BY <1>5 DEF Send
  <2>2. outbox' \in Seq(Commands) /\ Len(outbox') = Len(outbox) + 1
    BY <1>4, <2>1
  <2>3. Append(<<>>, cmd) = <<cmd>>
    OBVIOUS
  <2>4. Len(outbox) \in Nat
    BY <1>4
  <2>5. Len(outbox') <= 2
    BY <1>4, <2>2, <2>4
  <2>6. ASSUME ~off PROVE outbox' = <<cmd>>
    BY <2>1, <2>3, <2>6
  <2> QED BY <2>2, <2>5, <2>6
<1>6. WithinLimits' = WithinLimits
  BY <1>1, LimitsFrame
<1>7. CASE /\ strips = <<>> /\ step' = "endack" /\ Send("END")
           /\ UNCHANGED <<pages, totalBytes, result>>
  <2>1. /\ outbox' \in Seq(Commands) /\ Len(outbox') <= 2
        /\ ~off => outbox' = <<"END">>
    BY <1>5, <1>7 DEF Commands
  <2>2. TypeInv'
    <3>1. TypeOK'
      BY <1>1, <1>3, <1>4, <1>7, <2>1 DEF SessionInv, TypeInv, TypeOK, Steps
    <3> QED BY <1>1, <1>3, <1>7, <2>1, <3>1 DEF SessionInv, TypeInv
  <2>3. AllWhole' /\ Done' = Done
    BY <1>1, <1>2, <1>7 DEF AllWhole, Done
  <2>4. PageInv' /\ DeadlineInv'
    BY <1>1, <1>3, <1>7
    DEF PageInv, PageSteps, AfterSteps, NothingInHand, DeadlineInv
  <2>5. TakenInv' /\ ResultInv'
    BY <1>1, <1>2, <1>4, <1>6, <1>7, <2>3
    DEF SessionInv, TakenInv, ResultInv, AllWhole
  <2>6. off \/ Done
    <3>1. CASE ~(page <= Len(job))
      <4>1. Len(pages) <= Len(job)
        BY <1>2 DEF AllWhole, Whole
      <4>2. Len(pages) = Len(job)
        BY <1>2, <3>1, <4>1
      <4> QED BY <1>2, <4>2 DEF Done
    <3>2. CASE page <= Len(job) /\ Len(strips) = Len(Lines)
      <4>1. Len(strips) = 0
        BY <1>7
      <4> QED BY <1>2, <3>2, <4>1
    <3> QED BY <3>1, <3>2 DEF Done
  <2>7. WireInv'
    <3>1. CASE off
      <4>1. Starved'
        BY <1>7, BytesOfOne DEF Starved
      <4> QED BY <1>1, <1>7, <3>1, <4>1 DEF WireInv, Lost, CutStrip
    <3>2. CASE ~off
      <4>1. EndOK("END")'
        BY <2>1, <2>3, <2>6, <3>2 DEF EndOK
      <4> QED BY <1>7, <4>1 DEF WireInv, InStepInv
    <3> QED BY <3>1, <3>2
  <2> QED BY <2>2, <2>4, <2>5, <2>7 DEF SessionInv
<1>8. ASSUME strips # <<>>
      PROVE  /\ page \in 1..Len(job)
             /\ FirstStrips(page, strips) /\ Len(strips) \in 0..Len(Lines)
             /\ StripsWithin(job, page, Len(strips))
             /\ bytes = UpTo(Lines)[Len(strips)]
             /\ totalBytes = UpTo(SizesIn(job))[page - 1]
  <2>1. page <= Len(job)
    BY <1>8
  <2>2. totalBytes = UpTo(SizesIn(job))[Len(pages)] /\ page - 1 = Len(pages)
    BY <1>2 DEF SessionInv, TakenInv
  <2>3. Len(strips) \in Nat
    OBVIOUS
  <2> QED BY <1>2, <2>1, <2>2, <2>3
<1>9. CASE /\ strips # <<>>
           /\ Len(pages) >= maxPages \/ totalBytes + bytes > maxTotalBytes
           /\ Return("limit")
           /\ UNCHANGED <<outbox, pages, totalBytes>>
  <2>1. ~WithinLimits
    <3>1. \/ page > maxPages
          \/ UpTo(SizesIn(job))[page - 1] + UpTo(Lines)[Len(strips)]
               > maxTotalBytes
      <4>1. page - 1 = Len(pages) /\ page \in Nat /\ maxPages \in Nat
        BY <1>2, LimitsAssumption
      <4>2. Len(pages) >= maxPages => page > maxPages
        BY <4>1
      <4>3. /\ bytes = UpTo(Lines)[Len(strips)]
            /\ totalBytes = UpTo(SizesIn(job))[page - 1]
        BY <1>8, <1>9
      <4> QED BY <1>9, <4>2, <4>3
    <3>2. job \in Seq(Pages) /\ page \in 1..Len(job)
          /\ Len(strips) \in 0..Len(Lines)
      BY <1>2, <1>8, <1>9
    <3> QED BY <3>1, <3>2, OverScanLimit
  <2>2. step' = "closed" /\ result' = "limit"
    BY <1>9 DEF Return
  <2>3. faults' \in 0..MaxFaults /\ faults' >= faults
    BY LimitsAssumption DEF SessionInv, TypeInv, TypeOK
  <2>4. outbox' \in Seq(Commands) /\ Len(outbox') <= 2
    BY <1>4, <1>9
  <2>5. InStep'
    BY <1>1, <1>9 DEF InStep
  <2> QED BY <1>3, <1>9, <2>1, <2>2, <2>3, <2>4, <2>5, ClosedInv
<1>10. CASE /\ strips # <<>>
            /\ Len(pages) < maxPages /\ totalBytes + bytes <= maxTotalBytes
            /\ pages' = Append(pages, strips)
            /\ totalBytes' = totalBytes + bytes
            /\ step' = "next" /\ Send("PARAMS")
            /\ UNCHANGED result
  <2>1. /\ outbox' \in Seq(Commands) /\ Len(outbox') <= 2
        /\ ~off => outbox' = <<"PARAMS">>
    BY <1>5, <1>10 DEF Commands
  <2>2. /\ pages' \in Seq(Seq(Nat \X Nat)) /\ Len(pages') = page
        /\ Len(pages') <= maxPages /\ totalBytes' \in 0..maxTotalBytes
    BY <1>2, <1>4, <1>10, LimitsAssumption
  <2>3. TypeInv'
    <3>1. TypeOK'
      BY <1>1, <1>3, <1>4, <1>10, <2>1, <2>2
      DEF SessionInv, TypeInv, TypeOK, Steps
    <3> QED BY <1>1, <1>3, <1>10, <2>1, <2>2, <3>1 DEF SessionInv, TypeInv
  <2>4. PageInv' /\ DeadlineInv'
    BY <1>1, <1>3, <1>10
    DEF PageInv, PageSteps, AfterSteps, NothingInHand, DeadlineInv
  <2>5. AllWhole' <=> strips = PageIn(job, page)
    <3>1. /\ job \in Seq(Pages) /\ pages \in Seq(Seq(Nat \X Nat))
          /\ Whole(job, pages) /\ strips \in Seq(Nat \X Nat)
      BY <1>2, <1>4 DEF AllWhole
    <3>2. page = Len(pages) + 1 /\ Len(pages) + 1 <= Len(job)
      BY <1>2, <1>8, <1>10
    <3>3. Whole(job, Append(pages, strips)) <=> strips = PageIn(job, Len(pages) + 1)
      BY <3>1, <3>2, WholeAppend
    <3>4. AllWhole' <=> Whole(job, Append(pages, strips))
      BY <1>1, <1>10 DEF AllWhole
    <3> QED BY <3>2, <3>3, <3>4
  <2>6. AllWhole' <=> Len(strips) = Len(Lines)
    <3>1. ASSUME strips = PageIn(job, page) PROVE Len(strips) = Len(Lines)
      BY <1>2, <1>8, <1>10, <3>1 DEF PageIn, Lines
    <3>2. ASSUME Len(strips) = Len(Lines) PROVE strips = PageIn(job, page)
      BY <1>8, <1>10, <3>2, PageIsWhole DEF Lines
    <3> QED BY <2>5, <3>1, <3>2
  <2>7. TakenInv'
    <3> SUFFICES ASSUME AllWhole'
                 PROVE  /\ totalBytes' = UpTo(SizesIn(job))[page]
                        /\ PagesWithin(job, page)
      BY <1>1, <2>2 DEF TakenInv
    <3>1. bytes = SizeIn(job, page)
      BY <1>8, <1>10, <2>6 DEF SizeIn, Lines
    <3>2. totalBytes' = UpTo(SizesIn(job))[page]
      <4>1. /\ SizesIn(job) \in Seq(Nat) /\ Len(SizesIn(job)) = Len(job)
            /\ SizesIn(job)[page] = SizeIn(job, page)
        BY <1>2, <1>8, <1>10, SizesFacts
      <4>2. UpTo(SizesIn(job))[page]
              = UpTo(SizesIn(job))[page - 1] + SizesIn(job)[page]
        BY <1>8, <1>10, <4>1, SumsStep
      <4> QED BY <1>8, <1>10, <3>1, <4>1, <4>2
    <3>3. PagesWithin(job, page)
      <4>1. PagesWithin(job, Len(pages))
        BY <1>2 DEF SessionInv, TakenInv
      <4>2. Len(job[page].strips) <= maxStrips /\ SizeIn(job, page) <= maxPageBytes
        <5>1. Len(Lines) <= maxStrips
          BY <2>6
        <5>2. bytes <= maxPageBytes
          BY LimitsAssumption
        <5> QED BY <3>1, <5>1, <5>2 DEF Lines
      <4>3. StripsWithin(job, page, Len(job[page].strips))
        BY <1>8, <1>10, <2>6 DEF Lines
      <4>4. \A p \in 1..page : p \in 1..Len(pages) \/ p = page
        BY <1>2
      <4> QED BY <4>1, <4>2, <4>3, <4>4 DEF PagesWithin
    <3> QED BY <3>2, <3>3
  <2>8. cancelled \/ off \/ AllWhole'
    BY <1>8, <1>10, <2>6
  <2>9. ResultInv'
    BY <1>1, <1>4, <1>10, <2>8 DEF SessionInv, ResultInv
  <2>10. WireInv'
    <3>1. CASE off
      <4>1. Starved'
        BY <1>10, BytesOfOne DEF Starved
      <4> QED BY <1>1, <1>10, <3>1, <4>1 DEF WireInv, Lost, CutStrip
    <3>2. CASE ~off
      <4>1. page' = Len(pages') /\ page' # 0 /\ page' <= Len(job')
        BY <1>1, <1>8, <1>10, <2>2
      <4>2. NextOK'
        BY <1>1, <2>1, <2>8, <3>2, <4>1 DEF NextOK
      <4> QED BY <1>10, <4>2 DEF WireInv, InStepInv
    <3> QED BY <3>1, <3>2
  <2> QED BY <2>3, <2>4, <2>7, <2>9, <2>10 DEF SessionInv
<1> QED BY <1>1, <1>7, <1>9, <1>10 DEF AfterPage
-----------------------------------------------------------------------------
(***************************************************************************)
(* What the client does preserves the invariant.                           *)
(***************************************************************************)
\* What a step of the client leaves typed.
LEMMA ClientType ==
  ASSUME SessionInv, step # "closed", step' \in Steps \ {"closed"},
         UNCHANGED <<printerVars, faults, scanVars>>,
         k' \in 0..13, step' = "setup" => k' # 0, streaming' \in BOOLEAN,
         chunk' \in [size : Nat, last : BOOLEAN],
         chunks' \in Seq(Nat \X Nat), Len(chunks') <= maxStrips,
         pageBytes' \in 0..maxPageBytes, inbox' \in Seq(Messages),
         outbox' \in Seq(Commands), Len(outbox') <= 2,
         deadline' \in [kind : {"long", "short"}, used : 0..Patience]
  PROVE  TypeInv'
<1>1. result = "none" /\ result' = "none"
  BY DEF SessionInv, TypeInv, TypeOK, scanVars
<1>2. chunk'.size \in Nat /\ chunk'.last \in BOOLEAN
  OBVIOUS
<1>3. k' \in 0..Len(Setup)
  BY SetupFacts
<1>4. TypeOK'
  BY <1>1, <1>2, <1>3 DEF SessionInv, TypeInv, TypeOK, printerVars, scanVars
<1> QED BY <1>4 DEF SessionInv, TypeInv, printerVars, scanVars

\* A step of the client that takes no page.
LEMMA ClientFrame ==
  ASSUME SessionInv, step # "closed", UNCHANGED <<printerVars, faults, scanVars>>
  PROVE  /\ TakenInv' /\ ResultInv' /\ Lines' = Lines
         /\ AllWhole' = AllWhole /\ Done' = Done
<1> USE DEF printerVars, scanVars
<1>1. /\ AllWhole' = AllWhole /\ WithinLimits' = WithinLimits /\ Done' = Done
      /\ Lines' = Lines
  BY LimitsFrame DEF AllWhole, Done, Lines
<1>2. TakenInv'
  BY <1>1 DEF SessionInv, TakenInv
<1>3. ResultInv'
  BY <1>1 DEF SessionInv, ResultInv
<1> QED BY <1>1, <1>2, <1>3

\* The types and the deadline before a step of the client.
LEMMA Before ==
  ASSUME SessionInv
  PROVE  /\ inbox \in Seq(Messages) /\ outbox \in Seq(Commands)
         /\ chunks \in Seq(Nat \X Nat) /\ Len(chunks) \in Nat
         /\ Len(chunks) <= maxStrips
         /\ chunk \in [size : Nat, last : BOOLEAN] /\ streaming \in BOOLEAN
         /\ chunk.size \in Nat /\ chunk.last \in BOOLEAN
         /\ pageBytes \in 0..maxPageBytes /\ k \in 0..13 /\ step \in Steps
         /\ job \in Seq(Pages) /\ Len(job) \in Nat
         /\ deadline \in [kind : {"long", "short"}, used : 0..Patience]
         /\ Len(outbox) <= 2 /\ faults \in 0..MaxFaults
         /\ Len(pages) \in Nat /\ off \in BOOLEAN
<1>1. TypeOK /\ TypeInv
  BY DEF SessionInv, TypeInv
<1>2. /\ inbox \in Seq(Messages) /\ outbox \in Seq(Commands)
      /\ chunks \in Seq(Nat \X Nat) /\ job \in Seq(Pages)
      /\ pages \in Seq(Seq(Nat \X Nat))
      /\ chunk \in [size : Nat, last : BOOLEAN]
  BY <1>1 DEF TypeInv
<1>3. Len(chunks) \in Nat /\ Len(job) \in Nat /\ Len(pages) \in Nat
  BY <1>2
<1>4. k \in 0..13
  BY <1>1, SetupFacts DEF TypeOK
<1> QED BY <1>1, <1>2, <1>3, <1>4 DEF TypeOK

\* A new deadline.
LEMMA FreshType ==
  ASSUME NEW kind \in {"long", "short"}
  PROVE  /\ Fresh(kind) \in [kind : {"long", "short"}, used : 0..Patience]
         /\ Fresh(kind).kind = kind /\ Fresh(kind).used = 0
         /\ Fresh("long") \in [kind : {"long"}, used : 0..Patience]
BY LimitsAssumption DEF Fresh

\* A command that is sent when none is on its way.
LEMMA SentAlone ==
  ASSUME NEW cmd \in Commands, outbox = <<>>, Send(cmd)
  PROVE  outbox' = <<cmd>> /\ outbox' \in Seq(Commands) /\ Len(outbox') <= 2
BY DEF Send

\* A client that reads something has heard it, and has nothing on its way.
LEMMA Heard ==
  ASSUME SessionInv, NEW n \in Nat \ {0}, Receive(n), step # "closed"
  PROVE  /\ Bytes(inbox) \in Nat /\ Bytes(inbox) >= n
         /\ inbox # <<>> /\ outbox = <<>> /\ inbox' = Skip(inbox, n)
         /\ (Starved <=> Bytes(inbox) < n) => InStepInv \/ CutSignal
<1>1. Bytes(inbox) >= n /\ inbox' = Skip(inbox, n)
  BY DEF Receive
<1>2. Bytes(inbox) \in Nat
  BY Before, BytesType
<1>3. inbox # <<>>
  BY <1>1, BytesOfOne
<1>4. outbox = <<>>
  BY <1>3 DEF SessionInv, WireInv
<1>5. ASSUME Starved <=> Bytes(inbox) < n PROVE InStepInv \/ CutSignal
  BY <1>1, <1>2, <1>5 DEF SessionInv, WireInv, Lost
<1> QED BY <1>1, <1>2, <1>3, <1>4, <1>5

\* A message that is read whole leaves nothing.
LEMMA HeardWhole ==
  ASSUME NEW n \in Nat, Receive(n), NEW m \in Messages, inbox = <<m>>, m.len <= n
  PROVE  inbox' = <<>>
<1>1. Bytes(inbox) = m.len
  BY BytesOfOne
<1>2. n >= Bytes(inbox)
  BY <1>1 DEF Messages
<1> QED BY <1>2, SkipAll DEF Receive

\* A sequence of one is made of its first.
LEMMA Single ==
  ASSUME NEW s \in Seq(Messages), Len(s) = 1
  PROVE  s = <<s[1]>> /\ s[1] \in Messages
OBVIOUS

\* The printer is dialed.
LEMMA DialInv ==
  ASSUME SessionInv, Dial PROVE SessionInv'
<1>1. /\ step = "dial" /\ step' = "setup" /\ k' = 1 /\ Send(Setup[1])
      /\ deadline' = Fresh("long")
      /\ UNCHANGED <<pageVars, scanVars, inbox, printerVars, faults>>
  BY DEF Dial, SetDeadline
<1>2. DialOK
  BY <1>1 DEF SessionInv, WireInv, InStepInv, Lost, Starved, CutSignal
<1>3. /\ outbox' = <<Setup[1]>> /\ outbox' \in Seq(Commands)
      /\ Len(outbox') <= 2
  <2>1. Setup[1] \in Commands
    BY SetupFacts
  <2> QED BY <1>1, <1>2, <2>1, SentAlone DEF DialOK
<1>4. TypeInv'
  <2>1. step # "closed" /\ step' \in Steps \ {"closed"} /\ k' \in 0..13
    BY <1>1 DEF Steps
  <2>2. UNCHANGED <<streaming, chunk, chunks, pageBytes>>
    BY <1>1 DEF pageVars
  <2> QED BY <1>1, <1>3, <2>1, <2>2, Before, FreshType, ClientType
<1>5. TakenInv' /\ ResultInv'
  BY <1>1, ClientFrame
<1>6. PageInv' /\ DeadlineInv'
  BY <1>1, FreshType DEF SessionInv, PageInv, PageSteps, AfterSteps, NothingInHand,
     DeadlineInv, pageVars, scanVars
<1>7. WireInv'
  <2>1. SetupOK'
    BY <1>1, <1>2, <1>3 DEF SetupOK, DialOK, printerVars
  <2>2. Len(outbox') <= 1 /\ inbox' = <<>>
    BY <1>1, <1>2, <1>3 DEF DialOK
  <2> QED BY <1>1, <2>1, <2>2 DEF WireInv, InStepInv
<1> QED BY <1>4, <1>5, <1>6, <1>7 DEF SessionInv

\* A page begins.
LEMMA NewPageInv ==
  ASSUME SessionInv, step # "closed", NothingInHand, AllWhole, armed, sent = 0,
         page = Len(pages) + 1,
         step' = "status", outbox' = <<"POLL">>, inbox' = <<>>,
         deadline' = Fresh("long"),
         UNCHANGED <<k, pageVars, scanVars, printerVars, faults>>
  PROVE  SessionInv'
<1>1. UNCHANGED <<streaming, chunk, chunks, pageBytes>>
  BY DEF pageVars
<1>2. TypeInv'
  <2>1. step' \in Steps \ {"closed"}
    BY DEF Steps
  <2>2. <<"POLL">> \in Seq(Commands) /\ Len(<<"POLL">>) <= 2
    <3>1. "POLL" \in Commands
      BY DEF Commands
    <3> QED BY <3>1
  <2>3. <<>> \in Seq(Messages)
    OBVIOUS
  <2>4. k' \in 0..13
    BY Before
  <2> QED BY <1>1, <2>1, <2>2, <2>3, <2>4, Before, FreshType, ClientType
<1>3. TakenInv' /\ ResultInv' /\ AllWhole' /\ Lines' = Lines
  BY ClientFrame
<1>4. PageInv'
  <2>1. ASSUME page <= Len(job) PROVE ChunksInv'
    <3>1. /\ page \in 1..Len(job) /\ Len(Lines) \in Nat /\ Len(Lines) # 0
          /\ UpTo(Lines)[0] = 0
      <4>1. page \in 1..Len(job)
        BY <2>1, Before
      <4>2. Lines \in Seq(Nat) /\ Len(Lines) # 0
        BY <4>1, Before, PageFacts DEF Lines
      <4>3. UpTo(Lines)[0] = 0
        BY <4>2, SumsStep
      <4> QED BY <4>1, <4>2, <4>3
    <3>2. /\ chunks' = <<>> /\ Len(chunks') = 0 /\ pageBytes' = 0
          /\ streaming' = FALSE
      BY <1>1, Before DEF NothingInHand
    <3>3. FirstStrips(page, chunks)'
      BY <3>2 DEF FirstStrips
    <3>4. Len(chunks') <= Len(Lines')
      BY <1>3, <3>1, <3>2
    <3>5. StripsWithin(job, page, Len(chunks))'
      BY <3>2 DEF StripsWithin
    <3> QED BY <1>3, <3>1, <3>2, <3>3, <3>4, <3>5 DEF ChunksInv
  <2>2. NothingInHand'
    BY <1>1 DEF NothingInHand
  <2> QED BY <1>3, <2>1, <2>2 DEF PageInv, PageSteps, AfterSteps, printerVars,
          scanVars
<1>5. DeadlineInv'
  BY FreshType DEF DeadlineInv
<1>6. WireInv'
  <2>1. Len(chunks') = 0 /\ sent' = 0
    BY <1>1 DEF NothingInHand, printerVars
  <2>2. StatusOK'
    BY <2>1 DEF StatusOK
  <2>3. Len(outbox') <= 1
    OBVIOUS
  <2> QED BY <2>2, <2>3 DEF WireInv, InStepInv
<1> QED BY <1>2, <1>3, <1>4, <1>5, <1>6 DEF SessionInv

\* A setup exchange.
LEMMA SetupAnsweredInv ==
  ASSUME SessionInv, SetupAnswered PROVE SessionInv'
<1> DEFINE n == AnswerLen(Setup[k])
<1>1. /\ step = "setup" /\ Receive(n)
      /\ UNCHANGED <<pageVars, scanVars, printerVars, faults>>
  BY DEF SetupAnswered
<1>2. /\ k < 13 => k' = k + 1 /\ Send(Setup[k + 1]) /\ UNCHANGED step
      /\ ~(k < 13) => step' = "status" /\ Send("POLL") /\ UNCHANGED k
      /\ k = 13 => deadline' = Fresh("long")
      /\ deadline' = Fresh("long") \/ UNCHANGED deadline
  BY SetupFacts DEF SetupAnswered, SetDeadline
<1>3. k \in 1..13 /\ n \in Nat \ {0}
  <2>1. k \in 1..13
    BY <1>1, Before DEF SessionInv, TypeInv
  <2> QED BY <2>1, AnswerFacts
<1>4. outbox = <<>> /\ SetupOK /\ inbox # <<>>
  <2>1. Starved <=> Bytes(inbox) < n
    BY <1>1 DEF Starved
  <2> HIDE DEF n
  <2>2. outbox = <<>> /\ inbox # <<>> /\ (InStepInv \/ CutSignal)
    BY <1>1, <1>3, <2>1, Heard
  <2> QED BY <1>1, <2>2 DEF InStepInv, CutSignal
<1>5. /\ inbox = <<inbox[1]>> /\ inbox[1] \in Messages /\ inbox[1].len = n
      /\ k = 13 => page = 1 /\ armed /\ sent = 0
      /\ k # 13 => page = 0 /\ ~armed
  <2>1. Len(inbox) = 1 /\ inbox[1].len = n
    BY <1>4 DEF SetupOK
  <2>2. inbox = <<inbox[1]>> /\ inbox[1] \in Messages
    BY <2>1, Before, Single
  <2> QED BY <1>4, <2>1, <2>2, SetupFacts DEF SetupOK
<1>6. inbox' = <<>>
  <2> HIDE DEF n
  <2> QED BY <1>1, <1>3, <1>5, HeardWhole
<1>7. NothingInHand /\ pages = <<>>
  BY <1>1 DEF SessionInv, PageInv
<1>8. CASE k < 13
  <2>1. k' = k + 1 /\ k' \in 1..13 /\ step' = "setup" /\ k # 13
    BY <1>1, <1>2, <1>3, <1>8
  <2>2. /\ outbox' = <<Setup[k + 1]>> /\ outbox' \in Seq(Commands)
        /\ Len(outbox') <= 2 /\ Len(outbox') <= 1
    <3>1. Setup[k + 1] \in Commands
      BY <1>3, <1>8, SetupFacts
    <3>2. Len(<<Setup[k + 1]>>) <= 1
      OBVIOUS
    <3> QED BY <1>2, <1>4, <1>8, <3>1, <3>2, SentAlone
  <2>3. /\ deadline' \in [kind : {"long", "short"}, used : 0..Patience]
        /\ deadline' = Fresh("long") \/ UNCHANGED deadline
    BY <1>2, Before, FreshType
  <2>4. UNCHANGED <<streaming, chunk, chunks, pageBytes>>
    BY <1>1 DEF pageVars
  <2>5. TypeInv'
    <3>1. step' \in Steps \ {"closed"} /\ k' # 0 /\ step # "closed"
      BY <1>1, <2>1 DEF Steps
    <3>2. <<>> \in Seq(Messages)
      OBVIOUS
    <3> QED BY <1>1, <1>6, <2>1, <2>2, <2>3, <2>4, <3>1, <3>2, Before, ClientType
  <2>6. TakenInv' /\ ResultInv'
    BY <1>1, ClientFrame
  <2>7. PageInv'
    BY <1>1, <2>1, <2>4 DEF SessionInv, PageInv, PageSteps, AfterSteps,
       NothingInHand, scanVars
  <2>8. DeadlineInv'
    BY <1>1, <2>1, <2>3, <1>4, FreshType DEF SessionInv, DeadlineInv, AfterSteps
  <2>9. SetupOK'
    <3>1. page' = 0 /\ ~armed'
      BY <1>1, <1>5, <2>1 DEF printerVars
    <3> QED BY <1>6, <2>1, <2>2, <3>1 DEF SetupOK
  <2>10. WireInv'
    BY <1>6, <2>1, <2>2, <2>9 DEF WireInv, InStepInv
  <2> QED BY <2>5, <2>6, <2>7, <2>8, <2>10 DEF SessionInv
<1>9. CASE ~(k < 13)
  <2>1. k = 13 /\ page = 1 /\ armed /\ sent = 0
    BY <1>3, <1>5, <1>9
  <2>2. outbox' = <<"POLL">>
    <3>1. "POLL" \in Commands
      BY DEF Commands
    <3> QED BY <1>2, <1>4, <1>9, <3>1, SentAlone
  <2>3. AllWhole
    BY <1>7, Before DEF AllWhole, Whole
  <2>4. page = Len(pages) + 1
    BY <1>7, <2>1, Before
  <2> QED BY <1>1, <1>2, <1>6, <1>7, <1>9, <2>1, <2>2, <2>3, <2>4, NewPageInv
<1> QED BY <1>8, <1>9

\* The next page is ready.
LEMMA RearmedInv ==
  ASSUME SessionInv, Rearmed PROVE SessionInv'
<1>1. /\ step = "rearm" /\ Receive(32) /\ step' = "status" /\ Send("POLL")
      /\ deadline' = Fresh("long")
      /\ UNCHANGED <<k, pageVars, scanVars, printerVars, faults>>
  BY DEF Rearmed, SetDeadline
<1>2. outbox = <<>> /\ inbox # <<>> /\ RearmOK
  <2>1. Starved <=> Bytes(inbox) < 32
    BY <1>1 DEF Starved
  <2>2. outbox = <<>> /\ inbox # <<>> /\ (InStepInv \/ CutSignal)
    BY <1>1, <2>1, Heard
  <2> QED BY <1>1, <2>2 DEF InStepInv, CutSignal
<1>3. /\ inbox = <<Message("ready", 32)>> /\ AllWhole /\ armed /\ sent = 0
      /\ page = Len(pages) + 1
  BY <1>2 DEF RearmOK
<1>4. inbox' = <<>>
  <2>1. Message("ready", 32) \in Messages /\ Message("ready", 32).len <= 32
    BY Said DEF Tags
  <2> QED BY <1>1, <1>3, <2>1, HeardWhole
<1>5. outbox' = <<"POLL">>
  <2>1. "POLL" \in Commands
    BY DEF Commands
  <2> QED BY <1>1, <1>2, <2>1, SentAlone
<1>6. NothingInHand
  BY <1>1 DEF SessionInv, PageInv, AfterSteps
<1> QED BY <1>1, <1>3, <1>4, <1>5, <1>6, NewPageInv

\* What a client that has read an answer to POLL knows.
LEMMA StatusHeard ==
  ASSUME SessionInv, step = "status", Receive(32)
  PROVE  /\ inbox = <<inbox[1]>> /\ inbox[1] \in Messages /\ outbox = <<>>
         /\ \/ off /\ CutSignal
            \/ /\ StatusOK /\ sent = Len(chunks)
               /\ \/ inbox[1] = Message("busy", 32)
                  \/ Offer(inbox[1])
                  \/ /\ inbox[1] \in {Message("end", 32), Message("signal", 255)}
                     /\ Complete
         /\ inbox[1].tag \in {"busy", "ready", "end"} => inbox' = <<>>
<1>1. Starved <=> Bytes(inbox) < 32
  BY DEF Starved
<1>2. outbox = <<>> /\ inbox # <<>>
  BY Heard
<1>3. InStepInv \/ (off /\ CutSignal)
  <2>1. Bytes(inbox) \in Nat /\ Bytes(inbox) >= 32
    BY Heard
  <2> QED BY <1>1, <2>1 DEF SessionInv, WireInv, Lost
<1>4. CASE InStepInv
  <2>1. StatusOK
    BY <1>4 DEF InStepInv
  <2>2. /\ sent = Len(chunks) /\ Len(inbox) = 1
        /\ \/ inbox[1] = Message("busy", 32)
           \/ Offer(inbox[1])
           \/ /\ inbox[1] \in {Message("end", 32), Message("signal", 255)}
              /\ Complete
    BY <1>2, <2>1 DEF StatusOK
  <2>3. inbox = <<inbox[1]>> /\ inbox[1] \in Messages
    BY <2>2, Before, Single
  <2>4. ASSUME inbox[1].tag \in {"busy", "ready", "end"} PROVE inbox' = <<>>
    <3>1. inbox[1].len <= 32
      BY <2>2, <2>4, Said DEF Offer, Tags
    <3> QED BY <2>3, <3>1, HeardWhole
  <2> QED BY <1>2, <2>1, <2>2, <2>3, <2>4
<1>5. CASE off /\ CutSignal
  <2>1. inbox = <<Message("cut", 127)>>
    BY <1>5 DEF CutSignal
  <2>2. inbox[1] = Message("cut", 127)
    BY <2>1
  <2>3. Message("cut", 127) \in Messages /\ Message("cut", 127).tag = "cut"
    BY Said DEF Tags
  <2> QED BY <1>2, <1>5, <2>1, <2>2, <2>3
<1> QED BY <1>3, <1>4, <1>5

\* What the answer to POLL tells.
LEMMA StatusTags ==
  ASSUME SessionInv, step = "status", Receive(32)
  PROVE  /\ First(inbox).tag = "busy"  => sent = Len(chunks) /\ inbox' = <<>>
         /\ First(inbox).tag = "ready" =>
              Offer(inbox[1]) /\ sent = Len(chunks) /\ inbox' = <<>>
         /\ First(inbox).tag = "end"   => Complete /\ inbox' = <<>>
         /\ ~IsStatus(First(inbox)) =>
              \/ off /\ CutSignal
              \/ /\ inbox = <<Message("signal", 255)>> /\ Complete
                 /\ sent = Len(chunks)
<1>1. /\ Message("busy", 32).tag = "busy" /\ Message("end", 32).tag = "end"
      /\ Message("signal", 255).tag = "signal" /\ Message("cut", 127).tag = "cut"
  BY DEF Message
<1>2. inbox = <<inbox[1]>> /\ First(inbox) = inbox[1]
  BY StatusHeard DEF First
<1>3. CutSignal => inbox[1].tag = "cut"
  <2>1. CutSignal => inbox[1] = Message("cut", 127)
    BY DEF CutSignal
  <2> QED BY <1>1, <2>1
<1>4. Offer(inbox[1]) => inbox[1].tag = "ready"
  BY DEF Offer
<1>5. CASE First(inbox).tag = "busy"
  BY <1>1, <1>2, <1>3, <1>4, <1>5, StatusHeard DEF IsStatus
<1>6. CASE First(inbox).tag = "ready"
  BY <1>1, <1>2, <1>3, <1>4, <1>6, StatusHeard DEF IsStatus
<1>7. CASE First(inbox).tag = "end"
  BY <1>1, <1>2, <1>3, <1>4, <1>7, StatusHeard DEF IsStatus
<1>8. CASE ~IsStatus(First(inbox))
  <2>1. /\ inbox[1] # Message("busy", 32) /\ ~Offer(inbox[1])
        /\ inbox[1] # Message("end", 32)
    BY <1>1, <1>2, <1>4, <1>8 DEF IsStatus
  <2> QED BY <1>2, <1>3, <1>8, <2>1, StatusHeard DEF IsStatus
<1> QED BY <1>5, <1>6, <1>7, <1>8 DEF IsStatus

\* The client asks for the page's next strip.
LEMMA PollInv ==
  ASSUME SessionInv, step \in {"status", "chunk", "padding"}, step' = "status",
         UNCHANGED <<k, streaming, chunk, scanVars, printerVars, faults>>,
         outbox' = <<"POLL">>, inbox' = <<>>, off \/ sent = Len(chunks'),
         chunks' \in Seq(Nat \X Nat), Len(chunks') <= maxStrips,
         pageBytes' \in 0..maxPageBytes,
         deadline' \in {Fresh("long"), Fresh("short")},
         deadline' = Fresh("short") => streaming,
         ~(page <= Len(job)) => chunks' = <<>> /\ pageBytes' = 0,
         page <= Len(job) =>
           /\ Len(chunks') <= Len(Lines) /\ FirstStrips(page, chunks')
           /\ StripsWithin(job, page, Len(chunks'))
           /\ pageBytes' = UpTo(Lines)[Len(chunks')]
           /\ chunks' # <<>> /\ job[page].streaming => streaming
  PROVE  SessionInv'
<1>1. TypeInv'
  <2>1. step # "closed" /\ step' \in Steps \ {"closed"}
    BY DEF Steps
  <2>2. <<"POLL">> \in Seq(Commands) /\ Len(<<"POLL">>) <= 2
    <3>1. "POLL" \in Commands
      BY DEF Commands
    <3> QED BY <3>1
  <2>3. <<>> \in Seq(Messages)
    OBVIOUS
  <2>4. k' \in 0..13
    BY Before
  <2>5. deadline' \in [kind : {"long", "short"}, used : 0..Patience]
    BY FreshType
  <2> QED BY <2>1, <2>2, <2>3, <2>4, <2>5, Before, ClientType
<1>2. TakenInv' /\ ResultInv' /\ AllWhole' = AllWhole /\ Lines' = Lines
  BY ClientFrame
<1>3. step \in PageSteps
  BY DEF PageSteps
<1>4. PageInv'
  <2>1. UNCHANGED <<job, page, armed, pages, totalBytes>>
    BY DEF printerVars, scanVars
  <2>2. armed /\ page = Len(pages) + 1 /\ AllWhole
    BY <1>3, PageInHand
  <2>3. CASE ~(page <= Len(job))
    <3>1. NothingInHand'
      BY <1>3, <2>3, PageInHand DEF NothingInHand
    <3> QED BY <1>2, <2>1, <2>2, <2>3, <3>1 DEF PageInv, PageSteps, AfterSteps
  <2>4. CASE page <= Len(job)
    <3>1. ChunksInv /\ page <= Len(job)
      BY <1>3, <2>4, PageInHand
    <3>2. ChunksInv'
      BY <1>2, <2>1, <2>4, <3>1 DEF ChunksInv, FirstStrips
    <3> QED BY <1>2, <2>1, <2>2, <3>1, <3>2 DEF PageInv, PageSteps, AfterSteps
  <2> QED BY <2>3, <2>4
<1>5. DeadlineInv'
  BY FreshType DEF DeadlineInv
<1>6. WireInv'
  <2>1. CASE sent = Len(chunks')
    BY <2>1 DEF StatusOK, printerVars, WireInv, InStepInv
  <2>2. CASE off
    <3>1. Starved'
      BY BytesOfOne DEF Starved
    <3> QED BY <2>2, <3>1 DEF WireInv, Lost, CutStrip, printerVars
  <2> QED BY <2>1, <2>2
<1> QED BY <1>1, <1>2, <1>4, <1>5, <1>6 DEF SessionInv

\* The page in hand is all of it.
LEMMA EndPageHere ==
  ASSUME SessionInv, step \in PageSteps, EndPage(chunks, pageBytes),
         UNCHANGED <<k, printerVars, faults>>, inbox' = <<>>,
         deadline' \in [kind : {"long"}, used : 0..Patience],
         off \/ (outbox = <<>> /\ Complete)
  PROVE  SessionInv'
<1>1. /\ page <= Len(job) =>
           /\ page \in 1..Len(job) /\ FirstStrips(page, chunks)
           /\ StripsWithin(job, page, Len(chunks))
           /\ Len(chunks) <= Len(Lines) /\ pageBytes = UpTo(Lines)[Len(chunks)]
      /\ ~(page <= Len(job)) => chunks = <<>>
  BY PageInHand DEF ChunksInv, NothingInHand
<1>2. cancelled \/ off \/ ~(page <= Len(job)) \/ Len(chunks) = Len(Lines)
  BY <1>1, Before DEF Complete
<1> QED BY <1>1, <1>2, Before, EndPageInv

LEMMA StatusBusyInv ==
  ASSUME SessionInv, StatusBusy PROVE SessionInv'
<1>1. /\ step = "status" /\ Receive(32) /\ First(inbox).tag = "busy"
      /\ deadline' = Fresh("long") /\ Send("POLL")
      /\ UNCHANGED <<clientVars, printerVars, faults>>
  BY DEF StatusBusy, SetDeadline
<1>2. sent = Len(chunks) /\ inbox' = <<>> /\ outbox = <<>>
  BY <1>1, StatusTags, StatusHeard
<1>3. outbox' = <<"POLL">>
  <2>1. "POLL" \in Commands
    BY DEF Commands
  <2> QED BY <1>1, <1>2, <2>1, SentAlone
<1>4. UNCHANGED <<step, k, streaming, chunk, chunks, pageBytes, scanVars>>
  BY <1>1 DEF clientVars, pageVars
<1>5. /\ ~(page <= Len(job)) => chunks = <<>> /\ pageBytes = 0
      /\ page <= Len(job) =>
           /\ Len(chunks) <= Len(Lines) /\ FirstStrips(page, chunks)
           /\ StripsWithin(job, page, Len(chunks))
           /\ pageBytes = UpTo(Lines)[Len(chunks)]
           /\ chunks # <<>> /\ job[page].streaming => streaming
  BY <1>1, PageInHand DEF ChunksInv, NothingInHand, PageSteps
<1>6. Fresh("long") # Fresh("short")
  BY FreshType
<1> QED BY <1>1, <1>2, <1>3, <1>4, <1>5, <1>6, Before, PollInv

LEMMA StatusEndInv ==
  ASSUME SessionInv, StatusEnd PROVE SessionInv'
<1>1. /\ step = "status" /\ Receive(32) /\ First(inbox).tag = "end"
      /\ deadline' = Fresh("long") /\ EndPage(chunks, pageBytes)
      /\ UNCHANGED <<k, printerVars, faults>>
  BY DEF StatusEnd, SetDeadline
<1>2. Complete /\ inbox' = <<>> /\ outbox = <<>>
  BY <1>1, StatusTags, StatusHeard
<1> QED BY <1>1, <1>2, FreshType, EndPageHere DEF PageSteps

\* A strip is announced.
LEMMA StatusReadyInv ==
  ASSUME SessionInv, StatusReady PROVE SessionInv'
<1> DEFINE m == First(inbox)
<1>1. /\ step = "status" /\ Receive(32) /\ m.tag = "ready"
      /\ deadline' = Fresh("long") /\ Send("FETCH")
      /\ chunk' = [size |-> m.size, last |-> m.last]
      /\ streaming' = (streaming \/ m.size = 0)
      /\ step' = IF m.size = 0 THEN "strip" ELSE "chunk"
      /\ UNCHANGED <<k, chunks, pageBytes, scanVars, printerVars, faults>>
  BY DEF StatusReady, SetDeadline
<1>2. /\ Offer(m) /\ sent = Len(chunks) /\ inbox' = <<>> /\ outbox = <<>>
      /\ m \in Messages
  BY <1>1, StatusTags, StatusHeard DEF First
<1> HIDE DEF m
<1>3. outbox' = <<"FETCH">> /\ outbox' \in Seq(Commands) /\ Len(outbox') <= 2
      /\ Len(outbox') <= 1
  <2>1. "FETCH" \in Commands
    BY DEF Commands
  <2>2. Len(<<"FETCH">>) <= 1
    OBVIOUS
  <2> QED BY <1>1, <1>2, <2>1, <2>2, SentAlone
<1>4. /\ page <= Len(job) /\ Len(chunks) < Len(Lines) /\ m.last \in BOOLEAN
      /\ m.size = IF job[page].streaming THEN 0 ELSE Lines[Len(chunks) + 1]
      /\ m.last => Len(chunks) + 1 = Len(Lines)
  BY <1>2 DEF Offer
<1>5. /\ armed /\ page = Len(pages) + 1 /\ AllWhole
      /\ page \in 1..(Len(job) + 1) /\ Len(job) \in Nat /\ Len(chunks) \in Nat
  BY <1>1, PageInHand DEF PageSteps
<1>6. /\ ChunksInv /\ Len(Lines) \in Nat
      /\ \A i \in 1..Len(Lines) : Lines[i] \in Nat \ {0}
      /\ job[page].streaming \in BOOLEAN
  <2>1. page <= Len(job)
    BY <1>4, <1>5
  <2> QED BY <1>1, <2>1, PageInHand DEF PageSteps
<1>7. Lines[Len(chunks) + 1] \in Nat \ {0}
  BY <1>4, <1>5, <1>6
<1>8. m.size \in Nat /\ (m.size = 0 <=> job[page].streaming)
  BY <1>4, <1>6, <1>7
<1>9. TypeInv'
  <2>1. step # "closed" /\ step' \in Steps \ {"closed"} /\ step' # "setup"
    BY <1>1 DEF Steps
  <2>2. chunk' \in [size : Nat, last : BOOLEAN] /\ streaming' \in BOOLEAN
    BY <1>1, <1>4, <1>8, Before
  <2>3. <<>> \in Seq(Messages)
    OBVIOUS
  <2> QED BY <1>1, <1>2, <1>3, <2>1, <2>2, <2>3, Before, FreshType, ClientType
<1>10. TakenInv' /\ ResultInv' /\ Lines' = Lines /\ AllWhole'
  BY <1>1, <1>5, ClientFrame
<1>11. UNCHANGED <<job, page, armed, sent, pages, totalBytes>>
  BY <1>1 DEF printerVars, scanVars
<1>12. ChunksInv'
  <2>1. /\ streaming' => job[page].streaming
        /\ job[page].streaming => streaming'
        /\ step' \in {"strip", "chunk"}
        /\ step' = "strip" => streaming'
        /\ step' = "chunk" => /\ m.size = Lines[Len(chunks) + 1]
                              /\ ~streaming'
    BY <1>1, <1>4, <1>6, <1>8 DEF ChunksInv
  <2>2. chunk'.size = m.size /\ chunk'.last = m.last
    BY <1>1
  <2> QED BY <1>1, <1>4, <1>6, <1>10, <1>11, <2>1, <2>2 DEF ChunksInv, FirstStrips
<1>13. PageInv'
  BY <1>1, <1>4, <1>5, <1>10, <1>11, <1>12
  DEF PageInv, PageSteps, AfterSteps
<1>14. DeadlineInv'
  BY <1>1, FreshType DEF DeadlineInv
<1>15. WireInv'
  <2>1. CASE m.size = 0
    <3>1. StripOK'
      BY <1>1, <1>2, <1>3, <1>11 DEF StripOK
    <3> QED BY <1>1, <1>2, <1>3, <2>1, <3>1 DEF WireInv, InStepInv
  <2>2. CASE m.size # 0
    <3>1. ChunkOK'
      BY <1>1, <1>2, <1>3, <1>8, <1>11, <2>2 DEF ChunkOK
    <3> QED BY <1>1, <1>2, <1>3, <2>2, <3>1 DEF WireInv, InStepInv
  <2> QED BY <2>1, <2>2
<1> QED BY <1>9, <1>10, <1>13, <1>14, <1>15 DEF SessionInv

\* The first 32 bytes of an end-of-page signal, whole or cut in two.
LEMMA StatusSignalInv ==
  ASSUME SessionInv, StatusSignal PROVE SessionInv'
<1>1. /\ step = "status" /\ Receive(32) /\ ~IsStatus(First(inbox))
      /\ deadline' = Fresh("long") /\ step' = "drain"
      /\ UNCHANGED <<k, pageVars, scanVars, outbox, printerVars, faults>>
  BY DEF StatusSignal, SetDeadline
<1>2. /\ outbox = <<>>
      /\ \/ off /\ inbox = <<Message("cut", 127)>>
         \/ /\ inbox = <<Message("signal", 255)>> /\ Complete
            /\ sent = Len(chunks)
  BY <1>1, StatusTags, StatusHeard DEF CutSignal
<1>3. inbox' = Skip(inbox, 32)
  BY <1>1 DEF Receive
<1>4. /\ inbox = <<Message("cut", 127)>>    => inbox' = <<Message("tail", 95)>>
      /\ inbox = <<Message("signal", 255)>> => inbox' = <<Message("tail", 223)>>
  <2>1. /\ Message("cut", 127) \in Messages /\ Message("cut", 127).len = 127
        /\ Message("signal", 255) \in Messages /\ Message("signal", 255).len = 255
    BY Said DEF Tags
  <2>2. /\ 0 < 32 /\ 32 < 127 /\ 32 < 255 /\ 127 - 32 = 95 /\ 255 - 32 = 223
        /\ 32 \in Nat
    OBVIOUS
  <2> DEFINE c == Message("cut", 127)
             g == Message("signal", 255)
  <2>3. /\ c \in Messages /\ 32 < c.len /\ c.len - 32 = 95
        /\ g \in Messages /\ 32 < g.len /\ g.len - 32 = 223
    BY <2>1, <2>2
  <2> HIDE DEF c, g
  <2>4. /\ Skip(<<c>>, 32) = <<Message("tail", c.len - 32)>>
        /\ Skip(<<g>>, 32) = <<Message("tail", g.len - 32)>>
    BY <2>2, <2>3, SkipPart
  <2>5. /\ Skip(<<c>>, 32) = <<Message("tail", 95)>>
        /\ Skip(<<g>>, 32) = <<Message("tail", 223)>>
    BY <2>3, <2>4, ZenonT(30)
  <2>6. /\ inbox = <<c>> => inbox' = <<Message("tail", 95)>>
        /\ inbox = <<g>> => inbox' = <<Message("tail", 223)>>
    BY <1>3, <2>5, ZenonT(30)
  <2> QED BY <2>6 DEF c, g
<1>5. inbox' \in Seq(Messages)
  <2>1. Message("tail", 95) \in Messages /\ Message("tail", 223) \in Messages
    BY Said DEF Tags
  <2>2. /\ <<Message("tail", 95)>> \in Seq(Messages)
        /\ <<Message("tail", 223)>> \in Seq(Messages)
    BY <2>1
  <2>3. inbox' = <<Message("tail", 95)>> \/ inbox' = <<Message("tail", 223)>>
    BY <1>2, <1>4, Zenon
  <2>4. CASE inbox' = <<Message("tail", 95)>>
    BY <2>2, <2>4
  <2>5. CASE inbox' = <<Message("tail", 223)>>
    BY <2>2, <2>5
  <2> QED BY <2>3, <2>4, <2>5
<1>6. UNCHANGED <<streaming, chunk, chunks, pageBytes>>
  BY <1>1 DEF pageVars
<1>7. TypeInv'
  <2>1. step # "closed" /\ step' \in Steps \ {"closed"} /\ step' # "setup"
    BY <1>1 DEF Steps
  <2> QED BY <1>1, <1>5, <1>6, <2>1, Before, FreshType, ClientType
<1>8. TakenInv' /\ ResultInv' /\ Lines' = Lines /\ AllWhole' = AllWhole
  BY <1>1, ClientFrame
<1>9. UNCHANGED <<job, page, armed, sent, cancelled, off, pages, totalBytes>>
  BY <1>1 DEF printerVars, scanVars
<1>10. PageInv'
  <2>1. ChunksInv => ChunksInv'
    BY <1>1, <1>6, <1>8, <1>9 DEF ChunksInv, FirstStrips
  <2>2. NothingInHand => NothingInHand'
    BY <1>6 DEF NothingInHand
  <2> QED BY <1>1, <1>8, <1>9, <2>1, <2>2
      DEF SessionInv, PageInv, PageSteps, AfterSteps
<1>11. DeadlineInv'
  BY <1>1, FreshType DEF DeadlineInv
<1>12. WireInv'
  <2>1. CASE off /\ inbox = <<Message("cut", 127)>>
    <3>1. Bytes(inbox') = 95
      <4>1. Message("tail", 95) \in Messages /\ Message("tail", 95).len = 95
        BY Said DEF Tags
      <4> QED BY <1>4, <2>1, <4>1, BytesOfOne
    <3>2. Starved'
      BY <1>1, <3>1 DEF Starved
    <3> QED BY <1>1, <1>2, <1>9, <2>1, <3>2 DEF WireInv, Lost, CutStrip
  <2>2. CASE /\ inbox = <<Message("signal", 255)>> /\ Complete
             /\ sent = Len(chunks)
    <3>1. DrainOK'
      BY <1>1, <1>2, <1>4, <1>6, <1>8, <1>9, <2>2 DEF DrainOK, Complete
    <3> QED BY <1>1, <1>2, <3>1 DEF WireInv, InStepInv
  <2> QED BY <1>2, <2>1, <2>2
<1> QED BY <1>7, <1>8, <1>10, <1>11, <1>12 DEF SessionInv

\* A deadline that is not the one after a streaming strip.
LEMMA LongDeadline ==
  ASSUME SessionInv, step # "closed", step # "status"
  PROVE  deadline \in [kind : {"long"}, used : 0..Patience]
<1>1. deadline \in [kind : {"long", "short"}, used : 0..Patience]
  BY Before
<1>2. deadline.kind # "short"
  BY DEF SessionInv, DeadlineInv
<1> QED BY <1>1, <1>2

\* The rest of the signal.
LEMMA DrainedInv ==
  ASSUME SessionInv, Drained PROVE SessionInv'
<1>1. /\ step = "drain" /\ Receive(223) /\ EndPage(chunks, pageBytes)
      /\ UNCHANGED <<k, deadline, printerVars, faults>>
  <2>1. 255 - 32 = 223
    OBVIOUS
  <2> QED BY <2>1 DEF Drained
<1>2. outbox = <<>> /\ DrainOK
  <2>1. Starved <=> Bytes(inbox) < 223
    <3>1. 255 - 32 = 223
      OBVIOUS
    <3> QED BY <1>1, <3>1 DEF Starved
  <2>2. outbox = <<>> /\ inbox # <<>> /\ (InStepInv \/ CutSignal)
    BY <1>1, <2>1, Heard
  <2> QED BY <1>1, <2>2 DEF InStepInv, CutSignal
<1>3. inbox' = <<>>
  <2>1. Message("tail", 223) \in Messages /\ Message("tail", 223).len = 223
    BY Said DEF Tags
  <2> QED BY <1>1, <1>2, <2>1, HeardWhole DEF DrainOK
<1>4. Complete
  BY <1>2 DEF DrainOK
<1>5. deadline' \in [kind : {"long"}, used : 0..Patience]
  BY <1>1, LongDeadline
<1> QED BY <1>1, <1>2, <1>3, <1>4, <1>5, EndPageHere DEF PageSteps

\* One strip more.
LEMMA OneStripMore ==
  ASSUME SessionInv, step \in {"chunk", "strip"}, NEW strip,
         strip = <<page, Len(chunks) + 1>>
  PROVE  /\ Append(chunks, strip) \in Seq(Nat \X Nat)
         /\ Len(Append(chunks, strip)) = Len(chunks) + 1
         /\ FirstStrips(page, Append(chunks, strip))
<1> DEFINE n == Len(chunks)
           more == Append(chunks, strip)
<1>1. n \in Nat /\ page \in Nat /\ chunks \in Seq(Nat \X Nat) /\ ChunksInv
  BY StripInHand
<1>2. strip \in Nat \X Nat
  BY <1>1
<1>3. /\ more \in Seq(Nat \X Nat) /\ Len(more) = n + 1 /\ more[n + 1] = strip
      /\ \A i \in 1..n : more[i] = chunks[i]
  BY <1>1, <1>2
<1>4. \A i \in 1..n : chunks[i] = <<page, i>>
  BY <1>1 DEF ChunksInv, FirstStrips
<1> HIDE DEF more, n
<1>5. \A i \in 1..Len(more) : i \in 1..n \/ i = n + 1
  BY <1>1, <1>3
<1>6. \A i \in 1..Len(more) : more[i] = <<page, i>>
  <2> TAKE i \in 1..Len(more)
  <2>1. CASE i \in 1..n
    BY <1>3, <1>4, <2>1
  <2>2. CASE i = n + 1
    BY <1>3, <2>2 DEF n
  <2> QED BY <1>5, <2>1, <2>2
<1> QED BY <1>3, <1>6 DEF FirstStrips, more, n

\* A strip over a limit.
LEMMA RefuseInv ==
  ASSUME SessionInv, step \in {"chunk", "strip"}, Refuse, ~WithinLimits,
         outbox = <<>>, UNCHANGED <<deadline, printerVars, faults>>,
         inbox' \in Seq(Messages),
         \A i \in 2..Len(inbox') : inbox'[i].tag = "pad"
  PROVE  SessionInv'
<1>1. /\ step' = "closed" /\ result' = "limit"
      /\ UNCHANGED <<k, streaming, chunk, chunks, pageBytes, totalBytes, pages,
                     outbox>>
  BY DEF Refuse, Return, pageVars
<1>2. InStep'
  BY <1>1 DEF InStep
<1>3. faults' \in 0..MaxFaults /\ faults' >= faults
  <2>1. faults \in 0..MaxFaults
    BY Before
  <2> QED BY <2>1, LimitsAssumption
<1> QED BY <1>1, <1>2, <1>3, Before, ClosedInv

LEMMA OverrunFacts ==
  ASSUME SessionInv, step \in {"chunk", "strip"},
         Overrun(Lines[Len(chunks) + 1])
  PROVE  Refuse /\ ~WithinLimits
<1>1. TooLong(Len(chunks) + 1, pageBytes + Lines[Len(chunks) + 1]) /\ Refuse
  BY DEF Overrun
<1> QED BY <1>1, StripInHand, OverPageLimit DEF TooLong

\* What becomes of a strip that was announced.
LEMMA ChunkHeard ==
  ASSUME SessionInv, ChunkRead
  PROVE  LET n     == Len(chunks) + 1
             strip == <<page, n>>
             bytes == pageBytes + Lines[n]
         IN /\ step = "chunk" /\ outbox = <<>> /\ inbox' = <<>>
            /\ sent = n /\ (chunk.last => n = Len(Lines))
            /\ ~job[page].streaming
            /\ UNCHANGED <<deadline, printerVars, faults>>
            /\ \/ Overrun(Lines[n])
               \/ /\ ~TooLong(n, bytes) /\ chunk.last
                  /\ EndPage(Append(chunks, strip), bytes) /\ UNCHANGED k
               \/ /\ ~TooLong(n, bytes) /\ ~chunk.last
                  /\ TakeStrip(strip, Lines[n]) /\ step' = "status"
                  /\ Send("POLL") /\ UNCHANGED <<k, streaming, chunk, scanVars>>
<1> DEFINE n == Len(chunks) + 1
           bytes == pageBytes + Lines[n]
<1>1. /\ step = "chunk" /\ Receive(chunk.size)
      /\ UNCHANGED <<deadline, printerVars, faults>>
  BY DEF ChunkRead
<1>2. /\ page \in 1..Len(job) /\ ChunksInv /\ Len(chunks) \in Nat
      /\ Len(Lines) \in Nat /\ Len(chunks) < Len(Lines)
      /\ Lines[n] \in Nat \ {0} /\ n \in 0..Len(Lines)
      /\ pageBytes \in 0..maxPageBytes
      /\ UpTo(Lines)[n] = bytes
      /\ StripMsg(n) \in Messages /\ StripMsg(n).tag = "strip"
      /\ StripMsg(n).len = Lines[n] /\ StripMsg(n).what = <<page, n>>
  BY <1>1, StripInHand
<1>3. /\ chunk.size = Lines[n] /\ ~streaming
      /\ chunk.last => n = Len(Lines)
  BY <1>1, <1>2 DEF ChunksInv
<1>4. outbox = <<>> /\ ChunkOK
  <2>1. Starved <=> Bytes(inbox) < chunk.size
    BY <1>1 DEF Starved
  <2>2. chunk.size \in Nat \ {0}
    BY <1>2, <1>3
  <2>3. outbox = <<>> /\ inbox # <<>> /\ (InStepInv \/ CutSignal)
    BY <1>1, <2>1, <2>2, Heard
  <2> QED BY <1>1, <2>3 DEF InStepInv, CutSignal
<1>5. inbox = <<StripMsg(n)>> /\ sent = n /\ ~job[page].streaming
  BY <1>4 DEF ChunkOK
<1> DEFINE whole == First(inbox).tag = "strip" /\ First(inbox).len = chunk.size
           strip == IF whole THEN First(inbox).what ELSE <<0, 0>>
<1>6. strip = <<page, n>>
  <2>1. First(inbox) = StripMsg(n)
    BY <1>5 DEF First
  <2> QED BY <1>2, <1>3, <2>1
<1>7. \/ Overrun(Lines[n])
      \/ /\ ~TooLong(n, bytes) /\ chunk.last
         /\ EndPage(Append(chunks, strip), bytes) /\ UNCHANGED k
      \/ /\ ~TooLong(n, bytes) /\ ~chunk.last
         /\ TakeStrip(strip, Lines[n]) /\ step' = "status" /\ Send("POLL")
         /\ UNCHANGED <<k, streaming, chunk, scanVars>>
  BY <1>3 DEF ChunkRead
<1>8. inbox' = <<>>
  <2>1. StripMsg(n).len <= chunk.size /\ chunk.size \in Nat
    BY <1>2, <1>3
  <2> HIDE DEF n
  <2> QED BY <1>1, <1>2, <1>5, <2>1, HeardWhole
<1> QED BY <1>1, <1>3, <1>4, <1>5, <1>6, <1>7, <1>8

\* A strip that was announced.
LEMMA ChunkReadInv ==
  ASSUME SessionInv, ChunkRead PROVE SessionInv'
<1> DEFINE n == Len(chunks) + 1
           strip == <<page, n>>
           bytes == pageBytes + Lines[n]
<1>1. /\ step = "chunk" /\ outbox = <<>> /\ inbox' = <<>>
      /\ sent = n /\ (chunk.last => n = Len(Lines)) /\ ~job[page].streaming
      /\ UNCHANGED <<deadline, printerVars, faults>>
  BY ChunkHeard
<1>2. /\ page \in 1..Len(job) /\ ChunksInv /\ Len(chunks) \in Nat
      /\ Len(Lines) \in Nat /\ Len(chunks) < Len(Lines)
      /\ Lines[n] \in Nat \ {0} /\ n \in 0..Len(Lines)
      /\ pageBytes \in 0..maxPageBytes
      /\ UpTo(Lines)[n] = bytes
  BY <1>1, StripInHand
<1>3. \/ Overrun(Lines[n])
      \/ /\ ~TooLong(n, bytes) /\ chunk.last
         /\ EndPage(Append(chunks, strip), bytes) /\ UNCHANGED k
      \/ /\ ~TooLong(n, bytes) /\ ~chunk.last
         /\ TakeStrip(strip, Lines[n]) /\ step' = "status" /\ Send("POLL")
         /\ UNCHANGED <<k, streaming, chunk, scanVars>>
  BY ChunkHeard
<1>4. /\ Append(chunks, strip) \in Seq(Nat \X Nat)
      /\ Len(Append(chunks, strip)) = n
      /\ FirstStrips(page, Append(chunks, strip))
  BY <1>1, OneStripMore
<1> HIDE DEF strip
<1>5. CASE Overrun(Lines[n])
  <2>1. inbox' \in Seq(Messages) /\ Len(inbox') = 0
    BY <1>1
  <2>2. Refuse /\ ~WithinLimits
    BY <1>1, <1>5, OverrunFacts
  <2> QED BY <1>1, <2>1, <2>2, RefuseInv
<1>6. ASSUME ~TooLong(n, bytes)
       PROVE  n <= maxStrips /\ bytes \in 0..maxPageBytes
  BY <1>2, <1>6, LimitsAssumption DEF TooLong
<1> HIDE DEF bytes
<1>7. CASE /\ ~TooLong(n, bytes) /\ chunk.last
            /\ EndPage(Append(chunks, strip), bytes) /\ UNCHANGED k
  <2>1. deadline' \in [kind : {"long"}, used : 0..Patience]
    BY <1>1, LongDeadline
  <2>2. /\ page <= Len(job) /\ n = Len(Lines) /\ n <= Len(Lines)
        /\ StripsWithin(job, page, n)
    BY <1>1, <1>2, <1>7 DEF StripsWithin
  <2> DEFINE more == Append(chunks, strip)
  <2> HIDE DEF more
  <2>3. /\ more \in Seq(Nat \X Nat) /\ Len(more) = n /\ FirstStrips(page, more)
        /\ EndPage(more, bytes)
    BY <1>4, <1>7 DEF more
  <2> HIDE DEF n
  <2> QED BY <1>1, <1>2, <1>6, <1>7, <2>1, <2>2, <2>3, EndPageInv
      DEF PageSteps
<1>8. CASE /\ ~TooLong(n, bytes) /\ ~chunk.last
            /\ TakeStrip(strip, Lines[n]) /\ step' = "status" /\ Send("POLL")
            /\ UNCHANGED <<k, streaming, chunk, scanVars>>
  <2>1. chunks' = Append(chunks, strip) /\ pageBytes' = bytes
    BY <1>8 DEF TakeStrip, bytes
  <2>2. outbox' = <<"POLL">>
    <3>1. "POLL" \in Commands
      BY DEF Commands
    <3> QED BY <1>1, <1>8, <3>1, SentAlone
  <2>3. deadline' = Fresh("long") /\ Fresh("long") # Fresh("short")
    <3>1. deadline.used = 0
      BY <1>1 DEF SessionInv, DeadlineInv, AfterSteps
    <3>2. deadline.kind = "long"
      BY <1>1, LongDeadline
    <3>3. deadline = [kind |-> deadline.kind, used |-> deadline.used]
      BY Before
    <3>4. deadline = Fresh("long")
      BY <3>1, <3>2, <3>3 DEF Fresh
    <3> QED BY <1>1, <3>4, FreshType
  <2>4. page <= Len(job)
    BY <1>2
  <2>5. Len(chunks') <= Len(Lines) /\ pageBytes' = UpTo(Lines)[Len(chunks')]
        /\ StripsWithin(job, page, Len(chunks'))
    BY <1>1, <1>2, <1>4, <2>1 DEF StripsWithin
  <2> QED BY <1>1, <1>4, <1>6, <1>8, <2>1, <2>2, <2>3, <2>4, <2>5,
          PollInv
<1> QED BY <1>3, <1>5, <1>7, <1>8

\* A sequence of two, and what is left of it after the first.
LEMMA Two ==
  ASSUME NEW s \in Seq(Messages), Len(s) = 2
  PROVE  /\ s = <<s[1], s[2]>> /\ s[2] \in Messages
         /\ SubSeq(s, 2, 2) = <<s[2]>>
<1>1. s[1] \in Messages /\ s[2] \in Messages
  OBVIOUS
<1>2. s = <<s[1], s[2]>>
  OBVIOUS
<1> DEFINE t == SubSeq(s, 2, 2)
<1>3. Len(t) = 1 /\ t[1] = s[2] /\ t \in Seq(Messages)
  OBVIOUS
<1> HIDE DEF t
<1>4. t = <<t[1]>>
  BY <1>3, Single
<1> QED BY <1>1, <1>2, <1>3, <1>4 DEF t

\* A streaming strip.
LEMMA StripReadInv ==
  ASSUME SessionInv, StripRead PROVE SessionInv'
<1> DEFINE n == Len(chunks) + 1
           more == Append(chunks, <<page, n>>)
<1>1. /\ step = "strip" /\ HasMessage(inbox, "strip")
      /\ UNCHANGED <<printerVars, faults>>
  BY DEF StripRead
<1>2. /\ page \in 1..Len(job) /\ ChunksInv /\ Len(chunks) \in Nat
      /\ Len(Lines) \in Nat /\ Len(chunks) < Len(Lines)
      /\ Lines[n] \in Nat \ {0} /\ n \in 0..Len(Lines)
      /\ pageBytes \in 0..maxPageBytes
      /\ UpTo(Lines)[n] = pageBytes + Lines[n]
      /\ StripMsg(n) \in Messages /\ StripMsg(n).tag = "strip"
      /\ StripMsg(n).len = Lines[n] /\ StripMsg(n).what = <<page, n>>
  BY <1>1, StripInHand
<1>3. streaming /\ job[page].streaming /\ (chunk.last => n = Len(Lines))
  BY <1>1, <1>2 DEF ChunksInv
<1>4. InStepInv /\ inbox # <<>>
  <2>1. ~Starved /\ ~CutSignal
    BY <1>1 DEF Starved, CutSignal
  <2>2. inbox # <<>>
    BY <1>1 DEF HasMessage
  <2> QED BY <2>1, <2>2 DEF SessionInv, WireInv, Lost
<1>5. /\ outbox = <<>> /\ sent = n /\ Len(inbox) = 2 /\ inbox[1] = StripMsg(n)
      /\ \/ inbox[2] = Message("pad", 16)
         \/ off /\ inbox[2] = Message("cut", 8)
  <2>1. StripOK
    BY <1>1, <1>4 DEF InStepInv
  <2> QED BY <1>4, <2>1 DEF StripOK
<1>6. inbox \in Seq(Messages) /\ inbox[2] \in Messages
      /\ inbox = <<StripMsg(n), inbox[2]>>
      /\ SubSeq(inbox, 2, 2) = <<inbox[2]>>
  <2>1. inbox \in Seq(Messages) /\ Len(inbox) = 2
    BY <1>5, Before
  <2>2. inbox = <<inbox[1], inbox[2]>>
    BY <2>1, Two
  <2>3. inbox[2] \in Messages /\ SubSeq(inbox, 2, 2) = <<inbox[2]>>
    BY <2>1, Two
  <2> HIDE DEF n
  <2> QED BY <1>5, <2>1, <2>2, <2>3, Zenon
<1>7. FirstOf(inbox, "strip") = 1 /\ BytesUpTo(inbox, 1) = Lines[n]
  <2> DEFINE a == StripMsg(n)
             b == inbox[2]
  <2>1. a \in Messages /\ b \in Messages /\ a.tag = "strip" /\ a.len = Lines[n]
        /\ inbox = <<a, b>>
    BY <1>2, <1>6
  <2> HIDE DEF a, b
  <2> QED BY <2>1, StripAndMore
<1>8. /\ inbox' = <<inbox[2]>>
      /\ \/ StripTooLong(Lines[n]) /\ Refuse /\ UNCHANGED deadline
         \/ Overrun(Lines[n]) /\ UNCHANGED deadline
         \/ /\ ~StripTooLong(Lines[n])
            /\ ~TooLong(n, pageBytes + Lines[n])
            /\ TakeStrip(<<page, n>>, Lines[n])
            /\ step' = "padding" /\ SetDeadline("long")
            /\ UNCHANGED <<k, streaming, chunk, scanVars, outbox>>
  <2>1. inbox[1].what = <<page, n>>
    BY <1>2, <1>5
  <2>2. SubSeq(inbox, 1 + 1, Len(inbox)) = <<inbox[2]>>
    <3>1. 1 + 1 = 2
      OBVIOUS
    <3> QED BY <1>5, <1>6, <3>1
  <2> HIDE DEF n
  <2> QED BY <1>7, <2>1, <2>2 DEF StripRead, n
<1>9. inbox' \in Seq(Messages) /\ Len(inbox') = 1
  BY <1>6, <1>8
<1>10. CASE Refuse /\ UNCHANGED deadline /\ ~WithinLimits
  BY <1>1, <1>5, <1>9, <1>10, RefuseInv
<1>11. StripTooLong(Lines[n]) => ~WithinLimits
  <2>1. job \in Seq(Pages) /\ n \in 1..Len(Lines)
    BY <1>2, Before
  <2>2. \A b \in Nat : StripTooLong(b) => ~(b <= maxStripBytes + 1)
    BY LimitsAssumption DEF StripTooLong
  <2>3. Lines[n] \in Nat
    BY <1>2
  <2> HIDE DEF n
  <2> QED BY <1>2, <1>3, <2>1, <2>2, <2>3, OverStripLimit
<1>12. Overrun(Lines[n]) => Refuse /\ ~WithinLimits
  BY <1>1, OverrunFacts
<1>13. CASE /\ ~StripTooLong(Lines[n])
            /\ ~TooLong(n, pageBytes + Lines[n])
            /\ TakeStrip(<<page, n>>, Lines[n])
            /\ step' = "padding" /\ SetDeadline("long")
            /\ UNCHANGED <<k, streaming, chunk, scanVars, outbox>>
  <2>1. /\ chunks' = more /\ pageBytes' = pageBytes + Lines[n]
        /\ deadline' = Fresh("long")
    BY <1>13 DEF TakeStrip, SetDeadline
  <2>2. more \in Seq(Nat \X Nat) /\ Len(more) = n /\ FirstStrips(page, more)
    BY <1>1, OneStripMore
  <2>3. n <= maxStrips /\ pageBytes + Lines[n] \in 0..maxPageBytes
    BY <1>2, <1>13, LimitsAssumption DEF TooLong
  <2>4. StripsWithin(job, page, n)
    <3>1. Lines[n] <= maxStripBytes + 1
      BY <1>2, <1>13, LimitsAssumption DEF StripTooLong
    <3>2. \A i \in 1..n : i = n \/ i \in 1..Len(chunks)
      BY <1>2
    <3>3. \A i \in 1..Len(chunks) : Lines[i] <= maxStripBytes + 1
      BY <1>2, <1>3 DEF ChunksInv, StripsWithin, Lines
    <3>4. \A i \in 1..n : Lines[i] <= maxStripBytes + 1
      BY <3>1, <3>2, <3>3
    <3> QED BY <3>4 DEF StripsWithin, Lines
  <2> HIDE DEF more
  <2>5. TypeInv'
    <3>1. step # "closed" /\ step' \in Steps \ {"closed"} /\ step' # "setup"
      BY <1>1, <1>13 DEF Steps
    <3>2. UNCHANGED <<printerVars, faults, scanVars, k, streaming, chunk, outbox>>
      BY <1>1, <1>13
    <3>3. chunks' \in Seq(Nat \X Nat) /\ Len(chunks') <= maxStrips
          /\ pageBytes' \in 0..maxPageBytes
      BY <2>1, <2>2, <2>3
    <3> QED BY <1>9, <2>1, <3>1, <3>2, <3>3, Before, FreshType, ClientType
  <2>6. TakenInv' /\ ResultInv' /\ Lines' = Lines /\ AllWhole' = AllWhole
    BY <1>1, <1>13, ClientFrame
  <2>7. UNCHANGED <<job, page, armed, sent, off, pages, totalBytes>>
    BY <1>1, <1>13 DEF printerVars, scanVars
  <2>8. PageInv'
    <3>1. armed /\ page = Len(pages) + 1 /\ AllWhole
      BY <1>1, PageInHand DEF PageSteps
    <3>2. n <= Len(Lines)
      BY <1>2
    <3>3. ChunksInv'
      BY <1>2, <1>3, <1>13, <2>1, <2>2, <2>4, <2>6, <2>7, <3>2
      DEF ChunksInv, FirstStrips
    <3>4. page <= Len(job)
      BY <1>2
    <3> QED BY <1>13, <2>6, <2>7, <3>1, <3>3, <3>4
        DEF PageInv, PageSteps, AfterSteps
  <2>9. DeadlineInv'
    BY <2>1, FreshType DEF DeadlineInv
  <2>10. WireInv'
    <3>1. outbox' = <<>> /\ Len(outbox') <= 1
      BY <1>5, <1>13
    <3>2. CASE inbox[2] = Message("pad", 16)
      <4>1. PaddingOK'
        BY <1>5, <1>8, <2>1, <2>2, <2>7, <3>1, <3>2 DEF PaddingOK
      <4> QED BY <1>13, <3>1, <4>1 DEF WireInv, InStepInv
    <3>3. CASE off /\ inbox[2] = Message("cut", 8)
      <4>1. Bytes(inbox') = 8
        <5>1. Message("cut", 8) \in Messages /\ Message("cut", 8).len = 8
          BY Said DEF Tags
        <5> QED BY <1>8, <3>3, <5>1, BytesOfOne
      <4>2. Starved'
        BY <1>13, <4>1 DEF Starved
      <4> QED BY <1>13, <2>7, <3>1, <3>3, <4>2 DEF WireInv, Lost, CutStrip
    <3> QED BY <1>5, <3>2, <3>3
  <2> QED BY <2>5, <2>6, <2>8, <2>9, <2>10 DEF SessionInv
<1> QED BY <1>8, <1>10, <1>11, <1>12, <1>13

\* After the padding of a strip, or of what there is of it.
LEMMA AfterPaddingInv ==
  ASSUME SessionInv, step = "padding", AfterPadding, inbox' = <<>>,
         off \/ sent = Len(chunks), UNCHANGED <<k, printerVars, faults>>
  PROVE  SessionInv'
<1>1. /\ outbox = <<>> /\ page <= Len(job) /\ ChunksInv
  BY PageInHand DEF SessionInv, WireInv, PageSteps
<1>2. CASE chunk.last
  <2>1. EndPage(chunks, pageBytes) /\ UNCHANGED deadline
    BY <1>2 DEF AfterPadding
  <2>2. deadline' \in [kind : {"long"}, used : 0..Patience]
    BY <2>1, LongDeadline
  <2>3. Complete
    BY <1>1, <1>2 DEF ChunksInv, Complete
  <2> QED BY <1>1, <2>1, <2>2, <2>3, EndPageHere DEF PageSteps
<1>3. CASE ~chunk.last
  <2>1. /\ step' = "status" /\ Send("POLL") /\ deadline' = Fresh("short")
        /\ UNCHANGED <<streaming, chunk, chunks, pageBytes, scanVars>>
    BY <1>3 DEF AfterPadding, SetDeadline, pageVars
  <2>2. outbox' = <<"POLL">>
    <3>1. "POLL" \in Commands
      BY DEF Commands
    <3> QED BY <1>1, <2>1, <3>1, SentAlone
  <2>3. /\ Len(chunks) <= Len(Lines) /\ FirstStrips(page, chunks)
        /\ StripsWithin(job, page, Len(chunks))
        /\ pageBytes = UpTo(Lines)[Len(chunks)] /\ streaming
    BY <1>1 DEF ChunksInv
  <2> QED BY <1>1, <2>1, <2>2, <2>3, Before, PollInv
<1> QED BY <1>2, <1>3, Before

LEMMA PaddingDrainedInv ==
  ASSUME SessionInv, PaddingDrained PROVE SessionInv'
<1>1. /\ step = "padding" /\ Receive(16) /\ AfterPadding
      /\ UNCHANGED <<k, printerVars, faults>>
  BY DEF PaddingDrained
<1>2. PaddingOK
  <2>1. Starved <=> Bytes(inbox) < 16
    BY <1>1 DEF Starved
  <2>2. InStepInv \/ CutSignal
    BY <1>1, <2>1, Heard
  <2> QED BY <1>1, <2>2 DEF InStepInv, CutSignal
<1>3. inbox' = <<>>
  <2>1. Message("pad", 16) \in Messages /\ Message("pad", 16).len = 16
    BY Said DEF Tags
  <2> QED BY <1>1, <1>2, <2>1, HeardWhole DEF PaddingOK
<1>4. sent = Len(chunks)
  BY <1>2 DEF PaddingOK
<1> QED BY <1>1, <1>3, <1>4, AfterPaddingInv

\* Between the pages, and at the end, the client keeps its deadline and has
\* no strips in hand.
LEMMA AfterFrame ==
  ASSUME SessionInv, step \in AfterSteps, step' \in AfterSteps, NEW cmd \in Commands,
         outbox' = <<cmd>>, inbox' = <<>>,
         UNCHANGED <<k, pageVars, scanVars, deadline, printerVars, faults>>
  PROVE  /\ TypeInv' /\ PageInv' /\ TakenInv' /\ ResultInv' /\ DeadlineInv'
         /\ AllWhole' = AllWhole /\ Done' = Done /\ Len(outbox') <= 1
<1>1. UNCHANGED <<streaming, chunk, chunks, pageBytes, pages, totalBytes, job,
                  page, armed, sent, cancelled>>
  BY DEF pageVars, scanVars, printerVars
<1>2. TypeInv'
  <2>1. step # "closed" /\ step' \in Steps \ {"closed"} /\ step' # "setup"
    BY DEF AfterSteps, Steps
  <2>2. outbox' \in Seq(Commands) /\ Len(outbox') <= 2 /\ inbox' \in Seq(Messages)
    OBVIOUS
  <2> QED BY <1>1, <2>1, <2>2, Before, ClientType
<1>3. TakenInv' /\ ResultInv' /\ AllWhole' = AllWhole /\ Done' = Done
  BY ClientFrame DEF AfterSteps
<1>4. PageInv'
  BY <1>1 DEF SessionInv, PageInv, PageSteps, AfterSteps, NothingInHand
<1>5. DeadlineInv'
  BY DEF SessionInv, DeadlineInv, AfterSteps
<1>6. Len(outbox') <= 1
  OBVIOUS
<1> QED BY <1>2, <1>3, <1>4, <1>5, <1>6

\* The next-page check.
LEMMA NextAnsweredInv ==
  ASSUME SessionInv, NextAnswered PROVE SessionInv'
<1>1. /\ step = "next" /\ Receive(255)
      /\ UNCHANGED <<k, pageVars, scanVars, deadline, printerVars, faults>>
  BY DEF NextAnswered
<1>2. PICK s \in NextStatus(First(inbox)) :
        /\ step' = CASE s = "done" -> "endack" [] s = "more" -> "rearm"
                     [] s = "wait" -> "next"
        /\ Send(CASE s = "done" -> "END" [] s = "more" -> "READY"
                  [] s = "wait" -> "PARAMS")
  BY DEF NextAnswered
<1>3. outbox = <<>> /\ NextOK /\ inbox # <<>>
  <2>1. Starved <=> Bytes(inbox) < 255
    BY <1>1 DEF Starved
  <2>2. outbox = <<>> /\ inbox # <<>> /\ (InStepInv \/ CutSignal)
    BY <1>1, <2>1, Heard
  <2> QED BY <1>1, <2>2 DEF InStepInv, CutSignal
<1>4. \A tag \in {"wait", "next", "none"} :
        /\ Message(tag, 255) \in Messages /\ Message(tag, 255).len = 255
        /\ Message(tag, 255).tag = tag
  BY Said DEF Tags
<1>5. \E tag \in {"wait", "next", "none"} : inbox = <<Message(tag, 255)>>
  BY <1>3 DEF NextOK
<1>6. inbox' = <<>>
  BY <1>1, <1>4, <1>5, HeardWhole
<1>7. ASSUME NEW cmd \in {"END", "READY", "PARAMS"}, Send(cmd)
      PROVE  cmd \in Commands /\ outbox' = <<cmd>>
  <2>1. cmd \in Commands
    BY DEF Commands
  <2> QED BY <1>3, <1>7, <2>1, SentAlone
<1>8. UNCHANGED <<job, page, pages, cancelled>>
  BY <1>1 DEF scanVars, printerVars
<1>9. CASE inbox = <<Message("wait", 255)>>
  <2>1. First(inbox).tag = "wait"
    BY <1>4, <1>9 DEF First
  <2>2. s = "wait"
    BY <2>1 DEF NextStatus
  <2>3. step' = "next" /\ Send("PARAMS")
    BY <1>2, <2>2
  <2>4. outbox' = <<"PARAMS">> /\ "PARAMS" \in Commands
    BY <1>7, <2>3
  <2>5. /\ TypeInv' /\ PageInv' /\ TakenInv' /\ ResultInv' /\ DeadlineInv'
        /\ AllWhole' = AllWhole /\ Len(outbox') <= 1
    BY <1>1, <1>6, <2>3, <2>4, AfterFrame DEF AfterSteps
  <2>6. AllWhole \/ cancelled
    BY <1>3, <1>4, <1>9 DEF NextOK, Done
  <2>7. NextOK'
    BY <1>3, <1>6, <1>8, <2>4, <2>5, <2>6 DEF NextOK
  <2>8. WireInv'
    BY <1>6, <2>3, <2>5, <2>7 DEF WireInv, InStepInv
  <2> QED BY <2>5, <2>8 DEF SessionInv
<1>10. CASE inbox = <<Message("next", 255)>>
  <2>1. First(inbox).tag = "next"
    BY <1>4, <1>10 DEF First
  <2>2. s = "more"
    BY <2>1 DEF NextStatus
  <2>3. step' = "rearm" /\ Send("READY")
    BY <1>2, <2>2
  <2>4. outbox' = <<"READY">> /\ "READY" \in Commands
    BY <1>7, <2>3
  <2>5. /\ TypeInv' /\ PageInv' /\ TakenInv' /\ ResultInv' /\ DeadlineInv'
        /\ AllWhole' = AllWhole /\ Len(outbox') <= 1
    BY <1>1, <1>6, <2>3, <2>4, AfterFrame DEF AfterSteps
  <2>6. AllWhole /\ page <= Len(job) /\ page = Len(pages)
    <3>1. inbox[1].tag = "next"
      BY <2>1 DEF First
    <3>2. /\ inbox # <<Message("wait", 255)>> /\ inbox # <<Message("none", 255)>>
      BY <1>4, <3>1
    <3> QED BY <1>3, <3>2 DEF NextOK
  <2>7. RearmOK'
    BY <1>6, <1>8, <2>4, <2>5, <2>6 DEF RearmOK
  <2>8. WireInv'
    BY <1>6, <2>3, <2>5, <2>7 DEF WireInv, InStepInv
  <2> QED BY <2>5, <2>8 DEF SessionInv
<1>11. CASE inbox = <<Message("none", 255)>>
  <2>1. First(inbox).tag = "none"
    BY <1>4, <1>11 DEF First
  <2>2. s = "done"
    BY <2>1 DEF NextStatus
  <2>3. step' = "endack" /\ Send("END")
    BY <1>2, <2>2
  <2>4. outbox' = <<"END">> /\ "END" \in Commands
    BY <1>7, <2>3
  <2>5. /\ TypeInv' /\ PageInv' /\ TakenInv' /\ ResultInv' /\ DeadlineInv'
        /\ Done' = Done /\ Len(outbox') <= 1
    BY <1>1, <1>6, <2>3, <2>4, AfterFrame DEF AfterSteps
  <2>6. Done
    <3>1. inbox[1].tag = "none"
      BY <2>1 DEF First
    <3>2. /\ inbox # <<Message("wait", 255)>> /\ inbox # <<Message("next", 255)>>
      BY <1>4, <3>1
    <3> QED BY <1>3, <3>2 DEF NextOK
  <2>7. EndOK("END")'
    BY <1>6, <2>4, <2>5, <2>6 DEF EndOK
  <2>8. WireInv'
    BY <1>6, <2>3, <2>5, <2>7 DEF WireInv, InStepInv
  <2> QED BY <2>5, <2>8 DEF SessionInv
<1> QED BY <1>5, <1>9, <1>10, <1>11

\* The acknowledgements at the end.
LEMMA AckHeard ==
  ASSUME SessionInv, step \in {"endack", "discack"}, Receive(32)
  PROVE  outbox = <<>> /\ inbox' = <<>> /\ Done
<1>1. Starved <=> Bytes(inbox) < 32
  BY DEF Starved
<1>2. outbox = <<>> /\ inbox # <<>> /\ (InStepInv \/ CutSignal)
  BY <1>1, Heard
<1>3. Done /\ inbox = <<Message("ack", 32)>>
  BY <1>2 DEF InStepInv, CutSignal, EndOK
<1>4. Message("ack", 32) \in Messages /\ Message("ack", 32).len = 32
  BY Said DEF Tags
<1>5. inbox' = <<>>
  BY <1>3, <1>4, HeardWhole
<1> QED BY <1>2, <1>3, <1>5

LEMMA EndAnsweredInv ==
  ASSUME SessionInv, EndAnswered PROVE SessionInv'
<1>1. /\ step = "endack" /\ Receive(32) /\ step' = "discack" /\ Send("DISC")
      /\ UNCHANGED <<k, pageVars, scanVars, deadline, printerVars, faults>>
  BY DEF EndAnswered
<1>2. outbox = <<>> /\ inbox' = <<>> /\ Done
  BY <1>1, AckHeard
<1>3. "DISC" \in Commands /\ outbox' = <<"DISC">>
  <2>1. "DISC" \in Commands
    BY DEF Commands
  <2> QED BY <1>1, <1>2, <2>1, SentAlone
<1>4. /\ TypeInv' /\ PageInv' /\ TakenInv' /\ ResultInv' /\ DeadlineInv'
      /\ Done' = Done /\ Len(outbox') <= 1
  BY <1>1, <1>2, <1>3, AfterFrame DEF AfterSteps
<1>5. EndOK("DISC")'
  BY <1>2, <1>3, <1>4 DEF EndOK
<1>6. WireInv'
  BY <1>1, <1>2, <1>4, <1>5 DEF WireInv, InStepInv
<1> QED BY <1>4, <1>6 DEF SessionInv

LEMMA DiscAnsweredInv ==
  ASSUME SessionInv, DiscAnswered PROVE SessionInv'
<1>1. /\ step = "discack" /\ Receive(32) /\ step' = "closed" /\ result' = "ok"
      /\ UNCHANGED <<k, streaming, chunk, chunks, pageBytes, totalBytes, pages,
                     outbox, deadline, printerVars, faults>>
  BY DEF DiscAnswered, Return, pageVars
<1>2. outbox = <<>> /\ inbox' = <<>> /\ Done
  BY <1>1, AckHeard
<1>3. InStep'
  BY <1>1, <1>2 DEF InStep
<1>4. faults' \in 0..MaxFaults /\ faults' >= faults /\ <<>> \in Seq(Messages)
  <2>1. faults \in 0..MaxFaults
    BY Before
  <2> QED BY <1>1, <2>1, LimitsAssumption
<1> QED BY <1>1, <1>2, <1>3, <1>4, Before, ClosedInv

-----------------------------------------------------------------------------
(***************************************************************************)
(* The deadline, and the connection.                                       *)
(***************************************************************************)
\* While it runs, the client is in step, or its printer is gone.
LEMMA RunsInStep ==
  ASSUME SessionInv, step # "closed" PROVE InStep
<1>1. CASE off
  BY <1>1 DEF InStep
<1>2. CASE ~off
  <2>1. InStepInv
    BY <1>2 DEF SessionInv, WireInv, Lost
  <2>2. CASE outbox # <<>>
    <3>1. inbox = <<>> /\ outbox = <<Head(outbox)>>
      BY <2>1, <2>2, OneCommand
    <3>2. Len(<<Head(outbox)>>) = 1
      OBVIOUS
    <3> QED BY <3>1, <3>2 DEF InStep
  <2>3. CASE outbox = <<>>
    <3>1. \/ Len(inbox) \in {0, 1}
          \/ Len(inbox) = 2 /\ inbox[2] = Message("pad", 16)
      <4>1. step \in Steps
        BY Before
      <4>2. \A m : Len(<<m>>) = 1
        OBVIOUS
      <4>3. Len(<<>>) = 0
        OBVIOUS
      <4> QED BY <1>2, <2>1, <2>3, <4>1, <4>2, <4>3
          DEF InStepInv, DialOK, SetupOK, StatusOK, ChunkOK, StripOK, PaddingOK,
              DrainOK, NextOK, RearmOK, EndOK, Steps
    <3>2. Message("pad", 16).tag = "pad"
      BY Said DEF Tags
    <3>3. \A i \in 2..Len(inbox) : inbox[i].tag = "pad"
      <4>1. CASE Len(inbox) \in {0, 1}
        BY <4>1
      <4>2. CASE Len(inbox) = 2 /\ inbox[2] = Message("pad", 16)
        <5>1. \A i \in 2..2 : i = 2
          OBVIOUS
        <5> QED BY <3>2, <4>2, <5>1
      <4> QED BY <3>1, <4>1, <4>2
    <3> QED BY <2>3, <3>3 DEF InStep
  <2> QED BY <2>2, <2>3
<1> QED BY <1>1, <1>2

\* The deadline that ends a page, with a printer that is on, does so after all
\* the page's strips.
LEMMA TimeoutEndsPageInv ==
  ASSUME SessionInv, TimeoutEndsPage, "slow" \notin Faults PROVE SessionInv'
<1>1. /\ DeadlinePasses /\ step = "status" /\ streaming /\ inbox' = <<>>
      /\ deadline' = Fresh("long") /\ EndPage(chunks, pageBytes)
      /\ UNCHANGED <<k, printerVars>>
  BY DEF TimeoutEndsPage, SetDeadline
<1>2. Starved /\ Bytes(inbox) < 32
  BY <1>1 DEF DeadlinePasses, Starved
<1>3. (outbox = <<>> \/ off \/ Overdue) /\ UNCHANGED faults
  <2>1. PollAfterStrip
    BY <1>1 DEF PollAfterStrip
  <2> QED BY <1>1, <2>1 DEF DeadlinePasses, Fault
<1>4. Overdue => outbox = <<>>
  <2>1. Overdue => deadline.used # 0
    BY <1>1, LimitsAssumption DEF Overdue, PollAfterStrip
  <2> QED BY <1>1, <2>1 DEF SessionInv, DeadlineInv, AfterSteps
<1>5. ASSUME ~off PROVE outbox = <<>> /\ Complete
  <2>1. outbox = <<>> /\ StatusOK
    <3>1. InStepInv
      BY <1>5 DEF SessionInv, WireInv, Lost
    <3> QED BY <1>1, <1>3, <1>4, <1>5, <3>1 DEF InStepInv
  <2>2. inbox \in Seq(Messages)
    BY Before
  <2>3. ASSUME Len(inbox) = 1 PROVE inbox[1].len < 32
    <3>1. inbox = <<inbox[1]>> /\ inbox[1] \in Messages
      BY <2>2, <2>3, Single
    <3> QED BY <1>2, <3>1, BytesOfOne
  <2>4. /\ Message("busy", 32).len = 32 /\ Message("end", 32).len = 32
        /\ Message("signal", 255).len = 255
    BY Said DEF Tags
  <2>5. Len(chunks) = Len(Lines)
    BY <2>1, <2>3, <2>4 DEF StatusOK, Offer
  <2> QED BY <2>1, <2>5 DEF Complete
<1> QED BY <1>1, <1>3, <1>5, FreshType, EndPageHere DEF PageSteps

\* Half a padding is all there is only if the printer is gone.
LEMMA TimeoutIgnoredInv ==
  ASSUME SessionInv, TimeoutIgnored PROVE SessionInv'
<1>1. /\ DeadlinePasses /\ step = "padding" /\ inbox' = <<>>
      /\ AfterPadding /\ UNCHANGED <<k, printerVars>>
  BY DEF TimeoutIgnored
<1>2. Starved /\ Bytes(inbox) < 16 /\ outbox = <<>> /\ UNCHANGED faults
  BY <1>1 DEF DeadlinePasses, Starved, SessionInv, WireInv
<1>3. off
  <2>1. ~PaddingOK
    <3>1. Message("pad", 16) \in Messages /\ Message("pad", 16).len = 16
      BY Said DEF Tags
    <3> QED BY <1>2, <3>1, BytesOfOne DEF PaddingOK
  <2> QED BY <1>1, <2>1 DEF SessionInv, WireInv, InStepInv, Lost
<1> QED BY <1>1, <1>2, <1>3, AfterPaddingInv

\* An error is an end, whatever it is.
LEMMA FailedInv ==
  ASSUME SessionInv, step # "closed", step' = "closed",
         result' \in {"io", "limit"}, result' = "limit" => ~WithinLimits,
         faults' = faults \/ (faults < MaxFaults /\ faults' = faults + 1),
         UNCHANGED <<k, pageVars, totalBytes, pages, outbox, inbox, deadline,
                     printerVars>>
  PROVE  SessionInv'
<1>1. InStep'
  <2>1. InStep /\ UNCHANGED <<outbox, inbox, off>>
    BY RunsInStep DEF printerVars
  <2> QED BY <2>1 DEF InStep
<1>2. faults' \in 0..MaxFaults /\ faults' >= faults
  <2>1. faults \in 0..MaxFaults
    BY Before
  <2> QED BY <2>1, LimitsAssumption
<1>3. UNCHANGED <<streaming, chunk, chunks, pageBytes>>
  BY DEF pageVars
<1> QED BY <1>1, <1>2, <1>3, Before, ClosedInv

\* A limit that is noticed before an error is one that the scan exceeds.
LEMMA LimitFirstFacts ==
  ASSUME SessionInv, LimitFirst PROVE ~WithinLimits
<1>1. CASE step = "strip" /\ Starved /\ Bytes(inbox) > maxStripBytes
  <2> DEFINE n == Len(chunks) + 1
  <2>1. /\ page \in 1..Len(job) /\ job \in Seq(Pages) /\ ChunksInv
        /\ n \in 1..Len(Lines) /\ Lines[n] \in Nat
        /\ StripMsg(n).tag = "strip" /\ Bytes(inbox) \in Nat
    BY <1>1, StripInHand, Before, BytesType
  <2>2. ~HasMessage(inbox, "strip")
    BY <1>1 DEF Starved
  <2>3. ~InStepInv
    <3>1. inbox # <<>>
      BY <1>1, BytesOfOne, LimitsAssumption
    <3>2. ~(Len(inbox) = 2 /\ inbox[1] = StripMsg(n))
      BY <2>1, <2>2 DEF HasMessage
    <3> QED BY <1>1, <3>1, <3>2 DEF InStepInv, StripOK
  <2>4. Bytes(inbox) < Lines[n]
    BY <1>1, <2>3 DEF SessionInv, WireInv, Lost, CutStrip
  <2>5. ~(Lines[n] <= maxStripBytes + 1)
    BY <1>1, <2>1, <2>4, LimitsAssumption
  <2>6. job[page].streaming
    BY <1>1, <2>1 DEF ChunksInv
  <2> HIDE DEF n
  <2> QED BY <2>1, <2>5, <2>6, OverStripLimit
<1>2. CASE /\ step \in {"drain", "padding"} /\ chunks # <<>>
           /\ Len(pages) >= maxPages \/ totalBytes + pageBytes > maxTotalBytes
  <2>1. /\ AllWhole /\ page = Len(pages) + 1 /\ Len(pages) \in Nat
        /\ job \in Seq(Pages) /\ Len(chunks) \in Nat
        /\ page <= Len(job) => /\ page \in 1..Len(job) /\ ChunksInv
                               /\ Len(Lines) \in Nat
        /\ ~(page <= Len(job)) => NothingInHand
    BY <1>2, PageInHand DEF PageSteps
  <2>2. page <= Len(job)
    BY <1>2, <2>1 DEF NothingInHand
  <2>3. /\ Len(chunks) \in 0..Len(Lines) /\ pageBytes = UpTo(Lines)[Len(chunks)]
    BY <2>1, <2>2 DEF ChunksInv
  <2>4. totalBytes = UpTo(SizesIn(job))[page - 1]
    <3>1. page - 1 = Len(pages)
      BY <2>1
    <3> QED BY <2>1, <3>1 DEF SessionInv, TakenInv
  <2>5. \/ page > maxPages
        \/ UpTo(SizesIn(job))[page - 1] + UpTo(Lines)[Len(chunks)] > maxTotalBytes
    BY <1>2, <2>1, <2>3, <2>4, LimitsAssumption
  <2> QED BY <2>1, <2>2, <2>3, <2>5, OverScanLimit
<1> QED BY <1>1, <1>2 DEF LimitFirst

LEMMA TimeoutFailsInv ==
  ASSUME SessionInv, TimeoutFails PROVE SessionInv'
<1>1. /\ DeadlinePasses /\ step' = "closed"
      /\ result' = IF LimitFirst THEN "limit" ELSE "io"
      /\ UNCHANGED <<k, pageVars, totalBytes, pages, outbox, inbox, deadline,
                     printerVars>>
  BY DEF TimeoutFails, Return
<1>2. faults' = faults \/ (faults < MaxFaults /\ faults' = faults + 1)
  BY <1>1 DEF DeadlinePasses, Fault
<1>3. step # "closed"
  BY <1>1 DEF DeadlinePasses, Starved
<1> QED BY <1>1, <1>2, <1>3, LimitFirstFacts, FailedInv

LEMMA ConnectionBreaksInv ==
  ASSUME SessionInv, ConnectionBreaks PROVE SessionInv'
BY LimitFirstFacts, FailedInv DEF ConnectionBreaks, Fault, Return

\* A step that changes nothing.
LEMMA NothingHappens ==
  ASSUME SessionInv, UNCHANGED vars PROVE SessionInv'
<1> USE DEF vars, clientVars, pageVars, scanVars, printerVars
<1>1. /\ AllWhole' = AllWhole /\ WithinLimits' = WithinLimits /\ Done' = Done
      /\ Lines' = Lines /\ Complete' = Complete /\ ChunksInv' = ChunksInv
  BY LimitsFrame DEF AllWhole, Done, Lines, Complete, ChunksInv
<1>2. TypeInv'
  BY DEF SessionInv, TypeInv, TypeOK
<1>3. PageInv' /\ TakenInv' /\ ResultInv' /\ DeadlineInv'
  BY <1>1 DEF SessionInv, PageInv, NothingInHand, TakenInv, ResultInv, DeadlineInv
<1>4. WireInv'
  <2>1. \A i : StripMsg(i)' = StripMsg(i)
    BY <1>1 DEF StripMsg
  <2>2. \A m : Offer(m)' = Offer(m)
    BY <1>1 DEF Offer
  <2>3. /\ SetupOK => SetupOK'
        /\ StatusOK => StatusOK'
    BY <1>1, <2>2 DEF SetupOK, StatusOK
  <2>4. (ChunkOK => ChunkOK') /\ (StripOK => StripOK')
    BY <2>1 DEF ChunkOK, StripOK
  <2>5. /\ DialOK => DialOK'
        /\ PaddingOK => PaddingOK'
        /\ DrainOK => DrainOK'
        /\ NextOK => NextOK'
        /\ RearmOK => RearmOK'
        /\ EndOK("END") => EndOK("END")'
        /\ EndOK("DISC") => EndOK("DISC")'
    BY <1>1 DEF DialOK, PaddingOK, DrainOK, NextOK, RearmOK, EndOK
  <2>6. InStepInv => InStepInv'
    BY <2>3, <2>4, <2>5 DEF InStepInv
  <2>7. Lost => Lost'
    BY <1>1 DEF Lost, Starved, CutSignal, CutStrip
  <2>8. InStep => InStep'
    BY DEF InStep
  <2> QED BY <2>6, <2>7, <2>8 DEF SessionInv, WireInv
<1> QED BY <1>2, <1>3, <1>4 DEF SessionInv

-----------------------------------------------------------------------------
(***************************************************************************)
(* The theorems.  They are about a printer whose answer to a streaming     *)
(* POLL comes within the 2 s the code gives it, if it comes: a later one   *)
(* ends the page too early, as the run of SlowPoll shows.                  *)
(***************************************************************************)
LEMMA StepInv ==
  ASSUME SessionInv, [Next]_vars, "slow" \notin Faults PROVE SessionInv'
<1>1. CASE Client
  BY <1>1, DialInv, SetupAnsweredInv, StatusBusyInv, StatusReadyInv, StatusEndInv,
     StatusSignalInv, DrainedInv, ChunkReadInv, StripReadInv, PaddingDrainedInv,
     NextAnsweredInv, RearmedInv, EndAnsweredInv, DiscAnsweredInv,
     TimeoutEndsPageInv, TimeoutIgnoredInv, TimeoutFailsInv DEF Client
<1>2. CASE ConnectionBreaks
  BY <1>2, ConnectionBreaksInv
<1>3. CASE Printer
  BY <1>3, AnswerPlainInv, AnswerParamsInv, AnswerReadyInv, AnswerPollInv,
     AnswerFetchInv DEF Printer
<1>4. CASE Cancel
  BY <1>4, CancelInv
<1>5. CASE PowerLost
  BY <1>5, PowerLostInv
<1>6. CASE Returned \/ UNCHANGED vars
  BY <1>6, NothingHappens DEF Returned
<1> QED BY <1>1, <1>2, <1>3, <1>4, <1>5, <1>6 DEF Next

\* The invariant of a session.
LEMMA SessionInvariant ==
  ASSUME "slow" \notin Faults PROVE Spec => []SessionInv
<1>1. SessionInv /\ [Next]_vars => SessionInv'
  BY StepInv
<1> QED BY <1>1, InitInv, PTL DEF Spec

\* The types the run checks hold for every job and every limit.
THEOREM SessionTypes ==
  ASSUME "slow" \notin Faults PROVE Spec => []TypeOK
<1>1. SessionInv => TypeOK
  BY DEF SessionInv, TypeInv
<1> QED BY <1>1, SessionInvariant, PTL

\* The client is never behind or ahead of the printer by a message: while it
\* waits, all that can come is the answer to its last command.
THEOREM ClientInStep ==
  ASSUME "slow" \notin Faults PROVE Spec => []InStep
<1>1. SessionInv => InStep
  BY RunsInStep DEF SessionInv, WireInv
<1> QED BY <1>1, SessionInvariant, PTL

\* The pages taken are the pages that lay in the feeder, in both modes and for
\* every way in which the printer may end a page.
THEOREM PagesAreFaithful ==
  ASSUME "slow" \notin Faults PROVE Spec => []PagesFaithful
<1>1. SessionInv => PagesFaithful
  <2> SUFFICES ASSUME SessionInv, ~cancelled PROVE PagesFaithful
    BY DEF PagesFaithful
  <2>1. \A p : PageOf(p) = PageIn(job, p)
    BY DEF PageOf, PageIn
  <2>2. pages \in Seq(Seq(Nat \X Nat)) /\ job \in Seq(Pages)
    BY DEF SessionInv, TypeInv
  <2>3. off \/ \A p \in 1..Len(pages) : p <= Len(job) /\ pages[p] = PageOf(p)
    <3>1. CASE off
      BY <3>1
    <3>2. CASE AllWhole
      BY <2>1, <2>2, <3>2 DEF AllWhole, Whole
    <3> QED BY <3>1, <3>2 DEF SessionInv, ResultInv
  <2>4. ASSUME result = "ok" PROVE pages = [p \in 1..Len(job) |-> PageOf(p)]
    <3>1. AllWhole /\ Len(pages) = Len(job)
      BY <2>4 DEF SessionInv, ResultInv, Done
    <3>2. \A p \in 1..Len(job) : pages[p] = PageOf(p)
      BY <2>1, <3>1 DEF AllWhole, Whole
    <3>3. pages = [p \in 1..Len(pages) |-> pages[p]]
      BY <2>2
    <3> QED BY <3>1, <3>2, <3>3
  <2> QED BY <2>3, <2>4 DEF PagesFaithful
<1> QED BY <1>1, SessionInvariant, PTL

\* The limits reject a scan exactly when it exceeds one of them.
THEOREM LimitsAreExact ==
  ASSUME "slow" \notin Faults PROVE Spec => []LimitsExact
<1>1. SessionInv => LimitsExact
  <2> SUFFICES ASSUME SessionInv PROVE LimitsExact
    OBVIOUS
  <2>1. ASSUME result = "ok", ~cancelled PROVE WithinLimits
    <3>1. AllWhole /\ Len(pages) = Len(job)
      BY <2>1 DEF SessionInv, ResultInv, Done
    <3>2. /\ totalBytes = UpTo(SizesIn(job))[Len(job)]
          /\ PagesWithin(job, Len(job))
      BY <3>1 DEF SessionInv, TakenInv
    <3>3. totalBytes <= maxTotalBytes /\ Len(job) <= maxPages
          /\ job \in Seq(Pages)
      BY <3>1, LimitsAssumption DEF SessionInv, TypeInv, TypeOK
    <3> QED BY <3>2, <3>3, LimitsFacts
  <2>2. result = "limit" => ~WithinLimits
    BY DEF SessionInv, ResultInv
  <2> QED BY <2>1, <2>2 DEF LimitsExact
<1> QED BY <1>1, SessionInvariant, PTL

\* In step with a printer that has answered, the client waits in vain only for
\* a printer that is out of strips, which it takes for the end of the page.
LEMMA AnswerSuffices ==
  ASSUME SessionInv, InStepInv, outbox = <<>>, Starved
  PROVE  step = "status" /\ streaming
<1>1. step \in Steps /\ step # "closed" /\ step # "dial" /\ inbox \in Seq(Messages)
  BY Before DEF Starved
<1>2. ASSUME NEW m \in Messages, inbox = <<m>> PROVE Bytes(inbox) = m.len
  BY <1>2, BytesOfOne
<1>3. \A tag \in Tags, len \in Nat :
        inbox = <<Message(tag, len)>> => Bytes(inbox) = len
  <2> TAKE tag \in Tags, len \in Nat
  <2>1. Message(tag, len) \in Messages /\ Message(tag, len).len = len
    BY Said
  <2> QED BY <1>2, <2>1
<1>4. ASSUME Len(inbox) = 1
      PROVE  inbox = <<inbox[1]>> /\ inbox[1] \in Messages
             /\ Bytes(inbox) = inbox[1].len
  BY <1>1, <1>2, <1>4, Single
<1>5. step # "setup"
  <2> SUFFICES ASSUME step = "setup" PROVE FALSE
    OBVIOUS
  <2>1. k \in 1..13 /\ AnswerLen(Setup[k]) \in Nat
    <3>1. k \in 1..13
      BY Before DEF SessionInv, TypeInv
    <3> QED BY <3>1, AnswerFacts
  <2>2. Len(inbox) = 1 /\ inbox[1].len = AnswerLen(Setup[k])
    BY DEF InStepInv, SetupOK
  <2>3. Bytes(inbox) < AnswerLen(Setup[k])
    BY DEF Starved
  <2> QED BY <1>4, <2>1, <2>2, <2>3
<1>6. step # "chunk" /\ step # "strip"
  <2>1. ASSUME step = "chunk" PROVE FALSE
    <3>1. inbox = <<StripMsg(Len(chunks) + 1)>>
      BY <2>1 DEF InStepInv, ChunkOK
    <3>2. /\ StripMsg(Len(chunks) + 1) \in Messages
          /\ StripMsg(Len(chunks) + 1).len = chunk.size
          /\ chunk.size \in Nat
      BY <2>1, StripInHand DEF ChunksInv
    <3>3. Bytes(inbox) < chunk.size
      BY <2>1 DEF Starved
    <3> QED BY <1>2, <3>1, <3>2, <3>3
  <2>2. ASSUME step = "strip" PROVE FALSE
    <3>1. Len(inbox) = 2 /\ inbox[1] = StripMsg(Len(chunks) + 1)
      BY <2>2 DEF InStepInv, StripOK
    <3>2. inbox[1].tag = "strip"
      BY <2>2, <3>1, StripInHand
    <3> QED BY <2>2, <3>1, <3>2 DEF Starved, HasMessage
  <2> QED BY <2>1, <2>2
<1>7. step \notin {"padding", "drain", "next"}
  <2>1. /\ step = "padding" => inbox = <<Message("pad", 16)>>
        /\ step = "drain"   => inbox = <<Message("tail", 223)>>
        /\ step = "next"    => \E tag \in {"wait", "next", "none"} :
                                 inbox = <<Message(tag, 255)>>
    BY DEF InStepInv, PaddingOK, DrainOK, NextOK
  <2>2. /\ step = "padding" => Bytes(inbox) = 16
        /\ step = "drain"   => Bytes(inbox) = 223
        /\ step = "next"    => Bytes(inbox) = 255
    BY <1>3, <2>1 DEF Tags
  <2> QED BY <2>2 DEF Starved
<1>8. step \notin {"rearm", "endack", "discack"}
  <2>1. step \in {"rearm", "endack", "discack"} =>
          \E tag \in {"ready", "ack"} : inbox = <<Message(tag, 32)>>
    BY DEF InStepInv, RearmOK, EndOK
  <2>2. step \in {"rearm", "endack", "discack"} => Bytes(inbox) = 32
    BY <1>3, <2>1 DEF Tags
  <2> QED BY <2>2 DEF Starved
<1>9. step = "status"
  BY <1>1, <1>5, <1>6, <1>7, <1>8 DEF Steps
<1>10. streaming
  <2>1. StatusOK /\ Bytes(inbox) < 32
    BY <1>9 DEF InStepInv, Starved
  <2>2. /\ Message("busy", 32).len = 32 /\ Message("end", 32).len = 32
        /\ Message("signal", 255).len = 255
    BY Said DEF Tags
  <2>3. /\ page <= Len(job) /\ job[page].streaming /\ Len(chunks) = Len(Lines)
    BY <1>4, <2>1, <2>2 DEF StatusOK, Offer
  <2>4. page \in 1..(Len(job) + 1) /\ Len(job) \in Nat
        /\ (page <= Len(job) => ChunksInv /\ Len(Lines) # 0)
    BY <1>9, PageInHand DEF PageSteps
  <2>5. page <= Len(job)
    BY <2>3, <2>4
  <2>6. chunks # <<>>
    BY <2>3, <2>4, <2>5
  <2> QED BY <2>3, <2>4, <2>5, <2>6 DEF ChunksInv
<1> QED BY <1>9, <1>10

\* Only a fault, or a printer that stays busy between the pages for as long as
\* one deadline lasts, fails a scan.
THEOREM FaultsAloneFail ==
  ASSUME "slow" \notin Faults PROVE Spec => OnlyFaultsFail
<1>1. SessionInv /\ SessionInv' /\ [Next]_vars =>
        [result' = "io" /\ faults' = 0
           => /\ step \in {"next", "rearm", "endack", "discack"}
              /\ deadline.used = Patience]_vars
  <2> SUFFICES ASSUME SessionInv, SessionInv', Next, result' = "io", faults' = 0,
                      ~UNCHANGED vars
               PROVE  step \in AfterSteps /\ deadline.used = Patience
    BY DEF AfterSteps
  <2>1. step # "closed"
    BY DEF Next, Client, Dial, SetupAnswered, StatusBusy, StatusReady, StatusEnd,
       StatusSignal, Drained, ChunkRead, StripRead, PaddingDrained, NextAnswered,
       Rearmed, EndAnswered, DiscAnswered, TimeoutEndsPage, TimeoutIgnored,
       TimeoutFails, DeadlinePasses, Starved, ConnectionBreaks, Printer,
       AnswerPlain, AnswerParams, AnswerReady, AnswerPoll, AnswerFetch, Asked,
       Cancel, PowerLost, Returned
  <2>2. result = "none"
    BY <2>1 DEF SessionInv, TypeInv, TypeOK
  <2>3. ASSUME NEW s, NEW b, EndPage(s, b) PROVE FALSE
    BY <2>2, <2>3 DEF EndPage, AfterPage, Return
  <2>4. ASSUME NEW b, Overrun(b) PROVE FALSE
    BY <2>4 DEF Overrun, Refuse, Return
  <2>5. ASSUME Client PROVE TimeoutFails
    <3>1. ~Dial /\ ~SetupAnswered /\ ~StatusBusy /\ ~StatusReady
          /\ ~StatusSignal /\ ~NextAnswered /\ ~Rearmed /\ ~EndAnswered
      BY <2>2 DEF Dial, SetupAnswered, StatusBusy, StatusReady, StatusSignal,
         NextAnswered, Rearmed, EndAnswered, scanVars, clientVars
    <3>2. ~StatusEnd /\ ~Drained /\ ~TimeoutEndsPage /\ ~DiscAnswered
      BY <2>3 DEF StatusEnd, Drained, TimeoutEndsPage, DiscAnswered, Return
    <3>3. ~AfterPadding
      BY <2>2, <2>3 DEF AfterPadding, scanVars
    <3>4. ~PaddingDrained /\ ~TimeoutIgnored
      BY <3>3 DEF PaddingDrained, TimeoutIgnored
    <3>5. ~ChunkRead /\ ~StripRead
      BY <2>2, <2>3, <2>4 DEF ChunkRead, StripRead, Refuse, Return, scanVars
    <3> QED BY <2>5, <3>1, <3>2, <3>4, <3>5 DEF Client
  <2>6. ~ConnectionBreaks /\ ~Cancel /\ ~PowerLost
    <3>1. faults \in 0..MaxFaults
      BY Before
    <3>2. faults + 1 # 0
      BY <3>1
    <3> QED BY <3>2 DEF ConnectionBreaks, Cancel, PowerLost, Fault
  <2>7. ~Printer /\ ~Returned
    BY <2>1, <2>2 DEF Printer, AnswerPlain, AnswerParams, AnswerReady, AnswerPoll,
       AnswerFetch, Returned, clientVars, scanVars
  <2>8. TimeoutFails
    BY <2>5, <2>6, <2>7 DEF Next
  <2>9. /\ DeadlinePasses /\ ~(step = "status" /\ streaming)
        /\ UNCHANGED <<outbox, inbox, deadline, printerVars>>
    BY <2>8 DEF TimeoutFails
  <2>10. Starved /\ (outbox = <<>> \/ off \/ Overdue) /\ faults = 0
    <3>1. faults \in 0..MaxFaults /\ faults + 1 # 0
      <4>1. faults \in 0..MaxFaults
        BY Before
      <4> QED BY <4>1
    <3> QED BY <2>9, <3>1 DEF DeadlinePasses, Fault
  <2>11. ~off /\ InStepInv
    BY <2>1, <2>10 DEF SessionInv, ResultInv, WireInv, Lost
  <2>12. outbox # <<>> /\ Overdue
    BY <2>9, <2>10, <2>11, AnswerSuffices
  <2>13. deadline.used = Patience
    BY <2>1, <2>12 DEF Overdue, PollAfterStrip, SessionInv, DeadlineInv
  <2>14. step \in AfterSteps
    BY <2>1, <2>12, <2>13, LimitsAssumption DEF SessionInv, DeadlineInv
  <2> QED BY <2>13, <2>14
<1>2. [][result' = "io" /\ faults' = 0
           => /\ step \in {"next", "rearm", "endack", "discack"}
              /\ deadline.used = Patience]_vars <=> OnlyFaultsFail
  BY DEF OnlyFaultsFail
<1> QED BY <1>1, <1>2, SessionInvariant, PTL DEF Spec
-----------------------------------------------------------------------------
(***************************************************************************)
(* Download implements Transfer.                                           *)
(***************************************************************************)
Feeder == [p \in 1..Len(job) |-> PageOf(p)]

LEMMA FeederFacts ==
  ASSUME SessionInv
  PROVE  /\ Len(Feeder) = Len(job) /\ Len(job) \in Nat /\ Len(pages) \in Nat
         /\ \A p \in 1..Len(job) : Feeder[p] = PageIn(job, p)
         /\ AllWhole => pages = SubSeq(Feeder, 1, Len(pages))
         /\ AllWhole /\ Len(pages) = Len(job) => pages = Feeder
<1>1. job \in Seq(Pages) /\ pages \in Seq(Seq(Nat \X Nat))
  BY DEF SessionInv, TypeInv
<1>2. /\ Len(Feeder) = Len(job)
      /\ \A p \in 1..Len(job) : Feeder[p] = PageIn(job, p)
  BY <1>1 DEF Feeder, PageOf, PageIn
<1>3. pages = [p \in 1..Len(pages) |-> pages[p]] /\ Len(pages) \in Nat
      /\ Len(job) \in Nat
  BY <1>1
<1>4. ASSUME AllWhole
      PROVE  /\ Len(pages) <= Len(job)
             /\ \A p \in 1..Len(pages) : pages[p] = Feeder[p]
  BY <1>2, <1>3, <1>4 DEF AllWhole, Whole
<1>5. SubSeq(Feeder, 1, Len(pages)) = [p \in 1..Len(pages) |-> Feeder[p]]
  BY <1>3
<1>6. Feeder = [p \in 1..Len(job) |-> Feeder[p]]
  BY <1>2 DEF Feeder
<1>7. AllWhole => pages = SubSeq(Feeder, 1, Len(pages))
  BY <1>3, <1>4, <1>5
<1>8. AllWhole /\ Len(pages) = Len(job) => pages = Feeder
  BY <1>3, <1>4, <1>6
<1> QED BY <1>2, <1>3, <1>7, <1>8

\* A page that is taken is made of the first strips of the page that is due.
LEMMA PageTaken ==
  ASSUME SessionInv, Client, pages' # pages
  PROVE  /\ step \in PageSteps /\ UNCHANGED <<result, printerVars>>
         /\ \E strips \in Seq(Nat \X Nat) :
              /\ pages' = Append(pages, strips) /\ strips # <<>>
              /\ page \in 1..Len(job) /\ FirstStrips(page, strips)
              /\ Len(strips) <= Len(Lines)
<1> DEFINE Good(strips) ==
             /\ pages' = Append(pages, strips) /\ strips # <<>>
             /\ page \in 1..Len(job) /\ FirstStrips(page, strips)
             /\ Len(strips) <= Len(Lines)
<1>1. ASSUME NEW s, NEW b, EndPage(s, b)
      PROVE  pages' = Append(pages, s) /\ s # <<>> /\ UNCHANGED result
  BY <1>1 DEF EndPage, AfterPage
<1>2. ASSUME step \in PageSteps, EndPage(chunks, pageBytes)
      PROVE  Good(chunks) /\ chunks \in Seq(Nat \X Nat) /\ UNCHANGED result
  <2>1. pages' = Append(pages, chunks) /\ chunks # <<>> /\ UNCHANGED result
    BY <1>1, <1>2
  <2>2. page \in 1..Len(job) /\ ChunksInv
    BY <1>2, <2>1, PageInHand DEF NothingInHand
  <2> QED BY <2>1, <2>2, Before DEF ChunksInv
<1>3. ~Dial /\ ~SetupAnswered /\ ~StatusBusy /\ ~StatusReady /\ ~StatusSignal
      /\ ~NextAnswered /\ ~Rearmed /\ ~EndAnswered /\ ~DiscAnswered /\ ~TimeoutFails
  BY DEF Dial, SetupAnswered, StatusBusy, StatusReady, StatusSignal, NextAnswered,
     Rearmed, EndAnswered, DiscAnswered, TimeoutFails, scanVars, clientVars
<1>4. ~StripRead
  BY DEF StripRead, Overrun, Refuse, scanVars
<1>5. ASSUME StatusEnd \/ Drained \/ TimeoutEndsPage
      PROVE  /\ step \in PageSteps /\ EndPage(chunks, pageBytes)
             /\ UNCHANGED printerVars
  BY <1>5 DEF StatusEnd, Drained, TimeoutEndsPage, PageSteps
<1>6. ASSUME PaddingDrained \/ TimeoutIgnored
      PROVE  /\ step \in PageSteps /\ EndPage(chunks, pageBytes)
             /\ UNCHANGED printerVars
  <2>1. AfterPadding => EndPage(chunks, pageBytes)
    BY DEF AfterPadding, scanVars
  <2> QED BY <1>6, <2>1 DEF PaddingDrained, TimeoutIgnored, PageSteps
<1>7. ASSUME ChunkRead
      PROVE  /\ step \in PageSteps /\ UNCHANGED <<result, printerVars>>
             /\ \E strips \in Seq(Nat \X Nat) : Good(strips)
  <2> DEFINE strip == <<page, Len(chunks) + 1>>
             more  == Append(chunks, strip)
             bytes == pageBytes + Lines[Len(chunks) + 1]
  <2>1. step = "chunk" /\ EndPage(more, bytes) /\ UNCHANGED printerVars
    BY <1>7, ChunkHeard DEF Overrun, Refuse, scanVars
  <2>2. /\ more \in Seq(Nat \X Nat) /\ Len(more) = Len(chunks) + 1
        /\ FirstStrips(page, more)
    BY <2>1, OneStripMore
  <2>3. page \in 1..Len(job) /\ Len(chunks) + 1 \in 0..Len(Lines)
        /\ Len(Lines) \in Nat
    BY <2>1, StripInHand
  <2> HIDE DEF more, bytes
  <2>4. pages' = Append(pages, more) /\ more # <<>> /\ UNCHANGED result
    BY <1>1, <2>1
  <2>5. Len(more) <= Len(Lines)
    BY <2>2, <2>3
  <2>6. Good(more)
    BY <2>2, <2>3, <2>4, <2>5
  <2> QED BY <2>1, <2>2, <2>4, <2>6 DEF PageSteps
<1>8. CASE ChunkRead
  BY <1>7, <1>8
<1>9. CASE ~ChunkRead
  <2>1. /\ step \in PageSteps /\ EndPage(chunks, pageBytes)
        /\ UNCHANGED printerVars
    BY <1>3, <1>4, <1>5, <1>6, <1>9 DEF Client
  <2>2. Good(chunks) /\ chunks \in Seq(Nat \X Nat) /\ UNCHANGED result
    BY <1>2, <2>1
  <2> QED BY <2>1, <2>2
<1> QED BY <1>8, <1>9

\* It is taken as Transfer takes it.
LEMMA PageTake ==
  ASSUME SessionInv, SessionInv', Client, pages' # pages PROVE T!Take
<1>1. PICK strips \in Seq(Nat \X Nat) :
        /\ pages' = Append(pages, strips) /\ strips # <<>>
        /\ page \in 1..Len(job) /\ FirstStrips(page, strips)
        /\ Len(strips) <= Len(Lines)
  BY PageTaken
<1>2. /\ step \in PageSteps
      /\ UNCHANGED <<result, job, page, armed, sent, busy, cancelled, off>>
  BY PageTaken DEF printerVars
<1>3. /\ AllWhole /\ page = Len(pages) + 1 /\ job \in Seq(Pages)
      /\ result = "none" /\ pages \in Seq(Seq(Nat \X Nat)) /\ Len(pages) \in Nat
  BY <1>2, PageInHand DEF SessionInv, TypeInv, TypeOK, PageSteps
<1>4. Len(strips) \in 1..Len(Lines) /\ Len(Lines) \in Nat
  <2>1. Len(Lines) \in Nat
    BY <1>1, <1>2, <1>3, PageInHand
  <2> QED BY <1>1, <2>1
<1> DEFINE whole == PageIn(job, page)
           n == Len(strips)
<1>5. Len(whole) = Len(Lines) /\ \A i \in 1..Len(Lines) : whole[i] = <<page, i>>
  BY <1>4 DEF PageIn, Lines
<1>6. SubSeq(whole, 1, n) = strips
  <2>1. SubSeq(whole, 1, n) = [i \in 1..n |-> whole[i]]
    BY <1>4, <1>5
  <2>2. strips = [i \in 1..n |-> strips[i]]
    OBVIOUS
  <2>3. \A i \in 1..n : strips[i] = <<page, i>> /\ whole[i] = <<page, i>>
    BY <1>1, <1>4, <1>5 DEF FirstStrips
  <2> HIDE DEF whole, n
  <2> QED BY <2>1, <2>2, <2>3
<1>7. n = Len(whole) \/ cancelled \/ off
  <2>1. CASE cancelled \/ off
    BY <2>1
  <2>2. CASE ~(cancelled \/ off)
    <3>1. AllWhole'
      BY <1>2, <2>2 DEF SessionInv, ResultInv
    <3>2. Whole(job, Append(pages, strips)) /\ Whole(job, pages)
      BY <1>1, <1>2, <1>3, <3>1 DEF AllWhole
    <3>3. Len(pages) + 1 <= Len(job)
      BY <1>1, <1>3
    <3>4. strips = PageIn(job, Len(pages) + 1)
      BY <1>3, <3>2, <3>3, WholeAppend
    <3> QED BY <1>3, <3>4
  <2> QED BY <2>1, <2>2
<1>8. /\ Len(pages) < Len(Feeder) /\ pages = SubSeq(Feeder, 1, Len(pages))
      /\ Feeder[Len(pages) + 1] = whole
  <2>1. /\ Len(Feeder) = Len(job) /\ Len(job) \in Nat
        /\ pages = SubSeq(Feeder, 1, Len(pages))
    BY <1>3, FeederFacts
  <2>2. Feeder[page] = whole
    BY <1>1, FeederFacts
  <2>3. Len(pages) < Len(job)
    <3>1. \A m, l \in Nat : m + 1 \in 1..l => m < l
      OBVIOUS
    <3> QED BY <1>1, <1>3, <2>1, <3>1, Zenon
  <2> HIDE DEF whole
  <2> QED BY <1>3, <2>1, <2>2, <2>3
<1>9. n \in 1..Len(whole) /\ pages' = Append(pages, SubSeq(whole, 1, n))
  BY <1>1, <1>4, <1>5, <1>6
<1>10. Feeder' = Feeder
  BY <1>2 DEF Feeder, PageOf
<1> HIDE DEF whole, n
<1>11. LET due == Feeder[Len(pages) + 1] IN
         \E i \in 1..Len(due) :
           /\ i = Len(due) \/ cancelled \/ off
           /\ pages' = Append(pages, SubSeq(due, 1, i))
  BY <1>7, <1>8, <1>9
<1> QED BY <1>2, <1>3, <1>8, <1>10, <1>11 DEF T!Take, Feeder

\* A step of the client that takes no page ends the transfer, or does not show.
LEMMA ClientEnds ==
  ASSUME SessionInv, SessionInv', Client, pages' = pages
  PROVE  T!Finish \/ UNCHANGED T!vars
<1>1. step # "closed" /\ UNCHANGED printerVars
  BY DEF Client, Dial, SetupAnswered, StatusBusy, StatusReady, StatusEnd,
     StatusSignal, Drained, ChunkRead, StripRead, PaddingDrained, NextAnswered,
     Rearmed, EndAnswered, DiscAnswered, TimeoutEndsPage, TimeoutIgnored,
     TimeoutFails, DeadlinePasses, Starved
<1>2. result = "none" /\ result' \in Results
  BY <1>1 DEF SessionInv, TypeInv, TypeOK
<1>3. UNCHANGED <<job, cancelled, off>> /\ Feeder' = Feeder
  BY <1>1 DEF printerVars, Feeder, PageOf
<1>4. CASE result' = "none"
  BY <1>2, <1>3, <1>4 DEF T!vars, Feeder
<1>5. CASE result' \in {"io", "limit"}
  BY <1>2, <1>3, <1>5 DEF T!Finish, Feeder
<1>6. CASE result' = "ok"
  <2>1. Done'
    BY <1>6 DEF SessionInv, ResultInv
  <2>2. Done
    BY <1>3, <2>1 DEF Done, AllWhole
  <2>3. pages = Feeder \/ cancelled
    BY <2>2, FeederFacts DEF Done
  <2> QED BY <1>2, <1>3, <1>6, <2>3 DEF T!Finish, Feeder
<1> QED BY <1>2, <1>4, <1>5, <1>6 DEF Results

\* Every step of a download is a step of a transfer, or does not show.
LEMMA StepTakes ==
  ASSUME SessionInv, SessionInv', [Next]_vars PROVE [T!Next]_T!vars
<1>1. CASE Client
  BY <1>1, PageTake, ClientEnds DEF T!Next
<1>2. CASE ConnectionBreaks
  <2>1. /\ result = "none" /\ result' \in {"io", "limit"}
        /\ UNCHANGED <<job, pages, cancelled, off>>
    <3>1. result = "none"
      BY <1>2 DEF ConnectionBreaks, SessionInv, TypeInv, TypeOK
    <3> QED BY <1>2, <3>1 DEF ConnectionBreaks, Return, printerVars
  <2>2. Feeder' = Feeder
    BY <2>1 DEF Feeder, PageOf
  <2>3. T!Finish
    BY <2>1, <2>2 DEF T!Finish, Feeder
  <2> QED BY <2>3 DEF T!Next
<1>3. CASE Cancel
  <2>1. cancelled' = TRUE /\ UNCHANGED <<job, pages, result, off>>
    BY <1>3 DEF Cancel, clientVars, scanVars
  <2>2. Feeder' = Feeder
    BY <2>1 DEF Feeder, PageOf
  <2>3. T!Stop
    BY <2>1, <2>2 DEF T!Stop, Feeder
  <2> QED BY <2>3 DEF T!Next
<1>4. CASE PowerLost
  <2>1. off' = TRUE /\ UNCHANGED <<job, pages, result, cancelled>>
    BY <1>4 DEF PowerLost, clientVars, scanVars
  <2>2. Feeder' = Feeder
    BY <2>1 DEF Feeder, PageOf
  <2>3. T!Die
    BY <2>1, <2>2 DEF T!Die, Feeder
  <2> QED BY <2>3 DEF T!Next
<1>5. CASE Printer \/ Returned \/ UNCHANGED vars
  <2>1. UNCHANGED <<job, pages, result, cancelled, off>>
    BY <1>5 DEF Printer, AnswerPlain, AnswerParams, AnswerReady, AnswerPoll,
       AnswerFetch, Busy, Returned, vars, clientVars, scanVars, printerVars
  <2>2. Feeder' = Feeder
    BY <2>1 DEF Feeder, PageOf
  <2> QED BY <2>1, <2>2 DEF T!vars, Feeder
<1> QED BY <1>1, <1>2, <1>3, <1>4, <1>5 DEF Next

\* Seen from its caller, a download takes the pages over one at a time, whole
\* and in order.
THEOREM ImplementsTransfer ==
  ASSUME "slow" \notin Faults PROVE Spec => TakesPages
<1>1. Init => T!Init
  <2> SUFFICES ASSUME Init PROVE T!Init
    OBVIOUS
  <2> DEFINE F(j) == [p \in 1..Len(j) |->
                        [i \in 1..Len(j[p].strips) |-> <<p, i>>]]
  <2>1. [p \in 1..Len(job) |-> PageOf(p)] = F(job)
    BY DEF PageOf
  <2>2. F(job) \in {F(j) : j \in Jobs}
    BY DEF Init
  <2> QED BY <2>1, <2>2 DEF Init, T!Init
<1>2. SessionInv /\ SessionInv' /\ [Next]_vars => [T!Next]_T!vars
  BY StepTakes
<1> QED BY <1>1, <1>2, SessionInvariant, PTL DEF Spec, TakesPages, T!Spec
=============================================================================
