# samsung-scan: TLA+ models, model checking and proofs

`samsung-scan` makes a Mac a Scan-to-PC destination of a Samsung M2070W: it
registers "My Mac" with the printer, polls the printer over SNMP, downloads
what is scanned over TCP port 9400 and saves it as a PDF or JPEG on the
Desktop. This directory models the daemon and the printer it talks to, checks
the models with TLC and proves with TLAPS every safety property that TLC
finds to hold, for every value of the constants.

Paths below are relative to the repository; `main.go` is
`cmd/samsung-scan/main.go`, and `http.go`, `snmp.go`, `tcp.go` and
`assemble.go` are the files of `internal/httpclient`, `internal/snmp`,
`internal/tcp` and `internal/imageutil`.

## 1. Inventory

| Component | State it keeps | Operations | Model |
|---|---|---|---|
| Agent, the loop of `run()`, one process per logged-in user | `registered`, `instanceID`, `lastState`, `consecutiveFailures` | start, tick, register, hand over, poll, recover, fetch and save, exit | `ScanToPC` |
| HTTP client (`http.go`) | none | `Register`, `Deregister`, `PostAppList`, `GetUserSelect` | `ScanToPC`, by outcome |
| SNMP client (`snmp.go`) | none | `Poll`; BER encoder and decoder | `SnmpCodec`, `SnmpPoll`; by outcome in `ScanToPC` |
| Download client (`tcp.go`) | the locals of `Download`: strips and bytes of the page, pages, deadline | setup, POLL/FETCH loop, `readJPEGStrip`, next-page check, END and DISC | `Download`, `StripStream`; abstractly `Transfer` |
| Saving (`downloadAndSave`) | none | assemble, encode, write | `ScanToPC!Save`, by outcome; the resolution in `PageSize` |
| Strip assembly, PDF (`assemble.go`) | none | `findSOI`, `splitStrips`, `AssembleStrips`, `PagesToPDF` | `StripAssembly`, without the JPEG and PDF libraries |
| Network guard (`lookupARPMAC`) | none | one `arp -n` before a registration | `ScanToPC!LookupARP`, by outcome |
| Fast user switching (`isActiveConsoleUser`) | owner of `/dev/console` | sampled once a tick | `console` in `ScanToPC` |
| launchd and signals | the processes | start at login, restart, SIGTERM, SIGKILL | `Launch`, `Terminate`, `Exit`, `Kill` |
| Printer: table and LCD (external) | the Mac's entry and InstanceID, the menu, the selection | ADD, DELETE, AppList; people at the LCD | `ScanToPCState`, `ScanToPC` |
| Printer: scan engine (external) | pages, strips, whether it is armed | answers to the commands on port 9400 | `ScanSession` |
| Command line | none | `--cleanup`: one DELETE | `ScanToPC!Cleanup` |
| `GetCapabilities`, install scripts, Docker, CI | | | not modelled |

**How they interact.** The agents of two users never talk to each other. They
share the printer, which holds at most one entry for the Mac, because every
agent sends the same UserID and the same UniqueID (a hash of the host name). An
agent registers while its user owns the console, polls the OID of the
InstanceID it was given, posts its profile when the scan menu opens
(Triggered), and when a scan is confirmed (Ready) reads the selection and
downloads. Everything an agent does is a blocking call with a timeout from one
loop; what it read before a call may be stale after it.

**What is hard.** Two agents and the printer interleave freely. The printer
forgets its table when it loses power, and not when the network is gone, and the
agent cannot tell the two apart. A request may be handled after its sender has
given up. One request (DELETE) names the entry by an identity both agents share.
In the download, an answer's length depends on its content, so one wrong
decision shifts every later read; one deadline has the meaning "end of page".

**What makes the components correct.** At most one agent serves, and the
destination always comes back; an entry always has somebody who removes it; a
failure count that trips exactly once; a confirmed scan is acted on, in the
format confirmed, for the user who confirmed it. For a download: the pages are
those in the feeder, whole and in order; limits reject exactly what exceeds
them; client and printer stay in step; it ends. `PROJECT.json` lists the
hazards line by line.

## 2. The agents and the printer: `ScanToPCState`, `ScanToPC`

`ScanToPCState` has the constants, the state, `Init` and what the printer does
with a request; `ScanToPC` has the actions, the fairness and the properties.

`pc[u]` names the network exchange that agent `u` does next. One exchange is one
step; the code between two exchanges belongs to the step before it. So a tick
of `run()` is `Tick*` (it samples `console`, as `isActive()` does), then the
branch it chose:

| `run()` (`main.go`) | Actions |
|---|---|
| 107-144 start-up DELETE and locals | `Startup` |
| 153-163, 208, 219, 224 the tick and its three branches | `TickRegister`, `TickHandover`, `TickIdle`, `TickPoll` |
| 163-177 ARP guard | `LookupARP` |
| 179-205 registration | `RegisterOK`, `RegisterFails`, `PostAppList` |
| 208-217 user switched away | `Handover` |
| 224-251 failed poll, recovery | `PollFails`, `Recover` |
| 252-301 answered poll | `PollAnswered`, `PostAppList`, `UserSelectOurs`, `UserSelectSkipped` |
| 305-347 download and save | `DownloadOK`, `DownloadFails`, `Save` |
| 146-158 SIGTERM, deferred DELETE | `Terminate`, `Exit` |
| 366-374 `--cleanup` in another process | `Cleanup` |

The environment: `SwitchConsole`, `PowerOff` (clears the table; InstanceIDs start
again if `"idreset"` is among the faults), `PowerOn`, `LinkDown`, `LinkUp`, `Late*`
(a request whose sender gave up is handled), `Kill`, and the people at the LCD
(`OpenMenu`, `Confirm`, `CloseMenu`) and at the Mac (`Cleanup`). `Faults` says which
kinds may happen in a run and `MaxFaults` how many.

Printer behaviour that `src/` does not show is taken from how the code uses it:
an ADD is refused while an entry with the UniqueID exists (`main.go:240`), a DELETE
removes whatever entry there is, an AppList counts only while the menu is open.

`Destination` is the abstract specification: one server at a time, handed over
only through having none; only the server takes a scan up; a scan lands only
with somebody who took it up. `ScanToPC` implements it under the mapping
`server <- Server, busy <- Busy, landed <- Landed` (property `OneDestination`).

### Properties

| Property | Says |
|---|---|
| `AtMostOneServing` | no two agents believe the printer's entry to be theirs |
| `FailureCountConsistent` | a registered agent is below the threshold unless it is giving the registration up; one without has 0 or the count that tripped |
| `NoOrphanEntry` | an entry has an agent that will remove it, alive or about to start |
| `SelectionFresh` | a scan is saved with the selection it was taken with |
| `Recovers` | whoever stays the console user ends up serving for good |
| `ReadyIsServed` | Ready is acted on until the printer leaves it |
| `Announced` | a menu newly opened is announced to, or left |
| `OneDestination` | the refinement of `Destination` |
| `OwnScan` | a scan lands on the Desktop of the user who confirmed it (does not hold) |

## 3. The download: `ByteStream`, `ScanSession`, `Download`

`ByteStream` is a TCP stream as the sequence of messages that were written to it: a
read takes a number of bytes, across message borders if need be, and leaves a
`"tail"` that nobody understands. Sums of lengths are a recursive function (`UpTo`),
so that they can be reasoned about for any stream. `ScanSession` has the state and
the printer; `Download` has the client, one action per read of `tcp.Download` and
what the code decides on it:

| `Download` (`tcp.go`) | Actions |
|---|---|
| 215-288 probe and setup | `Dial`, `SetupAnswered` |
| 304-340 POLL and its answers | `StatusBusy`, `StatusReady`, `StatusEnd`, `StatusSignal`, `Drained` |
| 342-401 the two ways to read a strip | `ChunkRead`, `StripRead`, `PaddingDrained`, with the limits: `StripTooLong`, `TooLong`, `Overrun`, `Refuse` |
| 403-423 end of a page | `EndPage`, `AfterPage` |
| 425-463 next page | `NextAnswered`, `Rearmed` |
| 465-479 end of the session | `EndAnswered`, `DiscAnswered` |
| 308-316, 176-179, other reads that fail | `TimeoutEndsPage`, `TimeoutIgnored`, `TimeoutFails`, `ConnectionBreaks`, with `LimitFirst` |

The printer answers one command a step; it may be busy (at most `MaxBusy` times in a
row), in normal or streaming mode page by page; out of strips it says so in one of
two ways or, in streaming mode, falls silent; not armed by READY it offers
placeholder strips for ever. After the last page it may still announce another one
(`NextPage`; the comment at 403-406), for which it then has no strips; that it
announces a page too early while the feeder holds one is not modelled. Faults: it is
late for a streaming POLL (`slow`) or for anything else (`stall`), the connection
breaks (`drop`), Stop is pressed (`cancel`), it loses power in the middle of an
answer (`off`).

**Deadlines.** `deadline` is the kind last set, 30 s (`long`) or 2 s (`short`),
and how much of it busy answers have used up; only setting a deadline resets it,
at the places where the code calls `SetDeadline`. It passes when nothing is left
for the printer to answer, when it is used up (`Patience` busy answers), or when
it is the short one and the exchange is any other than the POLL after a strip.
With a command still to be answered in time it passes only by a fault (`slow`,
`stall`).

**Limits.** A limit is checked before the error of the read it follows: a streaming
strip by what has come of it (`StripTooLong`, 155), the pages after the tail of a
signal or the padding of a last strip, whose read errors the code ignores. So a
scan that is over a limit is refused as such even if its last read fails (`LimitFirst`).

`Transfer` is the abstract specification: pages are taken over one at a time,
whole and in order; only Stop or a printer that dies cuts one, and nothing
follows it; a transfer that ends well has every page or was stopped. `Download`
implements it (`TakesPages`). This is what `ScanToPC` assumes of a download:
`DownloadOK` is a `Transfer` that ends well, with as many pages as it took (none
if it was stopped at once), `DownloadFails` one that does not.

| Property | Says |
|---|---|
| `PagesFaithful` | the pages are those in the feeder, whole, in order, and all of them if the scan ends well, unless Stop is pressed |
| `TakesPages` | the refinement of `Transfer`, Stop and power loss included |
| `InStep` | no answer but the one to the last command is ever on its way |
| `OnlyFaultsFail` | without a fault a download fails only where a busy printer uses up the one deadline from the last strip to the next READY, or to DISC |
| `LimitsExact` | a scan is rejected for its size exactly when it exceeds one of the five limits |
| `Ends` | every download returns |
| `ScanHasPage`, `WaitsForPrinter` | what comments of `tcp.go` say (do not hold) |

## 4. A poll, byte by byte: `SnmpCodec`, `SnmpPoll`

`SnmpCodec` has the encoder and decoder of `snmp.go` as operators on sequences of
bytes, under the names of the Go functions. `SnmpPoll` is one poll after another:
`Ask` builds the request (193-205), `Parse` reads the reply (215-222), `GiveUp` is a
reply that does not come (207-213), `Unsent` an error of the socket (196-205), which
the agent treats like a poll without an answer (`main.go:228`). What recurs
(`digits`, `nth`, the printer's `Arcs`) is a recursive function on numbers. An
InstanceID is an `int` of Go, which has nine digits to the base 128 at most
(`InstanceIDsAssumption`); the lengths in a message then fit into the one byte `tlv`
gives them. The printer decodes the request with a reader of OIDs of its own
(`Arcs`), has an entry of that InstanceID or not, and may answer with lengths in
each of the three BER forms, another request-id, OCTET STRING or INTEGER, either
byte order, a value of the wrong length, or a reply cut anywhere.

| Property | Says |
|---|---|
| `RequestNamesEntry` | the request names the agent's entry and no other |
| `PollExact` | a poll that is sent returns the state of that entry if the printer has it and the reply arrives whole, and `ErrNoResponse` otherwise |

`PollExact` is what lets `ScanToPC` say that a poll succeeds exactly when
`Answers(u)`: the entry is there, and it is the one the agent's InstanceID names.

## 5. Strips and pages: `StripStream`, `StripAssembly`, `PageSize`

`StripStream` is a streaming page byte by byte: a strip and its padding for each
FETCH, `ReadBytes` and `ReadByte` of `readJPEGStrip` (149-171), each with its
timeout (`ReadBytesFails`, `ReadByteFails`), `Drain` (173-179), and the page handed
to `StripAssembly`, which has `findSOI`, `splitStrips` and the limits of
`AssembleStrips`. The connection may go silent at each read. `PageSize` follows a
resolution from UserSelect.xml (`main.go:285`) through `buildParams` to the strips
the printer makes of A4 and the limits on the canvas.

| Property | Says |
|---|---|
| `StripsWhole` | the strips read are the strips sent, whatever is in them and in the padding; it lets `Download` take a strip for one message |
| `StripsFound` | the strips `AssembleStrips` decodes are the strips sent |
| `StripLimit` | only a strip over `maxStripBytes` is refused, and one that passes is over it by one byte at most |
| `EveryResolutionFits` | a page of every accepted resolution can be assembled (does not hold) |

A strip of the model is a JPEG as the printer sends it: SOI, EOI and between them no
bare `ff d8` or `ff d9`, and no fill bytes. `MarkersAssumption` says what of it
`readJPEGStrip` depends on and `OneSOIAssumption` what `findSOI` does. With a fill
byte before EOI `readJPEGStrip` would miss it (it takes the byte after each `ff`
with it), and an `ff d8` inside a marker segment would be taken for a strip.

## 6. Runs

| Run | Instance | Checks |
|---|---|---|
| `safety` | 2 users, threshold 3, guard, every fault but `idreset`, any 2 | `TypeOK`, `AtMostOneServing`, `FailureCountConsistent`, `OneDestination` |
| `recovery` | 2 users, any 2 of switch, power, idreset, loss, kill, term, cleanup, fair | `NoOrphanEntry`, `Recovers` |
| `panel` | 1 user, 2 formats, any 3 of the faults but switch, link and late, fair | `SelectionFresh`, `ReadyIsServed`, `Announced` |
| `session` | 33 scans of 1 to 4 pages, below, at and above each limit, any 2 of stall, drop, off, cancel, fair | `TypeOK`, `PagesFaithful`, `InStep`, `LimitsExact`, `TakesPages`, `OnlyFaultsFail`, `Ends` |
| `poll` | 11 InstanceIDs around the boundaries of the encoding | `RequestNamesEntry`, `PollExact` |
| `strips` | pages of up to 2 of 33 strips, 4 paddings | `StripsWhole`, `StripsFound`, `StripLimit` |
| `partition` | 1 user, one link failure | `Recovers` is violated |
| `stale_console` | 2 users, one switch | `OwnScan` is violated |
| `slow_poll` | one late answer | `PagesFaithful` is violated |
| `stopped_early` | Stop once | `ScanHasPage` is violated |
| `long_feed` | no faults, two busy answers | `WaitsForPrinter` is violated |
| `dpi` | the seven resolutions | `EveryResolutionFits` is violated |

**Why the bounds are enough.** Two users, because every property about agents speaks
of one agent and another one, and the printer has one entry; a third adds no new
relation (the theorems hold for any number). Two faults are enough for the
interactions that matter (a switch during an outage, a late DELETE after a power
cycle, a kill during a handover); the threshold of the code, 3, is used where it is
the question, and 2 where only its being crossed is. The state space stays finite
because InstanceIDs are handed out only as often as entries go, which takes a fault
or the start of an agent. In a download the sizes are chosen so that every strip,
status and padding has another length than the read it may be mistaken for, and one
strip has the 16 bytes of a padding, one the 255 of a PARAMS answer; the limits are
small because only the comparison with them matters. That on a strip, 320 bytes, is
met by streaming strips of 321 bytes (which pass, since the byte after the last `ff`
is not counted), 322 and 700, and by one of 322 in normal mode, where it does not
apply. `MaxBusy = Patience = 2`: a printer can use up a deadline, or answer just
before; that a deadline is shared shows with two exchanges. InstanceIDs: 2 and 4,
which look like BER tags, 48, which is one, and both sides of one, two and three
bytes. Two strips show a boundary between strips; the limit of 7 bytes lies between
the shortest strip and the longest.

`MCScanToPC` adds the symmetry of users; it is used only for invariants and for
`OneDestination`, an action property that treats the users alike. Deadlock
is checked everywhere; in `Download` a scan that has returned stutters (`Returned`).

**Fairness.** `ScanToPC`: weak fairness of every agent (its ticker fires, each call
it makes has a timeout, `http.go:164`, `tcp.go:89`, `main.go:224`), of launchd
(`KeepAlive`), and of the printer's power and network coming back. Nothing is
assumed of people, faults or delayed requests. `Download`: weak fairness of the
client (each read has a deadline) and of the printer as a whole, with a bound on
busy answers: against a printer that is busy for ever the POLL loop does not end,
since each answer renews the deadline.

Every property of a passing run has a mutant in `PROJECT.json`: an operator of the same
module with one plausible mistake that makes that property fail in that run.

## 7. What the code does not do

- `partition`: after an outage on the Mac's side the printer still holds the entry;
  the one DELETE was sent while it was out of reach (`main.go:244`), and each
  later ADD is a DUPLICATE_USER. The destination comes back only with a
  restart or `--cleanup`.
- `stale_console`: the console user is sampled once a tick (`main.go:160`); after
  a switch in that tick the new user's scan lands on the previous user's Desktop.
- `slow_poll`: a POLL answered later than 2 s in streaming mode ends the page
  (`tcp.go:310`); the page is cut and passes for whole.
- `stopped_early`: a scan stopped before its first strip succeeds with no pages
  (`tcp.go:407`), and `pages[0]` panics (`main.go:337`) or an empty PDF is saved.
- `long_feed`: the PARAMS loop sets no deadline (`tcp.go:432`); a printer that
  takes more than 30 s from the last strip of a page to the next READY is given
  up although it answers, and the pages received are lost.
- `dpi`: the limit on pixels (`assemble.go:68`) refuses every A4 page at 1200
  DPI, after it has been downloaded.

The passing runs leave out exactly the faults these depend on: `recovery` has no
`link` and no `late`, `session` has no `slow`. `panel` has no `late` and one user,
because an AppList handled in a later menu, or posted by the agent of a user who
was switched away from, lets the LCD accept a new selection while an agent is between
GetUserSelect and its download, which `SelectionFresh` forbids.

## 8. Proofs

Each theorem holds for every value of the constants that satisfies the named
assumptions of the module it speaks of; TLC evaluates those assumptions on the
instances of §6. The last column is what a theorem assumes besides.

| Theorem | States | Assumes |
|---|---|---|
| `ScanToPCProofs!TypeCorrect` | `Spec => []TypeOK` | |
| `ScanToPCProofs!FailureCountCorrect` | `Spec => []FailureCountConsistent` | |
| `RegistrationProofs!OneServer` | `Spec => []AtMostOneServing` | InstanceIDs are not reused |
| `RegistrationProofs!EntryHasOwner` | `Spec => []NoOrphanEntry` | no request is lost or delayed |
| `RefinementProofs!ImplementsDestination` | `Spec => OneDestination` | InstanceIDs are not reused |
| `SelectionProofs!FormatOfTheOwner` | `Spec => []SelectionFresh` | no `late`, no `switch` |
| `DownloadProofs!SessionTypes` | `Spec => []TypeOK` | no `slow` |
| `DownloadProofs!ClientInStep` | `Spec => []InStep` | no `slow` |
| `DownloadProofs!PagesAreFaithful` | `Spec => []PagesFaithful` | no `slow` |
| `DownloadProofs!LimitsAreExact` | `Spec => []LimitsExact` | no `slow` |
| `DownloadProofs!FaultsAloneFail` | `Spec => OnlyFaultsFail` | no `slow` |
| `DownloadProofs!ImplementsTransfer` | `Spec => TakesPages` | no `slow` |
| `StripProofs!StripsComeWhole` | `Spec => []StripsWhole` | |
| `StripProofs!StripLimitHolds` | `Spec => []StripLimit` | |
| `StripProofs!StripsAreFound` | `Spec => []StripsFound` | |
| `SnmpProofs!RequestNamesOwnEntry` | `Spec => []RequestNamesEntry` | |
| `SnmpProofs!PollIsExact` | `Spec => []PollExact` | |

**Agents.**

- `AgentInv` is `TypeOK`, `FailureCountConsistent` and `Control`. Neither of the
  first two is inductive alone: that a count stays at or below the threshold
  needs the fact that an agent polls only while registered and below it, which is what
  `Control` says of `pc` and `registered`.
- `IdentityInv` = `Fresh /\ Unique`: every InstanceID known to an agent or in the
  table is below `nextID`, and no two agents hold the same one. A new registration
  gets `nextID`, so it keeps `Unique` because of `Fresh`. Two agents that both serve
  hold the entry's InstanceID, hence are one.
- `OwnershipInv` = `Online /\ NoOrphanEntry`: with no lost or delayed request the
  link is up and nothing is under way late, so `Deregister` either reaches the printer
  or finds it off, and then without a table.
- `ImplementsDestination` uses `AgentInv /\ IdentityInv` to know that `Server`
  is the only element of `Serving`; then each step is a `Claim`
  (`RegisterOK`), a `Release` (whatever clears the entry or unregisters), an
  `Accept` (a poll that saw Ready), a `Land`, `Drop` or `Die`, or a stutter.
- `PanelInv`: the format is read in one exchange and the scan taken in the next, and
  people may use the LCD in between. What keeps them in agreement is that only an
  AppList makes the Mac a choice of the menu (`Offered`): while the agent is between
  its poll and the end of the download it posts none, so a menu opened meanwhile
  accepts no selection, and what is Ready is what was read (`StillSelected`). That
  nobody else posts one needs one agent (`Alone`, from no `switch`) and none on its
  way (no `late`).

**A download.** `SessionInv` has a part for each thing that could go wrong.
`WireInv` says for each step of the client what the printer may have been asked and
what may be on its way (one case per step: `DialOK`, `SetupOK`, ..., `EndOK`), or
that the printer is gone (`Lost`); it is `InStep` made inductive. It needs
`PageInv`, because how many bytes an answer has depends on where in which page the
printer is: the strips in hand are the first of the page the printer is on,
`pageBytes` their sum, and the pages before are whole. `TakenInv` and `ResultInv`
give `totalBytes` and the outcome: `limit` only beyond a limit. The converse needs
that whatever was taken is within the limits, strip by strip (`StripsWithin`). A
read that is cut short may be refused as well: what has come of a strip is never
more than the strip (`CutStrip`), so a limit it exceeds is exceeded by the scan.
`DeadlineInv` says where a deadline may be short and where it may be used up:
without it a timeout could not be told from the end of a page. From `SessionInv`
each property follows; in `ImplementsTransfer` the steps that take a page over are
`Take`, those that return `Finish`, the faults `cancel` and `off` are `Stop` and
`Die`, and the others stutter. `slow` is excluded because a late answer to a
streaming POLL leaves client and printer out of step: `slow_poll` is the
counterexample.

**Strips.** `StreamInv`: while a strip is read, `data \o wire` is that strip and its
padding, and `data` ends before EOI (in `next`, directly after an `ff`). By
`MarkersAssumption` the first `ff d9` that `readJPEGStrip` sees is EOI. For
`StripsAreFound` the bytes of a page are the concatenation of its strips
(`FlatBytes`), `findSOI` lists the places where one begins, in order, and no others
(an `ff d8` cannot lie across a border, since a strip ends in `d9`), hence
`splitStrips` cuts there.

**A poll.** The lemmas go up the message: a tag, a length in any of the three forms
and a value are taken off by `readTLV` whatever follows, and any proper part of them
is truncated (`IsElement`, `HeaderRead`, `WrapElement`); `nth` steps over elements
(`NthOf*`); the digits of an arc read back as the arc (`ArcRead`, by induction on
the digits) and so does the OID (`OwnName`). `PollInv` then carries through the
exchange that the request is `buildGetRequest(id)`, and that the reply gives the
state if it is whole and the printer has that entry, and `NoValue` otherwise; that a
reply is still one of the messages the lemmas speak of (`IsReply`) is what makes it
inductive under `Cut`.

**Induction.** The theorems of the library that take an operator as parameter
cannot be used here; `SumProofs!SetInduction` states induction for sets of numbers
(from the well-foundedness of `<`), and with it what the recursive
functions compute is proved for every argument: sums, concatenations, digits, arcs,
the places of SOI.

**The assumptions are needed.** `OneServer` fails for a printer that starts its counter
again, `EntryHasOwner` in the way of `partition`, `FormatOfTheOwner` as told in §7, the
theorems on `Download` in the way of `slow_poll`. (`TypeOK` of `Download` is proved
under the same assumption because it is a part of `SessionInv`.)

**Only model-checked**: the liveness properties `Recovers`, `ReadyIsServed`,
`Announced` and `Ends`, since TLAPS has no rules for fairness and `ENABLED` here; and the
properties that do not hold, where the counterexample is the result.

## 9. Not modelled

The file name; logging; parsing of flags; XML and multipart encodings; the JPEG
and PDF libraries, and with them the pixels of a page; `GetCapabilities` (never
called by the daemon); install scripts, Docker and CI. Of the network guard only
the outcomes: what `normalizeMAC` makes of an address depends on how `arp` prints
one, which the repository does not show. In a download: the contents of the setup
exchanges, which the client ignores; answers that arrive in pieces, unless the
printer dies meanwhile; the length of an exchange, but for busy answers. In
particular a padding that stalls and comes later is not modelled: the code goes on
without it (`tcp.go:178`) and reads it as the next status, but its bytes may be
anything, hence so may what the client makes of them. Only a printer that has lost
its power leaves a padding unfinished in `Download`.

## 10. Plan

1. done: `ScanToPCState`, `ScanToPC`, `Destination`: agents, printer,
   environment; safety, liveness, the refinement.
2. done: `ByteStream`, `ScanSession`, `Download`, `Transfer`: a download with its
   deadlines, and what it promises.
3. done: `SnmpCodec`, `SnmpPoll`; `StripAssembly`, `StripStream`, `PageSize`.
4. done: theorems on every invariant, action property and refinement that a passing run
   checks.
5. Theorems that need less: what of `SessionInv` survives a late answer to a
   streaming POLL (the types at least), and the safety halves of the liveness
   properties (a confirmed scan is not forgotten by the agent it was announced to).
6. The window in a user switch (README.md:270-272: "up to one poll tick") against
   a download that blocks the loop.
