# SIPBridge in TLA+

SIPBridge (`src/`, Go) is a SIP back-to-back bridge for trading-floor lines: it
takes inbound INVITEs, rings the endpoints of a bridge or conference group in
parallel, connects the first that answers, and forks the call to a SIPREC
recorder; callers may also come through an IVR, hear IPTV audio, and everything is
driven by one configuration document. This directory holds TLA+ modules of it, TLC
configurations that check them on small instances, and TLAPS proofs about them. All line numbers are
those of the commit the modules were written from; `PROJECT.json` maps each
definition to its lines.

## 1. Inventory

### Threads and locks

| Thread | Started at | What it does |
| --- | --- | --- |
| UDP read loop | `Server.Start` | every request, and every response to a UDP leg, one at a time |
| TLS reader, one per TLS leg | `emitOutboundInvite` | `handleResponse` for that leg |
| ring timer, one per fanned-out INVITE | server.go:1369 | `enforceRingTimeout` |
| recording starter | siprec_ctrl.go:419, 456 | `tryStartSIPRECForBridge` of an early start |
| IVR goroutines | server.go:1438 on | conference fanout, its timer, its recording |
| RTP receiver, one per socket | `rtpSession.StartReceiver` | relay callbacks and DTMF events |
| silence, one per recorded call without a second party | `startBridgeSIPRECSecondLegSilence` | the recorder's second stream |
| IPTV reader, jitter worker, stop watcher | extractor.go, multicast.go | packets of a source to the calls |
| HTTP API handlers, config poller | `internal/api`, `internal/config` | drops, settings, reload |

`sessionMu` guards the session tables, but almost every handler takes it several
times: it decides under the lock, unlocks, writes to the network, and locks again
to clean up. `siprecFwdMu`, `rtp.mu`, the capture leg's `mu` and `Manager.httpMu`
are separate. What goes wrong here goes wrong between two critical sections, which
is why the grain of every module is one step per critical section and per burst of
network writes.

### Components

| Component | State | Operations | What makes it correct |
| --- | --- | --- | --- |
| Parallel ringing (`server.go`, `server_transport.go`) | `sessions`, `legsByCallID`, a `fanoutSession` and its legs | INVITE, ring loop, responses, ring timer, CANCEL, BYE, cleanup | one final decision per INVITE, the winner is spared, losers are cancelled, nothing leaks, the caller is answered |
| ARD lines and admission (`server.go`, `conference_ard.go`) | `bridgeCalls`, `sessions` | admission, join, early entry, answered entry, hang-up, API drop | a line in use is joined and not rung, the dialog limit, nobody stays on a line after hanging up |
| SIPREC recording (`siprec_ctrl.go`, `server.go`) | `siprecRecordings`, `legsByCallID`, media destinations of each `bridgeCall` | start, recorder answers, attach, stop | one recording per call, it hears its answers, it gets the media of the call and no other, it ends with the call |
| IVR entry and conference fanout (`server.go`) | `ivrSessions`, `ivrConfSessions` | digits (INFO and RTP), authorisation, join, fanout, timer, CANCEL, BYE, API drop | digits are interpreted in order, sessions end, legs are taken down |
| Configuration manager (`config/manager.go`) | file on disk, snapshot in memory, HTTP hash | load, apply, poll, reload, replacement of the file | disk and memory agree, a crash leaves a usable file, polling catches up |
| Validation and merges (`config/*_spec.go`) | none | validators, merges with the environment | a section that is accepted is one the process starts with |
| Settings API (`internal/api`) | a copy of the snapshot that shares its users' array | read, modify, apply | PINs and ids stay unique, memory is what was saved |
| RTP sessions and relay (`rtp.go`, `server.go`) | sockets, callbacks, the entry's sockets and destinations, silence | answer, wire, attach, re-INVITE, packets, hang-up, API drop | both parties and the recorder hear, nothing outlives the call |
| IPTV (`internal/iptv`, `server.go`, `api/iptv_subscriptions.go`) | `iptvSubs`, receivers, jitter buffers | start, stop, read, push, forward | what is listed runs, what runs can be stopped, what is closed ends |
| Routing and ring order (`router.go`, `region_ring.go`, `conference_ard.go`) | none, reads the configuration | match, ring lists, region order, dial plan | nobody rings himself, the order filters nobody, a rule that cannot carry falls through |
| Audio capture (`internal/capture`) | WAV writers, metadata | write, close | nothing written after close, one metadata file per call |

Interaction: an INVITE passes admission and the line test (Line), opens a fanout
session and possibly an early bridge entry (Fanout), which starts a recording
(Siprec); the first 2xx replaces the entry and starts the recording again, which
must be recognised as a duplicate; CANCEL and BYE end session, entry and recording
in that order. Four modules share `bridgeCalls`: Fanout keeps one caller's entry as
absent, early or up; Line keeps a line's entries; Siprec keeps the entry objects and
which recorder they feed; Media keeps the entry's sockets, callbacks and destinations.
The IVR has tables of its own (`ivrSessions`, `ivrConfSessions`) and hands a caller
who dials a bridge over to `bridgeCalls`. Everything reads the configuration through
`router.CurrentConfig`, which the configuration manager replaces as a whole; IPTV
packets reach the calls of the table under `sessionMu`.

## 2. The modules

Call control: `Fanout`, `AnswerOnce`, `Siprec`, `Line`, `Ivr`, `Routing`. Media:
`Media`, `Iptv`. Configuration: `Validation`, `Config`. Proofs: `FanoutProofs`,
`SiprecProofs`, `LineProofs`, `IvrProofs`, `MediaProofs`, `ConfigProofs`,
`RoutingProofs`, `SliceProofs`. `Slices` has what `Ivr` and `Routing` share: the first
element a loop finds and the elements a loop with append keeps. Where a run needs
structured values for the constants (documents, dial plans, key sequences), they are
in `MCConfig`, `MCRouting`, `MCIvr` and `MCMedia`.

### Fanout

One dialog key. `legsOf`, `winner`, `terminated` are the fields of the session
objects (one object per accepted INVITE); `current` is the table entry;
`registered` is `legsByCallID`; `open` is the legs with an `outboundConn`; `pc`
holds the locals of each handler: the session object it captured, the legs it
copied, the status it owes. `Invite`, `EmitInvite`, `EmitFails`, `RegisterLeg`,
`RingingDone` are the INVITE case up to its return to the read loop;
`HandleResponse` is one critical section of `handleResponse`; `CancelLosers`,
`WriteRequests`, `CleanupSession`, `CleanupLine` are what follows an unlock;
`TimerFires`, `InboundCancel`, `InboundBye` are the other three handlers. The ring
loop works on the session object it created, whatever the table holds, and
`CleanupSession` on whatever the table holds, whoever put it there: both are as in
the code. `left` and `late` are history variables: the INVITEs whose caller sent BYE
while they were ringing, and the legs the ring loop registered when their session had left
the table.

`AnswerOnce` is what this promises without sessions, locks and timers: an INVITE is
pending until one leg that accepted is chosen and, in the same step, the caller is
told; or it is closed. `AnswersOnce` is that specification under the mapping `Abs`.

### Siprec

A caller key enters (`Enter`, early), is answered (`Answered`), joins (`Join`),
fails or hangs up; each INVITE makes up to two entry objects, and `media` says which
recorder each object feeds. `StartContext` is `tryStartSIPRECForBridge` up to the request:
it reads the caller's user from the table, so an opt-in caller (`OptIn`) who is not there any
more gets no leg. `StartCheck`, `Register`, `Send`, `Undo` are
`emitSIPRECInvite`, run by the early starter and by the winner's thread; the start of a
call in `Failing` may end on the way, because the metadata or the INVITE cannot be built; `Take`,
`Find`, `Unhook`, `Write`, `Forget` are `stopSIPRECRecording`; `RecorderOk`, `Ack`,
`Lookup`, `Attach` are what a 200 of the recorder sets off. The recorder is
external: it answers or refuses, and may do so after a CANCEL crossed its answer.

### Line

The callers of one ARD conference group. `Invite`, `Count`, `Dup`, `Join`, `Open`,
`Early` are the questions the INVITE case asks of the tables, each under its own
lock, on the serial read loop; `Answered`, `RingingFails`, `CleanupSession` are the
outcome of the ringing, on any thread; `HangUp`, `Clean`, `Unlist` are CANCEL and
BYE; `Drop`, `Release` are the API. `Redialling` is who may send more than one INVITE.

### Ivr

One caller's key: `sess` holds every session object, `current` the table entry,
`fan` the conference fanout under `ivrconf|` + key, `go` and `timer` the fanout
goroutines and their ring timers, `won` the handler of the winning 2xx, `rec` the
conference's recording. A key pressed is an event that may be underway twice, by INFO
and by RTP event, which is why `heard` records presses and not digits. It may also come in
a second time: the phone repeats its INFO, which the code counts again (`InfoAgain`), or another
RTP packet with the end bit arrives. `decodeTelephoneEvent` drops one with the event of the last
within 150 ms, whichever press it belongs to (`SameEvent`), and counts it after that
(`RtpAgain`); `last` is the press decoded last, `again` the history of what came twice.
`handleIVRDigitLocked` is `InCall`, `Collect`, `CommitAccess` and `CommitUser`, and
`ivrAuthorizeAndResolveTarget` the lookup behind it; `Info`, `RtpDigit`, `Invite`,
`StoreSession`, `Reinvite`, `Cancel`, `Bye`, `CleanUp` are the read loop and the receivers;
`Drop` is the API taking a caller out of the bridge he joined;
`Begin`, `Emit`, `Register`, `Timeout`, `CancelAll`, `Win`, `AckWinner`,
`LookUpSession`, `Relay` the fanout; `StartRecording`, `Attach` the recorder. Endpoints
are external: they answer or refuse.

### Routing

Pure functions composed into the handling of one INVITE (`Invite`, `Ring`, `Emit`), with a
configuration that may be replaced between any two of them (`Reconfigure`), as
`router.CurrentConfig` is asked anew each time. `MatchInvite`, `BridgeRing`,
`GroupRing`, `buildHOOTRingEndpoints`, `sortEndpointsByPreferredRegion` and
`selectTrunkForTarget` keep the code's order of tests and its fallbacks. Case folding,
prefixes and what a rule's `uri_regex` matches (`Matches`; a pattern that does not compile matches
nothing) are parameters. The IVR has its own, simpler ring list (`RingOf` in `Ivr`).

### Media and Iptv

`Media` is one call from the ringing to the hang-up: which sockets it has, which
callback each receiver would call and has picked up (`rx`), which destinations and
which socket towards the recorder its two entry objects have, and the silence
goroutines. `Answer`, `WireCaller`, `WireCallee`, `StartSilence` are the winner's path,
on the read loop or on a TLS reader; `AttachLookUp`, `Attach`, `WireCallerOnly` the recorder's answer,
which finds the entry under the lock and changes it after; `Reinvite`, `HangUp` the caller, `Drop` the
API (both by `TakeDown`); `Receive`, `Deliver`, `Tick`, `SilenceEnds` the packets.
`call.crossed` is history: the entry was replaced or dropped while a handler had it
in hand. When an endpoint or a recorder answers is left to nondeterminism (`Fanout` and
`Siprec` say when).

`Iptv` is `s.iptvSubs` with the requests that start and stop a source (`StartCheck`, `Open`,
`OpenFails`, `Insert`; `Stop`, `Close`), each split where the code leaves `sessionMu`,
and the receivers' goroutines (`Read`, `Push`, `TakePacket`, `OnPacket`, `ReaderEnds`,
`StopJitterBuffer`, `WorkerEnds`). `MCMedia` runs both. The two share no variable in the
models, since all the forwarding takes from a call is its entry's sockets under
`sessionMu` (`ListedSocketsAreOpen` is what it relies on); so each is explored while the
other rests.

### Validation and Config

`Validation` has the checks and merges of the configuration package as predicates; an
optional field is a set of at most one value. `Config` is the rest: `dir` and
`inode` are the file system (a name may be missing, a file may be half written, two
writers may hold one temporary file), `cur` and `heap` the snapshot and the Go arrays its
users live in, which handlers share and change in place. `Read` and `Edit` are a
settings request (`UserPut`, `UserDelete`, `ClusterPut`, ...), `Submit` is `ApplyYAML` up
to the file, `OpenTmp`, `FillTmp`, `Unlink`, `Rename`, `Store` the rest of it; `ReloadFile`,
`Fetch`, `RecordHash`, `Store` reload and poll; `HandEdit`, `RemoteChanges`, `Crash`, `Boot` the
surroundings. `taint` and `hand` are history variables that say when a refused user edit or an
editor has made memory and file differ.

## 3. What TLC checks

| Run | Instance | Properties |
| --- | --- | --- |
| `fanout_udp` | 3 UDP endpoints, 1 INVITE | `TypeOK`, `OneDecision`, `WinnerSpared`, `NoLegForgotten`, `FailureMeansAllRefused`, `CallerIsAnswered` |
| `fanout_retry` | 1 UDP + 1 TLS endpoint, 2 INVITEs | `NoLegLeak`, `AnswersOnce` |
| `siprec` | 2 calls, the start of one may fail, UDP winner | `IndexedIsRecording`, `AnsweredIsForked`, `MediaEndsWithCall`, `EveryCallIsRecorded` |
| `siprec_threads` | 1 group call by opt-in, TLS winner, 1 API drop, 3 legs | `RecordingIsIndexed`, `RecordedOnce`, `EveryCallIsRecorded`, `AnswerIsAcked` |
| `line` | 4 callers, two of whom dial twice, limit 3, 1 API drop | `CapacityBound`, `OneRinging`, `NoReRing`, `HungUpIsGone`, `SessionsEnd` |
| `ivr` | 1 caller, 2 INVITEs or re-INVITEs, 2 fanouts, 2 bridges, 3 groups, a press that comes twice, CANCEL, API drop | `EachKeyOnce`, `KeysDecide`, `OneConnected`, `NothingOutlivesTheCall`, `RingingEnds` |
| `routing` | 36 hoot groups, 4 dial plans, a line and a bridge, 1 change | `NobodyRingsHimself`, `RegionOnlyReorders`, `DialPlanFallsThrough` |
| `media` | 13 kinds of call, 2 re-INVITEs, 2 recorder answers, API drop; 2 sources, 2 requests, 2 receivers | `EverySideIsHeard`, `ListedSocketsAreOpen`, `NothingOutlivesTheCall`, `ListedReceiverIsLive`, `NoStrayReceiver`, `ClosedReceiverEnds` |
| `config` | file, HTTP and polling; 1 request at a time, 2 requests, 2 outside edits, 1 crash | `FileIsWhole`, `MemoryIsDisk`, `SavedSectionsStart`, `PinsUnique`, `PollConverges` |

Three runs expect a violation; each shows that the code does not do what a line of the
repository says (`PROJECT.json`, "findings"):

- `siprec_group`: the recording key of a group call is cut at the colon inside the
  group's bridge ID, so the recorder's answer never reaches the call
  (siprec_ctrl.go, server.go:2841).
- `config_race`: two settings requests at once write the same temporary file and store
  their snapshots in the other order; the active configuration is not the one on disk
  (manager.go:188 says it is).
- `ivr_hoot`: everyone who answers a hoot is bridged, says src/README.md:17. The fanout of a hoot
  dialled through the IVR is decided by the first answer like any other (server.go:1710): the other
  endpoints get CANCEL, and one that answers all the same is ignored. `OneConnected`, in `ivr`,
  states what the code does for every kind of group.

### Bounds

- Three UDP endpoints: a winner, a loser that is cancelled and one that answers or
  refuses meanwhile. Two endpoints, one over TLS, suffice for the second thread.
- Two INVITEs per key: the second meets the first one's timer, readers and cleanup.
- Two SIPREC legs per call are the early start and the winner's; a third is the
  retry after a failed write. The second call of `siprec` is there for its start to fail beside
  one that does not.
- Four callers on a line with a limit of three: one rings (two dialogs), two join,
  and the fourth is the one a wrong comparison would let in. Two of them dial twice, so
  that a second INVITE meets the timer and the cleanup of the first, and may be the one
  who joins or the one who is refused; the other two only fill the line.
- `ivr`: what callers press is any two keys of `1`, `9`, `#`, and every prefix of four
  calls that get somewhere (a group rung twice, a bridge, a PIN refused twice before, a recorded hoot).
  Two fanouts are the two `9`s of the MRD group; one press may be underway each way, so
  an INFO and an event of the same key cross. The press that may come in twice is the seventh
  (`Repeatable`), the last digit of a PIN that is tried three times: heard twice it makes that PIN a wrong
  one, or comes when the caller was let in. Two INVITEs are a retransmission, or a
  re-INVITE that changes what was offered.
- `routing`: three users on the two sides of a hoot in every combination of at most two
  cover each fallback; the line's far side mixes a region, its other spelling, a
  different one and none; the four dial plans start with rules that lead nowhere: no trunk, an unusable
  one, a prefix or a pattern that does not match.
- `media`: with two re-INVITEs a socket is taken away and another opened; two
  recorder answers are a repetition; two silences would be one too many. The API drops the call
  at any moment, in the middle of a handler too. Two IPTV
  receivers and two requests let starts and stops of one source overlap; a jitter
  buffer of two packets can fill.
- `config`: three users with three PINs, documents with and without a version, one that no
  check accepts and one that is accepted but not started from (its address is a name); a section of each kind
  that is accepted and one that is refused; a soft limit in the environment that a saved maximum
  of calls may be below. Two requests
  are what it takes to save a change a refused request left behind.
- `MaxInvites`, `MaxCalls`, `MaxLegs`, `MaxDrops` only bound the environment; they are in
  guards of `Invite`, `Enter`, `Join`, `Register` and `Drop`. `MaxPending`,
  `MaxReinvites`, `MaxAttach`, `MaxReceivers`, `MaxStops`, `MaxChanges`, `MaxRequests`,
  `MaxEdits` and `MaxCrashes` are the same in the other modules. A starter that meets
  `MaxLegs` stops there, which the runs' bounds leave room for; `MaxSilences`,
  `MaxConns` and `MaxFanouts` bound what one call opens and are never met.
- Deadlock is not checked: after the last INVITE, request or packet the system is quiet.

### Fairness

A goroutine inside a handler goes on (weak fairness of the handler's steps), and a
Go timer fires (`TimerFires`, `RingingFails`). `Fairness` of `Siprec` adds strong fairness
of the read loop taking a recorder's answer: the recorder repeats a final response
until it is acked, and the read loop is idle again and again. `Ivr` has weak fairness of
its ring timers and of the winner's handler; `Config` of the polling ticker
(`Fetch(Poller)`), of a load that has begun, and of the restart, which is the operator's or the
supervisor's; `MCMedia` of the goroutines of an IPTV receiver, but not of `Read`: nobody
has to send. Nothing makes an endpoint answer, a caller call or hang up, or an
operator drop a call or change a setting.

### What holds only within those bounds

With a TLS leg and a second INVITE of the same key, `WinnerSpared` fails: a stale
`cancelLosers` or timer of the first session finds the second by key. With a TLS
winner or an API drop, `IndexedIsRecording`, `AnsweredIsForked` and
`MediaEndsWithCall` fail: a starter's undo and a recorder's refusal delete the key's
recording without comparing legs, and `attachSIPRECMediaFromAnswer` writes to an entry
that was replaced after it unlocked. With two INVITEs of a key, `RecordedOnce` fails
for the same reason. No document of the repository promises these, so they are
described here and stated as hazards.

Some properties name their exception, because the code has it (section 5 says more of them):

- `CapacityBound`, `OneRinging` and `NoReRing` hold until a call is dropped through the API
  (`Undisturbed`). After that the dropped caller rings on without an entry, and the limit
  is overrun by one more dialog when he is answered.
- `CallerIsAnswered` excepts a caller who sends BYE while he is ringing: he never gets a final status.
- `NoLegLeak` excepts the legs the ring loop registers after their session is gone, which need a
  TLS endpoint that wins early, or the timer of an earlier INVITE that takes the session while the loop
  still rings.
- `EveryCallIsRecorded` excepts an opt-in caller who is gone when the starter looks for him, and the
  calls whose metadata or INVITE cannot be built.
- `EachKeyOnce` excepts a press whose INFO was sent again or of which an end packet came after
  the 150 ms.
- `EverySideIsHeard` and, for the recorder's socket and the silence, `NothingOutlivesTheCall` of Media
  end where an entry was replaced or dropped while a handler had it in hand. The former holds as long
  as the call has the caller's first socket; the latter excepts the sockets of the call of an
  unrecorded group and the silence a TLS answer starts beside the BYE.
- `NothingOutlivesTheCall` of the IVR excepts the sockets after a retransmitted INVITE and the capture
  of a TLS winner; `RingingEnds` stops at the BYE.
- `NoStrayReceiver` excepts sources two starts of which overlapped.
- `MemoryIsDisk` and `PinsUnique` stop at a user edit that was refused after it changed the
  shared array. `SavedSectionsStart` speaks of sections saved by themselves: the cluster section with an
  environment that sets no limits, and the SIP section; with limits in the environment, or a
  SIP section that came with a whole document, the process may refuse to start.
- `NobodyRingsHimself` excepts a caller whom a line or a bridge lists twice, which no validation
  forbids: those rings are not filtered (server.go:1143).

In `config` `PolledReload` is FALSE and `RenameOutcomes` is `{"ok"}`; with the
other values `PollConverges` and `FileIsWhole` fail, as section 5 says.

## 4. What is proved

`FanoutProofs`, checked by TLAPS, for every `Ring`, `TlsRing`, `Listed` and
`MaxInvites` that satisfy `FanoutAssumption` (a ring that is not empty, TLS endpoints
among it, at least one INVITE, `NoLeg` not a leg):

- `TypeCorrect`: `Spec => []TypeOK`.
- `OneDecisionHolds`: `Spec => []OneDecision`.

`OneDecision` counts answers that were sent, but a handler owes its answer from the
moment it marks the session until it writes, so it is not inductive. The inductive
invariant adds `OwesWhileWriting` (a thread owes a status only while it is writing)
and `OwnedOnce`: per session, the answers sent and the answers owed together are at
most one, and are zero unless the session is marked terminated. Each action either
marks a session that was not marked and takes on one debt (`Deciding`), or leaves
debts and answers of every session alone (`Undeciding`), or pays one debt
(`WriteRequests`). 480 is not in the count: the code sends it without marking the
session (section 5).

The legs, which the handlers cancel, hang up and forget under one lock and write to under
none, need three more invariants on top of `LegInv` (the types, and that the legs of a
session are its own and were rung in turn):

- `WinnerSparedHolds`: `Spec => []WinnerSpared` under `OneAtATime`: no TLS endpoints, with
  any number of endpoints and INVITEs; or any ring and one INVITE. `SpareInv` says that a
  handler that has connected the caller finds its own session in the table or none, and
  that a leg a CANCEL is going to left the index before another session could be won.
  Section 3 says what happens with neither.
- `FailureMeansAllRefusedHolds`: `Spec => []FailureMeansAllRefused` for every ring without
  TLS endpoints and any number of INVITEs. `FailInv` adds that a status in the table was
  answered by an endpoint that was rung, and that the loop is done with a session that failed.
- `NoLegForgottenHolds`: `Spec => []NoLegForgotten` under `OneCall`: any number of UDP
  endpoints, one INVITE. `ServedInv` adds that whoever
  still rings was sent a CANCEL or is on the list of the handler that is about to write.
  A second INVITE of the key is out of its scope, since its legs may be registered after the
  timer of the first has taken the table (section 5).
- `NoLegLeakHolds`: `Spec => []NoLegLeak` with no condition, for any mix of UDP and TLS endpoints
  and any number of INVITEs. `Accounted` says that a leg in the index, or with an open connection, is
  late, or belongs to the session in the table, or is in the ring loop's hands. What is excepted as late
  is real: the ring loop does not look at the table again (server.go:1355).
  `NothingLateHolds` says that under `OneCall` there are no such legs.

The refinement, under the same assumption:

- `Refinement`: `Spec => AnswersOnce`, that is, `Fanout` implements `AnswerOnce` under the
  mapping `Abs`. `RInv` adds to the invariant above `History` (a session ahead was not
  touched; a winner marks its session) and `RingsOnce` (the ring loop invites only
  endpoints it has not invited, so no acceptance is undone). Most steps are `Silent`: they
  mark the session of now or take it out of the table, which is `Close` when it was
  pending and a stutter otherwise. The winning answer is `Choose`; that the caller had no
  200 before is `OwnedOnce`.

`SiprecProofs`, for every `Call`, `GroupCall`, `OptIn`, `Failing` and bounds that satisfy `SiprecAssumption`:

- `TypeCorrect`: `Spec => []TypeOK`.
- `RecordingIsIndexedHolds`: `Spec => []RecordingIsIndexed`, with any number of threads.
  A take-down drops its leg from the index several unlocks after it dropped it from the
  table, when a new recording of the key may be there. `IInv` adds `TakenIsOld` (the leg a
  thread takes down is not the key's recording of now, since a new one is built later than
  all before it), `RecordingIsBuilt`, and the meaning of the threads' locals.
- `RecordedOnceHolds`: `Spec => []RecordedOnce` under `OneInvite` (each caller rings once),
  with TLS winners, drops and group calls. Two threads may look for a recording, find
  none and build a leg each. `StartInv` counts who still may (`StartsLeft`: two at most, and
  while the call rings only the early starter), and says that a leg that was followed by another is
  being taken down, as is the only leg of a caller without a recording (`OthersAreStopping`).
- `IndexedIsRecordingHolds`, `MediaEndsWithCallHolds`: the same for those two under `ReadLoopOnly`
  (each caller rings once, no TLS winner, no drop), and `AnsweredIsForkedHolds` with `GroupCall`
  empty as well. Then the read loop alone takes legs down, beside the early starters. `LoopInv`
  says what each of them knows: between `check` and the write a starter's leg is the key's recording, or
  the caller has gone and nobody starts another (`SentIsRecording`); what is forwarded goes from the
  entry of now to a recording that was answered (`MediaIsOwn`); and an answered recording is
  forked or the read loop is between the 2xx and `Attach` (`ForkedOrUnderway`). Each condition is
  needed: TLC finds a counterexample without any one of them (section 3), and `siprec_group` is the
  one for group calls.

`LineProofs`, for every finite set of callers, every capacity and every bound on INVITEs
and drops that satisfy `LineAssumption`:

- `TypeCorrect`: `Spec => []TypeOK`.
- `HungUpStaysGone`: `Spec => []HungUpIsGone`, with any number of drops. The inductive
  invariant `GoneInv` adds where the read loop stands: from an admitted INVITE to the end
  of its handling the caller is not gone, and between the removal of a session by the
  teardown and the removal of its table entry nothing is pending, so that an answer that
  arrives between the two unlocks finds no session to list.
- `OneRingingHolds`, `NoReRingHolds`, `CapacityHolds` for a recorded group, with any number of
  drops: the properties themselves speak of the time before the first one (`Undisturbed`), and drops
  are never taken back (`DropsStay`). `RingInv` says that a pending session is either the one being opened or has its caller
  in the table, that whoever is connected is in the table until the caller's own teardown,
  and that a table seen empty stays empty until the session is opened: the three tables
  the code changes under separate locks then agree. `CapacityInv` adds `Room`, how many
  dialogs an INVITE that was let in may still add at each point of its handling; a late
  answer adds none, since by `RingInv` its caller is in the table already.

`MediaProofs` on `Iptv`, for every set of sources, requests and receivers, and any queue size and
number of stops, that satisfy `IptvAssumption`:

- `ListedIsLiveHolds`: `IptvSpec => []ListedReceiverIsLive`.
- `NoStrayHolds`: `IptvSpec => []NoStrayReceiver`.

A request that starts or stops a source has a receiver in its hands between two critical
sections, so neither is inductive alone. `IptvInv` adds `HeldIsOpen` (what a request holds
was started for its source and is not closed yet) and `HeldOnce` (nobody else holds it and
it is not in the table). With them each of the six request steps keeps both properties:
`Open` takes a receiver nobody has, `Insert` may push one out of the table, and only
then is the source marked overlapped, `Stop` moves it from the table to the request,
`Close` closes what no other request and no entry refers to. The seven steps of the receivers'
goroutines change neither source nor closedness (`RunsKeep`).

`MediaProofs` on `Media`, for every set of scenarios and every number of re-INVITEs, recorder
answers, silences and sockets that satisfy `MediaAssumption`:

- `ListedSocketsHold`: `MediaSpec => []ListedSocketsAreOpen`. `Inv` adds that a call that
  has not begun has no sockets in its entries (`NewIsEmpty`), that one that is over is not in the table
  (`OverIsUnlisted`), that the table never holds
  the call of an unrecorded group, whose answer replaces the sockets
  (`UnrecordedIsUnlisted`), that an open socket is the listed entry's (`SocketsAreListed`), and, in the
  type, that a re-INVITE never opens a socket that
  is the endpoint's. Every step but six is `Quiet`: it leaves the table, the open sockets and
  the entries' sockets alone.
- `EverySideIsHeardHolds`: `MediaSpec => []EverySideIsHeard`, and
  `NothingOutlivesTheCallHolds`: `MediaSpec => []NothingOutlivesTheCall`. Both speak of
  moments when nothing is underway, and a call gets there by two threads that wire
  callbacks and copy destinations in any order, so `HeardInv` says what is still owed while
  they are at it: each callback or destination is in place, or a thread that will set it stands
  before that step (`WiredOrUnderway`); whoever writes silence or to the recorder holds an
  entry that is in the table, or its hang-up is underway (`SilenceIsHeld`, `RecorderIsHeld`).
  It holds until an entry is replaced or dropped in a handler's hands: what is inductive is
  `Inv /\ (call.crossed \/ HeardInv)`, by `HeardStep` and `CrossedStays`. That the RTP sockets are
  closed after the hang-up or the drop follows from `Inv` alone and does not end there.

`IvrProofs`, for every script of keys, ring list, bridge, group and bound that satisfies
`IvrAssumption`:

- `CallInvHolds`: `Spec => []CallInv`, the inductive invariant. `FanInv` numbers the legs of
  the fanouts (an endpoint is rung once per fanout; the winner has answered 2xx and its
  socket stays). `Numbered` orders the sessions: the table has the latest stored or none.
  `SocketsAreHeld` says where the caller's socket is while it moves from the session to the
  entry, with the read loop in between, and `CaptureIsHeld` that the handler of a UDP
  winner has the read loop until the capture is known to the entry.
- `OneConnectedHolds`: `Spec => []OneConnected`; `NothingOutlivesTheCallHolds`:
  `Spec => []NothingOutlivesTheCall`, both by `CallInv`.
- `EachKeyOnceHolds`: `Spec => []EachKeyOnce`, by `KeyInv` beside `CallInv`: what is underway
  and what was heard are increasing presses, but for those that came twice, which are in `again`
  (`KeysInOrder`), and a session is behind the queue
  of the one way it listens to (`OneWay`), which a re-INVITE may change only when it
  is answered and an INVITE that is retransmitted does not (`AsOffered`). A drop takes the socket
  of the caller's entry away; `EntryIsAside` says that this is not the socket of a session that still
  hears.
- `KeysDecideHolds`: `Spec => []KeysDecide`. The property reads the keys a session heard as
  a whole, the code takes them one by one and forgets a value once it is used. `DigitsInv` bridges
  the two: it adds to the property what is still collected (`AsTold`), which must be the digits since
  the last `#`. `KeyAppended` and `KeyDecides` say what one further key changes of the
  values told, of the access code and of the later values that let the caller in; `ToldHolds` that
  each of `InCall`, `Collect`, `CommitAccess` and `CommitUser` does the same to the session.
  Keys pressed later do not change what was heard, since a session hears presses that
  were made (`ReadHolds`, by `KeyInv`). Where he gets is `PlacesInv`: a bridge lists him only if the keys
  lead to it (`IsListed`), and the fanout goroutines and legs there are were asked for by a session in its
  group, for an MRD group by a `9`, and ring only that group's far side (`AsksToRing`).

The proof of `NothingOutlivesTheCall` changed the property. It said that the forwarding to the recorder
ends with the call however many INVITEs there were; the proof needed keys pressed between a
retransmitted INVITE and its `StoreSession`, and with four presses underway TLC shows the
first session joining a recorded group in that gap and the recorder's answer forwarding the
second, which the BYE does not clear. The run has one press underway each way, which hides it. The property
now excepts the forwarding after a retransmitted INVITE, as it did the sockets.

`ConfigProofs`, for all documents, settings, environments and modes that satisfy
`ConfigAssumption` and `FirstDocAssumption` (documents and settings have the types of the Go
structs; the process has started with a document that passes its own checks):

- `TypeInvHolds`: `Spec => []TypeInv` for any number of overlapping requests. `HoldsWell` says
  that whatever is on its way to the disk or the snapshot was validated. A free array and
  a free file are there whenever a step needs one (`FreshArray`, `FreshInode`, by counting).
- `SavedSectionsStartHolds`: `Spec => []SavedSectionsStart`, with no condition on the environment or
  the documents: any number of overlapping requests, renames that fail and
  crashes are allowed. `StartInv` carries the property through the temporary file, each
  goroutine's document and the snapshot; `ClusterStarts` is that `ValidateClusterSpec` accepts no
  section the merge with an environment without limits refuses.
- `FileIsWholeHolds`, `MemoryIsDiskHolds`, `PinsUniqueHolds`: the same for `FileIsWhole`,
  `MemoryIsDisk` and `PinsUnique` under `OneWriter` (at most one request at a time, renames
  succeed), the last also under `KnownUnique` (the documents people write have no duplicate).
  `FileInv`: the path has a whole file, or the writer is between unlink and rename and the
  temporary file is whole. `MemInv`: outside a save, memory is what a start would read, and
  before a store the file already is the document stored. `PinInv` keeps uniqueness
  of what is in the file, in the active arrays and in the document being written.
  `config_race` shows why one writer is needed.

Proving them turned up two slips of the models, which are repaired: `CASE` with guards
that overlap leaves the choice open in TLA+ while TLC takes the first, in the order of tests of
`buildHOOTRingEndpoints` and in the history variable in `Rename`.
They are `IF` chains now, in the code's order.

`RoutingProofs`, for all configurations, callers and dialled users, case foldings and
prefix tests that satisfy `RoutingAssumption` (the lists of a document are slices; an empty
label stays empty when folded), with any number of changes of the configuration in between:

- `NobodyRingsHimselfHolds`: `Spec => []NobodyRingsHimself`.
- `RegionOnlyReordersHolds`: `Spec => RegionOnlyReorders`.
- `DialPlanFallsThroughHolds`: `Spec => DialPlanFallsThrough`, for any relation of patterns and URIs.
  The first rule that fits and carries the call is what `First` of `Slices` finds
  (`FirstHolds`).

The invariant is small (`CallInv`: the target that is rung has the slices of the document it
was matched in, whatever document is current now). The work is in what filtering a slice of any
length returns. `SelectSeq` of the standard modules is recursive inside and cannot be
reasoned about here, so slices are filtered by a recursive function, `Kept` of `Slices`. What it computes
is proved in `SliceProofs` by induction over sets of numbers (`Steps`), which needs only that `<` is well-founded on
Nat: that the function exists (`KeptExists`), that exactly the elements of the set are kept (`SelectHolds`),
that filtering goes through concatenation and twice is once (`SelectJoin`, `SelectTwice`),
that the kept and the rest count together (`SelectCounts`), and what filtering a part of a slice
gives before and after an append (`PartHolds`, `PartGrows`, which `IvrProofs` uses). The proof
of `NobodyRingsHimself` changed the property: it was stated without the exception for a caller
listed twice, which the run's line and bridge did not have.

Only model-checked are the liveness properties (`CallerIsAnswered`, `EveryCallIsRecorded`,
`AnswerIsAcked`, `SessionsEnd`, `PollConverges`, `RingingEnds`, `ClosedReceiverEnds`):
fairness and ENABLED are outside what TLAPS 1.4.5 proves here. Every safety invariant and
every action property without fairness of a passing run is a theorem, some under the
conditions named above.

## 5. Known divergences

What the models or reading the code for them showed, beyond the three findings that a run
reproduces. The definitions `SingleFinalStatus` (Fanout), `NoOrphanRecording`
(Siprec) and `JoinsEstablished` (Line) state the first ones; they fail and are in no run.

Ringing and lines

- After every leg refused, the session is not marked before 480 is sent
  (server.go:1982; the comment at server.go:1827 says it is), so the ring timer may send
  408 too. A TLS leg that refuses while the loop is still adding legs makes the test for
  "all refused" true too early (server.go:1808).
- A caller who is ringing, whose ringing failed, or who is on the same side counts as a
  participant of an established line (conference_ard.go:90): the next is answered on a
  line nobody answered. A line that is not recorded has no entries at all, so it is
  rung again while it is in use (server.go:1904).
- A BYE to a call that is still ringing marks its session and cancels its legs, and no final
  status is ever sent to the INVITE (server.go:2133-2139).
- The ring loop does not ask whether its session is still in the table (server.go:1355): legs it
  registers after a TLS endpoint has won or an earlier INVITE's timer has taken the session are never cancelled, stay in the index, and
  their TLS connections stay open.
- A call dropped through the API while it rings goes on ringing without an entry, so the line is
  rung for the next caller too, and both may be answered.
- The winner is never acked and its session is removed with the losers, so a later BYE
  finds none and the far end is not told. A 2xx after a timeout or CANCEL is ignored: neither
  acked nor sent BYE. Timers and cleanups of an earlier INVITE act on a later one with the same key.

Recording

- Hanging up while the recording is set up leaves the recorder in a session (siprec_ctrl.go:547).
- With two INVITEs of a key, a refusal of the earlier recorder leg forgets the later recording.
- A TLS winner or an API drop beside the recorder's answer leaves destinations on an entry
  that was replaced.
- An opt-in caller who is gone before the starter runs is not recorded: his table entry is what names
  his user (siprec_ctrl.go:324-347).
- `region_to_trunk` does not route bridge and group calls: siprec_ctrl.go:287 passes an empty
  region for each of them, so they go to the default trunk or the first. Only the conference recording of the IVR
  passes one (siprec_ctrl.go:232). src/README.md:35 says it routes each call to the nearest
  recorder.

IVR

- A second `9` after the far side was answered or timed out rings endpoints whose
  answers are ignored; `winner_keep_ringing_seconds` is not used.
- BYE marks the fanout terminated and cancels nobody; the RTP sockets of legs are not closed on
  an answer or BYE; `ivrConfSessions` is never emptied (server.go:519), so that
  admission counts every past fanout.
- The access code cannot be corrected after a refused PIN. A retransmitted INFO counts twice, and so
  does an RTP end packet more than 150 ms after the one before it; a key that is pressed again within
  150 ms counts once (rtp.go:246-255). A
  retransmitted INVITE replaces the session and leaks its RTP socket.
- A hoot rings the caller's own endpoint. The recording's starter does not ask whether the caller is
  still there. The winner's path starts a second receiver on the caller's socket
  (server.go:1762). A TLS winner beside the BYE opens a capture nobody closes.

Media

- Calls of unrecorded groups and of hoot fanouts get sockets that nobody wires, relays or closes.
- A re-INVITE without G.711 closes the caller's socket; one that opens another sets no
  callback on it, and the other party's callback still writes to the old one.
- The silence goroutine and the wiring read the entry's socket without a lock, while
  `DropBridgeCall` closes the entry's sockets and sets them nil (server.go:846-855).
- The recorder's answer and the winner's path look an entry up and change it after the unlock. If a drop
  or a TLS answer removes or replaces it in between, the recorder's destinations land on an entry nobody
  holds: the socket its next packet opens towards the recorder stays open, and a silence
  started for it is never stopped.

IPTV

- Overlapping starts of a source leave a receiver nobody can stop. An ffmpeg that has died is
  still listed as running. A source taken out of the configuration keeps running, unlisted.

Configuration

- A `PUT` or `DELETE` of a user that is refused has already changed the active users; a
  deletion leaves the last one twice, which a later save stores. Until then saves of
  other sections may be refused for it.
- The poll's hash and snapshot are stored in two steps: a reload over HTTP that overtakes a
  poll may leave the older document active until the publisher changes it again.
- Limits from the environment and `spec.cluster` are checked together only at the start, so
  a cluster section that was accepted, with the advice to restart (cluster_settings.go:30), may keep that restart from succeeding. `PUT /config` checks neither
  `spec.sipStack` nor that ids and PINs are unique, so that a SIP section stored with it may do
  the same, and deleting a section may, where it hid a setting of the environment.
- A crash between the removal and the rename leaves no file under the name, and a rename that
  fails loses it (the document is in memory only).

Capture (read, not modelled)

- `writeRTP` tests the writer before it takes the lock `Close` clears it under (capture.go:142
  says all methods are safe for concurrent use). The WAV header is written with `WriteAt`,
  which does not advance the offset, so `Close` writes over the first 44 bytes of
  audio (wav.go:10). File names are unique per second and eight characters (capture.go:165).

## 6. Not modelled

SIP text (parsing, building, SDP bodies), RTP headers and sample conversion, the web UI
and the mobile client, the test stub, login, reports and metadata XML: data and
formatting without state that two actors share. OPTIONS, REFER and UPDATE are answered and
forgotten; callers over TLS take the same path as over UDP. ACK and the endpoints' dialogs after the
answer are left out of Fanout: the code has no ACK to the winner. A SIPREC answer
with fewer than two audio streams, and a 3xx of the recorder, change nothing in the
code beyond the ACK and are left out of Siprec. In Media the order of packets and their
contents are left out, and so is a socket that becomes nil between the wiring's test and its use
(section 5).
In Ivr the packets of one press do not overtake those of the next; a repeated key that nobody hears, a CANCEL
after the first key or re-INVITE, and a re-INVITE of a call the server does not have any more
(it would take it for a new one) are left out. In Config the choice of the recorder by region is left out:
it is a lookup in the document (section 5 says which calls use it).
Writes of one request are never interleaved with the editor's, and what
a handler answers is left out. The sections `auth`, `trunks`, `iptv` and `capture` of the
document have no check in `ValidateRoot` and are not told apart. Capture's state is a file per
leg; section 5 says what is known.

## 7. What is left

- Proofs: `OneAtATime`, `OneCall` and `ReadLoopOnly` are conditions under which
  invariants of Fanout and Siprec are proved, and TLS rings with several INVITEs are left to TLC.
- Models: several lines and the IVR behind one admission limit; capture, whose
  writer and close race; several IVR callers; the bridge table shared by Fanout, Siprec and Media as one composition.
