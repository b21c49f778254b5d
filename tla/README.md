# NanoKVM: a TLA+ model of its concurrent core

NanoKVM is a remote keyboard, video and mouse device. Its server (`server/`, Go) captures
the target's HDMI output, emulates USB devices towards the target, arbitrates who may type,
and can lend the target a network exit that a remote helper (`nexit/`, Go) provides over a
WebSocket. The web client (`web/`, TypeScript) shows the picture, sends input and lends the
target the browser's camera and microphone. The rest of the repository is C/C++ capture code
for the SoC and system scripts.

This directory specifies the parts of server and client whose correctness depends on the order
in which goroutines, callbacks, connections, frames and power cuts meet, checks them with TLC,
and proves the central facts with TLAPS. Paths below are relative to the repository;
`service/` is short for `server/service/`, `screen/` and `devices/` for
`web/src/pages/desktop/screen/` and `web/src/pages/desktop/menu/devices/`.

## Inventory

| Component | State | Operations | What is hard | What makes it correct |
|---|---|---|---|---|
| nexit tunnel, both ends (`server/service/exit/mux.go`, `frame.go`; `nexit/session.go`, `stream.go`, `proto.go`) | stream tables, per-stream and connection credit, receive queues, released ids | open, data, half close, reset, window update, dial, pump, drain | two read loops and many goroutines share credit; frames arrive for streams already released | credit conserved, no false protocol error, EOF after data, everything consumed is credited |
| exit slot (`exit/mux.go`, `exit/manager.go`, `exit/socks.go`) | pending and current session, connecting count, pin, door backend, token | gate, upgrade, HELLO, attach, supersede, close, regenerate, disconnect, disable, pin | a session lives in several tables guarded by several locks; operator actions race with handshakes | one attached session, pin obeyed, revoked tokens stay out, the door follows the attached session |
| H.264 stream (`stream/h264_source.go`, `stream/direct/*`) | source run, subscriptions, viewer queues, flow windows | capture, broadcast, write, acknowledge, resync, start and stop of source and streamer | slow viewers, overflow, restarts, lost wake-ups | a viewer gets decodable frames, bounded queues, someone serves every viewer |
| input arbitration (`inputcontrol/coordinator.go`, `controlmode/*`, `ws/client.go`, `hid/*`, `mcp/server.go`, `vm/jiggler`) | control mode, activity gate, HID lane, manual sessions and reservations | reserve, write, complete, close, begin and cancel an operation, switch mode | three locks, two counts, timeouts, device failures | one kind of writer at a time, mode stable under a writer, nothing leaks |
| HDMI capture demand (`vm/hdmi.go`, `vm/hdmi_state`) | viewer snapshots, leases, idle timer generation | viewer counts, lease, idle stop, reset | stale timers and snapshots | capture on while wanted, off when idle |
| direct player (`screen/direct.worker.ts`) | socket, decoder, picture queue, pending acknowledgement, resync flag, stall strikes | open, receive, decode, draw, acknowledge, resync, reconnect, stall check | callbacks of decoder, canvas, channel, timers and socket in any order; dropped frames hold the server's window | only decodable frames are decoded, a picture is drawn, the picture comes back |
| browser media source (`devices/client.ts`, `devices/provider.tsx`) and source registry (`service/sources/*`) | stored leases, owned slots, pending requests; sources, bindings, expiry | hello, claim, resume, release, restart, reload; register, expire, disconnect | a page is replaced by its own reload; answers are matched by slot; removal notices race with answers | one owner, page and registry agree, a release is final, no caller waits for ever |
| boot slots (`bootslot/bootslot.go`, `application/kernel.go`, `main.go`, `kvmapp/system/init.d/S02abtrial`) | two kernels, trial state, attempt counter, pending and installed version | stage, arm, trial, commit, guard, roll back | power loss between any two writes and inside a copy; restarts of the server | always a kernel to start, an unserving kernel is rolled back |
| USB presentation (`presentation/*`), media output (`media/*`), passthrough, FunctionFS | gadget tree, saved profile, holds | apply, reconcile, recover, hold | multi-step kernel transaction with rollback | gadget equals the profile or the previous one |
| network bridge (`bridge/*`) | snapshot, pending confirmation | apply, confirm, time out | loss of the operator's own connection | unconfirmed changes are rolled back |
| storage, downloads, EDID, accounts, VNC, WebUSB, network settings, extensions, assistant, picoclaw | files, jobs, sessions | request handlers | mostly I/O under one lock | - |
| rest of the web client, capture library, system scripts | - | - | - | - |

The interaction that matters most: viewers and clients are WebSocket handlers that call into
the stream, input and exit services; these share process-wide singletons (coordinator,
control-mode manager, H.264 source, exit manager) and talk to each other through mutexes and
channels. The browser's worker and media client are single threads of callbacks at the other end
of those WebSockets. Nothing but files persists across a restart of the server.

## Modules

| Module | Models | Lines it stands for |
|---|---|---|
| `CreditWindow` | one nexit/1 credit window as the two ends promise it: the abstract specification of connection credit | `exit/frame.go` credit, `exit/mux.go` creditLocked |
| `Nexit` | one session between kvm and exit with its TCP streams; `DownConn == INSTANCE CreditWindow` maps its download direction to a `CreditWindow` | `exit/mux.go`, `nexit/session.go` |
| `ExitSlot` | the sessions of one slot, the mux, the manager's transactions and the front door | `exit/mux.go`, `exit/manager.go`, `exit/socks.go` |
| `FrameQueue` | a viewer's frame queue as operators on a record (no state of its own) | `stream/direct/internal/framequeue/queue.go` |
| `H264Stream` | source, streamer, viewers and writers; extends `FrameQueue` | `stream/h264_source.go`, `stream/direct/*` |
| `InputControl` | control mode, activity gate, coordinator, clients, workers and automation | `inputcontrol/`, `controlmode/`, `ws/client.go`, `hid/keyboard.go`, `mcp/server.go`, `vm/jiggler` |
| `DirectPlayer` | the browser's H.264 worker and its connection, composed with `FrameQueue` as the server's end | `screen/direct.worker.ts`, `stream/direct/client.go` |
| `BrowserSource` | a page's media client, its sockets and the registry, for one slot | `devices/client.ts`, `devices/provider.tsx`, `sources/registry.go`, `sources/service.go` |
| `BootSlot` | kernel installation, trial, commit, guard and boot loader, with power cuts | `bootslot/bootslot.go`, `application/kernel.go`, `main.go`, `S02abtrial` |
| `CreditWindowProofs`, `NexitProofs`, `FrameQueueProofs`, `H264StreamProofs`, `ExitSlotProofs`, `InputControlProofs`, `DirectPlayerProofs`, `BootSlotProofs` | theorems and lemmas | - |
| `MCExitSlot`, `MCH264Stream` | values for the function-valued constants | - |

`PROJECT.json` maps every definition to its lines. Definitions commented "Defect:" are not
part of any specification: each is a wrong version of the definition below it, and replacing
that definition by it makes TLC find the property it is paired with in `PROJECT.json`
violated.

### How state and steps correspond to the code

A step is what one goroutine does between two points where another can interfere: an unlock,
a channel operation, a wait, I/O. Where the code does two such things in a row and no other
goroutine can tell, they are one step:

* `Nexit`: a `Read` and the credit it returns; the lock and the send in `CloseWrite`; a successful dial's table insert and
  OPENED. The relay's last `Close` on a stream already released does nothing and is left out.
  `takeBoth` is two steps, since it may wait for the connection's credit with the stream's in
  hand (`claim`): `WriteClaim` and `PumpClaim` take the stream's, `WriteTake` and `PumpTake` the
  connection's and give back the rest, `WriteGivesUp` and `PumpGivesUp` end the wait of a stream
  that has been released. What is given back to a released stream is lost with it.
* `H264Stream`: `Next` and the copy of the client list; the close of a subscription. The
  source's `!ok` branch of `Next` cannot be reached by the streamer, which closes only its own
  subscription. Viewer counts reported to the HDMI module are not followed.
* `InputControl`: reading the status and setting `transitioning` (both under `transitionMu`);
  the last part of `reserve` and the send to the queue; a device write and its `complete`.
  After a failed write the queued reports are dropped one at a time (`DrainHIDQueue`), since the
  reader may add to the queue meanwhile. The two mouse devices are one kind. The branches of
  `reserve` for a session activated or closed by somebody else are out of reach, since one
  reader serves a session.

* `DirectPlayer`: the worker is one thread, so every callback is a step, and its functions are
  operators on its state. A decoder works on chunks it has dequeued and hands out one picture
  for each; `frameQueue` holds one picture. Time passes in `Tick`, one stall check (one second)
  and one captured frame at a time, and only once nothing is due; `Lag` is a tick that does not
  wait and counts as a fault. The reconnect delay is in whole seconds. `frozen` is a history
  variable: ticks since the last picture or the last fault.
* `BrowserSource`: promise continuations run in the step that settles the promise. `release`
  is two steps, `Release` and `CaptureStopped`: it decides between socket and REST by the
  connection and the ownership of the render it was called in, and acts on that after it has
  awaited `stopCapture`. One slot is followed; other slots appear as a hello that has to be
  repeated (`Rehello`). The page offers devices for the slot, for other slots only, or none: a
  lease without a device is not resumed, and a hello without any is refused. A resume is tried
  again only after an `invalid lease token`; any other refusal is final, which needs a slot that
  is no longer configured (`SyncSlots`) or a request for it already pending. The registry
  call of a handler and the write of its answer are two steps, because the registry is unlocked
  in between and `watchTerminations` writes to the same socket. `wanted` and `misread` are
  history: the user has shared and not released; the page took a message for the answer to a
  request it does not answer.
* `BootSlot`: `boot.sd` and `boot.alt` are written in place (there is no room for a second
  file), so a copy has a beginning and an end; files replaced by a rename change in one step.
  The boot loader is the one `kernel_test.go` simulates. `GuardConfirmed` and `GuardExpires`
  are the last look of the guard's loop; once it has expired nothing stops its reboot.
  `GoodCopied` is disabled then: a copy of seven megabytes is assumed to take longer than the
  reboot that is on its way. `served` and `hurt` are history.

Data is abstracted: a kernel is a name, a control message of the player is a timestamp or a
resync, a lease token is the number of its claim; DATA is a byte count, a viewer's frame is its kind and sequence number, a
report is whether it holds a key and whether it starts the cooldown, a token is its epoch, a
peer its host. Timeouts are steps that may happen at any moment of the wait. Except in
`DirectPlayer`, clocks appear only as "before or after" (`cooling`).

`ReleasedCap` bounds the kvm's memory of released ids as the code does, but no run opens more
streams than it holds. A disabled slot is not enabled again.

## Runs

Bounds are named constants. They are the smallest at which each defect listed in
`PROJECT.json` is found, enlarged until a run takes one to four minutes.

| Run | Instance | Shows |
|---|---|---|
| `credit` | window 7 (odd, so that half a window rounds), frames of 2 | conservation, the receiver's check, and that the half-window threshold cannot starve the sender |
| `nexit_download` | two streams over a connection window of 4, so that a WINDOW stands for two frames, downloads only, hev half-closes one of them, one fault | while a stream is refused, times out, is reset or aborted, EOF never overtakes data (`DownloadIntact`), and as long as hev reads, the exit gets connection credit back (`ConnCreditReturns`) |
| `nexit_duplex` | one stream with a window of 4 over a connection window of 2, frames of up to 2, three bytes each way, two faults | no protocol error at either end, `DownWindow`: the session implements `CreditWindow`; both stream windows conserved although credit is given back, half close after the data, and a hev that reads learns that the destination closed (`DownloadFinishes`) |
| `exit_slot` | two connections from two hosts, one new token, one pin | one session attached, pin holds, `connecting` exact, a closed session leaves |
| `h264_stream` | two viewers (one flow controlled), three frames, two runs of the streamer, channel of 1, queue of 2 | queue and window limits, acknowledgements of this run only, no lost wake-up, no viewer without a broadcaster, `TakesDecodable` |
| `input_control` | one client with keyboard and mouse, two reports, an MCP tool and the jiggler, one switch, one fault | exclusion of manual and automated input, MCP only in its mode, `ModeStable`, exact counts, reservations, held keys |
| `input_progress` | two clients, an MCP tool, one switch | with overlapping sessions, every switch ends and every report is reserved or refused |
| `direct_player` | one worker, a window of 3, a decoder queue of 2, a wire of 2 frames, a keyframe every 5 frames, a stall time-out of 3 checks, 24 frames, two faults and a hung connection | `DecodesInOrder`, `PictureIsFlushed`, and `PictureReturns`: after any fault the picture moves again within two stall time-outs and a keyframe period |
| `browser_source` | three sockets, three user requests, one lost connection, one action of another user | `OwnedIsBound`, `ReleaseSticks`, and that every share and release is answered (`CallersAnswered`) |
| `boot_slot` | four kernels, one of which does not serve and one of which does not fit; three installations, three faults | `SelectableIsWhole`, `BricksOnlyInCommit`, and `RollsBack`: a kernel that does not serve is given up |

Why the bounds suffice: two connections are what supersede, pin and door races need; a second
stream is what shares the connection window; a stream window larger than the connection's is
what makes `takeBoth` give back; a channel of one overflows at the second frame;
one fault at any point covers every error path once, two faults let the clean-up of the first
fail as well (`nexit_duplex`). In `direct_player` 24 frames are more than twice what
`PictureReturns` allows, so that a stall can begin after a first one has been cured, and a
window of 3 over a wire of 2 lets the server block on either. In `browser_source` the third
socket is what a reload during a reconnect needs; the safety properties also hold with four
user requests (6.4 million states), which takes too long with liveness. In `boot_slot` the
third installation is the first that can start on a confirmed trial whose predecessor was
itself staged from one. Three or more competing parties are not covered.

### Disagreements between code and text

Two runs are expected to fail: each states a sentence of the repository, quoted in
`PROJECT.json`, that the code does not keep.

* `direct_player_stall`: `checkFrameStall` counts a first strike, sets `lastFrameAt` to now and
  asks for a keyframe. The next check comes a second later, finds `lastFrameAt` recent and
  resets the strikes (`screen/direct.worker.ts:187-193`). The second strike, which drops the
  socket, is out of reach, and a connection that hangs without closing holds the last picture
  until the operating system gives it up; the comment at line 28 promises the drop.
* `boot_reconfirm`: `Confirm` asks only whether the running kernel was started from the trial
  slot. After its own commit that stays true until the next reboot, and `main.go` starts
  `confirmKernel` with every start of the server. Between the staging of the next kernel and
  the reboot, a server restart (a crash, an application update, a failed step that ends the
  installation) copies the staged, untried, perhaps half-written kernel over `boot.sd`
  (`bootslot/bootslot.go:247-256`). `BricksOnlyInCommit` excludes this case by `hurt`.

Six more have a property and a configuration of their own, which anybody can run; TLC finds
each violated:

* `NexitCreditLeak.cfg` (`UpCreditReturned`): bytes queued at the exit for a stream that is
  dropped are never returned to the connection window (`nexit/session.go:220`, `:464-468`),
  although `server/service/exit/clients/README.md:64-65` says they are.
* `NexitHalfClose.cfg` (`HalfCloseFlushed`): when the destination closes while the kvm's EOF
  waits behind data, both EOFs are noted and the exit drops the stream with that data unwritten
  (`nexit/session.go:430`); line 75 of the same text says pending bytes are flushed.
* `ExitSlotRevoke.cfg` (`RevokedNeverAttached`, module `MCExitSlot`): a session that passed the
  gate and is not in `Mux.pending` yet, or has left it and not attached, survives `CloseAll`
  and attaches with a revoked token (`exit/mux.go:164`; the comment at `:63-66` excludes it).
* `ExitSlotDoor.cfg` (`DoorNotUndone`, module `MCExitSlot`): `onClose` compares the current
  session and clears the door in two steps; a session that attaches in between is left behind
  an empty door (`exit/manager.go:645`; comment at `:643`).
* `H264StreamDrop.cfg` (`ReceivesDecodable`, module `MCH264Stream`): the overflow path of the
  source drops frames from a channel the streamer reads at the same time; queues downstream
  are not told, and a viewer gets a delta frame whose reference was dropped
  (`stream/h264_source.go:166`; comment at `framequeue/queue.go:185-188`). `TakesDecodable`,
  which holds, is the part of that promise the queues can keep by themselves.

* `BootSlotCutCommit.cfg` (`FailedCommitRollsBack`, module `BootSlot`): a power cut or an I/O
  error inside `Confirm`'s copy tears `boot.sd` while `ab_state` is still `trial` and the attempt
  is spent: the next boot goes to the torn kernel, and there is no other. The comment at
  `bootslot/bootslot.go:243-245` says such a commit "simply rolls back on the next boot". The
  same happens when the guard's deadline passes just before the marker is written.
  `BricksOnlyInCommit`, which holds, says that nothing else has this effect.

Met while modelling, without a property:

* A RST that reaches the exit during the dial finds no table entry, and the stream goes live
  afterwards (`nexit/session.go:286`, `:374`), although the protocol text says any RST releases
  a stream. The kvm tolerates the frames it then sends, which `nexit_download` covers.
* A crash between the commit and the removal of `kernel_pending` reports a kernel that was
  committed as rolled back; one between arming and `MarkPending` leaves the version of an
  earlier attempt to be recorded as installed.
* The worker's `resyncRequested` stays set when a resync asked for by the stall watch is
  answered while a decoder exists, so a later decoder error sends no request and recovery waits
  for the stall watch. `PictureReturns` allows for it.
* An owned release is answered twice: by the handler (`sources/service.go:628`) and by
  `watchTerminations`, which does not leave out the source's own releases. The page takes the
  second `released` for a revocation, or, if the user has shared again meanwhile, for the
  answer to the new claim (`misread`); the slot is then bound to a page that has no lease.
  `devices/media.test.ts:423` ("an owned release is not reported as a revocation") tests the
  client with one answer.
* A release over REST that finishes before a `resumed` arrives leaves the slot in `owned`
  without a lease. `canRun` asks for both. An `error` without a slot answers the first pending
  request, whichever that is (`devices/client.ts:377`).
* A release that sends its request on a socket that has been opened again while the capture
  stopped makes the resume fail with "already pending": the lease is dropped although the token
  was good (`devices/client.ts:437`, `:462`). The release was going to drop it.
* A reloaded page that has a lease and finds no device does not connect, but `reconnect` on the
  next `visibilitychange` does, with a hello that has no streams; the registry refuses it
  (`sources/types.go:298`) and the page tries again for as long as it is open.
* `MicrophoneCapture` (`devices/capture.ts:284`) does not look again whether it was stopped
  while it waited for `getUserMedia`; `CameraCapture` does.
* `picoclaw-gateway.ts` forgets its socket in `close()`, after which the promise of a connection
  that was still being made is never settled.

## Fairness

Fairness is weak and stated for goroutines that are past a wait: read loops, writers, drains,
handlers behind the gate, workers, transactions under a lock. The Go scheduler runs a runnable
goroutine eventually, and waits have timeouts. Nothing is assumed of peers and users: nobody
has to connect, write, close, acknowledge, release a key or leave.
In `Nexit` that includes reading. `relayTCP` clears the deadlines of hev's connection
(`exit/socks.go:239`, `:447-487`) and `drainTCP` writes to the destination without one, so a
`Read` that hands bytes to hev and `DrainWrites` are not fair: a hev that stops reading one
stream can hold the whole connection window, and a destination that stops reading holds up its
own upload. The two liveness properties that need hev to read say so themselves, `HevReads =>`
(weak fairness of `Read` and `ReadEOF`); none needs the destination to.
In `BrowserSource` the page's timers and callbacks, the server's handlers and `onopen` are fair:
a socket that is made either opens or is lost, and a lost one is noticed. The user, other users,
faults and the expiry of a lease are not. In `BootSlot` only the guard and the boot loader are
fair, so that `RollsBack` owes nothing to the server of a kernel that may not run one.
`DirectPlayer` needs no fairness: time does not pass while a callback is due.
A dial ends (`ExitPump`) because it has a timeout; a cancelled MCP operation returns because
tools watch their context. `WaitTimesOut` is what makes `SwitchEnds` true while a key is held:
the comment in `activity.go` ("an abandoned client cannot leave the manager stuck in the
transitioning state forever") is what the property states.

`CHECK_DEADLOCK FALSE` is set where behaviours end by design: all bounded input used up and
everyone gone.

## Proofs

For every value of the constants, under the named assumptions next to their declarations
(windows and limits are naturals, most of them positive; viewer sets are finite):

* `CreditWindowProofs`: `TypeCorrect`, `CreditConserved`, `WindowNeverExceeded`,
  `SenderNeverStarved`. The inductive invariant is conservation (available, on the wire, held,
  owed and granted credit add up to the window) together with the types, `owed = 0 \/ owed < Half`,
  and that the check has not tripped. Conservation alone gives the second
  and third; the bound on `owed` gives the fourth.
* `FrameQueueProofs`: each queue operation keeps `QueueInv`, which says that the queued frames
  follow each other and the last one taken, that queued plus unacknowledged frames fit the
  window, and that a queue that skipped waits for a keyframe. No step is about concurrency;
  the lemmas are about records and sequences.
* `H264StreamProofs`: all invariants of `H264Stream` and the action property `TakesDecodable`,
  for any finite set of viewers. Three layers, each inductive given the ones before:
  `Inv == TypeOK /\ QueuesInv` (each action changes at most one viewer's queue, by one of the
  operations above, so the lemmas carry over) gives `StreamTypeCorrect`, `FlowWindowKept` and
  `WritersTakeDecodable`. `ServedInv` says which runs of the streamer can exist together, what
  each has subscribed and when the source runs; it gives `ViewersServedTheorem`. `OrderInv` says
  that frames in channels, in a run's hand and in queues are newer than everything the viewers
  they can reach have seen, although numbering starts over with a source; it gives
  `AcksExactTheorem`, and with what the queue operations keep (`KeptInv`, `Signalled`)
  `QueueBoundedTheorem` and `NoLostWakeupTheorem`. `TakesDecodable` is not true of states but of
  the frame a writer takes next, and follows from `QueueInv` before the step.
* `DirectPlayerProofs`: `FlushedTheorem` and `InOrderTheorem`. `Drawing` relates the flags of the
  worker: a picture queued is being drawn, drawing has a flush scheduled, and a scheduled flush is
  in the channel. A stale flush message left behind by a reset only makes the count larger.
  `WireInv` says that frames on the wire follow each other from the one the decoder had last to
  the one the server's queue handed out last, where `QueueInv` takes over; while the worker has no
  decoder nothing has to follow, which is why a decoder may start on a keyframe only.
* `ExitSlotProofs`: `ConnectingTheorem`, `OneSessionTheorem`, `PinTheorem`, for any finite set of
  connections, any hosts, callers, tokens and pins. The invariant adds to the three properties the
  types, that only a session about to close its predecessor remembers it (`PrevKnown`), and that
  a caller of `CloseAll` holds sessions only until it has closed them (`SnapKnown`).
  The count is a cardinality, and each step moves one goroutine in or out of the counted set.
* `InputControlProofs`: `TypeTheorem`, `CountsTheorem`, `ManualTheorem`, `ModeTheorem`,
  `ReservationsTheorem`, `KeyDownTheorem` and the action property `ModeStableTheorem`, for any
  finite sets of clients and callers. `Inv` is a conjunction: the control state's types; per
  client, that pending reservations are those queued or in a worker's hand, of the current
  activation, where the reader and the workers stand, and, while nothing has failed, that a key
  down is known to be held; that the lane names the operation that runs, is free under a
  session, and that a session that begins waits for the operation in it (`LaneInv`); that the
  gate is closed while the mode is saved, with nobody inside, and that MCP callers past their
  second check are in MCP mode (`GateInv`); and `CountsExact`. The counts are what the rest needs: the coordinator compares
  numbers with zero, and only because they are exact does zero mean that nobody is there.
  Clients are treated by value: one lemma per thing that can happen to one client's session,
  queues and workers, one lemma that says by how much a client, a worker or a caller changes a
  count, and one lemma per group of actions.

* `BootSlotProofs`: `SelectableTheorem` and `BricksTheorem`, for any kernels and any number of
  installations and faults. Neither property is inductive. `Inv` adds that while the trial state
  is set the trial slot is whole (`ArmedIsWhole`: the reason why the installation disarms
  first), that nothing but a trial is confirmed and no installation runs while the power is off
  (`ConfirmsTrials`), that a running kernel without room is never committed, so that the trial
  state, its slot and the idle installation stay as they were when it started (`BigStays`), and
  that `boot.sd` is torn only during a copy or after one that was cut short (`TornIsKnown`). One lemma per group of actions (`InstallInv`, `ConfirmInv`,
  `MachineInv`) shows that a step keeps it.

* `NexitProofs`: `ProtocolErrorFree`, `StreamCreditKept`, `DownloadComplete`, `UploadComplete` and
  the refinement `DownWindowRefined`, for any number of streams and any windows, limits and
  bounds. None of the four invariants is inductive. `IInv` looks at one stream at a time
  (`StreamOK`): its records at the two ends, the bytes of it in the kvm read loop's hand, and the
  *views* of the two channels. A view of a channel is all the invariant knows of it: the bytes of
  DATA and WINDOW for the stream, which of OPEN, OPENED, DATA and EOF are there, and whether no
  DATA follows an EOF, DATA and EOF follow OPENED, and OPEN is there once. `ViewConcat` computes
  the view of a channel from those of its parts, so each send and each receive is a few facts
  about views, and no step needs induction over a channel. `StreamOK` has five parts: how far the
  opening has got (`Opening`); that nothing comes after an EOF, downstream (`DownEOF`) and
  upstream, where it passes from the wire into the drain's queue (`UpEOF`); and that the bytes
  (`StreamBytes`) and the credit (`StreamCredit`) of the stream add up, what `takeBoth` has in
  hand included: a sender holds a claim or a frame, never both. Credit adds up only while
  both ends hold the stream; after the exit dropped it an inequality remains, which is what
  `enqueue`'s window check needs. Around the streams, what is outstanding is what is queued or in
  hand (`HeldOK`), and the exit's connection credit, used and unused, is at most the window
  (`ConnOK`), which is what `onData`'s check needs.
  There is one lemma about one stream for each thing that can happen to it (`OpenStep` to
  `ShutStep`), and one lemma about the session for each action. These show `Kept`: besides the
  invariant, how the connection's credit moved (`ConnStep`) and how the table and the released ids
  changed (`TableStep`). Credit is lost in one case only, DATA for an id that was released and
  forgotten (`MoveLose`). So the refinement has a condition, `RemembersAll`: the released list
  holds every stream of the session. Then the list has no duplicates and misses nothing
  (`Remembered`, by the pigeonhole principle), and each `Move` is a step of `CreditWindow`. A
  longer session loses credit if DATA arrives for an id that `releasedCap` later releases have
  pushed out of the list; `ProtocolErrorFree` does not need the condition.

Sums over queues and channels are cardinalities of sets of bytes (`Sum`), so that the library's
theorems about finite sets say how they change; as folds they would have needed induction.

Only model-checked: liveness and fairness, which are out of the prover's reach; `PictureReturns`,
which bounds the length of a recovery; and `OwnedIsBound` and `ReleaseSticks` of `BrowserSource`.

## Not modelled

* UDP streams, address and frame parsing, accounting, the reconnect loop of nexit, Mode B
  proxying, DNS: no shared state with the parts above beyond what `Nexit` has, or pure I/O.
* Bounded write channels of a session: `Nexit`'s channels are unbounded, so the two read loops
  cannot block each other there.
* Connection loss inside `Nexit`: the session's life cycle is `ExitSlot`'s.
* Mode files edited by hand, picoclaw's own lease manager, paste and reset requests,
  relative/absolute mouse hand-over.
* In `DirectPlayer`: errors of `decode` other than the two kinds the code tests for, which
  WebCodecs raises only for a first chunk that is no keyframe; messages too short to be frames;
  pictures of a decoder that has been closed, which WebCodecs does not hand out.
* In `BrowserSource`: take-over by the page itself (`adopt`), USB and speaker slots, the window
  of `sendFrame`, the event socket, a subscriber whose buffer overflows, expired logins (4401).
* In `BootSlot`: downloads and signatures, and a device whose boot loader has no slot policy.
* Most of the web client. About half of the TypeScript are translations, and with views and
  request wrappers that keep no state another part depends on they are more than nine tenths of
  it: modelling them would be transcription. `lib/websocket.ts` with the keyboard's key tracking is the part left
  that has a protocol.
* The other components listed as `not_modelled` in `PROJECT.json`.

## Plan

1. Proofs: `OwnedIsBound` and `ReleaseSticks` of `BrowserSource`, `PictureReturns` of
   `DirectPlayer`.
2. `HdmiDemand`: capture on demand with versioned snapshots, the idle timer's generation,
   leases and the reset (`vm/hdmi.go`, `vm/hdmi_state`); its input are the viewer counts of
   `H264Stream`.
3. `InputSocket`: the browser's input socket and key tracking across reconnects, composed with
   the client end of `InputControl`: no key stays down that nobody holds.
4. `Presentation`: the gadget transaction with recovery and rollback, with the media holds.
5. Bounded write channels and UDP streams in `Nexit`; a second enable in `ExitSlot`.
6. The bridge's confirm-or-roll-back.
