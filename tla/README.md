# IR Chat: a TLA+ verification project

IR Chat is a chat program for a handheld computer: messages typed on its
keyboard are sent and received as infrared frames. This directory holds TLA+
models of its core, TLC configurations that check them on small instances, and
proofs, checked by TLAPS, of what holds for every instance. Paths below are
relative to the repository (`src/radio/radio_worker.cpp`); `PROJECT.json` uses
the same paths with one more `src/` in front, and its `map` names the lines each
definition models.

Contents: [the system](#1-the-system), [the plan](#2-the-plan),
[how the modules correspond to the code](#3-modules-and-code),
[the runs](#4-what-the-runs-check), [fairness](#5-fairness),
[findings](#6-findings), [the proofs](#7-what-is-proved),
[limits](#8-what-is-only-model-checked-and-what-is-not-modelled).

## 1. The system

Two threads. The *main thread* runs a loop of about 10 ms: key events, LVGL, the
view model's `tick` and the page's. The *worker thread* owns the infrared device.
They share two bounded queues, two atomic flags and two mutexes, all in
`RadioWorker`; everything else belongs to one thread.

```
 Keypad -> IRChatApp -+-> text area (LVGL) --+
                      |                      v
                      +-> ChatViewModel -> ChatModel --commands--> RadioWorker
                            |   |            ^                       |  thread
             observables    v   v            +------ events ---------+
                           ChatView                                  v
                                                       RadioBackend (Linux | mock)
                                                          | codec, discovery
```

| Component | State | Operations | What is hard | What makes it correct |
|---|---|---|---|---|
| Radio worker, `src/radio/radio_worker.cpp` | `_running`, `_stop_requested`, `_commands` (16), `_events` (64), `_pending_dropped_events`; on the thread `initialized`, `receive_requested` | `start`, `stop`, `post`, `tryPopEvent`; `run`, `initializeBackend`, `handleCommand`, `handleSend`, `pushEvent` | two threads; a condition variable; every backend call may fail or be cancelled; both queues are bounded; restart after stop, failure or an unexpected end | a send is answered once and truthfully; no command is stranded; a stop ends the thread; the backend is never used closed; the last reported state is the real one; a full queue loses what it may and says so |
| Chat model, `src/models/chat_model.cpp` | `_started`, `_radio_info` (state, ready, diagnostics, drops), `_pending_messages`, `_messages` (64), draft | `start`, `stop`, `sendDraft`, `retryRadio`, `tick` (16 events), draft editing | the worker runs between any two of its statements; it acts on what it was last told; the message becomes pending after its command was posted | each send is shown once, with its real fate; the interface agrees with the worker once drained; nothing stays pending or initializing for ever |
| Backend contract, `src/radio/radio_backend.hpp`, `.cpp` | closed, open or receiving | `open`, `close`, `startReceive`, `stopReceive`, `receive`, `transmit` | the same promise from two very different devices, across reopening | packets numbered upwards for ever; each operation only in its mode |
| Linux IR backend, `src/radio/linux_ir_backend.cpp` | two descriptors, `_open`, `_receiving`, decoder, decoded packets, sequence numbers | the contract's | nodes that vanish or change between two system calls, cancellation inside `open`, a kernel buffer older than the session, several frames in one read | descriptors are held in pairs or not at all; a frame heard whole is delivered, nothing older is |
| Mock backend, `src/radio/mock_radio_backend.cpp` | loopback slot, packet counter, timers, settings | the contract's | a single slot, two sources of packets, sleeps that last too long | the last frame sent comes back, across the mode changes around a send |
| Frame codec, `src/radio/ir_chat_codec.cpp` | decoder phase, bits, expected length, counters | `encode`, `feed`, `reset` | resynchronisation after noise, bad CRC, lengths taken from the air | a frame that arrives undisturbed is decoded whatever came before; nothing else is; every frame begun is counted once |
| Discovery, `src/radio/lirc_device_discovery.cpp` | none | probe, deduplicate, choose by role or override | devices that fail, are listed twice or lack a capability | the chosen device is allowed and able; there is one whenever such a device exists |
| View model, `src/view_models/chat_view_model.cpp` | section, compose, dialog, help, last state | `onEnter`, `onExit`, `onKey`, `tick` | it sees only the states at the ends of ticks; keys in every mode | a failed initialization is announced until answered; what is open holds the keys |
| Application and router, `src/core/ir_chat_app.cpp` | running, page, keyboard group | `start`, `stop`, `onLvglKeyState`, `tick` | a key goes either to LVGL's text area or to the view model | no key is handled twice or by an editor that is gone; Esc closes one thing at a time |
| Keypad, `src/input/ir_chat_keypad.cpp` | event devices, shift state, queue of keys | `openDefault`, `poll`, `readCb`, `close` | several keyboards, one shift state, losses and unplugging | what is typed arrives once, in order, with its own shift |
| Chat view, `src/views/chat_view.cpp` | rows, scroll position, text area, dialogs | observers and `tick` | rows updated one by one against a history that drops its oldest; a text kept twice | rows are the messages; a reader keeps his place; the text seen is the draft |
| Main loop, HAL, packaging | - | - | - | - |

## 2. The plan

| Step | Modules | State |
|---|---|---|
| 1 | `EventQueue` (operators), `EventChannel` (the queue alone, with history), proofs of both | done |
| 2 | `RadioWorker`, `RadioWorkerMC`, the abstract `SendService` it implements, and proofs of its safety | done; every safety property and the refinement proved |
| 3 | `ChatModel` composed with `RadioWorker`, on `RadioInfo` | done; every safety property proved |
| 4 | `IrChatCodec`, `IrChatCodecMC` | done; `DecoderBounded`, `EveryFrameAccounted` and `CleanFrameDecoded` proved |
| 5 | `LircDiscovery`; `BackendCall`, `LinuxIrBackend`, `MockRadioBackend`; `DefaultBackend` puts both under the worker's calls and implements the abstract `RadioBackend` | done; every safety property and the refinement proved |
| 6 | `MessageListView`, `ChatView`, `ChatViewModel` (operators on one record), `IRChatApp` (the state machine of the main thread), and proofs about it | done; every property of the run proved |
| 7 | `Keypad`, `KeypadMC`, and proofs about it | done; `TypedIsDelivered` proved |

Every safety property a passing run checks is a theorem but one. `OnlySentDecoded` of the
codec is none: it holds up to the bound on disturbances only, since enough noise can form
any frame, checksum included. Liveness stays with TLC (section 8).

## 3. Modules and code

**`EventQueue`** - what `pushEvent` does to a queue. `Victim` is the `find_if`
for the oldest received packet with the front as fallback, `Enqueue` the whole
body, `Lost` the increment of `_pending_dropped_events`. An event is a record
`[kind, id]`: details and payloads are left out, a state event is named by its
state, and the sources of error events that `ChatModel::tick` distinguishes
(`"initialize"` and the others) are two kinds.

**`EventChannel`** - that queue with its two operations and nothing else. Every
event carries the number of its push, so that order, loss and the counting of
losses can be stated. It is small enough to fill and drain the queue in every
order.

**`RadioWorker`** - `start`, `stop`, `post` and `tryPopEvent` as called by one
other thread, and the whole worker thread. `pc` says where the thread is:

| `pc` | in the code |
|---|---|
| `init`, `initReceive` | `initializeBackend` before `open`, before `startReceive` or the Idle push |
| `top`, `pop`, `handle` | the loop's condition, `tryPopCommand`, `handleCommand` |
| `receive` | `_backend->receive` |
| `test`, `armed`, `blocked` | the two waits: the predicate is being tested with the mutex held, was false and the mutex is still held, the thread is blocked |
| `stopReceive`, `transmit`, `resume`, `restore` | the backend calls of `handleSend`, the last one in its exception handler |
| `leave`, `done`, `none` | the end of `run`, the finished and not yet joined thread, no thread |

One step touches shared state once. Events that the code pushes one after the
other are put in `outbox` and pushed one per step (`PushEvent`), so that the
other thread can pop between any two. A backend call is one step; whether it
succeeds, throws or is cancelled is a choice: `Faults` says which may throw, and
`Throws` and `Cancel` express that a call checks the cancellation token and then
throws `RadioCancelled`, which ends the thread by `Leave`. `GiveUp` stands for the
handlers that close the backend, clear `initialized` and push Error.
`Unwind` is an exception caught only by the outermost handler of `run`, allowed
where the thread takes a command (a move or an allocation that throws).
`stop` is three steps (the store, the notification, the join), `post` three (the
test of `_running`, the push under the mutex, the notification), because the
worker runs in between. History variables (`accepted`, `abandoned`, `outcomes`,
`wrote`, `reported`) do not affect the behaviour.

Abstractions, named so that they can be argued about: payloads are valid (`post`
refuses the others before it looks at any state, and `handleSend` repeats the
same test); the atomics are sequentially consistent (the code uses
acquire/release on one flag at a time, and every queue is behind a mutex);
`start` is one step, because until its last statement there is no second thread;
`_lifecycle_mutex` does not appear, because one thread makes all the calls.

**`SendService`** - what the caller of `post` may rely on, without threads or
queues: a send is new, waiting, then sent or failed, in the order of acceptance,
or abandoned together with all that wait. `RadioWorker!sendStatus` is the
refinement mapping and `ImplementsSendService` the claim.

**`ChatModel`** - extends `RadioWorker`: the caller is now the chat model.
`ChatStart`, `ChatStop` .. `ChatStopped`, `SendDraft` .. `ChatPosted`,
`RetryRestart`, `RetryBegin` .. `ChatPostPush`, `TickBegin`, `TickOverflow`,
`TickEvent`, `TickEnd` are the operations cut where they touch the worker's
state.

**`RadioInfo`** - what the interface shows of the radio and how one event changes it,
used by `ChatModel` and by `ChatViewModel`: `UiState`, `TextAfterState` and `UiAfter`
are the visitor of `tick`, `Starting`, `RetryShown`, `RetryFailed` and `StartFailedInfo`
what `start` and `retryRadio` set. Of the
diagnostics only what `tick` itself looks at is kept (a text that starts with
"Send failed", another with a colon, any other). `ChatModel!CanRetry` is the view model's
condition for calling `retryRadio`, a little wider than the code's: the dialog of
a failed initialization, through which a retry is possible in any state that is
not ready, is not a variable here. In the model a restarted session goes on
numbering its sends, so that history variables can tell them apart.

**`RadioWorkerMC`** - `DeviceFaults`, the calls that can throw in the two
backends of the repository (`startReceive` throws only on a backend that is not
open, `stopReceive` never), and `AllFaults`.

**`IrChatCodec`** - a byte is eight booleans, a frame the sequence of its bits, a
sample `[pulse, us]`. `Data`, `Crc16`, `FrameBits` and `WaveAt` are `encodeIrChatFrame`
(the register of the checksum is the set of its bits that are set), `Feed` is
`IrChatStreamDecoder::feed` with one disjunct per state: `Seek`, `LeaderSpace`,
`BitMark`, `BitSpace` (with `ConsumeBit`, which checks the header byte by byte and the
checksum and the text at the end), `TrailerMark`. `bits` is `_bytes`, `_current_byte` and
`_bits_in_current_byte` in one. The air carries the waveforms of `Frames`; a receiver
measures a duration up to 18 % too short or 16 % too long (`Measured`); `Alter`, `Add`, `Cut`
disturb a sample, add one, end a transmission early, and `Forget` is the reset the
backend makes at a timeout, an overflow or a change of mode.

**`LircDiscovery`** - `discoverLircDevice` as an operator on what the file system
lists and what each node answers. `DiscoveryCorrect` is its promise, stated without the
order of the search. **`BackendCall`** holds what a call of a backend shares with the
worker (the token, its outcome, histories of packets and frames).

**`LinuxIrBackend`** - `open` is one step per system call that can find the world
changed: discovery of each role, `::open` of each descriptor, and its set-up (`SetUp`:
`readFeatures`, the test of the role, the required ioctl), which can fail with the
descriptor just opened, and the other one, already held (`OpenCallFails` for a failure
without a cause in the model). The token is tested where the code tests it (`Tested`),
which is not between an `::open` and its set-up. Every other operation is one step. A frame reaches the descriptor as a head and a tail, which is all that is
needed of the decoder here: details are `IrChatCodec`'s. `kernel` is what the driver has
buffered, `owed` the frames that arrived whole since receiving was started,
`old` the last frame begun before. The environment sends frames, breaks them, and plugs and
unplugs nodes at any time, also between two system calls of `open`.

**`MockRadioBackend`** - times are in steps of 20 ms and kept as what is left of
them; `receive` wakes when the slot or the sample is due or at its deadline, or one
step later (`WakesAt`). `settings` are the environment variables.

**`DefaultBackend`** - `makeDefaultRadioBackend` and the calls the worker makes, in the
order `run`, `initializeBackend` and `handleSend` make them, with a stop at any time, also within
a call (`Stopped`), and a restart on the same backend. `SetReceiveOn`, `SetReceiveOff` and
`SetReceiveDown` are the command that changes the mode, which asks neither what was requested
before nor, but for the calls it makes, whether the backend is up.
`RadioWorker` models the worker's own state and takes the backend as a choice of
outcomes; here the choice is the backend's. `Contract` maps both backends to
**`RadioBackend`**, the abstract specification of the interface.

**`MessageListView`**, **`ChatView`**, **`ChatViewModel`** - the page and the view model as
operators on one record `app` (`model`, `vm`, `view`, `radio`), because an observer runs
within the `set` of the value it observes: `PutDraft` .. `PutHelp` set a value and show it.
In the list every row is one unit high; an animation is at any position between where it
was and its goal. `ModelTick`, `SendDraft`, `ModelRetryRadio` are the chat model's
operations as this thread sees them. **`IRChatApp`** is the state machine: `AppStart`, `Key`
(`OnLvglKeyState`, with the text area before the view model), `Tick`, `AppStop` in the order of
`main`'s loop, and `Radio`, the events a worker may push, in its order (`RadioOpens`,
`RadioRetries`, `RadioSends`, `RadioHears`, `RadioBreaks`, `RadioEnds`, `RadioGone`).
Where conditions of the code overlap (what is open, which key it is) the model tests them in
the code's order.

**`Keypad`** - `OpenDefault`: an override, the link to the built-in device, or the scan. What
each path answers is a choice (`Answers`), and the link may fail where the node it leads to,
or would lead to, opens: the scan then opens the built-in keyboard with the others. `poll` is
`PollBegin`, `PollRead`, `PollNext`, `PollEnd`, so that keys are pressed and keyboards unplugged
while it reads, `PushKeyEvent` has the shared `shift`, `ReadCb` reads for LVGL, `Close` ends it. Every open
file has a kernel queue that loses what it holds when it overflows; `owed` is what each
keyboard's own shift would have typed.

## 4. What the runs check

Bounds: `EventCap`, `CommandCap`, `EventsPerTick` and `HistoryLimit` stand for 64,
16, 16 and 64. They are set low where full queues are the question and high
where a lost event would hide it. `MaxPosts`, `MaxStarts` and `MaxPackets` bound the length
of a behaviour by what the environment does; the worker's own steps are not
bounded. `CHECK_DEADLOCK FALSE` throughout: a stopped program with its bounds
used up has nothing left to do.

| Run | Instance | Properties | Shows |
|---|---|---|---|
| `event_channel` | capacity 3, 8 pushes | `Conservation`, `Ordered`, `NewestKept`, `ControlOutlivesPackets` | a full queue counts every loss, never reorders, always keeps the newest event, and gives up a control event only when it holds no packet |
| `worker_safety` | 3 posts, 1 start, 1 packet, both queues 2, `DeviceFaults` | `TypeOK`, `OneOutcome`, `OutcomeTruthful`, `NoneForgotten`, `NoCommandStranded` | every accepted send is in the queue, in hand or answered; it is answered once, as completed exactly when its frame was written; no command lies in front of a sleeping worker |
| `worker_faults` | all calls may throw, 2 posts, 2 starts, queues 2 and 1 | `BackendReady`, `ReportFaithful`, `RunningMatchesThread` | no failure, restore or restart leaves the backend in a session the worker does not believe in, or the reported state behind the real one |
| `worker_liveness` | 2 posts, event queue 1, fairness | `EverySendAnswered`, `StopSeen`, `ImplementsSendService` | sends are answered, in order; a stop ends a thread that is anywhere but in the wait without a timeout; refinement of `SendService` |
| `lost_wakeup` | no posts, `open` may fail, fairness | `StopReturns` | a counterexample: see Findings |
| `chat_safety` | 2 posts, 2 starts, queues of 4 and 1, 2 events per tick, history of 1, `startReceive` does not fail | `ChatTypeOK`, `MessagesTruthful`, `PendingAccounted`, `InterfaceAgrees`, `EndedWorkerShown`, `EveryAnswerFindsItsMessage` | the chat shows a send as what it became; one not shown is accounted for; the interface agrees with the worker once drained, and offers nothing to send of one that ended, whatever it left in its queue |
| `chat_liveness` | 2 posts, 1 packet, event queue 12, history of 2, `startReceive` may fail, fairness | `ShownOnce`, `EveryMessageShown`, `InitializationSettles` | what is typed is shown in the end, and once, also when the worker answers it twice; initializing ends |
| `lost_retry` | 1 post, `other` may be thrown | `RetryNotLost` | a counterexample: see Findings |
| `codec` | 2 frames of one byte, 2 transmissions, 2 disturbances | `DecoderBounded`, `OnlySentDecoded`, `EveryFrameAccounted`, `CleanFrameDecoded` | no remnant of a frame, no noise and no reset costs a whole frame; nothing is decoded that was not sent |
| `backends` | 2 nodes, 4 arrangements of `/sys`, `/dev` and the overrides (in three of them the transmitter is not found), 2 openings by one or two threads, 2 frames each way, sequences of 2 bits, 1 change of the nodes or failing call at any step of `open` | `DescriptorsPaired`, `WholeFramesKept`, `DiscoveryRight`, `LastFrameLoopsBack`, `OnlyFreshDelivered`, `ImplementsRadioBackend` | both backends keep their promise, whatever the device does |
| `ui` | three scenes: typing two characters, reading a history of 5 that receives 7 messages, a radio in trouble whose events of two causes may fall into one tick | `EditorAgrees`, `RowsShown`, `FailureAnnounced`, `ModalHoldsKeys`, `ReaderKeepsPlace` | draft, editor, dialogs and rows agree in every order of keys, ticks and events |
| `keypad` | 2 keyboards, each alone or both open, 3 presses (of shift keys too), kernel queues of 3 | `TypedIsDelivered` | keys of keyboards read in turn arrive once and in order, with their own shift unless another's was used |

Why these bounds are enough: two posts are needed for one send to wait while
another is in hand, the third lets a retry or a mode change come between; a
second start is needed for anything left over from a first session to show; an
event queue of 1 or 2 overflows within one send (which pushes four events) and
12 never does; one packet is enough, since a packet changes nothing in the worker.
In `codec` two disturbances are enough to damage one frame twice, or to
damage one and put noise before the next; the durations of the noise lie on both sides of the decoder's
limits. In `ui` the scenes
bound what one run combines: a history of 5 on a screen of 2 with a follow distance of 1
is the smallest in which a reader can be away from the bottom while rows go; a tick takes
at most 3 events, fewer than an initialization and what follows push. In `keypad` a queue of 3
overflows with a shift, a key and its release and holds what fits; three presses are a shift on each
keyboard and a key, or both shifts of one and a key. In `chat_liveness` a history of 2 keeps both messages
of the two sends, so that a second message of one of them would be seen; `shown` counts also those
that have left it.
What `event_channel`, `worker_safety`, `worker_faults` and `chat_safety` check, `ShownOnce`, and the
refinement that `worker_liveness` checks, is also proved without any bound (section 7).

`OneOutcome` and `OutcomeTruthful` are checked under `DeviceFaults` and not under
`AllFaults`: with a backend whose `startReceive` could fail on an open device,
`handleSend` would report a send as completed and then, from its one exception
handler, as failed. Neither backend of the repository does that.

`PendingAccounted` and `EveryMessageShown` have exceptions, all in the code: the
messages of sends abandoned by a worker that ended stay pending and are never
shown, and so do those whose outcome was dropped from a full event queue.

`RowsShown` has an exception that is in the code as well: with the history full, a message
that arrives while the list still moves up stops it (`src/views/chat_view.cpp:468`), and
whether the bottom is near is asked before the new row is there, so that the list may follow
new messages from one row farther than the threshold. `TypedIsDelivered` speaks of keyboards
that lost nothing, and of their characters only while no other keyboard's shift was used: `poll`
ignores SYN_DROPPED and the shift state is one for all. `EndedWorkerShown` excepts one thing, a
retry that lies in the queue of the ended worker (finding 2), and only from being shown as an error.

For each property the modules define a mutation of a definition (a guard off by
one, a missing reset, a report forgotten) under which the run finds it
violated; a mutation stands just before the definition it mutates.

## 5. Fairness

- Worker: `WF(WorkerStep)`. The thread is scheduled and every backend call
  returns: `receive` polls for at most 40 ms, a write lasts as long as its frame,
  opening polls the token. Which way a call goes is not fair.
- Spurious wakeups may happen and need not: no fairness on `SpuriousWakeup`.
- Caller: `WF(ClientStep)` finishes a call that was begun; nothing obliges the user
  to begin one.
- `SF(ChatPostPush)`: the push waits for a mutex that an idle worker takes again
  every 100 ms; it holds it only while it tests its predicate, and a mutex that
  is free again and again is obtained in the end.
- `WF(TickBegin)`: the main loop calls `tick` for ever.
- `IrChatCodec`, `DefaultBackend`, `IRChatApp` and `Keypad` state no fairness: their properties
  are about safety.

## 6. Findings

1. `lost_wakeup`: `stop` (and `post` of a shutdown) stores `_stop_requested` and
   notifies without `_command_mutex` (`src/radio/radio_worker.cpp:76-77`, `99-100`). A
   worker without a radio that has found its predicate false and has not blocked
   yet does not hear it, waits without a timeout, and `stop` joins it for ever: Esc
   on the chat page then hangs. The wait with a timeout and the backend calls are
   not affected, which `StopSeen` shows.
2. `lost_retry`: `run` pushes Stopped before it clears `_running`
   (`src/radio/radio_worker.cpp:190-191`). The user who presses R on what that event
   shows may have the retry accepted by a queue nobody reads; the interface then
   stays in "Initializing". It needs a worker that ended by an unexpected exception.

## 7. What is proved

By TLAPS, for every value of the constants that satisfies the named assumptions
(`EventCapAssumption`, `MaxPushesAssumption`, `WorkerAssumption`: capacities are
positive, bounds are naturals, `Faults` is a set of calls; `CodecAssumption`: a text has at
most 255 bytes and the frames on the air are made of bits and can be encoded;
`BackendAssumption`, `LinuxAssumption`, `MockAssumption`: widths and times are naturals, a node
has a name, directories list sequences of names and there is some arrangement of them;
`ListAssumption`, `ViewModelAssumption`, `SceneAssumption`: heights, limits and bounds are
naturals, positive where the code's constants are, a full history is longer than the screen
and the follow distance together, and "no character" is no character; `KeypadAssumption`: the
scan tries every node once, the built-in one among them, a key has a code that
`translateKey` knows, a queue holds an event). They say no more than the types and the values
of the code's constants.

**`EventQueue_proofs`** - lemmas about the operators: the victim is in the queue
and is a packet if there is one; removing keeps the others in order; `Enqueue`
keeps the capacity and puts the new event last, `Len` and `Lost` add up, every old
event that remains keeps its place relative to the others (`EnqueueOrder`), and
whatever is no packet survives while there is a packet (`EnqueueKeepsControl`).

**`EventChannel_proofs`** - `ChannelTypeCorrect`, `NothingLeavesUnseen`,
`OrderKept`, `NewestNeverDropped`, `ControlOutlives`: the type and bound of the queue (which
`worker_safety` checks, for both queues, in its `TypeOK`) and the four properties of the run
`event_channel`. The conjunction of the invariants is inductive as it stands.

**`RadioWorker_proofs`**

- `WorkerTypeCorrect`, `TypeOK`: with it the bounds of both queues. `TypeInv` adds
  that a send in the queue, in hand or being posted has the number of a send, and
  that a thread at `transmit` or `stopReceive` has a send in hand; otherwise `wrote`
  could not be typed.
- `RunningIsTruthful`, `RunningMatchesThread`: inductive by itself.
- `BackendAlwaysReady`, `BackendReady`: for *any* set of failing calls. It is not
  inductive: that the session is right again after a send depends on `initialized`
  and `receive_requested` having been what the places inside the send imply.
  `BackendInv` says so for each place.
- `ReportsAreFaithful`, `ReportFaithful`: the invariant `ReportInv` is about the last
  state the interface *will have been told* once `outbox` is pushed (`Told`); it uses
  `BackendInv` for the places where a restored mode is reported.
- `NoSendForgotten`, `NoneForgotten`: `HeldInv` says where an accepted and not
  abandoned send is, and that once the thread is on its way out only an answer
  counts, since the next `start` empties everything else.
- `NoCommandIsStranded`, `NoCommandStranded`: inductive once `StrandedInv` adds that the
  queue is still empty when the predicate has been found false and the mutex is held.
- `SendsInv` is the heart of what is said of a send. Nothing about its fate is inductive, because
  what keeps a send from a second answer is the *order* of the sends: ids grow in the queue,
  the send in hand is older than those queued, and whatever is answered or about to be is
  older than both (`OrderInv`); `NumbersInv` ties ids to acceptance, `AnswersInv` says
  where the thread can be while an answer is on its way. It holds for any `Faults`.
- `EachSendHasOneOutcome`, `OneOutcome`, and `OutcomesAreTruthful`, `OutcomeTruthful`, assume
  `"startReceive" \notin Faults`: both backends of the repository throw from `startReceive`
  only when they are not open, and `handleSend` calls it only on an open one
  (`BackendReady`); section 4 says what a third backend could do. `OnceInv` and `TruthInv`
  add that an answer still to be pushed is the first, and that it says whether the frame was written.
- `WorkerImplementsSendService`, `ImplementsSendService`: with the mapping `sendStatus`, every
  step is an acceptance, one answer to the *oldest* waiting send, the abandonment of
  all that wait, or a stutter. The refinement needs `SendsInv` (the oldest is the one
  in hand) and no hypothesis on `Faults`: a second answer is a stutter of the service.

Each preservation proof has a step for every action of `Next`. These theorems hold
for a single caller, which is what the module models.

**`ChatModel_proofs`** - the chat model and the worker together.

- `ChatIsACaller`: every behaviour of `ChatModel` is one of `RadioWorker`, so that all of the
  above holds for it. It needs `CallInv`: which of the worker's calls is in progress in
  which operation of the chat model.
- `ChatTypeCorrect`, `ChatTypeOK`.
- `EachSendIsShownOnce`, `ShownOnce`, for any `Faults`: the worker may answer a send twice, so it is
  `sendDraft` and `tick` that must not show it twice. `OnceShownInv` adds that a send already shown
  is pending no more and will not be again, since its post has returned (`Posted`), and that
  every message of the history has been counted.
- `MessagesAreTruthful`, `MessagesTruthful`: `OutcomesInv` says the outcomes in the event queue
  are those recorded and unseen, `ShownInv` that each message on the page shows one already
  taken from it. With `"startReceive" \notin Faults`, as above.
- `AnswersFindTheirMessages`, `EveryAnswerFindsItsMessage` (an action property, same
  hypothesis): `AwaitedInv` says that whatever may still be answered is pending, except the
  send whose post has not returned (`Posted`): the worker may answer it before it is
  pending, but `tick` runs on the thread that posts.
- `PendingIsAccounted`, `PendingAccounted`, for any `Faults`: `PendingInv` follows a pending
  message through the worker, the events and the end of the thread; that a counter of
  dropped events never falls back to 0 (`DroppedStays`) is what makes its exception sound.
- `EndedWorkerIsShown`, `EndedWorkerShown`, for any `Faults`: `EndedInv` says that a thread that
  ended by itself has Stopped as its *last* event, or has had it shown since and at most a retry
  was begun after it (`ShownAsEnded`). `NewestKept` of the queue is why it is there even when
  others were dropped.
- `InterfaceAgreesWithWorker`, `InterfaceAgrees`, for any `Faults`: the property speaks of a
  drained queue only. `InterfaceInv` is about every queue: the last event that tells a state
  tells the one in which the worker rests, or a retry is on its way that will (`RetryAhead`).

**`IrChatCodec_proofs`** - for any frames, any air and any order of feeds and resets.

- `DecoderIsBounded`, `DecoderBounded`: that the bits stay within the frame depends on
  the length read from the header being the one the decoder then waits for. `DecoderInv`
  adds that a header still incomplete expects nothing yet, and that an expected length
  is that of a text of at most `MaxPayload` bytes (`Lengths`).
- `FramesAreAccounted`, `EveryFrameAccounted`: `AccountInv` adds only that the counters are
  naturals; each step of `Feed` moves a frame from "in progress" to one counter or none.
- `CleanFramesAreDecoded`, `CleanFrameDecoded` (an action property), for frames of any length
  and any measuring error within the receiver's: it speaks of the last sample only, so
  `CleanInv` says what the decoder holds after *each* sample of a frame that nothing has disturbed:
  the bits of the frame so far (`AfterSpace`, `AfterMark`), and the expected length once the
  header is complete. That it starts so whatever came before is a lemma of its own: the mark of the
  leader begins a frame in every state of the decoder. That the prefix of a frame is never rejected
  rests on the header, the length and the checksum being those that `encodeIrChatFrame` wrote.

**`DefaultBackend_proofs`** - for any nodes, capabilities, overrides, timings and bounds.

- `DescriptorsAlwaysPaired`, `DescriptorsPaired`: the property speaks of the time between
  calls; `DescriptorInv` says which descriptors each step of `open` holds (none before the first
  `::open`, the receiver's during its set-up, both during the transmitter's), so that its handler
  is known to close them wherever it fails, and that a node that goes away leaves
  its descriptor held (`DeadIsFd`).
- `LastFrameAlwaysLoopsBack`, `LastFrameLoopsBack`: `LoopbackInv` adds that frames are numbered
  as they are looped back, so that the newest cannot already have been returned.
- `WholeFramesAlwaysKept`, `WholeFramesKept`, and `OnlyFreshFramesDelivered`,
  `OnlyFreshDelivered` (an action property): `HeardInv` says of every frame that is owed that
  either it was delivered, or its tail is in the kernel's buffer and *the decoder will be
  in the middle of that frame when it comes to it*. What the decoder will be in after k parts of the
  buffer is a function of k, so that the lemmas about it are inductions on the number of
  parts; an induction is done with the least number for which the claim fails
  (`SmallestOf`), since the library's induction theorems are out of reach. `FreshInv` adds that
  what the decoder is in the middle of, and what was decoded, is newer than `old`.
- `BothBackendsKeepTheContract`, `ImplementsRadioBackend`: every step of either backend is one of
  `RadioBackend` or a stutter. `CalledInv` says that the worker sends only while it does not
  hear, `DeliveredInv` that no packet has a number above the last one given, also across a
  closing and a new opening.
- `DiscoveryIsRight`, `DiscoveryRight`: a loop of the search is a fold, and is unrolled by an
  induction on its length. `Grown` is its invariant: the candidates there were stay in
  front, the new ones are of the nodes probed, and every probed node that answers is among them.
  `Probed` says so of the whole search, with the nodes under the paths that were searched before
  those of `/dev`; what is chosen, and what each error claims, is then read off the candidates.

**`IRChatApp_proofs`** - for any keys, history, limit of the draft and behaviour of the radio.

- `AppInvariant`: `AppInv`, from which the next three follow at once. Its parts need each
  other, as one call sets several observed values and each of them changes the page.
- `EditorAlwaysAgrees`, `EditorAgrees`: `Fine` says that the page is there, every part of the
  record has its type and the two copies of the draft are the same. There is a lemma for
  every value that can be set (`DraftPut`, `ComposePut`, ...), then one for every operation,
  then `KeyOutcome` for any key, whichever way it is routed.
- `FailuresAreAnnounced`, `FailureAnnounced`. That the dialog is open while the failure is shown
  is not inductive: `VmTick` closes it when the radio is ready, and one tick takes several events.
  `Told` says that a failure shown is never shown as ready, and of the events still to come
  (`Cautious`) that an InitializeError directly follows an Initializing, or comes first to a
  radio shown as not ready: the events of a tick then leave no state in which the failure is
  shown and its dialog is closed. `TickByTick` carries an invariant of one event
  over the fold of a tick, by an induction on the number of events.
- `ModalsHoldKeys`, `ModalHoldsKeys`: `Outcome` says of any key what it closes (`OneCloses`) and
  what it asks of the worker (`NoneSent` under a dialog); `HelpHolds` is about the help. It holds
  for every key and not only for those of a scene.
- `RowsAreShown`, `RowsShown`, for any height of the screen, follow distance and history longer
  than both. That the rows are the messages is kept by a new message only because a history is
  numbered without gaps (`Numbered`): the row that `setMessages` looks for is then the second when
  the oldest message goes, and what remains is a prefix of the new list (`RowsRemoved`,
  `UpdateIs`), so that no list is ever rebuilt under a reader. `ListFine` adds that the position
  is within the rows; `MessageShown` follows the position through `cut`, `placed` and `drawn` of
  the update. What the other operations leave alone is said once, by `Still` (list and history)
  and `Quiet` (the rows, while the list may move), with a lemma for each value that can be set.
- `ReadersKeepTheirPlace`, `ReaderKeepsPlace` (an action property): one tick may add several messages, so
  `Carried` says what a tick's events do together: a reader who was at row y is at y less the
  number of messages that have gone, or at the top, and is still reading. It is transitive, and
  is carried over the fold by the same induction as `Told`.

**`Keypad_proofs`** - `TypedKeysAreDelivered`, `TypedIsDelivered`, for any keyboards, key codes, number
of presses and capacity of the kernel's queues. That what was delivered is a prefix of what
is owed says nothing of what is in the queues, so it is not inductive. `CaughtUp` says that the
events left in the queue of a device that lost nothing, translated from some shift state and some keys
that differ from those read in shift only, lead to exactly the keys owed and to the shift keys
that its user holds (`OwnRest`, by `Matches` and `Alike`); and from the *present* shift state and the very keys read
as long as no other keyboard's shift was used (`Rest`). `OpenedOnce` says that no device is
open twice, `ShiftsKnown` that a shift key in a queue counts as used, `Fresh` that nothing has
happened before the devices are opened. `Waiting` is a fold over the queue of keys, unrolled by
induction on its length.

## 8. What is only model-checked, and what is not modelled

Only model-checked: liveness (`EverySendAnswered`, `StopSeen`, `EveryMessageShown`,
`InitializationSettles`), which is out of the prover's reach; and of the codec `OnlySentDecoded`,
which is true only as long as the disturbances are few: nothing but the checksum keeps
noise from being a frame, and with enough disturbances in a run some noise passes it. The two
counterexamples of section 6 are TLC's as well.

Not modelled:

- The SDL build: buttons and clicks, its key callback, the help toggled by mouse,
  the router's `push` and `back`. The
  models are of the device build, in which every input is a key.
- The stacking order of LVGL objects: a failure dialog comes to the foreground over an
  open help while the help keeps the keys (`src/views/chat_view.cpp:826`).
- Geometry, colours, texts, the curves of animations; `std::clamp` with an upper limit
  below its lower one, which a list shorter than the screen gives it
  (`src/views/chat_view.cpp:580`), is modelled as the standard library computes it.
- The router's history: there is one page. The driver names of LIRC devices, formatted
  features and diagnostics.
- The codec's count of ignored noise samples; the carrier and duty cycle settings, whose
  failure the code only logs.
- LVGL, the HAL, logging, build and packaging; weak memory orders.
