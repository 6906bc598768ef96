# Verification of SpiralSynth Modular

TLA+ models of the concurrent core of SpiralSynth Modular, the TLC
configurations that check them on small instances, and TLAPS proofs of the
theorems that hold for every instance. Everything is translated from the code
under `src/`. Where a comment and the code disagree the model follows the code,
and the comment becomes a property that TLC refutes (see *Findings*).

Run a check with `tlc -config MCHostEngine.cfg MCHostEngine`; check a proof with
`tlapm HostEngineProofs.tla`.

## 1. The system

The synthesizer is a graph of devices (oscillators, filters, outputs, ...) drawn
on a canvas and executed once per audio period.

| Thread | Runs | Keeps others out by |
|---|---|---|
| engine | `SynthModular::Update` for ever: its channel exchange, the control loop over the device map, the transport's pacing, the walk over the sorted graph | holding the cycle gate `m_CycleLock` from the exchange to the end of the walk |
| GUI | FLTK: canvas, editors, settings, loading, quitting | `FreezeAll`/`ThawAll`, a handshake through the host's `ChannelHandler`; the gate for removing a device |
| driver callbacks and workers | one per audio stream: JACK, PortAudio, PipeWire callbacks, or a thread of `AudioStream` | nothing: `TimedAudioBuffer` and `AudioTimingMailbox` are lock-free |
| MIDI worker | native events in and out | two bounded lock-free queues and atomic flags |
| libjack | process and shutdown callbacks of each JACK client | closing a client waits for its callbacks; `m_Attached` is atomic |
| other processes | the same store of objects | nothing: names that exist are not replaced, and everything is synced before it is named |

```
   GUI thread                     engine thread                    driver threads
   ----------                     -------------                    --------------
   canvas --- wires --> GraphSort --sorted list--> walk over devices
     |                                               |
   editors -- ChannelHandler (one per device) --> device.Execute
     |                                               |
   FreezeAll - ChannelHandler (the host's) ----> m_Frozen    Output devices
     |                                               |
   settings -- UpdateHostInfo -- reset -------> AudioTransportHub -- OutputAudioClient
                                                     |                    |
                                          AudioTimeline --- AudioStream --+
                                                              | TimedAudioBuffer
                                                              | AudioTimingMailbox
```

### The components

Paths are relative to `src/libs/libspiralcore/` unless they begin with `src/`.

| Component | State | Operations | What is hard | What makes it correct |
|---|---|---|---|---|
| **Timing mailbox** (`Audio/src/AudioTiming.cpp`) | three slots, `m_Back`, `m_Front`, atomic `m_Middle` with a fresh bit | `Publish`, `Read` | two threads, no lock, a structure of many words | no torn read, nothing newer is lost, never backwards |
| **Channel handler** (`src/ChannelHandler.cpp`) | a map of channels, two commands, the update indicator, the bulk fields | `UpdateDataNow` (trylock), `SetData`, `SetCommand`, `GetData`, `Wait`, `RequestChannelAndWait`, `BulkTransfer`, `FlushChannels` | the engine may miss the mutex any number of times; the bulk fields are used without it | commands run once, with their arguments, in order; answers are fresh; bulk copies are exact, and nothing is done on a comparison of `m_BulkID` that overlaps its assignment; calls return |
| **Host** (`src/SpiralSynthModular.C`, `src/main.cpp`, `src/SettingsWindow.C`) | device map, canvas boxes, host format, gate, freeze, reset flag | engine cycle, `FreezeAll`, `ThawAll`, `ClearUp`, `StreamPatchIn`, `UpdateHostInfo`, `ResetAudio`, `UpdatePluginGUIs`, add, delete, connect, quit | two ways of exclusion that must work together; shutdown | engine and control never among the devices together; one walk, one kind |
| **Graph sort** (`src/GraphSort.cpp`) | nodes with lists of inputs and outputs, the sorted list | `AddConnection`, `RemoveConnection`, `Clear`, `TestSort` | loops, parallel wires, self-wires | what is heard runs once and after what feeds it |
| **Canvas** (`src/GUI/Widgets/Fl_Canvas.C`, `Fl_DeviceGUI.C`) | wires, counts on port buttons, the wire being drawn; the devices' input pointers | drawing, disconnecting, deleting, `SetupPorts`, paste, New, Open | one wire is recorded in four places | the four records agree |
| **Timed audio buffer** (`Audio/src/TimedAudioBuffer.cpp`) | ring of positions and samples, wrapping counters, search cursor, the writer's last stamp | `Write`, `Read`, `Configure` | lock-free, two clocks, generations, counters that wrap | what is heard is what is due; nothing is overwritten while read |
| **Transport hub** (`Audio/src/AudioTransportHub.cpp`, `OutputAudioClient.cpp`, `Plugin/src/OutputPlugin.cpp`) | members, mode, requested mode, retry time, the shared client | `Attach`, `Detach`, `OpenMode`, `Close`, `Reconfigure`, `Service` | the server goes and comes back; opens fail midway; several devices share it | mode matches client; closed stays closed; the transport returns |
| **Audio stream** (`Audio/src/AudioStream.cpp`) | queues, mailbox, atomics for failure and generation, worker | `Configure`, `Start`, `Stop`, `Callback`/`Transfer`, `Worker`, `Playback`, `Capture`, `Timing` | callback, worker and engine together | a failed stream is silent and is reported |
| **Timeline, presentation clock** (`Audio/src/AudioTimeline.cpp`, `PresentationClock.cpp`) | streams, the master, the next period's time, generation | `Register`, `Prepare`, `Begin`, `Commit`, `Locate`, `Reset` | choice of master, steering | periods follow on, a generation is renewed on every discontinuity |
| **JACK device and client** (`src/Plugins/Devices/JackPlugin/JackPlugin.C`, `Audio/src/JackClient.cpp`) | native handle, `m_Attached`, `m_Active`, ports, rings | `Attach`, `Detach`, `SetNumberPorts`, `Reset`, `ServiceAudio`, `Kill`; `Process`, `OnJackShutdown` | two callbacks at any time, a server that ends at any step, a library that discards handles by itself | callbacks never meet what is rebuilt; what counts as attached runs |
| **Other native audio clients** (`src/Plugins/Audio`) | handles of the server's API | attach, open, close | the servers | |
| **MIDI device and worker** (`Midi/src/NativeMidi.cpp`, `Midi.cpp`) | two queues, selection epoch, ready/overflow/reset flags, active notes | `Select`, `Run`, `Track`, `Panic`, `Poll`, `Send` | port changes with packets on the way, overflow, a link that comes and goes | no note stays on; packets keep their port |
| **Plugin loading, registries** (`Plugin/src/PluginManager.cpp`, ...) | open libraries, registered classes | load, unload | order at exit | no class of a closed library is used |
| **Device base, devices, editors** (`Plugin/src/SpiralPlugin.cpp`, `src/Plugins/Devices`, `src/Plugins/Panels`) | ports, channels, algorithm state | `Execute`, `ExecuteCommands`, `Reset` | resizing while channels point at buffers | per device |
| **The host's files** (`src/SpiralSynthModular.C`, the File menu) | `m_FilePath`, `m_BranchID`, `m_SavePointCount` | New, Load, Save, Save As, Save Points, Import as Branch | the host's record of the open branch, the package's current branch and the lookup by name need not agree | a save changes the open branch and no other |
| **Packages and save points** (`src/libs/libSpumoni/src/Project.cpp`, `Package.cpp`, `Identity.cpp`, `Directory.cpp`) | identity, branches, folders, shared objects | `Open`, `SaveAs`, `CreateSavePoint`, the write of a container | a write that fails or is cut short; folders a manifest does not list | every folder is listed, no package is lost |
| **Object store** (`src/libs/libSpumoni/src/Store.cpp`) | content-addressed files in shared directories | `PutFile`, `PutBytes`, `Verify`, `ReadBytes` | several writers without a lock, failing calls, power loss | what is named is whole; what was answered for stays |
| Settings, widgets, samples, WAV, unused queues | | | | |

`PROJECT.json` has the same list with the state of each, and the hazards: every
place where this code can go wrong in a way a test would hardly reach, with the
properties that watch it.

## 2. The modules

| Module | Models | Uses |
|---|---|---|
| `LatestValue` | abstract: a register of the newest value | |
| `TimingMailbox` | `AudioTimingMailbox` | refines `LatestValue` |
| `ChannelHandler` | the channels between one device and its editor | |
| `ChannelHandlerProofs` | theorems about it | |
| `ExclusiveAccess` | abstract: engine and control never together | |
| `HostEngine` | the engine thread, the GUI thread, freeze, gate, reset, shutdown | refines `ExclusiveAccess` |
| `HostEngineProofs` | theorems about it | |
| `GraphSort` | the graph and its sort | |
| `GraphEdits` | wires that come and go at any time, around the sort alone | `GraphSort` |
| `Canvas` | the wires and everything that edits them | `GraphSort` |
| `CanvasProofs` | theorems about the graph, its sort and the canvas | |
| `TimedAudioBuffer` | the queue between engine and driver | |
| `TransportHub` | the hub, its client, the Output devices, the cycle around them | |
| `AudioProofs` | theorems about `TimingMailbox` and `TransportHub` | |
| `JackTransport` | JACK devices, their clients and streams, the timeline, libjack | |
| `AudioStreamProofs` | theorems about `TimedAudioBuffer` and `JackTransport` | |
| `NativeMidi` | the MIDI worker, the engine, the selection of ports, the transport | |
| `NativeMidiProofs` | theorems about it | |
| `DurableStore` | abstract: what a store of objects promises | |
| `ObjectStore` | `Store.cpp`, system call by system call | refines `DurableStore` |
| `ObjectStoreProofs` | theorems about it | |
| `SavePoints` | the File menu, projects, packages and their writes | |
| `SavePointsProofs` | theorems about it | |
| `MC...` | small instances | |

Names of variables and actions are those of the source wherever there is one
(`m_CycleLock`, `UpdateHostInfo`). Operators introduced by a comment *Mistake:*
are no part of any specification. Each is a way the code could plausibly be
wrong, and stands before the definition it would replace; `PROJECT.json`
("mutants") names the property that notices it.

**TimingMailbox.** A published structure is its serial number; the copy into or
out of a slot is one step per word, in any order, so a torn read is a structure
with two serials. `TestFlag` is the load in `Read`, `ExchangeFront` and
`ExchangeBack` the two atomic exchanges; bit 2 of `m_Middle` is the fresh flag
and the low bits the slot, as in the code. The memory order (release and
acquire) is taken as given: each exchange is one step of one order.

**ChannelHandler.** One device with its engine (`pcA`) and its editor (`pcG`).
The engine's cycle is `BeginUpdate` (the command is cleared before the lock is
tried), `Exchange` or `Miss`, `Execute`. An exchange is `TryLock` with the
indicator and the INPUT and OUTPUT channels, then for each request channel
`CompareID` and, after it, `Answer` or `PassOver`, and `Unlock`: the code compares
`m_BulkID` with every request channel's ID at every exchange, and only then looks
at `requested` (`:98`). The editor's calls are split where they lock: the editor
holds the mutex in the places `Held`, and only there the engine misses. What it
does without the mutex goes on during an exchange: `BulkTransfer`'s three
assignments, of which that of `m_BulkID` has a beginning and an end
(`BeginSetBulkID`, `SetBulkID`). A comparison made between the two gives either
answer (`match`); one that only overlaps at its edge is like one of these.
Any answer, but an answer, is what the build gives as long as IDs are short
enough to be kept in the `std::string` itself, as all of the editors' are; an
assignment that moves the characters while they are compared is undefined beyond
what a model of the values can say. Values are dated by when they were given, outputs by the
device's version, bytes of a bulk by their offset in the source; so "older",
"an answer to this request" and "the right byte" can be said. `StreamPatchIn`
is there as far as one device sees it: freeze, `LoadSettings`,
`FlushChannels`, thaw.

**HostEngine.** `pcE` and `pcG` are places in the two threads' code. A step is
the code between two points where the other thread can matter: a lock or
unlock of the gate, an exchange, one node of a loop over the map, one element
of the walk. `FreezeAll` is a place (`sync`) that is left after two exchanges,
which is what `Wait` does (`ChannelHandler` has the polls); `then` is what the
freeze is for. The GUI's pass over the map uses an iterator without the gate
while the engine erases nodes: from an erased node `NextNode` goes anywhere.
A device's buffers are known by the buffer size they were made for.

**GraphSort.** `m_Graph` is the map of nodes with their lists; `TestSort` is the
loop over the candidates as a fold of `SortOne`, at most one turn per node.
`InOrder` is the order of a C++ `map`. `OrigSort` is left out, nothing selects
it. `GraphEdits` adds and removes one wire at a time between any devices, which
in the program is the canvas's doing: it gives the sort every graph there is. `ErasedTwice` marks the one call
the code does not survive, the removal of a node's last wire to itself.

**Canvas.** Four records of a wire: `m_WireVec`, the counts of the buttons
`m_PortVec`, the devices' pointers `m_Input`, the graph. Each action is a whole
handler, with the callbacks into the host and the sort: the module extends
`GraphSort`, and the graph and the list are its variables. Wires are in a
sequence, since two may be equal; those that go are taken out by `Among`, and
`Released`, `Pointers` and `UnwireGraph` are what the loop around the removal
does to the other three records. `CanvasAssumption` says of the patch files what
a save of a canvas has: numbers of ports that are numbers, and one wire at most
at an input; wires to absent devices and ports are allowed, as in the code.
`broken` becomes TRUE
where the code would use a box or button that is not there; no step follows, so
`CHECK_DEADLOCK FALSE`. `orphaned` remembers that a clearing of the canvas has
cut a wire being drawn, after which the records need not agree (see
*Findings*).

**TimedAudioBuffer.** `Write` is `BeginWrite` (stamp and refusals), `Fill` per
sample, `PublishWrite`; `Read` is `BeginRead`, `ReadFrame` per output sample,
`PublishRead`. The counters are taken modulo `Width` (2^32 in the code) with the
code's own differences. A sample is its frame number, so what the filter
mixes is a set of frames. `playback` chooses which side the engine is on: it
moves the generation between its own calls, the driver loads it once per
transfer. The kernel test, the cursor, the history kept for the filter and the
skipping of older generations are the code's. Times are integers, and a stamp
may be off by `Early` to either side. The reader's time leaps by `Missed` when
callbacks are missed, and goes back by `Back`, several samples, with no new
generation: the stream lets its native time be off by 2 ms or half a period
before it calls that another epoch (`AudioStream.cpp:143`), the latency of a
port is taken anew each cycle (`:185`, `JackClient.cpp:649`), and the time of a
capture lies behind the output's by a latency that may grow
(`AudioTimeline.cpp:82`). The writer's time does the same by `Correct`. `odd`
bounds how often any of this happens. `asked` is a history variable: the
furthest time asked for, and the generation.

**TransportHub.** A call of the hub is an operator from the hub's record to its
new value, because calls nest (`Service` closes, opens, reports). How an attempt
to open ends is chosen among `Outcomes`; while `healthy`, attempts succeed.
`wanted` is a history variable: what the user asked for last. A cycle is
`StartCycle`, then for each device its commands and its service (only the first
member serves), or its reset, then `EndCycle`, all under the gate. `Initialise`
is without it, as in the code.

**JackTransport.** Whoever holds the gate, the engine in its cycle or the GUI
in a removal, runs one procedure at a time; it is called control, `pc` is its
place, `cur` its device, `then` what a close is for. `JackPlugin::Attach` is the
chain close, `Ports`, `Retire` (once per client of the static list `Clients`),
`Open` or `OpenFails`, `SetCallbacks`, `RegisterPorts` (which sets
`m_Attached`), `Configure`, `StartClient`, `Started`; every step may give up,
which closes the client again. `Process` and `Transfer` are the beginning and
the end of a process callback, `OnJackShutdown` and `ShutdownTold` the two
assignments of the shutdown callback. The handle of a client is known by its
device and by what libjack knows of it: `activated`, `heard` (it has a shutdown
callback), `lost` (its server is gone), `discarded` (destroyed by a failed
open). Ports, rings and queues have no contents here: what matters is who may be
in them. libjack is external and is assumed to do what its documentation says:
`jack_client_close` waits for the callbacks of the client, an inactive client
has no process callback, nothing is activated on a server that is gone.

**NativeMidi.** The worker's loop in its steps: the port and epoch are read
(`Top`), looked at (`Check`, or `SkipCheck` in the turns between), the queue is
emptied and the notes are released before a new connection, an overflow is
taken, a batch is written, another read. The engine's `Send` is split at the
test of `ready`, the reading of the epoch and the push, since the worker may
connect to another port in between; `Poll` at the reset and at each pop. A note
stands for anything `Track` remembers. The synthesizers at the ports are sets of
sounding notes; `excused` are releases that the transport refused or threw at,
or that slipped into the queue after it had been emptied for a new connection
(`NativeMidi.cpp:105`): these do hang, see *Noticed*. Of a transport's input the
model has `held`: the selections under which packets now waiting there may have
come, the present one among them, be a port selected or not and the link up or
not. `Read` takes any of them, as `NativeMidi.cpp:138` takes what the transport
has. `ConnectClears` says what the transport's `Connect` does with what has come
before: JACK clears it (`src/Plugins/Midi/JACK/JackMidiBackend.cpp:125`), OSS
closes its device (`src/Plugins/Midi/OSS/OssMidiBackend.cpp:55`), ALSA drops its
input and sorts what is left by its source
(`src/Plugins/Midi/ALSA/AlsaMidiBackend.cpp:160`, `:233`); CoreMIDI keeps it
(`src/Plugins/Midi/CoreMIDI/CoreMidiBackend.cpp:166`). Who sent a packet is not
in the model: CoreMIDI's virtual destination takes packets of any program, with
or without a source selected, and so does a JACK port that a patchbay connects. A backend that
has stopped is replaced by a new one (`Reopen`); its epochs go on counting here.

**ObjectStore.** A `Put` is a staged file with a name of its process and serial
number, its bytes, their sync, each directory of the address with the sync of
its parent, the link that does not replace, the check of an object that was
there, its sync, the removal of the staged name. Any call may fail and ends the
`Put`; a process may end, the machine lose power: then `durable` entries are
kept, and of the rest what their directories allow, and bytes that were synced.
The hash has no collisions: an address is the contents it stands for. Objects
may be damaged from the beginning.

**SavePoints.** The File menu makes a `Project` for the length of one command,
so a command is a function from the package it opens to the one it writes; the
write itself is a `job` of several steps, with a failure or the end of the
process at each. A branch's payload is named by the patch whose text and
sidecar files it holds. `open` is a history variable: the branch the canvas
came from, whatever the host remembers.

## 3. The runs

| Run | Instance | Why that is enough | Shows |
|---|---|---|---|
| `timing_mailbox` | 2 words, 4 publications | two words can be torn; four publications give each slot every owner and the flag every history | the handoff never tears or loses, and implements the register |
| `channels` | one channel of each kind, chunks of 2, sources of 1, 3 and 4, two values or commands, one new version | the sizes are below a chunk, between, and an exact multiple; two commands can replace or overtake each other; an exchange has a plain and a bulk request to compare, in either order, at every step of `BulkTransfer` | see *channel handler* above; also that every call returns |
| `host` | 2 devices, 2 buffer sizes, fairness | one device to keep and one to lose, a wire between, every order of edit, freeze, reset and quit | exclusion, uniform walks, no wire to a dead device; freezes return, the dead are reaped, quitting ends |
| `graph_sort` | 4 nodes, 1 of them a terminal, 4 wires (`MaxEdges`) | loops of one to four nodes, with something before, beside or behind them; parallel wires | what is heard runs, sources first |
| `canvas` | 2 devices of two shapes, 3 wires, copies of 1 or 2 devices (4 in all), two patch files | a wire to oneself, two parallel wires, two ways round; a pair and its copy; an empty patch and one with a wire to an absent device | the four records agree, inputs are lit exactly when wired, the list is sorted for the wires as they are |
| `timed_buffer` | 4 slots, counters modulo 8, a filter of 2, blocks and periods of 2, 10 frames, 2 generations, 2 irregularities, a reader that misses 7 or goes back 5 | the counters wrap and the queue fills; the rates differ; late, early, repeated, dropped and shifted blocks in pairs; going back by more than a period of the reader, into samples that are still queued | what is heard is what is due, or silence where the time has gone back |
| `transport_hub` | 2 Output devices | one serves, one only belongs; either leaves first | mode and client agree, closed stays closed, the transport returns |
| `jack_transport` | 2 JACK devices, no further bound | one attaches while the other is stale, told or called; both share the timeline | callbacks alone, notices kept, stale handles retired, trouble served |
| `native_midi` | 1 note, 2 ports and none, queues of 1, 2 selections, 1 fault, a `Connect` that clears | a queue is full with one packet, a packet of either port meets either connection, one failure at each call; notes do not interact | no note hangs, packets keep their port, a port is opened again. With `ConnectClears = FALSE` the three hold as well (1.1 million states) |
| `object_store` | 2 writers of one process or two, 2 objects with a common directory, 5 files, 1 crash | the same object from both, or two objects whose directories one makes for the other; every interleaving of a put, a second one and a failure | what is seen is whole; the refinement of `DurableStore` |
| `save_points` | an archive and a directory, 2 patches, 2 names, 3 new branches, 1 crash | equal names, unlisted folders, a save, an import and a replacement in every order, over either container | other branches are kept, folders listed, packages never lost |
| `save_replaces_import` | the same, 2 new branches | Save As and Import | a comment the code does not keep to |

The largest are `object_store` (1.8 million states, processes interchangeable),
`save_points` (1.5 million), `timed_buffer` (800,000)
and `native_midi` (620,000). Deadlock is checked in
all runs but those of the mailbox and the buffer, where the end of the bounds
leaves nothing to do, and of `canvas` (see `broken`). In `host` the end of the
program is the action `Ended`. In `canvas` wires are drawn, and devices
pasted, only as long as few IDs are given out (`m_NextID <= MaxDevices`): drawing
to a copy is no different. Those bounds are guards of the model; the proofs hold
for every value of them.

Some properties deserve a word.
`PlaysWhatIsDue` compares every sample of every `Read` with an exhaustive search
of all that was ever published (`log`), so the discarding, the remembered search
position and the wrapping are checked together. The search goes forward only
(`TimedAudioBuffer.cpp:124`), so where the reader's time has gone back within a
generation a sample may be silence that is due and still queued: the property
allows this, and only this, and only for times earlier than one that an earlier
`Read` of the generation asked for. Without that clause TLC refutes it; see
*Noticed*.
`BulkFieldsAtRest` does not say that the unlocked fields are not read: `m_BulkID`
is, at every exchange. It says that the outcome is used only for a request that
is under way, and that every such comparison was made after the assignment: a
`requested` raised without the mutex, between the two tests of `:98`, would use
an older one.
`PacketsKeepTheirPort` says of what is received that the engine gets nothing
read under an earlier selection, and that with a transport whose `Connect` clears
it gets nothing that came under one either. With CoreMIDI the second does not
hold.
`SourcesRunFirst` is claimed only of devices that feed no loop; within a loop
some wire must arrive a period late.
`Reopens` and `OpensAgain` are claimed once the driver or transport is well and
nobody goes on resetting or selecting.
`NoNoteHangs` is about a worker that is through with its queue, on the port that
is selected, and about one that has stopped; in between notes may well sound
that are about to end.
`StaleHandlesRetired` is the comment at `JackClient.cpp:142` read of the handles
that were stale when the loop began. Of all handles it does not hold: see
*Noticed*.
`OthersKept` allows a replacement to change the open branch, and any branch when
the host does not know the id (after Save As) or the name is not unique; the
first of these is the finding below.

## 4. Fairness

* `ChannelHandler`: both threads run (`WF` of `Cycle`, `SF` of `Continue`). The
  editor polls with `usleep(10)` between critical sections of a few
  instructions, unsynchronised with the engine's period: it is assumed that
  not every trylock meets one (`[]<><<TryLock>>_vars`), that the editor gets the
  mutex between two exchanges (`SF` of `Continue`: it waits in
  `pthread_mutex_lock` for a few copies once a cycle), and that not every
  poll comes after an even number of exchanges (`SF` of `SeeChange`): the
  indicator is one bit.
* `HostEngine`: both threads run; each gets the gate in the end (`SF` of
  `TakeGate`, `GateForRemoval`) because the other releases it every cycle or
  pass and sleeps in between; and the exchanges do not all miss. The user is
  not fair: nothing obliges anyone to quit.
* `TransportHub`: the engine's thread loops for ever; the clock advances.
* `NativeMidi`: the worker's thread runs (`WF` of `Worker`). It looks at the
  ports at the latest after 250 turns (`SF` of `Check` against `SkipCheck`), and
  a batch ends after 256 packets written or read (`SF` of `SendDone`,
  `ReadDone`); the counts themselves are left out.
* `JackTransport`: control goes on with the procedure it has begun (`WF` of
  `Procedure`); the host's cycle calls `ServiceAudio` of every device each time
  round, whatever else it does in between (`SF`); callbacks end
  (`WF` of `Callbacks`). The server need never start.
* `TimingMailbox`: the reader reads again (`WF`), for the liveness half of the
  refinement only.
* `Canvas`, `GraphSort`, `TimedAudioBuffer`, `ObjectStore`, `SavePoints` claim
  safety only.

## 5. What is proved

The proofs hold for every number of words and publications (mailbox), of
devices and buffer sizes (host), of channels, chunks and bulk sources (channel
handler), of slots, counters, taps, rates, frames and irregularities (timed
buffer), of Output devices (hub), of ports, notes, selections and queue
capacities (MIDI), of devices, wires, shapes and patch files (canvas), of nodes,
loops and parallel wires (graph), of writers, processes, contents and depths of directories
(store), of packages, patches, names and branches (save points), of devices
(JACK). Each invariant has been run through TLC on an instance like the one
above before it was proved.

The type invariants are theorems too: `TypeCorrect` (channel handler, timed
buffer, hub), `JackTypeCorrect` and `MailboxTypeCorrect`; the others are a
conjunct of their module's invariant.

**AudioProofs**, the mailbox: from `WordsAssumption` (a structure has a word)
and `MaxPublishedAssumption`. The properties are not inductive: that a read is
whole depends on the slots being three different ones *and* on what each holds.
The invariant `Inv` adds to `MailboxTypeOK` and `SlotsDisjoint`:
*writer halfway* (the words stored so far carry the current serial),
*reader halfway* (the words copied so far are the front slot's),
*front is whole* and `NewestIsOffered` (a raised flag stands over the newest
complete structure). `MailboxInvariance` proves it; `Ownership`, `ReadIsWhole`,
`NothingLost` follow; `Monotone` is an action property from the same invariant
(the run has no need of it beside the register's refinement, whose `Take` is
of the newest value, once);
`Refinement` maps the exchange of `Publish` to `Put`, that of `Read` to `Take`,
and everything else to a stutter.

**AudioProofs**, the hub, from no assumption about its devices. That mode and
client agree is not inductive, because `OpenMode` calls the mode CLOSED
without touching the client when there is nothing to open for; `Grounded` says
that then the client is down already. That nothing opens what was closed needs
every book closed at once (`Shut`: requested mode, mode, client, attachment),
since each of the calls that open looks at another one. The calls of the hub
are operators on its record, so each has a lemma that it keeps `Consistent` and
`Shut`, and the actions follow from the calls they make. `ModesAgree` and
`StaysClosed` follow.

**HostEngineProofs**, from `HostAssumption`. The invariant `Separation` is
`GateHeld` (who is where says who has the gate), `FrozenStops` (an engine that
has received the freeze is not among the devices) and `Handshake` (in `sync` the
flag is up, and after one exchange the engine has it; after `sync` both hold
until the thaw). The third is what makes it inductive: the engine tests
`m_Frozen` twice, before the gate and after the exchange, and only the exchange
in between makes the first test's staleness harmless. `Apart` proves it;
`Exclusion` and `Uniform` follow; `Refinement` shows that gate and freeze
together implement `ExclusiveAccess`. `Wires` needs another invariant,
`WiresInv`: wires join living devices, nodes are nodes, and `m_NextID` is
beyond all of them, so that a new device is not taken for a deleted one.

**ChannelHandlerProofs**, from `IDsAssumption` and `SizesAssumption`. `IInv`
says what each place of the editor's thread knows: of its channel (`Channel`),
of the two flags (`Flags`: one of them is up, for the one request that is under
way), of the answer (`Answers`: it is of the version of the request or a later
one, from the exchange that raised `updated` on), of the last command
(`Commands`: it waits, was handed over, or has run) and of the indicator
(`Rounding`: one change since the round began means handed over, another
means run, which is why `Wait` waits for two). `Bulk` has the destination filled
up to `pos` and, once an answer is there, the chunk at `pos` in the channel,
with the last, shorter one apart. An exchange takes several steps, in which the
editor may act where it needs no mutex: `Alone` says that it holds none then and
that the inputs have been taken over, and a comparison of `m_BulkID` is said to be
right only for a channel with `requested` raised, which nobody can raise between
the two. `CommandsMeetArguments`, `BulksAreComplete`,
`BulkFieldsAreAtRest`, `CommandsAreOver`, `AnswersAreFresh` and
`InputsNeverRevert` follow: everything the `channels` run checks but the
liveness.

**AudioStreamProofs**, the queue, from `SizesAssumption` (the filter is shorter than
the queue, the queue shorter than the counters' range, which it divides; stamps
are off by less than a frame), `CallsAssumption` (no transfer is empty) and
`BoundsAssumption`. The code's counters only tell how far two of them are apart,
so the proof counts absolutely: sample *X* is the *X*-th that was published, a
counter is such an *X* modulo `Width` (`Counters`, `ReadCounters`), and a slot
holds the one *X* between the counters that is that slot modulo `Capacity`
(`Contents`). The argument about the search is in `Passed` (what lies before the
cursor is of an older generation, or before a sample whose time has come:
`Come`, it or a later one was asked for, by this `Read` or an earlier one of the
generation), `Released` (what the queue has let go is out of the filter's reach)
and `Caught` (the cursor is as far as the last target lets it); `Ordered` is what
`Write`'s refusals achieve. Nothing is assumed of where the reader's time goes. A
target not earlier than the sample under the cursor is served from there
(`Ahead`): an exhaustive search of the log finds what the code finds. At any
other the code gives silence (`SoundsNot`), and the target is earlier than a time
asked for, which is the excuse: `WhatIsDueIsPlayed`. `NothingIsOverwritten` and
`NothingExpiredStays` follow as well.

**NativeMidiProofs**, from `MidiAssumption`: `PortsKept` and `NotesEnd`. That a
packet's epoch is the worker's says nothing unless the worker is linked to the
port of that epoch. `Inv` has `Selected` (epochs are counted, and each has one
port), `Queued` (no packet is of an epoch to come, and what was received was
read, and under `ConnectClears` also came, while the port of its epoch was
selected: `OfItsPort`) and `Linked` (from the connection to the end of
the session the link is the port of the active epoch, and a transport that
clears has nothing else in its input). The engine is handed only packets of the
current epoch, so none that was read, or came, under another selection. The
theorem holds for either value of `ConnectClears`; with `FALSE` its second half
says the less.

`NoNoteHangs` needs an account of every note, `Sound`. Only the linked port
sounds, and only what the worker tracks (`Silent`). A note that sounds there is
held, or its end is in the queue or in the engine's hands, or an overflow or a
place of the worker says that all that is tracked is about to be released
(`Ending`); a note that is still in the queue to begin has its end behind it on
the same terms (`Starting`). A reconnection empties the queue before it
releases, and between the two nothing may be queued that is not late
(`Turning`); a release during that time is one of the `excused`.

**ObjectStoreProofs**, from `StoreAssumption`. `Inv` has, beside types,
`Objects` (what is linked to an address is its object and synced, or was damaged
from the beginning), `Staging` (a `Put` in progress has a file of its own that
is linked nowhere and, once synced, complete), `Directories` (at level *i* the
directories above *i* are durable, whoever made them) and `Promises` (an
address that was returned is durable to the last directory). `Directories` is
where the argument lies: a writer that finds a directory there does not know
whether its maker has synced it, so it syncs the parent again; without that
step the promise could rest on an entry that a power loss takes. `Whole` is
`SeenIsWhole`; `Refinement` maps a link to `Hold`, the return of an address to
`Promise`, a power loss to `Fail` and all else to a stutter.

**AudioStreamProofs**, the JACK devices, from `JackAssumption`. `JackIInv` has `Handles` (only
activated handles are called, what counts as attached has a handle, who was told
has lost its server), `Places` (until it is started, the handle that control is
attaching is not activated: so no callback is in what it rebuilds), `Running`
(`AttachedIsRunning` at every place, with the device being attached or closed
excepted: an activation succeeds only on a server that is there, so a notice
that `m_Attached = 1` overwrote ends in a failed start), `Awareness` (the loop
over `Clients` has closed every handle it has passed, or it counted as attached)
and `MasterIsThere`. `CallbacksAreAlone`, `NoticesAreKept`, `MasterIsAlive` and
the action property `StaleHandlesAreRetired` follow.

**SavePointsProofs**, from `SavePointAssumption` and `FilesAssumption`: what is
there to begin with was written by the program (no branch twice, none without
its folder), folders that were added since excepted. A package from elsewhere
that lists a branch without a folder is opened, and the next save goes on
listing it. `IInv` says that every package at a path is `Intact` and `Fresh`
(ids of branches were given out, so that a new one is not among them), that
what is being written is `Complete`, and that what was set aside for it is there.
Most of the proof is about the operators: what `Find` and `FindByName` find
(the first one: by the least element of the set of places), what
`EnsureActiveListed`, `AdoptUnlisted`, `Fork` and `ActivateNamed` do to a list of
any length. `BranchesAreListed`, `OthersAreKept` and `PackagesAreThere` are the
three properties of the run. `OthersAreKept` rests on `NameFindsIt`: listing the
active branch under its own name and the unlisted folders without one makes no
other branch answer to that name.

**CanvasProofs**, the graph, from `NodesAssumption` (the IDs of devices are
numbers). `TestSort` folds `SortOne` over as many turns as there are nodes, and
`SortOne` folds `Feed` over the inputs of the node it has picked. The fold of
the library is a recursive function chosen by its equation; `FoldSolution` shows
that the equation has one, so that a fold of *n* steps is the last of a sequence
of *n* + 1 states. Here and for the turns induction is `SetInduction`, about the
set of the numbers at which a statement holds: it has 0, it has *n* + 1 with
*n*, and a number that were missing would have a least one (`LeastNumber`). The
invariant of the turns is `Turned`: every exit is sorted or a candidate, and so
is all that feeds what is sorted; nothing else is; no node is in both or in
either twice; `UnsatisfiedOutputs` is the number of a node's wires to nodes that
are not sorted yet (parallel wires count each); and a sorted node that feeds no
loop stands behind all it feeds. The last is the hard one. Suppose no candidate
is ideal and `Pick` takes a node that feeds no loop. Of this node and all it
feeds, as far as they are not sorted, one feeds none of the others
(`SomeoneIsLast`: the sets they feed are finite, and one is least). All that
this one feeds is sorted, so it has been reached and is a candidate, and its
count is zero: it is ideal after all (`PickIsReady`). So `Pick` never takes such
a node for want of a better one. A turn sorts a node or finds no candidate left,
so the list is complete after the last. `TestSortSorts` says this of any
well-formed graph (the two lists of each wire agree, every node has a wire);
`AddConnection` and `RemoveConnection` keep a graph well-formed, whatever wires
run in parallel or to the node itself, so `ListIsWhatIsHeard` and
`SourcesStandBehind` follow.

**CanvasProofs**, the canvas, from `CanvasAssumption`. `RecordsAgree` is not
inductive: that an input gets no second wire depends on its button being dark,
that the button is right on the wires leading to boxes that are there, and that
a wire drawn to its second end is alone there on the end it already has. The
invariant `CanvasIInv` has, beside types, `Linked` (the graph is well-formed, and
of any two devices it has as many wires as the canvas), `Alone` (no input has
two), and, as long as nothing was cleared under a wire being drawn, `InStep`:
both ends of every wire are ports of boxes, `Shown` (an input's count is the
number of its wires), `Pointed` (its pointer leads where its wire comes from) and
`AtPort` (the wire being drawn has one end or none, at a port that is there; an
input it begins at is dark). Everything is counted: `Number(ws, W)` is how many
wires of the list `ws` are in `W`. Taking wires out divides a list into what goes
and what stays (`Divided`), and the numbers of the two add up (`Parted`), which
gives the counts, the pointers and, wire by wire (`UnwiredKeeps`), the graph;
adding devices joins two canvases that share no box (`JoinAgrees`), which covers
a new device, a paste and a file at once. A count is taken down by one for the
wire being drawn although nothing was added for it: on an input this is harmless
because that input is dark and `Minus` stops at zero (`GivenUnlit`), on an output
it is `CountsIntact`, which does fail. `WiresAreKeptTogether` and `LitWhileWired`
follow. The last theorem joins the two halves: every edit leaves the graph alone,
empties it or sorts it again (`Resorted`), and `Linked` has kept the graph
well-formed, so `ListIsOfTheCanvas`: the engine's list is right for the wires as
they are after any edit, of one wire or of many.

**What is only model-checked.** Every liveness property (`CommandsRun`,
`CallsReturn`, `FreezeAllReturns`, `DeadAreReaped`, `ShutdownEnds`, `Reopens`,
`TroubleIsServed`, `OpensAgain`) and the liveness half of the mailbox's
refinement, `ImplementsFairRegister`: the prover does not do `ENABLED`.
`RECURSIVE` operators are used nowhere. The two folds of the graph (the turns of
the sort, the wires of an edit) are proved about without an induction theorem
that takes an operator: see above.

## 6. Findings

### With a run

* **`KeepTheOthers`**, run `save_replaces_import`
  (`src/SpiralSynthModular.C:2379`). "Same package: overwrite the open branch
  and keep the others" (`:1821`). `SavePatch` clears `m_BranchID`, so that
  `SaveBranch` opens the package's *current* branch (`:2407`);
  `cb_ImportBranch_i` makes the imported branch the current one and leaves
  `m_BranchID` alone. Steps: Save As a package, Import as Branch, Save: the
  branch just imported is overwritten with the patch on the canvas, and the
  branch the canvas came from stays as it was.

### Without one

Each of these is a statement of a comment or a document that the code does not
keep to. It is a definition beside the properties of its module, with the
comment or document it comes from, and TLC refutes it when it is named in the
configuration given: use it as the only INVARIANT (or, of an action, PROPERTY).

| Definition | In | Steps |
|---|---|---|
| `AudioResumed` (`SpiralSynthModular.h:160`) | `MCHostEngine` | a driver adopts another format in the control loop; the engine raises the reset flag, then the transport wants no period yet; Apply freezes the engine and leaves the thaw to `ResetAudio` (`SpiralSynthModular.C:1180`), which does nothing while `m_ResetingAudioThread` is up: silence until some other operation thaws |
| `NoDanglingIncompleteWire` (`Fl_Canvas.C:826`) | `MCCanvas` | press an output, choose New (`Clear`, `:885`, leaves the wire being drawn), press on the canvas: `ClearIncompleteWire` asks the box that `FindDevice` did not find; after Open the end belongs to whichever device has the number now, the reason why `OneWirePerInput` excludes `orphaned` |
| `RequestedIsWanted` (`AudioTransportHub.cpp:189`) | `MCTransportHub` | `Reconfigure` opens `m_Mode` again, not `m_RequestedMode` (`:115`); while the client is down `m_Mode` is CLOSED. Lose the server, then Apply: the requested mode is now CLOSED and `Service` never tries again |
| `IteratorValid` ("finish with the iterator first") | `MCHostEngine` | delete a device; a pass removes its box and kills it; the next pass stands on the node; the engine, holding the gate, erases it; `i++` |
| `BoxesPresent` | `MCHostEngine` | delete a device; a pass removes it, so that the node has no box; New before the engine reaps it: `ClearUp` uses `m_DeviceGUI` of that node |
| `OnlyConnectedRun` ("only ones connected to anything") | `MCHostEngine` | connect two devices; New keeps the sorted list (the clearing is commented out); a new device takes an old number and is executed without a wire |
| `BuffersFit` ("Reset all plugin ports/buffers") | `MCHostEngine` | a device without wires is not in the list when the buffer size changes; connect it: it runs with buffers of the old size |
| `WalkUndisturbed` (`AUDIO-TRANSPORT.md:22`, "protects ... graph execution") | `MCHostEngine` | the engine walks the list; the user connects two devices: `TestSort` clears and refills the list, with no gate |
| `GateGuardsTheHub` (`AudioTransportHub.h:41`) | `MCTransportHub` | the engine is in its cycle; `AddDevice` initialises an Output device, which attaches to the hub without the gate |
| `FeedbackSourceIsInLoop` (`GraphSort.cpp:106`) | `MCGraphSort` | a loop at 0, a terminal 2 that feeds it: with no ideal candidate the first, 2, is taken, which is in no loop |
| `CountsIntact` (`Fl_Canvas.C:867`, "peer counts are still intact") | `MCCanvas` | an output with a wire; press it, press it again: `ClearIncompleteWire` takes one off the count, which nothing had added. The lit output goes dark; inputs are not affected (`InputsLit` holds), since a lit input takes no press |

The models go on after these as the program does when it survives them: the
iterator leads anywhere, the walk follows the list it began with. What the other
properties say is therefore subject to that: a list torn under the walk is a
data race whose outcome the models do not follow further.

## 7. Noticed and not stated

* `GraphSort::RemoveConnection` of a node's last wire to itself erases it twice
  (`GraphSort.cpp:306`). The canvas makes such wires; with the wire being drawn
  when the canvas is cleared it is the one way to `broken`.
* Merging a patch translates its device numbers with `m_Copied.m_DeviceIds`
  (`SpiralSynthModular.C:1871`), which only copying clears (`:1923`): numbers of
  earlier copies or merges that the file does not have stay in it.
* A plain request on a channel whose ID is still `m_BulkID` is never answered
  (`ChannelHandler.cpp:98`); no editor uses one channel both ways. Nor does one
  set two commands in a row that both matter: the second replaces the first
  (`:278`). A bulk source that changes between two chunks is copied as a mixture.
* While `m_ResetingAudioThread` is up devices are not served
  (`SpiralSynthModular.C:319`), so an editor in `Wait` waits for the end of the
  reset.
* The search in `TimedAudioBuffer::Read` does not go back with the reader's time
  (`TimedAudioBuffer.cpp:117`). Within a generation that time may go back: by up
  to 2 ms or half a period when the native clock is corrected
  (`AudioStream.cpp:143`), by any change of a port's latency (`:185`,
  `JackClient.cpp:658`), and for capture when the input's latency grows
  (`AudioTimeline.cpp:82`). Until it is what it had been the output is silent,
  although the samples are still queued. `PlaysWhatIsDue` without its last clause
  is refuted in 11 steps.
* The mode a new Output device shows is read before it joins
  (`OutputPlugin.cpp:44`), so it may be old until the next report.
* Deleting an editor calls `Fl::check` (`SpiralSynthModular.C:439`), from which
  another handler may be entered.
* The worker thread of a stream gives up at its first invalid timing
  (`AudioStream.cpp:283`), the callback at its hundredth (`:123`).
* `AsyncSampleLoader` and `EventQueue` are compiled and used by nothing.

Files and packages:

* An import keeps the open branch's sidecar files with the imported text
  (`SpiralSynthModular.C`, `cb_ImportBranch_i`): the model's payload has both.
* `MemoryFolder::GetStore` opens an empty store, so the shared objects of a
  package that is held in memory are dropped when it is saved.
* `Directory::Writer::Finish` replaces a package in two renames, not atomically
  (`Container.h:8` and `Package.h:126` say atomic); between the two, and after
  a second rename that fails twice, the package is only there under the name it
  was set aside with. `NeverLost` says that it is.
* A branch without a name that is replaced takes the file's name, and
  `FindByName` may then hit another branch of that name.
* `RefreshWorkspace` that fails leaves `m_Workspace` NULL; `SavePatch` does not
  update `m_SavePointCount`.

MIDI:

* A `Send` that passed the test of `ready` before a reconnection may push after
  the queue was emptied: its note begins on the new connection although its end
  was thrown away (`NativeMidi.cpp:105`); `excused` keeps track of it.
* CoreMIDI's `Connect` leaves what the old source has sent in its buffer
  (`src/Plugins/Midi/CoreMIDI/CoreMidiBackend.cpp:166`); the worker reads it after
  the connection and stamps it with the new epoch (`NativeMidi.cpp:140`), so the
  engine gets it as of the new source. Its virtual destination takes packets with
  no source selected, as `coremidi-midi-test.cpp:55` wants.
* Half a packet, and the running status, stay in a transport's `MidiByteStream`
  over a `Connect` of OSS or CoreMIDI: the first bytes of the new source may
  complete a packet of the old one. Packets are whole in the model.
* An exception from `Read` or `Connect` closes the port without `Panic` (`:150`).
* On an overflow RtMidi's worker panics before it empties the queue
  (`RtMidiBackend.cpp:138`), the native one after.
* `MidiDevice` ignores a reset (`Midi.cpp:203`); events of channels nobody reads
  gather in `m_EventVec`.
* The note-off of `MidiPlugin` uses the current pitch, and `TriggeredOut` is
  static, shared by all MIDI devices.

JACK:

* A shutdown notice that arrives between the loop over `Clients` and
  `jack_client_open`, or has not arrived at all, leaves a stale handle, which a
  failed open may destroy and its wrapper will close all the same
  (`JackClient.cpp:142`). TLC refutes the strong reading of the comment.
* `JackPluginGUI::Update` is called at every pass (`SpiralSynthModular.C:430`)
  and makes native calls on `m_Client` and the ports without gate or lock.
* A second ATTACH of an attached device leaves its stream registered, so
  `Register` renews no generation, which AUDIO-TRANSPORT.md says a new stream
  does. A reattachment that fails is not tried again.
* A JACK device without wires keeps `m_EnginePeriod` of the old buffer size,
  while `ProcessAudio` goes by the new one; its `Initialise` resets the
  timeline without the gate.
* `AddPort` of an active client (`JackClient.cpp:298`) is reached by nothing:
  ports are added while there is no handle.

## 8. What is not modelled

* Signal processing: what a device computes is arithmetic within one call.
* Drawing, layout, menus, parsing of files: no control of their own. These are
  most of the repository's lines: the editors, the widgets and the devices have
  no state that outlives a call and is shared with anything but the channel
  handler, whose protocol is modelled.
* Native APIs: what ALSA, JACK, PipeWire do is theirs. Their loss, refusal and
  failure are actions of `TransportHub`, `JackTransport` and `NativeMidi`.
* Memory ordering weaker than one order of atomic steps.
* Of `TimedAudioBuffer`: `Configure`, called with both sides stopped, and the
  coefficients of the filter. Of the hub: buffers and mixing. Of the canvas:
  selection and comments. Of the host: the clipboard's format. Of the timeline:
  the preference among masters and the steering (floating point). Of JACK: the
  connections of ports, the transport's position. Of MIDI: clock, conversion of
  events, the list of ports, bytes of packets, who sent what is received.
  Of packages: parents and kinds of branches,
  metadata, extra files, two processes that write one package, the formats.
  Of the store: `CopyFile`, `ExportObjects`.
* The lifecycle lock of `JackClient`: control is one procedure at a time under
  the gate, and callbacks do not take it.
* Components listed as `not_modelled` in `PROJECT.json`, with the reason there.

## 9. Plan

Done, in this order: `LatestValue`, `TimingMailbox` and proofs;
`ChannelHandler`; `ExclusiveAccess`, `HostEngine` and proofs; `GraphSort`;
`Canvas`; `TimedAudioBuffer`; `TransportHub`; `SavePoints`; `NativeMidi` and
proofs; `DurableStore`, `ObjectStore` and proofs; `JackTransport` and proofs;
proofs about `ChannelHandler`, `TransportHub`, `TimedAudioBuffer`, the notes of
`NativeMidi`, `SavePoints`.

Then `GraphEdits`, and proofs about the sort, the canvas and the two together.

With that, every safety property of the runs is a theorem. Next theorems: that
the list the engine walks in `HostEngine` is the one of `Canvas`, for which the
two need a common clock of edits.

Next models: the hazards that have no property yet (`PROJECT.json` lists them
with the reason): Scope and Meter under a reset, with the data channels of their
handlers; `PluginManager` and the registries at exit; devices that are not
installed.
