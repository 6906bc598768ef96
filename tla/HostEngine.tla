------------------------------ MODULE HostEngine ------------------------------
(***************************************************************************)
(* The host (SpiralSynthModular.C, main.cpp): the engine thread, which     *)
(* calls SynthModular::Update for ever, and the GUI thread, which edits    *)
(* the devices the engine runs.  Two mechanisms keep them apart.  The      *)
(* cycle gate m_CycleLock is a mutex that the engine holds from the        *)
(* control work to the end of the walk over the graph.  FreezeAll asks the *)
(* engine, through the host's channel handler, to leave the devices alone, *)
(* and waits for the answer.                                               *)
(*                                                                         *)
(* Of the channel handler only the exchange is kept: FreezeAll's Wait      *)
(* returns after two exchanges (module ChannelHandler has its protocol).   *)
(* Of the graph, which devices have wires and which are in the sorted list *)
(* (module GraphSort has the order).  A device's buffers are known by the  *)
(* BUFSIZE they were made for.                                             *)
(***************************************************************************)
EXTENDS Naturals

CONSTANTS MaxDevices,  \* bound: IDs given out between two calls of ClearUp
          BufferSizes, \* the values BUFSIZE takes
          FirstSize    \* BUFSIZE when the program starts

ASSUME HostAssumption == MaxDevices \in Nat /\ FirstSize \in BufferSizes

VARIABLES
    m_DeviceWinMap,  \* ID -> the device, its box on the canvas, its buffers
    m_NextID,
    wires,           \* the wires of the canvas, <<source, destination>>
    m_Sorted,        \* the devices in the sorted list of the graph
    setting, info,   \* SpiralInfo::BUFSIZE and m_Info.BUFSIZE
    m_HostNeedsUpdate,
    m_ResetingAudioThread,
    paused,          \* m_Info.PAUSED
    m_CycleLock,     \* who holds the gate
    frozen_buf,      \* "Frozen" as control last set it in the handler
    m_Frozen,        \* "Frozen" as the engine last received it
    exchanges,       \* exchanges since FreezeAll set "Frozen"; two is enough
    stop,            \* audioStopRequested
    pcE, cursor, due,\* the engine; its place in the map; the list still to walk
    pcG, then, it,   \* the GUI; what FreezeAll is for; its place in the map
    updating         \* UpdateHostInfo was called by the pass of the GUI

graph == <<wires, m_Sorted>>
devices == <<m_DeviceWinMap, m_NextID, graph>>
format == <<setting, info, m_HostNeedsUpdate, m_ResetingAudioThread>>
freeze == <<frozen_buf, m_Frozen, exchanges>>
engine == <<pcE, cursor, due>>
gui == <<pcG, then, it, updating>>
vars == <<devices, format, paused, m_CycleLock, freeze, stop, engine, gui>>

IDs == 0..MaxDevices-1
End == MaxDevices
Win == [dev : {"none", "live", "dead"}, box : {"open", "killed", "gone"},
        size : BufferSizes]

Live(i) == i \in DOMAIN m_DeviceWinMap /\ m_DeviceWinMap[i].dev = "live"
Ends(ws) == {w[1] : w \in ws} \cup {w[2] : w \in ws}
\* The first node of the map at or after n.
NodeFrom(n) == LET after == {i \in DOMAIN m_DeviceWinMap : i >= n}
               IN  IF after = {} THEN End ELSE CHOOSE i \in after :
                                                  \A j \in after : i <= j
Without(i) == [j \in DOMAIN m_DeviceWinMap \ {i} |-> m_DeviceWinMap[j]]

Init == /\ m_DeviceWinMap = << >>
        /\ m_NextID = 0
        /\ wires = {} /\ m_Sorted = {}
        /\ setting = FirstSize /\ info = FirstSize
        /\ m_HostNeedsUpdate = FALSE
        /\ m_ResetingAudioThread = FALSE
        /\ paused = FALSE
        /\ m_CycleLock = "free"
        /\ frozen_buf = FALSE /\ m_Frozen = FALSE /\ exchanges = 2
        /\ stop = FALSE
        /\ pcE = "loop" /\ cursor = 0 /\ due = {}
        /\ pcG = "idle" /\ then = "idle" /\ it = End /\ updating = FALSE

-----------------------------------------------------------------------------
(* The engine thread: audioloop, Update and RenderAudio. *)

\* Mistake: a frozen engine does not look at the stop flag.
LoopTestFrozen == /\ pcE = "loop"
                  /\ pcE' = IF m_Frozen THEN "frozen" ELSE
                            IF stop THEN "ended" ELSE "work"
                  /\ UNCHANGED <<devices, format, paused, m_CycleLock, freeze,
                                 stop, cursor, due, gui>>

LoopTest == /\ pcE = "loop"
            /\ pcE' = IF stop THEN "ended" ELSE
                      IF m_Frozen THEN "frozen" ELSE "work"
            /\ UNCHANGED <<devices, format, paused, m_CycleLock, freeze, stop,
                           cursor, due, gui>>

\* m_CH.UpdateDataNow: the trylock only fails while control uses the handler.
Received == /\ m_Frozen' = frozen_buf
            /\ exchanges' = IF exchanges < 2 THEN exchanges + 1 ELSE 2
            /\ UNCHANGED frozen_buf
Missed == pcG = "sync" /\ UNCHANGED freeze

\* Frozen: "only watch for the thaw".
Watch(Exchange) == /\ pcE = "frozen"
                   /\ m_CycleLock = "free"
                   /\ Exchange
                   /\ pcE' = "loop"
                   /\ UNCHANGED <<devices, format, paused, m_CycleLock, stop,
                                  cursor, due, gui>>

TakeGate == /\ pcE = "work"
            /\ m_CycleLock = "free"
            /\ m_CycleLock' = "engine"
            /\ pcE' = "exchange"
            /\ UNCHANGED <<devices, format, paused, freeze, stop, cursor, due, gui>>

\* The cycle's exchange, and the second test of m_Frozen.
ExchangeAndTest(Exchange) ==
    /\ pcE = "exchange"
    /\ Exchange
    /\ IF m_Frozen'
       THEN pcE' = "loop" /\ m_CycleLock' = "free"
       ELSE pcE' = "devices" /\ UNCHANGED m_CycleLock
    /\ cursor' = 0
    /\ UNCHANGED <<devices, format, paused, stop, due, gui>>

\* Mistake: the dead device is passed over.
ReapLater == /\ pcE = "devices"
             /\ NodeFrom(cursor) # End
             /\ m_DeviceWinMap[NodeFrom(cursor)].dev = "dead"
             /\ cursor' = NodeFrom(cursor) + 1
             /\ UNCHANGED <<devices, format, paused, m_CycleLock, freeze, stop,
                            pcE, due, gui>>

\* The loop over the map: a device marked dead is deleted with its node.
Reap == /\ pcE = "devices"
        /\ NodeFrom(cursor) # End
        /\ m_DeviceWinMap[NodeFrom(cursor)].dev = "dead"
        /\ m_DeviceWinMap' = Without(NodeFrom(cursor))
        /\ cursor' = NodeFrom(cursor) + 1
        /\ UNCHANGED <<m_NextID, graph, format, paused, m_CycleLock, freeze,
                       stop, pcE, due, gui>>

\* Any other device is served; an audio driver may then adopt the format its
\* stream was opened with (cb_ChangeBufferAndSampleRate).
Serve == /\ pcE = "devices"
         /\ NodeFrom(cursor) # End
         /\ m_DeviceWinMap[NodeFrom(cursor)].dev # "dead"
         /\ cursor' = NodeFrom(cursor) + 1
         /\ \/ UNCHANGED <<setting, m_HostNeedsUpdate>>
            \/ /\ Live(NodeFrom(cursor)) /\ ~m_ResetingAudioThread
               /\ setting' \in BufferSizes \ {setting}
               /\ m_HostNeedsUpdate' = TRUE
         /\ UNCHANGED <<devices, info, m_ResetingAudioThread, paused,
                        m_CycleLock, freeze, stop, pcE, due, gui>>

ServedAll == /\ pcE = "devices"
             /\ NodeFrom(cursor) = End
             /\ pcE' = "prepare"
             /\ IF m_HostNeedsUpdate
                THEN /\ info' = setting
                     /\ m_ResetingAudioThread' = TRUE
                     /\ m_HostNeedsUpdate' = FALSE
                     /\ UNCHANGED setting
                ELSE UNCHANGED format
             /\ cursor' = 0
             /\ UNCHANGED <<devices, paused, m_CycleLock, freeze, stop, due, gui>>

\* The transport wants no period yet: sleep, outside the gate.
NoPeriod == /\ pcE = "prepare"
            /\ pcE' = "loop"
            /\ m_CycleLock' = "free"
            /\ UNCHANGED <<devices, format, paused, freeze, stop, cursor, due, gui>>

BeginWalk == /\ pcE = "prepare"
             /\ pcE' = "walk"
             /\ due' = m_Sorted
             /\ UNCHANGED <<devices, format, paused, m_CycleLock, freeze, stop,
                            cursor, gui>>

Runs(i) == pcE = "walk" /\ i \in due /\ Live(i) /\ (~paused \/ m_ResetingAudioThread)
Resets(i) == Runs(i) /\ m_ResetingAudioThread
Executes(i) == Runs(i) /\ ~m_ResetingAudioThread

\* One element of the list: Reset, or Execute and StampOutputs, or neither.
WalkDevice(i) == /\ pcE = "walk"
                 /\ i \in due
                 /\ due' = due \ {i}
                 /\ m_DeviceWinMap' = IF Resets(i)
                                      THEN [m_DeviceWinMap EXCEPT ![i].size = info]
                                      ELSE m_DeviceWinMap
                 /\ UNCHANGED <<m_NextID, graph, format, paused, m_CycleLock,
                                freeze, stop, pcE, cursor, gui>>

EndWalk == /\ pcE = "walk"
           /\ due = {}
           /\ m_ResetingAudioThread' = FALSE
           /\ pcE' = "loop"
           /\ m_CycleLock' = "free"
           /\ UNCHANGED <<devices, setting, info, m_HostNeedsUpdate, paused,
                          freeze, stop, cursor, due, gui>>

ReceivedInCycle == ExchangeAndTest(Received)
ReceivedFrozen == Watch(Received)

Engine == \/ LoopTest \/ TakeGate
          \/ ReceivedFrozen \/ Watch(Missed)
          \/ ReceivedInCycle \/ ExchangeAndTest(Missed)
          \/ Reap \/ Serve \/ ServedAll
          \/ NoPeriod \/ BeginWalk \/ (\E i \in IDs : WalkDevice(i)) \/ EndWalk

-----------------------------------------------------------------------------
(* The GUI thread. *)

\* Where a call of ResetAudio or UpdateHostInfo returns to.
Caller == IF updating THEN "updated" ELSE "idle"

\* FreezeAll: set "Frozen", then Wait; place is what the freeze is for.
FreezeAll(place) == /\ frozen_buf' = TRUE
                    /\ exchanges' = 0
                    /\ pcG' = "sync"
                    /\ then' = place
                    /\ UNCHANGED m_Frozen

\* Mistake: FreezeAll does not wait.
FreezeReturnsAtOnce == /\ pcG = "sync"
                       /\ pcG' = then
                       /\ then' = "idle"
                       /\ UNCHANGED <<devices, format, paused, m_CycleLock,
                                      freeze, stop, engine, it, updating>>

FreezeReturns == /\ pcG = "sync"
                 /\ exchanges = 2
                 /\ pcG' = then
                 /\ then' = "idle"
                 /\ UNCHANGED <<devices, format, paused, m_CycleLock, freeze,
                                stop, engine, it, updating>>

ThawAll == /\ pcG = "thaw"
           /\ frozen_buf' = FALSE
           /\ pcG' = Caller
           /\ UNCHANGED <<devices, format, paused, m_CycleLock, m_Frozen,
                          exchanges, stop, engine, then, it, updating>>

Call(place) == /\ pcG = "idle"
               /\ FreezeAll(place)
               /\ UNCHANGED <<devices, paused, m_CycleLock, stop, engine, it,
                              updating>>

CallClearUp == Call("clear") /\ UNCHANGED format
CallStreamPatchIn == Call("load") /\ UNCHANGED format

\* Every device is killed and deleted, the canvas cleared, IDs start again.
\* GraphSort::Clear keeps the sorted list.
Emptied == /\ m_DeviceWinMap' = << >>
           /\ m_NextID' = 0
           /\ wires' = {}
           /\ UNCHANGED m_Sorted

ClearUp == /\ pcG = "clear"
           /\ Emptied
           /\ pcG' = "thaw"
           /\ UNCHANGED <<format, paused, m_CycleLock, freeze, stop, engine,
                          then, it, updating>>

\* A comment's node has no device and no buffers.
NewWin(kind) == [dev |-> kind, box |-> "open",
                 size |-> IF kind = "none" THEN FirstSize ELSE info]

\* A patch: some devices after those there are, and wires among them.
StreamPatchIn ==
    /\ pcG = "load"
    /\ \E n \in m_NextID..MaxDevices :
         LET new == m_NextID..n-1
         IN  /\ m_NextID' = n
             /\ m_DeviceWinMap' = [i \in DOMAIN m_DeviceWinMap \cup new |->
                   IF i \in new THEN NewWin("live") ELSE m_DeviceWinMap[i]]
             /\ \E ws \in SUBSET {w \in new \X new : w[1] < w[2]} :
                  /\ wires' = wires \cup ws
                  /\ m_Sorted' = IF ws = {} THEN m_Sorted ELSE Ends(wires')
    /\ pcG' = "thaw"
    /\ UNCHANGED <<format, paused, m_CycleLock, freeze, stop, engine, then, it,
                   updating>>

\* The settings window's Apply.
Apply == /\ setting' \in BufferSizes
         /\ Call("adopt")
         /\ UNCHANGED <<info, m_HostNeedsUpdate, m_ResetingAudioThread>>

\* UpdateHostInfo after its FreezeAll, up to ResetAudio and into it: ResetAudio
\* does nothing, and does not thaw, when a reset is under way already.
Adopt == /\ pcG = "adopt"
         /\ info' = setting
         /\ IF m_ResetingAudioThread
            THEN pcG' = Caller /\ UNCHANGED <<freeze, then>>
            ELSE FreezeAll("reset")
         /\ UNCHANGED <<devices, setting, m_HostNeedsUpdate,
                        m_ResetingAudioThread, paused, m_CycleLock, stop,
                        engine, it, updating>>

\* Mistake: ResetAudio raises the flag without freezing the engine.
CallResetAudioUnfrozen ==
    /\ pcG = "idle"
    /\ m_ResetingAudioThread' = TRUE
    /\ UNCHANGED <<devices, setting, info, m_HostNeedsUpdate, paused,
                   m_CycleLock, freeze, stop, engine, gui>>

CallResetAudio == /\ ~m_ResetingAudioThread
                  /\ Call("reset")
                  /\ UNCHANGED format

ResetAudio == /\ pcG = "reset"
              /\ m_ResetingAudioThread' = TRUE
              /\ pcG' = "thaw"
              /\ UNCHANGED <<devices, setting, info, m_HostNeedsUpdate, paused,
                             m_CycleLock, freeze, stop, engine, then, it,
                             updating>>

-----------------------------------------------------------------------------
(* UpdatePluginGUIs: one pass over the map, node by node. *)

BeginPass == /\ pcG = "idle"
             /\ pcG' = "visit"
             /\ it' = NodeFrom(0)
             /\ UNCHANGED <<devices, format, paused, m_CycleLock, freeze, stop,
                            engine, then, updating>>

ToRemove(i) == i \in DOMAIN m_DeviceWinMap /\ m_DeviceWinMap[i].box = "killed"

\* i++.  From a node that the engine has deleted meanwhile it leads anywhere.
NextNode == /\ pcG = "visit" /\ it # End
            /\ ~ToRemove(it)
            /\ it' \in IF it \in DOMAIN m_DeviceWinMap
                       THEN {NodeFrom(it + 1)}
                       ELSE {i \in DOMAIN m_DeviceWinMap : i > it} \cup {End}
            /\ UNCHANGED <<devices, format, paused, m_CycleLock, freeze, stop,
                           engine, pcG, then, updating>>

\* Mistake: the GUI does not wait for the gate.
GateIgnored == /\ pcG = "visit" /\ it # End
               /\ ToRemove(it)
               /\ pcG' = "remove"
               /\ UNCHANGED <<devices, format, paused, m_CycleLock, freeze,
                              stop, engine, then, it, updating>>

GateForRemoval == /\ pcG = "visit" /\ it # End
                  /\ ToRemove(it)
                  /\ m_CycleLock = "free"
                  /\ m_CycleLock' = "gui"
                  /\ pcG' = "remove"
                  /\ UNCHANGED <<devices, format, paused, freeze, stop, engine,
                                 then, it, updating>>

\* A device's node is left for the engine to delete, a comment's is not.
KeptFor(i) == m_DeviceWinMap[i].dev # "none"

WiresWithout(i) == {w \in wires : i \notin {w[1], w[2]}}

\* Mistake: the box leaves the canvas and its wires stay.
RemoveWiresKept == UNCHANGED graph

\* Fl_Canvas::RemoveDevice: every wire of the device, and a sort after each.
RemoveWires == /\ wires' = WiresWithout(it)
               /\ m_Sorted' = IF wires' = wires THEN m_Sorted ELSE Ends(wires')

\* Under the gate: Kill, and off the canvas.  A comment's node goes at once, a
\* device's when the engine has deleted the device.
Remove == /\ pcG = "remove"
          /\ m_DeviceWinMap' =
                IF KeptFor(it)
                THEN [m_DeviceWinMap EXCEPT ![it].dev = "dead", ![it].box = "gone",
                                              ![it].size = FirstSize]
                ELSE Without(it)
          /\ RemoveWires
          /\ it' = NodeFrom(it + 1)
          /\ m_CycleLock' = "free"
          /\ pcG' = "visit"
          /\ UNCHANGED <<m_NextID, format, paused, freeze, stop, engine, then,
                         updating>>

\* After the pass: has the engine's format changed?
EndPass == /\ pcG = "visit" /\ it = End
           /\ IF m_HostNeedsUpdate
              THEN FreezeAll("adopt") /\ updating' = TRUE
              ELSE pcG' = "idle" /\ UNCHANGED <<freeze, then, updating>>
           /\ UNCHANGED <<devices, format, paused, m_CycleLock, stop, engine, it>>

HostUpdated == /\ pcG = "updated"
               /\ m_HostNeedsUpdate' = FALSE
               /\ updating' = FALSE
               /\ pcG' = "idle"
               /\ UNCHANGED <<devices, setting, info, m_ResetingAudioThread,
                              paused, m_CycleLock, freeze, stop, engine, then, it>>

-----------------------------------------------------------------------------
(* Edits that neither freeze the engine nor take the gate. *)

\* Mistake: ++m_NextID for m_NextID++.
AddLater(kind) ==
    /\ pcG = "idle" /\ m_NextID < MaxDevices
    /\ m_NextID' = m_NextID + 1
    /\ m_DeviceWinMap' = [i \in DOMAIN m_DeviceWinMap \cup {m_NextID'} |->
          IF i = m_NextID' THEN NewWin(kind) ELSE m_DeviceWinMap[i]]
    /\ UNCHANGED <<graph, format, paused, m_CycleLock, freeze, stop, engine, gui>>

Add(kind) == /\ pcG = "idle" /\ m_NextID < MaxDevices
             /\ m_NextID' = m_NextID + 1
             /\ m_DeviceWinMap' = [i \in DOMAIN m_DeviceWinMap \cup {m_NextID} |->
                   IF i = m_NextID THEN NewWin(kind) ELSE m_DeviceWinMap[i]]
             /\ UNCHANGED <<graph, format, paused, m_CycleLock, freeze, stop,
                            engine, gui>>
AddDevice == Add("live")
AddComment == Add("none")

Wirable(i) == Live(i) /\ m_DeviceWinMap[i].box = "open"

\* Wires go from an earlier to a later device: feedback is GraphSort's.
Connect(a, b) == /\ pcG = "idle"
                 /\ a < b /\ Wirable(a) /\ Wirable(b)
                 /\ <<a, b>> \notin wires
                 /\ wires' = wires \cup {<<a, b>>}
                 /\ m_Sorted' = Ends(wires')
                 /\ UNCHANGED <<m_DeviceWinMap, m_NextID, format, paused,
                                m_CycleLock, freeze, stop, engine, gui>>

Unconnect(w) == /\ pcG = "idle"
                /\ w \in wires
                /\ wires' = wires \ {w}
                /\ m_Sorted' = Ends(wires')
                /\ UNCHANGED <<m_DeviceWinMap, m_NextID, format, paused,
                               m_CycleLock, freeze, stop, engine, gui>>

\* The box's delete command only marks it for the next pass.
Delete(i) == /\ pcG = "idle"
             /\ i \in DOMAIN m_DeviceWinMap
             /\ m_DeviceWinMap[i].box = "open"
             /\ m_DeviceWinMap' = [m_DeviceWinMap EXCEPT ![i].box = "killed"]
             /\ UNCHANGED <<m_NextID, graph, format, paused, m_CycleLock,
                            freeze, stop, engine, gui>>

\* PauseAudio or ResumeAudio: one assignment under the gate.
PlayPause == /\ pcG = "idle"
             /\ m_CycleLock = "free"
             /\ paused' = ~paused
             /\ UNCHANGED <<devices, format, m_CycleLock, freeze, stop, engine, gui>>

-----------------------------------------------------------------------------
(* main's end: freeze, stop the engine thread, join it, destroy everything. *)

\* Mistake: the engine thread is told to stop before the freeze.
CallQuitStopping == /\ pcG = "idle"
                    /\ stop' = TRUE
                    /\ FreezeAll("stop")
                    /\ UNCHANGED <<devices, format, paused, m_CycleLock, engine,
                                   it, updating>>

CallQuit == Call("stop") /\ UNCHANGED format

Stop == /\ pcG = "stop"
        /\ stop' = TRUE
        /\ pcG' = "join"
        /\ UNCHANGED <<devices, format, paused, m_CycleLock, freeze, engine,
                       then, it, updating>>

Join == /\ pcG = "join"
        /\ pcE = "ended"
        /\ pcG' = "destroy"
        /\ UNCHANGED <<devices, format, paused, m_CycleLock, freeze, stop,
                       engine, then, it, updating>>

Destroy == /\ pcG = "destroy"
           /\ Emptied
           /\ m_Frozen' = TRUE
           /\ pcG' = "ended"
           /\ UNCHANGED <<format, paused, m_CycleLock, frozen_buf, exchanges,
                          stop, engine, then, it, updating>>

Ended == pcG = "ended" /\ UNCHANGED vars

-----------------------------------------------------------------------------
\* What the user may do when the GUI is idle.
User == \/ CallClearUp \/ CallStreamPatchIn \/ Apply \/ CallResetAudio \/ CallQuit
        \/ AddDevice \/ AddComment
        \/ \E a, b \in IDs : Connect(a, b)
        \/ \E w \in wires : Unconnect(w)
        \/ \E i \in IDs : Delete(i)
        \/ PlayPause

\* What the GUI thread does by itself.
GUI == \/ FreezeReturns \/ ThawAll
       \/ ClearUp \/ StreamPatchIn \/ Adopt \/ ResetAudio
       \/ BeginPass \/ NextNode \/ GateForRemoval \/ Remove \/ EndPass
       \/ HostUpdated
       \/ Stop \/ Join \/ Destroy

Next == Engine \/ User \/ GUI \/ Ended

Spec == Init /\ [][Next]_vars

\* Both threads run.  Neither is kept from the gate, which the other releases
\* every cycle or pass, and a polling FreezeAll does not make every exchange miss.
FairSpec == /\ Spec
            /\ WF_vars(Engine) /\ WF_vars(GUI)
            /\ SF_vars(TakeGate) /\ SF_vars(GateForRemoval)
            /\ SF_vars(ReceivedInCycle) /\ SF_vars(ReceivedFrozen)

-----------------------------------------------------------------------------
EnginePlaces == {"loop", "frozen", "work", "exchange", "devices", "prepare",
                 "walk", "ended"}
GUIPlaces == {"idle", "sync", "thaw", "clear", "load", "adopt", "reset",
              "updated", "visit", "remove", "stop", "join", "destroy", "ended"}

TypeOK == /\ DOMAIN m_DeviceWinMap \subseteq IDs
          /\ \A i \in DOMAIN m_DeviceWinMap : m_DeviceWinMap[i] \in Win
          /\ m_NextID \in 0..MaxDevices
          /\ wires \subseteq IDs \X IDs /\ m_Sorted \subseteq IDs
          /\ {setting, info} \subseteq BufferSizes
          /\ {m_HostNeedsUpdate, m_ResetingAudioThread, paused, frozen_buf,
              m_Frozen, stop, updating} \subseteq BOOLEAN
          /\ m_CycleLock \in {"free", "engine", "gui"}
          /\ exchanges \in 0..2
          /\ pcE \in EnginePlaces /\ cursor \in 0..MaxDevices /\ due \subseteq IDs
          /\ pcG \in GUIPlaces /\ then \in GUIPlaces /\ it \in 0..MaxDevices

\* The engine is in its control loop or in the walk.
Walking == pcE \in {"devices", "prepare", "walk"}

\* Control works on the devices: it has frozen the engine, or holds the gate.
Owning == pcG \in {"clear", "load", "adopt", "reset", "stop", "destroy", "remove"}

\* From the return of FreezeAll to ThawAll, and under the gate, the engine is
\* nowhere among the devices: "Control owns the devices while frozen".
FreezeExcludes == Owning => ~Walking

Access == INSTANCE ExclusiveAccess WITH running <- Walking, editing <- Owning

\* The gate and the freeze together implement exclusive access.
ImplementsExclusiveAccess == Access!Spec

\* During a walk the buffer size stays the same and the reset flag does not
\* change before the end: a walk resets the whole list or runs the whole list
\* ("we can safely turn this off here").
WalkIsUniform ==
    [][pcE = "walk" =>
         /\ info' = info
         /\ m_ResetingAudioThread' = m_ResetingAudioThread \/ due = {}]_vars

\* No wire, and so no input pointer, leads to or from a deleted device.
WiresLive == \A w \in wires : Live(w[1]) /\ Live(w[2])

\* FreezeAll returns, at the end of the program too: main freezes "while the
\* engine can still service channels".
FreezeAllReturns == []<>(pcG # "sync")

\* Killed devices are deleted: again and again there is none left, unless the
\* engine stays frozen.
DeadAreReaped ==
    []<>(frozen_buf \/ \A i \in DOMAIN m_DeviceWinMap : m_DeviceWinMap[i].dev # "dead")

\* Once the user has quit, the shutdown comes to its end.
ShutdownEnds == []<>(pcG \notin {"stop", "join", "destroy"})

-----------------------------------------------------------------------------
(* Why the two are kept apart: the inductive invariant of the proofs. *)

\* The gate's owner is where only its owner can be.
GateHeld == /\ m_CycleLock = "engine" <=> pcE \in {"exchange", "devices", "prepare", "walk"}
            /\ m_CycleLock = "gui" <=> pcG = "remove"

\* Having received the freeze, the engine is out of the devices, and stays out.
FrozenStops == m_Frozen => ~Walking

\* Places that only a freeze leads to.
Purposes == {"clear", "load", "adopt", "reset", "stop"}

\* FreezeAll's handshake: any exchange since brought the flag to the engine.
Handshake == /\ pcG = "sync" => /\ frozen_buf
                                /\ then \in Purposes
                                /\ exchanges # 0 => m_Frozen
             /\ pcG \in Purposes \cup {"join", "destroy"} => frozen_buf /\ m_Frozen

Separation == GateHeld /\ FrozenStops /\ Handshake

-----------------------------------------------------------------------------
(* What comments of the source say and the program does not keep to: TLC     *)
(* refutes each; the README gives the steps.                                 *)

\* "Pause Audio ... Reset all plugin ports/buffers befure Resuming"
\* (UpdateHostInfo): when a call of the GUI is over, the audio is resumed.
AudioResumed == pcG = "idle" => ~frozen_buf

\* "Update() will erase this map node as soon as the gate drops, so finish with
\* the iterator first" (UpdatePluginGUIs): the pass never stands on a node that
\* the engine has erased.
IteratorValid == pcG = "visit" /\ it # End => it \in DOMAIN m_DeviceWinMap

\* The same comment: a node whose box is gone is erased at the engine's next
\* turn, so ClearUp, which uses every node's box, never finds one.
BoxesPresent ==
    pcG = "clear" => \A i \in DOMAIN m_DeviceWinMap : m_DeviceWinMap[i].box # "gone"

\* "The host cycle gate protects stream registration, graph execution, ..."
\* (AUDIO-TRANSPORT.md): the list the engine walks stays as it is.
WalkUndisturbed == [][pcE = "walk" => m_Sorted' = m_Sorted]_vars

\* "run the plugins (only ones connected to anything)" (RenderAudio).
OnlyConnectedRun == \A i \in m_Sorted : Live(i) => i \in Ends(wires)

\* "Reset all plugin ports/buffers befure Resuming" (UpdateHostInfo): no device
\* runs with buffers of another size than the host's.
BuffersFit == \A i \in IDs : Executes(i) => m_DeviceWinMap[i].size = info
=============================================================================
