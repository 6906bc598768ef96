-------------------------- MODULE HostEngineProofs --------------------------
(***************************************************************************)
(* Proofs about HostEngine, for any number of devices and buffer sizes:    *)
(* the gate and the freeze keep control and the engine's walk apart.       *)
(***************************************************************************)
EXTENDS HostEngine, TLAPS

\* At the start nobody holds anything.
LEMMA InitSeparation == Init => Separation
BY DEF Init, Separation, GateHeld, FrozenStops, Handshake, Purposes, Walking

\* The engine's steps keep the two threads apart.
LEMMA EngineSeparation == Separation /\ Engine => Separation'
<1> SUFFICES ASSUME Separation, Engine PROVE Separation'
  OBVIOUS
<1> USE DEF Separation, GateHeld, FrozenStops, Handshake, Purposes, Walking,
            devices, graph, format, freeze, engine, gui
<1>1. CASE LoopTest
  BY <1>1 DEF LoopTest
<1>2. CASE TakeGate
  BY <1>2 DEF TakeGate
<1>3. CASE ReceivedFrozen \/ Watch(Missed)
  BY <1>3 DEF ReceivedFrozen, Watch, Received, Missed
<1>4. CASE ReceivedInCycle \/ ExchangeAndTest(Missed)
  BY <1>4 DEF ReceivedInCycle, ExchangeAndTest, Received, Missed
<1>5. CASE Reap \/ Serve
  BY <1>5 DEF Reap, Serve
<1>6. CASE ServedAll
  BY <1>6 DEF ServedAll
<1>7. CASE NoPeriod \/ BeginWalk \/ EndWalk
  BY <1>7 DEF NoPeriod, BeginWalk, EndWalk
<1>8. ASSUME NEW i \in IDs, WalkDevice(i) PROVE Separation'
  BY <1>8 DEF WalkDevice
<1> QED
  BY <1>1, <1>2, <1>3, <1>4, <1>5, <1>6, <1>7, <1>8 DEF Engine

\* So do the steps that the user's commands begin.
LEMMA UserSeparation == Separation /\ User => Separation'
<1> SUFFICES ASSUME Separation, User PROVE Separation'
  OBVIOUS
<1> USE DEF Separation, GateHeld, FrozenStops, Handshake, Purposes, Walking,
            devices, graph, format, freeze, engine, gui
<1>1. CASE CallClearUp \/ CallStreamPatchIn \/ Apply \/ CallResetAudio \/ CallQuit
  BY <1>1 DEF CallClearUp, CallStreamPatchIn, Apply, CallResetAudio, CallQuit,
              Call, FreezeAll
<1>2. CASE AddDevice \/ AddComment \/ PlayPause
  BY <1>2 DEF AddDevice, AddComment, Add, PlayPause
<1>3. ASSUME NEW a \in IDs, NEW b \in IDs, Connect(a, b) PROVE Separation'
  BY <1>3 DEF Connect
<1>4. ASSUME NEW w \in wires, Unconnect(w) PROVE Separation'
  BY <1>4 DEF Unconnect
<1>5. ASSUME NEW i \in IDs, Delete(i) PROVE Separation'
  BY <1>5 DEF Delete
<1> QED
  BY <1>1, <1>2, <1>3, <1>4, <1>5 DEF User

\* And the steps that the GUI thread takes from there.
LEMMA GUISeparation == Separation /\ GUI => Separation'
<1> SUFFICES ASSUME Separation, GUI PROVE Separation'
  OBVIOUS
<1> USE DEF Separation, GateHeld, FrozenStops, Handshake, Purposes, Walking,
            devices, graph, format, freeze, engine, gui
<1>1. CASE FreezeReturns
  BY <1>1 DEF FreezeReturns
<1>2. CASE ThawAll
  BY <1>2 DEF ThawAll, Caller
<1>3. CASE ClearUp \/ StreamPatchIn
  BY <1>3 DEF ClearUp, StreamPatchIn
<1>4. CASE Adopt
  BY <1>4 DEF Adopt, FreezeAll, Caller
<1>5. CASE ResetAudio \/ HostUpdated
  BY <1>5 DEF ResetAudio, HostUpdated
<1>6. CASE BeginPass \/ NextNode
  BY <1>6 DEF BeginPass, NextNode
<1>7. CASE GateForRemoval
  BY <1>7 DEF GateForRemoval
<1>8. CASE Remove
  BY <1>8 DEF Remove
<1>9. CASE EndPass
  BY <1>9 DEF EndPass, FreezeAll
<1>10. CASE Stop \/ Join \/ Destroy
  BY <1>10 DEF Stop, Join, Destroy
<1> QED
  BY <1>1, <1>2, <1>3, <1>4, <1>5, <1>6, <1>7, <1>8, <1>9, <1>10 DEF GUI

LEMMA NextSeparation == Separation /\ [Next]_vars => Separation'
<1> SUFFICES ASSUME Separation, [Next]_vars PROVE Separation'
  OBVIOUS
<1>1. CASE UNCHANGED vars \/ Ended
  BY <1>1 DEF Ended, vars, freeze, engine, gui, Separation, GateHeld,
              FrozenStops, Handshake, Purposes, Walking
<1> QED
  BY <1>1, EngineSeparation, UserSeparation, GUISeparation DEF Next

\* The inductive invariant holds always.
THEOREM Apart == Spec => []Separation
BY InitSeparation, NextSeparation, PTL DEF Spec

-----------------------------------------------------------------------------
\* From the return of FreezeAll to ThawAll, and while the GUI holds the gate,
\* the engine is in none of its loops over the devices.
THEOREM Exclusion == Spec => []FreezeExcludes
<1>1. Separation => FreezeExcludes
  BY DEF Separation, GateHeld, FrozenStops, Handshake, Purposes, Walking,
         FreezeExcludes, Owning
<1> QED
  BY <1>1, Apart, PTL

\* A walk is of one kind: control raises the reset flag, or takes over a buffer
\* size, only while it owns the devices, so never during a walk.
THEOREM Uniform == Spec => WalkIsUniform
<1> DEFINE Kept == pcE = "walk" =>
                     /\ info' = info
                     /\ m_ResetingAudioThread' = m_ResetingAudioThread \/ due = {}
<1>1. Separation /\ [Next]_vars => [Kept]_vars
  <2> SUFFICES ASSUME Separation, [Next]_vars, pcE = "walk"
               PROVE  /\ info' = info
                      /\ m_ResetingAudioThread' = m_ResetingAudioThread \/ due = {}
    OBVIOUS
  <2> USE DEF devices, graph, format, freeze, engine, gui
  <2>1. pcG \notin {"adopt", "reset"}
    BY DEF Separation, FrozenStops, Handshake, Purposes, Walking
  <2>2. CASE Engine
    <3>1. ASSUME NEW i \in IDs, WalkDevice(i) PROVE UNCHANGED format
      BY <3>1 DEF WalkDevice
    <3>2. CASE EndWalk
      BY <3>2 DEF EndWalk
    <3> QED
      BY <2>2, <3>1, <3>2
         DEF Engine, LoopTest, TakeGate, ReceivedFrozen, ReceivedInCycle, Watch,
             ExchangeAndTest, Reap, Serve, ServedAll, NoPeriod, BeginWalk
  <2>3. CASE User
    <3>1. CASE CallClearUp \/ CallStreamPatchIn \/ Apply \/ CallResetAudio \/ CallQuit
      BY <3>1 DEF CallClearUp, CallStreamPatchIn, Apply, CallResetAudio, CallQuit
    <3>2. CASE AddDevice \/ AddComment \/ PlayPause
      BY <3>2 DEF AddDevice, AddComment, Add, PlayPause
    <3> QED
      BY <2>3, <3>1, <3>2 DEF User, Connect, Unconnect, Delete
  <2>4. CASE GUI
    BY <2>1, <2>4
       DEF GUI, FreezeReturns, ThawAll, ClearUp, StreamPatchIn, Adopt, ResetAudio,
           BeginPass, NextNode, GateForRemoval, Remove, EndPass, HostUpdated,
           Stop, Join, Destroy
  <2>5. CASE UNCHANGED vars \/ Ended
    BY <2>5 DEF Ended, vars
  <2> QED
    BY <2>2, <2>3, <2>4, <2>5 DEF Next
<1> QED
  BY <1>1, Apart, PTL DEF Spec, WalkIsUniform

-----------------------------------------------------------------------------
\* Which step of the host is which step of the abstract specification: the
\* engine's are Run, Rest or a stutter, the GUI's are Edit, Release or one.
LEMMA EngineStep == Separation /\ Engine => Access!Next \/ UNCHANGED Access!vars
<1> SUFFICES ASSUME Separation, Engine
             PROVE  Access!Next \/ UNCHANGED Access!vars
  OBVIOUS
<1> USE DEF devices, graph, format, freeze, engine, gui
<1>1. pcG' = pcG
  BY DEF Engine, LoopTest, TakeGate, ReceivedFrozen, ReceivedInCycle, Watch,
         ExchangeAndTest, Reap, Serve, ServedAll, NoPeriod, BeginWalk,
         WalkDevice, EndWalk
<1>2. Owning' = Owning
  BY <1>1 DEF Owning
<1>3. Walking' /\ ~Walking => ReceivedInCycle \/ ExchangeAndTest(Missed)
  BY DEF Engine, LoopTest, TakeGate, ReceivedFrozen, Watch, Reap, Serve,
         ServedAll, NoPeriod, BeginWalk, WalkDevice, EndWalk, Walking
<1>4. Walking' /\ ~Walking => ~Owning
  <2> SUFFICES ASSUME Walking', ~Walking, Owning PROVE FALSE
    OBVIOUS
  <2>1. pcE = "exchange" /\ ~m_Frozen'
    BY <1>3 DEF ReceivedInCycle, ExchangeAndTest, Walking
  <2>2. pcG # "remove"
    BY <2>1 DEF Separation, GateHeld
  <2>3. frozen_buf /\ m_Frozen
    BY <2>2 DEF Separation, Handshake, Owning, Purposes
  <2> QED
    BY <1>3, <2>1, <2>3 DEF ReceivedInCycle, ExchangeAndTest, Received, Missed
<1> QED
  BY <1>2, <1>4 DEF Access!Next, Access!Run, Access!Rest, Access!vars, Walking

LEMMA UserStep == User => UNCHANGED Access!vars
<1> SUFFICES ASSUME User PROVE UNCHANGED Access!vars
  OBVIOUS
<1> USE DEF devices, graph, format, freeze, engine, gui
<1>1. pcE' = pcE /\ pcG = "idle" /\ pcG' \in {"idle", "sync"}
  <2>1. CASE CallClearUp \/ CallStreamPatchIn \/ Apply \/ CallResetAudio \/ CallQuit
    BY <2>1 DEF CallClearUp, CallStreamPatchIn, Apply, CallResetAudio, CallQuit,
                Call, FreezeAll
  <2>2. CASE AddDevice \/ AddComment \/ PlayPause
    BY <2>2 DEF AddDevice, AddComment, Add, PlayPause
  <2> QED
    BY <2>1, <2>2 DEF User, Connect, Unconnect, Delete
<1> QED
  BY <1>1 DEF Access!vars, Walking, Owning

LEMMA GUIStep == Separation /\ GUI => Access!Next \/ UNCHANGED Access!vars
<1> SUFFICES ASSUME Separation, GUI
             PROVE  Access!Next \/ UNCHANGED Access!vars
  OBVIOUS
<1> USE DEF devices, graph, format, freeze, engine, gui
<1>1. pcE' = pcE
  BY DEF GUI, FreezeReturns, ThawAll, ClearUp, StreamPatchIn, Adopt, ResetAudio,
         BeginPass, NextNode, GateForRemoval, Remove, EndPass, HostUpdated,
         Stop, Join, Destroy
<1>2. Walking' = Walking
  BY <1>1 DEF Walking
<1>3. Owning' /\ ~Owning => FreezeReturns \/ GateForRemoval \/ Join
  BY DEF GUI, ThawAll, ClearUp, StreamPatchIn, Adopt, FreezeAll, Caller,
         ResetAudio, BeginPass, NextNode, Remove, EndPass, HostUpdated, Stop,
         Destroy, Owning
<1>4. Owning' /\ ~Owning => ~Walking
  <2>1. CASE FreezeReturns
    BY <2>1 DEF FreezeReturns, Separation, Handshake, FrozenStops
  <2>2. CASE GateForRemoval
    BY <2>2 DEF GateForRemoval, Separation, GateHeld, Walking
  <2>3. CASE Join
    BY <2>3 DEF Join, Walking
  <2> QED
    BY <1>3, <2>1, <2>2, <2>3
<1> QED
  BY <1>2, <1>4 DEF Access!Next, Access!Edit, Access!Release, Access!vars, Owning

\* The gate and the freeze implement exclusive access to the devices.
THEOREM Refinement == Spec => ImplementsExclusiveAccess
<1>1. Init => Access!Init
  BY DEF Init, Access!Init, Walking, Owning
<1>2. Separation /\ [Next]_vars => [Access!Next]_(Access!vars)
  <2>1. UNCHANGED vars \/ Ended => UNCHANGED Access!vars
    BY DEF Ended, vars, engine, gui, Access!vars, Walking, Owning
  <2> QED
    BY <2>1, EngineStep, UserStep, GUIStep DEF Next
<1> QED
  BY <1>1, <1>2, Apart, PTL DEF Spec, ImplementsExclusiveAccess, Access!Spec

-----------------------------------------------------------------------------
(* No wire leads to a deleted device. *)

\* What the argument needs of the types: nodes are nodes, m_NextID is free.
MapTyped == /\ \A i \in DOMAIN m_DeviceWinMap :
                  m_DeviceWinMap[i] \in Win /\ i \in Nat /\ i < m_NextID
            /\ m_NextID \in Nat
            /\ setting \in BufferSizes /\ info \in BufferSizes

WiresInv == MapTyped /\ WiresLive

\* A node with another buffer size, or marked for removal, is the same device.
LEMMA Resized ==
  ASSUME NEW r \in Win, NEW v \in BufferSizes
  PROVE  [r EXCEPT !.size = v] \in Win /\ [r EXCEPT !.size = v].dev = r.dev
BY DEF Win

LEMMA Marked ==
  ASSUME NEW r \in Win
  PROVE  /\ [r EXCEPT !.box = "killed"] \in Win
         /\ [r EXCEPT !.box = "killed"].dev = r.dev
         /\ [r EXCEPT !.dev = "dead", !.box = "gone", !.size = FirstSize] \in Win
BY HostAssumption DEF Win

\* Every step keeps the nodes whole and the wires on living devices.
LEMMA WinInv == WiresInv /\ [Next]_vars => WiresInv'
<1> SUFFICES ASSUME WiresInv, [Next]_vars PROVE WiresInv'
  OBVIOUS
<1> USE DEF WiresInv, devices, graph, format, freeze, engine, gui
<1>1. ASSUME UNCHANGED <<m_DeviceWinMap, wires, m_NextID>>,
             setting' \in BufferSizes, info' \in BufferSizes
      PROVE  WiresInv'
  BY <1>1 DEF MapTyped, WiresLive, Live
<1>2. CASE Reap
  <2> DEFINE n == NodeFrom(cursor)
  <2>1. /\ DOMAIN m_DeviceWinMap' = DOMAIN m_DeviceWinMap \ {n}
        /\ \A j \in DOMAIN m_DeviceWinMap' : m_DeviceWinMap'[j] = m_DeviceWinMap[j]
        /\ UNCHANGED <<wires, setting, info, m_NextID>>
        /\ m_DeviceWinMap[n].dev = "dead"
    BY <1>2 DEF Reap, Without
  <2> QED
    BY <2>1 DEF MapTyped, WiresLive, Live
<1>3. ASSUME NEW i \in IDs, WalkDevice(i) PROVE WiresInv'
  <2>1. UNCHANGED <<wires, setting, info, m_NextID>>
    BY <1>3 DEF WalkDevice
  <2>2. CASE Resets(i)
    <3>1. i \in DOMAIN m_DeviceWinMap
      BY <2>2 DEF Resets, Runs, Live
    <3>2. m_DeviceWinMap' = [m_DeviceWinMap EXCEPT ![i].size = info]
      BY <1>3, <2>2 DEF WalkDevice
    <3>3. /\ DOMAIN m_DeviceWinMap' = DOMAIN m_DeviceWinMap
          /\ \A j \in DOMAIN m_DeviceWinMap : m_DeviceWinMap'[j] =
                IF j = i THEN [m_DeviceWinMap[i] EXCEPT !.size = info]
                         ELSE m_DeviceWinMap[j]
      BY <3>1, <3>2, Zenon
    <3>4. \A j \in DOMAIN m_DeviceWinMap : /\ m_DeviceWinMap'[j] \in Win
                                           /\ m_DeviceWinMap'[j].dev = m_DeviceWinMap[j].dev
      <4>1. m_DeviceWinMap[i] \in Win /\ info \in BufferSizes
        BY <3>1 DEF MapTyped
      <4>2. /\ [m_DeviceWinMap[i] EXCEPT !.size = info] \in Win
            /\ [m_DeviceWinMap[i] EXCEPT !.size = info].dev = m_DeviceWinMap[i].dev
        BY <4>1, Resized, Zenon
      <4> QED
        BY <3>3, <4>2, Zenon DEF MapTyped
    <3> QED
      BY <2>1, <3>3, <3>4 DEF MapTyped, WiresLive, Live
  <2>3. CASE ~Resets(i)
    BY <1>1, <1>3, <2>1, <2>3 DEF WalkDevice, MapTyped
  <2> QED
    BY <2>2, <2>3
<1>4. CASE ClearUp \/ Destroy
  BY <1>4 DEF ClearUp, Destroy, Emptied, MapTyped, WiresLive, Live
<1>5. CASE StreamPatchIn
  <2>1. PICK n \in m_NextID..MaxDevices :
          /\ m_DeviceWinMap' = [i \in DOMAIN m_DeviceWinMap \cup m_NextID..n-1 |->
                IF i \in m_NextID..n-1 THEN NewWin("live") ELSE m_DeviceWinMap[i]]
          /\ \E ws \in SUBSET {w \in (m_NextID..n-1) \X (m_NextID..n-1) : w[1] < w[2]} :
                wires' = wires \cup ws
    BY <1>5 DEF StreamPatchIn
  <2> DEFINE new == m_NextID..n-1
  <2>2. NewWin("live") \in Win /\ NewWin("live").dev = "live"
    BY DEF NewWin, Win, MapTyped
  <2>3. /\ DOMAIN m_DeviceWinMap' = DOMAIN m_DeviceWinMap \cup new
        /\ \A j \in new : m_DeviceWinMap'[j] = NewWin("live")
        /\ \A j \in DOMAIN m_DeviceWinMap \ new : m_DeviceWinMap'[j] = m_DeviceWinMap[j]
    BY <2>1
  <2> HIDE DEF new
  <2>4. \A j : j \in new \/ Live(j) => Live(j)'
    BY <2>2, <2>3 DEF Live
  <2>5. \A w \in wires' : w \in wires \/ (w[1] \in new /\ w[2] \in new)
    BY <2>1 DEF new
  <2>6. WiresLive'
    BY <2>4, <2>5 DEF WiresLive
  <2>7. MapTyped'
    BY <1>5, <2>2, <2>3 DEF StreamPatchIn, MapTyped
  <2> QED
    BY <2>6, <2>7
<1>6. CASE Remove
  <2>1. /\ UNCHANGED <<setting, info, m_NextID>>
        /\ \A w \in wires' : w \in wires /\ w[1] # it /\ w[2] # it
    BY <1>6 DEF Remove, RemoveWires, WiresWithout
  <2>2. CASE KeptFor(it)
    <3>1. m_DeviceWinMap' =
            [m_DeviceWinMap EXCEPT ![it].dev = "dead", ![it].box = "gone",
                                   ![it].size = FirstSize]
      BY <1>6, <2>2 DEF Remove
    <3>2. /\ DOMAIN m_DeviceWinMap' = DOMAIN m_DeviceWinMap
          /\ \A j \in DOMAIN m_DeviceWinMap : j # it => m_DeviceWinMap'[j] = m_DeviceWinMap[j]
      BY <3>1, Zenon
    <3>3. it \in DOMAIN m_DeviceWinMap =>
            m_DeviceWinMap'[it] = [m_DeviceWinMap[it] EXCEPT
                                     !.dev = "dead", !.box = "gone", !.size = FirstSize]
      BY <3>1, Zenon
    <3>4. \A j \in DOMAIN m_DeviceWinMap : m_DeviceWinMap'[j] \in Win
      <4>1. it \in DOMAIN m_DeviceWinMap =>
              [m_DeviceWinMap[it] EXCEPT !.dev = "dead", !.box = "gone",
                                         !.size = FirstSize] \in Win
        BY Marked, Zenon DEF MapTyped
      <4> QED
        BY <3>2, <3>3, <4>1, Zenon DEF MapTyped
    <3> QED
      BY <2>1, <3>2, <3>4 DEF MapTyped, WiresLive, Live
  <2>3. CASE ~KeptFor(it)
    <3>1. /\ DOMAIN m_DeviceWinMap' = DOMAIN m_DeviceWinMap \ {it}
          /\ \A j \in DOMAIN m_DeviceWinMap' : m_DeviceWinMap'[j] = m_DeviceWinMap[j]
      BY <1>6, <2>3 DEF Remove, Without
    <3> QED
      BY <2>1, <3>1 DEF MapTyped, WiresLive, Live
  <2> QED
    BY <2>2, <2>3
<1>7. ASSUME NEW kind \in {"live", "none"}, Add(kind) PROVE WiresInv'
  <2>1. NewWin(kind) \in Win
    BY HostAssumption DEF NewWin, Win, MapTyped
  <2>2. m_NextID \notin DOMAIN m_DeviceWinMap
    BY DEF MapTyped
  <2> QED
    BY <1>7, <2>1, <2>2 DEF Add, MapTyped, WiresLive, Live
<1>8. ASSUME NEW a \in IDs, NEW b \in IDs, Connect(a, b) PROVE WiresInv'
  BY <1>8 DEF Connect, Wirable, MapTyped, WiresLive, Live
<1>9. ASSUME NEW w \in wires, Unconnect(w) PROVE WiresInv'
  BY <1>9 DEF Unconnect, MapTyped, WiresLive, Live
<1>10. ASSUME NEW i \in IDs, Delete(i) PROVE WiresInv'
  <2>1. i \in DOMAIN m_DeviceWinMap /\ UNCHANGED <<wires, setting, info, m_NextID>>
    BY <1>10 DEF Delete
  <2>2. m_DeviceWinMap' = [m_DeviceWinMap EXCEPT ![i].box = "killed"]
    BY <1>10 DEF Delete
  <2>3. /\ DOMAIN m_DeviceWinMap' = DOMAIN m_DeviceWinMap
        /\ \A j \in DOMAIN m_DeviceWinMap : m_DeviceWinMap'[j] =
              IF j = i THEN [m_DeviceWinMap[i] EXCEPT !.box = "killed"]
                       ELSE m_DeviceWinMap[j]
    BY <2>1, <2>2, Zenon
  <2>4. \A j \in DOMAIN m_DeviceWinMap : /\ m_DeviceWinMap'[j] \in Win
                                         /\ m_DeviceWinMap'[j].dev = m_DeviceWinMap[j].dev
    <3>1. m_DeviceWinMap[i] \in Win
      BY <2>1 DEF MapTyped
    <3>2. /\ [m_DeviceWinMap[i] EXCEPT !.box = "killed"] \in Win
          /\ [m_DeviceWinMap[i] EXCEPT !.box = "killed"].dev = m_DeviceWinMap[i].dev
      BY <3>1, Marked, Zenon
    <3> QED
      BY <2>3, <3>2, Zenon DEF MapTyped
  <2> QED
    BY <2>1, <2>3, <2>4 DEF MapTyped, WiresLive, Live
<1>11. CASE Engine
  <2>1. CASE Serve \/ ServedAll
    BY <1>1, <2>1 DEF Serve, ServedAll, MapTyped
  <2> QED
    BY <1>1, <1>2, <1>3, <1>11, <2>1
       DEF Engine, LoopTest, TakeGate, ReceivedFrozen, ReceivedInCycle, Watch,
           ExchangeAndTest, NoPeriod, BeginWalk, EndWalk, MapTyped
<1>12. CASE User
  <2>1. CASE CallClearUp \/ CallStreamPatchIn \/ Apply \/ CallResetAudio \/ CallQuit
    BY <1>1, <2>1 DEF CallClearUp, CallStreamPatchIn, Apply, CallResetAudio,
                      CallQuit, Call, MapTyped
  <2>2. CASE PlayPause
    BY <1>1, <2>2 DEF PlayPause, MapTyped
  <2> QED
    BY <1>7, <1>8, <1>9, <1>10, <1>12, <2>1, <2>2 DEF User, AddDevice, AddComment
<1>13. CASE GUI
  <2>1. CASE Adopt \/ ResetAudio \/ HostUpdated
    BY <1>1, <2>1 DEF Adopt, ResetAudio, HostUpdated, MapTyped
  <2> QED
    BY <1>1, <1>4, <1>5, <1>6, <1>13, <2>1
       DEF GUI, FreezeReturns, ThawAll, BeginPass, NextNode, GateForRemoval,
           EndPass, Stop, Join, MapTyped
<1>14. CASE UNCHANGED vars \/ Ended
  BY <1>1, <1>14 DEF Ended, vars, MapTyped
<1> QED
  BY <1>11, <1>12, <1>13, <1>14 DEF Next

\* No wire of the canvas, and so no input pointer of a device, leads to or from
\* a device that has been killed or deleted.
THEOREM Wires == Spec => []WiresLive
<1>1. Init => WiresInv
  BY HostAssumption DEF Init, WiresInv, MapTyped, WiresLive
<1>2. WiresInv => WiresLive
  BY DEF WiresInv
<1> QED
  BY <1>1, <1>2, WinInv, PTL DEF Spec
=============================================================================
