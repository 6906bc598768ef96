----------------------------- MODULE TransportHub -----------------------------
(***************************************************************************)
(* The shared audio transport: one native client behind every Output       *)
(* device (AudioTransportHub.cpp, OutputAudioClient.cpp, OutputPlugin.cpp).*)
(*                                                                         *)
(* The engine runs commands and services the transport under the host's    *)
(* gate; the GUI removes devices under the gate and adds them without it   *)
(* (SpiralSynthModular.C:1039); the driver loses its server or fails a     *)
(* stream at any time.  A call of the hub is an operator from its fields   *)
(* and those of its client to their new values.                            *)
(***************************************************************************)
EXTENDS Naturals, Sequences, SequencesExt

CONSTANT Devices  \* Output devices

Opens == {"INPUT", "OUTPUT", "DUPLEX"}
Modes == Opens \cup {"NO_MODE", "CLOSED"}

\* How an attempt to open a client may end: refused by Attach or by the
\* stream's Configure; configured but not started; open.
Outcomes == {"refused", "not started", "open"}

VARIABLES hub,      \* fields of the hub, of its client and of the client's stream
          device,   \* state of each Output device
          reported, \* m_ReportedMode of each, which its editor shows
          gate,     \* who holds m_CycleLock
          todo,     \* devices the engine has still to visit in this cycle
          current,  \* the one between its commands and its service
          reset,    \* m_ResetingAudioThread: the walk resets the devices
          healthy,  \* the driver opens when asked and does not fail
          wanted    \* history: the mode last asked for by the user

vars == <<hub, device, reported, gate, todo, current, reset, healthy, wanted>>

Nobody == "nobody"

Init == /\ hub = [m_Members |-> << >>, m_Configured |-> FALSE, m_Mode |-> "NO_MODE",
                  m_RequestedMode |-> "OUTPUT",
                  waiting |-> FALSE,   \* time(NULL) < m_NextRetry
                  IsAttached |-> FALSE, m_Failed |-> FALSE,
                  registered |-> FALSE] \* the stream is in the timeline
        /\ device = [d \in Devices |-> "none"]
        /\ reported = [d \in Devices |-> "NO_MODE"]
        /\ gate = Nobody /\ todo = {} /\ current = Nobody
        /\ reset = FALSE /\ healthy = TRUE /\ wanted = "OUTPUT"

-----------------------------------------------------------------------------
(* The client.                                                             *)

\* Mistake: the stream stays in the timeline.
CloseClientRegistered(h) == [h EXCEPT !.IsAttached = FALSE]

CloseClient(h) == [h EXCEPT !.IsAttached = FALSE, !.registered = FALSE]

\* OpenRead, OpenWrite and OpenReadWrite.
OpenClient(h, outcome) ==
    CASE outcome = "refused" -> CloseClient(h)
      [] outcome = "not started" -> [CloseClient(h) EXCEPT !.m_Failed = FALSE]
      [] outcome = "open" -> [h EXCEPT !.IsAttached = TRUE, !.registered = TRUE,
                                       !.m_Failed = FALSE]

-----------------------------------------------------------------------------
(* The hub.                                                                *)

MayOpen(h, mode) == mode \in Opens /\ h.m_Configured /\ h.m_Members # << >>

\* A mode that is not one to open only closes the hub's books.
OpenMode(h, mode, outcome) ==
    LET tried == IF MayOpen(h, mode) THEN OpenClient(h, outcome) ELSE h
    IN [tried EXCEPT !.m_RequestedMode = mode, !.waiting = TRUE,
                     !.m_Mode = IF MayOpen(h, mode) /\ outcome = "open"
                                THEN mode ELSE "CLOSED"]

\* Mistake: the mode that was asked for is kept.
CloseKeeping(h) == [CloseClient(h) EXCEPT !.m_Mode = "CLOSED"]

Close(h) == [CloseClient(h) EXCEPT !.m_RequestedMode = "CLOSED", !.m_Mode = "CLOSED"]

\* Configure closes the client before it selects a backend.
Reconfigure(h, configured, outcome) ==
    OpenMode([CloseClient(h) EXCEPT !.m_Configured = configured],
             IF h.m_Mode = "NO_MODE" THEN "OUTPUT" ELSE h.m_Mode, outcome)

Attach(h, d, configured) ==
    LET joined == [h EXCEPT !.m_Members = IF Contains(@, d) THEN @ ELSE Append(@, d)]
    IN IF h.m_Configured THEN joined
       ELSE [CloseClient(joined) EXCEPT !.m_Configured = configured,
                                        !.m_Mode = IF configured THEN @ ELSE "CLOSED"]

\* Mistake: a device that goes stays a member.
DetachNone(h, d) == h

\* The last to leave destroys the client, and its stream with it.
Detach(h, d) ==
    IF ~Contains(h.m_Members, d) THEN h
    ELSE IF h.m_Members = <<d>>
    THEN [CloseClient(h) EXCEPT !.m_Members = << >>, !.m_Mode = "NO_MODE",
                                !.m_Configured = FALSE, !.m_Failed = FALSE]
    ELSE [h EXCEPT !.m_Members = RemoveFirst(@, d)]

Broken(h) == ~h.IsAttached \/ h.m_Failed

\* Mistake: after the client was closed nothing opens it again.
RetryNever(h, outcome) == h

\* A second or more after the last attempt, the requested mode is tried again.
Retry(h, outcome) == IF h.waiting THEN h ELSE OpenMode(h, h.m_RequestedMode, outcome)

\* A client that is lost or failed is closed, the requested mode kept.
GivenUp(h) == IF h.m_Mode # "CLOSED"
              THEN [CloseClient(h) EXCEPT !.m_Mode = "CLOSED"] ELSE h

ServiceOpened(h, first) ==
    IF h.m_Mode = "NO_MODE" THEN OpenMode(h, "OUTPUT", first) ELSE h

Service(h, first, second) ==
    LET opened == ServiceOpened(h, first)
    IN IF h.m_Members = << >> THEN h
       ELSE IF Broken(opened) /\ opened.m_RequestedMode \in Opens
       THEN Retry(GivenUp(opened), second)
       ELSE opened

\* OpenMode, Close and the loss of the client tell every member.
Reported(h) == [d \in Devices |-> IF Contains(h.m_Members, d) THEN h.m_Mode ELSE reported[d]]

\* What an attempt to open comes to now.
Possible(outcome) == healthy => outcome = "open"

-----------------------------------------------------------------------------
(* The engine, one cycle under the gate.                                   *)

StartCycle == /\ gate = Nobody
              /\ gate' = "engine"
              /\ device' = [d \in Devices |-> IF device[d] = "dead" THEN "none" ELSE device[d]]
              /\ todo' = {d \in Devices : device[d] = "live"}
              /\ UNCHANGED <<hub, reported, current, reset, healthy, wanted>>

\* What the user has asked of this device, if anything: a mode to open, or
\* CLOSED to close.
ExecuteCommands(d) ==
    /\ gate = "engine" /\ current = Nobody /\ d \in todo /\ ~reset
    /\ \/ UNCHANGED <<hub, reported, wanted>>
       \/ \E mode \in Opens, outcome \in Outcomes :
             /\ Possible(outcome)
             /\ hub' = OpenMode(hub, mode, outcome)
             /\ reported' = Reported(hub')
             /\ wanted' = mode
       \/ /\ hub' = Close(hub)
          /\ reported' = Reported(hub')
          /\ wanted' = "CLOSED"
    /\ current' = d
    /\ UNCHANGED <<device, gate, todo, reset, healthy>>

\* Only the representative services the hub.
ServiceAudio ==
    /\ current # Nobody
    /\ IF hub.m_Members # << >> /\ Head(hub.m_Members) = current
       THEN \E first \in Outcomes, second \in Outcomes :
               /\ Possible(first) /\ Possible(second)
               /\ hub' = Service(hub, first, second)
               /\ reported' = IF hub'.m_Mode = hub.m_Mode /\ hub'.waiting = hub.waiting
                              THEN reported ELSE Reported(hub')
       ELSE UNCHANGED <<hub, reported>>
    /\ todo' = todo \ {current}
    /\ current' = Nobody
    /\ UNCHANGED <<device, gate, reset, healthy, wanted>>

\* The reset walk reaches the devices that are connected.
Reset(d) ==
    /\ gate = "engine" /\ current = Nobody /\ d \in todo /\ reset
    /\ \/ \E configured \in BOOLEAN, outcome \in Outcomes :
             /\ Possible(outcome)
             /\ hub' = Reconfigure(hub, configured, outcome)
             /\ reported' = Reported(hub')
       \/ UNCHANGED <<hub, reported>>
    /\ todo' = todo \ {d}
    /\ UNCHANGED <<device, gate, current, reset, healthy, wanted>>

EndCycle == /\ gate = "engine" /\ todo = {} /\ current = Nobody
            /\ gate' = Nobody
            /\ reset' = FALSE
            /\ UNCHANGED <<hub, device, reported, todo, current, healthy, wanted>>

-----------------------------------------------------------------------------
(* Control.                                                                *)

\* A new device asks the hub for its mode, then joins; neither with the gate.
Construct(d) == /\ device[d] = "none"
                /\ device' = [device EXCEPT ![d] = "new"]
                /\ reported' = [reported EXCEPT ![d] = hub.m_Mode]
                /\ UNCHANGED <<hub, gate, todo, current, reset, healthy, wanted>>

Initialise(d) == /\ device[d] = "new"
                 /\ \E configured \in BOOLEAN : hub' = Attach(hub, d, configured)
                 /\ device' = [device EXCEPT ![d] = "live"]
                 /\ UNCHANGED <<reported, gate, todo, current, reset, healthy, wanted>>

\* With the last device the session with the user ends: the next starts anew.
Kill(d) == /\ gate = Nobody
           /\ device[d] = "live"
           /\ hub' = Detach(hub, d)
           /\ device' = [device EXCEPT ![d] = "dead"]
           /\ wanted' = IF hub'.m_Members = << >> THEN "OUTPUT" ELSE wanted
           /\ UNCHANGED <<reported, gate, todo, current, reset, healthy>>

UpdateHostInfo == /\ gate = Nobody
                  /\ ~reset
                  /\ reset' = TRUE
                  /\ UNCHANGED <<hub, device, reported, gate, todo, current, healthy, wanted>>

-----------------------------------------------------------------------------
(* Driver and clock.                                                       *)

\* The server goes away, or the callback or the worker finds the stream failed.
Trouble == /\ ~healthy
           /\ hub.IsAttached
           /\ \/ hub' = [hub EXCEPT !.IsAttached = FALSE]
              \/ hub' = [hub EXCEPT !.m_Failed = TRUE]
           /\ UNCHANGED <<device, reported, gate, todo, current, reset, healthy, wanted>>

Health == /\ healthy' = ~healthy
          /\ UNCHANGED <<hub, device, reported, gate, todo, current, reset, wanted>>

Second == /\ hub.waiting
          /\ hub' = [hub EXCEPT !.waiting = FALSE]
          /\ UNCHANGED <<device, reported, gate, todo, current, reset, healthy, wanted>>

Engine == \/ StartCycle
          \/ \E d \in Devices : ExecuteCommands(d) \/ Reset(d)
          \/ ServiceAudio
          \/ EndCycle

Next == \/ Engine
        \/ \E d \in Devices : Construct(d) \/ Initialise(d) \/ Kill(d)
        \/ UpdateHostInfo
        \/ Trouble \/ Health \/ Second

\* The engine's thread never stops cycling, and seconds pass.
Spec == Init /\ [][Next]_vars /\ WF_vars(Engine) /\ WF_vars(Second)

-----------------------------------------------------------------------------
(* Properties.                                                             *)

TypeOK == /\ hub.m_Mode \in Modes /\ hub.m_RequestedMode \in Opens \cup {"CLOSED"}
          /\ ToSet(hub.m_Members) = {d \in Devices : device[d] = "live"}
          /\ IsInjective(hub.m_Members)
          /\ device \in [Devices -> {"none", "new", "live", "dead"}]
          /\ reported \in [Devices -> Modes]
          /\ todo \subseteq Devices /\ current \in todo \cup {Nobody}
          /\ gate \in {Nobody, "engine"}

\* The hub's idea of the transport is the client's state: a mode that is not
\* open leaves no client attached and no stream in the engine's timeline,
\* also when the last device takes the client with it, and an open one has
\* its stream there (AudioTransportHub.cpp, every path that sets m_Mode).
ModeIsTheClients == /\ hub.m_Mode \in Opens <=> hub.registered
                    /\ hub.IsAttached => hub.registered

\* What the user has closed stays closed: no retry, no reset and no return of
\* the server opens it again (AudioTransportHub.cpp:191).
ClosedStaysClosed == wanted = "CLOSED" => ~hub.IsAttached

\* Once the driver is well again and no one goes on resetting the engine, the
\* transport comes back in the mode that is requested, again and again, as
\* long as a backend could be selected (AudioTransportHub.cpp:188).
Reopens == <>[](healthy /\ ~reset) =>
               []<>(\/ hub.m_Members = << >>
                    \/ ~hub.m_Configured
                    \/ /\ hub.m_Mode = hub.m_RequestedMode
                       /\ hub.m_Mode \in Opens => ~Broken(hub))

-----------------------------------------------------------------------------
(* What the comments say and the code does not keep.                       *)

\* "Keep the requested mode, but reopen only here on the control thread"
\* (AudioTransportHub.cpp:189): what is requested is what the user asked for
\* last.
RequestedIsWanted == hub.m_Mode # "NO_MODE" => hub.m_RequestedMode = wanted

\* "Control and engine access require the host cycle gate"
\* (AudioTransportHub.h:41): the GUI does not change the hub while the engine
\* is in its cycle.
GateGuardsTheHub == [][hub' # hub /\ (\E d \in Devices : Initialise(d)) => gate = Nobody]_vars
=============================================================================
