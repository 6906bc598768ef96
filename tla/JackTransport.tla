--------------------------- MODULE JackTransport ---------------------------
(***************************************************************************)
(* JACK devices (JackPlugin.C), each with a JackClient (JackClient.cpp)    *)
(* and an AudioStream, and the timeline their streams are registered with. *)
(* Whoever holds the host's gate, the engine in its cycle or the GUI when  *)
(* it kills a device, runs one procedure at a time and is called control   *)
(* here.  Beside it run the threads of libjack: of each client the process *)
(* callback, which moves samples through the stream's queues, and the      *)
(* shutdown callback, which tells the client that the server is gone.      *)
(*                                                                         *)
(* libjack is external: a client that is closed has no callback under way, *)
(* a client that was not activated gets no process callback, a server that *)
(* is gone activates nothing, and an open that fails may discard clients   *)
(* of a server that is gone.                                               *)
(***************************************************************************)
EXTENDS Naturals

CONSTANTS Devices, NoDevice

ASSUME JackAssumption == NoDevice \notin Devices

VARIABLES
    live, dead,      \* devices that are there; those killed and not yet deleted
    m_Client,        \* clients with a native handle
    m_Attached, m_Active,
    m_Run,           \* clients whose callback leads to the stream
    m_Configured,    \* streams with queues and a client
    m_Failed,        \* streams that failed
    changed,         \* open clients whose period or rate the rings do not have
    m_Streams, m_Master, \* the timeline
    pc, cur, then,   \* control's place, its device, what a close is for
    retiring,        \* clients the loop over Clients has still to look at
    aware,           \* history: clients that knew of a shutdown when it began
    server,          \* libjack: the server runs
    activated,       \* handles that were activated
    heard,           \* handles with a shutdown callback
    lost,            \* handles whose server is gone
    discarded,       \* handles that libjack destroyed by itself
    told, telling,   \* shutdown callbacks called, and not yet over
    calling          \* process callbacks under way

clients == <<m_Client, m_Attached, m_Active, m_Run>>
streams == <<m_Configured, m_Failed, changed>>
timeline == <<m_Streams, m_Master>>
control == <<pc, cur, then, retiring, aware>>
handles == <<activated, heard, lost, discarded, told>>
jack == <<server, handles, telling, calling>>
jackvars == <<live, dead, clients, streams, timeline, control, jack>>

JackInit ==
    /\ live = {} /\ dead = {}
    /\ m_Client = {} /\ m_Attached = {} /\ m_Active = {} /\ m_Run = {}
    /\ m_Configured = {} /\ m_Failed = {} /\ changed = {}
    /\ m_Streams = {} /\ m_Master = NoDevice
    /\ pc = "idle" /\ cur = NoDevice /\ then = "idle"
    /\ retiring = {} /\ aware = {}
    /\ server \in BOOLEAN
    /\ activated = {} /\ heard = {} /\ lost = {} /\ discarded = {}
    /\ told = {} /\ telling = {} /\ calling = {}

-----------------------------------------------------------------------------
(* Steps that several procedures share. *)

Unregister(d) == /\ m_Streams' = m_Streams \ {d}
                 /\ m_Master' = IF m_Master = d THEN NoDevice ELSE m_Master

Start(place, d, purpose) == pc' = place /\ cur' = d /\ then' = purpose
Return == Start("idle", NoDevice, "idle")

\* Mistake: the client that was closed is still marked active.
DetachedActive(d) == /\ m_Client' = m_Client \ {d}
                     /\ m_Attached' = m_Attached \ {d}
                     /\ UNCHANGED m_Active

Detached(d) == /\ m_Client' = m_Client \ {d}
               /\ m_Attached' = m_Attached \ {d}
               /\ m_Active' = m_Active \ {d}

\* DetachClient: close waits for the callbacks of this client.  The callback
\* with zero frames that follows does nothing (AudioStream::Callback).
DetachClient(d) == /\ d \notin calling \cup telling
                   /\ Detached(d)
                   /\ activated' = activated \ {d} /\ heard' = heard \ {d}
                   /\ lost' = lost \ {d} /\ discarded' = discarded \ {d}
                   /\ told' = told \ {d}
                   /\ changed' = changed \ {d}
                   /\ UNCHANGED <<server, telling, calling>>

-----------------------------------------------------------------------------
(* What control begins: commands, the engine's service, Kill, destruction. *)

Create(d) == /\ pc = "idle"
             /\ d \notin live \cup dead
             /\ live' = live \cup {d}
             /\ UNCHANGED <<dead, clients, streams, timeline, control, jack>>

\* JackPlugin::Attach: JackClient::Attach detaches first.
Attach(d) == /\ pc = "idle" /\ d \in live
             /\ Start("close", d, "attach")
             /\ UNCHANGED <<live, dead, clients, streams, timeline, retiring, aware, jack>>

\* JackPlugin::Detach, and what comes after it.
DetachFor(d, purpose) == /\ Unregister(d)
                         /\ Start("close", d, purpose)
                         /\ UNCHANGED <<clients, streams, retiring, aware, jack>>

Detach(d) == /\ pc = "idle" /\ d \in live
             /\ DetachFor(d, "idle")
             /\ UNCHANGED <<live, dead>>

\* A device that was attached is attached again with its new ports.
SetNumberPorts(d) == /\ pc = "idle" /\ d \in live
                     /\ DetachFor(d, IF d \in m_Attached THEN "attach" ELSE "idle")
                     /\ UNCHANGED <<live, dead>>

\* Reset: of a client that is not attached only the rings are built.
Reset(d) == IF d \in m_Attached
            THEN DetachFor(d, "attach")
            ELSE /\ changed' = changed \ {d}
                 /\ UNCHANGED <<clients, m_Configured, m_Failed, timeline, control, jack>>

\* The reset walk of the host.
HostReset(d) == /\ pc = "idle" /\ d \in live
                /\ Reset(d)
                /\ UNCHANGED <<live, dead>>

\* Mistake: the failure of the stream is not looked at.
ServiceFormatOnly(d) == /\ pc = "idle" /\ d \in live
                        /\ d \in m_Attached
                        /\ d \in changed
                        /\ Reset(d)
                        /\ UNCHANGED <<live, dead>>

ServiceAudio(d) == /\ pc = "idle" /\ d \in live
                   /\ d \in m_Attached
                   /\ d \in changed \cup m_Failed
                   /\ Reset(d)
                   /\ UNCHANGED <<live, dead>>

Kill(d) == /\ pc = "idle" /\ d \in live
           /\ live' = live \ {d} /\ dead' = dead \cup {d}
           /\ DetachFor(d, "idle")

\* ~JackPlugin: detaches, then deletes the client and the stream.
Delete(d) == /\ pc = "idle" /\ d \in dead
             /\ dead' = dead \ {d}
             /\ Unregister(d)
             /\ DetachClient(d)
             /\ m_Run' = m_Run \ {d}
             /\ m_Configured' = m_Configured \ {d}
             /\ m_Failed' = m_Failed \ {d}
             /\ UNCHANGED <<live, control>>

\* The timeline takes one of the streams that can tell the time as its master;
\* which of them, and whether their last timing is recent, is left open.
Prepare == /\ pc = "idle"
           /\ m_Master' \in {NoDevice} \cup
                ((m_Streams \cap m_Configured \cap m_Attached) \ m_Failed)
           /\ UNCHANGED <<live, dead, clients, streams, m_Streams, control, jack>>

-----------------------------------------------------------------------------
(* The steps of a procedure. *)

Close == /\ pc = "close"
         /\ DetachClient(cur)
         /\ IF then = "attach" THEN Start("ports", cur, "idle") ELSE Return
         /\ UNCHANGED <<live, dead, m_Run, m_Configured, m_Failed, timeline, retiring,
                        aware>>

\* The procedure gives up, with or without JackPlugin::Detach.
GiveUp == Start("close", cur, "idle")

Stale(n) == n \in m_Client /\ n \notin m_Attached

\* Attach: the port maps are cleared and filled again, then, under the
\* lifecycle lock, every client in Clients is looked at.
Ports == /\ pc = "ports"
         /\ pc' = "retire"
         /\ retiring' = live \cup dead
         /\ aware' = {n \in Devices : Stale(n)}
         /\ UNCHANGED <<live, dead, clients, streams, timeline, cur, then, jack>>

\* Mistake: the loop over Clients retires nobody.
RetireNone(n) == /\ pc = "retire" /\ n \in retiring
                 /\ retiring' = retiring \ {n}
                 /\ UNCHANGED <<live, dead, clients, streams, timeline, pc, cur, then,
                                aware, jack>>

\* "Retire every stale handle".
Retire(n) == /\ pc = "retire" /\ n \in retiring
             /\ IF Stale(n)
                THEN DetachClient(n)
                ELSE UNCHANGED <<m_Client, m_Attached, m_Active, changed, jack>>
             /\ retiring' = retiring \ {n}
             /\ UNCHANGED <<live, dead, m_Run, m_Configured, m_Failed, timeline, pc, cur,
                            then, aware>>

OpenFails == /\ pc = "retire" /\ retiring = {}
             /\ Return /\ aware' = {}
             /\ \E gone \in SUBSET ((m_Client \cap lost) \ (calling \cup telling)) :
                  discarded' = discarded \cup gone
             /\ UNCHANGED <<live, dead, clients, streams, timeline, retiring, server,
                            activated, heard, lost, told, telling, calling>>

Open == /\ pc = "retire" /\ retiring = {}
        /\ server
        /\ m_Client' = m_Client \cup {cur}
        /\ pc' = "callbacks" /\ aware' = {}
        /\ UNCHANGED <<live, dead, m_Attached, m_Active, m_Run, streams, timeline,
                       cur, then, retiring, jack>>

\* jack_set_..._callback and jack_on_shutdown.
SetCallbacks == /\ pc = "callbacks"
                /\ \/ /\ pc' = "register" /\ UNCHANGED <<cur, then>>
                      /\ heard' = heard \cup {cur}
                   \/ GiveUp /\ UNCHANGED heard
                /\ UNCHANGED <<live, dead, clients, streams, timeline, retiring, aware,
                               server, activated, lost, discarded, told, telling, calling>>

\* Mistake: the client activates itself before its stream is ready.
RegisterPortsActive ==
    /\ pc = "register"
    /\ pc' = "configure"
    /\ m_Attached' = m_Attached \cup {cur}
    /\ activated' = activated \cup {cur} /\ m_Active' = m_Active \cup {cur}
    /\ UNCHANGED <<live, dead, m_Client, m_Run, streams, timeline, cur, then, retiring,
                   aware, server, heard, lost, discarded, told, telling, calling>>

\* The ports; only then the client counts as attached.
RegisterPorts == /\ pc = "register"
                 /\ \/ /\ pc' = "configure" /\ UNCHANGED <<cur, then>>
                       /\ m_Attached' = m_Attached \cup {cur}
                    \/ GiveUp /\ UNCHANGED m_Attached
                 /\ UNCHANGED <<live, dead, m_Client, m_Active, m_Run, streams, timeline,
                                retiring, aware, jack>>

\* BuildRings and AudioStream::Configure; the callback and the timeline.
Configure == /\ pc = "configure"
             /\ cur \in m_Attached
             /\ pc' = "start"
             /\ changed' = changed \ {cur}
             /\ m_Configured' = m_Configured \cup {cur} /\ m_Failed' = m_Failed \ {cur}
             /\ m_Run' = m_Run \cup {cur}
             /\ m_Streams' = m_Streams \cup {cur}
             /\ UNCHANGED <<live, dead, m_Client, m_Attached, m_Active, m_Master, cur,
                            then, retiring, aware, jack>>

\* Configure refuses the format, or finds the client gone.
ConfigureFails == /\ pc = "configure"
                  /\ changed' = changed \ {cur}
                  /\ m_Configured' = m_Configured \ {cur}
                  /\ Unregister(cur)
                  /\ GiveUp
                  /\ UNCHANGED <<live, dead, clients, m_Failed, retiring, aware, jack>>

\* StartClient up to jack_activate.
StartClient == /\ pc = "start"
               /\ cur \in m_Attached
               /\ IF cur \in m_Active
                  THEN Return /\ UNCHANGED activated
                  ELSE /\ cur \notin lost
                       /\ activated' = activated \cup {cur}
                       /\ Start("started", cur, "idle")
               /\ UNCHANGED <<live, dead, clients, streams, timeline, retiring, aware,
                              server, heard, lost, discarded, told, telling, calling>>

\* Start fails: JackPlugin detaches.
StartFails == /\ pc = "start"
              /\ cur \in m_Attached => cur \notin m_Active
              /\ Unregister(cur)
              /\ GiveUp
              /\ UNCHANGED <<live, dead, clients, streams, retiring, aware, jack>>

Started == /\ pc = "started"
           /\ m_Active' = m_Active \cup {cur}
           /\ Return
           /\ UNCHANGED <<live, dead, m_Client, m_Attached, m_Run, streams, timeline,
                          retiring, aware, jack>>

Procedure == \/ Close \/ Ports \/ (\E n \in Devices : Retire(n))
             \/ OpenFails \/ Open \/ SetCallbacks \/ RegisterPorts
             \/ Configure \/ ConfigureFails \/ StartClient \/ StartFails \/ Started

-----------------------------------------------------------------------------
(* libjack: the server, and the threads of its clients. *)

ServerStarts == /\ ~server
                /\ server' = TRUE
                /\ UNCHANGED <<live, dead, clients, streams, timeline, control, handles,
                               telling, calling>>

ServerEnds == /\ server
              /\ server' = FALSE
              /\ lost' = lost \cup m_Client
              /\ UNCHANGED <<live, dead, clients, streams, timeline, control, activated,
                             heard, discarded, told, telling, calling>>

\* The server changes the period of an active client.
Renegotiate(d) == /\ d \in activated \ (lost \cup changed)
                  /\ changed' = changed \cup {d}
                  /\ UNCHANGED <<live, dead, clients, m_Configured, m_Failed, timeline,
                                 control, jack>>

Closing(d) == pc = "close" /\ cur = d

\* Process: the port maps, then the stream.
Process(d) == /\ d \in activated \ (lost \cup calling)
              /\ ~Closing(d)
              /\ calling' = calling \cup {d}
              /\ UNCHANGED <<live, dead, clients, streams, timeline, control, server,
                             handles, telling>>

\* Transfer finds the stream without a client, the timing unusable, or the
\* native buffers short; or it succeeds.
Transfer(d) == /\ d \in calling
               /\ calling' = calling \ {d}
               /\ \/ /\ d \in m_Run => d \in m_Configured
                     /\ UNCHANGED m_Failed
                  \/ d \in m_Run /\ m_Failed' = m_Failed \cup {d}
               /\ UNCHANGED <<live, dead, clients, m_Configured, changed, timeline,
                              control, server, handles, telling>>

\* OnJackShutdown, in its two assignments.
OnJackShutdown(d) == /\ d \in (m_Client \cap lost \cap heard) \ (told \cup discarded)
                     /\ ~Closing(d)
                     /\ m_Attached' = m_Attached \ {d}
                     /\ told' = told \cup {d} /\ telling' = telling \cup {d}
                     /\ UNCHANGED <<live, dead, m_Client, m_Active, m_Run, streams,
                                    timeline, control, server, activated, heard, lost,
                                    discarded, calling>>

ShutdownTold(d) == /\ d \in telling
                   /\ m_Active' = m_Active \ {d}
                   /\ telling' = telling \ {d}
                   /\ UNCHANGED <<live, dead, m_Client, m_Attached, m_Run, streams,
                                  timeline, control, server, handles, calling>>

Callbacks(d) == Transfer(d) \/ ShutdownTold(d)

Begins(d) == \/ Create(d) \/ Attach(d) \/ Detach(d) \/ SetNumberPorts(d)
             \/ HostReset(d) \/ ServiceAudio(d) \/ Kill(d) \/ Delete(d)

Libjack == \/ ServerStarts \/ ServerEnds
           \/ \E d \in Devices : \/ Renegotiate(d) \/ Process(d) \/ Transfer(d)
                                 \/ OnJackShutdown(d) \/ ShutdownTold(d)

JackNext == Prepare \/ Procedure \/ Libjack \/ \E d \in Devices : Begins(d)

\* Control goes on with what it has begun and serves every device in every
\* cycle; callbacks end.
JackSpec == /\ JackInit /\ [][JackNext]_jackvars
            /\ WF_jackvars(Procedure)
            /\ \A d \in Devices : SF_jackvars(ServiceAudio(d)) /\ WF_jackvars(Callbacks(d))

-----------------------------------------------------------------------------
JackTypeOK ==
    /\ live \subseteq Devices /\ dead \subseteq Devices /\ live \cap dead = {}
    /\ m_Attached \cup m_Active \cup m_Run \cup m_Client \subseteq live \cup dead
    /\ m_Configured \cup m_Failed \cup changed \subseteq live \cup dead
    /\ pc \in {"idle", "close", "ports", "retire", "callbacks", "register",
               "configure", "start", "started"}
    /\ then \in {"idle", "attach"}
    /\ cur \in live \cup dead \cup {NoDevice}
    /\ retiring \cup aware \subseteq Devices
    /\ server \in BOOLEAN
    /\ activated \cup heard \cup lost \cup discarded \cup told \cup telling
          \cup calling \subseteq m_Client

\* The places where control changes the port maps, the queues or the callback
\* of its device.
Rebuilding(d) == cur = d /\ pc \in {"ports", "callbacks", "register", "configure", "start"}

\* "Stop the polling worker, then detach the native client before freeing or
\* reconfiguring its queues" (AUDIO-TRANSPORT.md): no process callback is in
\* the port maps or the queues while control rebuilds them, and none outlives
\* its device.
CallbackAlone == \A d \in calling : d \in live \cup dead /\ ~Rebuilding(d)

\* When control is done, a client that counts as attached was activated, so
\* that its callbacks run, and has not been told that its server is gone: the
\* notice that comes before Attach has set m_Attached (JackClient.cpp:174) is
\* not lost for good.  What libjack discarded unnoticed is excepted.
AttachedIsRunning ==
    pc = "idle" => m_Attached \ discarded \subseteq activated \ told

\* "Retire every stale handle before attempting it, so another wrapper cannot
\* later close an already destroyed client" (JackClient.cpp:142): a failed open
\* discards no client that knew of the shutdown when the loop began.
StaleHandlesRetired == [][discarded' \cap aware \subseteq discarded]_jackvars

\* The timeline asks only streams of devices that are alive, and its master is
\* one of them (AudioTimeline::Unregister, ::MasterClient).
MasterIsThere == m_Streams \subseteq live /\ m_Master \in m_Streams \cup {NoDevice}

\* A stream that failed, or whose period changed, is reopened or given up
\* ("short I/O fails the stream so control can reopen it", AUDIO-TRANSPORT.md).
TroubleIsServed ==
    \A d \in Devices : []<>(d \notin m_Attached \cap (m_Failed \cup changed))
=============================================================================
