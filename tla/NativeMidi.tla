----------------------------- MODULE NativeMidi -----------------------------
(***************************************************************************)
(* NativeMidiBackend (NativeMidi.cpp): a worker thread between the engine, *)
(* which sends and polls packets through two queues and never blocks, the  *)
(* control thread, which selects the port, and a transport whose link and  *)
(* service come and go.                                                    *)
(*                                                                         *)
(* MidiDevice gives one name for source and destination.  A note stands    *)
(* for whatever Track remembers: a note of a channel, or its pedal.  The   *)
(* synthesizer at the other end is the set of the notes that sound there;  *)
(* what sounds behind a link that is lost is out of the program's reach,   *)
(* and is silenced here.                                                   *)
(***************************************************************************)
EXTENDS Naturals, SequencesExt

CONSTANTS Notes, Ports,
          NoPort,        \* the empty name
          NoEpoch,       \* ~0u, before the first connection
          Capacity,      \* packets a queue holds (1023)
          ConnectClears, \* a transport whose Connect drops what it has taken
                         \* in (JACK, ALSA, OSS), or not (CoreMIDI)
          MaxSelects,    \* bound: changes of the port
          MaxFaults      \* bound: losses, failed calls of the transport

ASSUME MidiAssumption == /\ NoPort \in Ports
                         /\ Capacity \in Nat \ {0}
                         /\ ConnectClears \in BOOLEAN
                         /\ NoEpoch \notin Nat

VARIABLES
    outgoing, incoming,    \* the two queues
    ready, reset, overflow, stop,
    epoch, device,         \* what is selected
    pc,                    \* the worker
    name, desired,         \* its copy of device and epoch
    active, connected,     \* what it has connected
    notes,                 \* what it has to release
    service, link, up,     \* the transport: server there, port, link holds
    held,                  \* its input: packets may be waiting there that came
                           \* while one of these ports was connected
    call,                  \* the engine's Send under way
    sounding,              \* history: port |-> notes that sound there
    pressed,               \* history: notes the engine has not ended
    excused,               \* history: <<port, note>> that could not be ended
    selected,              \* history: epoch |-> device
    faults

control == <<stop, epoch, device, selected>>
worker == <<pc, name, desired, active, connected, notes>>
transport == <<service, link, up, held>>
flags == <<ready, reset, overflow>>
engine == <<call, pressed>>
vars == <<outgoing, incoming, flags, control, worker, transport, engine,
          sounding, excused, faults>>

Idle == [at |-> "idle"]

Init == /\ outgoing = << >> /\ incoming = << >>
        /\ ready = FALSE /\ reset = FALSE /\ overflow = FALSE /\ stop = FALSE
        /\ epoch = 0 /\ device = NoPort /\ selected = [e \in {0} |-> NoPort]
        /\ pc = "open" /\ name = NoPort /\ desired = 0
        /\ active = NoEpoch /\ connected = FALSE /\ notes = {}
        /\ service \in BOOLEAN /\ link = NoPort /\ up = FALSE /\ held = {NoPort}
        /\ call = Idle /\ pressed = {}
        /\ sounding = [p \in Ports |-> {}] /\ excused = {}
        /\ faults = 0

-----------------------------------------------------------------------------
(* Control: Select, and the end of the backend, which MidiDevice begins     *)
(* with its mutex held: no Send is under way.                               *)

Select(p) == /\ ~stop /\ p # device /\ epoch < MaxSelects
             /\ ready' = FALSE
             /\ device' = p /\ epoch' = epoch + 1
             /\ selected' = [e \in 0..epoch' |-> IF e = epoch' THEN p ELSE selected[e]]
             /\ UNCHANGED <<outgoing, incoming, reset, overflow, stop, worker,
                            transport, engine, sounding, excused, faults>>

Destroy == /\ call = Idle
           /\ stop' = TRUE
           /\ UNCHANGED <<outgoing, incoming, flags, epoch, device, selected,
                          worker, transport, engine, sounding, excused, faults>>

-----------------------------------------------------------------------------
(* The engine.  Whatever Send returns, the devices take a note for begun    *)
(* and ended when they have called it.                                      *)

\* The test of ready.
SendTest(n) ==
    /\ call = Idle /\ ~stop
    /\ LET on == n \notin pressed
       IN  /\ pressed' = IF on THEN pressed \cup {n} ELSE pressed \ {n}
           /\ call' = IF ready THEN [at |-> "stamp", on |-> on, note |-> n]
                      ELSE Idle
    /\ UNCHANGED <<outgoing, incoming, flags, control, worker, transport,
                   sounding, excused, faults>>

SendStamp ==
    /\ call.at = "stamp"
    /\ call' = [at |-> "push",
                packet |-> [on |-> call.on, note |-> call.note,
                            epoch |-> epoch, late |-> FALSE]]
    /\ UNCHANGED <<outgoing, incoming, flags, control, worker, transport,
                   pressed, sounding, excused, faults>>

\* The worker has emptied the queue and not yet raised ready again.
Reconnecting == pc \in {"panic", "connect", "raise"}

SendPush ==
    /\ call.at = "push" /\ call' = Idle
    /\ IF Len(outgoing) < Capacity
       THEN /\ outgoing' = Append(outgoing,
                               [call.packet EXCEPT !.late = Reconnecting])
            /\ UNCHANGED overflow
       ELSE overflow' = TRUE /\ UNCHANGED outgoing
    /\ UNCHANGED <<incoming, ready, reset, control, worker, transport, pressed,
                   sounding, excused, faults>>

\* Poll, when a reset is due: the notes the engine knew are gone.
PollReset == /\ reset /\ reset' = FALSE
             /\ incoming' = << >>
             /\ UNCHANGED <<outgoing, ready, overflow, control, worker,
                            transport, engine, sounding, excused, faults>>

\* One pop of Poll, which returns the packet if Polled, else goes on.
Polled == Head(incoming).epoch = epoch

PollPop == /\ incoming # << >> /\ incoming' = Tail(incoming)
           /\ UNCHANGED <<outgoing, flags, control, worker, transport, engine,
                          sounding, excused, faults>>

-----------------------------------------------------------------------------
(* The transport's surroundings.                                            *)

Fault == faults < MaxFaults /\ faults' = faults + 1

LinkLost == /\ up /\ link # NoPort /\ Fault
            /\ up' = FALSE /\ sounding' = [sounding EXCEPT ![link] = {}]
            /\ UNCHANGED <<outgoing, incoming, flags, control, worker, service,
                           link, held, engine, excused>>

ServiceLost == /\ service /\ Fault /\ service' = FALSE
               /\ up' = FALSE /\ sounding' = [p \in Ports |-> {}]
               /\ UNCHANGED <<outgoing, incoming, flags, control, worker, link,
                              held, engine, excused>>

ServiceStarts == /\ ~service /\ service' = TRUE
                 /\ UNCHANGED <<outgoing, incoming, flags, control, worker,
                                link, up, held, engine, sounding, excused,
                                faults>>

Reaches == up /\ link # NoPort

-----------------------------------------------------------------------------
(* The worker.                                                              *)

At(l) == pc = l
Goto(l) == pc' = l

\* Panic releases what is tracked.  A release that fails twice, or that the
\* deadline cuts off, is forgotten all the same.
Panic ==
    /\ notes' = {}
    /\ \E lost \in SUBSET (IF Reaches THEN notes ELSE {}) :
          /\ \/ lost = {} /\ UNCHANGED faults
             \/ lost # {} /\ Fault
          /\ sounding' = IF Reaches
                         THEN [sounding EXCEPT ![link] = @ \ (notes \ lost)]
                         ELSE sounding
          /\ excused' = excused \cup {<<link, n>> : n \in lost}

Open == /\ At("open")
        /\ IF stop THEN Goto("stopped") /\ UNCHANGED <<active, connected>>
           ELSE IF service
           THEN Goto("top") /\ active' = NoEpoch /\ connected' = FALSE
           ELSE Goto("close") /\ UNCHANGED <<active, connected>>
        /\ UNCHANGED <<outgoing, incoming, flags, control, name, desired, notes,
                       transport, engine, sounding, excused, faults>>

\* The top of the loop: device and epoch are read under the mutex.
Top == /\ At("top")
       /\ IF stop \/ ~service
          THEN Goto("exit") /\ UNCHANGED <<name, desired>>
          ELSE Goto("check") /\ name' = device /\ desired' = epoch
       /\ UNCHANGED <<outgoing, incoming, flags, control, active, connected,
                      notes, transport, engine, sounding, excused, faults>>

\* A backend that connects only when another port is selected.
StaleEpochOnly == active # desired

Stale == active # desired \/ ~connected \/ ~up

\* The ports are looked at when the epoch has changed, and now and then.
Check == /\ At("check")
         /\ IF Stale THEN Goto("drain") /\ ready' = FALSE
            ELSE Goto("overflow") /\ UNCHANGED ready
         /\ UNCHANGED <<outgoing, incoming, reset, overflow, control, name,
                        desired, active, connected, notes, transport, engine,
                        sounding, excused, faults>>

\* Fewer than 250 turns since the last look.
SkipCheck == /\ At("check") /\ active = desired
             /\ Goto("overflow")
             /\ UNCHANGED <<outgoing, incoming, flags, control, name, desired,
                            active, connected, notes, transport, engine,
                            sounding, excused, faults>>

\* A backend that leaves the queue as it is.
DrainNothing == /\ \/ At("drain") /\ Goto("panic")
                   \/ At("drop") /\ Goto("release")
                /\ UNCHANGED <<outgoing, incoming, flags, control, name,
                               desired, active, connected, notes, transport,
                               engine, sounding, excused, faults>>

\* The queue is emptied: before a new connection, and after an overflow.
Drain == /\ \/ At("drain") /\ Goto("panic")
            \/ At("drop") /\ Goto("release")
         /\ outgoing' = << >>
         /\ UNCHANGED <<incoming, flags, control, name, desired, active,
                        connected, notes, transport, engine, sounding, excused,
                        faults>>

Release == /\ \/ At("panic") /\ Goto("connect")
              \/ At("release") /\ Goto("send")
              \/ At("exit") /\ Goto("close")
           /\ Panic
           /\ UNCHANGED <<outgoing, incoming, flags, control, name, desired,
                          active, connected, transport, engine>>

Connect ==
    /\ At("connect")
    /\ \/ connected' = service /\ UNCHANGED faults
       \/ connected' = FALSE /\ Fault
    /\ up' = connected'
    /\ link' = name /\ active' = desired
    /\ held' = IF ConnectClears THEN {name} ELSE held \cup {name}
    /\ reset' = TRUE /\ Goto("raise")
    /\ UNCHANGED <<outgoing, incoming, ready, overflow, control, name, desired,
                   notes, service, engine, sounding, excused>>

Raise == /\ At("raise") /\ Goto("overflow")
         /\ ready' = (connected /\ name # NoPort)
         /\ UNCHANGED <<outgoing, incoming, reset, overflow, control, name,
                        desired, active, connected, notes, transport, engine,
                        sounding, excused, faults>>

TakeOverflow == /\ At("overflow") /\ overflow' = FALSE
                /\ Goto(IF overflow THEN "drop" ELSE "send")
                /\ UNCHANGED <<outgoing, incoming, ready, reset, control, name,
                               desired, active, connected, notes, transport,
                               engine, sounding, excused, faults>>

\* One packet of the batch.  A write that fails counts as an overflow.
Written(p) ==
    /\ notes' = IF p.on THEN notes \cup {p.note} ELSE notes \ {p.note}
    /\ sounding' = [sounding EXCEPT ![link] =
                       IF p.on THEN @ \cup {p.note} ELSE @ \ {p.note}]
    /\ excused' = IF p.on /\ p.late THEN excused \cup {<<link, p.note>>}
                  ELSE excused \ {<<link, p.note>>}
    /\ UNCHANGED <<overflow, faults>>

NotWritten == overflow' = TRUE /\ UNCHANGED <<notes, sounding, excused>>

Send ==
    /\ At("send") /\ outgoing # << >> /\ outgoing' = Tail(outgoing)
    /\ LET p == Head(outgoing)
       IN  IF p.epoch # active \/ name = NoPort
           THEN UNCHANGED <<notes, sounding, excused, overflow, faults>>
           ELSE \/ Reaches /\ Written(p)
                \/ ~Reaches /\ NotWritten /\ UNCHANGED faults
                \/ Reaches /\ NotWritten /\ Fault
    /\ UNCHANGED <<incoming, ready, reset, control, pc, name, desired, active,
                   connected, transport, engine>>

\* The end of the batch: of 256 packets, or of the queue.
SendDone == /\ At("send") /\ Goto("read")
            /\ UNCHANGED <<outgoing, incoming, flags, control, name, desired,
                           active, connected, notes, transport, engine,
                           sounding, excused, faults>>

\* A worker that stamps what it reads with the epoch of the moment.
ReadStampedLate ==
        /\ At("read")
        /\ \E via \in held :
              IF Len(incoming) < Capacity
              THEN /\ incoming' = Append(incoming,
                               [via |-> via, read |-> link, epoch |-> epoch])
                   /\ UNCHANGED reset
              ELSE reset' = TRUE /\ UNCHANGED incoming
        /\ UNCHANGED <<outgoing, ready, overflow, control, worker, transport,
                       engine, sounding, excused, faults>>

\* A packet that the transport has taken in, whoever sent it: other programs
\* may connect themselves to the input (JACK) or send to it (CoreMIDI), with no
\* port selected or none that could be connected.  It is lost when the queue is
\* full.
Read == /\ At("read")
        /\ \E via \in held :
              IF Len(incoming) < Capacity
              THEN /\ incoming' = Append(incoming,
                               [via |-> via, read |-> link, epoch |-> active])
                   /\ UNCHANGED reset
              ELSE reset' = TRUE /\ UNCHANGED incoming
        /\ UNCHANGED <<outgoing, ready, overflow, control, worker, transport,
                       engine, sounding, excused, faults>>

\* LostInput, and the end of the turn.
ReadDone == /\ At("read") /\ Goto("top")
            /\ reset' \in {reset, TRUE}
            /\ UNCHANGED <<outgoing, incoming, ready, overflow, control, name,
                           desired, active, connected, notes, transport, engine,
                           sounding, excused, faults>>

\* The transport throws from Connect or Read: no Panic.
Throw == /\ pc \in {"connect", "read"} /\ Fault
         /\ Goto("close")
         /\ excused' = excused \cup {<<link, n>> : n \in notes}
         /\ UNCHANGED <<outgoing, incoming, flags, control, name, desired,
                        active, connected, notes, transport, engine, sounding>>

Close == /\ At("close") /\ Goto("open")
         /\ ready' = FALSE /\ reset' = TRUE /\ notes' = {}
         /\ link' = NoPort /\ up' = FALSE /\ held' = {NoPort}
         /\ UNCHANGED <<outgoing, incoming, overflow, control, name, desired,
                        active, connected, service, engine, sounding, excused,
                        faults>>

\* MidiDevice makes a new backend when the worker has ended, and selects.
Reopen == /\ At("stopped")
          /\ outgoing' = << >> /\ incoming' = << >>
          /\ ready' = FALSE /\ reset' = FALSE /\ overflow' = FALSE
          /\ stop' = FALSE
          /\ Goto("open") /\ active' = NoEpoch /\ connected' = FALSE
          /\ UNCHANGED <<epoch, device, selected, name, desired, notes,
                         transport, engine, sounding, excused, faults>>

Worker == \/ Open \/ Top \/ Check \/ SkipCheck \/ Drain \/ Release \/ Connect
          \/ Raise \/ TakeOverflow \/ Send \/ SendDone \/ Read \/ ReadDone
          \/ Throw \/ Close

Next == \/ \E p \in Ports : Select(p)
        \/ Destroy \/ Reopen
        \/ \E n \in Notes : SendTest(n)
        \/ SendStamp \/ SendPush \/ PollReset \/ PollPop
        \/ LinkLost \/ ServiceLost \/ ServiceStarts
        \/ Worker

\* The worker's thread runs; every 250 turns it looks at the ports; a batch
\* ends after 256 packets, written or read.
Fairness == /\ WF_vars(Worker)
            /\ SF_vars(Check) /\ SF_vars(SendDone) /\ SF_vars(ReadDone)

Spec == Init /\ [][Next]_vars /\ Fairness

-----------------------------------------------------------------------------
(* The synthesizers play nothing the engine has ended: when the worker is   *)
(* through with the queue, every note that sounds at the selected port is   *)
(* held by the engine, and nothing sounds at any other or after the end.    *)
(* Refused, dropped and overflowed releases included; excused are releases  *)
(* the transport would not take, and a note that slips into the queue after *)
(* it was emptied for a new connection (NativeMidi.cpp:105).                *)
Settled == /\ pc = "top" /\ active = epoch
           /\ outgoing = << >> /\ ~overflow /\ call = Idle

NoNoteHangs ==
    \A p \in Ports :
        LET hanging == {n \in sounding[p] : <<p, n>> \notin excused}
        IN  /\ Settled => hanging \subseteq (IF p = link THEN pressed ELSE {})
            /\ At("stopped") => hanging = {}

(* A packet reaches the port that was selected when the engine sent it      *)
(* (NativeMidi.cpp:131).  The engine is handed none that the worker read    *)
(* under the connection of another selection than the one of that moment    *)
(* (:140, :201), nor, where Connect drops what has arrived, one that the    *)
(* transport took in under another.  With CoreMIDI, whose Connect does not, *)
(* what the old source sent just before is read afterwards and counts for   *)
(* the new one.                                                             *)
PacketsKeepTheirPort ==
    [][/\ Send => \/ UNCHANGED sounding
                  \/ link = selected[Head(outgoing).epoch]
       /\ PollPop /\ Polled =>
              /\ Head(incoming).read = device
              /\ ConnectClears => Head(incoming).via = device]_vars

(* Once the transport stops failing, a selected port is opened again, and   *)
(* the engine may send (NativeMidi.cpp:103, :167).                          *)
OpensAgain == <>[](service /\ ~stop) => <>[](ready \/ device = NoPort)
=============================================================================
