-------------------------- MODULE NativeMidiProofs --------------------------
(***************************************************************************)
(* Proofs about NativeMidi, for any ports, notes and sizes of the queues:  *)
(* what is sent, connected and received keeps to the port of its epoch,    *)
(* and no note is left sounding that the engine has ended.                 *)
(***************************************************************************)
EXTENDS NativeMidi, TLAPS

Packets == [on : BOOLEAN, note : Notes, epoch : Nat, late : BOOLEAN]
Received == [via : Ports, read : Ports, epoch : Nat]

\* Epochs are counted by Select, and selected remembers the port of each.
Selected == /\ epoch \in Nat
            /\ DOMAIN selected = 0..epoch
            /\ \A e \in 0..epoch : selected[e] \in Ports
            /\ selected[epoch] = device

\* No packet is of an epoch to come; what was received was read while the port
\* of its epoch was connected, and came then where Connect clears the input.
OfItsPort(packet) ==
    /\ packet.epoch <= epoch
    /\ packet.read = selected[packet.epoch]
    /\ ConnectClears => packet.via = packet.read

Queued == /\ outgoing \in Seq(Packets) /\ incoming \in Seq(Received)
          /\ \A k \in 1..Len(incoming) : OfItsPort(incoming[k])
          /\ call = Idle \/ call \in [at : {"stamp"}, on : BOOLEAN, note : Notes]
                \/ call \in [at : {"push"}, packet : Packets]

\* The port that is linked is that of the active epoch, from the connection
\* to the end of the session; before the first one there is no active epoch.
LinkIsActive == active \in 0..epoch /\ link = selected[active]

BeforeConnection == {"top", "check", "drain", "panic", "connect", "exit"}
Connected == {"raise", "overflow", "drop", "release", "send", "read"}

Linked ==
    /\ pc \in BeforeConnection \cup Connected \cup {"open", "close", "stopped"}
    /\ pc \in BeforeConnection => active = NoEpoch \/ LinkIsActive
    /\ pc \in Connected => LinkIsActive
    /\ pc \in {"check", "drain", "panic", "connect"} =>
          desired \in 0..epoch /\ name = selected[desired]
    /\ held \subseteq Ports
    /\ ConnectClears => held \subseteq {link}

Inv == Selected /\ Queued /\ Linked

-----------------------------------------------------------------------------
LEMMA InitInv == Init => Inv
<1> SUFFICES ASSUME Init PROVE Inv
  OBVIOUS
<1>1. Selected
  BY MidiAssumption DEF Init, Selected
<1>2. Queued
  BY DEF Init, Queued
<1>3. Linked
  BY MidiAssumption DEF Init, Linked, BeforeConnection, Connected
<1> QED BY <1>1, <1>2, <1>3 DEF Inv

\* One step of the three threads, the transport or its surroundings.
LEMMA NextInv == Inv /\ [Next]_vars => Inv'
<1> SUFFICES ASSUME Inv, [Next]_vars PROVE Inv'
  OBVIOUS
<1> USE DEF Inv
<1>1. ASSUME NEW p \in Ports, Select(p) PROVE Inv'
  <2>1. epoch' = epoch + 1 /\ epoch' \in Nat
    BY <1>1 DEF Select, Selected
  <2>2. \A e \in 0..epoch : selected'[e] = selected[e]
    BY <1>1, <2>1 DEF Select, Selected
  <2>3. Selected'
    BY <1>1, <2>1, <2>2 DEF Select, Selected
  <2>4. Queued'
    <3>1. UNCHANGED <<outgoing, incoming, call>>
      BY <1>1 DEF Select, engine
    <3>2. \A k \in 1..Len(incoming) : incoming[k].epoch \in Nat
      <4> SUFFICES ASSUME NEW k \in 1..Len(incoming)
                   PROVE  incoming[k].epoch \in Nat
        OBVIOUS
      <4>1. incoming[k] \in Received
        BY DEF Queued
      <4> QED BY <4>1 DEF Received
    <3>3. \A k \in 1..Len(incoming) :
             incoming[k].epoch \in 0..epoch /\ incoming[k].epoch <= epoch'
      BY <2>1, <3>2 DEF Queued, Selected, OfItsPort
    <3> QED BY <3>1, <3>3, <2>2 DEF Queued, OfItsPort
  <2>5. Linked'
    BY <1>1, <2>1, <2>2, MidiAssumption
    DEF Select, Selected, Linked, LinkIsActive, worker, transport
  <2> QED BY <2>3, <2>4, <2>5
<1>2. ASSUME UNCHANGED control PROVE Selected'
  BY <1>2 DEF control, Selected
<1>3. ASSUME UNCHANGED <<control, outgoing, incoming, call>> PROVE Queued'
  BY <1>3 DEF control, Queued, OfItsPort
<1>4. ASSUME UNCHANGED <<control, worker, transport>> PROVE Linked'
  BY <1>4 DEF control, worker, transport, Linked, LinkIsActive
<1>5. CASE Destroy
  <2>1. Selected' /\ Queued'
    BY <1>5 DEF Destroy, engine, Selected, Queued, OfItsPort
  <2>2. Linked'
    BY <1>5 DEF Destroy, worker, transport, Linked, LinkIsActive
  <2> QED BY <2>1, <2>2
<1>6. CASE Reopen
  <2>1. Selected' /\ Queued'
    BY <1>6 DEF Reopen, engine, Selected, Queued, OfItsPort
  <2>2. Linked'
    BY <1>6 DEF Reopen, transport, Linked, BeforeConnection, Connected, At, Goto
  <2> QED BY <2>1, <2>2
<1>7. ASSUME NEW n \in Notes, SendTest(n) PROVE Inv'
  <2>1. Queued'
    BY <1>7 DEF SendTest, Queued, OfItsPort, control, Idle
  <2>2. Selected' /\ Linked'
    BY <1>7 DEF SendTest, control, worker, transport, Selected, Linked, LinkIsActive
  <2> QED BY <2>1, <2>2
<1>8. CASE SendStamp
  <2>1. call \in [at : {"stamp"}, on : BOOLEAN, note : Notes]
    BY <1>8 DEF SendStamp, Queued, Idle
  <2>2. Queued'
    BY <1>8, <2>1 DEF SendStamp, Queued, OfItsPort, control, Selected, Packets
  <2>3. Selected' /\ Linked'
    BY <1>8 DEF SendStamp, control, worker, transport, Selected, Linked, LinkIsActive
  <2> QED BY <2>2, <2>3
<1>9. CASE SendPush
  <2>1. call.packet \in Packets /\ Reconnecting \in BOOLEAN
    BY <1>9 DEF SendPush, Queued, Idle, Reconnecting
  <2>2. outgoing' \in Seq(Packets)
    <3>1. [call.packet EXCEPT !.late = Reconnecting] \in Packets
      BY <2>1 DEF Packets
    <3>2. \/ outgoing' = outgoing
          \/ outgoing' = Append(outgoing,
                             [call.packet EXCEPT !.late = Reconnecting])
      BY <1>9 DEF SendPush
    <3> QED BY <3>1, <3>2 DEF Queued
  <2>3. Queued'
    BY <1>9, <2>2 DEF SendPush, Queued, OfItsPort, control
  <2>4. Selected' /\ Linked'
    BY <1>9 DEF SendPush, control, worker, transport, Selected, Linked, LinkIsActive
  <2> QED BY <2>3, <2>4
<1>10. CASE PollReset
  <2>1. Queued'
    BY <1>10 DEF PollReset, Queued, OfItsPort, control, engine
  <2>2. Selected' /\ Linked'
    BY <1>10 DEF PollReset, control, worker, transport, Selected, Linked, LinkIsActive
  <2> QED BY <2>1, <2>2
<1>11. CASE PollPop
  <2>1. Queued'
    BY <1>11 DEF PollPop, Queued, OfItsPort, control, engine
  <2>2. Selected' /\ Linked'
    BY <1>11 DEF PollPop, control, worker, transport, Selected, Linked, LinkIsActive
  <2> QED BY <2>1, <2>2
<1>12. CASE LinkLost \/ ServiceLost \/ ServiceStarts
  <2>1. Queued' /\ Selected'
    BY <1>2, <1>3, <1>12 DEF LinkLost, ServiceLost, ServiceStarts, engine
  <2>2. Linked'
    BY <1>12 DEF LinkLost, ServiceLost, ServiceStarts, control, worker, Linked,
                 LinkIsActive
  <2> QED BY <2>1, <2>2
<1>13. CASE Worker
  <2>1. Selected'
    BY <1>2, <1>13
    DEF Worker, Open, Top, Check, SkipCheck, Drain, Release, Connect, Raise,
        TakeOverflow, Send, SendDone, Read, ReadDone, Throw, Close
  <2>2. Queued'
    <3>1. CASE Drain
      BY <1>13, <3>1 DEF Drain, Queued, OfItsPort, control, engine
    <3>2. CASE Send
      <4>1. outgoing' \in Seq(Packets)
        BY <3>2 DEF Send, Queued
      <4> QED BY <3>2, <4>1 DEF Send, Queued, OfItsPort, control, engine
    <3>3. CASE Read
      <4>1. LinkIsActive
        BY <3>3 DEF Read, At, Linked, Connected
      <4>2. PICK via \in held :
                \/ incoming' = incoming
                \/ incoming' = Append(incoming,
                                  [via |-> via, read |-> link, epoch |-> active])
        BY <3>3 DEF Read
      <4>3. UNCHANGED <<call, epoch, selected, outgoing>>
        BY <3>3 DEF Read, control, engine
      <4> DEFINE packet == [via |-> via, read |-> link, epoch |-> active]
      <4>4. packet \in Received /\ OfItsPort(packet)
        BY <4>1 DEF LinkIsActive, Linked, Selected, Received, OfItsPort
      <4> HIDE DEF packet
      <4>5. CASE incoming' = Append(incoming, packet)
        <5>1. incoming' \in Seq(Received) /\ Len(incoming') = Len(incoming) + 1
          BY <4>4, <4>5 DEF Queued
        <5>2. \A k \in 1..Len(incoming') :
                 incoming'[k] = IF k = Len(incoming) + 1 THEN packet
                                ELSE incoming[k]
          BY <4>4, <4>5 DEF Queued
        <5> QED BY <4>3, <4>4, <5>1, <5>2 DEF Queued, OfItsPort
      <4>6. CASE incoming' = incoming
        BY <4>3, <4>6 DEF Queued, OfItsPort
      <4> QED BY <4>2, <4>5, <4>6 DEF packet
    <3>4. CASE ~(Drain \/ Send \/ Read)
      BY <1>3, <1>13, <3>4
      DEF Worker, Open, Top, Check, SkipCheck, Release, Connect, Raise,
          TakeOverflow, SendDone, ReadDone, Throw, Close, engine
    <3> QED BY <3>1, <3>2, <3>3, <3>4
  <2>3. Linked'
    <3> USE MidiAssumption DEF Linked, LinkIsActive, BeforeConnection,
            Connected, control, transport, At, Goto
    <3>1. CASE Open
      BY <3>1 DEF Open
    <3>2. CASE Top
      BY <3>2 DEF Top, Selected
    <3>3. CASE Check \/ SkipCheck
      BY <3>3 DEF Check, SkipCheck, Stale
    <3>4. CASE Drain
      BY <3>4 DEF Drain
    <3>5. CASE Release
      BY <3>5 DEF Release
    <3>6. CASE Connect
      <4>1. name \in Ports
        BY <3>6 DEF Connect, Selected
      <4> QED BY <3>6, <4>1 DEF Connect
    <3>7. CASE Raise \/ TakeOverflow \/ SendDone \/ ReadDone
      BY <3>7 DEF Raise, TakeOverflow, SendDone, ReadDone
    <3>8. CASE Send \/ Read
      BY <3>8 DEF Send, Read, worker
    <3>9. CASE Throw \/ Close
      BY <3>9 DEF Throw, Close
    <3> QED BY <1>13, <3>1, <3>2, <3>3, <3>4, <3>5, <3>6, <3>7, <3>8, <3>9
            DEF Worker
  <2> QED BY <2>1, <2>2, <2>3
<1>14. CASE UNCHANGED vars
  BY <1>2, <1>3, <1>4, <1>14 DEF vars, engine
<1> QED
  BY <1>1, <1>5, <1>6, <1>7, <1>8, <1>9, <1>10, <1>11, <1>12, <1>13, <1>14
  DEF Next

\* A step of an invariant state keeps to the port of the packet's epoch.
LEMMA StepKeepsPort ==
  ASSUME Inv
  PROVE  /\ Send => \/ UNCHANGED sounding
                    \/ link = selected[Head(outgoing).epoch]
         /\ PollPop /\ Polled =>
                /\ Head(incoming).read = device
                /\ ConnectClears => Head(incoming).via = device
<1>1. ASSUME Send PROVE \/ UNCHANGED sounding
                        \/ link = selected[Head(outgoing).epoch]
  BY <1>1 DEF Inv, Send, At, Linked, Connected, LinkIsActive, NotWritten
<1>2. ASSUME PollPop, Polled
      PROVE  /\ Head(incoming).read = device
             /\ ConnectClears => Head(incoming).via = device
  <2>1. Len(incoming) > 0 /\ Head(incoming) = incoming[1]
    BY <1>2 DEF PollPop, Inv, Queued
  <2> QED BY <1>2, <2>1 DEF Polled, Inv, Queued, OfItsPort, Selected
<1> QED BY <1>1, <1>2

-----------------------------------------------------------------------------
\* The invariant holds throughout.
THEOREM Invariance == Spec => []Inv
<1>1. Init => Inv
  BY InitInv
<1>2. Inv /\ [Next]_vars => Inv'
  BY NextInv
<1> QED BY <1>1, <1>2, PTL DEF Spec

\* Packets reach the port they were sent for (NativeMidi.cpp:131), and none that
\* was read, or taken in by a transport whose Connect clears, under an earlier
\* selection is handed to the engine (:140, :201).
THEOREM PortsKept == Spec => PacketsKeepTheirPort
<1>1. Inv => [/\ Send => \/ UNCHANGED sounding
                         \/ link = selected[Head(outgoing).epoch]
              /\ PollPop /\ Polled =>
                     /\ Head(incoming).read = device
                     /\ ConnectClears => Head(incoming).via = device]_vars
  BY StepKeepsPort
<1> QED BY <1>1, Invariance, PTL DEF PacketsKeepTheirPort

-----------------------------------------------------------------------------
(* No note hangs.                                                          *)

\* What sounds at a port, the excused notes apart.
Hanging(p) == {n \in sounding[p] : <<p, n>> \notin excused}

Typed == /\ sounding \in [Ports -> SUBSET Notes] /\ notes \subseteq Notes
         /\ link \in Ports
         /\ ready \in BOOLEAN /\ overflow \in BOOLEAN
         /\ up \in BOOLEAN /\ connected \in BOOLEAN /\ service \in BOOLEAN

\* Only the linked port sounds, as long as it is reached, and only what the
\* worker tracks; nothing does when the link is made, or given up.
Silent == /\ up => connected
          /\ \A p \in Ports : p # link => Hanging(p) = {}
          /\ Hanging(link) \subseteq notes
          /\ ~Reaches => Hanging(link) = {}
          /\ pc \in {"connect", "raise", "open", "stopped"} => notes = {}
          /\ pc = "close" => Hanging(link) = {}
          /\ pc \in {"open", "stopped"} => link = NoPort /\ ~up

\* The worker's turn: what is queued while it reconnects is late, Send is
\* refused at no port that is reached but around a new connection, and the
\* name it tests is the link's.
Turning == /\ pc \in {"panic", "connect", "raise"} =>
                 \A k \in 1..Len(outgoing) : outgoing[k].late
           /\ ~ready /\ active = epoch /\ Reaches =>
                 pc \in {"drain", "panic", "connect", "raise", "close"}
           /\ pc \in Connected => name = link

\* The engine's call is about the last change of its note.
Pressing ==
    /\ call.at = "stamp" => call.on = (call.note \in pressed)
    /\ call.at = "push" => call.packet.on = (call.packet.note \in pressed)

Ends(packet, n) == ~packet.on /\ packet.note = n /\ packet.epoch = epoch

\* The end of n is on its way: at place i of the queue or behind it, or in the
\* engine's hands.
Pending(n, i) == \/ \E j \in i..Len(outgoing) : Ends(outgoing[j], n)
                 \/ call.at = "stamp" /\ ~call.on /\ call.note = n
                 \/ call.at = "push" /\ Ends(call.packet, n)

\* A note that sounds is held, or its end is on its way, or the worker will
\* release all that it tracks.
Ending ==
    Reaches /\ active = epoch =>
        \A n \in Hanging(link) :
            \/ n \in pressed \/ overflow
            \/ pc \in {"drop", "release", "drain", "panic"}
            \/ Pending(n, 1)

\* So is a note that is about to sound, or the queue will be emptied.
Begins(packet) == packet.on /\ ~packet.late /\ packet.epoch = epoch
                  /\ packet.note \notin pressed

Starting ==
    Reaches /\ active = epoch =>
        \A i \in 1..Len(outgoing) :
            Begins(outgoing[i]) =>
                \/ overflow \/ pc \in {"drop", "drain", "close"}
                \/ Pending(outgoing[i].note, i)

Sound == Typed /\ Silent /\ Turning /\ Pressing /\ Ending /\ Starting
IInv == Inv /\ Sound

LEMMA InitSound == Init => Sound
<1> SUFFICES ASSUME Init PROVE Sound
  OBVIOUS
<1>1. Typed
  BY MidiAssumption DEF Init, Typed
<1>2. \A p \in Ports : Hanging(p) = {}
  BY DEF Init, Hanging
<1>3. Silent
  BY <1>1, <1>2 DEF Init, Silent, Typed
<1>4. Turning /\ Pressing
  BY DEF Init, Turning, Pressing, Reaches, Connected, Idle
<1>5. Ending /\ Starting
  BY DEF Init, Ending, Starting, Reaches
<1> QED
  BY <1>1, <1>3, <1>4, <1>5 DEF Sound

\* The worker's Panic leaves nothing that sounds.
LEMMA PanicSilences ==
  ASSUME Typed, Silent, Panic, UNCHANGED link
  PROVE  /\ sounding' \in [Ports -> SUBSET Notes]
         /\ \A p \in Ports : Hanging(p)' = {}
<1>1. sounding' \in [Ports -> SUBSET Notes]
  BY DEF Panic, Typed
<1>2. ASSUME NEW p \in Ports PROVE Hanging(p)' = {}
  <2>1. CASE ~Reaches
    <3>1. sounding' = sounding /\ excused \subseteq excused'
      BY <2>1 DEF Panic
    <3> QED
      BY <2>1, <3>1 DEF Silent, Hanging
  <2>2. CASE Reaches
    <3>1. PICK lost \in SUBSET notes :
             /\ sounding' = [sounding EXCEPT ![link] = @ \ (notes \ lost)]
             /\ excused' = excused \cup {<<link, n>> : n \in lost}
      BY <2>2 DEF Panic
    <3>2. CASE p = link
      <4>1. sounding'[p] = sounding[p] \ (notes \ lost)
        BY <3>1, <3>2 DEF Typed
      <4>2. ASSUME NEW n \in sounding'[p], <<p, n>> \notin excused' PROVE FALSE
        <5>1. <<p, n>> \notin excused /\ n \notin lost
          BY <3>1, <3>2, <4>2
        <5>2. n \in Hanging(link)
          BY <3>2, <4>1, <5>1 DEF Hanging
        <5> QED
          BY <4>1, <5>1, <5>2 DEF Silent
      <4> QED
        BY <4>2 DEF Hanging
    <3>3. CASE p # link
      BY <3>1, <3>3 DEF Silent, Hanging, Typed
    <3> QED
      BY <3>2, <3>3
  <2> QED
    BY <2>1, <2>2
<1> QED
  BY <1>1, <1>2

\* What an action leaves that touches neither synthesizer nor link.
LEMMA SilentKeeps ==
  ASSUME Silent, UNCHANGED <<sounding, excused, link, up, connected, notes>>,
         \/ pc' = pc
         \/ pc' \notin {"connect", "raise", "open", "close", "stopped"}
  PROVE  Silent'
<1>1. \A p : Hanging(p)' = Hanging(p)
  BY DEF Hanging
<1> QED
  BY <1>1 DEF Silent, Reaches

\* What Send writes is tracked, or ends a note.
LEMMA WriteIsTracked ==
  ASSUME Typed, Silent, NEW packet \in Packets, Written(packet), UNCHANGED link
  PROVE  /\ sounding' \in [Ports -> SUBSET Notes] /\ notes' \subseteq Notes
         /\ \A p \in Ports : p # link => Hanging(p)' = {}
         /\ Hanging(link)' = IF ~packet.on THEN Hanging(link) \ {packet.note}
                             ELSE IF packet.late
                             THEN Hanging(link) \ {packet.note}
                             ELSE Hanging(link) \cup {packet.note}
         /\ Hanging(link)' \subseteq notes'
<1> DEFINE n == packet.note
<1>1. n \in Notes /\ packet.on \in BOOLEAN /\ packet.late \in BOOLEAN
  BY DEF Packets
<1>2. sounding' \in [Ports -> SUBSET Notes] /\ notes' \subseteq Notes
  BY <1>1 DEF Written, Typed
<1>3. \A p \in Ports : p # link => sounding'[p] = sounding[p]
  BY DEF Written, Typed
<1>4. sounding'[link] = IF packet.on THEN sounding[link] \cup {n}
                        ELSE sounding[link] \ {n}
  BY DEF Written, Typed
<1>5. \A p, m : <<p, m>> \in excused' <=>
                   IF p = link /\ m = n THEN packet.on /\ packet.late
                   ELSE <<p, m>> \in excused
  BY DEF Written
<1>6. \A p \in Ports : p # link => Hanging(p)' = {}
  BY <1>3, <1>5 DEF Silent, Hanging
<1>7. \A m : m \in Hanging(link)' <=> m \in sounding'[link] /\ <<link, m>> \notin excused'
  <2>1. Hanging(link)' = {m \in sounding'[link] : <<link, m>> \notin excused'}
    BY DEF Hanging, Written
  <2> QED  BY <2>1
<1>8. \A m : m \in Hanging(link) <=> m \in sounding[link] /\ <<link, m>> \notin excused
  BY DEF Hanging
<1>9. Hanging(link)' = IF ~packet.on THEN Hanging(link) \ {n}
                       ELSE IF packet.late THEN Hanging(link) \ {n}
                       ELSE Hanging(link) \cup {n}
  <2>1. \A m : m \in Hanging(link)' <=>
                 IF m = n THEN packet.on /\ ~packet.late
                 ELSE m \in Hanging(link)
    BY <1>1, <1>4, <1>5, <1>7, <1>8
  <2> QED  BY <1>1, <2>1
<1>10. notes' = IF packet.on THEN notes \cup {n} ELSE notes \ {n}
  BY DEF Written
<1>11. Hanging(link)' \subseteq notes'
  BY <1>1, <1>9, <1>10 DEF Silent
<1> QED
  BY <1>2, <1>6, <1>9, <1>11

\* The steps that end a session, and those that make or lose the link.
LEMMA SilentNext == IInv /\ [Next]_vars => Typed' /\ Silent'
<1> SUFFICES ASSUME IInv, [Next]_vars PROVE Typed' /\ Silent'
  OBVIOUS
<1> USE DEF IInv, Sound
<1>1. ASSUME UNCHANGED <<worker, transport, sounding, excused>>,
             ready' \in BOOLEAN, overflow' \in BOOLEAN
      PROVE  Typed' /\ Silent'
  <2>1. Silent'
    BY <1>1, SilentKeeps DEF worker, transport
  <2> QED
    BY <1>1, <2>1 DEF Typed, worker, transport
<1>2. CASE \/ \E p \in Ports : Select(p)
           \/ Destroy \/ SendStamp \/ SendPush \/ PollReset \/ PollPop
           \/ \E n \in Notes : SendTest(n)
  BY <1>1, <1>2 DEF Typed, Select, Destroy, SendStamp, SendPush, PollReset, PollPop,
     SendTest, flags
<1>3. CASE Reopen
  <2>1. \A p : Hanging(p)' = Hanging(p)
    BY <1>3 DEF Reopen, Hanging
  <2>2. pc = "stopped" /\ pc' = "open" /\ UNCHANGED <<link, up, notes, sounding, service>>
    BY <1>3 DEF Reopen, At, Goto, transport
  <2>3. Silent'
    BY <1>3, <2>1, <2>2 DEF Reopen, Silent, Reaches
  <2> QED
    BY <1>3, <2>2, <2>3 DEF Reopen, Typed
<1>4. CASE LinkLost
  <2>1. /\ \A p \in Ports : Hanging(p)' = IF p = link THEN {} ELSE Hanging(p)
        /\ sounding' \in [Ports -> SUBSET Notes]
    BY <1>4 DEF LinkLost, Hanging, Typed
  <2> QED
    BY <1>4, <2>1 DEF LinkLost, Silent, Typed, Reaches, worker, flags
<1>5. CASE ServiceLost
  <2>1. /\ \A p \in Ports : Hanging(p)' = {}
        /\ sounding' \in [Ports -> SUBSET Notes]
    BY <1>5 DEF ServiceLost, Hanging
  <2> QED
    BY <1>5, <2>1 DEF ServiceLost, Silent, Typed, Reaches, worker, flags
<1>6. CASE ServiceStarts
  <2>1. Silent'
    BY <1>6, SilentKeeps DEF ServiceStarts, worker
  <2> QED
    BY <1>6, <2>1 DEF ServiceStarts, Typed, worker, flags
<1>7. CASE Worker
  <2>1. CASE \/ Top \/ Check \/ SkipCheck \/ Drain \/ TakeOverflow
             \/ SendDone \/ Read \/ ReadDone
    <3>1. UNCHANGED <<sounding, excused, link, up, connected, notes, service>>
      BY <2>1 DEF Top, Check, SkipCheck, Drain, TakeOverflow, SendDone, Read,
         ReadDone, transport, worker
    <3>2. \/ pc' = pc
          \/ pc' \notin {"connect", "raise", "open", "close", "stopped"}
      BY <2>1 DEF Top, Check, SkipCheck, Drain, TakeOverflow, SendDone, Read,
         ReadDone, worker, Goto
    <3>3. ready' \in BOOLEAN /\ overflow' \in BOOLEAN
      BY <2>1 DEF Top, Check, SkipCheck, Drain, TakeOverflow, SendDone, Read,
         ReadDone, flags, Typed
    <3> QED
      BY <3>1, <3>2, <3>3, SilentKeeps DEF Typed
  <2>2. CASE Open
    <3>1. \A p : Hanging(p)' = Hanging(p)
      BY <2>2 DEF Open, Hanging
    <3> QED
      BY <2>2, <3>1 DEF Open, At, Goto, Silent, Typed, Reaches, transport, flags
  <2>3. CASE Release
    <3>1. /\ sounding' \in [Ports -> SUBSET Notes]
          /\ \A p \in Ports : Hanging(p)' = {}
      BY <2>3, PanicSilences DEF Release, transport
    <3>2. notes' = {} /\ UNCHANGED <<link, up, connected, service, ready, overflow>>
          /\ pc' \in {"connect", "send", "close"}
      BY <2>3 DEF Release, Panic, transport, flags, Goto
    <3>3. Hanging(link)' = {}
      BY <3>1, <3>2 DEF Typed
    <3> QED
      BY <3>1, <3>2, <3>3 DEF Silent, Typed
  <2>4. CASE Connect
    <3>1. \A p \in Ports : Hanging(p) = {} /\ Hanging(p)' = {}
      BY <2>4 DEF Connect, At, Silent, Hanging
    <3>2. name \in Ports
      BY <2>4 DEF Connect, At, Inv, Linked, Selected
    <3>3. /\ link' = name /\ notes' = {} /\ pc' = "raise" /\ up' = connected'
          /\ up' \in BOOLEAN /\ UNCHANGED <<sounding, notes, service, ready, overflow>>
      BY <2>4 DEF Connect, At, Goto, Silent, Typed
    <3> QED
      BY <3>1, <3>2, <3>3 DEF Silent, Typed
  <2>5. CASE Raise
    <3>1. UNCHANGED <<sounding, excused, link, up, connected, notes, service, overflow>>
          /\ pc' = "overflow" /\ ready' \in BOOLEAN
      BY <2>5 DEF Raise, Goto, transport
    <3> QED
      BY <3>1, SilentKeeps DEF Typed
  <2>6. CASE Send
    <3>1. Head(outgoing) \in Packets /\ UNCHANGED <<pc, link, up, connected, service, ready>>
      BY <2>6 DEF Send, Inv, Queued, transport
    <3>2. CASE Reaches /\ Written(Head(outgoing))
      <4>1. overflow' = overflow
        BY <3>2 DEF Written
      <4>2. /\ sounding' \in [Ports -> SUBSET Notes] /\ notes' \subseteq Notes
            /\ \A p \in Ports : p # link => Hanging(p)' = {}
            /\ Hanging(link)' \subseteq notes'
        BY <3>1, <3>2, WriteIsTracked
      <4>3. Typed'
        BY <3>1, <4>1, <4>2 DEF Typed
      <4>4. pc = "send" /\ Reaches'
        BY <2>6, <3>1, <3>2 DEF Send, At, Reaches
      <4> QED
        BY <3>1, <4>2, <4>3, <4>4 DEF Silent
    <3>3. CASE UNCHANGED <<notes, sounding, excused>> /\ overflow' \in BOOLEAN
      <4>1. Silent'
        BY <3>1, <3>3, SilentKeeps
      <4> QED
        BY <3>1, <3>3, <4>1 DEF Typed
    <3> QED
      BY <2>6, <3>2, <3>3 DEF Send, NotWritten, Typed
  <2>7. CASE Throw
    <3>1. \A p \in Ports : Hanging(p)' \subseteq Hanging(p) \ (IF p = link THEN notes ELSE {})
      BY <2>7 DEF Throw, Hanging
    <3>2. \A p \in Ports : Hanging(p)' = {}
      BY <3>1 DEF Silent, Typed
    <3>3. pc' = "close" /\ UNCHANGED <<link, up, connected, service, ready, overflow, notes, sounding>>
      BY <2>7 DEF Throw, Goto, transport, flags
    <3>4. Hanging(link)' = {}
      BY <3>2, <3>3 DEF Typed
    <3> QED
      BY <3>2, <3>3, <3>4 DEF Silent, Typed
  <2>8. CASE Close
    <3>1. \A p \in Ports : Hanging(p) = {} /\ Hanging(p)' = {}
      BY <2>8 DEF Close, At, Silent, Hanging
    <3>2. /\ link' = NoPort /\ ~up' /\ up' \in BOOLEAN /\ notes' = {} /\ pc' = "open"
          /\ ready' \in BOOLEAN /\ UNCHANGED <<sounding, connected, service, overflow>>
      BY <2>8 DEF Close, Goto
    <3> QED
      BY <3>1, <3>2, MidiAssumption DEF Silent, Typed
  <2> QED
    BY <1>7, <2>1, <2>2, <2>3, <2>4, <2>5, <2>6, <2>7, <2>8 DEF Worker
<1>8. CASE UNCHANGED vars
  BY <1>1, <1>8 DEF vars, flags, Typed
<1> QED
  BY <1>2, <1>3, <1>4, <1>5, <1>6, <1>7, <1>8 DEF Next

\* What Select begins is not connected yet.
LEMMA LaterEpoch ==
  ASSUME Inv, NEW p \in Ports, Select(p)
  PROVE  active' # epoch' \/ pc \in {"open", "close", "stopped"}
<1>1. epoch' = epoch + 1 /\ active' = active /\ epoch \in Nat
  BY DEF Select, worker, Inv, Selected
<1>2. active = NoEpoch \/ active \in 0..epoch \/ pc \in {"open", "close", "stopped"}
  BY DEF Inv, Linked, LinkIsActive
<1> QED
  BY <1>1, <1>2, MidiAssumption

\* The worker's turn: what it does to the queue, to ready and to its name.
LEMMA TurningNext == IInv /\ [Next]_vars => Turning'
<1> SUFFICES ASSUME IInv, [Next]_vars PROVE Turning'
  OBVIOUS
<1> USE DEF IInv, Sound
<1>1. ASSUME UNCHANGED <<outgoing, ready, active, epoch, link, up, name>>,
             \/ pc' = pc
             \/ pc' \notin {"panic", "connect", "raise"} \cup Connected
                /\ pc \notin {"drain", "panic", "connect", "raise", "close"}
             \/ pc \in Connected /\ pc # "raise"
                /\ pc' \in {"overflow", "drop", "release", "send", "read"}
      PROVE  Turning'
  BY <1>1 DEF Turning, Reaches, Connected
<1>2. ASSUME NEW p \in Ports, Select(p) PROVE Turning'
  <2>1. active' # epoch' \/ pc \in {"open", "close", "stopped"}
    BY <1>2, LaterEpoch
  <2> QED
    BY <1>2, <2>1 DEF Select, Turning, Silent, Reaches, worker, transport
<1>3. CASE Destroy \/ SendStamp \/ PollReset \/ PollPop
           \/ \E n \in Notes : SendTest(n)
  BY <1>1, <1>3 DEF Destroy, SendStamp, PollReset, PollPop, SendTest, worker,
     transport, flags, control
<1>4. CASE SendPush
  <2>1. CASE outgoing' = outgoing
    BY <1>1, <1>4, <2>1 DEF SendPush, worker, transport, control
  <2>2. CASE outgoing' = Append(outgoing, [call.packet EXCEPT !.late = Reconnecting])
    <3> DEFINE packet == [call.packet EXCEPT !.late = Reconnecting]
    <3>1. call.packet \in Packets /\ Reconnecting \in BOOLEAN
      BY <1>4 DEF SendPush, Inv, Queued, Idle, Reconnecting
    <3>2. packet \in Packets /\ packet.late = Reconnecting
      BY <3>1 DEF Packets
    <3>3. UNCHANGED <<pc, ready, active, epoch, link, up, name>>
      BY <1>4 DEF SendPush, worker, transport, control
    <3>4. outgoing \in Seq(Packets) /\ outgoing' = Append(outgoing, packet)
      BY <2>2 DEF Inv, Queued
    <3> HIDE DEF packet
    <3>5. ASSUME pc \in {"panic", "connect", "raise"},
                 NEW k \in 1..Len(outgoing')
          PROVE  outgoing'[k].late
      <4>1. packet.late
        BY <3>2, <3>5 DEF Reconnecting
      <4>2. outgoing'[k] = IF k = Len(outgoing) + 1 THEN packet ELSE outgoing[k]
        BY <3>2, <3>4
      <4>3. k \in 1..(Len(outgoing) + 1)
        BY <3>2, <3>4
      <4> QED
        BY <3>4, <3>5, <4>1, <4>2, <4>3 DEF Turning
    <3> QED
      BY <3>3, <3>5 DEF Turning, Reaches
  <2> QED
    BY <1>4, <2>1, <2>2 DEF SendPush
<1>5. CASE LinkLost \/ ServiceLost \/ ServiceStarts
  <2>1. UNCHANGED <<outgoing, ready, active, epoch, link, name, pc>>
        /\ (Reaches' => Reaches)
    BY <1>5 DEF LinkLost, ServiceLost, ServiceStarts, worker, flags, control, Reaches
  <2> QED
    BY <2>1 DEF Turning
<1>6. CASE Reopen
  BY <1>6 DEF Reopen, Goto, At, Turning, Silent, Reaches, Connected, transport
<1>7. CASE Worker
  <2>1. CASE Open
    BY <2>1 DEF Open, Goto, At, Turning, Silent, Reaches, Connected, transport
  <2>2. CASE Top \/ Check \/ SkipCheck
    <3>1. UNCHANGED <<outgoing, active, epoch, link, up>>
          /\ pc \in {"top", "check"} /\ pc' \in {"exit", "check", "drain", "overflow"}
      BY <2>2 DEF Top, Check, SkipCheck, At, Goto, transport, control
    <3>2. pc' # "drain" => ready' = ready
      BY <2>2 DEF Top, Check, SkipCheck, Goto, flags
    <3>3. pc' = "overflow" => name' = link'
      <4>1. ASSUME pc' = "overflow" PROVE /\ pc = "check" /\ active = desired
                                          /\ UNCHANGED <<name, link>>
        BY <2>2, <4>1 DEF Top, Check, SkipCheck, Goto, At, Stale, transport
      <4>2. ASSUME pc = "check" PROVE desired \in 0..epoch /\ name = selected[desired]
                                      /\ (active = NoEpoch \/ link = selected[active])
        BY <4>2 DEF Inv, Linked, LinkIsActive, BeforeConnection
      <4>3. NoEpoch \notin 0..epoch
        BY MidiAssumption
      <4> QED
        BY <4>1, <4>2, <4>3
    <3> QED
      BY <3>1, <3>2, <3>3 DEF Turning, Reaches, Connected
  <2>3. CASE Drain
    BY <2>3 DEF Drain, Goto, At, Turning, Reaches, Connected, flags, control, transport
  <2>4. CASE Release
    <3>1. UNCHANGED <<outgoing, ready, active, epoch, link, up, name>>
      BY <2>4 DEF Release, flags, control, transport
    <3>2. \/ pc = "panic" /\ pc' = "connect"
          \/ pc = "release" /\ pc' = "send"
          \/ pc = "exit" /\ pc' = "close"
      BY <2>4 DEF Release, At, Goto
    <3> QED
      BY <3>1, <3>2 DEF Turning, Reaches, Connected
  <2>5. CASE Connect
    BY <2>5 DEF Connect, At, Goto, Turning, Connected
  <2>6. CASE Raise
    <3>1. pc = "raise" /\ pc' = "overflow" /\ name = link
          /\ ready' = (connected /\ name # NoPort)
          /\ UNCHANGED <<name, link, up, epoch, active>>
      BY <2>6 DEF Raise, At, Goto, transport, control, Turning, Connected
    <3>2. ~ready' => ~Reaches'
      BY <3>1 DEF Silent, Reaches
    <3> QED
      BY <3>1, <3>2 DEF Turning, Connected
  <2>7. CASE TakeOverflow \/ SendDone \/ Read
    BY <1>1, <2>7 DEF TakeOverflow, SendDone, Read, At, Goto, worker, transport,
       control, flags, Connected
  <2>8. CASE ReadDone
    BY <1>1, <2>8 DEF ReadDone, At, Goto, transport, control, Connected
  <2>9. CASE Send
    BY <2>9 DEF Send, At, Turning, Connected, Reaches, transport, control
  <2>10. CASE Throw \/ Close
    BY <2>10 DEF Throw, Close, Goto, Turning, Connected, Reaches, transport, flags, control
  <2> QED
    BY <1>7, <2>1, <2>2, <2>3, <2>4, <2>5, <2>6, <2>7, <2>8, <2>9, <2>10 DEF Worker
<1>8. CASE UNCHANGED vars
  BY <1>1, <1>8 DEF vars, worker, transport, flags, control
<1> QED
  BY <1>2, <1>3, <1>4, <1>5, <1>6, <1>7, <1>8 DEF Next

\* The engine makes one call at a time.
LEMMA PressingNext == IInv /\ [Next]_vars => Pressing'
<1> SUFFICES ASSUME IInv, [Next]_vars PROVE Pressing'
  OBVIOUS
<1> USE DEF IInv, Sound
<1>1. ASSUME UNCHANGED engine PROVE Pressing'
  BY <1>1 DEF engine, Pressing
<1>2. ASSUME NEW n \in Notes, SendTest(n) PROVE Pressing'
  BY <1>2 DEF SendTest, Pressing, Idle
<1>3. CASE SendStamp
  BY <1>3 DEF SendStamp, Pressing
<1>4. CASE SendPush
  BY <1>4 DEF SendPush, Pressing, Idle
<1>5. CASE Worker
  BY <1>1, <1>5 DEF Worker, Open, Top, Check, SkipCheck, Drain, Release, Connect,
     Raise, TakeOverflow, Send, SendDone, Read, ReadDone, Throw, Close
<1> QED
  BY <1>1, <1>2, <1>3, <1>4, <1>5
  DEF Next, vars, Select, Destroy, Reopen, PollReset, PollPop, LinkLost, ServiceLost,
      ServiceStarts

\* The end of a note stays on its way: as it is handed over,
LEMMA PendingKeeps ==
  ASSUME UNCHANGED <<outgoing, call, epoch>>, NEW n, NEW i
  PROVE  Pending(n, i)' = Pending(n, i)
BY DEF Pending, Ends

LEMMA PendingStamped ==
  ASSUME Inv, SendStamp, NEW n, NEW i, Pending(n, i)
  PROVE  Pending(n, i)'
<1>1. call \in [at : {"stamp"}, on : BOOLEAN, note : Notes]
  BY DEF SendStamp, Inv, Queued, Idle
<1>2. UNCHANGED <<outgoing, epoch>>
  BY DEF SendStamp, control
<1> QED
  BY <1>1, <1>2 DEF SendStamp, Pending, Ends

\* when it is put behind the queue,
LEMMA PendingPushed ==
  ASSUME Inv, SendPush, NEW n, NEW i \in 1..Len(outgoing), Pending(n, i),
         ~overflow'
  PROVE  Pending(n, i)'
<1> DEFINE packet == [call.packet EXCEPT !.late = Reconnecting]
<1>1. call.packet \in Packets /\ Reconnecting \in BOOLEAN
  BY DEF SendPush, Inv, Queued, Idle, Reconnecting
<1>2. packet \in Packets /\ (Ends(call.packet, n) => Ends(packet, n))
  BY <1>1 DEF Packets, Ends
<1>3. outgoing \in Seq(Packets) /\ outgoing' = Append(outgoing, packet)
      /\ UNCHANGED epoch /\ call.at = "push"
  BY DEF SendPush, Inv, Queued, control
<1> HIDE DEF packet
<1>4. /\ Len(outgoing') = Len(outgoing) + 1
      /\ \A j \in 1..Len(outgoing) : outgoing'[j] = outgoing[j]
      /\ outgoing'[Len(outgoing) + 1] = packet
      /\ Len(outgoing) \in Nat
  BY <1>2, <1>3
<1>5. CASE Ends(call.packet, n)
  <2>1. Len(outgoing) + 1 \in i..Len(outgoing') /\ Ends(outgoing'[Len(outgoing) + 1], n)
    BY <1>2, <1>3, <1>4, <1>5 DEF Ends
  <2> QED
    BY <1>3, <2>1 DEF Pending, Ends
<1>6. CASE \E j \in i..Len(outgoing) : Ends(outgoing[j], n)
  <2>1. PICK j \in i..Len(outgoing) : Ends(outgoing[j], n)
    BY <1>6
  <2>2. j \in i..Len(outgoing') /\ j \in 1..Len(outgoing)
    BY <1>4
  <2>3. Ends(outgoing'[j], n)
    BY <1>3, <1>4, <2>1, <2>2 DEF Ends
  <2> QED
    BY <1>3, <2>2, <2>3 DEF Pending, Ends
<1> QED
  BY <1>3, <1>5, <1>6 DEF Pending

\* and as the queue moves on.
LEMMA PendingMoves ==
  ASSUME Inv, outgoing # << >>, outgoing' = Tail(outgoing), UNCHANGED <<call, epoch>>,
         NEW n, NEW i \in 1..Len(outgoing), Pending(n, i)
  PROVE  /\ i > 1 => Pending(n, i - 1)'
         /\ i = 1 => Ends(Head(outgoing), n) \/ Pending(n, 1)'
<1>1. outgoing \in Seq(Packets)
  BY DEF Inv, Queued
<1>2. /\ Len(outgoing') = Len(outgoing) - 1 /\ Len(outgoing) \in Nat
      /\ \A k \in 1..Len(outgoing') : outgoing'[k] = outgoing[k + 1]
      /\ Head(outgoing) = outgoing[1]
  BY <1>1
<1>3. ASSUME NEW j \in i..Len(outgoing), Ends(outgoing[j], n), j > 1
      PROVE  \A h \in Nat : h < j => Pending(n, h)'
  <2>1. j - 1 \in 1..Len(outgoing') /\ Ends(outgoing'[j - 1], n)
    BY <1>2, <1>3 DEF Ends
  <2> QED
    BY <1>2, <2>1 DEF Pending, Ends
<1>4. CASE \E j \in i..Len(outgoing) : Ends(outgoing[j], n)
  BY <1>2, <1>3, <1>4
<1>5. CASE ~ \E j \in i..Len(outgoing) : Ends(outgoing[j], n)
  BY <1>5 DEF Pending, Ends
<1> QED
  BY <1>4, <1>5

\* Where nothing sounds nothing is left to end.
LEMMA SilentEnding ==
  ASSUME Hanging(link)' = {} PROVE Ending'
BY DEF Ending

LEMMA QuietEnding ==
  ASSUME Ending, UNCHANGED <<outgoing, call, epoch, pressed, active>>,
         Reaches' => Reaches /\ Hanging(link)' \subseteq Hanging(link),
         overflow => overflow' \/ pc' = "drop",
         pc \in {"drop", "release", "drain", "panic"} =>
            pc' \in {"drop", "release", "drain", "panic"}
  PROVE  Ending'
<1>1. \A n : Pending(n, 1)' = Pending(n, 1)
  BY PendingKeeps
<1> QED
  BY <1>1 DEF Ending

LEMMA QuietStarting ==
  ASSUME Starting, UNCHANGED <<outgoing, call, epoch, active, pressed>>,
         Reaches' => Reaches,
         overflow => overflow' \/ pc' = "drop",
         pc \in {"drop", "drain", "close"} => pc' \in {"drop", "drain", "close"}
  PROVE  Starting'
<1>1. \A n, i : Pending(n, i)' = Pending(n, i)
  BY PendingKeeps
<1> QED
  BY <1>1 DEF Starting, Begins

\* What still sounds is going to end.
LEMMA EndingNext == IInv /\ [Next]_vars => Ending'
<1> SUFFICES ASSUME IInv, [Next]_vars PROVE Ending'
  OBVIOUS
<1>1. Typed' /\ Silent' /\ Ending /\ Inv /\ Typed /\ Silent /\ Turning
  BY SilentNext DEF IInv, Sound
<1>2. Reaches' \/ Ending'
  BY DEF Ending
<1>3. ASSUME UNCHANGED <<outgoing, call, epoch, pressed, active, overflow, pc,
                         sounding, excused, link>>,
             Reaches' => Reaches
      PROVE  Ending'
  BY <1>1, <1>3, QuietEnding DEF Hanging
<1>4. ASSUME NEW p \in Ports, Select(p) PROVE Ending'
  <2>1. active' # epoch' \/ pc' \in {"open", "close", "stopped"}
    BY <1>1, <1>4, LaterEpoch DEF Select, worker
  <2> QED
    BY <1>1, <2>1 DEF Silent, Ending, Reaches
<1>5. CASE Destroy \/ PollReset \/ PollPop \/ ServiceStarts \/ UNCHANGED vars
  BY <1>3, <1>5 DEF Destroy, PollReset, PollPop, ServiceStarts, vars, flags, control,
     worker, transport, engine, Reaches
<1>6. ASSUME NEW n \in Notes, SendTest(n) PROVE Ending'
  <2>1. /\ UNCHANGED <<outgoing, epoch, active, overflow, pc, sounding, excused, link, up>>
        /\ call = Idle
    BY <1>6 DEF SendTest, flags, control, worker, transport
  <2>2. ASSUME NEW m, Pending(m, 1) PROVE Pending(m, 1)'
    BY <2>1, <2>2 DEF Pending, Idle, Ends
  <2>3. \A m : m \in pressed /\ m \notin pressed' => m = n /\ n \in pressed
    BY <1>6 DEF SendTest
  <2>4. CASE ready
    <3>1. n \in pressed => Pending(n, 1)'
      BY <1>6, <2>4 DEF SendTest, Pending
    <3> QED
      BY <1>1, <2>1, <2>2, <2>3, <3>1 DEF Ending, Hanging, Reaches
  <2>5. CASE ~ready
    <3>1. Reaches' /\ active' = epoch' =>
             pc \in {"drain", "panic"} \/ Hanging(link) = {}
      BY <1>1, <2>1, <2>5 DEF Turning, Silent, Reaches
    <3> QED
      BY <1>1, <2>1, <2>2, <3>1 DEF Ending, Hanging, Reaches
  <2> QED
    BY <2>4, <2>5
<1>7. CASE SendStamp
  <2>1. \A n : Pending(n, 1) => Pending(n, 1)'
    BY <1>1, <1>7, PendingStamped
  <2> QED
    BY <1>1, <1>7, <2>1 DEF SendStamp, Ending, Hanging, Reaches, flags, control, worker,
       transport
<1>8. CASE SendPush
  <2>1. UNCHANGED <<epoch, active, pc, sounding, excused, link, up, pressed>>
        /\ (overflow => overflow')
    BY <1>8 DEF SendPush, control, worker, transport
  <2>2. ASSUME ~overflow', NEW n, Pending(n, 1) PROVE Pending(n, 1)'
    <3>1. CASE outgoing = << >>
      <4> DEFINE packet == [call.packet EXCEPT !.late = Reconnecting]
      <4>1. call.packet \in Packets /\ Reconnecting \in BOOLEAN
        BY <1>1, <1>8 DEF SendPush, Inv, Queued, Idle, Reconnecting
      <4>2. packet \in Packets /\ (Ends(call.packet, n) => Ends(packet, n))
        BY <4>1 DEF Packets, Ends
      <4>3. outgoing' = Append(outgoing, packet) /\ call.at = "push"
        BY <1>8, <2>2 DEF SendPush
      <4>4. Ends(call.packet, n)
        BY <2>2, <3>1, <4>3 DEF Pending
      <4> HIDE DEF packet
      <4>5. Len(outgoing') = 1 /\ outgoing'[1] = packet
        BY <3>1, <4>2, <4>3
      <4> QED
        BY <2>1, <4>2, <4>4, <4>5 DEF Pending, Ends
    <3>2. CASE outgoing # << >>
      <4>1. 1 \in 1..Len(outgoing)
        BY <1>1, <3>2 DEF Inv, Queued
      <4> QED
        BY <1>1, <1>8, <2>2, <4>1, PendingPushed
    <3> QED
      BY <3>1, <3>2
  <2> QED
    BY <1>1, <2>1, <2>2 DEF Ending, Hanging, Reaches
<1>9. CASE LinkLost \/ ServiceLost
  BY <1>2, <1>9 DEF LinkLost, ServiceLost, Reaches
<1>10. CASE Reopen
  BY <1>1, <1>10, SilentEnding DEF Reopen, Goto, Silent, Reaches
<1>11. CASE Worker
  <2>1. CASE Top \/ Check \/ SkipCheck \/ Raise \/ TakeOverflow \/ SendDone \/ Read
             \/ ReadDone
    <3>1. /\ UNCHANGED <<outgoing, call, epoch, pressed, active, sounding, excused,
                         link, up>>
          /\ pc \notin {"drop", "release", "drain", "panic"}
      BY <2>1 DEF Top, Check, SkipCheck, Raise, TakeOverflow, SendDone, Read, ReadDone,
         At, control, worker, transport, engine
    <3>2. overflow => overflow' \/ pc' = "drop"
      BY <2>1 DEF Top, Check, SkipCheck, Raise, TakeOverflow, SendDone, Read, ReadDone,
         Goto, flags
    <3> QED
      BY <1>1, <3>1, <3>2, QuietEnding DEF Hanging, Reaches
  <2>2. CASE Open \/ Throw \/ Close \/ Connect
    <3>1. /\ pc' \in {"top", "stopped", "close", "open", "raise"}
          /\ pc' = "top" => UNCHANGED <<link, up>> /\ pc = "open"
      BY <2>2 DEF Open, Throw, Close, Connect, At, Goto, transport
    <3>2. pc' \in {"stopped", "close", "open"} => Hanging(link)' = {}
      BY <1>1 DEF Silent, Reaches
    <3>3. pc' = "raise" => Hanging(link)' = {}
      BY <1>1 DEF Silent
    <3>4. pc' = "top" => ~Reaches'
      BY <1>1, <3>1 DEF Silent, Reaches
    <3> QED
      BY <1>2, <3>1, <3>2, <3>3, <3>4, SilentEnding
  <2>3. CASE Drain
    BY <2>3 DEF Drain, Goto, At, Ending
  <2>4. CASE Release
    <3>1. UNCHANGED link /\ Panic
      BY <2>4 DEF Release, transport
    <3>2. Hanging(link)' = {}
      BY <1>1, <3>1, PanicSilences DEF Typed
    <3> QED
      BY <3>2, SilentEnding
  <2>5. CASE Send
    <3> DEFINE packet == Head(outgoing)
    <3>1. /\ outgoing # << >> /\ outgoing' = Tail(outgoing)
          /\ UNCHANGED <<call, epoch, pressed, active, link, up, pc, name>>
          /\ pc = "send"
      BY <2>5 DEF Send, At, engine, control, transport
    <3>2. 1 \in 1..Len(outgoing) /\ packet = outgoing[1] /\ packet \in Packets
      BY <1>1, <3>1 DEF Inv, Queued
    <3>3. \A n : Pending(n, 1) => Ends(packet, n) \/ Pending(n, 1)'
      BY <1>1, <3>1, <3>2, PendingMoves
    <3>4. CASE overflow'
      BY <3>4 DEF Ending
    <3>5. CASE packet.epoch # active \/ name = NoPort
      <4>1. UNCHANGED <<sounding, excused, overflow>>
        BY <2>5, <3>5 DEF Send
      <4>2. ASSUME active = epoch, Reaches PROVE \A n : ~Ends(packet, n)
        BY <1>1, <3>1, <3>5, <4>2 DEF Ends, Turning, Reaches, Connected
      <4> QED
        BY <1>1, <3>1, <3>3, <4>1, <4>2 DEF Ending, Hanging, Reaches
    <3>6. CASE packet.epoch = active /\ Reaches /\ Written(packet)
      <4>1. Hanging(link)' = IF ~packet.on THEN Hanging(link) \ {packet.note}
                             ELSE IF packet.late
                             THEN Hanging(link) \ {packet.note}
                             ELSE Hanging(link) \cup {packet.note}
        BY <1>1, <3>1, <3>2, <3>6, WriteIsTracked
      <4>2. UNCHANGED overflow
        BY <3>6 DEF Written
      <4>3. ASSUME active = epoch, NEW n \in Hanging(link)', n \notin pressed, ~overflow
            PROVE  Pending(n, 1)'
        <5>1. CASE Begins(packet) /\ n = packet.note
          <6>1. Pending(n, 1)
            BY <1>1, <3>1, <3>2, <3>6, <4>3, <5>1 DEF IInv, Sound, Starting
          <6>2. ~Ends(packet, n)
            BY <5>1 DEF Begins, Ends
          <6> QED
            BY <3>3, <6>1, <6>2
        <5>2. CASE ~(Begins(packet) /\ n = packet.note)
          <6>1. n \in Hanging(link) /\ ~Ends(packet, n)
            BY <3>6, <4>1, <4>3, <5>2 DEF Begins, Ends
          <6>2. Pending(n, 1)
            BY <1>1, <3>1, <3>6, <4>3, <6>1 DEF Ending
          <6> QED
            BY <3>3, <6>1, <6>2
        <5> QED
          BY <5>1, <5>2
      <4> QED
        BY <3>1, <4>2, <4>3 DEF Ending
    <3> QED
      BY <2>5, <3>4, <3>5, <3>6 DEF Send, NotWritten
  <2> QED
    BY <1>11, <2>1, <2>2, <2>3, <2>4, <2>5 DEF Worker
<1> QED
  BY <1>4, <1>5, <1>6, <1>7, <1>8, <1>9, <1>10, <1>11 DEF Next

\* What is queued to sound is going to end.
LEMMA StartingNext == IInv /\ [Next]_vars => Starting'
<1> SUFFICES ASSUME IInv, [Next]_vars PROVE Starting'
  OBVIOUS
<1>1. Inv /\ Typed /\ Silent /\ Silent' /\ Turning /\ Turning' /\ Starting /\ Pressing
  BY SilentNext, TurningNext DEF IInv, Sound
<1>2. Reaches' \/ Starting'
  BY DEF Starting
<1>3. ASSUME UNCHANGED <<outgoing, call, epoch, pressed, active, overflow, pc>>,
             Reaches' => Reaches
      PROVE  Starting'
  BY <1>1, <1>3, QuietStarting
<1>4. ASSUME NEW p \in Ports, Select(p) PROVE Starting'
  <2>1. active' # epoch' \/ pc' \in {"open", "close", "stopped"}
    BY <1>1, <1>4, LaterEpoch DEF Select, worker
  <2> QED
    BY <1>1, <2>1 DEF Silent, Starting, Reaches
<1>5. CASE \/ Destroy \/ PollReset \/ PollPop \/ ServiceStarts \/ UNCHANGED vars
  BY <1>3, <1>5 DEF Destroy, PollReset, PollPop, ServiceStarts, vars, flags, control,
     worker, transport, engine, Reaches
<1>6. ASSUME NEW n \in Notes, SendTest(n) PROVE Starting'
  <2>1. /\ UNCHANGED <<outgoing, epoch, active, overflow, pc, link, up>>
        /\ call = Idle
    BY <1>6 DEF SendTest, flags, control, worker, transport
  <2>2. ASSUME NEW m, NEW i, Pending(m, i) PROVE Pending(m, i)'
    BY <2>1, <2>2 DEF Pending, Idle, Ends
  <2>3. \A m : m \in pressed /\ m \notin pressed' => m = n /\ n \in pressed
    BY <1>6 DEF SendTest
  <2>4. CASE ready
    <3>1. n \in pressed => \A i : Pending(n, i)'
      BY <1>6, <2>4 DEF SendTest, Pending
    <3>2. ASSUME Reaches, active = epoch, ~overflow, pc \notin {"drop", "drain", "close"},
                 NEW i \in 1..Len(outgoing),
                 outgoing[i].on, ~outgoing[i].late, outgoing[i].epoch = epoch,
                 outgoing[i].note \notin pressed'
          PROVE  Pending(outgoing[i].note, i)'
      <4>1. CASE outgoing[i].note \in pressed
        BY <2>1, <2>3, <3>1, <3>2, <4>1 DEF Pending, Ends
      <4>2. CASE outgoing[i].note \notin pressed
        <5>1. Pending(outgoing[i].note, i)
          BY <1>1, <3>2, <4>2 DEF Starting, Begins
        <5> QED
          BY <2>1, <5>1 DEF Pending, Idle, Ends
      <4> QED
        BY <4>1, <4>2
    <3> QED
      BY <2>1, <3>2 DEF Starting, Begins, Reaches
  <2>5. CASE ~ready
    <3>1. Reaches' /\ active' = epoch' /\ pc' \notin {"drain", "close"} =>
             \A i \in 1..Len(outgoing) : outgoing[i].late
      BY <1>1, <2>1, <2>5 DEF Turning, Reaches
    <3> QED
      BY <2>1, <3>1 DEF Starting, Begins
  <2> QED
    BY <2>4, <2>5
<1>7. CASE SendStamp
  <2>1. \A n, i : Pending(n, i) => Pending(n, i)'
    BY <1>1, <1>7, PendingStamped
  <2> QED
    BY <1>1, <1>7, <2>1 DEF SendStamp, Starting, Begins, Reaches, flags, control, worker,
       transport
<1>8. CASE SendPush
  <2>1. UNCHANGED <<epoch, active, pc, link, up, pressed>> /\ (overflow => overflow')
    BY <1>8 DEF SendPush, control, worker, transport
  <2>2. CASE overflow'
    BY <2>2 DEF Starting
  <2>3. CASE ~overflow'
    <3> DEFINE packet == [call.packet EXCEPT !.late = Reconnecting]
    <3>1. call.packet \in Packets /\ Reconnecting \in BOOLEAN
      BY <1>1, <1>8 DEF SendPush, Inv, Queued, Idle, Reconnecting
    <3>2. packet \in Packets /\ packet.on = call.packet.on /\ packet.note = call.packet.note
      BY <3>1 DEF Packets
    <3>3. outgoing \in Seq(Packets) /\ outgoing' = Append(outgoing, packet) /\ call.at = "push"
      BY <1>1, <1>8, <2>3 DEF SendPush, Inv, Queued
    <3>4. ~Begins(packet)
      BY <1>1, <2>1, <3>2, <3>3 DEF Pressing, Begins
    <3> HIDE DEF packet
    <3>5. /\ 1..Len(outgoing') = 1..Len(outgoing) \cup {Len(outgoing) + 1}
          /\ \A j \in 1..Len(outgoing) : outgoing'[j] = outgoing[j]
          /\ outgoing'[Len(outgoing) + 1] = packet
      BY <3>2, <3>3
    <3>6. ASSUME Reaches, active = epoch, pc \notin {"drop", "drain", "close"},
                 NEW i \in 1..Len(outgoing'),
                 outgoing'[i].on, ~outgoing'[i].late, outgoing'[i].epoch = epoch,
                 outgoing'[i].note \notin pressed
          PROVE  i \in 1..Len(outgoing) /\ Pending(outgoing[i].note, i)
      <4>1. i \in 1..Len(outgoing) /\ outgoing'[i] = outgoing[i]
        BY <2>1, <3>2, <3>4, <3>5, <3>6 DEF Begins
      <4> QED
        BY <1>1, <2>1, <2>3, <3>6, <4>1 DEF Starting, Begins
    <3>7. ASSUME NEW i \in 1..Len(outgoing), NEW n, Pending(n, i) PROVE Pending(n, i)'
      BY <1>1, <1>8, <2>3, <3>7, PendingPushed
    <3>8. ASSUME Reaches', active' = epoch', pc' \notin {"drop", "drain", "close"},
                 NEW i \in 1..Len(outgoing'), NEW n, n = outgoing'[i].note,
                 outgoing'[i].on, ~outgoing'[i].late, outgoing'[i].epoch = epoch,
                 n \notin pressed
          PROVE  Pending(n, i)'
      BY <2>1, <3>5, <3>6, <3>7, <3>8 DEF Reaches
    <3>9. ASSUME NEW i \in 1..Len(outgoing'), NEW n, n = outgoing'[i].note, Pending(n, i)'
          PROVE  Pending(outgoing[i].note, i)'
      BY <3>9 DEF Pending, Ends
    <3> QED
      BY <2>1, <3>8, <3>9 DEF Starting, Begins
  <2> QED
    BY <2>2, <2>3
<1>9. CASE LinkLost \/ ServiceLost
  BY <1>2, <1>9 DEF LinkLost, ServiceLost, Reaches
<1>10. CASE Reopen
  BY <1>1, <1>2, <1>10 DEF Reopen, Goto, Silent, Reaches
<1>11. CASE Worker
  <2>1. CASE Top \/ Check \/ SkipCheck \/ Raise \/ TakeOverflow \/ SendDone \/ Read
             \/ ReadDone \/ Release
    <3>1. /\ UNCHANGED <<outgoing, call, epoch, pressed, active, link, up>>
          /\ pc \notin {"drop", "drain", "close"}
      BY <2>1 DEF Top, Check, SkipCheck, Raise, TakeOverflow, SendDone, Read, ReadDone,
         Release, At, control, worker, transport, engine
    <3>2. overflow => overflow' \/ pc' = "drop"
      BY <2>1 DEF Top, Check, SkipCheck, Raise, TakeOverflow, SendDone, Read, ReadDone,
         Release, Goto, flags
    <3> QED
      BY <1>1, <3>1, <3>2, QuietStarting DEF Reaches
  <2>2. CASE Open \/ Close
    <3>1. ~Reaches'
      BY <1>1, <2>2 DEF Open, Close, At, Silent, Reaches, transport
    <3> QED
      BY <1>2, <3>1
  <2>3. CASE Throw
    BY <2>3 DEF Throw, Goto, Starting
  <2>4. CASE Connect
    <3>1. pc' = "raise" /\ \A k \in 1..Len(outgoing') : outgoing'[k].late
      BY <1>1, <2>4 DEF Connect, Goto, Turning
    <3> QED
      BY <3>1 DEF Starting, Begins
  <2>5. CASE Drain
    BY <2>5 DEF Drain, Starting
  <2>6. CASE Send
    <3>1. /\ outgoing # << >> /\ outgoing' = Tail(outgoing)
          /\ UNCHANGED <<call, epoch, pressed, active, link, up, pc>>
          /\ pc = "send" /\ (overflow => overflow')
      BY <2>6 DEF Send, At, engine, control, transport, Written, NotWritten
    <3>2. outgoing \in Seq(Packets)
      BY <1>1 DEF Inv, Queued
    <3>3. \A i \in 1..Len(outgoing') :
             i + 1 \in 1..Len(outgoing) /\ i + 1 > 1 /\ outgoing'[i] = outgoing[i + 1]
             /\ (i + 1) - 1 = i
      BY <3>1, <3>2
    <3>4. ASSUME NEW i \in 1..Len(outgoing'), NEW n, Pending(n, i + 1)
          PROVE  Pending(n, i)'
      <4>1. Pending(n, (i + 1) - 1)'
        BY <1>1, <3>1, <3>3, <3>4, PendingMoves
      <4> QED
        BY <3>3, <4>1
    <3>5. ASSUME Reaches', active' = epoch', ~overflow',
                 NEW i \in 1..Len(outgoing'), NEW n, n = outgoing'[i].note,
                 outgoing'[i].on, ~outgoing'[i].late, outgoing'[i].epoch = epoch,
                 n \notin pressed
          PROVE  Pending(n, i)'
      BY <1>1, <3>1, <3>3, <3>4, <3>5 DEF Starting, Begins, Reaches
    <3>6. ASSUME NEW i \in 1..Len(outgoing'), NEW n, n = outgoing'[i].note, Pending(n, i)'
          PROVE  Pending(outgoing[i].note, i)'
      BY <3>6 DEF Pending, Ends
    <3> QED
      BY <3>1, <3>5, <3>6 DEF Starting, Begins
  <2> QED
    BY <1>11, <2>1, <2>2, <2>3, <2>4, <2>5, <2>6 DEF Worker
<1> QED
  BY <1>4, <1>5, <1>6, <1>7, <1>8, <1>9, <1>10, <1>11 DEF Next

\* IInv is inductive, and no note hangs: what sounds is held by the engine
\* when the worker is through with its queue, and nothing sounds after the end.
THEOREM NoteInvariance == Spec => []IInv
<1>1. Init => IInv
  BY InitInv, InitSound DEF IInv
<1>2. IInv /\ [Next]_vars => IInv'
  <2>1. ASSUME IInv, [Next]_vars PROVE IInv'
    <3>1. Inv'
      BY <2>1, NextInv DEF IInv
    <3>2. Typed' /\ Silent' /\ Turning' /\ Pressing'
      BY <2>1, SilentNext, TurningNext, PressingNext
    <3>3. Ending' /\ Starting'
      BY <2>1, EndingNext, StartingNext
    <3> QED
      BY <3>1, <3>2, <3>3 DEF IInv, Sound
  <2> QED
    BY <2>1
<1> QED
  BY <1>1, <1>2, PTL DEF Spec

\* No note hangs: when the worker is through with its queue the engine holds
\* every note that sounds, and nothing sounds at the end.
THEOREM NotesEnd == Spec => []NoNoteHangs
<1>1. ASSUME IInv, NEW p \in Ports
      PROVE  /\ Settled => Hanging(p) \subseteq (IF p = link THEN pressed ELSE {})
             /\ At("stopped") => Hanging(p) = {}
  <2> USE <1>1 DEF IInv, Sound
  <2>1. ASSUME Settled, p = link, NEW n \in Hanging(p) PROVE n \in pressed
    <3>1. \A i \in 1..0 : FALSE
      OBVIOUS
    <3>2. ~Pending(n, 1)
      BY <2>1, <3>1 DEF Settled, Pending, Idle
    <3> QED
      BY <2>1, <3>2 DEF Settled, Ending, Silent
  <2>2. p # link => Hanging(p) = {}
    BY DEF Silent
  <2>3. At("stopped") => Hanging(p) = {}
    BY DEF At, Silent, Reaches
  <2> QED
    BY <2>1, <2>2, <2>3
<1>2. IInv => NoNoteHangs
  BY <1>1 DEF NoNoteHangs, Hanging
<1> QED
  BY <1>2, NoteInvariance, PTL
=============================================================================
