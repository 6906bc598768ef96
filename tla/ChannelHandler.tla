---------------------------- MODULE ChannelHandler ----------------------------
(***************************************************************************)
(* The channels between one device and its editor (ChannelHandler.cpp).    *)
(* The engine calls UpdateDataNow and then runs the device, once a cycle;  *)
(* it only TRIES the mutex and goes on without the exchange when the       *)
(* editor holds it.  The editor's calls lock the mutex, some of them many  *)
(* times, and BulkTransfer sets its own fields without it: one of them,    *)
(* m_BulkID, while the exchange may be comparing it.                       *)
(*                                                                         *)
(* Values are dated: a value or a command that the editor (or a loaded     *)
(* patch) gives carries the time it was given, and the device's own        *)
(* outputs carry the device's version counter.  The bytes of the bulk      *)
(* transfer buffer are dated by their offset in the source.                *)
(***************************************************************************)
EXTENDS Integers, FiniteSets

CONSTANTS Inputs,    \* IDs of the INPUT channels
          Outputs,   \* IDs of the OUTPUT channels
          Requests,  \* IDs of the OUTPUT_REQUEST channels fetched one by one
          Bulks,     \* IDs of the OUTPUT_REQUEST channels used to carry bulks
          NoID,      \* m_BulkID before the first bulk transfer
          ChunkSize, \* size of a bulk channel
          Sizes,     \* sizes of the bulk sources
          MaxGiven,  \* bound: values and commands given by the editor
          MaxVersion \* bound: versions of the device's outputs

IDs == Inputs \cup Outputs \cup Requests \cup Bulks

ASSUME IDsAssumption ==
    /\ Inputs \cap (Outputs \cup Requests \cup Bulks) = {}
    /\ Bulks \cap (Outputs \cup Requests) = {}
    /\ Outputs \cap Requests = {}
    /\ NoID \notin IDs
ASSUME SizesAssumption ==
    /\ ChunkSize \in Nat \ {0}
    /\ Sizes \subseteq Nat \ {0}
    /\ MaxGiven \in Nat
    /\ MaxVersion \in Nat

VARIABLES
    data,       \* the device's variables
    data_buf,   \* the handler's copies (of the channels that carry one value)
    requested, updated,   \* flags of the request channels
    current, pending,           \* m_Command[0] and m_Command[1]; 0 is no command
    m_UpdateIndicator,
    m_BulkPos, m_BulkSize, m_BulkID,
    transfer,   \* the bulk channel's data_buf: source offset of each byte
    unseen,     \* the exchange: request channels it has not come to yet
    visit,      \* the request channel it has come to
    match,      \* what m_BulkID == i->first has given for that one
    pcA,        \* the engine, within one cycle
    pcG,        \* the editor's thread
    chan,       \* the channel the editor's call is about
    last,       \* Wait: the indicator when the round began
    round,      \* Wait: rounds that are over
    got,        \* the value GetData last copied out
    dest, pos,  \* BulkTransfer: the destination, and the bytes filled
    given,      \* time of the last value or command
    lastCommand,\* time of the last command
    version,    \* the device's output counter
    executed,   \* time of the last command the device executed
    owed        \* what the call in progress must deliver (see the properties)

flags == <<requested, updated>>
exchange == <<unseen, visit, match>>
bulk == <<m_BulkPos, m_BulkSize, m_BulkID>>
waiting == <<last, round>>
result == <<got, dest, pos>>
vars == <<data, data_buf, flags, current, pending, m_UpdateIndicator, bulk, transfer,
          exchange, pcA, pcG, chan, waiting, result, given, lastCommand, version,
          executed, owed>>

Valued == Inputs \cup Outputs \cup Requests

\* The editor's critical sections, each with the point where it is entered.
Section == [waitRound |-> "readIndicator", poll |-> "pollIndicator",
            request |-> "raiseRequest", await |-> "readUpdated",
            retire |-> "clearRequest", fetch |-> "getData", loaded |-> "flush"]

\* The editor holds m_Mutex exactly in these places.
Held == {Section[p] : p \in DOMAIN Section} \cup {"setData", "setCommand"}

\* The engine holds it exactly during an exchange.
Exchanging == pcA \in {"walk", "serve"}

\* Control owns the device: the patch stream is being read.
Frozen == pcG \in {"frozen", "loaded", "flush", "thaw"}

Init == /\ data = [c \in Valued |-> 0]
        /\ data_buf = [c \in Valued |-> 0]
        /\ requested = [c \in Requests \cup Bulks |-> FALSE]
        /\ updated = [c \in Requests \cup Bulks |-> FALSE]
        /\ current = 0 /\ pending = 0
        /\ m_UpdateIndicator = FALSE
        /\ m_BulkPos = -1 /\ m_BulkSize = 0 /\ m_BulkID = NoID
        /\ transfer = [k \in 0..ChunkSize-1 |-> -1]
        /\ unseen = {} /\ visit = NoID /\ match = FALSE
        /\ pcA = "idle" /\ pcG = "idle"
        /\ chan = NoID
        /\ last = FALSE /\ round = 0
        /\ got = 0
        /\ dest = << >> /\ pos = 0
        /\ given = 0 /\ lastCommand = 0 /\ version = 0 /\ executed = 0 /\ owed = 0

-----------------------------------------------------------------------------
(* The engine: clear the command, try to exchange, run the device. *)

editorsOwn == <<pcG, chan, waiting, result, given, lastCommand, owed, m_BulkSize, m_BulkID>>

BeginUpdate == /\ pcA = "idle" /\ ~Frozen
               /\ current' = 0
               /\ pcA' = "try"
               /\ UNCHANGED <<data, data_buf, flags, pending, m_UpdateIndicator,
                              m_BulkPos, transfer, exchange, version, executed,
                              editorsOwn>>

\* UpdateDataNow gets the mutex: the indicator, and every INPUT and OUTPUT
\* channel.  These are one step with the lock, since nobody looks at them
\* without it.
TryLock == /\ pcA = "try"
           /\ pcG \notin Held
           /\ m_UpdateIndicator' = ~m_UpdateIndicator
           /\ data' = [c \in Valued |-> IF c \in Inputs THEN data_buf[c] ELSE data[c]]
           /\ data_buf' = [c \in Valued |->
                             IF c \in Outputs THEN data[c] ELSE data_buf[c]]
           /\ unseen' = Requests \cup Bulks
           /\ pcA' = "walk"
           /\ UNCHANGED <<flags, current, pending, m_BulkPos, transfer, visit, match,
                          version, executed, editorsOwn>>

\* m_BulkID == i->first, at every request channel and before its flag is
\* tested.  BulkTransfer assigns m_BulkID without the mutex: a comparison that
\* overlaps the assignment of the std::string gives anything.
CompareID(c) ==
    /\ pcA = "walk" /\ c \in unseen
    /\ visit' = c
    /\ match' \in IF pcG = "assignID" THEN BOOLEAN ELSE {c = m_BulkID}
    /\ pcA' = "serve"
    /\ UNCHANGED <<data, data_buf, flags, current, pending, m_UpdateIndicator,
                   m_BulkPos, transfer, unseen, version, executed, editorsOwn>>

\* Mistake: the bulk channel is left out with the plain requests.
AnsweringPlain == requested[visit] /\ ~match

\* Where the ID is m_BulkID only a transfer that is under way is answered.
Answering == requested[visit] /\ (match => m_BulkPos # -1)

LastChunk == m_BulkPos + ChunkSize > m_BulkSize
ChunkLength == IF LastChunk THEN m_BulkSize - m_BulkPos ELSE ChunkSize

\* Mistake: the last, shorter piece is taken from the start of the source.
PieceFromStart == [k \in DOMAIN transfer |->
                     IF k < ChunkLength
                     THEN IF LastChunk THEN k ELSE m_BulkPos + k
                     ELSE transfer[k]]

Piece == [k \in DOMAIN transfer |->
            IF k < ChunkLength THEN m_BulkPos + k ELSE transfer[k]]

\* A piece of the bulk source into a plain channel is no value of it (-1), and
\* a bulk channel's own data are no bytes of the source (-1).
CopyPiece == /\ transfer' = IF visit \in Bulks THEN Piece ELSE transfer
             /\ data_buf' = [c \in Valued |-> IF c = visit THEN -1 ELSE data_buf[c]]
             /\ m_BulkPos' = IF LastChunk THEN -1 ELSE m_BulkPos + ChunkSize

CopyPlain == /\ transfer' = [k \in DOMAIN transfer |->
                               IF visit \in Bulks THEN -1 ELSE transfer[k]]
             /\ data_buf' = [c \in Valued |-> IF c = visit THEN data[c] ELSE data_buf[c]]
             /\ UNCHANGED m_BulkPos

\* The channel is done with, and the exchange looks for the next one.
GoOn == /\ unseen' = unseen \ {visit}
        /\ visit' = NoID /\ match' = FALSE
        /\ pcA' = "walk"
        /\ UNCHANGED <<data, current, pending, m_UpdateIndicator, version, executed,
                       editorsOwn>>

Answer == /\ pcA = "serve" /\ Answering
          /\ requested' = [requested EXCEPT ![visit] = FALSE]
          /\ updated' = [updated EXCEPT ![visit] = TRUE]
          /\ IF match THEN CopyPiece ELSE CopyPlain
          /\ GoOn

PassOver == /\ pcA = "serve" /\ ~Answering
            /\ GoOn
            /\ UNCHANGED <<data_buf, flags, m_BulkPos, transfer>>

\* The command is handed over, and the mutex released.
Unlock == /\ pcA = "walk" /\ unseen = {}
          /\ current' = pending
          /\ pending' = 0
          /\ pcA' = "execute"
          /\ UNCHANGED <<data, data_buf, flags, m_UpdateIndicator, m_BulkPos, transfer,
                         exchange, version, executed, editorsOwn>>

Exchange == TryLock \/ (\E c \in unseen : CompareID(c)) \/ Answer \/ PassOver \/ Unlock

\* Mistake: the command is passed on although the inputs were not.
MissWithCommand == /\ pcA = "try"
                   /\ pcG \in Held
                   /\ current' = pending
                   /\ pending' = 0
                   /\ pcA' = "execute"
                   /\ UNCHANGED <<data, data_buf, flags, m_UpdateIndicator,
                                  m_BulkPos, transfer, exchange, version, executed,
                                  editorsOwn>>

\* Mistake: the waiting command is dropped with the missed exchange.
MissDropping == /\ pcA = "try"
                /\ pcG \in Held
                /\ pending' = 0
                /\ pcA' = "execute"
                /\ UNCHANGED <<data, data_buf, flags, current, m_UpdateIndicator,
                               m_BulkPos, transfer, exchange, version, executed,
                               editorsOwn>>

\* The editor has the mutex: this cycle runs without an exchange.
Miss == /\ pcA = "try"
        /\ pcG \in Held
        /\ pcA' = "execute"
        /\ UNCHANGED <<data, data_buf, flags, current, pending, m_UpdateIndicator,
                       m_BulkPos, transfer, exchange, version, executed, editorsOwn>>

\* ExecuteCommands and Execute: the command, then a period of output.
Execute == /\ pcA = "execute"
           /\ executed' = IF current # 0 THEN current ELSE executed
           /\ version' \in {v \in {version, version + 1} : v <= MaxVersion}
           /\ data' = [c \in Valued |-> IF c \in Inputs THEN data[c] ELSE version']
           /\ pcA' = "idle"
           /\ UNCHANGED <<data_buf, flags, current, pending, m_UpdateIndicator,
                          m_BulkPos, transfer, exchange, editorsOwn>>

Cycle == BeginUpdate \/ Exchange \/ Miss \/ Execute

-----------------------------------------------------------------------------
(* The editor's calls.  Each is entered when the editor is idle. *)

\* A call returns: its locals are gone.
Return == /\ pcG' = "idle"
          /\ chan' = NoID /\ owed' = 0
          /\ last' = FALSE /\ round' = 0
          /\ dest' = << >> /\ pos' = 0

enginesOwn == <<data, current, m_UpdateIndicator, transfer, exchange, pcA, version,
                executed>>

CallSetData(c) ==
    /\ pcG = "idle" /\ given < MaxGiven
    /\ ~Exchanging
    /\ pcG' = "setData" /\ chan' = c
    /\ UNCHANGED <<enginesOwn, data_buf, flags, pending, bulk, waiting, result,
                   given, lastCommand, owed>>

SetData == /\ pcG = "setData"
           /\ given' = given + 1
           /\ data_buf' = [data_buf EXCEPT ![chan] = given']
           /\ Return
           /\ UNCHANGED <<enginesOwn, flags, pending, bulk, got, lastCommand>>

CallSetCommand ==
    /\ pcG = "idle" /\ given < MaxGiven
    /\ ~Exchanging
    /\ pcG' = "setCommand"
    /\ UNCHANGED <<enginesOwn, data_buf, flags, pending, bulk, chan, waiting,
                   result, given, lastCommand, owed>>

SetCommand == /\ pcG = "setCommand"
              /\ given' = given + 1
              /\ pending' = given'
              /\ lastCommand' = given'
              /\ Return
              /\ UNCHANGED <<enginesOwn, data_buf, flags, bulk, got>>

\* pthread_mutex_lock waits for the end of an exchange.
Lock == /\ pcG \in DOMAIN Section
        /\ ~Exchanging
        /\ pcG' = Section[pcG]
        /\ UNCHANGED <<enginesOwn, data_buf, flags, pending, bulk, chan, waiting,
                       result, given, lastCommand, owed>>

-----------------------------------------------------------------------------
(* Wait: twice, read the indicator and poll until it differs. *)

\* Mistake: one round is enough.
RoundsOne == 1

Rounds == 2

CallWait == /\ pcG = "idle"
            /\ pcG' = "waitRound"
            /\ round' = 0
            /\ owed' = lastCommand
            /\ UNCHANGED <<enginesOwn, data_buf, flags, pending, bulk, chan, last,
                           result, given, lastCommand>>

ReadIndicator == /\ pcG = "readIndicator"
                 /\ last' = m_UpdateIndicator
                 /\ pcG' = "poll"
                 /\ UNCHANGED <<enginesOwn, data_buf, flags, pending, bulk, chan,
                                round, result, given, lastCommand, owed>>

SameIndicator == /\ pcG = "pollIndicator"
                 /\ m_UpdateIndicator = last
                 /\ pcG' = "poll"
                 /\ UNCHANGED <<enginesOwn, data_buf, flags, pending, bulk, chan,
                                waiting, result, given, lastCommand, owed>>

\* Another round; the mutex is released in between.
OtherIndicator ==
    /\ pcG = "pollIndicator"
    /\ m_UpdateIndicator # last
    /\ round + 1 < Rounds
    /\ round' = round + 1
    /\ pcG' = "waitRound"
    /\ UNCHANGED <<enginesOwn, data_buf, flags, pending, bulk, chan, last,
                   result, given, lastCommand, owed>>

WaitReturns ==
    /\ pcG = "pollIndicator"
    /\ m_UpdateIndicator # last
    /\ round + 1 = Rounds
    /\ Return
    /\ UNCHANGED <<enginesOwn, data_buf, flags, pending, bulk, got, given,
                   lastCommand>>

Wait == ReadIndicator \/ SameIndicator \/ OtherIndicator \/ WaitReturns

-----------------------------------------------------------------------------
(* RequestChannelAndWait, and the GetData every caller makes after it. *)

CallRequest(c) ==
    /\ pcG = "idle"
    /\ pcG' = "request" /\ chan' = c
    /\ UNCHANGED <<enginesOwn, data_buf, flags, pending, bulk, waiting, result,
                   given, lastCommand, owed>>

\* Mistake: the flag is raised without the mutex.
RaiseRequestUnlocked ==
    /\ pcG = "request"
    /\ requested' = [requested EXCEPT ![chan] = TRUE]
    /\ owed' = version
    /\ pcG' = "await"
    /\ UNCHANGED <<enginesOwn, data_buf, updated, pending, bulk, chan, waiting,
                   result, given, lastCommand>>

RaiseRequest ==
    /\ pcG = "raiseRequest"
    /\ requested' = [requested EXCEPT ![chan] = TRUE]
    /\ owed' = version
    /\ pcG' = "await"
    /\ UNCHANGED <<enginesOwn, data_buf, updated, pending, bulk, chan, waiting,
                   result, given, lastCommand>>

ReadUpdated == /\ pcG = "readUpdated"
               /\ pcG' = IF updated[chan] THEN "retire" ELSE "await"
               /\ UNCHANGED <<enginesOwn, data_buf, flags, pending, bulk, chan,
                              waiting, result, given, lastCommand, owed>>

\* Mistake: the answered request is left marked as answered.
ClearRequestHalf ==
    /\ pcG = "clearRequest"
    /\ requested' = [requested EXCEPT ![chan] = FALSE]
    /\ pcG' = "fetch"
    /\ UNCHANGED <<enginesOwn, data_buf, updated, pending, bulk, chan, waiting,
                   result, given, lastCommand, owed>>

ClearRequest ==
    /\ pcG = "clearRequest"
    /\ requested' = [requested EXCEPT ![chan] = FALSE]
    /\ updated' = [updated EXCEPT ![chan] = FALSE]
    /\ pcG' = "fetch"
    /\ UNCHANGED <<enginesOwn, data_buf, pending, bulk, chan, waiting, result,
                   given, lastCommand, owed>>

RequestChannelAndWait == RaiseRequest \/ ReadUpdated \/ ClearRequest

GetData == /\ pcG = "getData"
           /\ chan \in Valued
           /\ got' = data_buf[chan]
           /\ Return
           /\ UNCHANGED <<enginesOwn, data_buf, flags, pending, bulk, given,
                          lastCommand>>

\* An editor also reads OUTPUT channels, without a request.
CallGetData(c) ==
    /\ pcG = "idle"
    /\ pcG' = "fetch" /\ chan' = c
    /\ owed' = 0
    /\ UNCHANGED <<enginesOwn, data_buf, flags, pending, bulk, waiting, result,
                   given, lastCommand>>

-----------------------------------------------------------------------------
(* BulkTransfer: its fields are set, and its loop tested, without the mutex. *)

CallBulkTransfer(c, size) ==
    /\ pcG = "idle"
    /\ m_BulkPos' = 0
    /\ chan' = c
    /\ dest' = [k \in 0..size-1 |-> -1] /\ pos' = 0
    /\ pcG' = "bulkSize"
    /\ UNCHANGED <<enginesOwn, data_buf, flags, pending, m_BulkSize, m_BulkID,
                   waiting, got, given, lastCommand, owed>>

SetBulkSize == /\ pcG = "bulkSize"
               /\ m_BulkSize' = Cardinality(DOMAIN dest)
               /\ pcG' = "bulkID"
               /\ UNCHANGED <<enginesOwn, data_buf, flags, pending, m_BulkPos,
                              m_BulkID, chan, waiting, result, given,
                              lastCommand, owed>>

\* The assignment of the string takes time.
BeginSetBulkID == /\ pcG = "bulkID"
                  /\ pcG' = "assignID"
                  /\ UNCHANGED <<enginesOwn, data_buf, flags, pending, bulk, chan,
                                 waiting, result, given, lastCommand, owed>>

SetBulkID == /\ pcG = "assignID"
             /\ m_BulkID' = chan
             /\ pcG' = "bulkTest"
             /\ UNCHANGED <<enginesOwn, data_buf, flags, pending, m_BulkPos,
                            m_BulkSize, chan, waiting, result, given,
                            lastCommand, owed>>

TestBulk == /\ pcG = "bulkTest"
            /\ m_BulkPos # -1
            /\ pcG' = "request"
            /\ UNCHANGED <<enginesOwn, data_buf, flags, pending, bulk, chan,
                           waiting, result, given, lastCommand, owed>>

BulkReturns == /\ pcG = "bulkTest"
               /\ m_BulkPos = -1
               /\ Return
               /\ UNCHANGED <<enginesOwn, data_buf, flags, pending, bulk, got,
                              given, lastCommand>>

\* GetData of one chunk, straight into dest or, at its end, by way of tempbuf.
GetChunk ==
    /\ pcG = "getData"
    /\ chan \in Bulks
    /\ dest' = [k \in DOMAIN dest |->
                  IF k - pos \in DOMAIN transfer THEN transfer[k - pos] ELSE dest[k]]
    /\ pos' = pos + ChunkSize
    /\ pcG' = "bulkTest"
    /\ UNCHANGED <<enginesOwn, data_buf, flags, pending, bulk, chan, waiting, got,
                   given, lastCommand, owed>>

BulkTransfer == \/ SetBulkSize \/ BeginSetBulkID \/ SetBulkID
                \/ TestBulk \/ GetChunk \/ BulkReturns

-----------------------------------------------------------------------------
(* StreamPatchIn: with the engine frozen the device reads its settings from *)
(* the patch, and FlushChannels takes them over into the handler's copies.  *)

Freeze == /\ pcG = "idle" /\ pcA = "idle" /\ given < MaxGiven
          /\ pcG' = "frozen"
          /\ UNCHANGED <<enginesOwn, data_buf, flags, pending, bulk, chan, waiting,
                         result, given, lastCommand, owed>>

LoadSettings ==
    /\ pcG = "frozen"
    /\ given' = given + 1
    /\ data' = [c \in Valued |-> IF c \in Inputs THEN given' ELSE data[c]]
    /\ pcG' = "loaded"
    /\ UNCHANGED <<current, m_UpdateIndicator, transfer, exchange, pcA, version,
                   executed, data_buf, flags, pending, bulk, chan, waiting,
                   result, lastCommand, owed>>

\* Mistake: only what the device sends is initialised.
FlushOutputsOnly ==
    /\ pcG = "flush"
    /\ data_buf' = [c \in Valued |-> IF c \in Inputs THEN data_buf[c] ELSE data[c]]
    /\ pcG' = "thaw"
    /\ UNCHANGED <<enginesOwn, flags, pending, bulk, chan, waiting, result, given,
                   lastCommand, owed>>

FlushChannels ==
    /\ pcG = "flush"
    /\ data_buf' = data
    /\ pcG' = "thaw"
    /\ UNCHANGED <<enginesOwn, flags, pending, bulk, chan, waiting, result, given,
                   lastCommand, owed>>

Thaw == /\ pcG = "thaw"
        /\ pcG' = "idle"
        /\ UNCHANGED <<enginesOwn, data_buf, flags, pending, bulk, chan, waiting,
                       result, given, lastCommand, owed>>

-----------------------------------------------------------------------------
Call == \/ \E c \in Inputs : CallSetData(c)
        \/ \E c \in Requests : CallRequest(c)
        \/ \E c \in Outputs : CallGetData(c)
        \/ \E c \in Bulks, size \in Sizes : CallBulkTransfer(c, size)
        \/ CallSetCommand
        \/ CallWait
        \/ Freeze

\* What the editor's thread does once it is inside a call.
Continue == \/ Lock
            \/ SetData \/ SetCommand \/ GetData
            \/ Wait
            \/ RequestChannelAndWait
            \/ BulkTransfer
            \/ LoadSettings \/ FlushChannels \/ Thaw

Next == Cycle \/ Call \/ Continue

Spec == Init /\ [][Next]_vars

\* The poll of Wait falls into a time when the indicator has changed.
SeeChange == Lock /\ pcG = "poll" /\ m_UpdateIndicator # last

\* Both threads keep running, and whoever waits for the mutex gets it in the
\* end: the engine has it once a cycle, for a few copies.  The editor polls with
\* an unsynchronised usleep(10) between two critical sections of a few
\* instructions: not every trylock of the engine meets one of them, and not
\* every poll comes after an even number of exchanges.
FairSpec == /\ Spec
            /\ WF_vars(Cycle) /\ SF_vars(Continue)
            /\ []<><<TryLock>>_vars
            /\ SF_vars(SeeChange)

-----------------------------------------------------------------------------
Times == 0..MaxGiven
Versions == 0..MaxVersion

TypeOK == /\ data \in [Valued -> Nat]
          /\ data_buf \in [Valued -> Nat]
          /\ requested \in [Requests \cup Bulks -> BOOLEAN]
          /\ updated \in [Requests \cup Bulks -> BOOLEAN]
          /\ {current, pending, given, lastCommand, executed} \subseteq Times
          /\ {m_UpdateIndicator, last} \subseteq BOOLEAN
          /\ m_BulkPos \in Int /\ m_BulkSize \in Nat
          /\ m_BulkID \in Bulks \cup {NoID}
          /\ transfer \in [0..ChunkSize-1 -> Int]
          /\ unseen \subseteq Requests \cup Bulks
          /\ visit \in Requests \cup Bulks \cup {NoID}
          /\ pcA = "serve" => visit \in unseen
          /\ match \in BOOLEAN
          /\ pcA \in {"idle", "try", "walk", "serve", "execute"}
          /\ pcG \in Held \cup DOMAIN Section \cup
                     {"idle", "bulkSize", "bulkID", "assignID", "bulkTest",
                      "frozen", "thaw"}
          /\ chan \in IDs \cup {NoID}
          /\ round \in 0..Rounds
          /\ version \in Versions

\* A command meets its arguments: when the device executes it, everything the
\* editor had set before SetCommand has reached the device's variables.
ArgumentsArrive ==
    pcA = "execute" /\ current # 0 =>
        \A c \in Inputs : data_buf[c] # data[c] => data_buf[c] > current

\* A command runs once and in time.  "Delays for one or more updates. use for
\* syncing commands" (ChannelHandler.h:116): when Wait returns, the command
\* that the editor set last before it has been executed; and what has been
\* executed is never executed again, though an exchange that misses brings
\* nothing in its place (ChannelHandler.cpp:60-62).
WaitSyncsCommands ==
    [][/\ pcG = "pollIndicator" /\ pcG' = "idle" => executed >= owed
       /\ current # 0 /\ pcA = "execute" /\ pcA' = "idle"
             => executed < executed']_vars

\* RequestChannelAndWait brings an answer to THIS request: what the GetData
\* after it reads is no older than the device's value when it was made.
AnswerIsFresh == [][pcG = "getData" /\ pcG' = "idle" => got' >= owed]_vars

\* BulkTransfer, at its end, has filled the destination with the source, byte
\* for byte, whatever the relation of its size to the channel's.
BulkComplete ==
    pcG = "bulkTest" /\ m_BulkPos = -1 => \A k \in DOMAIN dest : dest[k] = k

\* The exchange compares m_BulkID at any time, also while BulkTransfer assigns
\* it without the mutex, but it acts on the comparison, and reads and moves
\* m_BulkPos, only while the editor waits for that answer, with the ID that
\* stands: a comparison made before the request was raised is never used.
BulkFieldsAtRest ==
    pcA = "serve" /\ requested[visit] =>
        pcG = "await" /\ match = (visit = m_BulkID)

\* "Loaded INPUT values must survive the first tick even without an editor"
\* (SpiralSynthModular.C:1567): no exchange gives a device an older value than
\* the one it has, be that from the editor or from the patch.
NothingReverts == [][\A c \in Inputs : data'[c] >= data[c]]_vars

\* Every call of the editor returns.
CallsReturn == (pcG # "idle") ~> (pcG = "idle")

\* The last command given is executed in the end, or a later one is.
CommandsRun == \A n \in 1..MaxGiven : (pending = n) ~> (executed >= n)
=============================================================================
