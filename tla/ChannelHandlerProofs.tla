-------------------------- MODULE ChannelHandlerProofs --------------------------
(***************************************************************************)
(* Proofs about ChannelHandler, for any channels, sizes of chunks and of   *)
(* bulk sources: a command meets its arguments, runs once and is over when *)
(* Wait returns; an answer is fresh; a bulk transfer is complete and its   *)
(* unlocked fields are used at rest only; no exchange reverts an input.    *)
(***************************************************************************)
EXTENDS ChannelHandler, FiniteSetTheorems, TLAPS

Waits == {"waitRound", "readIndicator", "poll", "pollIndicator"}
Asks == {"request", "raiseRequest"}
Awaits == {"await", "readUpdated"}
Retires == {"retire", "clearRequest"}
Fetches == {"fetch", "getData"}
Tests == {"bulkSize", "bulkID", "assignID", "bulkTest"}
Stops == {"frozen", "loaded", "flush", "thaw"}

\* TypeOK says too little of the locals of a call and of the history.
Locals == /\ owed \in Nat /\ got \in Nat /\ pos \in Nat
          /\ {current, pending, lastCommand, executed} \subseteq 0 .. given
          /\ pcG \in {"setData", "setCommand", "frozen"} => given < MaxGiven

\* What each place of the editor's thread knows of its channel.
Channel == /\ pcG \in {"idle", "setCommand"} \cup Waits \cup Stops <=> chan = NoID
           /\ pcG = "setData" => chan \in Inputs
           /\ pcG \in Asks \cup Awaits \cup Retires => chan \in Requests \cup Bulks
           /\ pcG \in Fetches => chan \in Outputs \cup Requests \cup Bulks
           /\ pcG \in Tests => chan \in Bulks

\* Nothing runs in a device that is being loaded.
Stopped == Frozen => pcA = "idle"

\* An exchange has the mutex to itself, and the editor's values as they are.
Alone == Exchanging => pcG \notin Held /\ \A c \in Inputs : data[c] = data_buf[c]

\* A flag is up only for the one request of the editor that is under way, and
\* then one of the two is.
Flags == /\ \A c \in Requests \cup Bulks :
               requested[c] \/ updated[c] => c = chan /\ pcG \in Awaits \cup Retires
         /\ pcG \in Awaits => requested[chan] = ~updated[chan]
         /\ pcG \in Retires => updated[chan] /\ ~requested[chan]

\* An answer has come, and has not been used up.
HasAnswer == \/ pcG \in Awaits /\ updated[chan]
             \/ pcG \in Retires \cup Fetches

\* The device's outputs are of its version, and what the answer brought is of
\* the version of the request or a later one.
Answers == /\ \A c \in Outputs \cup Requests : data[c] = version /\ data_buf[c] <= version
           /\ pcG \in Awaits \cup Retires => owed <= version
           /\ pcG \in Fetches => owed <= version /\ (chan \in Outputs => owed = 0)
           /\ HasAnswer /\ chan \in Requests => data_buf[chan] >= owed

\* The editor's copies of the inputs are ahead of the device, but for settings
\* that have just been loaded.
Ahead == \A c \in Inputs :
            /\ data[c] <= given /\ data_buf[c] <= given
            /\ pcG \notin {"loaded", "flush"} => data[c] <= data_buf[c]

\* Where the last command is: waiting, handed over, or executed.
Commands == /\ executed <= lastCommand
            /\ pending # 0 => pending = lastCommand /\ executed < pending
            /\ pending = 0 => \/ executed = lastCommand
                              \/ pcA = "execute" /\ current = lastCommand
            /\ pcA = "try" \/ Exchanging => current = 0
            /\ pcA = "execute" /\ current # 0 =>
                  /\ executed < current /\ current <= lastCommand
                  /\ pending # 0 => current < pending

\* One change of the indicator since the round began: the command has been
\* handed over when that exchange ends.  Another, since that was seen: it has been executed.
Rounding == /\ pcG \in Waits => owed = lastCommand /\ round \in {0, 1}
            /\ pcG \in Waits /\ round = 1 => pending = 0
            /\ pcG \in {"poll", "pollIndicator"} /\ m_UpdateIndicator # last =>
                  /\ ~Exchanging => pending = 0
                  /\ round = 1 => executed = lastCommand

\* The destination is filled up to pos.
Filled == \A k \in DOMAIN dest : k < pos => dest[k] = k

\* The piece at pos, or the rest of the source where that is shorter, is in
\* the channel, and the position is that of the next one.
Delivered ==
    /\ \A k \in 0 .. ChunkSize - 1 : pos + k < m_BulkSize => transfer[k] = pos + k
    /\ IF pos + ChunkSize > m_BulkSize THEN m_BulkPos = -1
                                       ELSE m_BulkPos = pos + ChunkSize

Bulk == chan \in Bulks =>
    /\ Filled
    /\ pcG = "bulkSize" => \E size \in Sizes : dest \in [0 .. size - 1 -> Int]
    /\ pcG # "bulkSize" => dest \in [0 .. m_BulkSize - 1 -> Int]
    /\ pcG \notin {"bulkSize", "bulkID", "assignID"} => m_BulkID = chan
    /\ \/ m_BulkPos = pos /\ ~HasAnswer
       \/ m_BulkPos = -1 /\ pos > m_BulkSize /\ pcG = "bulkTest"
       \/ Delivered /\ HasAnswer

IInv == /\ TypeOK /\ Locals /\ Channel /\ Stopped /\ Alone /\ Flags /\ Answers /\ Ahead
        /\ Commands /\ Rounding /\ Bulk /\ ArgumentsArrive /\ BulkFieldsAtRest

LEMMA Places == /\ DOMAIN Section = {"waitRound", "poll", "request", "await", "retire",
                                     "fetch", "loaded"}
                /\ Held = {"readIndicator", "pollIndicator", "raiseRequest", "readUpdated",
                           "clearRequest", "getData", "flush", "setData", "setCommand"}
<1>1. DOMAIN Section = {"waitRound", "poll", "request", "await", "retire", "fetch", "loaded"}
    BY DEF Section
<1>2. Held = {"readIndicator", "pollIndicator", "raiseRequest", "readUpdated",
              "clearRequest", "getData", "flush", "setData", "setCommand"}
    BY <1>1 DEF Held, Section
<1> QED
    BY <1>1, <1>2

LEMMA InitIInv == Init => IInv
<1> USE IDsAssumption, SizesAssumption, Places DEF Init, IDs, Valued, Times, Versions,
        Exchanging, Waits, Asks, Awaits, Retires, Fetches, Tests, Stops, Rounds, HasAnswer, Frozen
<1>1. Init => TypeOK /\ Locals
    <2> SUFFICES ASSUME Init PROVE TypeOK /\ Locals
        OBVIOUS
    <2>1. transfer \in [0 .. ChunkSize - 1 -> Int]
        OBVIOUS
    <2> QED
        BY <2>1 DEF TypeOK, Locals
<1>2. Init => Channel /\ Stopped /\ Alone /\ Flags /\ Answers
    BY DEF Channel, Stopped, Alone, Flags, Answers
<1>3. Init => /\ Ahead /\ Commands /\ Rounding /\ Bulk /\ ArgumentsArrive
              /\ BulkFieldsAtRest
    BY DEF ArgumentsArrive, BulkFieldsAtRest, Ahead, Commands, Rounding, Bulk
<1> QED
    BY <1>1, <1>2, <1>3 DEF IInv

-----------------------------------------------------------------------------

\* The engine's cycle.
LEMMA CycleIInv == IInv /\ Cycle => IInv'
<1> SUFFICES ASSUME IInv, Cycle PROVE IInv'
    OBVIOUS
<1> USE IDsAssumption, SizesAssumption, Places DEF IInv, TypeOK, Locals, Channel,
   Stopped, Alone, Flags, Answers, Ahead, Commands, Rounding, ArgumentsArrive,
   BulkFieldsAtRest, Exchanging, Frozen, HasAnswer, IDs,
   Valued, Times, Versions, Waits, Asks, Awaits, Retires, Fetches, Tests, Stops, Rounds,
   editorsOwn, waiting, result, flags, bulk, exchange
<1>1. CASE BeginUpdate
    BY SMTT(30), <1>1 DEF BeginUpdate, Bulk, Filled, Delivered
<1>2. CASE TryLock
    <2> USE <1>2 DEF TryLock
    <2>1. TypeOK' /\ Locals'
        OBVIOUS
    <2>2. Channel' /\ Stopped' /\ Alone' /\ Flags' /\ Answers'
        OBVIOUS
    <2>3. Ahead' /\ Commands' /\ Rounding' /\ ArgumentsArrive' /\ BulkFieldsAtRest'
        OBVIOUS
    <2>4. Bulk'
        BY DEF Bulk, Filled, Delivered
    <2> QED
        BY <2>1, <2>2, <2>3, <2>4
<1>3. ASSUME NEW c \in unseen, CompareID(c) PROVE IInv'
    <2> USE <1>3 DEF CompareID
    <2>1. TypeOK' /\ Locals'
        OBVIOUS
    <2>2. Channel' /\ Stopped' /\ Alone' /\ Flags' /\ Answers'
        OBVIOUS
    <2>3. Ahead' /\ Commands' /\ Rounding' /\ ArgumentsArrive'
        OBVIOUS
    <2>4. Bulk'
        BY DEF Bulk, Filled, Delivered
    <2>5. BulkFieldsAtRest'
        OBVIOUS
    <2> QED
        BY <2>1, <2>2, <2>3, <2>4, <2>5
<1>4. CASE Answer
    <2> USE <1>4 DEF Answer, Answering, GoOn
    <2>1. /\ pcG = "await" /\ visit = chan /\ match = (chan = m_BulkID)
          /\ requested[chan] /\ ~updated[chan] /\ chan \in Requests \cup Bulks
        OBVIOUS
    <2>2. chan \in Bulks => match /\ m_BulkPos = pos
        BY <2>1 DEF Bulk
    <2>3. chan \notin Bulks => ~match
        BY <2>1
    <2>4. /\ chan \in Bulks => CopyPiece
          /\ chan \notin Bulks => CopyPlain
        BY <2>2, <2>3
    <2>5. data_buf' = [c \in Valued |-> IF c = chan THEN data[c] ELSE data_buf[c]]
        <3>1. CASE chan \in Bulks
            BY <2>1, <2>4, <3>1 DEF CopyPiece
        <3>2. CASE chan \notin Bulks
            BY <2>1, <2>4, <3>2 DEF CopyPlain
        <3> QED
            BY <3>1, <3>2
    <2>6. m_BulkPos' \in Int /\ transfer' \in [0 .. ChunkSize - 1 -> Int]
        <3>1. Piece \in [0 .. ChunkSize - 1 -> Int]
            BY DEF Piece
        <3> QED
            BY SMTT(30), <2>1, <2>4, <3>1 DEF CopyPiece, CopyPlain
    <2>7. TypeOK' /\ Locals'
        BY <2>1, <2>5, <2>6
    <2>8. Channel' /\ Stopped' /\ Flags' /\ Commands' /\ Rounding'
        BY <2>1
    <2>9. Alone' /\ Ahead' /\ ArgumentsArrive' /\ BulkFieldsAtRest'
        BY <2>1, <2>5
    <2>10. Answers'
        BY <2>1, <2>5
    <2>11. Bulk'
        <3> SUFFICES ASSUME chan \in Bulks PROVE Bulk'
            BY DEF Bulk
        <3>1. transfer' = Piece /\ m_BulkPos = pos
            BY <2>1, <2>2, <2>4 DEF CopyPiece
        <3>2. HasAnswer' /\ Delivered'
            BY <2>1, <2>2, <2>4, <3>1 DEF CopyPiece, Delivered, Piece, LastChunk, ChunkLength,
               Bulk
        <3> QED
            BY <2>1, <3>2 DEF Bulk, Filled
    <2> QED
        BY <2>7, <2>8, <2>9, <2>10, <2>11
<1>5. CASE PassOver
    <2> USE <1>5 DEF PassOver, GoOn
    <2>1. TypeOK' /\ Locals'
        OBVIOUS
    <2>2. Channel' /\ Stopped' /\ Alone' /\ Flags' /\ Answers'
        OBVIOUS
    <2>3. Ahead' /\ Commands' /\ Rounding' /\ ArgumentsArrive' /\ BulkFieldsAtRest'
        OBVIOUS
    <2>4. Bulk'
        BY DEF Bulk, Filled, Delivered
    <2> QED
        BY <2>1, <2>2, <2>3, <2>4
<1>6. CASE Unlock
    <2> USE <1>6 DEF Unlock
    <2>1. TypeOK' /\ Locals'
        OBVIOUS
    <2>2. Channel' /\ Stopped' /\ Alone' /\ Flags' /\ Answers'
        OBVIOUS
    <2>3. Ahead' /\ Commands' /\ Rounding' /\ ArgumentsArrive' /\ BulkFieldsAtRest'
        OBVIOUS
    <2>4. Bulk'
        BY DEF Bulk, Filled, Delivered
    <2> QED
        BY <2>1, <2>2, <2>3, <2>4
<1>7. CASE Miss
    BY <1>7 DEF Miss, Bulk, Filled, Delivered
<1>8. CASE Execute
    BY SMTT(30), <1>8 DEF Execute, Bulk, Filled, Delivered
<1> QED
    BY <1>1, <1>2, <1>3, <1>4, <1>5, <1>6, <1>7, <1>8 DEF Cycle, Exchange

-----------------------------------------------------------------------------
\* The editor enters a call.
LEMMA CallIInv == IInv /\ Call => IInv'
<1> SUFFICES ASSUME IInv, Call PROVE IInv'
    OBVIOUS
<1> USE IDsAssumption, SizesAssumption, Places DEF IInv, TypeOK, Locals, Channel,
   Stopped, Alone, Flags, Answers, Ahead, Commands, Rounding, ArgumentsArrive, Bulk, Filled,
   BulkFieldsAtRest, Exchanging, Frozen, HasAnswer, IDs,
   Valued, Times, Versions, Waits, Asks, Awaits, Retires, Fetches, Tests, Stops, Rounds,
   enginesOwn, waiting, result, flags, bulk, exchange
<1>1. ASSUME NEW c \in Inputs, CallSetData(c) PROVE IInv'
    BY SMTT(30), <1>1 DEF CallSetData
<1>2. ASSUME NEW c \in Requests, CallRequest(c) PROVE IInv'
    BY <1>2 DEF CallRequest
<1>3. ASSUME NEW c \in Outputs, CallGetData(c) PROVE IInv'
    BY <1>3 DEF CallGetData
<1>4. ASSUME NEW c \in Bulks, NEW size \in Sizes, CallBulkTransfer(c, size) PROVE IInv'
    BY <1>4 DEF CallBulkTransfer
<1>5. CASE CallSetCommand
    BY <1>5 DEF CallSetCommand
<1>6. CASE CallWait
    BY <1>6 DEF CallWait
<1>7. CASE Freeze
    BY SMTT(30), <1>7 DEF Freeze
<1> QED
    BY <1>1, <1>2, <1>3, <1>4, <1>5, <1>6, <1>7 DEF Call

\* The editor goes on with one.
LEMMA ContinueIInv == IInv /\ Continue => IInv'
<1> SUFFICES ASSUME IInv, Continue PROVE IInv'
    OBVIOUS
<1> USE IDsAssumption, SizesAssumption, Places DEF IInv, TypeOK, Locals, Channel,
   Stopped, Alone, Flags, Answers, Ahead, Commands, Rounding, ArgumentsArrive, Bulk, Filled,
   BulkFieldsAtRest, Exchanging, Frozen, HasAnswer, IDs,
   Valued, Times, Versions, Waits, Asks, Awaits, Retires, Fetches, Tests, Stops, Rounds,
   enginesOwn, waiting, result, flags, bulk, exchange
<1>1. CASE Lock
    <2> USE <1>1 DEF Lock
    <2> DEFINE Enters(p, q) == pcG = p /\ pcG' = q
    <2>0. \/ Enters("waitRound", "readIndicator") \/ Enters("poll", "pollIndicator")
          \/ Enters("request", "raiseRequest") \/ Enters("await", "readUpdated")
          \/ Enters("retire", "clearRequest") \/ Enters("fetch", "getData")
          \/ Enters("loaded", "flush")
        BY DEF Section
    <2> USE <2>0
    <2>1. TypeOK' /\ Locals'
        OBVIOUS
    <2>2. Channel' /\ Stopped' /\ Alone' /\ Flags'
        OBVIOUS
    <2>3. Answers'
        OBVIOUS
    <2>4. Ahead' /\ Commands' /\ ArgumentsArrive'
        OBVIOUS
    <2>5. Rounding' /\ BulkFieldsAtRest'
        OBVIOUS
    <2>6. Bulk'
        BY DEF Delivered
    <2> QED
        BY <2>1, <2>2, <2>3, <2>4, <2>5, <2>6
<1>2. CASE SetData
    <2> USE <1>2 DEF SetData, Return
    <2>0. {m_UpdateIndicator', last'} \subseteq BOOLEAN
        OBVIOUS
    <2>1. TypeOK' /\ Locals'
        BY <2>0
    <2>2. Channel' /\ Stopped' /\ Alone' /\ Flags'
        OBVIOUS
    <2>3. Answers'
        OBVIOUS
    <2>4. Ahead'
        BY SMTT(30)
    <2>5. Rounding' /\ BulkFieldsAtRest'
        OBVIOUS
    <2>6. Bulk'
        OBVIOUS
    <2>7. Commands'
        OBVIOUS
    <2>8. ArgumentsArrive'
        BY SMTT(30)
    <2> QED
        BY <2>1, <2>2, <2>3, <2>4, <2>5, <2>6, <2>7, <2>8
<1>3. CASE SetCommand
    <2> USE <1>3 DEF SetCommand, Return
    <2>0. {m_UpdateIndicator', last'} \subseteq BOOLEAN
        OBVIOUS
    <2>1. TypeOK' /\ Locals'
        BY <2>0
    <2>2. Channel' /\ Stopped' /\ Alone' /\ Flags'
        OBVIOUS
    <2>3. Answers'
        OBVIOUS
    <2>4. Ahead' /\ Commands' /\ ArgumentsArrive'
        OBVIOUS
    <2>5. Rounding' /\ BulkFieldsAtRest'
        OBVIOUS
    <2>6. Bulk'
        OBVIOUS
    <2> QED
        BY <2>1, <2>2, <2>3, <2>4, <2>5, <2>6
<1>4. CASE GetData
    <2> USE <1>4 DEF GetData, Return
    <2>0. {m_UpdateIndicator', last'} \subseteq BOOLEAN
        OBVIOUS
    <2>1. TypeOK' /\ Locals'
        BY SMTT(30), <2>0
    <2>2. Channel' /\ Stopped' /\ Alone' /\ Flags'
        OBVIOUS
    <2>3. Answers'
        OBVIOUS
    <2>4. Ahead' /\ Commands' /\ ArgumentsArrive'
        OBVIOUS
    <2>5. Rounding' /\ BulkFieldsAtRest'
        OBVIOUS
    <2>6. Bulk'
        OBVIOUS
    <2> QED
        BY <2>1, <2>2, <2>3, <2>4, <2>5, <2>6
<1>5. CASE Wait
    <2>1. CASE ReadIndicator
        BY <2>1 DEF ReadIndicator
    <2>2. CASE SameIndicator
        BY <2>2 DEF SameIndicator
    <2>3. CASE OtherIndicator
        BY <2>3 DEF OtherIndicator
    <2>4. CASE WaitReturns
        <3> USE <2>4 DEF WaitReturns, Return
        <3>0. {m_UpdateIndicator', last'} \subseteq BOOLEAN
            OBVIOUS
        <3>1. TypeOK' /\ Locals'
            BY <3>0
        <3>2. Channel' /\ Stopped' /\ Alone' /\ Flags' /\ Answers'
            OBVIOUS
        <3>3. Ahead' /\ Commands' /\ ArgumentsArrive' /\ BulkFieldsAtRest' /\ Rounding' /\ Bulk'
            OBVIOUS
        <3> QED
            BY <3>1, <3>2, <3>3
    <2> QED
        BY <1>5, <2>1, <2>2, <2>3, <2>4 DEF Wait
<1>6. CASE RaiseRequest
    <2> USE <1>6 DEF RaiseRequest
    <2>1. TypeOK' /\ Locals'
        OBVIOUS
    <2>2. Channel' /\ Stopped' /\ Alone' /\ Flags'
        OBVIOUS
    <2>3. Answers'
        OBVIOUS
    <2>4. Ahead' /\ Commands' /\ ArgumentsArrive'
        OBVIOUS
    <2>5. Rounding' /\ BulkFieldsAtRest'
        OBVIOUS
    <2>6. Bulk'
        OBVIOUS
    <2> QED
        BY <2>1, <2>2, <2>3, <2>4, <2>5, <2>6
<1>7. CASE ReadUpdated
    BY SMTT(30), <1>7 DEF ReadUpdated, Delivered
<1>8. CASE ClearRequest
    BY SMTT(30), <1>8 DEF ClearRequest, Delivered
<1>9. CASE SetBulkSize
    <2> USE <1>9 DEF SetBulkSize
    <2>0. PICK size \in Sizes : dest \in [0 .. size - 1 -> Int]
        OBVIOUS
    <2>a. Cardinality(DOMAIN dest) = size
        BY <2>0, FS_Interval, 0 \in Int, size - 1 \in Int
    <2> USE <2>0, <2>a
    <2>1. TypeOK' /\ Locals'
        OBVIOUS
    <2>2. Channel' /\ Stopped' /\ Alone' /\ Flags'
        OBVIOUS
    <2>3. Answers'
        OBVIOUS
    <2>4. Ahead' /\ Commands' /\ ArgumentsArrive'
        OBVIOUS
    <2>5. Rounding' /\ BulkFieldsAtRest'
        OBVIOUS
    <2>6. Bulk'
        OBVIOUS
    <2> QED
        BY <2>1, <2>2, <2>3, <2>4, <2>5, <2>6
<1>10. CASE BeginSetBulkID
    <2> USE <1>10 DEF BeginSetBulkID
    <2>1. TypeOK' /\ Locals'
        OBVIOUS
    <2>2. Channel' /\ Stopped' /\ Alone' /\ Flags'
        OBVIOUS
    <2>3. Answers'
        OBVIOUS
    <2>4. Ahead' /\ Commands' /\ ArgumentsArrive'
        OBVIOUS
    <2>5. Rounding' /\ BulkFieldsAtRest'
        OBVIOUS
    <2>6. Bulk'
        OBVIOUS
    <2> QED
        BY <2>1, <2>2, <2>3, <2>4, <2>5, <2>6
<1>11. CASE SetBulkID
    <2> USE <1>11 DEF SetBulkID
    <2>1. TypeOK' /\ Locals'
        OBVIOUS
    <2>2. Channel' /\ Stopped' /\ Alone' /\ Flags'
        OBVIOUS
    <2>3. Answers'
        OBVIOUS
    <2>4. Ahead' /\ Commands' /\ ArgumentsArrive'
        OBVIOUS
    <2>5. Rounding' /\ BulkFieldsAtRest'
        OBVIOUS
    <2>6. Bulk'
        OBVIOUS
    <2> QED
        BY <2>1, <2>2, <2>3, <2>4, <2>5, <2>6
<1>12. CASE TestBulk
    <2> USE <1>12 DEF TestBulk
    <2>1. TypeOK' /\ Locals'
        OBVIOUS
    <2>2. Channel' /\ Stopped' /\ Alone' /\ Flags'
        OBVIOUS
    <2>3. Answers'
        OBVIOUS
    <2>4. Ahead' /\ Commands' /\ ArgumentsArrive'
        OBVIOUS
    <2>5. Rounding' /\ BulkFieldsAtRest'
        OBVIOUS
    <2>6. Bulk'
        OBVIOUS
    <2> QED
        BY <2>1, <2>2, <2>3, <2>4, <2>5, <2>6
<1>17. CASE GetChunk
    <2> USE <1>17 DEF GetChunk
    <2>1. TypeOK' /\ Locals'
        OBVIOUS
    <2>2. Channel' /\ Stopped' /\ Alone' /\ Flags'
        OBVIOUS
    <2>3. Answers'
        OBVIOUS
    <2>4. Ahead' /\ Commands' /\ ArgumentsArrive'
        OBVIOUS
    <2>5. Rounding' /\ BulkFieldsAtRest'
        OBVIOUS
    <2>6. Bulk'
        <3>1. Delivered /\ ~HasAnswer' /\ Filled /\ dest \in [0 .. m_BulkSize - 1 -> Int]
            OBVIOUS
        <3>2. Filled'
            BY <3>1 DEF Delivered
        <3>3. \/ m_BulkPos = pos'
              \/ m_BulkPos = -1 /\ pos' > m_BulkSize
            BY <3>1 DEF Delivered
        <3>4. dest' \in [0 .. m_BulkSize - 1 -> Int] /\ m_BulkID = chan
            BY <3>1
        <3> QED
            BY <3>1, <3>2, <3>3, <3>4
    <2> QED
        BY <2>1, <2>2, <2>3, <2>4, <2>5, <2>6
<1>13. CASE BulkReturns
    <2> USE <1>13 DEF BulkReturns, Return
    <2>0. {m_UpdateIndicator', last'} \subseteq BOOLEAN
        OBVIOUS
    <2>1. TypeOK' /\ Locals'
        BY <2>0
    <2>2. Channel' /\ Stopped' /\ Alone' /\ Flags'
        OBVIOUS
    <2>3. Answers'
        OBVIOUS
    <2>4. Ahead' /\ Commands' /\ ArgumentsArrive'
        OBVIOUS
    <2>5. Rounding' /\ BulkFieldsAtRest'
        OBVIOUS
    <2>6. Bulk'
        OBVIOUS
    <2> QED
        BY <2>1, <2>2, <2>3, <2>4, <2>5, <2>6
<1>14. CASE LoadSettings
    <2> USE <1>14 DEF LoadSettings
    <2>0. {m_UpdateIndicator', last'} \subseteq BOOLEAN
        OBVIOUS
    <2>1. TypeOK' /\ Locals'
        BY <2>0
    <2>2. Channel' /\ Stopped' /\ Alone' /\ Flags'
        OBVIOUS
    <2>3. Answers'
        OBVIOUS
    <2>4. Ahead' /\ Commands' /\ ArgumentsArrive'
        OBVIOUS
    <2>5. Rounding' /\ BulkFieldsAtRest'
        OBVIOUS
    <2>6. Bulk'
        OBVIOUS
    <2> QED
        BY <2>1, <2>2, <2>3, <2>4, <2>5, <2>6
<1>15. CASE FlushChannels
    BY <1>15 DEF FlushChannels
<1>16. CASE Thaw
    BY <1>16 DEF Thaw
<1> QED
    BY <1>1, <1>2, <1>3, <1>4, <1>5, <1>6, <1>7, <1>8, <1>9, <1>10, <1>11, <1>12, <1>13,
       <1>14, <1>15, <1>16, <1>17 DEF Continue, RequestChannelAndWait, BulkTransfer

-----------------------------------------------------------------------------

\* The editor's calls leave the engine where it is, and what it has executed.
LEMMA EnginesOwn == Call \/ Continue => UNCHANGED <<current, pcA, executed>>
BY DEF Call, CallSetData, CallSetCommand, CallWait, CallRequest, CallGetData,
   CallBulkTransfer, Freeze, Continue, Lock, SetData, SetCommand, GetData, Wait,
   ReadIndicator, SameIndicator, OtherIndicator, WaitReturns, RequestChannelAndWait,
   RaiseRequest, ReadUpdated, ClearRequest, BulkTransfer, SetBulkSize, BeginSetBulkID,
   SetBulkID, TestBulk, GetChunk, BulkReturns, LoadSettings, FlushChannels, Thaw, enginesOwn

\* The engine leaves the editor where it is.
LEMMA EditorsOwn == Cycle => UNCHANGED <<pcG, chan, owed, got, given, lastCommand>>
BY DEF Cycle, BeginUpdate, Exchange, TryLock, CompareID, Answer, PassOver, GoOn, Unlock, Miss,
   Execute, editorsOwn, result

\* Only WaitReturns and GetData return from where they are.
LEMMA Returns == Call \/ Continue =>
                    /\ pcG = "pollIndicator" /\ pcG' = "idle" => WaitReturns
                    /\ pcG = "getData" /\ pcG' = "idle" => GetData
<1> SUFFICES ASSUME Call \/ Continue, pcG \in {"pollIndicator", "getData"}, pcG' = "idle"
             PROVE  WaitReturns \/ GetData
    BY DEF WaitReturns, GetData
<1>1. ~Call
    BY DEF Call, CallSetData, CallSetCommand, CallWait, CallRequest, CallGetData,
       CallBulkTransfer, Freeze
<1>2. ~Lock
    BY Places DEF Lock
<1>3. ~SameIndicator /\ ~OtherIndicator /\ ~GetChunk
    BY DEF SameIndicator, OtherIndicator, GetChunk
<1> QED
    BY <1>1, <1>2, <1>3 DEF Continue, SetData, SetCommand, GetData, Wait,
       ReadIndicator, RequestChannelAndWait,
       RaiseRequest, ReadUpdated, ClearRequest, BulkTransfer, SetBulkSize, BeginSetBulkID,
       SetBulkID, TestBulk, BulkReturns, LoadSettings, FlushChannels, Thaw

LEMMA StutterIInv == IInv /\ UNCHANGED vars => IInv'
BY DEF vars, flags, bulk, waiting, result, exchange, IInv, TypeOK, Locals, Channel, Stopped,
   Alone, Flags, Answers, Ahead, Commands, Rounding, ArgumentsArrive, BulkFieldsAtRest, Bulk,
   Filled, Delivered, Exchanging, Frozen, HasAnswer

\* IInv is inductive.
THEOREM Invariance == Spec => []IInv
<1>1. IInv /\ [Next]_vars => IInv'
    BY CycleIInv, CallIInv, ContinueIInv, StutterIInv DEF Next
<1> QED
    BY <1>1, InitIInv, PTL DEF Spec

\* Every variable has its type.
THEOREM TypeCorrect == Spec => []TypeOK
<1>1. IInv => TypeOK
    BY DEF IInv
<1> QED
    BY <1>1, Invariance, PTL

\* A command that is executed meets the values that were set before it.
THEOREM CommandsMeetArguments == Spec => []ArgumentsArrive
<1>1. IInv => ArgumentsArrive
    BY DEF IInv
<1> QED
    BY <1>1, Invariance, PTL

\* A bulk transfer that ends has copied the whole source.
THEOREM BulksAreComplete == Spec => []BulkComplete
<1>1. IInv => BulkComplete
    <2> SUFFICES ASSUME IInv, pcG = "bulkTest", m_BulkPos = -1,
                        NEW k \in DOMAIN dest
                 PROVE  dest[k] = k
        BY DEF BulkComplete
    <2>1. chan \in Bulks /\ ~HasAnswer
        BY DEF IInv, Channel, Tests, HasAnswer, Awaits, Retires, Fetches
    <2>2. pos > m_BulkSize /\ dest \in [0 .. m_BulkSize - 1 -> Int] /\ Filled
        BY <2>1 DEF IInv, Bulk, Locals
    <2>3. k < pos
        BY <2>2 DEF IInv, Locals, TypeOK
    <2> QED
        BY <2>2, <2>3 DEF Filled
<1> QED
    BY <1>1, Invariance, PTL

\* The exchange acts on a comparison with m_BulkID only while BulkTransfer leaves
\* its fields alone, though it makes one at any time.
THEOREM BulkFieldsAreAtRest == Spec => []BulkFieldsAtRest
<1>1. IInv => BulkFieldsAtRest
    BY DEF IInv
<1> QED
    BY <1>1, Invariance, PTL

\* When Wait returns the last command is over, and no command runs twice.
THEOREM CommandsAreOver == Spec => WaitSyncsCommands
<1> DEFINE P == /\ pcG = "pollIndicator" /\ pcG' = "idle" => executed >= owed
                /\ current # 0 /\ pcA = "execute" /\ pcA' = "idle"
                      => executed < executed'
<1>1. ASSUME IInv, Next PROVE P
    <2>1. CASE Cycle
        <3>1. pcG = "pollIndicator" => pcG' # "idle"
            BY <2>1, EditorsOwn
        <3>2. current # 0 /\ pcA = "execute" /\ pcA' = "idle" => executed < executed'
            BY <1>1, <2>1 DEF Cycle, BeginUpdate, Exchange, TryLock, CompareID, Answer,
               PassOver, GoOn, Unlock, Miss, Execute, IInv, Commands
        <3> QED
            BY <3>1, <3>2
    <2>2. CASE Call \/ Continue
        <3>1. WaitReturns => executed >= owed
            BY <1>1, Places DEF WaitReturns, IInv, TypeOK, Locals, Rounding, Commands,
               Waits, Rounds
        <3> QED
            BY <2>2, <3>1, EnginesOwn, Returns
    <2> QED
        BY <1>1, <2>1, <2>2 DEF Next
<1>2. UNCHANGED vars => P
    BY DEF vars
<1> QED
    BY <1>1, <1>2, Invariance, PTL DEF Spec, WaitSyncsCommands

\* What is fetched after a request is no older than the request.
THEOREM AnswersAreFresh == Spec => AnswerIsFresh
<1>1. ASSUME IInv, Next PROVE pcG = "getData" /\ pcG' = "idle" => got' >= owed
    <2>1. CASE Cycle
        BY <2>1, EditorsOwn
    <2>2. CASE Call \/ Continue
        <3>1. GetData => got' >= owed
            BY <1>1, IDsAssumption DEF GetData, IInv, TypeOK, Locals, Channel, Answers,
               HasAnswer, Fetches, Valued, IDs
        <3> QED
            BY <2>2, <3>1, Returns
    <2> QED
        BY <1>1, <2>1, <2>2 DEF Next
<1>2. UNCHANGED vars => ~(pcG = "getData" /\ pcG' = "idle")
    BY DEF vars
<1> QED
    BY <1>1, <1>2, Invariance, PTL DEF Spec, AnswerIsFresh

\* No input of the device ever goes back to an older value.
THEOREM InputsNeverRevert == Spec => NothingReverts
<1> DEFINE P == \A c \in Inputs : data'[c] >= data[c]
<1>1. ASSUME IInv, Next PROVE P
    <2>0. \A c \in Inputs : data[c] \in Nat /\ data_buf[c] \in Nat
        BY <1>1 DEF IInv, TypeOK, Valued
    <2>1. CASE TryLock
        BY <1>1, <2>0, <2>1 DEF TryLock, IInv, Ahead, Stopped, Frozen, Valued
    <2>2. CASE LoadSettings
        BY <1>1, <2>0, <2>2 DEF LoadSettings, IInv, Ahead, Valued, TypeOK, Times
    <2>3. CASE Execute
        BY <2>0, <2>3 DEF Execute, Valued
    <2>4. CASE ~(TryLock \/ LoadSettings \/ Execute)
        <3>1. UNCHANGED data
            BY <1>1, <2>4 DEF Next, Cycle, BeginUpdate, Exchange, CompareID, Answer,
               PassOver, GoOn, Unlock, Miss, Call, CallSetData,
               CallSetCommand, CallWait, CallRequest, CallGetData,
               CallBulkTransfer, Freeze, Continue, Lock, SetData, SetCommand, GetData, Wait,
               ReadIndicator, SameIndicator, OtherIndicator, WaitReturns,
               RequestChannelAndWait, RaiseRequest, ReadUpdated, ClearRequest,
               BulkTransfer, SetBulkSize, BeginSetBulkID, SetBulkID, TestBulk,
               GetChunk, BulkReturns, FlushChannels, Thaw, enginesOwn
        <3> QED
            BY <2>0, <3>1
    <2> QED
        BY <2>1, <2>2, <2>3, <2>4
<1>2. ASSUME IInv, UNCHANGED vars PROVE P
    BY <1>2 DEF vars, IInv, TypeOK, Valued
<1> QED
    BY <1>1, <1>2, Invariance, PTL DEF Spec, NothingReverts
=============================================================================
