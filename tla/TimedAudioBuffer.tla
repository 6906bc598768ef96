--------------------------- MODULE TimedAudioBuffer ---------------------------
(***************************************************************************)
(* The queue between the engine and a driver's callback                    *)
(* (libs/libspiralcore/Audio/src/TimedAudioBuffer.cpp).  One thread writes *)
(* blocks of samples stamped with the time each is to be heard; another    *)
(* reads the samples due at the times it asks for.  Neither locks.         *)
(*                                                                         *)
(* For playback the engine writes and the driver reads, for capture it is  *)
(* the other way round.  The engine alone moves the generation, between    *)
(* two of its own calls; the driver loads it once per transfer, before its *)
(* call (AudioStream.cpp:164).                                             *)
(*                                                                         *)
(* Times are integers, fine enough that the tolerances of the code fall    *)
(* between two of them.  A sample is its frame number.                     *)
(***************************************************************************)
EXTENDS Integers, Sequences, FiniteSets, SequencesExt

CONSTANTS Width,      \* the counters are taken modulo this (2^32)
          Capacity,   \* slots
          Taps,       \* length of the resampler's filter
          InStep,     \* time between two samples written
          OutStep,    \* and between two samples read
          Blocks,     \* lengths of a Write
          Periods,    \* lengths of a Read
          Early,      \* how far a stamp may be off, to either side
          Missed,     \* how much time the reader may miss
          Back,       \* and by how much its time may go back
          Shifts,     \* by how many samples the writer's time may jump
          \* bounds on what is explored
          MaxFrame, MaxTime, MaxGeneration, MaxOdd

ASSUME SizesAssumption ==
    /\ Capacity \in Nat /\ Width \in Nat /\ Taps \in Nat
    /\ Taps % 2 = 0 /\ 0 < Taps /\ Taps < Capacity
    /\ Capacity < Width /\ Width % Capacity = 0
    /\ InStep \in Nat \ {0} /\ OutStep \in Nat \ {0}
    /\ Early \in Nat /\ Early < InStep

\* No transfer is empty (TimedAudioBuffer.cpp:68, AudioStream.cpp:107).
ASSUME CallsAssumption ==
    /\ Blocks \subseteq Nat \ {0} /\ Periods \subseteq Nat \ {0}
    /\ {Missed, Back} \subseteq Nat /\ Shifts \subseteq Int

ASSUME BoundsAssumption ==
    /\ {MaxFrame, MaxTime, MaxOdd} \subseteq Nat
    /\ MaxGeneration \in Nat \ {0} /\ Early <= MaxTime

VARIABLES m_Read, m_Write, m_Search, m_Positions,
          m_LastGeneration, m_EndFrame, m_LastTime,
          m_Generation,  \* what the engine has set
          playback,      \* TRUE: the engine writes; FALSE: it reads
          seen,          \* the generation the driver loaded last
          writer,        \* the call of Write under way
          reader,        \* the call of Read under way
          source,        \* frame and time of the next block, as the writer counts
          due,           \* time of the next sample the reader wants
          odd,           \* how many irregularities there have been (bound)
          log,           \* history: the positions of all samples published
          asked          \* history: the furthest time a Read has asked for, and
                         \* the generation it asked for it in

queue == <<m_Read, m_Write, m_Search, m_Positions>>
last == <<m_LastGeneration, m_EndFrame, m_LastTime>>
clocks == <<source, due, odd>>
vars == <<queue, last, m_Generation, playback, seen, writer, reader, clocks, log,
          asked>>

Idle == [pc |-> "idle"]
Position == [Time : Int, Frame : Nat, Generation : Nat]

Init == /\ m_Read = 0 /\ m_Write = 0 /\ m_Search = 0
        /\ m_Positions = [s \in 0 .. Capacity - 1 |-> [Time |-> 0, Frame |-> 0, Generation |-> 0]]
        /\ m_LastGeneration = 0 /\ m_EndFrame = 0 /\ m_LastTime = 0
        /\ m_Generation = 1 /\ seen = 1
        /\ playback \in BOOLEAN
        /\ writer = Idle /\ reader = Idle
        /\ source = [Frame |-> 0, Time |-> Early]
        /\ due = Early
        /\ odd = 0
        /\ log = << >>
        /\ asked = [Generation |-> 0, Time |-> 0]

\* Arithmetic of unsigned counters.
Plus(a, b) == (a + b) % Width
Minus(a, b) == (a - b) % Width
Slot(index) == index % Capacity

\* The generation each side works with.
WriterGeneration == IF playback THEN m_Generation ELSE seen
ReaderGeneration == IF playback THEN seen ELSE m_Generation
EngineIdle == (IF playback THEN writer ELSE reader) = Idle
DriverIdle == (IF playback THEN reader ELSE writer) = Idle

Irregular(b) == /\ odd' = odd + (IF b THEN 1 ELSE 0)
                /\ odd' <= MaxOdd

-----------------------------------------------------------------------------
(* The writer.                                                             *)

\* A block that repeats, reorders or predates what was written is refused.
Fresh(stamp) == ~ \/ /\ m_LastGeneration = stamp.Generation
                     /\ stamp.Frame < m_EndFrame \/ stamp.Time <= m_LastTime
                  \/ m_LastGeneration # 0 /\ stamp.Generation < m_LastGeneration

\* Mistake: room for one more than there are slots.
RoomForMore(frames) == frames <= Capacity + 1 - Minus(m_Write, m_Read)

Room(frames) == frames <= Capacity - Minus(m_Write, m_Read)

\* Every block advances the writer's count, refused or not (PresentationClock
\* commits the period either way): a refused block leaves a hole.
BeginWrite(frames, skip, off) ==
    LET stamp == [Time |-> source.Time + skip * InStep + off,
                  Frame |-> source.Frame + skip,
                  Generation |-> WriterGeneration]
    IN /\ writer = Idle
       /\ stamp.Frame >= 0
       /\ stamp.Frame + frames <= MaxFrame
       /\ Irregular(skip # 0 \/ off # 0)
       /\ source' = [Frame |-> stamp.Frame + frames,
                     Time |-> source.Time + (skip + frames) * InStep]
       /\ writer' = IF Fresh(stamp) /\ Room(frames)
                    THEN [pc |-> "fill", stamp |-> stamp, frames |-> frames, n |-> 0]
                    ELSE Idle
       /\ UNCHANGED <<queue, last, m_Generation, playback, seen, reader, due, log, asked>>

Stamped(stamp, n) == [Time |-> stamp.Time + n * InStep,
                      Frame |-> stamp.Frame + n,
                      Generation |-> stamp.Generation]

Fill == /\ writer.pc = "fill" /\ writer.n < writer.frames
        /\ m_Positions' = [m_Positions EXCEPT ![Slot(m_Write + writer.n)] =
                               Stamped(writer.stamp, writer.n)]
        /\ writer' = [writer EXCEPT !.n = @ + 1]
        /\ UNCHANGED <<m_Read, m_Write, m_Search, last, m_Generation, playback,
                       seen, reader, clocks, log, asked>>

PublishWrite ==
    /\ writer.pc = "fill" /\ writer.n = writer.frames
    /\ LET stamp == writer.stamp IN
       /\ m_LastGeneration' = stamp.Generation
       /\ m_EndFrame' = stamp.Frame + writer.frames
       /\ m_LastTime' = stamp.Time + (writer.frames - 1) * InStep
       /\ log' = log \o [n \in 1 .. writer.frames |-> Stamped(stamp, n - 1)]
    /\ m_Write' = Plus(m_Write, writer.frames)
    /\ writer' = Idle
    /\ UNCHANGED <<m_Read, m_Search, m_Positions, m_Generation, playback, seen,
                   reader, clocks, asked>>

-----------------------------------------------------------------------------
(* The reader.                                                             *)

\* Mistake: plain comparison, wrong once a counter has wrapped.
WithinPlain(index, read, write) == read <= index /\ index < write

\* index - read < write - read, in the counters' arithmetic.
Within(index, read, write) == Minus(index, read) < Minus(write, read)

Covered(index, r) == /\ Within(index, r.read, r.write)
                     /\ m_Positions[Slot(index)].Generation = r.generation

\* The first n samples of the queue are of older generations.
Expired(n, generation) == \A k \in 0 .. n - 1 :
                             m_Positions[Slot(m_Read + k)].Generation < generation

\* Mistake: older generations stay where they are.
SkipNone(generation) == m_Read

\* Past the samples of older generations, at the front of the queue.
SkipOlder(generation) ==
    Plus(m_Read, CHOOSE n \in 0 .. Minus(m_Write, m_Read) :
                    /\ Expired(n, generation)
                    /\ n < Minus(m_Write, m_Read) => ~Expired(n + 1, generation))

\* The search goes on where the last Read stopped, unless that is gone.
SearchFrom(read, write) == IF Within(m_Search, read, write) THEN m_Search ELSE read

\* The time follows from the last one, but for jitter (off); it leaps when
\* callbacks are missed, and goes back when the native clock is corrected or a
\* port's latency shrinks, by more than one sample and with no new generation
\* (AudioStream.cpp:143, :185; for capture AudioTimeline.cpp:82).
BeginRead(frames, off) ==
    LET generation == ReaderGeneration
        read == SkipOlder(generation)
    IN /\ reader = Idle
       /\ 0 <= due + off
       /\ due + off + frames * OutStep <= MaxTime
       /\ Irregular(off # 0)
       /\ due' = due + off + frames * OutStep
       /\ reader' = [pc |-> "frames", time |-> due + off, frames |-> frames,
                     generation |-> generation, read |-> read, write |-> m_Write,
                     cursor |-> SearchFrom(read, m_Write), out |-> << >>,
                     published |-> Len(log)]
       /\ UNCHANGED <<queue, last, m_Generation, playback, seen, writer, source,
                      log, asked>>

\* The cursor moves over the samples of this generation that are not later
\* than the target.
Reached(r, k, target) == \A i \in 1 .. k :
                            /\ Covered(Plus(r.cursor, i), r)
                            /\ m_Positions[Slot(r.cursor + i)].Time <= target
Advance(r, target) == Plus(r.cursor, CHOOSE k \in 0 .. Capacity :
                                        Reached(r, k, target) /\ ~Reached(r, k + 1, target))

\* The time a sample lasts: up to the next one if that adjoins it.
Interval(center, next) ==
    LET distance == next.Time - center.Time
    IN IF next.Frame = center.Frame + 1 /\ 0 < distance /\ distance < 2 * InStep
       THEN distance ELSE InStep

\* A sample the filter at this centre takes in, as its tap-th coefficient.
InKernel(position, center, tap) ==
    LET offset == tap - (Taps \div 2 - 1)
        distance == position.Time - (center.Time + offset * InStep)
    IN /\ position.Frame = center.Frame + offset
       /\ -4 * InStep <= distance /\ distance <= 4 * InStep

Lasts(r, cursor) == LET next == Plus(cursor, 1)
                        center == m_Positions[Slot(cursor)]
                    IN IF Covered(next, r) THEN Interval(center, m_Positions[Slot(next)])
                       ELSE InStep

Centred(r, cursor, target) ==
    LET center == m_Positions[Slot(cursor)]
    IN /\ center.Generation = r.generation
       /\ center.Time <= target /\ target < center.Time + Lasts(r, cursor)

\* What is heard: the sample itself, at its own time and rate; else the
\* samples under the filter.
Heard(r, cursor, target) ==
    LET center == m_Positions[Slot(cursor)]
        at(tap) == Minus(cursor + tap, Taps \div 2 - 1)
    IN IF target = center.Time /\ OutStep <= InStep THEN {center.Frame}
       ELSE {m_Positions[Slot(at(tap))].Frame : tap \in
                {t \in 0 .. Taps - 1 : /\ Covered(at(t), r)
                                       /\ InKernel(m_Positions[Slot(at(t))], center, t)}}

\* One sample of the output; silence is the empty set.  (With the cursor at
\* the end of the queue the loop stops: the rest is silence.)
ReadFrame ==
    /\ reader.pc = "frames" /\ Len(reader.out) < reader.frames
    /\ LET target == reader.time + Len(reader.out) * OutStep
           cursor == IF reader.cursor = reader.write THEN reader.cursor
                     ELSE Advance(reader, target)
           heard == IF reader.cursor # reader.write /\ Centred(reader, cursor, target)
                    THEN Heard(reader, cursor, target) ELSE {}
       IN reader' = [reader EXCEPT !.cursor = cursor, !.out = Append(@, heard)]
    /\ UNCHANGED <<queue, last, m_Generation, playback, seen, writer, clocks, log, asked>>

\* An earlier Read of this generation has asked for a later time.
AskedLater(r, time) == asked.Generation = r.generation /\ time < asked.Time

\* What the filter may need again is kept.
Kept(r) == IF Minus(r.cursor, r.read) > Taps THEN Minus(r.cursor, Taps) ELSE r.read

LastTime(r) == r.time + (r.frames - 1) * OutStep

PublishRead ==
    /\ reader.pc = "frames" /\ Len(reader.out) = reader.frames
    /\ m_Search' = reader.cursor
    /\ m_Read' = Kept(reader)
    /\ asked' = IF AskedLater(reader, LastTime(reader)) THEN asked
                ELSE [Generation |-> reader.generation, Time |-> LastTime(reader)]
    /\ reader' = Idle
    /\ UNCHANGED <<m_Write, m_Positions, last, m_Generation, playback, seen, writer,
                   clocks, log>>

-----------------------------------------------------------------------------
(* Generations.                                                            *)

\* The engine starts a new epoch: what it renders from here on is due earlier
\* or later than what it rendered before.
Renew(shift) ==
    /\ EngineIdle
    /\ m_Generation < MaxGeneration
    /\ Irregular(TRUE)
    /\ m_Generation' = m_Generation + 1
    /\ source' = IF playback THEN [source EXCEPT !.Time = @ + shift * InStep] ELSE source
    /\ UNCHANGED <<queue, last, playback, seen, writer, reader, due, log, asked>>

\* A driver's clock is corrected between two of its periods: its samples are
\* stamped earlier or later from here on, in the same generation
\* (AudioStream.cpp:143).
Correct(shift) ==
    /\ ~playback /\ DriverIdle
    /\ Irregular(TRUE)
    /\ source' = [source EXCEPT !.Time = @ + shift * InStep]
    /\ UNCHANGED <<queue, last, m_Generation, playback, seen, writer, reader, due, log,
                   asked>>

\* The driver's transfer loads the generation.
LoadGeneration ==
    /\ DriverIdle
    /\ seen # m_Generation
    /\ seen' = m_Generation
    /\ UNCHANGED <<queue, last, m_Generation, playback, writer, reader, clocks, log, asked>>

Write == \/ \E frames \in Blocks, skip \in -1 .. 1, off \in -Early .. Early :
                BeginWrite(frames, skip, off)
         \/ Fill
         \/ PublishWrite

Read == \/ \E frames \in Periods, off \in -Early .. Early \cup {Missed, -Back} :
                BeginRead(frames, off)
        \/ ReadFrame
        \/ PublishRead

Next == \/ Write
        \/ Read
        \/ \E shift \in Shifts : Renew(shift) \/ Correct(shift)
        \/ LoadGeneration

Spec == Init /\ [][Next]_vars

-----------------------------------------------------------------------------
(* Properties.                                                             *)

TypeOK == /\ {m_Read, m_Write, m_Search} \subseteq 0 .. Width - 1
          /\ m_Positions \in [0 .. Capacity - 1 -> Position]
          /\ m_LastGeneration \in 0 .. MaxGeneration
          /\ m_EndFrame \in 0 .. MaxFrame /\ m_LastTime \in Int
          /\ m_Generation \in 1 .. MaxGeneration /\ seen \in 1 .. m_Generation
          /\ playback \in BOOLEAN
          /\ writer.pc \in {"idle", "fill"}
          /\ reader.pc \in {"idle", "frames"}
          /\ due \in 0 .. MaxTime /\ odd \in 0 .. MaxOdd
          /\ log \in Seq(Position)
          /\ asked \in [Generation : 0 .. MaxGeneration, Time : Int]

\* "Never overwrites what is being read": the slots a Read under way may look
\* at are apart from the slots a Write under way fills, however the counters
\* have wrapped and however long ago either side looked at the other's
\* (TimedAudioBuffer.cpp:78, :103).
SlotsApart ==
    writer.pc = "fill" /\ reader.pc = "frames" =>
        \A n \in 0 .. writer.frames - 1, k \in 0 .. Minus(reader.write, reader.read) - 1 :
            Slot(m_Write + n) # Slot(reader.read + k)

\* The samples published before a Read began, of its generation.
Published(r) == {i \in 1 .. r.published : log[i].Generation = r.generation}

\* The published sample that is due at a time: the last one not later than
\* it, if it still lasts then.
DueAt(r, target) ==
    {i \in Published(r) :
        /\ log[i].Time <= target
        /\ \A j \in Published(r) : j > i => log[j].Time > target
        /\ target < log[i].Time + (IF i + 1 \in Published(r)
                                   THEN Interval(log[i], log[i + 1]) ELSE InStep)}

\* What is to be heard at a time, out of everything ever published.
ToBeHeard(r, target) ==
    IF \E i \in DueAt(r, target) : log[i].Time = target /\ OutStep <= InStep
    THEN {log[i].Frame : i \in DueAt(r, target)}
    ELSE UNION {{log[j].Frame : j \in
                    {k \in Published(r) : \E tap \in 0 .. Taps - 1 :
                        /\ k = i + tap - (Taps \div 2 - 1)
                        /\ InKernel(log[k], log[i], tap)}} : i \in DueAt(r, target)}

\* "The consumer plays samples at requested presentation times"
\* (TimedAudioBuffer.h:11): every sample of a Read is what an exhaustive
\* search of all that was ever published gives.  Nothing that is due or that
\* the filter needs was thrown away too early, skipped by the search, or of
\* another generation, and late audio is not played late.  The search does not
\* go back with the reader's time (:124): where that is earlier than a Read of
\* this generation has already asked for, there may be silence, but nothing
\* else, and only until the time is what it had been.
PlaysWhatIsDue ==
    reader.pc = "frames" =>
        \A n \in 1 .. Len(reader.out) :
            LET target == reader.time + (n - 1) * OutStep
            IN \/ reader.out[n] = ToBeHeard(reader, target)
               \/ reader.out[n] = {} /\ AskedLater(reader, target)

\* Samples in the queue, oldest first.
Queued == [k \in 1 .. Minus(m_Write, m_Read) |-> m_Positions[Slot(m_Read + k - 1)]]

\* What a Read that is done leaves in the queue and is not later than the last
\* time it asked for.
LeftOver ==
    LET taken == Minus(reader.write, m_Read)
    IN {k \in 1 .. taken :
            /\ Minus(m_Read', m_Read) < k
            /\ \/ Queued[k].Generation < reader.generation
               \/ /\ Queued[k].Generation = reader.generation
                  /\ Queued[k].Time <= LastTime(reader)}

\* "Discarding expired audio instead of retaining an offset after a missed
\* callback" (TimedAudioBuffer.h:12): of that no more is left than the filter's
\* history and the sample being played.
ExpiredIsDiscarded == [][PublishRead => Cardinality(LeftOver) <= Taps + 1]_vars
=============================================================================
