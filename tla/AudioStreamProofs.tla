--------------------------- MODULE AudioStreamProofs ---------------------------
(***************************************************************************)
(* Proofs about an AudioStream and what drives it.                         *)
(*                                                                         *)
(* TimedAudioBuffer, the stream's queues, for counters and queues of every *)
(* size, every filter length, every two rates and any number of irregular  *)
(* blocks.  The counters of the code only ever tell how far two of them    *)
(* are apart.  The proof counts absolutely: sample X is the one published  *)
(* as the X-th, from 0, which is log[X + 1].  A counter then is such an X  *)
(* modulo Width, and a slot holds the X that is that slot modulo Capacity. *)
(*                                                                         *)
(* JackTransport, the JACK devices with their streams, for any number of   *)
(* devices: callbacks and control never meet, no notice of a shutdown is   *)
(* lost, stale handles are retired before an open that may destroy them,   *)
(* and the timeline's master is a stream of a device that is alive.        *)
(*                                                                         *)
(* The two have an invariant each.                                         *)
(***************************************************************************)
EXTENDS TimedAudioBuffer, JackTransport, FiniteSetTheorems, WellFoundedInduction,
        NaturalsInduction, TLAPS

\* The X that each counter stands for: the front of the queue and the
\* last place the search reached; for a Read under way its own two.
Oldest == Len(log) - Minus(m_Write, m_Read)
Found == Oldest + Minus(m_Search, m_Read)
Base == reader.published - Minus(reader.write, reader.read)
Cursor == Base + Minus(reader.cursor, reader.read)

Reading == reader.pc = "frames"
Writing == writer.pc = "fill"

\* The sample X, by its generation and its time.
Gen(X) == log[X + 1].Generation
When(X) == log[X + 1].Time

\* The last time that the Read under way has asked for.
Lately == reader.time + (Len(reader.out) - 1) * OutStep

\* A time that has come, for the reader of this generation: it or a later one
\* has been asked for, by this Read or one before it.
Come(time, generation) ==
    \/ asked.Generation = generation /\ time <= asked.Time
    \/ Reading /\ reader.out # << >> /\ time <= Lately

-----------------------------------------------------------------------------
(* The inductive invariant.                                                *)

Writers == [pc : {"fill"}, stamp : Position, frames : Blocks, n : Nat]

Readers == [pc : {"frames"}, time : Int, frames : Periods, generation : Nat,
            read : Int, write : Int, cursor : Int, out : Seq(SUBSET Nat),
            published : Nat]

Calls == /\ writer = Idle \/ writer \in Writers
         /\ reader = Idle \/ reader \in Readers
         /\ source \in [Frame : Nat, Time : Int]
         /\ source.Frame <= MaxFrame

\* The counters are where the absolute ones are.
Counters == /\ m_Write = Len(log) % Width
            /\ Oldest \in 0 .. Len(log) /\ Len(log) - Oldest <= Capacity
            /\ m_Read = Oldest % Width
            /\ Found \in Oldest .. Len(log) /\ m_Search = Found % Width
            /\ Found < Len(log) \/ Found = Oldest

\* A Read under way works inside the queue as it found it, which is inside
\* the queue as it is.
ReadCounters == Reading =>
    /\ reader.published <= Len(log) /\ reader.write = reader.published % Width
    /\ Base \in Oldest .. reader.published /\ reader.read = Base % Width
    /\ Cursor \in Base .. reader.published /\ reader.cursor = Cursor % Width
    /\ Cursor < reader.published \/ Cursor = Base

\* What the queue's slots hold.
Contents == \A X \in Oldest .. Len(log) - 1 : m_Positions[X % Capacity] = log[X + 1]

\* A block under way fits, is in order, and what is filled of it is in place.
Filled == Writing =>
    /\ Fresh(writer.stamp)
    /\ Len(log) + writer.frames - Oldest <= Capacity
    /\ writer.n <= writer.frames
    /\ writer.stamp.Generation \in 1 .. MaxGeneration
    /\ writer.stamp.Frame + writer.frames <= MaxFrame
    /\ \A n \in 0 .. writer.n - 1 :
          m_Positions[(Len(log) + n) % Capacity] = Stamped(writer.stamp, n)

\* What was published is in the order of generations, and of times in each.
Ordered == \A X \in 0 .. Len(log) - 1 :
    /\ \A Y \in X + 1 .. Len(log) - 1 :
          Gen(X) <= Gen(Y) /\ (Gen(X) = Gen(Y) => When(X) < When(Y))
    /\ Gen(X) >= 1
    /\ Gen(X) <= m_LastGeneration
    /\ Gen(X) = m_LastGeneration => When(X) <= m_LastTime

\* The generation of a Read under way cannot change, and is no older than that
\* of the one before.
Loaded == /\ asked.Generation <= ReaderGeneration
          /\ Reading => reader.generation = ReaderGeneration

\* What the search has passed is of older generations, or lies before what it
\* stands on, which was due already: the reader's time may have gone back
\* since, but the search has not.
PassedBy(X, at, end, generation) ==
    \/ Gen(X) < generation
    \/ /\ at < end /\ Gen(X) = generation /\ Gen(at) = generation
       /\ Come(When(at), generation)

Passed == IF Reading
          THEN \A X \in 0 .. Cursor - 1 :
                  PassedBy(X, Cursor, reader.published, reader.generation)
          ELSE \A X \in 0 .. Found - 1 :
                  PassedBy(X, Found, Len(log), asked.Generation)

\* What the queue has let go is of older generations, or out of the filter's
\* reach from where the search stands.
Released == IF Reading
            THEN \A X \in 0 .. Base - 1 :
                    Gen(X) < reader.generation \/ X + Taps <= Cursor
            ELSE \A X \in 0 .. Oldest - 1 :
                    Gen(X) < ReaderGeneration \/ X + Taps <= Found

\* The queue of a Read begins with this generation or a newer one.
Current == Reading => (Base < reader.published => Gen(Base) >= reader.generation)

\* The search has gone as far as the last target lets it.
Caught == Reading =>
    (reader.out # << >> =>
        \A X \in Cursor + 1 .. reader.published - 1 :
            Gen(X) = reader.generation => When(X) > Lately)

\* A Read under way gives no more than was asked for.
Heeded == Reading => Len(reader.out) <= reader.frames

IInv == /\ TypeOK /\ Calls /\ Counters /\ ReadCounters /\ Contents /\ Filled
        /\ Ordered /\ Loaded /\ Passed /\ Released /\ Current /\ Caught /\ Heeded
        /\ PlaysWhatIsDue
-----------------------------------------------------------------------------
(* Arithmetic modulo m.                                                    *)

LEMMA DivMod ==
    ASSUME NEW m \in Nat \ {0}, NEW x \in Int
    PROVE  x % m \in 0 .. m - 1 /\ x \div m \in Int /\ x = m * (x \div m) + (x % m)
OBVIOUS

\* There is only one remainder.
LEMMA ModUnique ==
    ASSUME NEW m \in Nat \ {0}, NEW q \in Int, NEW r \in 0 .. m - 1
    PROVE  (m * q + r) % m = r
<1> DEFINE x == m * q + r
           p == x \div m
           s == x % m
<1>1. p \in Int /\ s \in 0 .. m - 1 /\ x = m * p + s
  BY DivMod
<1> HIDE DEF p, s
<1>2. q - p \in Int /\ m * (q - p) = s - r
  BY <1>1
<1>3. ~(q - p >= 1)
  <2>1. q - p >= 1 => m * (q - p) >= m
    BY <1>1
  <2> QED  BY <2>1, <1>1, <1>2
<1>4. ~(q - p <= -1)
  <2>1. q - p <= -1 => m * (q - p) <= -m
    BY <1>1
  <2> QED  BY <2>1, <1>1, <1>2
<1>5. q = p
  BY <1>1, <1>3, <1>4
<1>6. r = s
  BY <1>1, <1>5
<1> QED  BY <1>6 DEF s

LEMMA ModShift ==
    ASSUME NEW m \in Nat \ {0}, NEW x \in Int, NEW q \in Int
    PROVE  (x + m * q) % m = x % m
<1> DEFINE p == x \div m
           s == x % m
<1>1. p \in Int /\ s \in 0 .. m - 1 /\ x = m * p + s
  BY DivMod
<1> HIDE DEF p, s
<1>2. x + m * q = m * (p + q) + s
  BY <1>1
<1>3. (m * (p + q) + s) % m = s
  BY <1>1, ModUnique
<1> QED  BY <1>2, <1>3 DEF s

LEMMA ModAdd ==
    ASSUME NEW m \in Nat \ {0}, NEW x \in Int, NEW y \in Int
    PROVE  ((x % m) + y) % m = (x + y) % m
<1> DEFINE p == x \div m
           s == x % m
<1>1. p \in Int /\ s \in Int /\ x = m * p + s
  BY DivMod
<1> HIDE DEF p, s
<1>2. x + y = (s + y) + m * p
  BY <1>1
<1>3. ((s + y) + m * p) % m = (s + y) % m
  BY <1>1, ModShift, s + y \in Int
<1> QED  BY <1>2, <1>3 DEF s

LEMMA ModMinus ==
    ASSUME NEW m \in Nat \ {0}, NEW x \in Int, NEW y \in Int
    PROVE  ((x % m) - (y % m)) % m = (x - y) % m
<1> DEFINE p == y \div m
           s == y % m
           t == x % m
<1>1. p \in Int /\ s \in Int /\ y = m * p + s /\ t \in Int
  BY DivMod
<1> HIDE DEF p, s, t
<1>2. (t + (-s)) % m = (x + (-s)) % m
  BY <1>1, ModAdd, -s \in Int DEF t
<1>3. x + (-s) = (x - y) + m * p
  BY <1>1
<1>4. ((x - y) + m * p) % m = (x - y) % m
  BY <1>1, ModShift, x - y \in Int
<1>5. t - s = t + (-s)
  BY <1>1
<1> QED  BY <1>2, <1>3, <1>4, <1>5 DEF s, t

LEMMA ModSmall ==
    ASSUME NEW m \in Nat \ {0}, NEW r \in Int
    PROVE  /\ r \in 0 .. m - 1 => r % m = r
           /\ r \in -m .. -1 => r % m = r + m
<1>1. ASSUME r \in 0 .. m - 1
      PROVE  r % m = r
  <2>1. (m * 0 + r) % m = r
    BY <1>1, ModUnique
  <2> QED  BY <2>1, m * 0 + r = r
<1>2. ASSUME r \in -m .. -1
      PROVE  r % m = r + m
  <2>1. (m * (-1) + (r + m)) % m = r + m
    BY <1>2, ModUnique
  <2> QED  BY <2>1, m * (-1) + (r + m) = r
<1> QED  BY <1>1, <1>2

\* The queue's length divides the counters' range, so a counter tells a slot.
LEMMA ModDivides ==
    ASSUME NEW c \in Nat \ {0}, NEW w \in Nat \ {0}, w % c = 0,
           NEW x \in Int, NEW n \in Int
    PROVE  ((x % w) + n) % c = (x + n) % c
<1> DEFINE p == x \div w
           s == x % w
           v == w \div c
<1>1. p \in Int /\ s \in Int /\ x = w * p + s
  BY DivMod
<1>2. v \in Int /\ w = c * v
  BY DivMod
<1> HIDE DEF p, s, v
<1>3. x + n = (s + n) + c * (v * p)
  <2>1. w * p = c * (v * p)
    BY <1>1, <1>2
  <2> QED  BY <2>1, <1>1, <1>2
<1>4. ((s + n) + c * (v * p)) % c = (s + n) % c
  BY <1>1, <1>2, ModShift, s + n \in Int, v * p \in Int
<1> QED  BY <1>3, <1>4 DEF s

LEMMA ModDistinct ==
    ASSUME NEW c \in Nat \ {0}, NEW x \in Int, NEW y \in Int,
           x % c = y % c, x - y \in 0 .. c - 1
    PROVE  x = y
<1>1. ((x % c) - (y % c)) % c = (x - y) % c
  BY ModMinus
<1>2. (x - y) % c = x - y
  BY ModSmall
<1>3. (x % c) - (y % c) = 0
  BY DivMod
<1>4. 0 % c = 0
  BY ModSmall
<1> QED  BY <1>1, <1>2, <1>3, <1>4

\* A set of numbers that is not empty has a least one.
LEMMA LeastNat ==
    ASSUME NEW T \in SUBSET Nat, T # {}
    PROVE  \E x \in T : \A y \in T : x <= y
<1>1. PICK x \in T : \A y \in T : ~ (<<y, x>> \in OpToRel(<, Nat))
  BY NatLessThanWellFounded, WFMin
<1>2. \A y \in T : x <= y
  <2> SUFFICES ASSUME NEW y \in T
               PROVE  x <= y
    OBVIOUS
  <2>1. y \in Nat /\ x \in Nat
    OBVIOUS
  <2>2. ~(y < x)
    BY <1>1, <2>1 DEF OpToRel
  <2> QED  BY <2>1, <2>2
<1> QED  BY <1>1, <1>2

-----------------------------------------------------------------------------
(* Counters and slots.                                                     *)

LEMMA Sizes ==
    /\ Width \in Nat \ {0} /\ Capacity \in Nat \ {0} /\ Taps \in Nat \ {0}
    /\ 2 * Capacity <= Width /\ Taps < Capacity
    /\ InStep \in Nat \ {0} /\ OutStep \in Nat \ {0} /\ Early \in Nat
<1>1. Width \in Nat \ {0} /\ Capacity \in Nat \ {0} /\ Capacity < Width /\ Width % Capacity = 0
  BY SizesAssumption
<1>2. 2 * Capacity <= Width
  <2>1. Width \div Capacity \in Int /\ Width = Capacity * (Width \div Capacity)
    BY <1>1, DivMod
  <2>2. Width \div Capacity > 1
    BY <1>1, <2>1
  <2> QED  BY <1>1, <2>1, <2>2
<1> QED  BY <1>1, <1>2, SizesAssumption

LEMMA Reduced ==
    ASSUME NEW x \in Int
    PROVE  x % Width \in 0 .. Width - 1 /\ x % Capacity \in 0 .. Capacity - 1
BY Sizes, DivMod

\* Two counters tell the distance of what they stand for.
LEMMA Apart ==
    ASSUME NEW a \in Int, NEW b \in Int, b - a \in 0 .. Width - 1
    PROVE  Minus(b % Width, a % Width) = b - a
<1>1. ((b % Width) - (a % Width)) % Width = (b - a) % Width
  BY Sizes, ModMinus
<1>2. (b - a) % Width = b - a
  BY Sizes, ModSmall
<1> QED  BY <1>1, <1>2 DEF Minus

LEMMA Moved ==
    ASSUME NEW a \in Int, NEW n \in Int
    PROVE  /\ Plus(a % Width, n) = (a + n) % Width
           /\ Minus(a % Width, n) = (a - n) % Width
<1>1. ((a % Width) + n) % Width = (a + n) % Width
  BY Sizes, ModAdd
<1>2. ((a % Width) + (-n)) % Width = (a + (-n)) % Width
  BY Sizes, ModAdd, -n \in Int
<1>3. a % Width \in Int
  BY Reduced
<1>4. (a % Width) - n = (a % Width) + (-n) /\ a - n = a + (-n)
  BY <1>3
<1> QED  BY <1>1, <1>2, <1>4 DEF Plus, Minus

LEMMA SlotOf ==
    ASSUME NEW a \in Int, NEW n \in Int
    PROVE  /\ Slot((a % Width) + n) = (a + n) % Capacity
           /\ Slot(a % Width) = a % Capacity
<1>1. \A k \in Int : ((a % Width) + k) % Capacity = (a + k) % Capacity
  BY Sizes, SizesAssumption, ModDivides, ZenonT(40)
<1>2. a % Width \in Int
  BY Reduced
<1>3. (a % Width) + 0 = a % Width /\ a + 0 = a
  BY <1>2
<1> QED  BY <1>1, <1>3 DEF Slot

\* The range test, for all that the code asks it about.
LEMMA WithinIs ==
    ASSUME NEW b \in Int, NEW e \in Int, NEW y \in Int,
           e - b \in 0 .. Capacity, -Capacity <= y - b, y - b < Width
    PROVE  Within(y % Width, b % Width, e % Width) <=> y \in b .. e - 1
<1>1. Minus(e % Width, b % Width) = e - b
  <2>1. e - b \in 0 .. Width - 1
    BY Sizes
  <2> QED  BY <2>1, Apart
<1>2. CASE y >= b
  <2>1. y - b \in 0 .. Width - 1
    BY <1>2, Sizes
  <2>2. Minus(y % Width, b % Width) = y - b
    BY <2>1, Apart
  <2> QED  BY <1>1, <1>2, <2>2 DEF Within
<1>3. CASE y < b
  <2>1. ((y % Width) - (b % Width)) % Width = (y - b) % Width
    BY Sizes, ModMinus
  <2>2. (y - b) % Width = y - b + Width
    BY <1>3, Sizes, ModSmall
  <2>3. Minus(y % Width, b % Width) = y - b + Width
    BY <2>1, <2>2 DEF Minus
  <2> QED  BY <1>1, <1>3, <2>3, Sizes DEF Within
<1> QED  BY <1>2, <1>3
-----------------------------------------------------------------------------
(* What the code's searches find.                                          *)

LEMMA LogIs ==
    ASSUME TypeOK
    PROVE  /\ Len(log) \in Nat
           /\ \A X \in 0 .. Len(log) - 1 :
                 log[X + 1] \in Position /\ Gen(X) \in Nat /\ When(X) \in Int
<1>1. log \in Seq(Position)
  BY DEF TypeOK
<1>2. Len(log) \in Nat /\ \A X \in 0 .. Len(log) - 1 : log[X + 1] \in Position
  BY <1>1
<1>3. \A p \in Position : p.Generation \in Nat /\ p.Time \in Int
  BY DEF Position
<1> QED  BY <1>2, <1>3 DEF Gen, When

\* SkipOlder passes all that is older at the front of the queue, and no more.
LEMMA SkipOlderIs ==
    ASSUME TypeOK, Counters, Contents, NEW generation \in Nat
    PROVE  \E B \in Oldest .. Len(log) :
              /\ SkipOlder(generation) = B % Width
              /\ \A X \in Oldest .. B - 1 : Gen(X) < generation
              /\ B < Len(log) => Gen(B) >= generation
<1> DEFINE L == Len(log) - Oldest
           E(n) == Expired(n, generation)
<1>1. /\ Oldest \in Nat /\ L \in 0 .. Capacity /\ Len(log) \in Nat
      /\ L = Minus(m_Write, m_Read) /\ m_Read = Oldest % Width
  <2>1. Oldest \in 0 .. Len(log) /\ L <= Capacity /\ m_Read = Oldest % Width
    BY DEF Counters
  <2>2. Minus(m_Write, m_Read) \in Int
    BY Sizes DEF TypeOK, Minus
  <2>3. L = Minus(m_Write, m_Read)
    BY <2>2, LogIs DEF Oldest
  <2> QED  BY <2>1, <2>3, LogIs, Sizes
<1>2. ASSUME NEW n \in 0 .. L
      PROVE  E(n) <=> \A X \in Oldest .. Oldest + n - 1 : Gen(X) < generation
  <2>1. ASSUME NEW k \in 0 .. n - 1
        PROVE  m_Positions[Slot(m_Read + k)].Generation = Gen(Oldest + k)
    <3>1. Slot(m_Read + k) = (Oldest + k) % Capacity
      BY <1>1, SlotOf
    <3>2. Oldest + k \in Oldest .. Len(log) - 1
      BY <1>1
    <3> QED  BY <3>1, <3>2 DEF Contents, Gen
  <2>2. ASSUME E(n), NEW X \in Oldest .. Oldest + n - 1
        PROVE  Gen(X) < generation
    <3>1. X - Oldest \in 0 .. n - 1 /\ Oldest + (X - Oldest) = X
      BY <1>1
    <3> QED  BY <2>1, <2>2, <3>1 DEF Expired
  <2>3. ASSUME \A X \in Oldest .. Oldest + n - 1 : Gen(X) < generation
        PROVE  E(n)
    <3>1. \A k \in 0 .. n - 1 : Oldest + k \in Oldest .. Oldest + n - 1
      BY <1>1
    <3> QED  BY <2>1, <2>3, <3>1 DEF Expired
  <2> QED  BY <2>2, <2>3
<1> DEFINE Chosen(n) == E(n) /\ (n < L => ~ E(n + 1))
<1>3. E(0)
  BY DEF Expired
<1> HIDE DEF L, E
<1>4. \E n \in 0 .. L : Chosen(n)
  <2> DEFINE T == {n \in 0 .. L - 1 : ~ E(n + 1)}
  <2>1. CASE T = {}
    <3>1. E(L)
      <4>1. CASE L = 0
        BY <1>3, <4>1
      <4>2. CASE L # 0
        <5>1. L - 1 \in 0 .. L - 1 /\ (L - 1) + 1 = L
          BY <1>1, <4>2
        <5> QED  BY <2>1, <5>1
      <4> QED  BY <4>1, <4>2
    <3> QED  BY <1>1, <3>1
  <2>2. CASE T # {}
    <3>1. PICK n \in T : \A k \in T : n <= k
      <4>1. T \in SUBSET Nat
        BY <1>1
      <4> QED  BY <2>2, <4>1, LeastNat
    <3>2. E(n)
      <4>1. CASE n = 0
        BY <1>3, <4>1
      <4>2. CASE n # 0
        <5>1. n - 1 \in 0 .. L - 1 /\ (n - 1) + 1 = n /\ ~(n <= n - 1)
          BY <1>1, <4>2
        <5> QED  BY <3>1, <5>1
      <4> QED  BY <4>1, <4>2
    <3> QED  BY <1>1, <3>1, <3>2
  <2> QED  BY <2>1, <2>2
<1> DEFINE c == CHOOSE n \in 0 .. L : Chosen(n)
<1>5. c \in 0 .. L /\ Chosen(c)
  BY <1>4
<1>6. SkipOlder(generation) = Plus(m_Read, c)
  BY <1>1 DEF SkipOlder, E
<1> HIDE DEF c
<1>7. SkipOlder(generation) = (Oldest + c) % Width
  BY <1>1, <1>5, <1>6, Moved
<1>8. \A X \in Oldest .. Oldest + c - 1 : Gen(X) < generation
  BY <1>2, <1>5
<1>9. ASSUME Oldest + c < Len(log)
      PROVE  Gen(Oldest + c) >= generation
  <2>1. c < L /\ c + 1 \in 0 .. L
    BY <1>1, <1>5, <1>9 DEF L
  <2>2. ~ \A X \in Oldest .. Oldest + (c + 1) - 1 : Gen(X) < generation
    BY <1>2, <1>5, <2>1
  <2>3. \A X \in Oldest .. Oldest + (c + 1) - 1 : X \in Oldest .. Oldest + c - 1 \/ X = Oldest + c
    BY <1>1, <1>5
  <2>4. ~ (Gen(Oldest + c) < generation)
    BY <1>8, <2>2, <2>3
  <2>5. Gen(Oldest + c) \in Nat
    BY <1>1, <1>5, <1>9, LogIs
  <2> QED  BY <2>4, <2>5
<1> DEFINE B == Oldest + c
<1>10. B \in Oldest .. Len(log)
  BY <1>1, <1>5 DEF L
<1>11. SkipOlder(generation) = B % Width
  BY <1>7
<1>12. \A X \in Oldest .. B - 1 : Gen(X) < generation
  BY <1>1, <1>5, <1>8
<1>13. B < Len(log) => Gen(B) >= generation
  BY <1>9
<1> HIDE DEF B
<1> QED  BY <1>10, <1>11, <1>12, <1>13

\* What the proofs about a Read under way start from.
Reads == TypeOK /\ Calls /\ Counters /\ ReadCounters /\ Contents /\ Reading

LEMMA ReadsIs ==
    ASSUME Reads
    PROVE  /\ Oldest \in Nat /\ Base \in Nat /\ Cursor \in Nat
           /\ reader.published \in Nat /\ Len(log) \in Nat
           /\ Oldest <= Base /\ Base <= Cursor /\ Cursor <= reader.published
           /\ reader.published <= Len(log) /\ reader.published - Base <= Capacity
           /\ Cursor < reader.published \/ Cursor = Base
<1>1. reader \in Readers
  BY DEF Reads, Reading, Calls, Idle
<1>2. Len(log) \in Nat /\ reader.published \in Nat
  BY <1>1, LogIs DEF Reads, Readers
<1>3. Oldest \in 0 .. Len(log) /\ Len(log) - Oldest <= Capacity
  BY DEF Reads, Counters
<1>4. /\ reader.published <= Len(log)
      /\ Base \in Oldest .. reader.published /\ Cursor \in Base .. reader.published
      /\ Cursor < reader.published \/ Cursor = Base
  BY DEF Reads, ReadCounters
<1>5. Capacity \in Nat
  BY Sizes
<1> HIDE DEF Oldest, Base, Cursor
<1> QED  BY <1>2, <1>3, <1>4, <1>5

LEMMA ReadersAre ==
    ASSUME Reads
    PROVE  /\ reader \in Readers /\ reader.read = Base % Width
           /\ reader.write = reader.published % Width /\ reader.cursor = Cursor % Width
BY DEF Reads, Reading, Calls, Idle, ReadCounters

\* A slot in the reader's range holds the sample it stands for.
LEMMA SlotHolds ==
    ASSUME Reads, NEW Y \in Base .. reader.published - 1
    PROVE  /\ m_Positions[Slot(Y % Width)] = log[Y + 1] /\ log[Y + 1] \in Position
           /\ Gen(Y) \in Nat /\ When(Y) \in Int
<1>1. Y \in Oldest .. Len(log) - 1 /\ Y \in 0 .. Len(log) - 1
  BY ReadsIs
<1>2. Slot(Y % Width) = Y % Capacity
  BY <1>1, SlotOf
<1> QED  BY <1>1, <1>2, LogIs DEF Reads, Contents

LEMMA CoveredIs ==
    ASSUME Reads, NEW Y \in Int, -Capacity <= Y - Base, Y - Base < Width
    PROVE  Covered(Y % Width, reader) <=>
              Y \in Base .. reader.published - 1 /\ Gen(Y) = reader.generation
<1>1. Within(Y % Width, reader.read, reader.write) <=> Y \in Base .. reader.published - 1
  <2>1. reader.published - Base \in 0 .. Capacity
    BY ReadsIs, Sizes
  <2> QED  BY <2>1, ReadsIs, ReadersAre, WithinIs
<1> QED  BY <1>1, SlotHolds DEF Covered, Gen

\* The search moves over all that is due next to where it is, and no more.
LEMMA AdvanceIs ==
    ASSUME Reads, Cursor < reader.published, NEW target \in Int
    PROVE  \E C \in Cursor .. reader.published - 1 :
              /\ Advance(reader, target) = C % Width
              /\ \A X \in Cursor + 1 .. C : Gen(X) = reader.generation /\ When(X) <= target
              /\ C + 1 < reader.published =>
                    Gen(C + 1) # reader.generation \/ When(C + 1) > target
<1> DEFINE L == reader.published - Cursor
           At(X) == Gen(X) = reader.generation /\ When(X) <= target
           E(k) == Reached(reader, k, target)
<1>1. L \in 1 .. Capacity /\ Cursor \in Nat /\ reader.cursor = Cursor % Width
  BY ReadsIs, ReadersAre, Sizes
<1>2. ASSUME NEW i \in 1 .. L
      PROVE  /\ Covered(Plus(reader.cursor, i), reader) <=>
                   i < L /\ Gen(Cursor + i) = reader.generation
             /\ i < L => m_Positions[Slot(reader.cursor + i)].Time = When(Cursor + i)
  <2>1. Plus(reader.cursor, i) = (Cursor + i) % Width
    BY <1>1, Moved
  <2>2. Covered((Cursor + i) % Width, reader) <=>
           Cursor + i \in Base .. reader.published - 1 /\ Gen(Cursor + i) = reader.generation
    <3>1. Cursor + i \in Int /\ -Capacity <= (Cursor + i) - Base /\ (Cursor + i) - Base < Width
      <4>1. /\ Base \in Int /\ Cursor \in Int /\ Base <= Cursor /\ reader.published \in Int
            /\ reader.published - Base <= Capacity /\ Cursor + i <= reader.published
        BY <1>1, ReadsIs
      <4> HIDE DEF Base, Cursor
      <4> QED  BY <4>1, Sizes
    <3> QED  BY <3>1, CoveredIs
  <2>3. Cursor + i \in Base .. reader.published - 1 <=> i < L
    BY <1>1, ReadsIs
  <2>4. ASSUME i < L
        PROVE  m_Positions[Slot(reader.cursor + i)].Time = When(Cursor + i)
    <3>1. Slot(reader.cursor + i) = (Cursor + i) % Capacity
      BY <1>1, SlotOf
    <3>2. Slot((Cursor + i) % Width) = (Cursor + i) % Capacity
      BY <1>1, SlotOf
    <3> QED  BY <2>3, <2>4, <3>1, <3>2, SlotHolds DEF When
  <2> QED  BY <2>1, <2>2, <2>3, <2>4
<1>3. ASSUME NEW k \in 0 .. L
      PROVE  E(k) <=> k < L /\ \A i \in 1 .. k : At(Cursor + i)
  <2>1. ASSUME E(k)
        PROVE  k < L
    <3>1. k # L
      <4>1. ASSUME k = L
            PROVE  FALSE
        <5>1. L \in 1 .. k /\ L \in 1 .. L
          BY <1>1, <4>1
        <5> QED  BY <1>2, <2>1, <5>1 DEF Reached
      <4> QED  BY <4>1
    <3> QED  BY <1>1, <3>1
  <2>2. ASSUME k < L
        PROVE  \A i \in 1 .. k : i \in 1 .. L /\ i < L
    BY <1>1, <2>2
  <2> QED  BY <1>2, <2>1, <2>2 DEF Reached
<1> HIDE DEF E
<1>4. E(0)
  BY <1>1, <1>3
<1>5. ~ E(L)
  BY <1>1, <1>3
<1> DEFINE Chosen(k) == E(k) /\ ~ E(k + 1)
<1>6. \E k \in 0 .. L - 1 : Chosen(k)
  <2> DEFINE T == {k \in 0 .. L - 1 : ~ E(k + 1)}
  <2>1. T \in SUBSET Nat /\ L - 1 \in T
    BY <1>1, <1>5
  <2>2. PICK k \in T : \A j \in T : k <= j
    BY <2>1, LeastNat
  <2>3. E(k)
    <3>1. CASE k = 0
      BY <1>4, <3>1
    <3>2. CASE k # 0
      <4>1. k - 1 \in 0 .. L - 1 /\ (k - 1) + 1 = k /\ ~(k <= k - 1)
        BY <1>1, <3>2
      <4> QED  BY <2>2, <4>1
    <3> QED  BY <3>1, <3>2
  <2> QED  BY <2>2, <2>3
<1> DEFINE c == CHOOSE k \in 0 .. Capacity : Chosen(k)
<1>7. c \in 0 .. Capacity /\ Chosen(c)
  <2>1. 0 .. L - 1 \subseteq 0 .. Capacity
    BY <1>1, Sizes
  <2> QED  BY <1>6, <2>1
<1>8. Advance(reader, target) = Plus(reader.cursor, c)
  BY DEF Advance, E
<1> HIDE DEF c
<1>9. c \in 0 .. L - 1
  <2>1. ~ (L <= c)
    <3> SUFFICES ASSUME L <= c
                 PROVE  FALSE
      OBVIOUS
    <3>1. Reached(reader, L, target)
      <4>1. 1 .. L \subseteq 1 .. c
        BY <1>1, <1>7
      <4> QED  BY <1>7, <4>1 DEF Reached, E
    <3> QED  BY <1>5, <3>1 DEF E
  <2> QED  BY <1>1, <1>7, <2>1, Sizes
<1>10. \A X \in Cursor + 1 .. Cursor + c : At(X)
  <2>1. \A i \in 1 .. c : At(Cursor + i)
    BY <1>1, <1>3, <1>7, <1>9
  <2>2. \A X \in Cursor + 1 .. Cursor + c : X - Cursor \in 1 .. c /\ Cursor + (X - Cursor) = X
    BY <1>1, <1>9
  <2> QED  BY <2>1, <2>2
<1>11. ASSUME Cursor + c + 1 < reader.published
       PROVE  Gen(Cursor + c + 1) # reader.generation \/ When(Cursor + c + 1) > target
  <2>1. c + 1 \in 0 .. L /\ c + 1 < L
    BY <1>1, <1>9, <1>11, ReadsIs
  <2>2. ~ \A i \in 1 .. c + 1 : At(Cursor + i)
    BY <1>3, <1>7, <2>1
  <2>3. \A i \in 1 .. c : At(Cursor + i)
    BY <1>3, <1>7, <1>1, <1>9
  <2>4. ~ At(Cursor + (c + 1))
    <3>1. \A i \in 1 .. c + 1 : i \in 1 .. c \/ i = c + 1
      BY <1>9, <1>1
    <3> QED  BY <2>2, <2>3, <3>1
  <2>5. Cursor + (c + 1) = Cursor + c + 1
    BY <1>1, <1>9
  <2>6. When(Cursor + c + 1) \in Int
    <3>1. Cursor + c + 1 \in Base .. reader.published - 1
      BY <1>9, <1>11, ReadsIs
    <3> QED  BY <3>1, SlotHolds
  <2> QED  BY <2>4, <2>5, <2>6
<1>12. Cursor + c \in Cursor .. reader.published - 1
  BY <1>1, <1>9, ReadsIs
<1>13. Advance(reader, target) = (Cursor + c) % Width
  BY <1>1, <1>8, <1>9, Moved
<1> QED  BY <1>10, <1>11, <1>12, <1>13
-----------------------------------------------------------------------------
(* What is heard is what is due.                                           *)

\* Where a frame of the output leaves the search, and what it sounds like.
Sought(target) == IF reader.cursor = reader.write THEN reader.cursor
                  ELSE Advance(reader, target)
Sounding(target) == IF reader.cursor # reader.write /\ Centred(reader, Sought(target), target)
                    THEN Heard(reader, Sought(target), target) ELSE {}

LEMMA OrderedIs ==
    ASSUME TypeOK, Ordered, NEW X \in Nat, NEW Y \in Nat, X < Y, Y < Len(log)
    PROVE  /\ Gen(X) \in Nat /\ Gen(Y) \in Nat /\ When(X) \in Int /\ When(Y) \in Int
           /\ Gen(X) <= Gen(Y) /\ (Gen(X) = Gen(Y) => When(X) < When(Y))
<1>1. X \in 0 .. Len(log) - 1 /\ Y \in X + 1 .. Len(log) - 1 /\ Y \in 0 .. Len(log) - 1
  BY LogIs
<1> QED  BY <1>1, LogIs DEF Ordered

\* The loop's test for the end of the queue.
LEMMA AtEnd ==
    ASSUME Reads
    PROVE  reader.cursor = reader.write <=> Cursor = reader.published
<1>1. CASE Cursor = reader.published
  BY <1>1, ReadersAre
<1>2. CASE Cursor # reader.published
  <2>1. /\ reader.published \in Int /\ Cursor \in Int
        /\ reader.published - Cursor \in 0 .. Width - 1 /\ 0 # reader.published - Cursor
    <3> DEFINE b == Base
               c == Cursor
               p == reader.published
    <3>1. b \in Int /\ c \in Int /\ b <= c /\ p \in Int /\ p - b <= Capacity /\ c <= p /\ c # p
      BY <1>2, ReadsIs
    <3> HIDE DEF b, c, p
    <3>2. p \in Int /\ c \in Int /\ p - c \in 0 .. Width - 1 /\ 0 # p - c
      BY <3>1, Sizes
    <3> QED  BY <3>2 DEF p, c
  <2>2. Minus(reader.published % Width, Cursor % Width) = reader.published - Cursor
    BY <2>1, Apart
  <2>3. Minus(Cursor % Width, Cursor % Width) = 0
    <3>1. Cursor - Cursor = 0 /\ Cursor - Cursor \in 0 .. Width - 1
      BY <2>1, Sizes
    <3> QED  BY <2>1, <3>1, Apart
  <2> QED  BY <2>1, <2>2, <2>3, <1>2, ReadersAre
<1> QED  BY <1>1, <1>2

\* The search has passed nothing of this generation, or stands on a sample that
\* is not later than the target.
Ahead(target) ==
    \A X \in 0 .. Cursor - 1 :
        \/ Gen(X) < reader.generation
        \/ /\ Cursor < reader.published /\ Gen(X) = reader.generation
           /\ Gen(Cursor) = reader.generation /\ When(Cursor) <= target

\* The search then ends at the last sample that is due, if there is one.
LEMMA LastDue ==
    ASSUME Reads, Ordered, Current, NEW target \in Int, Ahead(target),
           NEW C \in Cursor .. reader.published - 1,
           \A X \in Cursor + 1 .. C : Gen(X) = reader.generation /\ When(X) <= target,
           C + 1 < reader.published =>
              Gen(C + 1) # reader.generation \/ When(C + 1) > target,
           NEW X \in 0 .. reader.published - 1,
           Gen(X) = reader.generation, When(X) <= target
    PROVE  X <= C /\ Gen(C) = reader.generation /\ When(C) <= target
<1>1. /\ Base \in Nat /\ Cursor \in Nat /\ C \in Nat /\ X \in Nat /\ reader.published \in Nat
      /\ Len(log) \in Nat /\ Base <= Cursor /\ Cursor <= C /\ C < reader.published
      /\ X < reader.published /\ reader.published <= Len(log)
  BY ReadsIs
<1>2. TypeOK /\ Reading /\ reader.generation \in Nat
  BY ReadersAre DEF Reads, Readers
<1>3. Gen(C) >= reader.generation /\ Gen(C) \in Nat
  <2>1. Gen(Base) >= reader.generation
    BY <1>1, <1>2 DEF Current
  <2>2. CASE Base = C
    BY <1>1, <1>2, <2>1, <2>2, LogIs
  <2>3. CASE Base < C
    <3>1. C < Len(log)
      BY <1>1
    <3>2. Gen(Base) <= Gen(C) /\ Gen(Base) \in Nat /\ Gen(C) \in Nat
      BY <1>1, <1>2, <2>3, <3>1, OrderedIs
    <3> QED  BY <1>2, <2>1, <3>2
  <2> QED  BY <1>1, <2>2, <2>3
<1>4. CASE X < Cursor
  <2>1. X \in 0 .. Cursor - 1
    BY <1>1, <1>4
  <2>2. \/ Gen(X) < reader.generation
        \/ Gen(Cursor) = reader.generation /\ When(Cursor) <= target
    BY <2>1 DEF Ahead
  <2>3. Gen(Cursor) = reader.generation /\ When(Cursor) <= target
    BY <1>2, <2>2
  <2>4. When(Cursor) \in Int
    BY <1>1, <1>2, LogIs
  <2>5. CASE C = Cursor
    BY <1>1, <1>4, <2>3, <2>4, <2>5
  <2>6. CASE C # Cursor
    <3>1. C \in Cursor + 1 .. C
      BY <1>1, <2>6
    <3> QED  BY <1>1, <1>4, <3>1
  <2> QED  BY <2>5, <2>6
<1>5. CASE Cursor <= X /\ X <= C
  <2>1. CASE C = Cursor
    <3>1. X = C
      BY <1>1, <1>5, <2>1
    <3> QED  BY <1>1, <3>1
  <2>2. CASE C # Cursor
    <3>1. C \in Cursor + 1 .. C
      BY <1>1, <2>2
    <3> QED  BY <1>5, <3>1
  <2> QED  BY <2>1, <2>2
<1>6. CASE C < X
  <2>1. /\ Gen(C) <= Gen(X) /\ C + 1 < reader.published /\ C + 1 \in Nat
        /\ C < C + 1 /\ C + 1 <= X /\ C + 1 < Len(log) /\ X < Len(log)
    <3>1. X < Len(log)
      BY <1>1
    <3>2. Gen(C) <= Gen(X)
      BY <1>1, <1>2, <1>6, <3>1, OrderedIs
    <3> QED  BY <1>1, <1>6, <3>1, <3>2
  <2>2. Gen(C) = reader.generation
    BY <1>2, <1>3, <2>1
  <2>3. /\ Gen(C) <= Gen(C + 1) /\ Gen(C + 1) \in Nat /\ When(C + 1) \in Int
    BY <1>1, <1>2, <2>1, OrderedIs
  <2>4. When(X) \in Int
    BY <1>1, <1>2, LogIs
  <2>5. Gen(C + 1) = reader.generation /\ When(C + 1) <= When(X)
    <3>1. CASE C + 1 = X
      BY <2>4, <3>1
    <3>2. CASE C + 1 < X
      <4>1. Gen(C + 1) <= Gen(X) /\ (Gen(C + 1) = Gen(X) => When(C + 1) < When(X))
        BY <1>1, <1>2, <2>1, <3>2, OrderedIs
      <4> QED  BY <1>2, <2>2, <2>3, <2>4, <4>1
    <3> QED  BY <1>1, <2>1, <3>1, <3>2
  <2> QED  BY <2>1, <2>3, <2>4, <2>5
<1> QED  BY <1>1, <1>4, <1>5, <1>6
\* What the filter reaches from C lies in the arithmetic of the counters, and
\* so far back only that a Read keeps it.
LEMMA TapsReach ==
    ASSUME Reads, NEW C \in Cursor .. reader.published - 1, NEW t \in 0 .. Taps - 1
    PROVE  LET Y == C + t - (Taps \div 2 - 1)
           IN /\ Y \in Int /\ -Capacity <= Y - Base /\ Y - Base < Width
              /\ Cursor < Y + Taps
              /\ Minus((C % Width) + t, Taps \div 2 - 1) = Y % Width
<1> DEFINE h == Taps \div 2
           Y == C + t - (h - 1)
           b == Base
           c == Cursor
           p == reader.published
<1>1. h \in Int /\ 2 * h = Taps
  <2>1. h \in Int /\ Taps = 2 * h + (Taps % 2)
    BY Sizes, DivMod
  <2> QED  BY <2>1, SizesAssumption
<1>2. /\ b \in Nat /\ c \in Nat /\ p \in Nat /\ b <= c /\ p - b <= Capacity
      /\ C \in Nat /\ c <= C /\ C < p
  BY ReadsIs
<1>3. Minus((C % Width) + t, h - 1) = Y % Width
  <2>1. ((C % Width) + (t - (h - 1))) % Width = (C + (t - (h - 1))) % Width
    <3> DEFINE n == t - (h - 1)
    <3>1. n \in Int
      BY <1>1
    <3>2. Width \in Nat \ {0} /\ C \in Int
      BY <1>2, Sizes
    <3> HIDE DEF n
    <3>3. ((C % Width) + n) % Width = (C + n) % Width
      BY <3>1, <3>2, ModAdd
    <3> QED  BY <3>3 DEF n
  <2>2. C % Width \in Int
    BY <1>2, Reduced
  <2>3. (C % Width) + (t - (h - 1)) = ((C % Width) + t) - (h - 1) /\ C + (t - (h - 1)) = Y
    BY <1>1, <1>2, <2>2
  <2> QED  BY <2>1, <2>3 DEF Minus
<1> HIDE DEF h, b, c, p
<1>4. Y \in Int /\ -Capacity <= Y - b /\ Y - b < Width /\ c < Y + Taps
  BY <1>1, <1>2, Sizes
<1> QED  BY <1>3, <1>4 DEF h, b, c

\* A Read sounds, at every such time, like what is due then.
LEMMA SoundsDue ==
    ASSUME Reads, Ordered, Current, Released, NEW target \in Int, Ahead(target)
    PROVE  Sounding(target) = ToBeHeard(reader, target)
<1> DEFINE P == Published(reader)
           D == DueAt(reader, target)
           gen == reader.generation
<1>1. /\ Base \in Nat /\ Cursor \in Nat /\ reader.published \in Nat /\ Len(log) \in Nat
      /\ Base <= Cursor /\ reader.published <= Len(log) /\ Cursor <= reader.published
      /\ gen \in Nat /\ Reading /\ TypeOK
  BY ReadsIs, ReadersAre DEF Reads, Readers
<1>2. \A i \in P : /\ i \in 1 .. reader.published /\ i - 1 \in 0 .. reader.published - 1
                   /\ i \in Nat /\ Gen(i - 1) = gen /\ log[i].Time = When(i - 1)
                   /\ (i - 1) + 1 = i
  <2> TAKE i \in P
  <2>1. i \in 1 .. reader.published /\ log[i].Generation = gen
    BY DEF Published
  <2>2. (i - 1) + 1 = i /\ i - 1 \in 0 .. reader.published - 1 /\ i \in Nat
    BY <1>1, <2>1
  <2> QED  BY <2>1, <2>2 DEF Gen, When
<1>3. \A X \in 0 .. reader.published - 1 : X + 1 \in P <=> Gen(X) = gen
  <2> TAKE X \in 0 .. reader.published - 1
  <2>1. X + 1 \in 1 .. reader.published
    BY <1>1
  <2> QED  BY <2>1 DEF Published, Gen
<1>4. D \subseteq P /\ \A i \in D : log[i].Time <= target
  BY DEF DueAt
<1>5. ASSUME D = {}
      PROVE  ToBeHeard(reader, target) = {}
  BY <1>5 DEF ToBeHeard
<1>6. CASE Cursor = reader.published
  <2>1. Sounding(target) = {}
    BY <1>6, AtEnd DEF Sounding
  <2>2. P = {}
    <3> SUFFICES ASSUME NEW i \in P
                 PROVE  FALSE
      OBVIOUS
    <3>1. i - 1 \in 0 .. Cursor - 1 /\ Gen(i - 1) = gen
      BY <1>2, <1>6
    <3>2. Gen(i - 1) < gen \/ Cursor < reader.published
      BY <3>1 DEF Ahead
    <3> QED  BY <1>1, <1>6, <3>1, <3>2
  <2> QED  BY <1>4, <1>5, <2>1, <2>2
<1>7. CASE Cursor < reader.published
  <2>1. PICK C \in Cursor .. reader.published - 1 :
           /\ Advance(reader, target) = C % Width
           /\ \A X \in Cursor + 1 .. C : Gen(X) = gen /\ When(X) <= target
           /\ C + 1 < reader.published => Gen(C + 1) # gen \/ When(C + 1) > target
    BY <1>7, AdvanceIs
  <2> DEFINE found == Gen(C) = gen /\ When(C) <= target
             lasts == IF C + 2 \in P THEN Interval(log[C + 1], log[C + 2]) ELSE InStep
  <2>2. C \in Nat /\ C \in 0 .. reader.published - 1 /\ C \in Base .. reader.published - 1
    BY <1>1
  <2>3. Sought(target) = C % Width /\ reader.cursor # reader.write
    BY <1>1, <1>7, <2>1, AtEnd DEF Sought
  <2>4. m_Positions[Slot(C % Width)] = log[C + 1] /\ When(C) \in Int /\ Gen(C) \in Nat
    BY <2>2, SlotHolds
  <2>5. ASSUME NEW i \in P, log[i].Time <= target
        PROVE  i <= C + 1 /\ found
    <3>1. i - 1 \in 0 .. reader.published - 1 /\ Gen(i - 1) = gen /\ When(i - 1) <= target /\ i \in Nat
      BY <1>2, <2>5
    <3>2. i - 1 <= C /\ found
      BY <2>1, <3>1, LastDue
    <3> QED  BY <2>2, <3>1, <3>2
  <2>6. Lasts(reader, C % Width) = lasts
    <3>1. Plus(C % Width, 1) = (C + 1) % Width
      BY <2>2, Moved
    <3>2. Covered((C + 1) % Width, reader) <=> C + 2 \in P
      <4>1. C + 1 \in Int /\ -Capacity <= (C + 1) - Base /\ (C + 1) - Base < Width
        <5>1. Base <= C /\ C + 1 <= reader.published /\ reader.published - Base <= Capacity
          BY <2>2, ReadsIs
        <5> HIDE DEF Base
        <5> QED  BY <1>1, <2>2, <5>1, Sizes
      <4>2. Covered((C + 1) % Width, reader) <=>
               C + 1 \in Base .. reader.published - 1 /\ Gen(C + 1) = gen
        BY <4>1, CoveredIs
      <4>3. C + 2 \in P <=> C + 1 \in 0 .. reader.published - 1 /\ Gen(C + 1) = gen
        <5>1. (C + 1) + 1 = C + 2
          BY <2>2
        <5>2. C + 2 \in P => C + 1 \in 0 .. reader.published - 1
          BY <1>1, <2>2 DEF Published
        <5> QED  BY <1>3, <5>1, <5>2
      <4>4. C + 1 \in Base .. reader.published - 1 <=> C + 1 \in 0 .. reader.published - 1
        BY <1>1, <2>2
      <4> QED  BY <4>2, <4>3, <4>4
    <3>3. C + 2 \in P => m_Positions[Slot((C + 1) % Width)] = log[C + 2]
      <4>1. C + 2 \in P => C + 1 \in Base .. reader.published - 1 /\ (C + 1) + 1 = C + 2
        BY <1>1, <2>2 DEF Published
      <4> QED  BY <4>1, SlotHolds
    <3> QED  BY <2>4, <3>1, <3>2, <3>3 DEF Lasts
  <2>7. Centred(reader, C % Width, target) <=> found /\ target < When(C) + lasts
    BY <2>4, <2>6 DEF Centred, Gen, When
  <2>8. CASE ~ (found /\ target < When(C) + lasts)
    <3>1. Sounding(target) = {}
      BY <2>3, <2>7, <2>8 DEF Sounding
    <3>2. D = {}
      <4> SUFFICES ASSUME NEW i \in D
                   PROVE  FALSE
        OBVIOUS
      <4>1. i \in P /\ log[i].Time <= target
        BY <1>4
      <4>2. i <= C + 1 /\ found
        BY <2>5, <4>1
      <4>3. C + 1 \in P /\ log[C + 1].Time = When(C)
        BY <1>3, <2>2, <4>2 DEF When
      <4>4. i = C + 1
        <5>1. ~ (C + 1 > i)
          <6>1. C + 1 > i => log[C + 1].Time > target
            BY <4>3 DEF DueAt
          <6> QED  BY <2>4, <4>2, <4>3, <6>1
        <5> QED  BY <1>2, <2>2, <4>1, <4>2, <5>1
      <4>5. target < log[i].Time + (IF i + 1 \in P THEN Interval(log[i], log[i + 1]) ELSE InStep)
        BY DEF DueAt
      <4>6. i + 1 = C + 2
        BY <2>2, <4>4
      <4> QED  BY <2>8, <4>2, <4>3, <4>4, <4>5, <4>6
    <3> QED  BY <1>5, <3>1, <3>2
  <2>9. CASE found /\ target < When(C) + lasts
    <3> DEFINE i == C + 1
               center == log[C + 1]
    <3>1. i \in P /\ center.Time = When(C)
      BY <1>3, <2>2, <2>9 DEF When
    <3>2. D = {i}
      <4>1. \A j \in P : j > i => log[j].Time > target
        <5> SUFFICES ASSUME NEW j \in P, j > i, ~ (log[j].Time > target)
                     PROVE  FALSE
          OBVIOUS
        <5>1. log[j].Time \in Int
          BY <1>1, <1>2, LogIs, SMTT(30)
        <5>2. j <= C + 1
          BY <2>5, <5>1
        <5> QED  BY <1>2, <2>2, <5>2
      <4>2. i + 1 = C + 2
        BY <2>2
      <4>3. i \in D
        BY <2>9, <3>1, <4>1, <4>2 DEF DueAt
      <4>4. ASSUME NEW j \in D
            PROVE  j = i
        <5>1. j \in P /\ log[j].Time <= target /\ j <= i
          BY <1>4, <2>5
        <5>2. ~ (i > j)
          <6>1. i > j => log[i].Time > target
            BY <3>1 DEF DueAt
          <6> QED  BY <2>4, <2>9, <3>1, <6>1
        <5> QED  BY <1>2, <2>2, <5>1, <5>2
      <4> QED  BY <4>3, <4>4
    <3>3. Sounding(target) = Heard(reader, C % Width, target)
      BY <2>3, <2>7, <2>9 DEF Sounding
    <3>4. CASE target = center.Time /\ OutStep <= InStep
      <4>1. Heard(reader, C % Width, target) = {center.Frame}
        BY <2>4, <3>4 DEF Heard
      <4>2. ToBeHeard(reader, target) = {log[j].Frame : j \in {i}}
        BY <3>2, <3>4 DEF ToBeHeard
      <4> QED  BY <3>3, <4>1, <4>2
    <3>5. CASE ~ (target = center.Time /\ OutStep <= InStep)
      <4> DEFINE at(t) == Minus((C % Width) + t, Taps \div 2 - 1)
                 in(t) == C + 1 + t - (Taps \div 2 - 1)
                 taken == {t \in 0 .. Taps - 1 :
                              /\ Covered(at(t), reader)
                              /\ InKernel(m_Positions[Slot(at(t))], center, t)}
                 kernel == {k \in P : \E t \in 0 .. Taps - 1 :
                              k = in(t) /\ InKernel(log[k], center, t)}
      <4>1. Heard(reader, C % Width, target) = {m_Positions[Slot(at(t))].Frame : t \in taken}
        BY <2>4, <3>5 DEF Heard
      <4>2. ToBeHeard(reader, target) = {log[k].Frame : k \in kernel}
        BY <3>2, <3>5 DEF ToBeHeard
      <4>3. ASSUME NEW t \in 0 .. Taps - 1
            PROVE  /\ Covered(at(t), reader) <=> in(t) \in P
                   /\ in(t) \in P => m_Positions[Slot(at(t))] = log[in(t)]
        <5> DEFINE Y == C + t - (Taps \div 2 - 1)
        <5>1. /\ Y \in Int /\ -Capacity <= Y - Base /\ Y - Base < Width
              /\ Cursor < Y + Taps /\ at(t) = Y % Width
          BY TapsReach
        <5>2. in(t) = Y + 1
          <6>1. Taps \div 2 \in Int
            BY Sizes, DivMod
          <6> QED  BY <2>2, <6>1
        <5> HIDE DEF Y, at, in
        <5>3. Covered(at(t), reader) <=> Y \in Base .. reader.published - 1 /\ Gen(Y) = gen
          BY <5>1, CoveredIs
        <5>4. in(t) \in P => Y \in 0 .. reader.published - 1
          BY <1>1, <5>1, <5>2 DEF Published
        <5>5. ASSUME in(t) \in P
              PROVE  Y \in Base .. reader.published - 1 /\ Gen(Y) = gen
          <6>1. Gen(Y) = gen /\ Y \in 0 .. reader.published - 1
            BY <1>3, <5>2, <5>4, <5>5
          <6>2. Y \in 0 .. Base - 1 => Gen(Y) < gen \/ Y + Taps <= Cursor
            BY <1>1 DEF Released
          <6>3. ~ (Y \in 0 .. Base - 1)
            BY <1>1, <5>1, <6>1, <6>2, Sizes
          <6> QED  BY <1>1, <6>1, <6>3
        <5>6. ASSUME Y \in Base .. reader.published - 1 /\ Gen(Y) = gen
              PROVE  in(t) \in P
          <6>1. Y \in 0 .. reader.published - 1
            BY <1>1, <5>6
          <6> QED  BY <1>3, <5>2, <5>6, <6>1
        <5>7. Y \in Base .. reader.published - 1 => m_Positions[Slot(at(t))] = log[in(t)]
          BY <5>1, <5>2, SlotHolds
        <5> QED  BY <5>3, <5>5, <5>6, <5>7
      <4> HIDE DEF at, in, center
      <4>4. {m_Positions[Slot(at(t))].Frame : t \in taken} = {log[k].Frame : k \in kernel}
        <5>1. \A t \in taken : in(t) \in kernel /\ m_Positions[Slot(at(t))] = log[in(t)]
          BY <4>3
        <5>2. \A k \in kernel : \E t \in taken : m_Positions[Slot(at(t))] = log[k]
          BY <4>3
        <5> QED  BY <5>1, <5>2
      <4> QED  BY <3>3, <4>1, <4>2, <4>4
    <3> QED  BY <3>4, <3>5
  <2> QED  BY <2>8, <2>9
<1> QED  BY <1>1, <1>6, <1>7

\* At every other time there is silence, and a later one was asked for before.
LEMMA SoundsNot ==
    ASSUME Reads, Ordered, Passed, NEW target \in Int, ~ Ahead(target)
    PROVE  /\ Sounding(target) = {} /\ Sought(target) = Cursor % Width
           /\ Cursor < reader.published /\ Gen(Cursor) = reader.generation
           /\ When(Cursor) > target /\ When(Cursor) \in Int
           /\ Come(When(Cursor), reader.generation)
<1> DEFINE gen == reader.generation
           P == reader.published
<1>1. /\ Base \in Nat /\ Cursor \in Nat /\ P \in Nat /\ Len(log) \in Nat
      /\ Base <= Cursor /\ P <= Len(log) /\ Cursor <= P
      /\ gen \in Nat /\ Reading /\ TypeOK
  BY ReadsIs, ReadersAre DEF Reads, Readers
<1>2. PICK X \in 0 .. Cursor - 1 :
         ~ \/ Gen(X) < gen
           \/ /\ Cursor < P /\ Gen(X) = gen /\ Gen(Cursor) = gen /\ When(Cursor) <= target
  BY DEF Ahead
<1>3. PassedBy(X, Cursor, P, gen)
  BY <1>1, <1>2 DEF Passed
<1>4. Cursor < P /\ Gen(Cursor) = gen /\ Come(When(Cursor), gen) /\ ~ (When(Cursor) <= target)
  BY <1>2, <1>3 DEF PassedBy
<1>5. Cursor \in Base .. P - 1
  BY <1>1, <1>4
<1>6. When(Cursor) \in Int /\ When(Cursor) > target
  <2>1. When(Cursor) \in Int
    BY <1>5, SlotHolds
  <2> QED  BY <1>4, <2>1
<1>7. PICK C \in Cursor .. P - 1 :
         /\ Advance(reader, target) = C % Width
         /\ \A Y \in Cursor + 1 .. C : Gen(Y) = gen /\ When(Y) <= target
  BY <1>4, AdvanceIs
\* What comes after is later still.
<1>8. C = Cursor
  <2> SUFFICES ASSUME C # Cursor
               PROVE  FALSE
    OBVIOUS
  <2>1. C \in Cursor + 1 .. C /\ C \in Nat /\ Cursor < C /\ C < Len(log)
    BY <1>1, <1>7
  <2>2. Gen(C) = gen /\ When(C) <= target
    BY <1>7, <2>1
  <2>3. When(C) \in Int /\ When(Cursor) < When(C)
    BY <1>1, <1>4, <2>1, <2>2, OrderedIs
  <2> QED  BY <1>6, <2>2, <2>3
<1>9. Sought(target) = Cursor % Width /\ reader.cursor # reader.write
  BY <1>4, <1>7, <1>8, <1>1, AtEnd DEF Sought
<1>10. m_Positions[Slot(Cursor % Width)].Time = When(Cursor)
  BY <1>5, SlotHolds DEF When
<1>11. ~ Centred(reader, Cursor % Width, target)
  BY <1>4, <1>10 DEF Centred
<1> QED  BY <1>4, <1>6, <1>9, <1>11 DEF Sounding

-----------------------------------------------------------------------------
(* The invariant holds at first.                                           *)

LEMMA Initially == Init => IInv
<1> SUFFICES ASSUME Init
             PROVE  IInv
  OBVIOUS
<1>1. TypeOK
  <2>1. 0 \in 0 .. Width - 1 /\ 0 \in 0 .. MaxGeneration /\ 1 \in 1 .. MaxGeneration
        /\ 0 \in 0 .. MaxFrame /\ Early \in 0 .. MaxTime /\ 0 \in 0 .. MaxOdd
    BY Sizes, BoundsAssumption
  <2>2. [s \in 0 .. Capacity - 1 |-> [Time |-> 0, Frame |-> 0, Generation |-> 0]]
           \in [0 .. Capacity - 1 -> Position]
    BY DEF Position
  <2> QED  BY <2>1, <2>2 DEF Init, TypeOK, Idle
<1>2. Calls
  BY Sizes DEF Init, Calls
<1>3. ~ Reading /\ ~ Writing /\ Len(log) = 0 /\ log = << >>
  BY DEF Init, Reading, Writing, Idle
<1>4. 0 % Width = 0 /\ Minus(0, 0) = 0
  BY Sizes, ModSmall DEF Minus
<1>5. Oldest = 0 /\ Found = 0
  BY <1>3, <1>4 DEF Init, Oldest, Found
<1>6. Counters
  BY <1>3, <1>4, <1>5, Sizes DEF Init, Counters
<1>7. Contents /\ Ordered /\ Passed /\ Released
  <2>1. 0 .. 0 - 1 = {}
    OBVIOUS
  <2> QED  BY <1>3, <1>5, <2>1 DEF Contents, Ordered, Passed, Released
<1>8. /\ ReadCounters /\ Filled /\ Current /\ Caught /\ Heeded /\ PlaysWhatIsDue
  BY <1>3 DEF ReadCounters, Filled, Current, Caught, Heeded, PlaysWhatIsDue,
              Reading, Writing
<1>9. Loaded
  BY <1>3 DEF Init, Loaded, ReaderGeneration
<1> QED  BY <1>1, <1>2, <1>6, <1>7, <1>8, <1>9 DEF IInv

-----------------------------------------------------------------------------
(* What a step leaves alone.                                               *)

\* The n-th sample of a Read under way, as it should be.
Due(n) == ToBeHeard(reader, reader.time + (n - 1) * OutStep)

\* Or silence, for a time earlier than one asked for.
Excused(n) == AskedLater(reader, reader.time + (n - 1) * OutStep)
Plays(n) == \/ reader.out[n] = Due(n)
            \/ reader.out[n] = {} /\ Excused(n)

LEMMA PlaysIs ==
    /\ PlaysWhatIsDue <=> (Reading => \A n \in 1 .. Len(reader.out) : Plays(n))
    /\ PlaysWhatIsDue' <=> (Reading' => \A n \in 1 .. Len(reader'.out) : Plays(n)')
BY DEF PlaysWhatIsDue, Reading, Due, Excused, Plays

\* A Read under way does not excuse itself.
LEMMA ExcuseKeeps ==
    ASSUME reader'.generation = reader.generation, reader'.time = reader.time,
           asked' = asked, NEW n
    PROVE  Excused(n)' = Excused(n)
BY DEF Excused, AskedLater

\* It depends on no sample published since the Read began.
LEMMA DueKeeps ==
    ASSUME reader.published \in Nat,
           reader'.published = reader.published, reader'.generation = reader.generation,
           reader'.time = reader.time,
           \A i \in 1 .. reader.published : log'[i] = log[i],
           NEW n \in Nat
    PROVE  Due(n)' = Due(n)
<1> DEFINE target == reader.time + (n - 1) * OutStep
<1>1. Published(reader)' = Published(reader) /\ Published(reader) \subseteq 1 .. reader.published
  BY DEF Published
<1>2. target' = target
  OBVIOUS
<1>3. DueAt(reader, target)' = DueAt(reader, target)
  <2>1. \A i \in Published(reader) : log'[i] = log[i]
    BY <1>1
  <2> HIDE DEF target
  <2> QED  BY <1>1, <1>2, <2>1 DEF DueAt
<1>4. DueAt(reader, target) \subseteq Published(reader)
  BY DEF DueAt
<1>5. ToBeHeard(reader, target)' = ToBeHeard(reader, target)
  <2> DEFINE k(i) == {j \in Published(reader) : \E tap \in 0 .. Taps - 1 :
                        /\ j = i + tap - (Taps \div 2 - 1)
                        /\ InKernel(log[j], log[i], tap)}
             s(i) == {log[j].Frame : j \in k(i)}
             D == DueAt(reader, target)
  <2>1. \A i \in Published(reader) : log'[i] = log[i]
    BY <1>1
  <2>2. \A i \in Published(reader) : k(i)' = k(i)
    BY <1>1, <2>1
  <2>3. \A i \in Published(reader) : s(i)' = s(i)
    <3>1. \A i \in Published(reader) : k(i) \subseteq Published(reader)
      OBVIOUS
    <3> HIDE DEF k
    <3> QED  BY <2>1, <2>2, <3>1
  <2>4. ToBeHeard(reader, target) =
           IF \E i \in D : log[i].Time = target /\ OutStep <= InStep
           THEN {log[i].Frame : i \in D} ELSE UNION {s(i) : i \in D}
    BY DEF ToBeHeard
  <2>5. ToBeHeard(reader, target)' =
           IF \E i \in D' : log'[i].Time = target' /\ OutStep <= InStep
           THEN {log'[i].Frame : i \in D'} ELSE UNION {s(i)' : i \in D'}
    BY DEF ToBeHeard
  <2>6. {log'[i].Frame : i \in D'} = {log[i].Frame : i \in D}
    BY <1>3, <1>4, <2>1
  <2>7. {s(i)' : i \in D'} = {s(i) : i \in D}
    <3> HIDE DEF s
    <3> QED  BY <1>3, <1>4, <2>3
  <2>8. (\E i \in D' : log'[i].Time = target' /\ OutStep <= InStep) <=>
           (\E i \in D : log[i].Time = target /\ OutStep <= InStep)
    BY <1>2, <1>3, <1>4, <2>1
  <2> HIDE DEF s, D
  <2> QED  BY <2>4, <2>5, <2>6, <2>7, <2>8
<1> QED  BY <1>5 DEF Due
LEMMA Pcs ==
    ASSUME Calls
    PROVE  /\ reader = Idle <=> ~ Reading
           /\ writer = Idle <=> ~ Writing
           /\ Reading => reader \in Readers
           /\ Writing => writer \in Writers
BY DEF Calls, Idle, Reading, Writing, Readers, Writers

\* No step of the writer's that publishes nothing moves anything of the
\* reader's, nor does a new generation.
LEMMA Undisturbed ==
    ASSUME IInv, UNCHANGED <<m_Read, m_Write, m_Search, log, last, reader, asked>>,
           ReaderGeneration \in Nat, ReaderGeneration' \in Nat,
           ReaderGeneration <= ReaderGeneration',
           Reading => ReaderGeneration' = ReaderGeneration
    PROVE  /\ Counters' /\ ReadCounters' /\ Ordered' /\ Loaded' /\ Passed' /\ Released'
           /\ Current' /\ Caught' /\ Heeded' /\ PlaysWhatIsDue'
           /\ Oldest' = Oldest /\ Found' = Found
<1>1. /\ Oldest' = Oldest /\ Found' = Found /\ Base' = Base /\ Cursor' = Cursor
      /\ Lately' = Lately /\ (Reading' <=> Reading)
  BY DEF Oldest, Found, Base, Cursor, Lately, Reading
<1>2. \A X : Gen(X)' = Gen(X) /\ When(X)' = When(X)
  BY DEF Gen, When
<1>3. Counters' /\ ReadCounters'
  BY <1>1 DEF IInv, Counters, ReadCounters
<1>4. Ordered'
  BY <1>2 DEF IInv, Ordered, last
<1>5. Loaded' /\ Heeded'
  <2>1. asked.Generation \in Nat
    BY BoundsAssumption DEF IInv, TypeOK
  <2> QED  BY <1>1, <2>1 DEF IInv, Loaded, Heeded
<1>6. Current' /\ Caught'
  BY <1>1, <1>2 DEF IInv, Current, Caught
<1>7. Passed'
  <2>1. \A X, at, end, gen : PassedBy(X, at, end, gen)' <=>
           PassedBy(X, at, end, gen)
    BY <1>1, <1>2 DEF PassedBy, Come
  <2> QED  BY <1>1, <1>2, <2>1 DEF IInv, Passed
<1>8. Released'
  <2>1. CASE Reading
    BY <1>1, <1>2, <2>1 DEF IInv, Released
  <2>2. CASE ~ Reading
    <3> SUFFICES ASSUME NEW X \in 0 .. Oldest - 1
                 PROVE  (Gen(X) < ReaderGeneration \/ X + Taps <= Found)'
      BY <1>1, <2>2 DEF Released
    <3>1. Gen(X) < ReaderGeneration \/ X + Taps <= Found
      BY <2>2 DEF IInv, Released
    <3>2. Gen(X) \in Nat
      <4>1. X \in 0 .. Len(log) - 1
        BY LogIs DEF IInv, Counters
      <4> QED  BY <4>1, LogIs DEF IInv
    <3>3. Gen(X) < ReaderGeneration => Gen(X) < ReaderGeneration'
      BY <3>2
    <3> QED  BY <1>1, <1>2, <3>1, <3>3
  <2> QED  BY <2>1, <2>2
<1>9. PlaysWhatIsDue'
  <2> SUFFICES ASSUME Reading', NEW n \in 1 .. Len(reader.out)
               PROVE  Plays(n)'
    BY PlaysIs
  <2>1. Plays(n)
    BY <1>1, PlaysIs DEF IInv
  <2>2. reader \in Readers
    BY <1>1, Pcs DEF IInv
  <2>3. reader.published \in Nat /\ n \in Nat
    BY <2>2 DEF Readers
  <2>4. Due(n)' = Due(n) /\ Excused(n)' = Excused(n)
    BY <2>3, DueKeeps, ExcuseKeeps
  <2> QED  BY <2>1, <2>4 DEF Plays
<1> QED  BY <1>1, <1>3, <1>4, <1>5, <1>6, <1>7, <1>8, <1>9

\* The generations are numbers, and the engine's is the newest.
LEMMA Generations ==
    ASSUME TypeOK
    PROVE  /\ m_Generation \in 1 .. MaxGeneration /\ seen \in 1 .. m_Generation
           /\ seen \in 1 .. MaxGeneration /\ MaxGeneration \in Nat
           /\ ReaderGeneration \in 1 .. MaxGeneration
           /\ WriterGeneration \in 1 .. MaxGeneration
<1>1. /\ m_Generation \in 1 .. MaxGeneration /\ seen \in 1 .. m_Generation
      /\ MaxGeneration \in Nat
  BY BoundsAssumption DEF TypeOK
<1>2. seen \in 1 .. MaxGeneration
  BY <1>1
<1> QED  BY <1>1, <1>2 DEF ReaderGeneration, WriterGeneration

-----------------------------------------------------------------------------
(* The steps that leave the reader alone.                                  *)

LEMMA BeginWriteKeeps ==
    ASSUME IInv, NEW frames \in Blocks, NEW skip \in -1 .. 1, NEW off \in -Early .. Early,
           BeginWrite(frames, skip, off)
    PROVE  IInv'
<1> DEFINE stamp == [Time |-> source.Time + skip * InStep + off,
                     Frame |-> source.Frame + skip,
                     Generation |-> WriterGeneration]
<1>1. /\ writer = Idle /\ stamp.Frame >= 0 /\ stamp.Frame + frames <= MaxFrame
      /\ odd' = odd + (IF skip # 0 \/ off # 0 THEN 1 ELSE 0) /\ odd' <= MaxOdd
      /\ source' = [Frame |-> stamp.Frame + frames,
                    Time |-> source.Time + (skip + frames) * InStep]
      /\ writer' = IF Fresh(stamp) /\ Room(frames)
                   THEN [pc |-> "fill", stamp |-> stamp, frames |-> frames, n |-> 0]
                   ELSE Idle
      /\ UNCHANGED <<queue, last, m_Generation, playback, seen, reader, due, log, asked>>
  BY DEF BeginWrite, Irregular
<1>2. TypeOK /\ Calls /\ Counters
  BY DEF IInv
<1>3. stamp \in Position /\ stamp.Generation \in 1 .. MaxGeneration /\ stamp.Frame \in Nat
  <2>1. source.Time \in Int /\ source.Frame \in Nat /\ InStep \in Int /\ Early \in Int
    BY <1>2, Sizes DEF Calls
  <2>2. WriterGeneration \in 1 .. MaxGeneration
    BY <1>2, Generations
  <2>3. skip * InStep \in Int
    BY <2>1
  <2> QED  BY <1>1, <2>1, <2>2, <2>3 DEF Position
<1>4. frames \in Nat \ {0} /\ MaxFrame \in Nat
  BY CallsAssumption, BoundsAssumption
<1> HIDE DEF stamp
<1>5. writer' = Idle \/ (Writing' /\ writer' \in Writers)
  BY <1>1, <1>3, <1>4 DEF Writers, Writing
<1>6. TypeOK'
  <2>1. odd' \in 0 .. MaxOdd
    BY <1>1, <1>2, BoundsAssumption DEF TypeOK
  <2>2. writer'.pc \in {"idle", "fill"}
    BY <1>1 DEF Idle
  <2> QED  BY <1>1, <1>2, <2>1, <2>2 DEF TypeOK, queue, last
<1>7. Calls'
  <2>1. source.Time \in Int /\ (skip + frames) * InStep \in Int
    BY <1>2, <1>4, Sizes DEF Calls
  <2>2. source' \in [Frame : Nat, Time : Int] /\ source'.Frame <= MaxFrame
    BY <1>1, <1>3, <1>4, <2>1
  <2> QED  BY <1>1, <1>2, <1>5, <2>2 DEF Calls
<1>8. /\ Counters' /\ ReadCounters' /\ Ordered' /\ Loaded' /\ Passed' /\ Released'
      /\ Current' /\ Caught' /\ Heeded' /\ PlaysWhatIsDue' /\ Oldest' = Oldest
  <2>1. ReaderGeneration' = ReaderGeneration /\ ReaderGeneration \in Nat
    BY <1>1, <1>2, Generations DEF ReaderGeneration
  <2> QED  BY <1>1, <2>1, Undisturbed DEF queue
<1>9. Contents'
  BY <1>1, <1>8 DEF IInv, Contents, queue
<1>10. Filled'
  <2> SUFFICES ASSUME Writing'
               PROVE  Filled'
    BY DEF Filled
  <2>1. Fresh(stamp) /\ Room(frames) /\ writer'.stamp = stamp /\ writer'.frames = frames /\ writer'.n = 0
    BY <1>1 DEF Writing, Idle
  <2>2. Len(log) + frames - Oldest <= Capacity
    <3>1. Minus(m_Write, m_Read) \in Int
      BY <1>2, Sizes, SMTT(30) DEF TypeOK, Minus
    <3>2. frames <= Capacity - Minus(m_Write, m_Read)
      BY <2>1 DEF Room
    <3> QED  BY <1>2, <1>4, <3>1, <3>2, LogIs, Sizes DEF Oldest
  <2>3. Fresh(writer.stamp)'
    BY <1>1, <2>1 DEF Fresh, last
  <2> QED  BY <1>1, <1>3, <1>4, <1>8, <2>1, <2>2, <2>3 DEF Filled
<1> QED  BY <1>6, <1>7, <1>8, <1>9, <1>10 DEF IInv

LEMMA FillKeeps ==
    ASSUME IInv, Fill
    PROVE  IInv'
<1>1. /\ Writing /\ writer.n < writer.frames
      /\ m_Positions' = [m_Positions EXCEPT ![Slot(m_Write + writer.n)] =
                            Stamped(writer.stamp, writer.n)]
      /\ writer' = [writer EXCEPT !.n = @ + 1]
      /\ UNCHANGED <<m_Read, m_Write, m_Search, last, m_Generation, playback,
                     seen, reader, clocks, log, asked>>
  BY DEF Fill, Writing
<1>2. TypeOK /\ Calls /\ Counters /\ Contents /\ Filled
  BY DEF IInv
<1>3. /\ writer \in Writers /\ writer.n \in Nat /\ writer.frames \in Nat
      /\ writer.stamp \in Position
  BY <1>1, <1>2, Pcs, CallsAssumption DEF Writers
<1>4. /\ writer' \in Writers /\ Writing' /\ writer'.stamp = writer.stamp
      /\ writer'.frames = writer.frames /\ writer'.n = writer.n + 1
  BY <1>1, <1>3 DEF Writers, Writing
<1> DEFINE N == Len(log)
           s == (N + writer.n) % Capacity
           new == Stamped(writer.stamp, writer.n)
<1>5. N \in Nat /\ Oldest \in 0 .. N /\ N + writer.frames - Oldest <= Capacity
  BY <1>1, <1>2, LogIs DEF Counters, Filled
<1>6. s \in 0 .. Capacity - 1 /\ Slot(m_Write + writer.n) = s
  <2>1. N + writer.n \in Int /\ N \in Int /\ m_Write = N % Width
    BY <1>2, <1>3, <1>5 DEF Counters
  <2>2. writer.n \in Int
    BY <1>3
  <2> HIDE DEF N
  <2>3. Slot((N % Width) + writer.n) = (N + writer.n) % Capacity
    BY <2>1, <2>2, SlotOf
  <2>4. (N + writer.n) % Capacity \in 0 .. Capacity - 1
    BY <2>1, Reduced
  <2> QED  BY <2>1, <2>3, <2>4
<1>7. new \in Position
  <2>1. writer.stamp.Time \in Int /\ writer.stamp.Frame \in Nat /\ writer.stamp.Generation \in Nat
    BY <1>3 DEF Position
  <2>2. writer.n * InStep \in Int
    BY <1>3, Sizes
  <2> QED  BY <1>3, <2>1, <2>2 DEF Position, Stamped
<1>8. /\ m_Positions \in [0 .. Capacity - 1 -> Position]
      /\ m_Positions' = [m_Positions EXCEPT ![s] = new]
  BY <1>1, <1>2, <1>6 DEF TypeOK
<1> HIDE DEF new
<1>9. m_Positions' \in [0 .. Capacity - 1 -> Position] /\ m_Positions'[s] = new
      /\ \A t \in 0 .. Capacity - 1 : t # s => m_Positions'[t] = m_Positions[t]
  BY <1>6, <1>7, <1>8
\* The slot is that of no sample in the queue or in the block so far.
<1>10. ASSUME NEW X \in Oldest .. N + writer.n - 1
       PROVE  X % Capacity \in 0 .. Capacity - 1 /\ X % Capacity # s
  <2> DEFINE Y == N + writer.n
             o == Oldest
             f == writer.frames
  <2>1. /\ o \in Nat /\ Y \in Int /\ X \in o .. Y - 1 /\ f \in Nat /\ Y < N + f /\ N \in Nat
        /\ N + f - o <= Capacity /\ s = Y % Capacity
    BY <1>1, <1>3, <1>5
  <2> HIDE DEF Y, o, f, N, s
  <2>2. X \in Int /\ Y - X \in 0 .. Capacity - 1 /\ Y # X
    BY <2>1, Sizes
  <2>3. Y % Capacity # X % Capacity
    BY <2>1, <2>2, ModDistinct, Sizes
  <2> QED  BY <2>1, <2>2, <2>3, Reduced
<1>11. /\ Counters' /\ ReadCounters' /\ Ordered' /\ Loaded' /\ Passed' /\ Released'
       /\ Current' /\ Caught' /\ Heeded' /\ PlaysWhatIsDue' /\ Oldest' = Oldest
  <2>1. ReaderGeneration' = ReaderGeneration /\ ReaderGeneration \in Nat
    BY <1>1, <1>2, Generations DEF ReaderGeneration
  <2> QED  BY <1>1, <2>1, Undisturbed DEF clocks
<1>12. TypeOK'
  BY <1>1, <1>2, <1>9, <1>4 DEF TypeOK, last, clocks, Writing
<1>13. Calls'
  BY <1>1, <1>2, <1>4 DEF Calls, clocks
<1>14. Contents'
  <2>1. ASSUME NEW X \in Oldest .. N - 1
        PROVE  m_Positions'[X % Capacity] = log[X + 1]
    <3>1. X \in Oldest .. N + writer.n - 1
      BY <1>3, <1>5
    <3> QED  BY <1>2, <1>9, <1>10, <3>1 DEF Contents
  <2> QED  BY <1>1, <1>11, <2>1 DEF Contents
<1>15. Filled'
  <2>1. ASSUME NEW n \in 0 .. writer.n
        PROVE  m_Positions'[(N + n) % Capacity] = Stamped(writer.stamp, n)
    <3>1. CASE n = writer.n
      BY <1>9, <3>1 DEF new
    <3>2. CASE n # writer.n
      <4>1. n \in 0 .. writer.n - 1 /\ N + n \in Oldest .. N + writer.n - 1
        BY <1>3, <1>5, <3>2
      <4> QED  BY <1>1, <1>2, <1>9, <1>10, <4>1 DEF Filled
    <3> QED  BY <3>1, <3>2
  <2>2. Fresh(writer.stamp)' /\ writer.n + 1 <= writer.frames
    BY <1>1, <1>2, <1>3, <1>4 DEF Filled, Fresh, last
  <2>3. 0 .. (writer.n + 1) - 1 = 0 .. writer.n
    BY <1>3
  <2> QED  BY <1>1, <1>2, <1>4, <1>11, <2>1, <2>2, <2>3 DEF Filled, Stamped
<1> QED  BY <1>11, <1>12, <1>13, <1>14, <1>15 DEF IInv

\* Steps of the clocks and generations only.
LEMMA GenerationsKeep ==
    ASSUME IInv,
           \/ \E shift \in Shifts : Renew(shift) \/ Correct(shift)
           \/ LoadGeneration
           \/ UNCHANGED vars
    PROVE  IInv'
<1>1. TypeOK /\ Calls /\ Contents /\ Filled
  BY DEF IInv
<1>2. /\ UNCHANGED <<queue, last, reader, writer, due, log, asked, playback>>
      /\ m_Generation' \in 1 .. MaxGeneration /\ seen' \in 1 .. m_Generation'
      /\ source' \in [Frame : Nat, Time : Int] /\ source'.Frame = source.Frame
      /\ odd' \in 0 .. MaxOdd
      /\ ReaderGeneration' \in Nat /\ ReaderGeneration <= ReaderGeneration'
      /\ Reading => ReaderGeneration' = ReaderGeneration
  <2>1. /\ m_Generation \in 1 .. MaxGeneration /\ seen \in 1 .. m_Generation
        /\ source \in [Frame : Nat, Time : Int] /\ odd \in 0 .. MaxOdd
        /\ MaxOdd \in Nat /\ MaxGeneration \in Nat /\ InStep \in Int
    BY <1>1, BoundsAssumption, Sizes DEF TypeOK, Calls
  <2>2. ASSUME NEW shift \in Shifts
        PROVE  [source EXCEPT !.Time = @ + shift * InStep] \in [Frame : Nat, Time : Int]
    <3>1. shift * InStep \in Int
      BY <2>1, CallsAssumption
    <3> QED  BY <2>1, <3>1
  <2>3. ASSUME NEW shift \in Shifts, Renew(shift)
        PROVE  <1>2!:
    <3>1. odd' \in 0 .. MaxOdd
      BY <2>1, <2>3 DEF Renew, Irregular
    <3>2. m_Generation' \in 1 .. MaxGeneration /\ seen' \in 1 .. m_Generation' /\ m_Generation <= m_Generation'
      BY <2>1, <2>3 DEF Renew
    <3>3. Reading => playback
      BY <1>1, <2>3, Pcs DEF Renew, EngineIdle
    <3>4. ReaderGeneration' \in Nat /\ ReaderGeneration <= ReaderGeneration'
      BY <2>1, <2>3, <3>2 DEF Renew, ReaderGeneration
    <3>5. source' \in [Frame : Nat, Time : Int] /\ source'.Frame = source.Frame
      BY <2>1, <2>2, <2>3 DEF Renew
    <3> QED  BY <2>3, <3>1, <3>2, <3>3, <3>4, <3>5 DEF Renew, ReaderGeneration
  <2>4. ASSUME NEW shift \in Shifts, Correct(shift)
        PROVE  <1>2!:
    <3>1. odd' \in 0 .. MaxOdd
      BY <2>1, <2>4 DEF Correct, Irregular
    <3>2. source' \in [Frame : Nat, Time : Int] /\ source'.Frame = source.Frame
      BY <2>1, <2>2, <2>4 DEF Correct
    <3> QED  BY <2>1, <2>4, <3>1, <3>2 DEF Correct, ReaderGeneration
  <2>5. ASSUME LoadGeneration
        PROVE  <1>2!:
    <3>1. Reading => ~ playback
      BY <1>1, <2>5, Pcs DEF LoadGeneration, DriverIdle
    <3> QED  BY <2>1, <2>5, <3>1 DEF LoadGeneration, ReaderGeneration, clocks
  <2>6. ASSUME UNCHANGED vars
        PROVE  <1>2!:
    BY <2>1, <2>6 DEF vars, clocks, ReaderGeneration
  <2> QED  BY <2>3, <2>4, <2>5, <2>6
<1>3. /\ Counters' /\ ReadCounters' /\ Ordered' /\ Loaded' /\ Passed' /\ Released'
      /\ Current' /\ Caught' /\ Heeded' /\ PlaysWhatIsDue' /\ Oldest' = Oldest
  <2>1. ReaderGeneration \in Nat
    BY <1>1, Generations
  <2> QED  BY <1>2, <2>1, Undisturbed DEF queue
<1>4. TypeOK'
  BY <1>1, <1>2 DEF TypeOK, queue, last
<1>5. Calls'
  BY <1>1, <1>2 DEF Calls
<1>6. Contents' /\ Filled'
  BY <1>1, <1>2, <1>3 DEF Contents, Filled, Fresh, Writing, queue, last
<1> QED  BY <1>3, <1>4, <1>5, <1>6 DEF IInv
-----------------------------------------------------------------------------
(* A block is published.                                                   *)

\* One step is shorter than two.
LEMMA Steps ==
    ASSUME NEW a \in Int, NEW b \in Int, a < b, NEW step \in Nat \ {0}
    PROVE  a * step \in Int /\ b * step \in Int /\ a * step + step <= b * step
<1>1. (b - a) * step >= step
  BY b - a \in Int, b - a >= 1
<1>2. (b - a) * step = b * step - a * step
  OBVIOUS
<1> QED  BY <1>1, <1>2

LEMMA PublishWriteKeeps ==
    ASSUME IInv, PublishWrite
    PROVE  IInv'
<1> DEFINE stamp == writer.stamp
           F == writer.frames
           N == Len(log)
           block == [n \in 1 .. F |-> Stamped(stamp, n - 1)]
<1>1. /\ Writing /\ writer.n = F
      /\ m_LastGeneration' = stamp.Generation
      /\ m_EndFrame' = stamp.Frame + F
      /\ m_LastTime' = stamp.Time + (F - 1) * InStep
      /\ log' = log \o block
      /\ m_Write' = Plus(m_Write, F)
      /\ writer' = Idle
      /\ UNCHANGED <<m_Read, m_Search, m_Positions, m_Generation, playback, seen,
                     reader, clocks, asked>>
  BY DEF PublishWrite, Writing
<1>2. TypeOK /\ Calls /\ Counters /\ ReadCounters /\ Contents /\ Filled /\ Ordered
  BY DEF IInv
<1>3. /\ F \in Nat \ {0} /\ stamp \in Position /\ stamp.Time \in Int /\ stamp.Frame \in Nat
      /\ stamp.Generation \in Nat /\ InStep \in Nat \ {0}
  BY <1>1, <1>2, Pcs, CallsAssumption, Sizes DEF Writers, Position
<1>4. /\ N \in Nat /\ Oldest \in 0 .. N /\ N + F - Oldest <= Capacity
      /\ stamp.Generation \in 1 .. MaxGeneration /\ stamp.Frame + F <= MaxFrame
      /\ Fresh(stamp)
      /\ \A n \in 0 .. F - 1 : m_Positions[(N + n) % Capacity] = Stamped(stamp, n)
  BY <1>1, <1>2, LogIs DEF Counters, Filled
<1>5. \A n \in 0 .. F - 1 : Stamped(stamp, n) \in Position
  <2> TAKE n \in 0 .. F - 1
  <2>1. n * InStep \in Int /\ n \in Nat
    BY <1>3
  <2> QED  BY <1>3, <2>1 DEF Stamped, Position
\* The log, before and after.
<1>6. /\ log' \in Seq(Position) /\ Len(log') = N + F
      /\ \A X \in 0 .. N - 1 : log'[X + 1] = log[X + 1]
      /\ \A n \in 0 .. F - 1 : log'[N + n + 1] = Stamped(stamp, n)
  <2>1. block \in Seq(Position) /\ Len(block) = F
    <3>1. \A n \in 1 .. F : n - 1 \in 0 .. F - 1
      BY <1>3
    <3>2. \A n \in 1 .. F : Stamped(stamp, n - 1) \in Position
      BY <1>5, <3>1
    <3>3. F \in Nat
      BY <1>3
    <3> HIDE DEF F, stamp
    <3> QED  BY <3>2, <3>3
  <2>2. log \in Seq(Position)
    BY <1>2 DEF TypeOK
  <2>3. \A n \in 0 .. F - 1 : n + 1 \in 1 .. F /\ block[n + 1] = Stamped(stamp, n)
    <3> TAKE n \in 0 .. F - 1
    <3>1. n + 1 \in 1 .. F /\ (n + 1) - 1 = n
      BY <1>3
    <3> QED  BY <3>1
  <2> HIDE DEF block
  <2>4. /\ log \o block \in Seq(Position) /\ Len(log \o block) = N + F
        /\ \A i \in 1 .. N : (log \o block)[i] = log[i]
        /\ \A i \in 1 .. F : (log \o block)[N + i] = block[i]
    BY <2>1, <2>2, <1>3, SMTT(30)
  <2>5. \A n \in 0 .. F - 1 : N + n + 1 = N + (n + 1)
    BY <1>4
  <2>6. \A X \in 0 .. N - 1 : X + 1 \in 1 .. N
    BY <1>4
  <2> QED  BY <1>1, <2>3, <2>4, <2>5, <2>6
<1> HIDE DEF stamp, F, block
<1>7. \A X \in 0 .. N - 1 : Gen(X)' = Gen(X) /\ When(X)' = When(X)
  BY <1>6 DEF Gen, When
<1>8. ASSUME NEW X \in N .. N + F - 1
      PROVE  /\ X - N \in 0 .. F - 1 /\ X \in Nat
             /\ log'[X + 1] = Stamped(stamp, X - N)
             /\ Gen(X)' = stamp.Generation /\ When(X)' = stamp.Time + (X - N) * InStep
             /\ (X - N) * InStep \in Int /\ 0 <= (X - N) * InStep
  <2>1. X - N \in 0 .. F - 1 /\ N + (X - N) + 1 = X + 1 /\ X \in Nat
    BY <1>3, <1>4
  <2>2. log'[X + 1] = Stamped(stamp, X - N)
    BY <1>6, <2>1
  <2>3. (X - N) * InStep \in Int /\ 0 <= (X - N) * InStep
    BY <1>3, <2>1
  <2> QED  BY <2>1, <2>2, <2>3 DEF Gen, When, Stamped
\* The counters.
<1>9. m_Write' = (N + F) % Width /\ Oldest' = Oldest /\ Found' = Found
  <2>1. m_Write = N % Width /\ m_Read = Oldest % Width
    BY <1>2 DEF Counters
  <2>2. m_Write' = (N + F) % Width
    BY <1>1, <1>3, <1>4, <2>1, Moved
  <2>3. N + F \in Int /\ (N + F) - Oldest \in 0 .. Width - 1
    BY <1>3, <1>4, Sizes
  <2>4. Minus((N + F) % Width, Oldest % Width) = (N + F) - Oldest
    BY <1>4, <2>3, Apart
  <2>5. Oldest' = (N + F) - ((N + F) - Oldest)
    BY <1>1, <1>6, <2>1, <2>2, <2>4 DEF Oldest
  <2>6. Oldest' = Oldest
    BY <1>3, <1>4, <2>5
  <2> QED  BY <1>1, <2>2, <2>6 DEF Found
<1>10. Base' = Base /\ Cursor' = Cursor /\ Lately' = Lately /\ (Reading' <=> Reading)
  BY <1>1 DEF Base, Cursor, Lately, Reading
<1>11. Counters'
  <2>1. /\ Found \in Oldest .. N /\ m_Search = Found % Width /\ m_Read = Oldest % Width
    BY <1>2 DEF Counters
  <2>2. Oldest \in 0 .. N + F /\ (N + F) - Oldest <= Capacity /\ Found \in Oldest .. N + F /\ Found < N + F
    BY <1>3, <1>4, <2>1
  <2> QED  BY <1>1, <1>6, <1>9, <2>1, <2>2 DEF Counters
<1>12. N <= Len(log')
  BY <1>3, <1>4, <1>6
<1>13. Reading => /\ reader.published \in Nat /\ reader.published <= N
                  /\ Base \in 0 .. reader.published /\ Cursor \in 0 .. reader.published
                  /\ reader.generation \in Nat /\ reader \in Readers
  <2> SUFFICES ASSUME Reading
               PROVE  <1>13!2
    OBVIOUS
  <2>1. Reads
    BY <1>2 DEF Reads
  <2>2. /\ Base \in Nat /\ Cursor \in Nat /\ reader.published \in Nat /\ Base <= Cursor
        /\ Cursor <= reader.published /\ reader.published <= N /\ reader \in Readers
    BY <2>1, ReadsIs, ReadersAre
  <2> QED  BY <2>2 DEF Readers
<1>14. ReadCounters'
  <2> SUFFICES ASSUME Reading
               PROVE  ReadCounters'
    BY <1>10 DEF ReadCounters
  <2>1. reader.published <= Len(log')
    BY <1>4, <1>6, <1>12, <1>13
  <2> QED  BY <1>1, <1>2, <1>9, <1>10, <2>1 DEF ReadCounters
<1>15. Contents'
  <2> SUFFICES ASSUME NEW X \in Oldest .. N + F - 1
               PROVE  m_Positions[X % Capacity] = log'[X + 1]
    <3>1. Len(log') = N + F /\ m_Positions' = m_Positions /\ Oldest' = Oldest
      BY <1>1, <1>6, <1>9
    <3>2. N \in Int /\ F \in Int /\ Oldest \in Int
      BY <1>3, <1>4
    <3> QED  BY <3>1, <3>2 DEF Contents
  <2>1. CASE X < N
    <3>1. X \in Oldest .. N - 1 /\ X \in 0 .. N - 1
      BY <1>4, <2>1
    <3> QED  BY <1>2, <1>6, <3>1 DEF Contents
  <2>2. CASE N <= X
    <3>1. X \in N .. N + F - 1 /\ N + (X - N) = X
      BY <1>4, <2>2
    <3> QED  BY <1>4, <1>8, <3>1
  <2> QED  BY <1>4, <2>1, <2>2
<1>16. Ordered'
  <2>1. m_LastGeneration \in Nat /\ m_LastTime \in Int
    BY <1>2, BoundsAssumption DEF TypeOK
  <2>2. /\ m_LastGeneration = stamp.Generation => m_LastTime < stamp.Time
        /\ m_LastGeneration = 0 \/ m_LastGeneration <= stamp.Generation
    BY <1>3, <1>4, <2>1 DEF Fresh
  <2>3. (F - 1) * InStep \in Int
    BY <1>3
  <2>4. ASSUME NEW X \in 0 .. N - 1
        PROVE  /\ Gen(X) >= 1 /\ Gen(X) <= stamp.Generation /\ Gen(X) \in Nat /\ When(X) \in Int
               /\ Gen(X) = stamp.Generation => When(X) < stamp.Time
    <3>1. /\ Gen(X) >= 1 /\ Gen(X) <= m_LastGeneration
          /\ Gen(X) = m_LastGeneration => When(X) <= m_LastTime
          /\ Gen(X) \in Nat /\ When(X) \in Int
      BY <1>2, LogIs DEF Ordered
    <3> QED  BY <1>3, <2>1, <2>2, <3>1
  <2>5. ASSUME NEW X \in 0 .. N + F - 1
        PROVE  /\ Gen(X)' >= 1 /\ Gen(X)' <= m_LastGeneration'
               /\ Gen(X)' = m_LastGeneration' => When(X)' <= m_LastTime'
    <3>1. CASE X < N
      <4>1. X \in 0 .. N - 1
        BY <1>4, <3>1
      <4>2. 0 <= (F - 1) * InStep
        BY <1>3
      <4> QED  BY <1>1, <1>3, <1>7, <2>3, <2>4, <4>1, <4>2, SMTT(30)
    <3>2. CASE N <= X
      <4>1. X \in N .. N + F - 1
        BY <1>4, <3>2
      <4>2. (X - N) * InStep <= (F - 1) * InStep
        <5>1. CASE X - N = F - 1
          BY <2>3, <5>1
        <5>2. CASE X - N # F - 1
          <6>1. X - N \in Int /\ F - 1 \in Int /\ X - N < F - 1
            <7>1. X - N \in 0 .. F - 1
              BY <1>8, <4>1
            <7> HIDE DEF N
            <7> QED  BY <1>3, <5>2, <7>1
          <6>2. (X - N) * InStep + InStep <= (F - 1) * InStep
            BY <1>3, <6>1, Steps
          <6> QED  BY <1>3, <1>8, <2>3, <4>1, <6>2
        <5> QED  BY <5>1, <5>2
      <4>3. /\ (X - N) * InStep \in Int
            /\ Gen(X)' = stamp.Generation /\ When(X)' = stamp.Time + (X - N) * InStep
        BY <1>8, <4>1
      <4>4. PICK a, b : a = (X - N) * InStep /\ b = (F - 1) * InStep
        OBVIOUS
      <4>5. a \in Int /\ b \in Int /\ a <= b /\ When(X)' = stamp.Time + a
        BY <2>3, <4>2, <4>3, <4>4
      <4>6. m_LastGeneration' = stamp.Generation /\ m_LastTime' = stamp.Time + b
        BY <1>1, <4>4
      <4>7. stamp.Time \in Int /\ stamp.Generation \in Nat /\ stamp.Generation >= 1
        BY <1>3, <1>4, BoundsAssumption
      <4> HIDE DEF N
      <4> QED  BY <4>3, <4>5, <4>6, <4>7
    <3> QED  BY <1>4, <3>1, <3>2
  <2>6. ASSUME NEW X \in 0 .. N + F - 1, NEW Y \in X + 1 .. N + F - 1
        PROVE  Gen(X)' <= Gen(Y)' /\ (Gen(X)' = Gen(Y)' => When(X)' < When(Y)')
    <3>1. CASE Y < N
      <4>1. X \in 0 .. N - 1 /\ Y \in 0 .. N - 1 /\ Y \in X + 1 .. N - 1
        BY <1>4, <3>1
      <4> QED  BY <1>2, <1>7, <4>1 DEF Ordered
    <3>2. CASE X < N /\ N <= Y
      <4>1. X \in 0 .. N - 1 /\ Y \in N .. N + F - 1
        BY <1>4, <3>2
      <4> QED  BY <1>3, <1>7, <1>8, <2>4, <4>1, SMTT(30)
    <3>3. CASE N <= X
      <4>1. X \in N .. N + F - 1 /\ Y \in N .. N + F - 1 /\ X < Y
        BY <1>4, <3>3
      <4>2. X - N \in Int /\ Y - N \in Int /\ X - N < Y - N
        BY <1>4, <4>1
      <4>3. (X - N) * InStep < (Y - N) * InStep
        BY <1>3, <4>2, Steps
      <4> QED  BY <1>3, <1>8, <4>1, <4>3, SMTT(30)
    <3> QED  BY <1>4, <3>1, <3>2, <3>3
  <2>7. Len(log') = N + F /\ N \in Int /\ F \in Int
    BY <1>3, <1>4, <1>6
  <2> HIDE DEF N
  <2> QED  BY <2>5, <2>6, <2>7 DEF Ordered
<1>17. Loaded' /\ Heeded'
  BY <1>1, <1>10 DEF IInv, Loaded, Heeded, ReaderGeneration, clocks
<1>18. Current'
  <2> SUFFICES ASSUME Reading, Base < reader.published
               PROVE  Gen(Base)' >= reader.generation
    BY <1>1, <1>10 DEF Current
  <2>1. Base \in 0 .. N - 1
    BY <1>4, <1>13
  <2>2. log'[Base + 1] = log[Base + 1]
    BY <1>6, <2>1
  <2>3. Gen(Base) >= reader.generation
    BY DEF IInv, Current
  <2> QED  BY <1>10, <2>2, <2>3 DEF Gen
<1>19. Caught'
  <2> SUFFICES ASSUME Reading, reader.out # << >>, NEW X \in Cursor + 1 .. reader.published - 1,
                      Gen(X)' = reader.generation
               PROVE  When(X)' > Lately
    BY <1>1, <1>10 DEF Caught
  <2>1. X \in 0 .. N - 1
    BY <1>4, <1>13
  <2> QED  BY <1>7, <2>1 DEF IInv, Caught
<1>20. Passed'
  <2>1. CASE Reading
    <3> SUFFICES ASSUME NEW X \in 0 .. Cursor - 1
                 PROVE  PassedBy(X, Cursor, reader.published, reader.generation)'
      BY <1>10, <1>1, <2>1 DEF Passed
    <3>1. PassedBy(X, Cursor, reader.published, reader.generation)
      BY <2>1 DEF IInv, Passed
    <3>2. X \in 0 .. N - 1 /\ (Cursor < reader.published => Cursor \in 0 .. N - 1)
      BY <1>4, <1>13, <2>1
    <3> QED  BY <1>1, <1>7, <1>10, <3>1, <3>2 DEF PassedBy, Come
  <2>2. CASE ~ Reading
    <3> SUFFICES ASSUME NEW X \in 0 .. Found - 1
                 PROVE  PassedBy(X, Found, Len(log), asked.Generation)'
      BY <1>9, <1>10, <2>2 DEF Passed
    <3>1. PassedBy(X, Found, N, asked.Generation)
      BY <2>2 DEF IInv, Passed
    <3>2. X \in 0 .. N - 1 /\ (Found < N => Found \in 0 .. N - 1) /\ Found \in Int
      BY <1>2, <1>4 DEF Counters
    <3>3. Found < N => Found < N + F
      BY <1>3, <1>4, <3>2
    <3> QED  BY <1>1, <1>6, <1>7, <1>9, <1>10, <3>1, <3>2, <3>3 DEF PassedBy, Come
  <2> QED  BY <2>1, <2>2
<1>21. Released'
  <2>1. CASE Reading
    <3> SUFFICES ASSUME NEW X \in 0 .. Base - 1
                 PROVE  (Gen(X) < reader.generation \/ X + Taps <= Cursor)'
      BY <1>10, <1>1, <2>1 DEF Released
    <3>1. X \in 0 .. N - 1
      BY <1>4, <1>13, <2>1
    <3> QED  BY <1>1, <1>7, <1>10, <2>1, <3>1 DEF IInv, Released
  <2>2. CASE ~ Reading
    <3> SUFFICES ASSUME NEW X \in 0 .. Oldest - 1
                 PROVE  (Gen(X) < ReaderGeneration \/ X + Taps <= Found)'
      BY <1>9, <1>10, <2>2 DEF Released
    <3>1. X \in 0 .. N - 1
      BY <1>4
    <3>2. ReaderGeneration' = ReaderGeneration
      BY <1>1 DEF ReaderGeneration
    <3> QED  BY <1>7, <1>9, <2>2, <3>1, <3>2 DEF IInv, Released
  <2> QED  BY <2>1, <2>2
<1>22. PlaysWhatIsDue'
  <2> SUFFICES ASSUME Reading', NEW n \in 1 .. Len(reader.out)
               PROVE  Plays(n)'
    BY <1>1, PlaysIs
  <2>1. Plays(n)
    BY <1>10, PlaysIs DEF IInv
  <2>2. reader.published \in Nat /\ n \in Nat
    BY <1>10, <1>13 DEF Readers
  <2>3. \A i \in 1 .. reader.published : log'[i] = log[i]
    <3> TAKE i \in 1 .. reader.published
    <3>1. i - 1 \in 0 .. N - 1 /\ (i - 1) + 1 = i
      BY <1>4, <1>10, <1>13
    <3> QED  BY <1>6, <3>1
  <2>4. Due(n)' = Due(n) /\ Excused(n)' = Excused(n)
    BY <1>1, <2>2, <2>3, DueKeeps, ExcuseKeeps
  <2> QED  BY <1>1, <2>1, <2>4 DEF Plays
<1>23. TypeOK'
  <2>1. m_LastGeneration' \in 0 .. MaxGeneration /\ m_EndFrame' \in 0 .. MaxFrame /\ m_LastTime' \in Int
    <3>1. (F - 1) * InStep \in Int
      BY <1>3
    <3>2. m_LastTime' \in Int /\ m_LastGeneration' \in 0 .. MaxGeneration
      BY <1>1, <1>3, <1>4, <3>1, BoundsAssumption, SMTT(30)
    <3>3. m_EndFrame' \in 0 .. MaxFrame
      BY <1>1, <1>3, <1>4, BoundsAssumption, SMTT(30)
    <3> QED  BY <3>2, <3>3
  <2>2. m_Write' \in 0 .. Width - 1
    <3>1. N + F \in Int
      BY <1>3, <1>4
    <3> QED  BY <1>9, <3>1, Reduced
  <2>3. writer'.pc \in {"idle", "fill"}
    BY <1>1 DEF Idle
  <2> QED  BY <1>1, <1>2, <1>6, <2>1, <2>2, <2>3 DEF TypeOK, clocks
<1>24. Calls'
  BY <1>1, <1>2 DEF Calls, clocks
<1>25. Filled'
  BY <1>1 DEF Filled, Writing, Idle
<1> QED  BY <1>11, <1>14, <1>15, <1>16, <1>17, <1>18, <1>19, <1>20, <1>21, <1>22, <1>23,
            <1>24, <1>25 DEF IInv
-----------------------------------------------------------------------------
(* A Read begins.                                                          *)

LEMMA BeginReadKeeps ==
    ASSUME IInv, NEW frames \in Periods,
           NEW off \in (-Early .. Early) \cup {Missed, -Back},
           BeginRead(frames, off)
    PROVE  IInv'
<1> DEFINE g == ReaderGeneration
           N == Len(log)
           read == SkipOlder(g)
<1>1. /\ reader = Idle /\ 0 <= due + off
      /\ due + off + frames * OutStep <= MaxTime
      /\ odd' = odd + (IF off # 0 THEN 1 ELSE 0) /\ odd' <= MaxOdd
      /\ due' = due + off + frames * OutStep
      /\ reader' = [pc |-> "frames", time |-> due + off, frames |-> frames,
                    generation |-> g, read |-> read, write |-> m_Write,
                    cursor |-> SearchFrom(read, m_Write), out |-> << >>,
                    published |-> N]
      /\ UNCHANGED <<queue, last, m_Generation, playback, seen, writer, source, log, asked>>
  BY DEF BeginRead, Irregular
<1>2. TypeOK /\ Calls /\ Counters /\ Contents /\ Filled /\ Ordered
  BY DEF IInv
<1>3. ~ Reading
  BY <1>1, <1>2, Pcs
<1>4. g \in Nat /\ ReaderGeneration' = g
  BY <1>1, <1>2, Generations DEF ReaderGeneration
<1>5. /\ N \in Nat /\ Oldest \in 0 .. N /\ N - Oldest <= Capacity /\ m_Write = N % Width
      /\ Found \in Oldest .. N /\ m_Search = Found % Width
      /\ Found < N \/ Found = Oldest
  BY <1>2, LogIs DEF Counters
<1>6. PICK B \in Oldest .. N :
         /\ read = B % Width
         /\ \A X \in Oldest .. B - 1 : Gen(X) < g
         /\ B < N => Gen(B) >= g
  BY <1>2, <1>4, SkipOlderIs
<1> DEFINE C == IF Found \in B .. N - 1 THEN Found ELSE B
<1>7. SearchFrom(read, m_Write) = C % Width
  <2> DEFINE o == Oldest
             s == Found
  <2>1. /\ o \in Int /\ s \in Int /\ N \in Int /\ B \in Int /\ o <= B /\ B <= N /\ N - o <= Capacity
        /\ o <= s /\ s <= N
    BY <1>5
  <2> HIDE DEF o, s, N
  <2>2. N - B \in 0 .. Capacity /\ -Capacity <= s - B /\ s - B < Width
    BY <2>1, Sizes
  <2>3. Within(s % Width, B % Width, N % Width) <=> s \in B .. N - 1
    BY <2>1, <2>2, WithinIs
  <2> QED  BY <1>5, <1>6, <2>3 DEF SearchFrom, s, N
<1> HIDE DEF g, read
<1>8. /\ B \in Nat /\ C \in B .. N /\ (C < N \/ C = B) /\ Found <= C
      /\ C \in Nat
  BY <1>5
\* The new Read's view.
<1>9. /\ Reading' /\ reader'.published = N /\ reader'.generation = g /\ reader'.out = << >>
      /\ reader'.time = due + off /\ reader'.frames = frames
      /\ reader'.read = B % Width /\ reader'.write = N % Width /\ reader'.cursor = C % Width
  BY <1>1, <1>5, <1>6, <1>7 DEF Reading
<1> HIDE DEF C
<1>10. Oldest' = Oldest /\ Found' = Found
  BY <1>1 DEF Oldest, Found, queue
<1>11. Base' = B
  <2>1. N - B \in 0 .. Width - 1
    BY <1>5, <1>8, Sizes
  <2>2. Minus(N % Width, B % Width) = N - B
    BY <1>5, <1>8, <2>1, Apart
  <2> QED  BY <1>5, <1>8, <1>9, <2>2 DEF Base
<1>12. Cursor' = C
  <2>1. C - B \in 0 .. Width - 1
    BY <1>5, <1>8, Sizes
  <2>2. Minus(C % Width, B % Width) = C - B
    BY <1>8, <2>1, Apart
  <2>3. Cursor' = Base' + (C - B)
    BY <1>9, <2>2 DEF Cursor
  <2> QED  BY <1>8, <1>11, <2>3
<1>13. \A X : Gen(X)' = Gen(X) /\ When(X)' = When(X)
  BY <1>1 DEF Gen, When
<1>14. Counters' /\ Contents' /\ Filled' /\ Ordered'
  <2>1. UNCHANGED <<m_Read, m_Write, m_Search, m_Positions, last, writer, log>>
    BY <1>1 DEF queue
  <2>2. Counters'
    BY <1>2, <1>10, <2>1 DEF Counters
  <2>3. Contents'
    BY <1>2, <1>10, <2>1 DEF Contents
  <2>4. Filled'
    BY <1>2, <1>10, <2>1 DEF Filled, Fresh, Writing, last
  <2>5. Ordered'
    BY <1>2, <1>13, <2>1 DEF Ordered, last
  <2> QED  BY <2>2, <2>3, <2>4, <2>5
<1>15. ReadCounters'
  <2>1. Len(log') = N /\ N <= N /\ B \in Oldest .. N /\ C \in B .. N
    BY <1>1, <1>5, <1>8
  <2> HIDE DEF N
  <2> QED  BY <1>8, <1>9, <1>10, <1>11, <1>12, <2>1 DEF ReadCounters
<1>16. Loaded' /\ Heeded' /\ Caught' /\ Current'
  <2>1. 0 <= frames
    BY CallsAssumption
  <2>2. Heeded'
    BY <1>1, <1>9, <2>1 DEF Heeded
  <2>3. Loaded' /\ Caught'
    BY <1>1, <1>4, <1>9 DEF IInv, Loaded, Caught, g
  <2>4. Current'
    BY <1>6, <1>9, <1>11, <1>13 DEF Current
  <2> QED  BY <2>2, <2>3, <2>4
\* What has come stays so: what was asked for is not forgotten.
<1>17. asked' = asked /\ asked.Generation \in Nat /\ asked.Generation <= g
  BY <1>1, <1>2, BoundsAssumption DEF IInv, Loaded, TypeOK, g
<1>18. \A X \in 0 .. N - 1 : Gen(X) \in Nat /\ When(X) \in Int
  BY <1>2, LogIs
\* Where the search starts anew it has passed older generations only.
<1>19. Passed'
  <2> SUFFICES ASSUME NEW X \in 0 .. C - 1
               PROVE  \/ Gen(X) < g
                      \/ /\ C < N /\ Gen(X) = g /\ Gen(C) = g
                         /\ asked.Generation = g /\ When(C) <= asked.Time
    BY <1>9, <1>12, <1>13, <1>17 DEF Passed, PassedBy, Come
  <2>1. \A Z \in 0 .. Found - 1 :
           \/ Gen(Z) < asked.Generation
           \/ /\ Found < N /\ Gen(Z) = asked.Generation /\ Gen(Found) = asked.Generation
              /\ When(Found) <= asked.Time
    BY <1>3 DEF IInv, Passed, PassedBy, Come
  <2>2. CASE Found \in B .. N - 1
    <3>1. /\ C = Found /\ X \in 0 .. Found - 1 /\ Found \in 0 .. N - 1
          /\ X \in 0 .. N - 1 /\ Found < N
      BY <1>5, <2>2 DEF C
    <3>2. Gen(X) \in Nat /\ g \in Nat
      BY <1>4, <1>18, <3>1
    <3> QED  BY <1>17, <2>1, <3>1, <3>2
  <2>3. CASE Found \notin B .. N - 1
    <3>1. C = B
      BY <2>3 DEF C
    <3>2. CASE X >= Oldest
      <4>1. X \in Oldest .. B - 1
        BY <1>5, <3>1, <3>2
      <4> QED  BY <1>6, <4>1
    <3>3. CASE X < Oldest
      <4>1. X \in 0 .. Found - 1
        BY <1>5, <3>3
      <4>2. Found < N => Found \in Oldest .. B - 1
        BY <1>5, <1>8, <2>3
      <4>3. Gen(X) \in Nat /\ g \in Nat
        <5>1. X \in 0 .. N - 1
          BY <1>5, <4>1
        <5> QED  BY <1>4, <1>18, <5>1
      <4> QED  BY <1>6, <1>17, <2>1, <4>1, <4>2, <4>3
    <3> QED  BY <1>5, <3>2, <3>3
  <2> QED  BY <2>2, <2>3
<1>20. Released'
  <2> SUFFICES ASSUME NEW X \in 0 .. B - 1
               PROVE  Gen(X) < g \/ X + Taps <= C
    BY <1>9, <1>11, <1>12, <1>13 DEF Released
  <2>1. CASE X >= Oldest
    <3>1. X \in Oldest .. B - 1
      BY <1>5, <2>1
    <3> QED  BY <1>6, <3>1
  <2>2. CASE X < Oldest
    <3>1. X \in 0 .. Oldest - 1
      BY <1>5, <2>2
    <3>2. Gen(X) < g \/ X + Taps <= Found
      BY <1>3, <3>1 DEF IInv, Released, g
    <3> QED  BY <1>5, <1>8, <3>2, Sizes
  <2> QED  BY <1>5, <2>1, <2>2
<1>21. PlaysWhatIsDue'
  BY <1>9, PlaysIs
<1>22. due' \in Int /\ 0 <= due'
  <2>1. frames \in Nat /\ OutStep \in Nat
    BY Sizes, CallsAssumption
  <2>2. frames * OutStep \in Int /\ 0 <= frames * OutStep
    BY <2>1
  <2>3. due + off \in Int
    BY <1>2, Sizes, CallsAssumption DEF TypeOK
  <2> QED  BY <1>1, <2>2, <2>3
<1>23. TypeOK'
  <2>1. due' \in 0 .. MaxTime
    BY <1>1, <1>2, <1>22 DEF TypeOK
  <2>2. odd' \in 0 .. MaxOdd
    BY <1>1, <1>2, BoundsAssumption DEF TypeOK
  <2>3. reader'.pc \in {"idle", "frames"}
    BY <1>1
  <2> QED  BY <1>1, <1>2, <2>1, <2>2, <2>3 DEF TypeOK, queue, last
<1>24. Calls'
  <2>1. B % Width \in Int /\ N % Width \in Int /\ C % Width \in Int
    BY <1>5, <1>8, Reduced
  <2>2. due + off \in Int
    BY <1>2, Sizes, CallsAssumption DEF TypeOK
  <2>3. reader' \in Readers
    BY <1>1, <1>4, <1>5, <1>6, <1>7, <2>1, <2>2 DEF Readers
  <2> QED  BY <1>1, <1>2, <2>3 DEF Calls
<1> QED  BY <1>14, <1>15, <1>16, <1>19, <1>20, <1>21, <1>23, <1>24 DEF IInv

-----------------------------------------------------------------------------
(* A frame is read.                                                        *)

LEMMA HeardIsFrames ==
    ASSUME TypeOK, Reading, reader \in Readers, reader.published <= Len(log), NEW target
    PROVE  ToBeHeard(reader, target) \in SUBSET Nat
<1>1. reader.published \in Nat /\ Len(log) \in Nat
  BY LogIs DEF Readers
<1>2. \A i \in Published(reader) : log[i].Frame \in Nat
  <2> TAKE i \in Published(reader)
  <2>1. i \in 1 .. reader.published
    BY DEF Published
  <2>2. i - 1 \in 0 .. Len(log) - 1 /\ (i - 1) + 1 = i
    BY <1>1, <2>1
  <2>3. log[i] \in Position
    BY <2>2, LogIs
  <2> QED  BY <2>3 DEF Position
<1>3. DueAt(reader, target) \subseteq Published(reader)
  BY DEF DueAt
<1> QED  BY <1>2, <1>3 DEF ToBeHeard

LEMMA ReadFrameKeeps ==
    ASSUME IInv, ReadFrame
    PROVE  IInv'
<1> DEFINE n == Len(reader.out)
           target == reader.time + n * OutStep
           g == reader.generation
           P == reader.published
<1>1. /\ Reading /\ n < reader.frames
      /\ reader' = [reader EXCEPT !.cursor = Sought(target),
                                  !.out = Append(@, Sounding(target))]
      /\ UNCHANGED <<queue, last, m_Generation, playback, seen, writer, clocks, log, asked>>
  BY DEF ReadFrame, Reading, Sought, Sounding
<1>2. /\ TypeOK /\ Calls /\ Counters /\ ReadCounters /\ Contents /\ Filled /\ Ordered
      /\ Loaded /\ Passed /\ Released /\ Current /\ Caught /\ Heeded
  BY DEF IInv
<1>3. Reads /\ reader \in Readers
  BY <1>1, <1>2, Pcs DEF Reads
<1>4. /\ Base \in Nat /\ Cursor \in Nat /\ P \in Nat /\ Len(log) \in Nat
      /\ Base <= Cursor /\ Cursor <= P /\ P <= Len(log) /\ P - Base <= Capacity
      /\ Cursor < P \/ Cursor = Base
  BY <1>3, ReadsIs
<1>5. /\ n \in Nat /\ reader.time \in Int /\ g \in Nat /\ reader.frames \in Nat
      /\ reader.out \in Seq(SUBSET Nat)
  <2>1. /\ reader.time \in Int /\ g \in Nat /\ reader.frames \in Periods
        /\ reader.out \in Seq(SUBSET Nat)
    BY <1>3 DEF Readers
  <2>2. n \in Nat
    BY <2>1
  <2> QED  BY <2>1, <2>2, CallsAssumption
<1>6. /\ target \in Int
      /\ reader.out # << >> => Lately \in Int /\ Lately < target
  <2>1. OutStep \in Nat \ {0} /\ n * OutStep \in Int
    BY <1>5, Sizes
  <2>2. n - 1 \in Int /\ n \in Int /\ n - 1 < n
    BY <1>5
  <2>3. (n - 1) * OutStep \in Int /\ (n - 1) * OutStep + OutStep <= n * OutStep
    BY <2>1, <2>2, Steps
  <2> HIDE DEF n
  <2> QED  BY <1>5, <2>1, <2>3 DEF Lately, n
<1>7. PICK C \in Cursor .. P :
         /\ Sought(target) = C % Width
         /\ C < P \/ C = Cursor
         /\ \A X \in Cursor + 1 .. C : Gen(X) = g /\ When(X) <= target
         /\ C + 1 < P => Gen(C + 1) # g \/ When(C + 1) > target
  <2>1. CASE Cursor = P
    <3>1. Sought(target) = Cursor % Width
      BY <1>3, <2>1, AtEnd, ReadersAre DEF Sought
    <3>2. Cursor \in Cursor .. P /\ ~ (Cursor + 1 < P) /\ \A X \in Cursor + 1 .. Cursor : FALSE
      BY <1>4, <2>1
    <3> QED  BY <3>1, <3>2
  <2>2. CASE Cursor < P
    <3>1. Sought(target) = Advance(reader, target)
      BY <1>3, <1>4, <2>2, AtEnd DEF Sought
    <3>2. PICK C \in Cursor .. P - 1 :
             /\ Advance(reader, target) = C % Width
             /\ \A X \in Cursor + 1 .. C : Gen(X) = g /\ When(X) <= target
             /\ C + 1 < P => Gen(C + 1) # g \/ When(C + 1) > target
      BY <1>3, <1>6, <2>2, AdvanceIs
    <3>3. C \in Cursor .. P /\ C < P
      BY <1>4
    <3> QED  BY <3>1, <3>2, <3>3
  <2> QED  BY <1>4, <2>1, <2>2
\* What it sounds like: what is due, or nothing where the time went back.
<1>8. \/ Ahead(target) /\ Sounding(target) = ToBeHeard(reader, target)
      \/ /\ Sounding(target) = {} /\ AskedLater(reader, target) /\ C = Cursor
         /\ Cursor < P /\ Gen(Cursor) = g /\ When(Cursor) > target /\ When(Cursor) \in Int
  <2>1. CASE Ahead(target)
    BY <1>2, <1>3, <1>6, <2>1, SoundsDue
  <2>2. CASE ~ Ahead(target)
    <3>1. /\ Sounding(target) = {} /\ Cursor < P /\ Gen(Cursor) = g
          /\ When(Cursor) > target /\ When(Cursor) \in Int /\ Come(When(Cursor), g)
      BY <1>2, <1>3, <1>6, <2>2, SoundsNot
    <3>2. C = Cursor
      <4> SUFFICES ASSUME C # Cursor
                   PROVE  FALSE
        OBVIOUS
      <4>1. C \in Cursor + 1 .. C /\ C \in Nat /\ Cursor < C /\ C < Len(log)
        BY <1>4, <1>7
      <4>2. Gen(C) = g /\ When(C) <= target
        BY <1>7, <4>1
      <4>3. When(C) \in Int /\ When(Cursor) < When(C)
        BY <1>2, <1>4, <3>1, <4>1, <4>2, OrderedIs
      <4> QED  BY <1>6, <3>1, <4>2, <4>3
    <3>3. asked.Generation = g /\ When(Cursor) <= asked.Time /\ asked.Time \in Int
      BY <1>2, <1>6, <3>1, SMTT(30) DEF Come, TypeOK
    <3> QED  BY <1>6, <3>1, <3>2, <3>3 DEF AskedLater
  <2> QED  BY <2>1, <2>2
<1>9. Sounding(target) \in SUBSET Nat
  BY <1>1, <1>2, <1>3, <1>4, <1>8, HeardIsFrames
<1> HIDE DEF target
<1>10. /\ reader' \in Readers /\ Reading' /\ reader'.cursor = C % Width
       /\ reader'.out = Append(reader.out, Sounding(target))
       /\ reader'.published = P /\ reader'.generation = g /\ reader'.time = reader.time
       /\ reader'.frames = reader.frames /\ reader'.read = reader.read
       /\ reader'.write = reader.write
  <2>1. C % Width \in Int
    BY <1>4, <1>7, Reduced
  <2>2. Append(reader.out, Sounding(target)) \in Seq(SUBSET Nat)
    BY <1>5, <1>9
  <2> QED  BY <1>1, <1>3, <1>7, <2>1, <2>2 DEF Readers, Reading
<1>11. /\ reader'.out # << >> /\ Len(reader'.out) = n + 1
       /\ \A k \in 1 .. n : reader'.out[k] = reader.out[k]
       /\ reader'.out[n + 1] = Sounding(target)
  <2> DEFINE out == reader.out
             new == Sounding(target)
  <2>1. out \in Seq(SUBSET Nat) /\ new \in SUBSET Nat /\ n = Len(out) /\ reader'.out = Append(out, new)
    BY <1>5, <1>9, <1>10
  <2> HIDE DEF out, new, n
  <2>2. /\ Append(out, new) # << >> /\ Len(Append(out, new)) = n + 1
        /\ \A k \in 1 .. n : Append(out, new)[k] = out[k]
        /\ Append(out, new)[n + 1] = new
    BY <2>1
  <2> QED  BY <2>1, <2>2 DEF out, new
<1>12. Lately' = target
  <2>1. Lately' = reader.time + ((n + 1) - 1) * OutStep
    BY <1>10, <1>11 DEF Lately
  <2>2. (n + 1) - 1 = n
    BY <1>5
  <2> QED  BY <2>1, <2>2 DEF target
<1>13. Oldest' = Oldest /\ Found' = Found /\ Base' = Base
  BY <1>1, <1>10 DEF Oldest, Found, Base, queue
<1>14. Cursor' = C
  <2>1. C - Base \in 0 .. Width - 1 /\ C \in Int
    BY <1>4, <1>7, Sizes
  <2>2. Minus(C % Width, Base % Width) = C - Base
    BY <1>4, <2>1, Apart
  <2>3. Cursor' = Base + (C - Base)
    BY <1>3, <1>10, <1>13, <2>2, ReadersAre DEF Cursor
  <2> QED  BY <1>4, <2>1, <2>3
<1>15. \A X : Gen(X)' = Gen(X) /\ When(X)' = When(X)
  BY <1>1 DEF Gen, When
<1>16. Counters' /\ Contents' /\ Filled' /\ Ordered'
  <2>1. UNCHANGED <<m_Read, m_Write, m_Search, m_Positions, last, writer, log>>
    BY <1>1 DEF queue
  <2>2. Counters'
    BY <1>2, <1>13, <2>1 DEF Counters
  <2>3. Contents'
    BY <1>2, <1>13, <2>1 DEF Contents
  <2>4. Filled'
    BY <1>2, <1>13, <2>1 DEF Filled, Fresh, Writing, last
  <2>5. Ordered'
    BY <1>2, <1>15, <2>1 DEF Ordered, last
  <2> QED  BY <2>2, <2>3, <2>4, <2>5
<1>17. ReadCounters'
  <2>1. C \in Base .. P /\ (C < P \/ C = Base)
    BY <1>4, <1>7
  <2> QED  BY <1>1, <1>2, <1>10, <1>13, <1>14, <2>1 DEF ReadCounters
<1>18. Loaded' /\ Heeded' /\ Current'
  <2>1. n + 1 <= reader.frames
    BY <1>1, <1>5
  <2>2. Heeded'
    BY <1>1, <1>2, <1>10, <1>11, <2>1 DEF Heeded, clocks
  <2>3. Loaded'
    BY <1>1, <1>2, <1>10 DEF Loaded, ReaderGeneration
  <2>4. Current'
    BY <1>1, <1>2, <1>10, <1>13, <1>15 DEF Current
  <2> QED  BY <2>2, <2>3, <2>4
<1>19. Caught'
  <2> SUFFICES ASSUME NEW X \in C + 1 .. P - 1, Gen(X) = g
               PROVE  When(X) > target
    BY <1>10, <1>12, <1>14, <1>15 DEF Caught
  <2>1. C \in Cursor .. P - 1 /\ X \in 0 .. P - 1 /\ ~ (X <= C)
    BY <1>4, <1>7
  <2>2. When(X) \in Int
    <3>1. X \in 0 .. Len(log) - 1
      BY <1>4, <2>1
    <3> QED  BY <1>2, <3>1, LogIs
  <2>3. CASE Ahead(target)
    <3>1. ~ (When(X) <= target)
      BY <1>2, <1>3, <1>6, <1>7, <2>1, <2>3, LastDue
    <3> QED  BY <1>6, <2>2, <3>1
  <2>4. CASE C = Cursor /\ Gen(Cursor) = g /\ When(Cursor) > target /\ When(Cursor) \in Int
    <3>1. X \in Nat /\ Cursor < X /\ X < Len(log)
      BY <1>4, <2>1, <2>4
    <3>2. When(Cursor) < When(X)
      BY <1>2, <1>4, <2>4, <3>1, OrderedIs
    <3> QED  BY <1>6, <2>2, <2>4, <3>2
  <2> QED  BY <1>8, <2>3, <2>4
<1>20. Passed'
  <2> SUFFICES ASSUME NEW X \in 0 .. C - 1
               PROVE  PassedBy(X, C, P, g)'
    BY <1>10, <1>14 DEF Passed
  <2>1. ASSUME NEW time \in Int, time <= target \/ Come(time, g)
        PROVE  Come(time, g)'
    <3>1. CASE time <= target
      BY <1>10, <1>11, <1>12, <3>1 DEF Come
    <3>2. CASE asked.Generation = g /\ time <= asked.Time
      BY <1>1, <3>2 DEF Come
    <3>3. CASE reader.out # << >> /\ time <= Lately
      <4>1. time <= target
        BY <1>6, <3>3
      <4> QED  BY <3>1, <4>1
    <3> QED  BY <2>1, <3>1, <3>2, <3>3 DEF Come
  <2>2. CASE C = Cursor
    <3>1. X \in 0 .. Cursor - 1
      BY <2>2
    <3>2. PassedBy(X, Cursor, P, g)
      BY <1>1, <1>2, <3>1 DEF Passed
    <3>3. Cursor < P => When(Cursor) \in Int
      <4>1. Cursor < P => Cursor \in 0 .. Len(log) - 1
        BY <1>4
      <4> QED  BY <1>2, <4>1, LogIs
    <3> QED  BY <1>10, <1>15, <2>1, <2>2, <3>2, <3>3 DEF PassedBy
  <2>3. CASE C # Cursor
    <3>1. /\ C \in Cursor + 1 .. C /\ C < P /\ C \in Nat /\ C < Len(log)
          /\ X \in Nat /\ X < C
      BY <1>4, <1>7, <2>3
    <3>2. Gen(C) = g /\ When(C) <= target
      BY <1>7, <3>1
    <3>3. Gen(X) \in Nat /\ Gen(X) <= Gen(C) /\ When(C) \in Int
      BY <1>2, <3>1, OrderedIs
    <3>4. Gen(X) < g \/ Gen(X) = g
      BY <1>5, <3>2, <3>3
    <3> QED  BY <1>10, <1>15, <2>1, <3>1, <3>2, <3>3, <3>4 DEF PassedBy
  <2> QED  BY <2>2, <2>3
<1>21. Released'
  <2> SUFFICES ASSUME NEW X \in 0 .. Base - 1
               PROVE  Gen(X) < g \/ X + Taps <= C
    BY <1>10, <1>13, <1>14, <1>15 DEF Released
  <2>1. Gen(X) < g \/ X + Taps <= Cursor
    BY <1>1, <1>2 DEF Released
  <2> QED  BY <1>4, <1>7, <2>1, Sizes
<1>22. PlaysWhatIsDue'
  <2> SUFFICES ASSUME NEW k \in 1 .. n + 1
               PROVE  Plays(k)'
    BY <1>11, PlaysIs
  <2>1. Due(k)' = Due(k) /\ Excused(k)' = Excused(k)
    <3>1. k \in Nat
      BY <1>5
    <3> QED  BY <1>1, <1>4, <1>10, <3>1, DueKeeps, ExcuseKeeps
  <2>2. CASE k = n + 1
    <3>1. Due(k) = ToBeHeard(reader, target) /\ Excused(k) = AskedLater(reader, target)
      <4>1. k - 1 = n
        BY <1>5, <2>2
      <4> QED  BY <4>1 DEF Due, Excused, target
    <3>2. reader'.out[k] = Sounding(target)
      BY <1>11, <2>2
    <3> QED  BY <1>8, <2>1, <3>1, <3>2 DEF Plays
  <2>3. CASE k # n + 1
    <3>1. k \in 1 .. n
      BY <1>5, <2>3
    <3>2. Plays(k)
      BY <1>1, <3>1, PlaysIs DEF IInv
    <3> QED  BY <1>11, <2>1, <3>1, <3>2 DEF Plays
  <2> QED  BY <2>2, <2>3
<1>23. TypeOK'
  <2>1. reader'.pc \in {"idle", "frames"}
    BY <1>10 DEF Readers
  <2>2. /\ UNCHANGED <<m_Read, m_Write, m_Search, m_Positions, m_LastGeneration, m_EndFrame>>
        /\ UNCHANGED <<m_LastTime, m_Generation, seen, playback, writer, due, odd, log, asked>>
    BY <1>1 DEF queue, last, clocks
  <2> QED  BY <1>2, <2>1, <2>2 DEF TypeOK
<1>24. Calls'
  BY <1>1, <1>2, <1>10 DEF Calls, clocks
<1> QED  BY <1>16, <1>17, <1>18, <1>19, <1>20, <1>21, <1>22, <1>23, <1>24 DEF IInv
-----------------------------------------------------------------------------
(* A Read is over.                                                         *)

\* Where the front of the queue goes.
LEMMA FrontMoves ==
    ASSUME Reads, PublishRead
    PROVE  \E F \in Base .. Cursor :
              /\ m_Read' = F % Width /\ Cursor - F <= Taps
              /\ F = Base \/ F + Taps = Cursor
              /\ m_Search' = Cursor % Width
<1>1. /\ Base \in Nat /\ Cursor \in Nat /\ Base <= Cursor /\ Cursor - Base <= Capacity
  BY ReadsIs, Sizes
<1>2. reader.read = Base % Width /\ reader.cursor = Cursor % Width
  BY ReadersAre
<1>3. Minus(reader.cursor, reader.read) = Cursor - Base
  <2>1. Cursor - Base \in 0 .. Width - 1
    BY <1>1, Sizes
  <2> QED  BY <1>1, <1>2, <2>1, Apart
<1>4. m_Read' = Kept(reader) /\ m_Search' = Cursor % Width
  BY <1>2 DEF PublishRead
<1>5. CASE Cursor - Base > Taps
  <2>1. Kept(reader) = (Cursor - Taps) % Width
    <3>1. Kept(reader) = Minus(Cursor % Width, Taps)
      BY <1>2, <1>3, <1>5 DEF Kept
    <3>2. Cursor \in Int /\ Taps \in Int
      BY <1>1, Sizes
    <3> QED  BY <3>1, <3>2, Moved
  <2>2. /\ Cursor - Taps \in Base .. Cursor /\ Cursor - (Cursor - Taps) <= Taps
        /\ (Cursor - Taps) + Taps = Cursor
    BY <1>1, <1>5, Sizes
  <2> QED  BY <1>4, <2>1, <2>2
<1>6. CASE ~ (Cursor - Base > Taps)
  <2>1. Kept(reader) = Base % Width
    BY <1>2, <1>3, <1>6 DEF Kept
  <2>2. Base \in Base .. Cursor /\ Cursor - Base <= Taps
    BY <1>1, <1>6, Sizes
  <2> QED  BY <1>4, <2>1, <2>2
<1> QED  BY <1>5, <1>6

LEMMA PublishReadKeeps ==
    ASSUME IInv, PublishRead
    PROVE  IInv'
<1> DEFINE N == Len(log)
           P == reader.published
           g == reader.generation
<1>1. /\ Reading /\ Len(reader.out) = reader.frames /\ reader' = Idle
      /\ UNCHANGED <<m_Write, m_Positions, last, m_Generation, playback, seen, writer,
                     clocks, log>>
  BY DEF PublishRead, Reading
<1>2. /\ TypeOK /\ Calls /\ Counters /\ ReadCounters /\ Contents /\ Filled /\ Ordered
      /\ Loaded /\ Passed /\ Released /\ Heeded
  BY DEF IInv
<1>3. Reads /\ reader \in Readers
  BY <1>1, <1>2, Pcs DEF Reads
<1>4. /\ Oldest \in Nat /\ Base \in Nat /\ Cursor \in Nat /\ P \in Nat /\ N \in Nat
      /\ Oldest <= Base /\ Base <= Cursor /\ Cursor <= P /\ P <= N
      /\ Cursor < P \/ Cursor = Base
  BY <1>3, ReadsIs
<1>5. N - Oldest <= Capacity /\ m_Write = N % Width
  BY <1>2 DEF Counters
<1>6. PICK F \in Base .. Cursor :
         /\ m_Read' = F % Width /\ Cursor - F <= Taps
         /\ F = Base \/ F + Taps = Cursor
         /\ m_Search' = Cursor % Width
  BY <1>3, FrontMoves
<1>7. ~ Reading' /\ Len(log') = N
  BY <1>1 DEF Reading, Idle
<1>8. F \in Nat /\ Oldest <= F /\ F <= Cursor /\ Base <= F
  BY <1>4
<1>9. Oldest' = F
  <2>1. N - F \in 0 .. Width - 1
    BY <1>4, <1>5, <1>8, Sizes
  <2>2. Minus(N % Width, F % Width) = N - F
    BY <1>4, <1>8, <2>1, Apart
  <2>3. Oldest' = N - (N - F)
    BY <1>1, <1>5, <1>6, <2>2 DEF Oldest
  <2> QED  BY <1>4, <1>8, <2>3
<1>10. Found' = Cursor
  <2>1. Cursor - F \in 0 .. Width - 1
    BY <1>4, <1>5, <1>8, Sizes
  <2>2. Minus(Cursor % Width, F % Width) = Cursor - F
    BY <1>4, <1>8, <2>1, Apart
  <2>3. Found' = Oldest' + (Cursor - F)
    BY <1>6, <2>2 DEF Found
  <2> QED  BY <1>4, <1>8, <1>9, <2>3
<1>11. \A X : Gen(X)' = Gen(X) /\ When(X)' = When(X)
  BY <1>1 DEF Gen, When
<1>12. Counters'
  <2>1. /\ F \in 0 .. N /\ N - F <= Capacity /\ Cursor \in F .. N
        /\ Cursor < N \/ Cursor = F
    BY <1>4, <1>5, <1>6, <1>8, Sizes
  <2> QED  BY <1>1, <1>5, <1>6, <1>7, <1>9, <1>10, <2>1 DEF Counters
<1>13. Contents'
  <2>1. \A X \in F .. N - 1 : X \in Oldest .. N - 1
    BY <1>4, <1>8
  <2> QED  BY <1>1, <1>2, <1>7, <1>9, <2>1 DEF Contents
<1>14. Filled'
  <2> SUFFICES ASSUME Writing
               PROVE  Filled'
    BY <1>1 DEF Filled, Writing
  <2>1. writer.frames \in Nat
    BY <1>2, Pcs, CallsAssumption DEF Writers
  <2>2. N + writer.frames - F <= Capacity
    <3>1. N + writer.frames - Oldest <= Capacity
      BY <1>2 DEF Filled
    <3> QED  BY <1>4, <1>8, <2>1, <3>1, Sizes
  <2> QED  BY <1>1, <1>2, <1>7, <1>9, <2>2 DEF Filled, Fresh, last
<1>15. Ordered'
  BY <1>1, <1>2, <1>7, <1>11 DEF Ordered, last
<1>16. /\ ReadCounters' /\ Current' /\ Caught' /\ Heeded' /\ PlaysWhatIsDue'
  BY <1>7, PlaysIs DEF ReadCounters, Current, Caught, Heeded
<1>17. ReaderGeneration' = g /\ ReaderGeneration = g /\ g \in Nat /\ g \in 1 .. MaxGeneration
  <2>1. ReaderGeneration' = g /\ ReaderGeneration = g
    BY <1>1, <1>2 DEF Loaded, ReaderGeneration
  <2>2. g \in Nat /\ g \in 1 .. MaxGeneration
    BY <1>2, <1>3, <2>1, Generations DEF Readers
  <2> QED  BY <2>1, <2>2
\* What had come is remembered as the furthest time asked for.
<1>18. /\ asked'.Generation = g /\ asked' \in [Generation : 0 .. MaxGeneration, Time : Int]
       /\ \A time \in Int : Come(time, g) => time <= asked'.Time
  <2> DEFINE t == LastTime(reader)
  <2>1. t \in Int /\ Lately = t
    <3>1. reader.time \in Int /\ reader.frames \in Nat
      BY <1>3, CallsAssumption DEF Readers
    <3>2. (reader.frames - 1) * OutStep \in Int
      BY <3>1, Sizes
    <3> QED  BY <1>1, <3>1, <3>2 DEF LastTime, Lately
  <2>2. asked' = IF AskedLater(reader, t) THEN asked ELSE [Generation |-> g, Time |-> t]
    BY DEF PublishRead
  <2>3. asked \in [Generation : 0 .. MaxGeneration, Time : Int] /\ asked.Time \in Int
    BY <1>2 DEF TypeOK
  <2> HIDE DEF t
  <2>4. CASE AskedLater(reader, t)
    <3>1. asked' = asked /\ asked.Generation = g /\ t < asked.Time
      BY <2>2, <2>4 DEF AskedLater
    <3>2. \A time \in Int : Come(time, g) => time <= asked.Time
      BY <2>1, <2>3, <3>1 DEF Come
    <3> QED  BY <2>3, <3>1, <3>2
  <2>5. CASE ~ AskedLater(reader, t)
    <3>1. asked' = [Generation |-> g, Time |-> t]
      BY <2>2, <2>5
    <3>2. asked.Generation = g => asked.Time <= t
      BY <2>1, <2>3, <2>5 DEF AskedLater
    <3>3. \A time \in Int : Come(time, g) => time <= t
      BY <2>1, <2>3, <3>2 DEF Come
    <3>4. g \in 0 .. MaxGeneration
      BY <1>17
    <3> QED  BY <2>1, <3>1, <3>3, <3>4
  <2> QED  BY <2>4, <2>5
<1>19. Passed' /\ Loaded'
  <2>1. Loaded'
    BY <1>7, <1>17, <1>18 DEF Loaded
  <2> SUFFICES ASSUME NEW X \in 0 .. Cursor - 1
               PROVE  \/ Gen(X) < g
                      \/ /\ Cursor < N /\ Gen(X) = g /\ Gen(Cursor) = g
                         /\ When(Cursor) <= asked'.Time
    BY <1>7, <1>10, <1>11, <1>18, <2>1 DEF Passed, PassedBy, Come
  <2>2. \/ Gen(X) < g
        \/ Cursor < P /\ Gen(X) = g /\ Gen(Cursor) = g /\ Come(When(Cursor), g)
    BY <1>1, <1>2 DEF Passed, PassedBy
  <2>3. Cursor < P => When(Cursor) \in Int /\ Cursor < N
    <3>1. Cursor < P => Cursor \in 0 .. N - 1
      BY <1>4
    <3> QED  BY <1>2, <1>4, <3>1, LogIs
  <2> QED  BY <1>18, <2>2, <2>3
<1>20. Released'
  <2> SUFFICES ASSUME NEW X \in 0 .. F - 1
               PROVE  Gen(X) < g \/ X + Taps <= Cursor
    BY <1>7, <1>9, <1>10, <1>11, <1>17 DEF Released
  <2>1. CASE X < Base
    <3>1. X \in 0 .. Base - 1
      BY <1>4, <2>1
    <3> QED  BY <1>1, <1>2, <3>1 DEF Released
  <2>2. CASE Base <= X
    <3>1. F + Taps = Cursor
      BY <1>4, <1>6, <1>8, <2>2
    <3> QED  BY <1>4, <1>8, <3>1, Sizes
  <2> QED  BY <1>4, <2>1, <2>2
<1>21. TypeOK'
  <2>1. m_Read' \in 0 .. Width - 1 /\ m_Search' \in 0 .. Width - 1
    BY <1>4, <1>6, <1>8, Reduced
  <2>2. reader'.pc \in {"idle", "frames"}
    BY <1>1 DEF Idle
  <2>3. /\ UNCHANGED <<m_Write, m_Positions, m_LastGeneration, m_EndFrame>>
        /\ UNCHANGED <<m_LastTime, m_Generation, seen, playback, writer, due, odd, log>>
    BY <1>1 DEF last, clocks
  <2> QED  BY <1>2, <1>18, <2>1, <2>2, <2>3 DEF TypeOK
<1>22. Calls'
  BY <1>1, <1>2 DEF Calls, clocks
<1> QED  BY <1>12, <1>13, <1>14, <1>15, <1>16, <1>19, <1>20, <1>21, <1>22 DEF IInv

-----------------------------------------------------------------------------
(* The theorems.                                                           *)

\* The invariant holds in every behaviour of the queue.
THEOREM Invariance == Spec => []IInv
<1>1. IInv /\ [Next]_vars => IInv'
  <2> SUFFICES ASSUME IInv, [Next]_vars
               PROVE  IInv'
    OBVIOUS
  <2>1. ASSUME NEW frames \in Blocks, NEW skip \in -1 .. 1, NEW off \in -Early .. Early,
               BeginWrite(frames, skip, off)
        PROVE  IInv'
    BY <2>1, BeginWriteKeeps
  <2>2. CASE Fill
    BY <2>2, FillKeeps
  <2>3. CASE PublishWrite
    BY <2>3, PublishWriteKeeps
  <2>4. ASSUME NEW frames \in Periods, NEW off \in (-Early .. Early) \cup {Missed, -Back},
               BeginRead(frames, off)
        PROVE  IInv'
    BY <2>4, BeginReadKeeps
  <2>5. CASE ReadFrame
    BY <2>5, ReadFrameKeeps
  <2>6. CASE PublishRead
    BY <2>6, PublishReadKeeps
  <2>7. CASE \/ \E shift \in Shifts : Renew(shift) \/ Correct(shift)
             \/ LoadGeneration
             \/ UNCHANGED vars
    BY <2>7, GenerationsKeep
  <2> QED  BY <2>1, <2>2, <2>3, <2>4, <2>5, <2>6, <2>7 DEF Next, Write, Read
<1> QED  BY <1>1, Initially, PTL DEF Spec

\* Every variable keeps its type, and every counter its range.
THEOREM TypeCorrect == Spec => []TypeOK
<1>1. IInv => TypeOK
  BY DEF IInv
<1> QED  BY <1>1, Invariance, PTL

\* No slot that a Read may look at is written meanwhile.
THEOREM NothingIsOverwritten == Spec => []SlotsApart
<1>1. ASSUME IInv
      PROVE  SlotsApart
  <2> SUFFICES ASSUME Writing, Reading, NEW n \in 0 .. writer.frames - 1,
                      NEW k \in 0 .. Minus(reader.write, reader.read) - 1
               PROVE  Slot(m_Write + n) # Slot(reader.read + k)
    BY DEF SlotsApart, Writing, Reading
  <2> DEFINE N == Len(log)
             p == reader.published
             b == Base
             o == Oldest
             f == writer.frames
  <2>1. Reads
    BY <1>1 DEF IInv, Reads
  <2>2. /\ o \in Int /\ b \in Int /\ p \in Int /\ N \in Int /\ o <= b /\ b <= p /\ p <= N
        /\ p - b <= Capacity
    BY <2>1, ReadsIs
  <2>3. reader.read = b % Width /\ reader.write = p % Width
    BY <2>1, ReadersAre
  <2>4. N + f - o <= Capacity /\ m_Write = N % Width
    BY <1>1 DEF IInv, Filled, Counters
  <2>5. f \in Nat
    BY <1>1, Pcs, CallsAssumption DEF IInv, Writers
  <2> HIDE DEF N, p, b, o, f
  <2>6. Minus(p % Width, b % Width) = p - b
    <3>1. p - b \in 0 .. Width - 1
      BY <2>2, Sizes
    <3> QED  BY <2>2, <3>1, Apart
  <2>7. k \in Int /\ n \in Int /\ b + k \in Int /\ N + n \in Int
        /\ (N + n) - (b + k) \in 0 .. Capacity - 1 /\ N + n # b + k
    <3>1. k \in 0 .. (p - b) - 1
      BY <2>3, <2>6
    <3>2. n \in 0 .. f - 1
      BY DEF f
    <3> QED  BY <2>2, <2>4, <2>5, <3>1, <3>2, Sizes
  <2>8. Slot(m_Write + n) = (N + n) % Capacity /\ Slot(reader.read + k) = (b + k) % Capacity
    BY <2>2, <2>3, <2>4, <2>7, SlotOf
  <2>9. (N + n) % Capacity # (b + k) % Capacity
    BY <2>7, ModDistinct, Sizes
  <2> QED  BY <2>8, <2>9
<1> QED  BY <1>1, Invariance, PTL

\* Every sample a Read has given is what an exhaustive search of all that was
\* published before it began gives; or it is silence, and its time is earlier
\* than one that a Read of the same generation asked for before.
THEOREM WhatIsDueIsPlayed == Spec => []PlaysWhatIsDue
<1>1. IInv => PlaysWhatIsDue
  BY DEF IInv
<1> QED  BY <1>1, Invariance, PTL

\* A Read leaves no more behind its last time than the filter's history.
THEOREM NothingExpiredStays == Spec => ExpiredIsDiscarded
<1>1. ASSUME IInv, PublishRead
      PROVE  Cardinality(LeftOver) <= Taps + 1
  <2> DEFINE N == Len(log)
             P == reader.published
             o == Oldest
             g == reader.generation
             lastAsked == LastTime(reader)
  <2>1. Reading /\ Reads /\ reader \in Readers /\ Len(reader.out) = reader.frames
    BY <1>1, Pcs DEF IInv, Reads, PublishRead, Reading
  <2>2. /\ o \in Nat /\ Base \in Nat /\ Cursor \in Nat /\ P \in Nat /\ N \in Nat
        /\ o <= Base /\ Base <= Cursor /\ Cursor <= P /\ P <= N
        /\ Cursor < P \/ Cursor = Base
    BY <2>1, ReadsIs
  <2>3. N - o <= Capacity /\ m_Write = N % Width /\ m_Read = o % Width
    BY <1>1 DEF IInv, Counters
  <2>4. reader.write = P % Width
    BY <2>1, ReadersAre
  <2>5. PICK F \in Base .. Cursor : m_Read' = F % Width /\ Cursor - F <= Taps
    BY <1>1, <2>1, FrontMoves
  <2>6. /\ F \in Nat /\ Base <= F /\ F <= Cursor
    BY <2>2
  <2> HIDE DEF o
  <2>7. Minus(reader.write, m_Read) = P - o
    <3>1. P - o \in 0 .. Width - 1
      BY <2>2, <2>3, Sizes
    <3> QED  BY <2>2, <2>3, <2>4, <3>1, Apart
  <2>8. Minus(m_Read', m_Read) = F - o
    <3>1. F - o \in 0 .. Width - 1
      BY <2>2, <2>3, <2>6, Sizes
    <3> QED  BY <2>2, <2>3, <2>5, <2>6, <3>1, Apart
  <2>9. Lately = lastAsked /\ reader.out # << >>
    <3>1. reader.frames \in Nat \ {0}
      BY <2>1, CallsAssumption DEF Readers
    <3>2. reader.out # << >>
      BY <2>1, <3>1
    <3> QED  BY <2>1, <3>2 DEF Lately, LastTime
  <2>10. ASSUME NEW k \in LeftOver
         PROVE  k \in (F - o) + 1 .. (Cursor - o) + 1
    <3> DEFINE X == o + k - 1
    <3>1. /\ k \in 1 .. P - o /\ F - o < k
          /\ \/ Queued[k].Generation < g
             \/ Queued[k].Generation = g /\ Queued[k].Time <= lastAsked
      BY <2>7, <2>8 DEF LeftOver
    <3>2. X \in o .. N - 1 /\ X \in Nat /\ X < P /\ F <= X
      BY <2>2, <2>6, <3>1
    <3>3. Queued[k] = log[X + 1]
      <4>1. Minus(m_Write, m_Read) = N - o
        <5>1. N - o \in 0 .. Width - 1
          BY <2>2, <2>3, Sizes
        <5> QED  BY <2>2, <2>3, <5>1, Apart
      <4>2. k \in 1 .. N - o
        BY <2>2, <3>1
      <4>3. Queued[k] = m_Positions[Slot(m_Read + k - 1)]
        BY <4>1, <4>2 DEF Queued
      <4>4. m_Read + k - 1 = (o % Width) + (k - 1) /\ k - 1 \in Int
        <5>1. o % Width \in Int
          BY <2>2, Reduced
        <5> QED  BY <2>3, <4>2, <5>1
      <4>5. Slot((o % Width) + (k - 1)) = (o + (k - 1)) % Capacity
        BY <2>2, <4>4, SlotOf
      <4>6. o + (k - 1) = X
        BY <2>2, <4>2
      <4> HIDE DEF X
      <4> QED  BY <1>1, <3>2, <4>3, <4>4, <4>5, <4>6 DEF IInv, Contents, o
    <3> HIDE DEF X
    <3>4. Gen(X) < g \/ (Gen(X) = g /\ When(X) <= lastAsked)
      BY <3>1, <3>3 DEF Gen, When
    <3>5. X < N /\ Base < N /\ Base < P
      BY <2>2, <2>6, <3>2
    <3>6. Gen(X) \in Nat /\ When(X) \in Int /\ g \in Nat
      <4>1. X \in 0 .. N - 1
        BY <3>2, <3>5
      <4> QED  BY <1>1, <2>1, <4>1, LogIs DEF IInv, Readers
    <3>7. Gen(X) >= g
      <4>1. Gen(Base) >= g
        BY <1>1, <2>1, <3>5 DEF IInv, Current
      <4>2. CASE Base = X
        BY <4>1, <4>2
      <4>3. CASE Base < X
        <5>1. Gen(Base) <= Gen(X) /\ Gen(Base) \in Nat
          BY <1>1, <2>2, <3>2, <3>5, <4>3, OrderedIs DEF IInv
        <5> QED  BY <3>6, <4>1, <5>1
      <4> QED  BY <2>2, <2>6, <3>2, <4>2, <4>3
    <3>8. X <= Cursor
      <4> SUFFICES ASSUME Cursor < X
                   PROVE  FALSE
        BY <2>2, <3>2
      <4>1. X \in Cursor + 1 .. P - 1 /\ Gen(X) = g
        BY <2>2, <3>2, <3>4, <3>6, <3>7
      <4>2. When(X) > Lately
        BY <1>1, <2>1, <2>9, <4>1 DEF IInv, Caught
      <4>3. Lately \in Int
        <5>1. reader.time \in Int /\ reader.frames \in Nat
          BY <2>1, CallsAssumption DEF Readers
        <5>2. (reader.frames - 1) * OutStep \in Int
          BY <5>1, Sizes
        <5> QED  BY <2>9, <5>1, <5>2 DEF LastTime
      <4> QED  BY <2>9, <3>4, <3>6, <3>7, <4>2, <4>3
    <3> QED  BY <2>2, <2>6, <3>1, <3>8 DEF X
  <2> DEFINE lo == (F - o) + 1
             hi == (Cursor - o) + 1
  <2>11. lo \in Int /\ hi \in Int /\ hi - lo <= Taps /\ lo <= hi /\ Taps \in Nat
    BY <2>2, <2>5, <2>6, Sizes
  <2>12. LeftOver \in SUBSET (lo .. hi)
    BY <2>10
  <2> HIDE DEF lo, hi
  <2>13. IsFiniteSet(lo .. hi) /\ Cardinality(lo .. hi) = hi - lo + 1
    BY <2>11, FS_Interval
  <2>14. Cardinality(LeftOver) <= hi - lo + 1
    BY <2>12, <2>13, FS_Subset, ZenonT(40)
  <2>15. Cardinality(LeftOver) \in Nat
    BY <2>12, <2>13, FS_Subset, FS_CardinalityType
  <2> QED  BY <2>11, <2>14, <2>15
<1>2. UNCHANGED vars => ~ PublishRead
  <2> SUFFICES ASSUME UNCHANGED vars, PublishRead
               PROVE  FALSE
    OBVIOUS
  <2>1. reader.pc = "frames" /\ reader' = Idle /\ reader' = reader
    BY DEF PublishRead, vars
  <2> QED  BY <2>1 DEF Idle
<1>3. IInv /\ [Next]_vars => [PublishRead => Cardinality(LeftOver) <= Taps + 1]_vars
  BY <1>1, <1>2
<1> QED  BY <1>3, Invariance, PTL DEF Spec, ExpiredIsDiscarded

-----------------------------------------------------------------------------
(* The JACK devices.                                                       *)

\* Only activated handles are called; what counts as attached has a handle.
Handles == /\ calling \subseteq activated /\ m_Active \subseteq activated
           /\ m_Attached \subseteq m_Client
           /\ told \subseteq lost

\* What each place of a procedure knows of its device: until it is started
\* its handle, if it has one, is not activated; and it is alive while it is
\* being attached.
Places == /\ pc = "idle" => cur = NoDevice /\ then = "idle"
          /\ pc # "idle" => cur \in live \cup dead
          /\ pc \notin {"idle", "close"} \/ then = "attach" => cur \in live
          /\ pc \in {"ports", "retire"} => cur \notin m_Client
          /\ pc \in {"callbacks", "register", "configure", "start"} =>
                cur \in m_Client \ activated
          /\ pc = "started" => cur \in activated

\* AttachedIsRunning at every place: the one exception is the device that
\* control is attaching or closing.
Running == \A d \in m_Attached \ discarded :
              \/ d = cur /\ pc \in {"close", "configure", "start"}
              \/ d \in activated \ told

\* The loop over Clients has not passed a handle that was stale when it began
\* without closing it.
Awareness == /\ pc # "retire" => aware = {}
             /\ \A n \in aware : /\ n \notin m_Attached
                                 /\ n \in retiring \/ n \notin m_Client

JackIInv == JackTypeOK /\ Handles /\ Places /\ Running /\ Awareness /\ MasterIsThere

LEMMA JackInitially == JackInit => JackIInv
BY DEF JackInit, JackIInv, JackTypeOK, Handles, Places, Running, Awareness, MasterIsThere

-----------------------------------------------------------------------------

\* The steps of a procedure.
LEMMA ProcedureKeeps == JackIInv /\ Procedure => JackIInv'
<1> SUFFICES ASSUME JackIInv, Procedure PROVE JackIInv'
    OBVIOUS
<1> USE JackAssumption DEF JackIInv, JackTypeOK, Handles, Places, Running, Awareness,
           MasterIsThere, clients, streams, timeline, control, handles, jack
<1>1. CASE Close
    BY <1>1 DEF Close, DetachClient, Detached, Start, Return
<1>2. CASE Ports
    BY <1>2 DEF Ports, Stale
\* A handle that is not stale counts as attached, so that it is not in aware.
<1>3. ASSUME NEW d \in Devices, Retire(d) PROVE JackIInv'
    BY <1>3 DEF Retire, Stale, DetachClient, Detached
<1>4. CASE OpenFails
    BY <1>4 DEF OpenFails, Return, Start
<1>5. CASE Open
    BY <1>5 DEF Open
<1>6. CASE SetCallbacks
    BY <1>6 DEF SetCallbacks, GiveUp, Start
\* The device is attached here, told or not; it is still control's.
<1>7. CASE RegisterPorts
    BY <1>7 DEF RegisterPorts, GiveUp, Start
<1>8. CASE Configure
    BY <1>8 DEF Configure
<1>9. CASE ConfigureFails
    BY <1>9 DEF ConfigureFails, Unregister, GiveUp, Start
\* An activation succeeds only on a server that is there: told \subseteq lost.
<1>10. CASE StartClient
    BY <1>10 DEF StartClient, Return, Start
<1>11. CASE StartFails
    BY <1>11 DEF StartFails, Unregister, GiveUp, Start
<1>12. CASE Started
    BY <1>12 DEF Started, Return, Start
<1> QED
    BY <1>1, <1>2, <1>3, <1>4, <1>5, <1>6, <1>7, <1>8, <1>9, <1>10, <1>11, <1>12 DEF
       Procedure

\* What control begins between two procedures.
LEMMA BeginsKeeps == JackIInv /\ (Prepare \/ \E d \in Devices : Begins(d)) => JackIInv'
<1> SUFFICES ASSUME JackIInv, (Prepare \/ \E d \in Devices : Begins(d)) PROVE JackIInv'
    OBVIOUS
<1> USE JackAssumption DEF JackIInv, JackTypeOK, Handles, Places, Running, Awareness,
           MasterIsThere, clients, streams, timeline, control, handles, jack
<1>0. CASE Prepare
    BY <1>0 DEF Prepare
<1>1. ASSUME NEW d \in Devices, Create(d) PROVE JackIInv'
    BY <1>1 DEF Create
<1>2. ASSUME NEW d \in Devices, Attach(d) PROVE JackIInv'
    BY <1>2 DEF Attach, Start
<1>3. ASSUME NEW d \in Devices, Detach(d) PROVE JackIInv'
    BY <1>3 DEF Detach, DetachFor, Unregister, Start
<1>4. ASSUME NEW d \in Devices, SetNumberPorts(d) PROVE JackIInv'
    BY <1>4 DEF SetNumberPorts, DetachFor, Unregister, Start
<1>5. ASSUME NEW d \in Devices, HostReset(d) PROVE JackIInv'
    BY <1>5 DEF HostReset, Reset, DetachFor, Unregister, Start
<1>6. ASSUME NEW d \in Devices, ServiceAudio(d) PROVE JackIInv'
    BY <1>6 DEF ServiceAudio, Reset, DetachFor, Unregister, Start
<1>7. ASSUME NEW d \in Devices, Kill(d) PROVE JackIInv'
    BY <1>7 DEF Kill, DetachFor, Unregister, Start
<1>8. ASSUME NEW d \in Devices, Delete(d) PROVE JackIInv'
    BY <1>8 DEF Delete, Unregister, DetachClient, Detached
<1> QED
    BY <1>0, <1>1, <1>2, <1>3, <1>4, <1>5, <1>6, <1>7, <1>8 DEF Begins

\* The server and the threads of its clients.
LEMMA LibjackKeeps == JackIInv /\ Libjack => JackIInv'
<1> SUFFICES ASSUME JackIInv, Libjack PROVE JackIInv'
    OBVIOUS
<1> USE JackAssumption DEF JackIInv, JackTypeOK, Handles, Places, Running, Awareness,
           MasterIsThere, clients, streams, timeline, control, handles, jack
<1>1. CASE ServerStarts
    BY <1>1 DEF ServerStarts
<1>2. CASE ServerEnds
    BY <1>2 DEF ServerEnds
<1>3. ASSUME NEW d \in Devices, Renegotiate(d) PROVE JackIInv'
    BY <1>3 DEF Renegotiate
<1>4. ASSUME NEW d \in Devices, Process(d) PROVE JackIInv'
    BY <1>4 DEF Process, Closing
<1>5. ASSUME NEW d \in Devices, Transfer(d) PROVE JackIInv'
    BY <1>5 DEF Transfer
<1>6. ASSUME NEW d \in Devices, OnJackShutdown(d) PROVE JackIInv'
    BY <1>6 DEF OnJackShutdown, Closing
<1>7. ASSUME NEW d \in Devices, ShutdownTold(d) PROVE JackIInv'
    BY <1>7 DEF ShutdownTold
<1> QED
    BY <1>1, <1>2, <1>3, <1>4, <1>5, <1>6, <1>7 DEF Libjack

LEMMA JackStepKeeps == JackIInv /\ [JackNext]_jackvars => JackIInv'
<1> SUFFICES ASSUME JackIInv, [JackNext]_jackvars PROVE JackIInv'
    OBVIOUS
<1>1. CASE Procedure
    BY <1>1, ProcedureKeeps
<1>2. CASE Prepare \/ \E d \in Devices : Begins(d)
    BY <1>2, BeginsKeeps
<1>3. CASE Libjack
    BY <1>3, LibjackKeeps
<1>4. CASE UNCHANGED jackvars
    BY <1>4 DEF jackvars, clients, streams, timeline, control, handles, jack, JackIInv, JackTypeOK,
                Handles, Places, Running, Awareness, MasterIsThere
<1> QED
    BY <1>1, <1>2, <1>3, <1>4 DEF JackNext, Begins, Libjack

\* The inductive invariant holds in every reachable state.
THEOREM JackInvariance == JackSpec => []JackIInv
BY JackInitially, JackStepKeeps, PTL DEF JackSpec

-----------------------------------------------------------------------------
\* Types, and that every callback and every mark belongs to an open handle.
THEOREM JackTypeCorrect == JackSpec => []JackTypeOK
<1>1. JackIInv => JackTypeOK
    BY DEF JackIInv
<1> QED
    BY <1>1, JackInvariance, PTL

\* No process callback is in what control rebuilds, and none outlives its
\* device (JackPlugin::Attach, ~JackPlugin).
THEOREM CallbacksAreAlone == JackSpec => []CallbackAlone
<1>1. JackIInv => CallbackAlone
    BY DEF JackIInv, JackTypeOK, Handles, Places, CallbackAlone, Rebuilding
<1> QED
    BY <1>1, JackInvariance, PTL

\* No notice of a shutdown is lost for good, whenever it arrives during
\* JackClient::Attach.
THEOREM NoticesAreKept == JackSpec => []AttachedIsRunning
<1>1. JackIInv => AttachedIsRunning
    BY DEF JackIInv, Running, AttachedIsRunning
<1> QED
    BY <1>1, JackInvariance, PTL

\* The master of the timeline is a registered stream of a device that is
\* alive (AudioTimeline::Unregister, JackPlugin::Kill).
THEOREM MasterIsAlive == JackSpec => []MasterIsThere
<1>1. JackIInv => MasterIsThere
    BY DEF JackIInv
<1> QED
    BY <1>1, JackInvariance, PTL

\* discarded grows only when an open fails, and by then the loop over Clients
\* has closed every handle in aware.
LEMMA StepRetires == JackIInv /\ [JackNext]_jackvars => discarded' \cap aware \subseteq discarded
<1> SUFFICES ASSUME JackIInv, [JackNext]_jackvars PROVE discarded' \cap aware \subseteq discarded
    OBVIOUS
<1>1. CASE OpenFails
    BY <1>1 DEF OpenFails, JackIInv, Awareness
<1>2. CASE UNCHANGED jackvars
    BY <1>2 DEF jackvars, jack, handles
<1>3. ASSUME ~OpenFails, JackNext PROVE discarded' \subseteq discarded
    <2> USE DEF jack, handles
    <2>1. CASE Procedure
        BY <1>3, <2>1 DEF Procedure, Close, Ports, Retire, DetachClient, Open, SetCallbacks,
                          RegisterPorts, Configure, ConfigureFails, StartClient, StartFails,
                          Started
    <2>2. CASE Prepare \/ \E d \in Devices : Begins(d)
        BY <2>2 DEF Prepare, Begins, Create, Attach, Detach, SetNumberPorts, HostReset,
                    ServiceAudio, Reset, DetachFor, Kill, Delete, DetachClient
    <2>3. CASE Libjack
        BY <2>3 DEF Libjack, ServerStarts, ServerEnds, Renegotiate, Process, Transfer,
                    OnJackShutdown, ShutdownTold
    <2> QED
        BY <1>3, <2>1, <2>2, <2>3 DEF JackNext, Begins, Libjack
<1> QED
    BY <1>1, <1>2, <1>3

\* A failed open destroys no handle that was stale when Attach's loop over
\* Clients began (JackClient.cpp:139-144).
THEOREM StaleHandlesAreRetired == JackSpec => StaleHandlesRetired
BY JackInvariance, StepRetires, PTL DEF JackSpec, StaleHandlesRetired
=============================================================================
