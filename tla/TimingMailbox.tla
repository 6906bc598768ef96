--------------------------- MODULE TimingMailbox ---------------------------
(***************************************************************************)
(* The latest-value handoff between an audio driver's callback and the     *)
(* engine (AudioTimingMailbox in Audio/src/AudioTiming.cpp).  One writer   *)
(* publishes AudioCycleTiming structures, one reader takes the newest one. *)
(* Three slots are passed around: the writer owns m_Back, the reader owns  *)
(* m_Front, and m_Middle is what they exchange atomically; bit 2 of it     *)
(* says that it holds a value nobody has read.                             *)
(*                                                                         *)
(* A structure is copied word by word, so a copy is one step per word, in  *)
(* any order.  A published structure is abstracted to its serial number:   *)
(* a word holding serial n belongs to the n-th structure published.        *)
(***************************************************************************)
EXTENDS Naturals

CONSTANTS Words,        \* the machine words of an AudioCycleTiming
          MaxPublished  \* bound: how many structures the writer publishes

ASSUME WordsAssumption == Words # {}
ASSUME MaxPublishedAssumption == MaxPublished \in Nat

VARIABLES m_Slots,   \* slot -> word -> the serial last stored there
          m_Back, m_Front, m_Middle,
          writing,   \* the words Publish has still to store
          serial,    \* the structure being, or last, published
          pcW,       \* the writer: outside Publish, or storing, then exchanging
          reading,   \* the words Read has still to copy
          value,     \* the caller's structure that Read fills
          pcR        \* the reader: outside Read, flag seen, or copying

mailbox == <<m_Slots, m_Back, m_Front, m_Middle, writing, serial, pcW,
             reading, value, pcR>>

Slots == 0..2

\* Mistakes the runs must notice (see PROJECT.json, mutants): the exchanged
\* word used as a slot without its mask; the flag left out.
SlotOfUnmasked(m) == m
FlaggedNot(slot) == slot

\* m_Middle carries a slot in its low two bits and the fresh flag in bit 2.
SlotOf(m) == m % 4
IsFresh(m) == m >= 4
Flagged(slot) == slot + 4

MailboxInit == /\ m_Slots = [s \in Slots |-> [w \in Words |-> 0]]
               /\ m_Back = 0
               /\ m_Front = 1
               /\ m_Middle = 2
               /\ writing = {}
               /\ serial = 0
               /\ pcW = "idle"
               /\ reading = {}
               /\ value = [w \in Words |-> 0]
               /\ pcR = "idle"

-----------------------------------------------------------------------------
(* Publish: store every word in the slot the writer owns, then exchange. *)

BeginPublish == /\ pcW = "idle"
                /\ serial < MaxPublished
                /\ serial' = serial + 1
                /\ writing' = Words
                /\ pcW' = "storing"
                /\ UNCHANGED <<m_Slots, m_Back, m_Front, m_Middle,
                               reading, value, pcR>>

StoreWord(w) == /\ pcW = "storing"
                /\ w \in writing
                /\ m_Slots' = [m_Slots EXCEPT ![m_Back][w] = serial]
                /\ writing' = writing \ {w}
                /\ UNCHANGED <<m_Back, m_Front, m_Middle, serial, pcW,
                               reading, value, pcR>>

\* Mistake: the writer goes on with the slot it has just handed over.
ExchangeBackKept == /\ pcW = "storing"
                    /\ writing = {}
                    /\ m_Middle' = Flagged(m_Back)
                    /\ pcW' = "idle"
                    /\ UNCHANGED <<m_Slots, m_Back, m_Front, writing, serial,
                                   reading, value, pcR>>

ExchangeBack == /\ pcW = "storing"
                /\ writing = {}
                /\ m_Middle' = Flagged(m_Back)
                /\ m_Back' = SlotOf(m_Middle)
                /\ pcW' = "idle"
                /\ UNCHANGED <<m_Slots, m_Front, writing, serial,
                               reading, value, pcR>>

Publish == BeginPublish \/ (\E w \in Words : StoreWord(w)) \/ ExchangeBack

-----------------------------------------------------------------------------
(* Read: return at once unless the flag is up, else exchange and copy. *)

\* Mistake: exchanging although nothing new was published.
TestFlagAlways == /\ pcR = "idle"
                  /\ pcR' = "fresh"
                  /\ UNCHANGED <<m_Slots, m_Back, m_Front, m_Middle, writing,
                                 serial, pcW, reading, value>>

TestFlag == /\ pcR = "idle"
            /\ IsFresh(m_Middle)
            /\ pcR' = "fresh"
            /\ UNCHANGED <<m_Slots, m_Back, m_Front, m_Middle, writing,
                           serial, pcW, reading, value>>

\* Mistake: the reader takes the middle slot and leaves it there too.
ExchangeFrontHalf == /\ pcR = "fresh"
                     /\ m_Front' = SlotOf(m_Middle)
                     /\ m_Middle' = SlotOf(m_Middle)
                     /\ reading' = Words
                     /\ pcR' = "copying"
                     /\ UNCHANGED <<m_Slots, m_Back, writing, serial, pcW, value>>

ExchangeFront == /\ pcR = "fresh"
                 /\ m_Front' = SlotOf(m_Middle)
                 /\ m_Middle' = m_Front
                 /\ reading' = Words
                 /\ pcR' = "copying"
                 /\ UNCHANGED <<m_Slots, m_Back, writing, serial, pcW, value>>

CopyWord(w) == /\ pcR = "copying"
               /\ w \in reading
               /\ value' = [value EXCEPT ![w] = m_Slots[m_Front][w]]
               /\ reading' = reading \ {w}
               /\ UNCHANGED <<m_Slots, m_Back, m_Front, m_Middle, writing,
                              serial, pcW, pcR>>

ReturnTrue == /\ pcR = "copying"
              /\ reading = {}
              /\ pcR' = "idle"
              /\ UNCHANGED <<m_Slots, m_Back, m_Front, m_Middle, writing,
                             serial, pcW, reading, value>>

Read == TestFlag \/ ExchangeFront \/ (\E w \in Words : CopyWord(w)) \/ ReturnTrue

MailboxNext == Publish \/ Read

MailboxSpec == MailboxInit /\ [][MailboxNext]_mailbox

\* The reader polls on every engine cycle and a call of Read never waits.
FairSpec == MailboxSpec /\ WF_mailbox(Read)

-----------------------------------------------------------------------------
\* The structure the reader owns: the last one taken.
Taken == m_Slots[m_Front][CHOOSE w \in Words : TRUE]

\* The newest structure whose publication is complete.
Published == IF pcW = "storing" THEN serial - 1 ELSE serial

\* All the words of a slot belong to structure n.
Whole(slot, n) == \A w \in Words : m_Slots[slot][w] = n

MailboxTypeOK == /\ m_Slots \in [Slots -> [Words -> 0..MaxPublished]]
                 /\ m_Back \in Slots
                 /\ m_Front \in Slots
                 /\ m_Middle \in Slots \cup {Flagged(s) : s \in Slots}
                 /\ writing \in SUBSET Words
                 /\ serial \in 0..MaxPublished
                 /\ pcW \in {"idle", "storing"}
                 /\ reading \in SUBSET Words
                 /\ value \in [Words -> 0..MaxPublished]
                 /\ pcR \in {"idle", "fresh", "copying"}

\* The three slots always have three owners, so what the writer stores into
\* is never what the reader copies from ("Each side owns a different slot").
SlotsDisjoint == /\ m_Back # m_Front
                 /\ m_Back # SlotOf(m_Middle)
                 /\ m_Front # SlotOf(m_Middle)

\* What Read hands to its caller is one whole structure, never a mixture of
\* two, although neither side ever waits for the other.
NoTornRead == pcR # "copying" => \A w \in Words : value[w] = Taken

\* The flag is up exactly while the newest complete structure has not been
\* taken, and then the middle slot is that structure: no publication is lost
\* to the reader, and none is offered twice.
NewestIsOffered ==
  /\ IsFresh(m_Middle) => Whole(SlotOf(m_Middle), Published)
  /\ ~ IsFresh(m_Middle) => Whole(m_Front, Published)

\* The reader never moves to an older structure than the one it has.
NeverBackwards ==
  [][\A w \in Words : value'[w] >= value[w]]_mailbox

\* The inductive invariant behind the four properties above: what the writer
\* has stored so far, what the reader has copied so far, and how old the
\* structure in the reader's slot is.
WriterHalfway == /\ pcW = "idle" => writing = {}
                 /\ pcW = "storing" => /\ serial > 0
                                       /\ \A w \in Words \ writing :
                                            m_Slots[m_Back][w] = serial

ReaderHalfway == /\ pcR # "copying" => reading = {}
                 /\ pcR = "fresh" => IsFresh(m_Middle)
                 /\ \A w \in Words : /\ w \notin reading => value[w] = m_Slots[m_Front][w]
                                     /\ value[w] <= m_Slots[m_Front][w]

FrontIsWhole == /\ Whole(m_Front, Taken)
                /\ Taken <= Published
                /\ IsFresh(m_Middle) => Taken < Published

Inv == /\ MailboxTypeOK
       /\ SlotsDisjoint
       /\ WriterHalfway
       /\ ReaderHalfway
       /\ FrontIsWhole
       /\ NewestIsOffered

-----------------------------------------------------------------------------
\* The mailbox implements a register of the latest value: a publication
\* happens at the writer's exchange and a read at the reader's exchange.
Register == INSTANCE LatestValue WITH latest <- Published,
                                      fresh <- IsFresh(m_Middle),
                                      taken <- Taken

\* Every step of the two callers is a step of the register or invisible to it.
ImplementsRegister == Register!Spec

\* With a polling reader a fresh value does not stay untaken for ever.
ImplementsFairRegister == Register!FairSpec
=============================================================================
