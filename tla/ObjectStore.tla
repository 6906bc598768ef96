----------------------------- MODULE ObjectStore -----------------------------
(***************************************************************************)
(* Store.cpp: objects addressed by the hash of their bytes, published by   *)
(* threads of several processes in one directory, without a lock: a staged *)
(* file is made durable and linked to its address, in directories that are *)
(* made durable, too.  Any system call may fail; a process may end and the *)
(* machine lose power between two of them.                                 *)
(*                                                                         *)
(* The hash is taken to be free of collisions: an address is the contents  *)
(* it stands for.  The file system keeps what was synced; of the rest, a   *)
(* power loss leaves some entries and some bytes.                          *)
(***************************************************************************)
EXTENDS Naturals, Sequences

CONSTANTS Writers,       \* threads that put objects
          Pids,          \* processes
          Addresses,     \* contents
          Puts,          \* Puts[w]: the contents that w has to put
          Path,          \* Path[a]: the names from the root to the object
          MayBeDamaged,  \* objects that may be damaged from the beginning
          MaxSerial,     \* bound: staging names of a process
          Files,         \* bound: files there are at a time
          Partial, Garbage,   \* contents that are nobody's
          None,
          MaxCrashes     \* bound: ends of a process, and power losses

ASSUME StoreAssumption ==
    /\ Partial \notin Addresses /\ Garbage \notin Addresses
    /\ \A a \in Addresses : Path[a] \in Seq(STRING) /\ Len(Path[a]) > 1
    /\ \A a, b \in Addresses : \A i \in 1 .. Len(Path[a]) :
          SubSeq(Path[a], 1, i) = Path[b] => a = b
    /\ MayBeDamaged \subseteq Addresses
    /\ Puts \in [Writers -> SUBSET Addresses]
    /\ Files \cap Addresses = {} /\ None \notin Files \cup Addresses

\* A file that is there from the beginning is named after its address.
AllFiles == Files \cup Addresses

StagingNames == Pids \X (0 .. MaxSerial)

VARIABLES
    pid,        \* thread |-> its process
    entry,      \* paths that can be seen: of directories and of objects
    durable,    \* those that a power loss keeps, when it keeps those above
    object,     \* address |-> the file linked there, or None
    staged,     \* staging name |-> the file, or None
    bytes,      \* file |-> contents
    synced,     \* files whose bytes are durable
    pc,         \* thread |-> its next step
    want, name, file, level,  \* thread |-> its Put
    damaged,    \* history: objects that were damaged from the beginning
    promised,   \* history: addresses returned
    crashes

disk == <<entry, durable, object, staged, bytes, synced>>
local == <<want, name, file, level>>
vars == <<pid, disk, pc, local, damaged, promised, crashes>>

\* The i-th directory of an address, counted from the root; the last is the
\* object.
Step(a, i) == SubSeq(Path[a], 1, i)
Above(x) == SubSeq(x, 1, Len(x) - 1)

\* The path can be followed through these entries.
Reachable(x, entries) == \A i \in 1 .. Len(x) : SubSeq(x, 1, i) \in entries

\* fsync of the directory that x is in.
SyncAbove(x) == durable \cup {y \in entry : Above(y) = Above(x)}

\* ReadBytes and Verify find the whole object.
Readable(a) == Reachable(Path[a], entry) /\ bytes[object[a]] = a

Init ==
    /\ pid \in [Writers -> Pids]
    /\ damaged \in SUBSET MayBeDamaged
    /\ entry = UNION {{Step(a, i) : i \in 1 .. Len(Path[a])} : a \in damaged}
    /\ durable = entry
    /\ object = [a \in Addresses |-> IF a \in damaged THEN a ELSE None]
    /\ staged = [n \in StagingNames |-> None]
    /\ bytes = [f \in AllFiles |-> Garbage] /\ synced = {}
    /\ pc = [w \in Writers |-> "idle"]
    /\ want = [w \in Writers |-> None] /\ name = want /\ file = want
    /\ level = [w \in Writers |-> 0]
    /\ promised = {} /\ crashes = 0

-----------------------------------------------------------------------------
(* A Put.                                                                   *)

Goto(w, l) == pc' = [pc EXCEPT ![w] = l]

\* The threads' calls have ended, whatever they were at.
End(threads) ==
    LET ended(f, v) == [w \in Writers |-> IF w \in threads THEN v ELSE f[w]]
    IN  /\ pc' = ended(pc, "idle")
        /\ want' = ended(want, None) /\ name' = ended(name, None)
        /\ file' = ended(file, None) /\ level' = ended(level, 0)

Linked == {object[a] : a \in Addresses} \cap AllFiles

\* What files hold that are not linked to an address is of no interest any
\* more: nobody opens a staged file again.
Forget(files) ==
    LET unlinked == files \ Linked
    IN  /\ bytes' = [f \in AllFiles |-> IF f \in unlinked THEN Garbage ELSE bytes[f]]
        /\ synced' = synced \ unlinked

\* ~StagingFile.
Unstage(w) == /\ staged' = [staged EXCEPT ![name[w]] = None]
              /\ Forget({file[w]})

InUse == {staged[n] : n \in StagingNames} \cup Linked

\* StagingFile::Create: the first serial whose name does not exist.
FirstFree(p, s) == /\ staged[<<p, s>>] = None
                   /\ \A t \in 0 .. s - 1 : staged[<<p, t>>] # None

Create(w) ==
    /\ pc[w] = "idle" /\ Goto(w, "write")
    /\ Files \ InUse # {}
    /\ \E a \in Puts[w], s \in 0 .. MaxSerial :
          LET f == CHOOSE x \in Files : x \notin InUse IN
          /\ FirstFree(pid[w], s)
          /\ want' = [want EXCEPT ![w] = a]
          /\ name' = [name EXCEPT ![w] = <<pid[w], s>>]
          /\ file' = [file EXCEPT ![w] = f]
          /\ staged' = [staged EXCEPT ![<<pid[w], s>>] = f]
          /\ bytes' = [bytes EXCEPT ![f] = Partial]
          /\ synced' = synced \ {f}
    /\ UNCHANGED <<pid, entry, durable, object, level, damaged, promised,
                   crashes>>

\* Transfer or WriteAll: the address is that of the bytes written.
Write(w) ==
    /\ pc[w] = "write" /\ Goto(w, "sync")
    /\ bytes' = [bytes EXCEPT ![file[w]] = want[w]]
    /\ UNCHANGED <<pid, entry, durable, object, staged, synced, local, damaged,
                   promised, crashes>>

\* A store that publishes what it has not synced.
SyncStagedNot(w) ==
    /\ pc[w] = "sync" /\ Goto(w, "mkdir")
    /\ level' = [level EXCEPT ![w] = 1]
    /\ UNCHANGED <<pid, entry, durable, object, staged, bytes, synced, want,
                   name, file, damaged, promised, crashes>>

SyncStaged(w) ==
    /\ pc[w] = "sync" /\ Goto(w, "mkdir")
    /\ synced' = synced \cup {file[w]}
    /\ level' = [level EXCEPT ![w] = 1]
    /\ UNCHANGED <<pid, entry, durable, object, staged, bytes, want, name,
                   file, damaged, promised, crashes>>

\* A store that syncs only the directories it has made itself.
MakeDirectoryOnce(w) ==
    /\ pc[w] = "mkdir"
    /\ LET new == Step(want[w], level[w]) \notin entry
       IN  /\ Goto(w, IF new THEN "syncdir"
                      ELSE IF level[w] + 1 = Len(Path[want[w]]) THEN "link"
                      ELSE "mkdir")
           /\ level' = [level EXCEPT ![w] = IF new THEN @ ELSE @ + 1]
    /\ entry' = entry \cup {Step(want[w], level[w])}
    /\ UNCHANGED <<pid, durable, object, staged, bytes, synced, want, name,
                   file, damaged, promised, crashes>>

\* ChildDirectory: the directory may be there already.
MakeDirectory(w) ==
    /\ pc[w] = "mkdir" /\ Goto(w, "syncdir")
    /\ entry' = entry \cup {Step(want[w], level[w])}
    /\ UNCHANGED <<pid, durable, object, staged, bytes, synced, local, damaged,
                   promised, crashes>>

\* The entry is synced even if another writer made it.
SyncDirectory(w) ==
    /\ pc[w] = "syncdir"
    /\ durable' = SyncAbove(Step(want[w], level[w]))
    /\ Goto(w, IF level[w] + 1 = Len(Path[want[w]]) THEN "link" ELSE "mkdir")
    /\ level' = [level EXCEPT ![w] = @ + 1]
    /\ UNCHANGED <<pid, entry, object, staged, bytes, synced, want, name, file,
                   damaged, promised, crashes>>

\* linkat does not replace an object.
Link(w) ==
    /\ pc[w] = "link"
    /\ IF Path[want[w]] \in entry
       THEN Goto(w, "verify") /\ UNCHANGED <<entry, object>>
       ELSE /\ Goto(w, "syncobject")
            /\ entry' = entry \cup {Path[want[w]]}
            /\ object' = [object EXCEPT ![want[w]] = file[w]]
    /\ UNCHANGED <<pid, durable, staged, bytes, synced, local, damaged,
                   promised, crashes>>

\* VerifyAt: the object that was there is the one that was wanted.
Verify(w) ==
    /\ pc[w] = "verify"
    /\ bytes[object[want[w]]] = want[w] /\ Goto(w, "syncobject")
    /\ UNCHANGED <<pid, disk, local, damaged, promised, crashes>>

SyncObject(w) ==
    /\ pc[w] = "syncobject" /\ Goto(w, "return")
    /\ durable' = SyncAbove(Path[want[w]])
    /\ UNCHANGED <<pid, entry, object, staged, bytes, synced, local, damaged,
                   promised, crashes>>

\* The staged name is removed and the address is the caller's.
Return(w) ==
    /\ pc[w] = "return" /\ End({w}) /\ Unstage(w)
    /\ promised' = promised \cup {want[w]}
    /\ UNCHANGED <<pid, entry, durable, object, damaged, crashes>>

\* A call fails, or the bytes are not those of the address.
Fail(w) ==
    /\ pc[w] \notin {"idle", "return"} /\ End({w}) /\ Unstage(w)
    /\ UNCHANGED <<pid, entry, durable, object, damaged, promised, crashes>>

-----------------------------------------------------------------------------
\* A process ends; what it staged stays.
ProcessEnds(p) ==
    /\ crashes < MaxCrashes /\ crashes' = crashes + 1
    /\ \E w \in Writers : pid[w] = p /\ pc[w] # "idle"
    /\ End({w \in Writers : pid[w] = p})
    /\ Forget({file[w] : w \in {u \in Writers : pid[u] = p}})
    /\ UNCHANGED <<pid, entry, durable, object, staged, damaged, promised>>

\* A power loss keeps the durable entries and some of the others, as far as
\* the directories above them are kept, and of the bytes those synced.
PowerLoss ==
    /\ crashes < MaxCrashes /\ crashes' = crashes + 1
    /\ End(Writers)
    /\ \E kept \in SUBSET entry :
          /\ durable \subseteq kept
          /\ entry' = {x \in kept : Reachable(x, kept)}
    /\ durable' = entry'
    /\ object' = [a \in Addresses |->
                     IF Path[a] \in entry' THEN object[a] ELSE None]
    /\ \E lost \in SUBSET (Linked \ synced) :
          bytes' = [f \in AllFiles |->
                       IF f \in lost \cup (Files \ Linked) THEN Garbage
                       ELSE bytes[f]]
    /\ synced' = synced \cap Linked
    /\ UNCHANGED <<pid, staged, damaged, promised>>

Put(w) == \/ Create(w) \/ Write(w) \/ SyncStaged(w) \/ MakeDirectory(w)
          \/ SyncDirectory(w) \/ Link(w) \/ Verify(w) \/ SyncObject(w)
          \/ Return(w) \/ Fail(w)

Next == \/ \E w \in Writers : Put(w)
        \/ \E p \in Pids : ProcessEnds(p)
        \/ PowerLoss

Spec == Init /\ [][Next]_vars

-----------------------------------------------------------------------------
(* Nobody reads another object's bytes under an address, or half of its     *)
(* own: what can be seen is whole, whichever writers raced for it and       *)
(* whatever failed, unless it was damaged before (Store.cpp:318).           *)
SeenIsWhole ==
    \A a \in Addresses \ damaged :
        Reachable(Path[a], entry) => bytes[object[a]] = a

(* An address that Put returned can be read for ever: no failure of another *)
(* writer, no end of a process and no power loss takes the object away,     *)
(* although its directories may be another writer's (Store.cpp:85, :333).   *)
Store == INSTANCE DurableStore WITH
             held <- {a \in Addresses : Readable(a)}, promised <- promised

ImplementsDurableStore == Store!Spec
=============================================================================
