------------------------- MODULE ObjectStoreProofs -------------------------
(***************************************************************************)
(* Proofs about ObjectStore, for any writers, processes, contents and      *)
(* depth of the directories: what can be seen is whole, and the store      *)
(* implements DurableStore.                                                *)
(***************************************************************************)
EXTENDS ObjectStore, SequenceTheorems, TLAPS

Working == {"write", "sync", "mkdir", "syncdir", "link", "verify", "syncobject",
            "return"}

TypeOK ==
    /\ pid \in [Writers -> Pids]
    /\ object \in [Addresses -> AllFiles \cup {None}]
    /\ staged \in [StagingNames -> Files \cup {None}]
    /\ bytes \in [AllFiles -> Addresses \cup {Partial, Garbage}]
    /\ pc \in [Writers -> Working \cup {"idle"}]
    /\ want \in [Writers -> Addresses \cup {None}]
    /\ name \in [Writers -> StagingNames \cup {None}]
    /\ file \in [Writers -> Files \cup {None}]
    /\ level \in [Writers -> Nat]
    /\ promised \subseteq Addresses
    /\ damaged \subseteq Addresses

\* What is linked to an address is its object, and durable, or was damaged.
Objects ==
    /\ \A a \in Addresses :
          /\ Path[a] \in entry => object[a] # None
          /\ object[a] \in Files => bytes[object[a]] = a /\ object[a] \in synced
          /\ object[a] \in Addresses => a \in damaged
    /\ \A a \in Addresses : bytes[a] = Garbage
    /\ durable \subseteq entry

Active(w) == pc[w] # "idle"

\* A Put works on a staged file of its own, which nobody sees until it is
\* linked, and by then it is complete and durable.
Staging ==
    /\ \A w \in Writers : Active(w) =>
          /\ want[w] \in Addresses /\ file[w] \in Files
          /\ name[w] \in StagingNames /\ staged[name[w]] = file[w]
    /\ \A w \in Writers : ~Active(w) => file[w] = None
    /\ \A w, u \in Writers :
          Active(w) /\ Active(u) /\ file[w] = file[u] => w = u
    /\ \A w \in Writers :
          /\ pc[w] \in {"write", "sync", "mkdir", "syncdir", "link", "verify"} =>
                file[w] \notin Linked
          /\ pc[w] \in {"sync", "mkdir", "syncdir", "link"} =>
                bytes[file[w]] = want[w]
          /\ pc[w] \in {"mkdir", "syncdir", "link"} => file[w] \in synced

\* The directories above the one a Put is at are durable, whoever made them.
Directories ==
    \A w \in Writers :
        /\ pc[w] \in {"mkdir", "syncdir"} => level[w] \in 1 .. Len(Path[want[w]]) - 1
        /\ pc[w] \in {"mkdir", "syncdir"} =>
              \A i \in 1 .. level[w] - 1 : Step(want[w], i) \in durable
        /\ pc[w] = "syncdir" => Step(want[w], level[w]) \in entry
        /\ pc[w] \in {"link", "verify", "syncobject", "return"} =>
              \A i \in 1 .. Len(Path[want[w]]) - 1 : Step(want[w], i) \in durable
        /\ pc[w] \in {"verify", "syncobject"} => Path[want[w]] \in entry
        /\ pc[w] = "return" => Path[want[w]] \in durable
        /\ pc[w] \in {"syncobject", "return"} =>
              bytes[object[want[w]]] = want[w]

\* An address that was returned names a whole object in durable directories.
Promises ==
    \A a \in promised : /\ \A i \in 1 .. Len(Path[a]) : Step(a, i) \in durable
                        /\ bytes[object[a]] = a

Inv == TypeOK /\ Objects /\ Staging /\ Directories /\ Promises
-----------------------------------------------------------------------------
(* Paths.                                                                   *)

\* The steps of a path are its prefixes, and the last is the path.
LEMMA Steps ==
  ASSUME NEW a \in Addresses
  PROVE  /\ Len(Path[a]) \in Nat /\ Len(Path[a]) > 1
         /\ Step(a, Len(Path[a])) = Path[a]
         /\ \A i \in 1 .. Len(Path[a]) :
               /\ Len(Step(a, i)) = i
               /\ \A j \in 1 .. i : SubSeq(Step(a, i), 1, j) = Step(a, j)
<1>1. Path[a] \in Seq(STRING) /\ Len(Path[a]) > 1
  BY StoreAssumption
<1>2. Len(Path[a]) \in Nat
  BY <1>1
<1>3. Step(a, Len(Path[a])) = Path[a]
  BY <1>1, SubSeqFull DEF Step
<1>4. ASSUME NEW i \in 1 .. Len(Path[a])
      PROVE  /\ Len(Step(a, i)) = i
             /\ \A j \in 1 .. i : SubSeq(Step(a, i), 1, j) = Step(a, j)
  <2>1. \A k \in 1 .. i : Path[a][k] \in STRING
    BY <1>1, <1>2
  <2>2. Len(Step(a, i)) = i
    BY <1>2, <2>1, SubSeqProperties DEF Step
  <2>3. ASSUME NEW j \in 1 .. i PROVE SubSeq(Step(a, i), 1, j) = Step(a, j)
    <3>1. /\ 1 \in 1 .. Len(Path[a]) /\ i \in 1 .. Len(Path[a])
          /\ 1 \in 1 .. i - 1 + 1 /\ j \in 1 .. i - 1 + 1
      BY <1>2
    <3>2. SubSeq(SubSeq(Path[a], 1, i), 1, j) =
             SubSeq(Path[a], 1 + 1 - 1, 1 + j - 1)
      BY <1>1, <3>1, SubSeqOfSubSeq
    <3>3. 1 + 1 - 1 = 1 /\ 1 + j - 1 = j
      BY <3>1
    <3> QED BY <3>2, <3>3 DEF Step
  <2> QED BY <2>2, <2>3
<1> QED BY <1>1, <1>2, <1>3, <1>4

\* A step of a path is the path of an object only when it is its own last.
LEMMA StepIsNoPath ==
  ASSUME NEW a \in Addresses, NEW b \in Addresses,
         NEW i \in 1 .. Len(Path[a]), Step(a, i) = Path[b]
  PROVE  a = b /\ i = Len(Path[a])
<1>1. a = b
  BY StoreAssumption DEF Step
<1>2. Len(Step(a, i)) = i
  BY Steps
<1> QED BY <1>1, <1>2

\* What holds of the entries above a path makes it reachable.
LEMMA ReachableIfSteps ==
  ASSUME NEW a \in Addresses, NEW S,
         \A i \in 1 .. Len(Path[a]) : Step(a, i) \in S
  PROVE  /\ Reachable(Path[a], S)
         /\ \A i \in 1 .. Len(Path[a]) : Reachable(Step(a, i), S)
<1>1. Reachable(Path[a], S)
  BY DEF Reachable, Step
<1>2. ASSUME NEW i \in 1 .. Len(Path[a]) PROVE Reachable(Step(a, i), S)
  <2>1. Len(Step(a, i)) = i /\ \A j \in 1 .. i : j \in 1 .. Len(Path[a])
    BY Steps
  <2> QED BY <2>1, Steps DEF Reachable
<1> QED BY <1>1, <1>2

\* A path that can be followed is an entry.
LEMMA PathIfReachable ==
  ASSUME NEW a \in Addresses, NEW S, Reachable(Path[a], S)
  PROVE  Path[a] \in S
<1>1. Len(Path[a]) \in 1 .. Len(Path[a])
  BY Steps
<1> QED BY <1>1, Steps DEF Reachable, Step

-----------------------------------------------------------------------------
(* The invariant.                                                           *)

LEMMA InitInv == Init => Inv
<1> SUFFICES ASSUME Init PROVE Inv
  OBVIOUS
<1> USE StoreAssumption DEF Init
<1>1. TypeOK
  BY DEF TypeOK, AllFiles
<1>2. Objects
  <2>1. ASSUME NEW a \in Addresses, Path[a] \in entry PROVE a \in damaged
    <3>1. PICK b \in damaged : \E i \in 1 .. Len(Path[b]) : Path[a] = Step(b, i)
      BY <2>1
    <3>2. PICK i \in 1 .. Len(Path[b]) : Path[a] = Step(b, i)
      BY <3>1
    <3>3. b \in Addresses
      BY <3>1
    <3> QED BY <3>1, <3>2, <3>3, StepIsNoPath
  <2>2. \A a \in Addresses : a \notin Files
    OBVIOUS
  <2> QED BY <2>1, <2>2 DEF Objects, AllFiles
<1>3. Staging /\ Directories /\ Promises
  BY DEF Staging, Directories, Promises, Active
<1> QED BY <1>1, <1>2, <1>3 DEF Inv

\* A new staged file is nobody else's.
LEMMA CreateInv ==
  ASSUME Inv, NEW w \in Writers, Create(w) PROVE Inv'
<1> USE StoreAssumption DEF Inv
<1> DEFINE f == CHOOSE x \in Files : x \notin InUse
<1>1. PICK a \in Puts[w], s \in 0 .. MaxSerial :
         /\ FirstFree(pid[w], s)
         /\ want' = [want EXCEPT ![w] = a]
         /\ name' = [name EXCEPT ![w] = <<pid[w], s>>]
         /\ file' = [file EXCEPT ![w] = f]
         /\ staged' = [staged EXCEPT ![<<pid[w], s>>] = f]
         /\ bytes' = [bytes EXCEPT ![f] = Partial]
         /\ synced' = synced \ {f}
  BY DEF Create
<1>2. /\ UNCHANGED <<pid, entry, durable, object, level, damaged, promised>>
      /\ pc' = [pc EXCEPT ![w] = "write"]
      /\ pc[w] = "idle"
  BY DEF Create, Goto
<1>3. f \in Files /\ f \notin InUse
  BY DEF Create
<1> HIDE DEF f
<1>4. a \in Addresses /\ <<pid[w], s>> \in StagingNames
  BY DEF TypeOK, StagingNames
<1>5. \A u \in Writers : Active(u) => file[u] # f
  BY <1>3 DEF Staging, InUse
<1>6. \A b \in Addresses : object[b] # f
  BY <1>3 DEF InUse, Linked, AllFiles
<1>7. TypeOK'
  BY <1>1, <1>2, <1>3, <1>4 DEF TypeOK, Working, AllFiles
<1>8. Objects'
  BY <1>1, <1>2, <1>3, <1>6 DEF Objects, TypeOK, AllFiles
<1>9. Staging'
  <2>1. \A u \in Writers \ {w} : /\ pc'[u] = pc[u] /\ want'[u] = want[u]
                                 /\ name'[u] = name[u] /\ file'[u] = file[u]
    BY <1>1, <1>2 DEF TypeOK
  <2>2. /\ pc'[w] = "write" /\ want'[w] = a /\ name'[w] = <<pid[w], s>>
        /\ file'[w] = f
    BY <1>1, <1>2 DEF TypeOK
  <2>3. staged'[<<pid[w], s>>] = f /\ staged[<<pid[w], s>>] = None
    BY <1>1, <1>4 DEF TypeOK, FirstFree
  <2>4. \A u \in Writers \ {w} : Active(u) =>
           staged'[name[u]] = file[u] /\ file[u] # f
    BY <1>1, <1>4, <1>5, <2>3 DEF TypeOK, Staging
  <2>5. \A u \in Writers \ {w} : Active(u) =>
           bytes'[file[u]] = bytes[file[u]]
           /\ (file[u] \in synced => file[u] \in synced')
    BY <1>1, <2>4 DEF TypeOK, Staging, AllFiles
  <2>6. Linked' = Linked /\ f \notin Linked
    BY <1>2, <1>3 DEF Linked, InUse
  <2>7. \A u \in Writers \ {w} : /\ ~Active(u) => file'[u] = None
                                 /\ pc'[u] # "idle" => Active(u)
    BY <2>1 DEF Staging, Active
  <2>8. ASSUME NEW u \in Writers, pc'[u] # "idle"
        PROVE  /\ want'[u] \in Addresses /\ file'[u] \in Files
               /\ name'[u] \in StagingNames /\ staged'[name'[u]] = file'[u]
    <3>1. CASE u = w
      BY <1>3, <1>4, <2>2, <2>3, <3>1
    <3>2. CASE u # w
      <4>1. Active(u) /\ u \in Writers \ {w}
        BY <2>7, <2>8, <3>2
      <4>2. /\ want[u] \in Addresses /\ file[u] \in Files
            /\ name[u] \in StagingNames
        BY <4>1 DEF Staging
      <4> QED BY <2>1, <2>4, <4>1, <4>2
    <3> QED BY <3>1, <3>2
  <2>9. \A u, v \in Writers :
          pc'[u] # "idle" /\ pc'[v] # "idle" /\ file'[u] = file'[v] => u = v
    BY <1>5, <2>1, <2>2, <2>7 DEF Staging
  <2>10. ASSUME NEW u \in Writers
         PROVE  /\ pc'[u] \in {"write", "sync", "mkdir", "syncdir", "link", "verify"} =>
                      file'[u] \notin Linked'
                /\ pc'[u] \in {"sync", "mkdir", "syncdir", "link"} =>
                      bytes'[file'[u]] = want'[u]
                /\ pc'[u] \in {"mkdir", "syncdir", "link"} => file'[u] \in synced'
    BY <2>1, <2>2, <2>5, <2>6 DEF Staging, Active
  <2>11. \A u \in Writers : pc'[u] = "idle" => file'[u] = None
    BY <2>1, <2>2, <2>7 DEF Active
  <2> QED BY <2>8, <2>9, <2>10, <2>11 DEF Staging, Active
<1>10. Directories'
  <2>1. \A u \in Writers : pc'[u] \notin {"idle", "write"} =>
           pc'[u] = pc[u] /\ want'[u] = want[u] /\ level'[u] = level[u]
    BY <1>1, <1>2 DEF TypeOK
  <2>2. \A u \in Writers : Active(u) =>
           bytes'[object[want[u]]] = bytes[object[want[u]]]
    BY <1>1, <1>6 DEF Staging, TypeOK
  <2> QED BY <1>2, <2>1, <2>2 DEF Directories, Active
<1>11. Promises'
  BY <1>1, <1>2, <1>6 DEF Promises, TypeOK
<1> QED BY <1>7, <1>8, <1>9, <1>10, <1>11

\* Only w's own file is written, and no object is that file.
LEMMA WriteInv ==
  ASSUME Inv, NEW w \in Writers, Write(w) PROVE Inv'
<1> USE StoreAssumption DEF Inv
<1>1. /\ pc[w] = "write" /\ pc' = [pc EXCEPT ![w] = "sync"]
      /\ bytes' = [bytes EXCEPT ![file[w]] = want[w]]
      /\ UNCHANGED <<pid, entry, durable, object, staged, synced, local,
                     damaged, promised>>
  BY DEF Write, Goto
<1>2. /\ want[w] \in Addresses /\ file[w] \in Files /\ file[w] \notin Linked
      /\ \A u \in Writers \ {w} : Active(u) => file[u] # file[w]
  BY <1>1 DEF Staging, Active
<1>3. \A a \in Addresses : object[a] # file[w]
  BY <1>2 DEF Linked, AllFiles
<1>4. TypeOK'
  BY <1>1, <1>2 DEF TypeOK, Working, AllFiles, local
<1>5. Objects'
  BY <1>1, <1>2, <1>3 DEF Objects, TypeOK, AllFiles
<1>6. Staging'
  <2>1. \A u \in Writers \ {w} : pc'[u] = pc[u]
    BY <1>1 DEF TypeOK
  <2>2. pc'[w] = "sync" /\ bytes'[file[w]] = want[w]
    BY <1>1, <1>2 DEF TypeOK, AllFiles
  <2>3. \A u \in Writers \ {w} : Active(u) => bytes'[file[u]] = bytes[file[u]]
    BY <1>1, <1>2 DEF TypeOK, Staging, AllFiles
  <2>4. Linked' = Linked /\ UNCHANGED <<want, name, file>>
    BY <1>1 DEF Linked, local
  <2> QED BY <1>1, <1>2, <2>1, <2>2, <2>3, <2>4 DEF Staging, Active
<1>7. Directories'
  <2>1. \A u \in Writers : pc'[u] \notin {"idle", "sync"} => pc'[u] = pc[u]
    BY <1>1 DEF TypeOK
  <2>2. \A u \in Writers : Active(u) =>
           bytes'[object[want[u]]] = bytes[object[want[u]]]
    BY <1>1, <1>3 DEF Staging, TypeOK
  <2> QED BY <1>1, <2>1, <2>2 DEF Directories, Active, local
<1>8. Promises'
  BY <1>1, <1>3 DEF Promises, TypeOK
<1> QED BY <1>4, <1>5, <1>6, <1>7, <1>8

LEMMA SyncStagedInv ==
  ASSUME Inv, NEW w \in Writers, SyncStaged(w) PROVE Inv'
<1> USE DEF Inv
<1>1. /\ pc[w] = "sync" /\ pc' = [pc EXCEPT ![w] = "mkdir"]
      /\ synced' = synced \cup {file[w]}
      /\ level' = [level EXCEPT ![w] = 1]
      /\ UNCHANGED <<pid, entry, durable, object, staged, bytes, want, name,
                     file, damaged, promised>>
  BY DEF SyncStaged, Goto
<1>2. want[w] \in Addresses
  BY <1>1 DEF Staging, Active
<1>3. \A u \in Writers \ {w} : pc'[u] = pc[u] /\ level'[u] = level[u]
  BY <1>1 DEF TypeOK
<1>4. pc'[w] = "mkdir" /\ level'[w] = 1
  BY <1>1 DEF TypeOK
<1>5. TypeOK' /\ Objects' /\ Promises'
  BY <1>1 DEF TypeOK, Working, Objects, Promises
<1>6. Staging'
  BY <1>1, <1>3, <1>4 DEF Staging, Active, Linked
<1>7. Directories'
  <2>1. 1 \in 1 .. Len(Path[want[w]]) - 1
    BY <1>2, Steps
  <2> QED BY <1>1, <1>3, <1>4, <2>1 DEF Directories
<1> QED BY <1>5, <1>6, <1>7

\* A new directory is no object.
LEMMA MakeDirectoryInv ==
  ASSUME Inv, NEW w \in Writers, MakeDirectory(w) PROVE Inv'
<1> USE DEF Inv
<1>1. /\ pc[w] = "mkdir" /\ pc' = [pc EXCEPT ![w] = "syncdir"]
      /\ entry' = entry \cup {Step(want[w], level[w])}
      /\ UNCHANGED <<pid, durable, object, staged, bytes, synced, want, name,
                     file, level, damaged, promised>>
  BY DEF MakeDirectory, Goto, local
<1>2. /\ want[w] \in Addresses
      /\ level[w] \in 1 .. Len(Path[want[w]]) - 1
  BY <1>1 DEF Staging, Active, Directories
<1>3. \A a \in Addresses : Path[a] # Step(want[w], level[w])
  <2>1. level[w] \in 1 .. Len(Path[want[w]]) /\ level[w] # Len(Path[want[w]])
    BY <1>2, Steps
  <2> QED BY <1>2, <2>1, StepIsNoPath
<1>4. \A u \in Writers \ {w} : pc'[u] = pc[u]
  BY <1>1 DEF TypeOK
<1>5. pc'[w] = "syncdir"
  BY <1>1 DEF TypeOK
<1>6. TypeOK' /\ Promises'
  BY <1>1 DEF TypeOK, Working, Promises
<1>7. Objects'
  BY <1>1, <1>3 DEF Objects
<1>8. Staging'
  BY <1>1, <1>4, <1>5 DEF Staging, Active, Linked
<1>9. Directories'
  BY <1>1, <1>4, <1>5 DEF Directories
<1> QED BY <1>6, <1>7, <1>8, <1>9

\* fsync keeps what was durable and adds the entry that was asked for.
LEMMA SyncAboveGrows ==
  ASSUME Objects, NEW x \in entry
  PROVE  /\ durable \subseteq SyncAbove(x) /\ SyncAbove(x) \subseteq entry
         /\ x \in SyncAbove(x)
BY DEF SyncAbove, Objects

LEMMA SyncDirectoryInv ==
  ASSUME Inv, NEW w \in Writers, SyncDirectory(w) PROVE Inv'
<1> USE DEF Inv
<1> DEFINE n == Len(Path[want[w]])
<1>1. /\ pc[w] = "syncdir"
      /\ pc' = [pc EXCEPT ![w] = IF level[w] + 1 = n THEN "link" ELSE "mkdir"]
      /\ level' = [level EXCEPT ![w] = @ + 1]
      /\ durable' = SyncAbove(Step(want[w], level[w]))
      /\ UNCHANGED <<pid, entry, object, staged, bytes, synced, want, name,
                     file, damaged, promised>>
  BY DEF SyncDirectory, Goto
<1>2. /\ want[w] \in Addresses /\ level[w] \in 1 .. n - 1 /\ n \in Nat
      /\ Step(want[w], level[w]) \in entry
      /\ \A i \in 1 .. level[w] - 1 : Step(want[w], i) \in durable
  BY <1>1, Steps DEF Staging, Active, Directories
<1>3. /\ durable \subseteq durable' /\ durable' \subseteq entry
      /\ Step(want[w], level[w]) \in durable'
  BY <1>1, <1>2, SyncAboveGrows
<1>4. \A u \in Writers \ {w} : pc'[u] = pc[u] /\ level'[u] = level[u]
  BY <1>1 DEF TypeOK
<1>5. /\ level'[w] = level[w] + 1
      /\ pc'[w] = IF level[w] + 1 = n THEN "link" ELSE "mkdir"
  BY <1>1 DEF TypeOK
<1>6. TypeOK'
  BY <1>1, <1>2 DEF TypeOK, Working
<1>7. Objects' /\ Promises'
  BY <1>1, <1>3 DEF Objects, Promises
<1>8. Staging'
  BY <1>1, <1>4, <1>5 DEF Staging, Active, Linked
<1>9. Directories'
  <2>1. \A i \in 1 .. level[w] : Step(want[w], i) \in durable'
    BY <1>2, <1>3
  <2>2. pc'[w] = "link" => level[w] = n - 1
    BY <1>2, <1>5
  <2>3. pc'[w] # "link" => pc'[w] = "mkdir" /\ level'[w] \in 1 .. n - 1
    BY <1>2, <1>5
  <2> HIDE DEF n
  <2>4. n = Len(Path[want'[w]]) /\ want' = want /\ level'[w] - 1 = level[w]
    BY <1>1, <1>2, <1>5 DEF n
  <2> QED BY <1>1, <1>3, <1>4, <1>5, <2>1, <2>2, <2>3, <2>4 DEF Directories
<1> QED BY <1>6, <1>7, <1>8, <1>9

\* A file that is linked is complete and durable, and its address was free.
LEMMA LinkInv ==
  ASSUME Inv, NEW w \in Writers, Link(w) PROVE Inv'
<1> USE StoreAssumption DEF Inv
<1>1. /\ pc[w] = "link"
      /\ UNCHANGED <<pid, durable, staged, bytes, synced, want, name, file,
                     level, damaged, promised>>
  BY DEF Link, local
<1>2. /\ want[w] \in Addresses /\ file[w] \in Files /\ file[w] \notin Linked
      /\ bytes[file[w]] = want[w] /\ file[w] \in synced
      /\ \A i \in 1 .. Len(Path[want[w]]) - 1 : Step(want[w], i) \in durable
  BY <1>1 DEF Staging, Active, Directories
<1>3. CASE Path[want[w]] \in entry
  <2>1. pc' = [pc EXCEPT ![w] = "verify"] /\ UNCHANGED <<entry, object>>
    BY <1>3 DEF Link, Goto
  <2>2. pc'[w] = "verify" /\ \A u \in Writers \ {w} : pc'[u] = pc[u]
    BY <2>1 DEF TypeOK
  <2>3. TypeOK' /\ Objects' /\ Promises'
    BY <1>1, <2>1 DEF TypeOK, Working, Objects, Promises
  <2>4. Staging'
    BY <1>1, <1>2, <2>1, <2>2 DEF Staging, Active, Linked
  <2>5. Directories'
    BY <1>1, <1>2, <1>3, <2>1, <2>2 DEF Directories
  <2> QED BY <2>3, <2>4, <2>5
<1>4. CASE Path[want[w]] \notin entry
  <2>1. /\ pc' = [pc EXCEPT ![w] = "syncobject"]
        /\ entry' = entry \cup {Path[want[w]]}
        /\ object' = [object EXCEPT ![want[w]] = file[w]]
    BY <1>4 DEF Link, Goto
  <2>2. pc'[w] = "syncobject" /\ \A u \in Writers \ {w} : pc'[u] = pc[u]
    BY <2>1 DEF TypeOK
  <2>3. /\ object'[want[w]] = file[w]
        /\ \A a \in Addresses : a # want[w] => object'[a] = object[a]
    BY <1>2, <2>1 DEF TypeOK
  <2>4. \A a \in Addresses : Path[a] = Path[want[w]] => a = want[w]
    <3>1. ASSUME NEW a \in Addresses, Path[a] = Path[want[w]]
          PROVE  a = want[w]
      <4>1. Len(Path[a]) \in 1 .. Len(Path[a]) /\ Step(a, Len(Path[a])) = Path[a]
        BY Steps
      <4> QED BY <1>2, <3>1, <4>1, StepIsNoPath
    <3> QED BY <3>1
  <2>5. TypeOK'
    BY <1>1, <1>2, <2>1 DEF TypeOK, Working, AllFiles
  <2>6. Objects'
    <3>1. \A a \in Addresses : Path[a] \in entry' => object'[a] # None
      BY <1>2, <2>1, <2>3, <2>4 DEF Objects
    <3>2. \A a \in Addresses :
             object'[a] \in Files => bytes[object'[a]] = a /\ object'[a] \in synced
      BY <1>2, <2>3 DEF Objects
    <3>3. \A a \in Addresses : object'[a] \in Addresses => a \in damaged
      BY <1>2, <2>3 DEF Objects
    <3>4. durable \subseteq entry'
      BY <2>1 DEF Objects
    <3>5. \A a \in Addresses : bytes[a] = Garbage
      BY DEF Objects
    <3>6. UNCHANGED <<bytes, synced, durable, damaged>>
      BY <1>1
    <3> QED BY <3>1, <3>2, <3>3, <3>4, <3>5, <3>6 DEF Objects
  <2>7. Staging'
    <3>1. Linked' \subseteq Linked \cup {file[w]}
      BY <2>3 DEF Linked
    <3>2. \A u \in Writers \ {w} : Active(u) => file[u] # file[w]
      BY <1>1 DEF Staging, Active
    <3>3. UNCHANGED <<staged, bytes, synced, want, name, file>>
      BY <1>1
    <3> QED BY <1>1, <2>2, <3>1, <3>2, <3>3 DEF Staging, Active
  <2>8. Directories'
    <3>1. \A u \in Writers \ {w} : pc[u] \in {"syncobject", "return"} =>
             want[u] \in Addresses /\ want[u] # want[w]
      BY <1>4 DEF Directories, Objects, Staging, Active
    <3>2. UNCHANGED <<bytes, durable, want, level>> /\ entry \subseteq entry'
          /\ Path[want[w]] \in entry'
      BY <1>1, <2>1
    <3>3. bytes[object'[want[w]]] = want[w]
      BY <1>2, <2>3
    <3>4. \A u \in Writers \ {w} : pc[u] \in {"syncobject", "return"} =>
             object'[want[u]] = object[want[u]]
      BY <2>3, <3>1
    <3> QED BY <1>2, <2>2, <3>2, <3>3, <3>4 DEF Directories
  <2>9. Promises'
    <3>1. ASSUME NEW a \in promised PROVE object'[a] = object[a]
      <4>1. a \in Addresses
        BY DEF TypeOK
      <4>2. Path[a] \in durable
        BY <4>1, Steps DEF Promises
      <4> QED BY <1>4, <2>3, <4>1, <4>2 DEF Objects
    <3> QED BY <1>1, <3>1 DEF Promises
  <2> QED BY <2>5, <2>6, <2>7, <2>8, <2>9
<1> QED BY <1>3, <1>4

LEMMA VerifyInv ==
  ASSUME Inv, NEW w \in Writers, Verify(w) PROVE Inv'
<1> USE DEF Inv
<1>1. /\ pc[w] = "verify" /\ pc' = [pc EXCEPT ![w] = "syncobject"]
      /\ bytes[object[want[w]]] = want[w]
      /\ UNCHANGED <<pid, entry, durable, object, staged, bytes, synced, want,
                     name, file, level, damaged, promised>>
  BY DEF Verify, Goto, disk, local
<1>2. pc'[w] = "syncobject" /\ \A u \in Writers \ {w} : pc'[u] = pc[u]
  BY <1>1 DEF TypeOK
<1>3. TypeOK' /\ Objects' /\ Promises'
  BY <1>1 DEF TypeOK, Working, Objects, Promises
<1>4. Staging'
  BY <1>1, <1>2 DEF Staging, Active, Linked
<1>5. Directories'
  BY <1>1, <1>2 DEF Directories
<1> QED BY <1>3, <1>4, <1>5

LEMMA SyncObjectInv ==
  ASSUME Inv, NEW w \in Writers, SyncObject(w) PROVE Inv'
<1> USE DEF Inv
<1>1. /\ pc[w] = "syncobject" /\ pc' = [pc EXCEPT ![w] = "return"]
      /\ durable' = SyncAbove(Path[want[w]])
      /\ UNCHANGED <<pid, entry, object, staged, bytes, synced, want,
                     name, file, level, damaged, promised>>
  BY DEF SyncObject, Goto, local
<1>2. pc'[w] = "return" /\ \A u \in Writers \ {w} : pc'[u] = pc[u]
  BY <1>1 DEF TypeOK
<1>3. Path[want[w]] \in entry
  BY <1>1 DEF Directories
<1>4. /\ durable \subseteq durable' /\ durable' \subseteq entry
      /\ Path[want[w]] \in durable'
  BY <1>1, <1>3, SyncAboveGrows
<1>5. TypeOK' /\ Objects' /\ Promises'
  BY <1>1, <1>4 DEF TypeOK, Working, Objects, Promises
<1>6. Staging'
  BY <1>1, <1>2 DEF Staging, Active, Linked
<1>7. Directories'
  BY <1>1, <1>2, <1>4 DEF Directories
<1> QED BY <1>5, <1>6, <1>7

\* A Put that ends, for whatever reason, leaves nothing that others use: of
\* the files only those are forgotten that nobody is at and that are not
\* linked.
LEMMA EndInv ==
  ASSUME Inv, NEW threads \in SUBSET Writers, NEW files,
         End(threads), Forget(files),
         UNCHANGED <<pid, entry, durable, object, damaged>>,
         staged' \in [StagingNames -> Files \cup {None}],
         \A u \in Writers \ threads : Active(u) =>
            staged'[name[u]] = staged[name[u]] /\ file[u] \notin files,
         promised' \subseteq Addresses,
         \A a \in promised' : /\ \A i \in 1 .. Len(Path[a]) : Step(a, i) \in durable
                              /\ bytes[object[a]] = a
  PROVE  Inv'
<1> USE StoreAssumption DEF Inv
<1>1. /\ pc' = [w \in Writers |-> IF w \in threads THEN "idle" ELSE pc[w]]
      /\ want' = [w \in Writers |-> IF w \in threads THEN None ELSE want[w]]
      /\ name' = [w \in Writers |-> IF w \in threads THEN None ELSE name[w]]
      /\ file' = [w \in Writers |-> IF w \in threads THEN None ELSE file[w]]
      /\ level' = [w \in Writers |-> IF w \in threads THEN 0 ELSE level[w]]
  BY DEF End
<1>2. /\ bytes' = [f \in AllFiles |->
                      IF f \in files \ Linked THEN Garbage ELSE bytes[f]]
      /\ synced' = synced \ (files \ Linked)
  BY DEF Forget
<1>3. \A a \in Addresses : object[a] # None => object[a] \in Linked /\ object[a] \in AllFiles
  BY DEF TypeOK, Linked
<1>4. \A a \in Addresses : object[a] # None =>
         bytes'[object[a]] = bytes[object[a]]
         /\ (object[a] \in synced => object[a] \in synced')
  BY <1>2, <1>3
<1>5. TypeOK'
  BY <1>1, <1>2 DEF TypeOK, Working
<1>6. Objects'
  <2>1. \A a \in Addresses : bytes'[a] = Garbage
    BY <1>2 DEF Objects, AllFiles
  <2> QED BY <1>4, <2>1 DEF Objects
<1>7. \A u \in Writers : pc'[u] # "idle" =>
         /\ u \notin threads /\ Active(u) /\ pc'[u] = pc[u]
         /\ want'[u] = want[u] /\ name'[u] = name[u]
         /\ file'[u] = file[u] /\ level'[u] = level[u]
  BY <1>1 DEF Active
<1>8. Staging'
  <2>1. \A u \in Writers : pc'[u] # "idle" =>
           /\ bytes'[file[u]] = bytes[file[u]] /\ staged'[name[u]] = staged[name[u]]
           /\ (file[u] \in synced => file[u] \in synced')
    BY <1>2, <1>7 DEF Staging, AllFiles
  <2>2. \A u \in Writers : pc'[u] = "idle" => file'[u] = None
    BY <1>1 DEF Staging, Active
  <2>3. Linked' = Linked
    BY DEF Linked
  <2>4. \A u \in Writers : pc'[u] # "idle" =>
          /\ want'[u] \in Addresses /\ file'[u] \in Files
          /\ name'[u] \in StagingNames /\ staged'[name'[u]] = file'[u]
    BY <1>7, <2>1 DEF Staging
  <2>5. \A u, v \in Writers :
          pc'[u] # "idle" /\ pc'[v] # "idle" /\ file'[u] = file'[v] => u = v
    BY <1>7 DEF Staging
  <2>6. ASSUME NEW u \in Writers
         PROVE  /\ pc'[u] \in {"write", "sync", "mkdir", "syncdir", "link", "verify"} =>
                      file'[u] \notin Linked'
                /\ pc'[u] \in {"sync", "mkdir", "syncdir", "link"} =>
                      bytes'[file'[u]] = want'[u]
                /\ pc'[u] \in {"mkdir", "syncdir", "link"} => file'[u] \in synced'
    BY <1>7, <2>1, <2>3 DEF Staging
  <2> QED BY <2>2, <2>4, <2>5, <2>6 DEF Staging, Active
<1>9. Directories'
  <2>1. \A u \in Writers : pc'[u] \in {"syncobject", "return"} =>
           want[u] \in Addresses /\ object[want[u]] # None
    <3>1. ASSUME NEW u \in Writers, pc'[u] \in {"syncobject", "return"}
          PROVE  want[u] \in Addresses /\ Path[want[u]] \in entry
      BY <1>7, <3>1 DEF Staging, Directories, Objects
    <3> QED BY <3>1 DEF Objects
  <2>2. \A u \in Writers : pc'[u] \in {"syncobject", "return"} =>
           bytes'[object[want[u]]] = bytes[object[want[u]]]
    BY <1>4, <2>1
  <2>3. UNCHANGED <<durable, entry, object>>
    OBVIOUS
  <2>4. \A u \in Writers : pc'[u] = "idle" \/ pc'[u] \in Working
    BY <1>5 DEF TypeOK
  <2>5. ASSUME NEW u \in Writers, pc'[u] \in Working
        PROVE  /\ pc'[u] = pc[u] /\ want'[u] = want[u] /\ level'[u] = level[u]
               /\ pc[u] \in {"syncobject", "return"} =>
                     bytes'[object[want[u]]] = want[u]
    BY <1>7, <2>2, <2>5 DEF Directories, Working
  <2> QED BY <2>3, <2>4, <2>5 DEF Directories, Working
<1>10. Promises'
  <2>1. ASSUME NEW a \in promised' PROVE object[a] # None
    <3>1. a \in Addresses
      OBVIOUS
    <3>2. Path[a] \in durable
      BY <3>1, Steps
    <3> QED BY <3>1, <3>2 DEF Objects
  <2> QED BY <1>4, <2>1 DEF Promises
<1> QED BY <1>5, <1>6, <1>8, <1>9, <1>10

\* A staged file that is not linked any more is its writer's only.
LEMMA UnstageKeeps ==
  ASSUME Inv, NEW w \in Writers, Active(w), Unstage(w)
  PROVE  /\ staged' \in [StagingNames -> Files \cup {None}]
         /\ \A u \in Writers \ {w} : Active(u) =>
               staged'[name[u]] = staged[name[u]] /\ file[u] \notin {file[w]}
BY StoreAssumption DEF Inv, TypeOK, Staging, Unstage

LEMMA ReturnInv ==
  ASSUME Inv, NEW w \in Writers, Return(w) PROVE Inv'
<1>1. /\ Active(w) /\ End({w}) /\ Unstage(w) /\ Forget({file[w]})
      /\ UNCHANGED <<pid, entry, durable, object, damaged>>
      /\ promised' = promised \cup {want[w]} /\ pc[w] = "return"
  BY DEF Return, Unstage, Active
<1>2. /\ want[w] \in Addresses /\ bytes[object[want[w]]] = want[w]
      /\ \A i \in 1 .. Len(Path[want[w]]) - 1 : Step(want[w], i) \in durable
      /\ Path[want[w]] \in durable
  BY <1>1 DEF Inv, Staging, Directories
<1>3. \A i \in 1 .. Len(Path[want[w]]) : Step(want[w], i) \in durable
  <2>1. ASSUME NEW i \in 1 .. Len(Path[want[w]])
        PROVE  i \in 1 .. Len(Path[want[w]]) - 1 \/ i = Len(Path[want[w]])
    BY <1>2, Steps
  <2> QED BY <1>2, <2>1, Steps
<1>4. /\ promised' \subseteq Addresses
      /\ \A a \in promised' : /\ \A i \in 1 .. Len(Path[a]) : Step(a, i) \in durable
                              /\ bytes[object[a]] = a
  BY <1>1, <1>2, <1>3 DEF Inv, TypeOK, Promises
<1> QED BY <1>1, <1>4, UnstageKeeps, EndInv

LEMMA FailInv ==
  ASSUME Inv, NEW w \in Writers, Fail(w) PROVE Inv'
<1>1. /\ Active(w) /\ End({w}) /\ Unstage(w) /\ Forget({file[w]})
      /\ UNCHANGED <<pid, entry, durable, object, damaged>>
      /\ promised' = promised
  BY DEF Fail, Unstage, Active
<1>2. /\ promised' \subseteq Addresses
      /\ \A a \in promised' : /\ \A i \in 1 .. Len(Path[a]) : Step(a, i) \in durable
                              /\ bytes[object[a]] = a
  BY <1>1 DEF Inv, TypeOK, Promises
<1> QED BY <1>1, <1>2, UnstageKeeps, EndInv

LEMMA ProcessEndsInv ==
  ASSUME Inv, NEW p \in Pids, ProcessEnds(p) PROVE Inv'
<1> DEFINE threads == {w \in Writers : pid[w] = p}
           files == {file[w] : w \in {u \in Writers : pid[u] = p}}
<1>1. /\ End(threads) /\ Forget(files)
      /\ UNCHANGED <<pid, entry, durable, object, damaged>>
      /\ UNCHANGED <<staged, promised>>
  BY DEF ProcessEnds
<1>2. \A u \in Writers \ threads : Active(u) =>
         staged'[name[u]] = staged[name[u]] /\ file[u] \notin files
  <2>1. ASSUME NEW u \in Writers \ threads, Active(u), NEW w \in threads
        PROVE  file[u] # file[w]
    <3>1. CASE Active(w)
      BY <2>1, <3>1 DEF Inv, Staging
    <3>2. CASE ~Active(w)
      BY <2>1, <3>2, StoreAssumption DEF Inv, Staging
    <3> QED BY <3>1, <3>2
  <2> QED BY <1>1, <2>1
<1>3. threads \in SUBSET Writers
  OBVIOUS
<1>4. /\ promised' \subseteq Addresses
      /\ \A a \in promised' : /\ \A i \in 1 .. Len(Path[a]) : Step(a, i) \in durable
                              /\ bytes[object[a]] = a
      /\ staged' \in [StagingNames -> Files \cup {None}]
  BY <1>1 DEF Inv, TypeOK, Promises
<1> HIDE DEF threads, files
<1> QED BY <1>1, <1>2, <1>3, <1>4, EndInv

\* What is promised is durable with all that is above it, and an object that
\* is still an entry had its bytes durable before it was linked.
LEMMA PowerLossInv ==
  ASSUME Inv, PowerLoss PROVE Inv'
<1> USE StoreAssumption DEF Inv
<1>1. PICK kept \in SUBSET entry :
         durable \subseteq kept /\ entry' = {x \in kept : Reachable(x, kept)}
  BY DEF PowerLoss
<1>2. PICK lost \in SUBSET (Linked \ synced) :
         bytes' = [f \in AllFiles |->
                      IF f \in lost \cup (Files \ Linked) THEN Garbage
                      ELSE bytes[f]]
  BY DEF PowerLoss
<1>3. /\ durable' = entry' /\ entry' \subseteq entry
      /\ object' = [a \in Addresses |->
                       IF Path[a] \in entry' THEN object[a] ELSE None]
      /\ synced' = synced \cap Linked
      /\ UNCHANGED <<pid, staged, damaged, promised>>
  BY <1>1 DEF PowerLoss
<1>4. /\ pc' = [w \in Writers |-> "idle"]
      /\ want' = [w \in Writers |-> None] /\ name' = [w \in Writers |-> None]
      /\ file' = [w \in Writers |-> None] /\ level' = [w \in Writers |-> 0]
  BY DEF PowerLoss, End
<1>5. \A a \in Addresses : Path[a] \in entry' /\ object[a] \in Files =>
         /\ bytes[object[a]] = a /\ object[a] \in synced'
         /\ bytes'[object[a]] = a
  <2>1. ASSUME NEW a \in Addresses, Path[a] \in entry', object[a] \in Files
        PROVE  /\ bytes[object[a]] = a /\ object[a] \in synced'
               /\ bytes'[object[a]] = a
    <3>1. bytes[object[a]] = a /\ object[a] \in synced
      BY <2>1 DEF Objects
    <3>2. object[a] \in Linked /\ object[a] \in AllFiles
      BY <2>1 DEF Linked, AllFiles
    <3> QED BY <1>2, <1>3, <3>1, <3>2
  <2> QED BY <2>1
<1>6. TypeOK'
  BY <1>2, <1>3, <1>4 DEF TypeOK, Working
<1>7. Objects'
  <2>1. \A a \in Addresses : bytes'[a] = Garbage
    BY <1>2 DEF Objects, AllFiles
  <2>2. \A a \in Addresses : object'[a] # None =>
           Path[a] \in entry' /\ object'[a] = object[a]
    BY <1>3
  <2>3. \A a \in Addresses : Path[a] \in entry' =>
           object'[a] = object[a] /\ object[a] # None
    BY <1>3 DEF Objects
  <2>4. \A a \in Addresses : object'[a] \in Addresses => a \in damaged
    BY <1>3, <2>2 DEF Objects
  <2>5. \A a \in Addresses :
           object'[a] \in Files => bytes'[object'[a]] = a /\ object'[a] \in synced'
    BY <1>5, <2>2
  <2> QED BY <1>3, <2>1, <2>3, <2>4, <2>5 DEF Objects
<1>8. Staging' /\ Directories'
  BY <1>4 DEF Staging, Directories, Active
<1>9. Promises'
  <2>1. ASSUME NEW a \in promised
        PROVE  /\ \A i \in 1 .. Len(Path[a]) : Step(a, i) \in durable'
               /\ bytes'[object'[a]] = a
    <3>1. a \in Addresses /\ bytes[object[a]] = a
      BY DEF TypeOK, Promises
    <3>2. \A i \in 1 .. Len(Path[a]) : Step(a, i) \in kept
      BY <1>1 DEF Promises
    <3>3. \A i \in 1 .. Len(Path[a]) : Reachable(Step(a, i), kept)
      BY <3>1, <3>2, ReachableIfSteps
    <3>4. \A i \in 1 .. Len(Path[a]) : Step(a, i) \in entry'
      BY <1>1, <3>2, <3>3
    <3>5. Path[a] \in entry'
      BY <3>1, <3>4, Steps
    <3>6. object'[a] = object[a] /\ object[a] # None
      BY <1>3, <3>1, <3>5 DEF Objects
    <3>7. object[a] \in Files
      BY <3>1, <3>6 DEF TypeOK, Objects, AllFiles
    <3> QED BY <1>3, <1>5, <3>1, <3>4, <3>5, <3>6, <3>7
  <2> QED BY <1>3, <2>1 DEF Promises
<1> QED BY <1>6, <1>7, <1>8, <1>9

LEMMA NextInv ==
  ASSUME Inv, [Next]_vars PROVE Inv'
<1>1. CASE UNCHANGED vars
  <2>1. UNCHANGED <<pid, entry, durable, object, staged, bytes, synced, pc,
                    want, name, file, level, damaged, promised>>
    BY <1>1 DEF vars, disk, local
  <2> QED
    BY <2>1 DEF Inv, TypeOK, Objects, Staging, Directories, Promises, Active,
                Linked
<1>2. ASSUME NEW w \in Writers, Put(w) PROVE Inv'
  BY <1>2, CreateInv, WriteInv, SyncStagedInv, MakeDirectoryInv,
     SyncDirectoryInv, LinkInv, VerifyInv, SyncObjectInv, ReturnInv, FailInv
  DEF Put
<1>3. ASSUME NEW p \in Pids, ProcessEnds(p) PROVE Inv'
  BY <1>3, ProcessEndsInv
<1>4. CASE PowerLoss
  BY <1>4, PowerLossInv
<1> QED BY <1>1, <1>2, <1>3, <1>4 DEF Next

-----------------------------------------------------------------------------
(* The theorems.                                                            *)

\* Whatever the interleaving, the failures and the power losses: an object
\* is linked only when it is complete and durable, and the directories of
\* what was returned are durable (Store.cpp:85, :333).
THEOREM Invariance == Spec => []Inv
<1>1. Init => Inv
  BY InitInv
<1>2. Inv /\ [Next]_vars => Inv'
  BY NextInv
<1> QED BY <1>1, <1>2, PTL DEF Spec

\* A reader never finds another object's bytes or a part under an address
\* that was not damaged before (Store.cpp:318).
THEOREM Whole == Spec => []SeenIsWhole
<1>1. Inv => SeenIsWhole
  <2> SUFFICES ASSUME Inv, NEW a \in Addresses \ damaged, Reachable(Path[a], entry)
               PROVE  bytes[object[a]] = a
    BY DEF SeenIsWhole
  <2>1. Path[a] \in entry
    BY PathIfReachable
  <2>2. object[a] # None
    BY <2>1 DEF Inv, Objects
  <2> QED BY <2>2 DEF Inv, TypeOK, Objects, AllFiles
<1> QED BY <1>1, Invariance, PTL

-----------------------------------------------------------------------------
(* The store implements DurableStore.                                       *)

\* Entries are added and what can be read stays what it was: the store holds
\* what it held.
LEMMA HoldIfKept ==
  ASSUME Inv, entry \subseteq entry', promised' = promised,
         \A a \in Addresses : Path[a] \in entry /\ bytes[object[a]] = a =>
                                 bytes'[object'[a]] = a
  PROVE  Store!Hold
<1>1. ASSUME NEW a \in Addresses, Readable(a) PROVE Readable(a)'
  <2>1. Reachable(Path[a], entry')
    BY <1>1 DEF Readable, Reachable
  <2>2. Path[a] \in entry
    BY <1>1, PathIfReachable DEF Readable
  <2> QED BY <1>1, <2>1, <2>2 DEF Readable
<1> QED BY <1>1 DEF Store!Hold

\* An object that is an entry is linked, so that what is done to files that
\* are not linked leaves it as it is.
LEMMA KeptIfForgotten ==
  ASSUME Inv, NEW files, Forget(files), UNCHANGED <<entry, object>>
  PROVE  \A a \in Addresses :
            Path[a] \in entry => bytes'[object'[a]] = bytes[object[a]]
<1> SUFFICES ASSUME NEW a \in Addresses, Path[a] \in entry
             PROVE  bytes'[object'[a]] = bytes[object[a]]
  OBVIOUS
<1>1. object[a] \in Linked /\ object[a] \in AllFiles
  BY DEF Inv, TypeOK, Objects, Linked
<1> QED BY <1>1 DEF Forget

LEMMA PutHolds ==
  ASSUME Inv, NEW w \in Writers, Put(w), ~Return(w) PROVE Store!Hold
<1>1. CASE Create(w) \/ Write(w)
  <2>1. \A a \in Addresses : Path[a] \in entry =>
           object[a] \in Linked /\ object[a] \in AllFiles
    BY DEF Inv, TypeOK, Objects, Linked
  <2>2. PICK f \in Files : f \notin Linked /\ \E c : bytes' = [bytes EXCEPT ![f] = c]
    <3>1. CASE Create(w)
      <4> DEFINE f == CHOOSE x \in Files : x \notin InUse
      <4>1. f \in Files /\ f \notin InUse
        BY <3>1 DEF Create
      <4>2. bytes' = [bytes EXCEPT ![f] = Partial]
        BY <3>1 DEF Create
      <4> HIDE DEF f
      <4> QED BY <4>1, <4>2 DEF InUse
    <3>2. CASE Write(w)
      <4>1. bytes' = [bytes EXCEPT ![file[w]] = want[w]] /\ pc[w] = "write"
        BY <3>2 DEF Write
      <4>2. file[w] \in Files /\ file[w] \notin Linked
        BY <4>1 DEF Inv, Staging, Active
      <4> QED BY <4>1, <4>2
    <3> QED BY <1>1, <3>1, <3>2
  <2>3. UNCHANGED <<entry, object, promised>>
    BY <1>1 DEF Create, Write
  <2>4. \A a \in Addresses : Path[a] \in entry => bytes'[object'[a]] = bytes[object[a]]
    BY <2>1, <2>2, <2>3 DEF Inv, TypeOK
  <2> QED BY <2>3, <2>4, HoldIfKept
<1>2. CASE SyncStaged(w) \/ MakeDirectory(w) \/ SyncDirectory(w) \/ Verify(w)
           \/ SyncObject(w)
  <2>1. UNCHANGED <<object, bytes, promised>> /\ entry \subseteq entry'
    BY <1>2 DEF SyncStaged, MakeDirectory, SyncDirectory, Verify, SyncObject,
                disk
  <2> QED BY <2>1, HoldIfKept
<1>3. CASE Link(w)
  <2>1. UNCHANGED <<bytes, promised>> /\ entry \subseteq entry'
    BY <1>3 DEF Link
  <2>2. \A a \in Addresses : Path[a] \in entry => object'[a] = object[a]
    BY <1>3 DEF Link, Inv, TypeOK
  <2> QED BY <2>1, <2>2, HoldIfKept
<1>4. CASE Fail(w)
  <2>1. UNCHANGED <<entry, object, promised>> /\ Forget({file[w]})
    BY <1>4 DEF Fail, Unstage
  <2>2. \A a \in Addresses : Path[a] \in entry => bytes'[object'[a]] = bytes[object[a]]
    BY <2>1, KeptIfForgotten
  <2> QED BY <2>1, <2>2, HoldIfKept
<1> QED BY <1>1, <1>2, <1>3, <1>4 DEF Put

LEMMA ReturnPromises ==
  ASSUME Inv, NEW w \in Writers, Return(w) PROVE Store!Promise
<1>1. /\ UNCHANGED <<entry, object>> /\ Forget({file[w]})
      /\ promised' = promised \cup {want[w]} /\ pc[w] = "return"
  BY DEF Return, Unstage
<1>2. \A a \in Addresses : Path[a] \in entry => bytes'[object'[a]] = bytes[object[a]]
  BY <1>1, KeptIfForgotten
<1>3. ASSUME NEW a \in Addresses PROVE Readable(a)' <=> Readable(a)
  <2>1. CASE Path[a] \in entry
    BY <1>1, <1>2, <2>1 DEF Readable
  <2>2. CASE Path[a] \notin entry
    BY <1>1, <2>2, PathIfReachable DEF Readable
  <2> QED BY <2>1, <2>2
<1>4. want[w] \in Addresses /\ Readable(want[w])
  <2>1. /\ want[w] \in Addresses /\ bytes[object[want[w]]] = want[w]
        /\ \A i \in 1 .. Len(Path[want[w]]) - 1 : Step(want[w], i) \in entry
        /\ Path[want[w]] \in entry
    BY <1>1 DEF Inv, Staging, Directories, Active, Objects
  <2>2. ASSUME NEW i \in 1 .. Len(Path[want[w]])
        PROVE  Step(want[w], i) \in entry
    <3>1. i \in 1 .. Len(Path[want[w]]) - 1 \/ i = Len(Path[want[w]])
      BY <2>1, Steps
    <3> QED BY <2>1, <3>1, Steps
  <2> QED BY <2>1, <2>2, ReachableIfSteps DEF Readable
<1> QED BY <1>1, <1>3, <1>4 DEF Store!Promise

LEMMA PowerLossFails ==
  ASSUME Inv, Inv', PowerLoss PROVE Store!Fail
<1>1. PICK lost \in SUBSET (Linked \ synced) :
         bytes' = [f \in AllFiles |->
                      IF f \in lost \cup (Files \ Linked) THEN Garbage
                      ELSE bytes[f]]
  BY DEF PowerLoss
<1>2. /\ durable' = entry' /\ entry' \subseteq entry
      /\ object' = [a \in Addresses |->
                       IF Path[a] \in entry' THEN object[a] ELSE None]
      /\ UNCHANGED promised
  BY DEF PowerLoss
<1>3. ASSUME NEW a \in Addresses, Readable(a)' PROVE Readable(a)
  <2>1. Reachable(Path[a], entry') /\ bytes'[object'[a]] = a
    BY <1>3 DEF Readable
  <2>2. Path[a] \in entry' /\ Reachable(Path[a], entry)
    BY <1>2, <2>1, PathIfReachable DEF Reachable
  <2>3. object'[a] = object[a] /\ object[a] \in AllFiles
    BY <1>2, <2>2 DEF Inv, TypeOK, Objects
  <2>4. bytes'[object[a]] = bytes[object[a]]
    BY <1>1, <2>1, <2>3, StoreAssumption
  <2> QED BY <2>1, <2>2, <2>3, <2>4 DEF Readable
<1>4. ASSUME NEW a \in promised PROVE a \in Addresses /\ Readable(a)'
  <2>1. a \in Addresses /\ a \in promised'
    BY <1>2 DEF Inv, TypeOK
  <2>2. bytes'[object'[a]] = a /\ \A i \in 1 .. Len(Path[a]) : Step(a, i) \in entry'
    BY <1>2, <2>1 DEF Inv, Promises
  <2>3. Reachable(Path[a], entry')
    BY <2>1, <2>2, ReachableIfSteps
  <2> QED BY <2>1, <2>2, <2>3 DEF Readable
<1> QED BY <1>2, <1>3, <1>4 DEF Store!Fail

LEMMA StepRefines ==
  ASSUME Inv, Inv', [Next]_vars PROVE [Store!Next]_(Store!vars)
<1>1. CASE UNCHANGED vars
  <2>1. UNCHANGED <<entry, object, bytes, promised>>
    BY <1>1 DEF vars, disk
  <2> QED BY <2>1 DEF Store!vars, Readable
<1>2. ASSUME NEW w \in Writers, Put(w) PROVE Store!Next
  BY <1>2, PutHolds, ReturnPromises DEF Store!Next
<1>3. ASSUME NEW p \in Pids, ProcessEnds(p) PROVE Store!Next
  <2>1. PICK files : Forget(files) /\ UNCHANGED <<entry, object, promised>>
    BY <1>3 DEF ProcessEnds
  <2>2. \A a \in Addresses : Path[a] \in entry => bytes'[object'[a]] = bytes[object[a]]
    BY <2>1, KeptIfForgotten
  <2> QED BY <2>1, <2>2, HoldIfKept DEF Store!Next
<1>4. CASE PowerLoss
  BY <1>4, PowerLossFails DEF Store!Next
<1> QED BY <1>1, <1>2, <1>3, <1>4 DEF Next

\* The store keeps what it promises: an address that Put returned can be
\* read for ever, through any failure of a call, end of a process and power
\* loss, although its directories may be another writer's (Store.cpp:85).
THEOREM Refinement == Spec => ImplementsDurableStore
<1>1. Init => Store!Init
  BY DEF Init, Store!Init
<1>2. Inv /\ Inv' /\ [Next]_vars => [Store!Next]_(Store!vars)
  BY StepRefines
<1> QED BY <1>1, <1>2, Invariance, PTL DEF Spec, Store!Spec, ImplementsDurableStore

=============================================================================
