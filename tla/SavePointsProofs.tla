-------------------------- MODULE SavePointsProofs --------------------------
(***************************************************************************)
(* Proofs about SavePoints, for any packages, names and patches and any    *)
(* number of save points: what is written lists every branch it holds, no  *)
(* command changes a branch it is not about, and no package is lost.       *)
(***************************************************************************)
EXTENDS SavePoints, FiniteSetTheorems, SequenceTheorems, WellFoundedInduction,
        NaturalsInduction, TLAPS

\* Every branch has an ID that has been given out.
Fresh(pkg) == \A b \in DOMAIN pkg.folder : b < nextID

\* A package that lists its branches, each once, and can be opened.
Complete(pkg) == LET ids == [i \in DOMAIN pkg.list |-> pkg.list[i].id]
                 IN  /\ IsInjective(ids) /\ ToSet(ids) = DOMAIN pkg.folder
                     /\ OpenPackage(pkg, None) # None

Commands == {"saveas", "replace", "new", "import"}
Jobs == [op : Commands, path : Packages, package : Contents, step : {"write"}]
        \cup [op : Commands, path : Packages, package : Contents, step : {"aside"},
              old : Contents]

Typed == /\ file \in [Packages -> Contents \cup {NoFile}]
         /\ aside \in [Packages -> SUBSET Contents]
         /\ text \in Patches \cup {NoFile} /\ live \in Patches
         /\ nextID \in FirstID..FirstID + MaxIDs
         /\ job = None \/ job \in Jobs

\* What lies at a path lists its branches.
Files == \A p \in Packages :
            file[p] # NoFile => Intact(file[p]) /\ Fresh(file[p])

\* What is being written lists them all; what was set aside for it is there.
Writing ==
    job # None =>
        /\ Complete(job.package) /\ Fresh(job.package)
        /\ job.step = "aside" =>
              /\ file[job.path] = NoFile /\ job.old \in aside[job.path]
              /\ Intact(job.old) /\ Fresh(job.old)

IInv == Typed /\ Files /\ Writing

-----------------------------------------------------------------------------
(* Looking for a branch.                                                   *)

\* Every nonempty set of naturals has a least element.
LEMMA LeastNat ==
    ASSUME NEW T \in SUBSET Nat, T # {}
    PROVE  \E x \in T : \A y \in T : x <= y
<1>1. PICK x \in T : \A y \in T : ~ (<<y, x>> \in OpToRel(<, Nat))
  BY NatLessThanWellFounded, WFMin
<1>2. \A y \in T : x <= y
  <2> SUFFICES ASSUME NEW y \in T
               PROVE  x <= y
    OBVIOUS
  <2>1. ~(y < x)
    BY <1>1 DEF OpToRel
  <2> QED  BY <2>1
<1> QED  BY <1>1, <1>2

\* The first branch of a list with an ID, and with a name; 0 if there is none.
ByID(list, id) == SelectInSeq(list, LAMBDA b : b.id = id)
ByName(list, name) == SelectInSeq(list, LAMBDA b : b.name = name)

LEMMA ByIDIs ==
    ASSUME NEW list \in Listings, NEW id
    PROVE  /\ ByID(list, id) \in 0..Len(list)
           /\ ByID(list, id) # 0 => list[ByID(list, id)].id = id
           /\ ByID(list, id) = 0 => \A i \in 1..Len(list) : list[i].id # id
<1> DEFINE found == {i \in 1..Len(list) : list[i].id = id}
<1>1. ByID(list, id) = IF found # {} THEN Min(found) ELSE 0
  BY DEF ByID, SelectInSeq
<1>2. found \in SUBSET Nat /\ found \subseteq 1..Len(list)
  BY DEF Listings
<1>3. ASSUME found # {} PROVE Min(found) \in found
  <2> HIDE DEF found
  <2> QED BY <1>2, <1>3, LeastNat DEF Min
<1>4. Len(list) \in Nat
  BY DEF Listings
<1> QED
  BY <1>1, <1>2, <1>3, <1>4

LEMMA ByNameIs ==
    ASSUME NEW list \in Listings, NEW name
    PROVE  /\ ByName(list, name) \in 0..Len(list)
           /\ ByName(list, name) # 0 => list[ByName(list, name)].name = name
           /\ ByName(list, name) = 0 => \A i \in 1..Len(list) : list[i].name # name
<1> DEFINE found == {i \in 1..Len(list) : list[i].name = name}
<1>1. ByName(list, name) = IF found # {} THEN Min(found) ELSE 0
  BY DEF ByName, SelectInSeq
<1>2. found \in SUBSET Nat /\ found \subseteq 1..Len(list)
  BY DEF Listings
<1>3. ASSUME found # {} PROVE Min(found) \in found
  <2> HIDE DEF found
  <2> QED BY <1>2, <1>3, LeastNat DEF Min
<1>4. Len(list) \in Nat
  BY DEF Listings
<1> QED
  BY <1>1, <1>2, <1>3, <1>4

LEMMA FindIsByID ==
    /\ \A n, id : Find(n, id) = ByID(n.list, id)
    /\ \A n, name : FindByName(n, name) = ByName(n.list, name)
BY DEF Find, FindByName, ByID, ByName, SelectInSeq

LEMMA OpenIs ==
    ASSUME NEW pkg, NEW branch
    PROVE  OpenPackage(pkg, branch) =
             LET id == IF branch = None THEN pkg.current ELSE branch
                 i == ByID(pkg.list, id)
             IN  IF i = 0 \/ id \notin DOMAIN pkg.folder THEN None
                 ELSE Identity(id, pkg.list[i].name, pkg.list)
BY DEF OpenPackage, ByID, SelectInSeq

-----------------------------------------------------------------------------
(* What the operations on an identity do to its list.                      *)

\* Every ID is listed once; the IDs that are listed.
Once(list) == \A i, j \in 1..Len(list) : list[i].id = list[j].id => i = j
ListedIDs(list) == {list[i].id : i \in 1..Len(list)}

\* What SetToSeq gives for a finite set.
LEMMA SetToSeqIs ==
    ASSUME NEW S, IsFiniteSet(S)
    PROVE  /\ SetToSeq(S) \in Seq(S) /\ IsInjective(SetToSeq(S))
           /\ \A x \in S : \E i \in 1..Len(SetToSeq(S)) : SetToSeq(S)[i] = x
<1> DEFINE n == Cardinality(S)
<1>1. n \in Nat /\ ExistsBijection(1..n, S)
  BY FS_CardinalityType
<1>2. PICK g \in [1..n -> S] : IsInjective(g)
  BY <1>1 DEF ExistsBijection, Bijection, Injection
<1>3. SetToSeq(S) \in [1..n -> S] /\ IsInjective(SetToSeq(S))
  BY <1>2 DEF SetToSeq
<1>4. SetToSeq(S) \in Injection(1..n, S)
  BY <1>3 DEF Injection
<1>5. Cardinality(1..n) = n
  BY <1>1, FS_Interval
<1>6. SetToSeq(S) \in Surjection(1..n, S)
  BY <1>4, <1>5, FS_Injection
<1>7. SetToSeq(S) \in Seq(S) /\ Len(SetToSeq(S)) = n
  BY <1>1, <1>3
<1> QED
  BY <1>3, <1>6, <1>7 DEF Surjection

\* A list with one branch renamed.
LEMMA RenamedIs ==
    ASSUME NEW list \in Listings, NEW i \in 1..Len(list), NEW name \in Titles
    PROVE  LET after == [list EXCEPT ![i].name = name]
           IN  /\ after \in Listings /\ Len(after) = Len(list)
               /\ \A j \in 1..Len(list) :
                     /\ after[j].id = list[j].id
                     /\ after[j].name = IF j = i THEN name ELSE list[j].name
<1> DEFINE branch == [list[i] EXCEPT !.name = name]
           after == [list EXCEPT ![i] = branch]
<1>1. list[i] \in Branches
  BY DEF Listings
<1>2. branch \in Branches /\ branch.id = list[i].id /\ branch.name = name
  BY <1>1 DEF Branches
<1> HIDE DEF branch
<1>3. /\ after \in Listings /\ Len(after) = Len(list)
      /\ \A j \in 1..Len(list) : after[j] = IF j = i THEN branch ELSE list[j]
  BY <1>2 DEF Listings
<1> QED
  BY <1>2, <1>3 DEF branch

\* A branch put behind a list.
LEMMA AppendedIs ==
    ASSUME NEW list \in Listings, NEW b \in Branches
    PROVE  LET after == Append(list, b)
           IN  /\ after \in Listings
               /\ ListedIDs(after) = ListedIDs(list) \cup {b.id}
               /\ Once(list) /\ b.id \notin ListedIDs(list) => Once(after)
<1> DEFINE after == Append(list, b)
<1>1. list \in Seq(Branches) /\ Len(list) \in Nat
  BY DEF Listings
<1>2. /\ after \in Listings /\ Len(after) = Len(list) + 1
      /\ after[Len(list) + 1] = b /\ \A j \in 1..Len(list) : after[j] = list[j]
  BY <1>1 DEF Listings
<1> HIDE DEF after
<1>3. ListedIDs(after) = ListedIDs(list) \cup {b.id}
  <2>1. ASSUME NEW j \in 1..Len(after) PROVE after[j].id \in ListedIDs(list) \cup {b.id}
    BY <1>1, <1>2, <2>1 DEF ListedIDs
  <2>2. ASSUME NEW j \in 1..Len(list) PROVE list[j].id \in ListedIDs(after)
    BY <1>1, <1>2, <2>2 DEF ListedIDs
  <2>3. b.id \in ListedIDs(after)
    BY <1>1, <1>2 DEF ListedIDs
  <2> QED
    BY <2>1, <2>2, <2>3 DEF ListedIDs
<1>4. ASSUME Once(list), b.id \notin ListedIDs(list) PROVE Once(after)
  <2> SUFFICES ASSUME NEW i \in 1..Len(after), NEW j \in 1..Len(after),
                      after[i].id = after[j].id
               PROVE  i = j
    BY DEF Once
  <2>1. CASE i <= Len(list) /\ j <= Len(list)
    BY <1>1, <1>2, <1>4, <2>1 DEF Once
  <2>2. CASE i = Len(list) + 1 \/ j = Len(list) + 1
    BY <1>1, <1>2, <1>4, <2>2 DEF ListedIDs
  <2> QED
    BY <1>1, <1>2, <2>1, <2>2
<1> QED
  BY <1>2, <1>3, <1>4 DEF after

\* EnsureActiveListed keeps the list, but for the name of the active branch,
\* or puts that branch behind it.
LEMMA EnsureIs ==
    ASSUME NEW n \in Identities
    PROVE  LET m == EnsureActiveListed(n)
               i == ByID(n.list, n.active)
           IN  /\ m \in Identities /\ m.active = n.active /\ m.name = n.name
               /\ i # 0 => /\ Len(m.list) = Len(n.list)
                           /\ \A j \in 1..Len(n.list) :
                                /\ m.list[j].id = n.list[j].id
                                /\ m.list[j].name = IF j = i /\ n.name # Unnamed
                                                    THEN n.name ELSE n.list[j].name
               /\ i = 0 => m.list = Append(n.list, Branch(n.active, n.name))
<1> DEFINE i == ByID(n.list, n.active)
           m == EnsureActiveListed(n)
<1>1. /\ n.list \in Listings /\ n.active \in IDs /\ n.name \in Titles
      /\ i \in 0..Len(n.list) /\ Find(n, n.active) = i
  BY ByIDIs, FindIsByID DEF Identities
<1>2. CASE i = 0
  <2>1. m = [n EXCEPT !.list = Append(@, Branch(n.active, n.name))]
    BY <1>1, <1>2 DEF EnsureActiveListed
  <2>2. Append(n.list, Branch(n.active, n.name)) \in Listings
    BY <1>1 DEF Listings, Branch, Branches
  <2> QED
    BY <1>2, <2>1, <2>2 DEF Identities
<1>3. CASE i # 0 /\ n.name = Unnamed
  BY <1>1, <1>3 DEF EnsureActiveListed
<1>4. CASE i # 0 /\ n.name # Unnamed
  <2>1. m = [n EXCEPT !.list[i].name = n.name]
    BY <1>1, <1>4 DEF EnsureActiveListed
  <2> HIDE DEF m, i
  <2>2. i \in 1..Len(n.list)
    BY <1>1, <1>4 DEF Listings
  <2> DEFINE list == [n.list EXCEPT ![i].name = n.name]
  <2>3. /\ list \in Listings /\ Len(list) = Len(n.list)
        /\ \A j \in 1..Len(n.list) :
             /\ list[j].id = n.list[j].id
             /\ list[j].name = IF j = i THEN n.name ELSE n.list[j].name
    BY <1>1, <2>2, RenamedIs
  <2>4. m = [n EXCEPT !.list = list]
    BY <2>1
  <2> HIDE DEF list
  <2>5. m.list = list /\ m.active = n.active /\ m.name = n.name /\ m \in Identities
    BY <2>3, <2>4 DEF Identities
  <2> QED
    BY <1>4, <2>3, <2>5 DEF m, i
<1> QED
  BY <1>2, <1>3, <1>4

\* AdoptUnlisted puts the unlisted folders behind the list, without a name.
LEMMA AdoptIs ==
    ASSUME NEW n \in Identities, NEW ids \in SUBSET IDs
    PROVE  LET m == AdoptUnlisted(n, ids)
           IN  /\ m \in Identities /\ m.active = n.active /\ m.name = n.name
               /\ Len(m.list) >= Len(n.list)
               /\ \A j \in 1..Len(m.list) :
                     IF j <= Len(n.list) THEN m.list[j] = n.list[j]
                     ELSE m.list[j].name = Unnamed
               /\ Once(n.list) => Once(m.list)
               /\ ListedIDs(m.list) = ListedIDs(n.list) \cup ids
<1> DEFINE rest == ids \ ListedIDs(n.list)
           new == SetToSeq(rest)
           tail == [i \in DOMAIN new |-> Branch(new[i], Unnamed)]
           list == n.list \o tail
           m == AdoptUnlisted(n, ids)
<1>1. n.list \in Listings /\ n.active \in IDs /\ n.name \in Titles
      /\ DOMAIN n.list = 1..Len(n.list) /\ Len(n.list) \in Nat
  BY DEF Identities, Listings
<1>2. m = [n EXCEPT !.list = list]
  BY <1>1 DEF AdoptUnlisted, ListedIDs
<1>3. IsFiniteSet(rest)
  <2>1. IsFiniteSet(IDs)
    BY SavePointAssumption, FS_Interval DEF IDs
  <2> QED
    BY <2>1, FS_Subset
<1>4. /\ new \in Seq(rest) /\ IsInjective(new)
      /\ \A x \in rest : \E i \in 1..Len(new) : new[i] = x
  BY <1>3, SetToSeqIs
<1> HIDE DEF rest, new
<1>5. rest \subseteq IDs /\ rest \cap ListedIDs(n.list) = {}
      /\ ListedIDs(n.list) \cup rest = ListedIDs(n.list) \cup ids
  BY DEF rest
<1>6. /\ Len(new) \in Nat /\ DOMAIN new = 1..Len(new)
      /\ \A i \in 1..Len(new) : new[i] \in rest
  BY <1>4
<1>7. /\ tail \in Listings /\ Len(tail) = Len(new)
      /\ \A i \in 1..Len(new) : tail[i].id = new[i] /\ tail[i].name = Unnamed
  <2>1. \A i \in 1..Len(new) : /\ tail[i] \in Branches
                               /\ tail[i].id = new[i] /\ tail[i].name = Unnamed
    BY <1>5, <1>6 DEF Branch, Branches, Titles
  <2>2. DOMAIN tail = 1..Len(new) /\ tail = [i \in 1..Len(new) |-> tail[i]]
    BY <1>6
  <2> HIDE DEF tail
  <2>3. tail \in [1..Len(new) -> Branches]
    BY <2>1, <2>2
  <2>4. tail \in Listings /\ Len(tail) = Len(new)
    BY <1>6, <2>3 DEF Listings
  <2> QED
    BY <2>1, <2>4
<1> HIDE DEF tail
<1>8. /\ list \in Listings /\ Len(list) = Len(n.list) + Len(new)
      /\ \A j \in 1..Len(n.list) + Len(new) :
            list[j] = IF j <= Len(n.list) THEN n.list[j] ELSE tail[j - Len(n.list)]
  <2>1. n.list \in Seq(Branches) /\ tail \in Seq(Branches)
    BY <1>1, <1>7 DEF Listings
  <2>2. /\ list \in Seq(Branches) /\ Len(list) = Len(n.list) + Len(tail)
        /\ \A j \in 1..Len(n.list) + Len(tail) :
              list[j] = IF j <= Len(n.list) THEN n.list[j] ELSE tail[j - Len(n.list)]
    BY <2>1, ConcatProperties
  <2> QED
    BY <1>7, <2>2 DEF Listings
<1> HIDE DEF list
<1>9. m \in Identities /\ m.active = n.active /\ m.name = n.name /\ m.list = list
  BY <1>2, <1>8 DEF Identities
<1>10. \A j \in 1..Len(list) :
          IF j <= Len(n.list) THEN list[j] = n.list[j] ELSE list[j].name = Unnamed
  BY <1>1, <1>6, <1>7, <1>8
<1>11. ASSUME Once(n.list) PROVE Once(list)
  <2> SUFFICES ASSUME NEW i \in 1..Len(list), NEW j \in 1..Len(list),
                      list[i].id = list[j].id
               PROVE  i = j
    BY DEF Once
  <2>1. \A k \in 1..Len(list) :
           \/ /\ k <= Len(n.list) /\ k \in 1..Len(n.list)
              /\ list[k].id = n.list[k].id
              /\ list[k].id \in ListedIDs(n.list)
           \/ /\ k > Len(n.list) /\ k - Len(n.list) \in 1..Len(new)
              /\ list[k].id = new[k - Len(n.list)]
              /\ list[k].id \in rest
    <3> SUFFICES ASSUME NEW k \in 1..Len(list)
                 PROVE  \/ /\ k <= Len(n.list) /\ k \in 1..Len(n.list)
                           /\ list[k].id = n.list[k].id
                           /\ list[k].id \in ListedIDs(n.list)
                        \/ /\ k > Len(n.list) /\ k - Len(n.list) \in 1..Len(new)
                           /\ list[k].id = new[k - Len(n.list)]
                           /\ list[k].id \in rest
      OBVIOUS
    <3>1. CASE k <= Len(n.list)
      BY <1>1, <1>6, <1>8, <3>1 DEF ListedIDs
    <3>2. CASE k > Len(n.list)
      <4>1. k - Len(n.list) \in 1..Len(new) /\ list[k] = tail[k - Len(n.list)]
        BY <1>1, <1>6, <1>8, <3>2
      <4> QED
        BY <1>6, <1>7, <3>2, <4>1
    <3> QED
      BY <1>1, <1>6, <1>8, <3>1, <3>2
  <2>2. CASE i <= Len(n.list) /\ j <= Len(n.list)
    BY <1>11, <1>1, <2>1, <2>2 DEF Once
  <2>3. CASE i > Len(n.list) /\ j > Len(n.list)
    <3>1. i - Len(n.list) = j - Len(n.list)
      <4>1. \A k \in {i, j} : /\ k - Len(n.list) \in 1..Len(new)
                             /\ list[k].id = new[k - Len(n.list)]
        BY <1>1, <1>8, <2>1, <2>3
      <4>2. \A a, b \in 1..Len(new) : new[a] = new[b] => a = b
        BY <1>4, <1>6 DEF IsInjective
      <4>3. new[i - Len(n.list)] = new[j - Len(n.list)]
        BY <4>1
      <4> QED
        BY <4>1, <4>2, <4>3
    <3> QED
      BY <1>1, <3>1
  <2> QED
    BY <1>1, <1>5, <2>1, <2>2, <2>3
<1>12. ListedIDs(list) = ListedIDs(n.list) \cup rest
  <2>1. ASSUME NEW i \in 1..Len(list) PROVE list[i].id \in ListedIDs(n.list) \cup rest
    BY <1>1, <1>6, <1>7, <1>8, <2>1 DEF ListedIDs
  <2>2. ASSUME NEW i \in 1..Len(n.list) PROVE n.list[i].id \in ListedIDs(list)
    BY <1>1, <1>6, <1>8, <2>2 DEF ListedIDs
  <2>3. ASSUME NEW x \in rest PROVE x \in ListedIDs(list)
    <3>1. PICK i \in 1..Len(new) : new[i] = x
      BY <1>4
    <3>2. Len(n.list) + i \in 1..Len(list) /\ list[Len(n.list) + i].id = x
      BY <1>1, <1>6, <1>7, <1>8, <3>1
    <3> QED
      BY <3>2 DEF ListedIDs
  <2> QED
    BY <2>1, <2>2, <2>3 DEF ListedIDs
<1> QED
  BY <1>1, <1>5, <1>6, <1>8, <1>9, <1>10, <1>11, <1>12

-----------------------------------------------------------------------------
(* Packages: what Intact and Complete say of the list.                     *)

LEMMA ContentsAre ==
    ASSUME NEW pkg \in Contents
    PROVE  /\ pkg.list \in Listings /\ pkg.current \in IDs
           /\ DOMAIN pkg.folder \in SUBSET IDs
           /\ \A b \in DOMAIN pkg.folder : pkg.folder[b] \in Payloads
           /\ pkg.objects \in SUBSET Objects
BY DEF Contents

LEMMA IntactIs ==
    ASSUME NEW pkg \in Contents
    PROVE  Intact(pkg) <=>
             Once(pkg.list) /\ ListedIDs(pkg.list) \subseteq DOMAIN pkg.folder
<1>1. DOMAIN pkg.list = 1..Len(pkg.list)
  BY ContentsAre DEF Listings
<1> QED
  BY <1>1 DEF Intact, Once, ListedIDs, IsInjective, ToSet

LEMMA ListedIsFound ==
    ASSUME NEW list \in Listings, NEW id
    PROVE  id \in ListedIDs(list) <=> ByID(list, id) # 0
<1>1. Len(list) \in Nat
  BY DEF Listings
<1> QED
  BY <1>1, ByIDIs DEF ListedIDs

LEMMA CompleteIs ==
    ASSUME NEW pkg \in Contents, Once(pkg.list),
           ListedIDs(pkg.list) = DOMAIN pkg.folder, pkg.current \in DOMAIN pkg.folder
    PROVE  Complete(pkg)
<1>1. DOMAIN pkg.list = 1..Len(pkg.list) /\ pkg.list \in Listings
  BY ContentsAre DEF Listings
<1> DEFINE i == ByID(pkg.list, pkg.current)
<1>2. i \in 1..Len(pkg.list)
  BY <1>1, ListedIsFound, ByIDIs
<1>3. OpenPackage(pkg, None) = Identity(pkg.current, pkg.list[i].name, pkg.list)
  BY <1>2, OpenIs
<1> HIDE DEF i
<1>4. Identity(pkg.current, pkg.list[i].name, pkg.list) \in Identities
  <2>1. pkg.list[i] \in Branches
    BY <1>1, <1>2 DEF Listings
  <2>2. pkg.list[i].name \in Titles
    BY <2>1 DEF Branches
  <2> QED
    BY <1>1, <2>2, ContentsAre DEF Identity, Identities
<1> QED
  BY <1>1, <1>3, <1>4, FilesAssumption
     DEF Complete, Once, ListedIDs, IsInjective, ToSet

\* What is opened is an identity with the package's list and a listed branch.
LEMMA OpenedIs ==
    ASSUME NEW pkg \in Contents, NEW branch, OpenPackage(pkg, branch) # None
    PROVE  LET n == OpenPackage(pkg, branch)
           IN  /\ n \in Identities /\ n.list = pkg.list
               /\ n.active = IF branch = None THEN pkg.current ELSE branch
               /\ n.active \in ListedIDs(pkg.list) /\ n.active \in DOMAIN pkg.folder
               /\ n.name = pkg.list[ByID(pkg.list, n.active)].name
<1> DEFINE id == IF branch = None THEN pkg.current ELSE branch
           i == ByID(pkg.list, id)
<1>1. i # 0 /\ id \in DOMAIN pkg.folder
      /\ OpenPackage(pkg, branch) = Identity(id, pkg.list[i].name, pkg.list)
  BY OpenIs
<1> HIDE DEF id
<1>2. pkg.list \in Listings /\ id \in IDs
  BY <1>1, ContentsAre
<1>3. i \in 1..Len(pkg.list)
  BY <1>1, <1>2, ByIDIs
<1> HIDE DEF i
<1>4. pkg.list[i].name \in Titles
  <2>1. pkg.list[i] \in Branches
    BY <1>2, <1>3 DEF Listings
  <2> QED
    BY <2>1 DEF Branches
<1> QED
  BY <1>1, <1>2, <1>4, ListedIsFound DEF Identity, Identities, id, i

-----------------------------------------------------------------------------
(* What a write begins with and what it writes.                            *)

\* Listed keeps the list and its names, but for the name of the active
\* branch, and lists that branch and every folder behind it.
LEMMA ListedIs ==
    ASSUME NEW n \in Identities, NEW ids \in SUBSET IDs, NEW path \in Packages
    PROVE  LET m == Listed(n, ids, path)
               i == ByID(n.list, n.active)
           IN  /\ m \in Identities /\ m.active = n.active
               /\ m.name = IF n.name = Unnamed THEN BaseName[path] ELSE n.name
               /\ Once(n.list) => Once(m.list)
               /\ ListedIDs(m.list) = ListedIDs(n.list) \cup {n.active} \cup ids
               /\ i # 0 => \A j \in 1..Len(m.list) :
                     IF j <= Len(n.list)
                     THEN /\ m.list[j].id = n.list[j].id
                          /\ m.list[j].name = IF j = i THEN m.name ELSE n.list[j].name
                     ELSE m.list[j].name = Unnamed
<1> DEFINE i == ByID(n.list, n.active)
           named == [n EXCEPT !.name = IF @ = Unnamed THEN BaseName[path] ELSE @]
           ensured == EnsureActiveListed(named)
           m == AdoptUnlisted(ensured, ids)
<1>1. /\ n.list \in Listings /\ Len(n.list) \in Nat /\ n.active \in IDs
      /\ n.name \in Titles
  BY DEF Identities, Listings
<1>2. /\ named \in Identities /\ named.active = n.active /\ named.list = n.list
      /\ named.name = IF n.name = Unnamed THEN BaseName[path] ELSE n.name
      /\ named.name # Unnamed
  BY <1>1, SavePointAssumption DEF Identities, Titles
<1> HIDE DEF named
<1>3. /\ ensured \in Identities /\ ensured.active = n.active
      /\ ensured.name = named.name
      /\ i # 0 => /\ Len(ensured.list) = Len(n.list)
                  /\ \A j \in 1..Len(n.list) :
                        /\ ensured.list[j].id = n.list[j].id
                        /\ ensured.list[j].name = IF j = i THEN named.name
                                                  ELSE n.list[j].name
      /\ i = 0 => ensured.list = Append(n.list, Branch(n.active, named.name))
  BY <1>2, EnsureIs
<1> HIDE DEF ensured
<1>4. i \in 0..Len(n.list) /\ (i # 0 => n.list[i].id = n.active)
      /\ (i = 0 => \A j \in 1..Len(n.list) : n.list[j].id # n.active)
  BY <1>1, ByIDIs
<1> HIDE DEF i
<1>5. /\ Once(n.list) => Once(ensured.list)
      /\ ListedIDs(ensured.list) = ListedIDs(n.list) \cup {n.active}
  <2>1. CASE i # 0
    BY <1>1, <1>3, <1>4, <2>1 DEF Once, ListedIDs
  <2>2. CASE i = 0
    <3> DEFINE new == Branch(n.active, named.name)
    <3>1. new \in Branches /\ new.id = n.active
      BY <1>1, <1>2 DEF Branch, Branches, Identities
    <3> HIDE DEF new
    <3>2. n.active \notin ListedIDs(n.list)
      BY <1>4, <2>2 DEF ListedIDs
    <3> QED
      BY <1>1, <1>3, <2>2, <3>1, <3>2, AppendedIs DEF new
  <2> QED
    BY <2>1, <2>2
<1>6. /\ m \in Identities /\ m.active = ensured.active /\ m.name = ensured.name
      /\ \A j \in 1..Len(m.list) :
            IF j <= Len(ensured.list) THEN m.list[j] = ensured.list[j]
            ELSE m.list[j].name = Unnamed
      /\ Len(m.list) >= Len(ensured.list)
      /\ Once(ensured.list) => Once(m.list)
      /\ ListedIDs(m.list) = ListedIDs(ensured.list) \cup ids
  BY <1>3, AdoptIs
<1> HIDE DEF m
<1>7. ASSUME i # 0, NEW j \in 1..Len(m.list)
      PROVE  IF j <= Len(n.list)
             THEN /\ m.list[j].id = n.list[j].id
                  /\ m.list[j].name = IF j = i THEN m.name ELSE n.list[j].name
             ELSE m.list[j].name = Unnamed
  BY <1>1, <1>3, <1>6, <1>7
<1>8. Listed(n, ids, path) = m
  BY DEF Listed, m, ensured, named
<1> QED
  BY <1>2, <1>3, <1>5, <1>6, <1>7, <1>8 DEF i

\* The branch that replacing a save point goes to: the first of that name.
LEMMA ActivatedIs ==
    ASSUME NEW n \in Identities, NEW name \in Titles, ActivateNamed(n, name) # None
    PROVE  LET m == ActivateNamed(n, name)
           IN  /\ m \in Identities /\ m.list = n.list
               /\ m.active \in ListedIDs(n.list)
               /\ \E i \in 1..Len(n.list) : n.list[i].name = name
                                            /\ m.active = n.list[i].id
<1> DEFINE i == FindByName(n, name)
<1>1. n.list \in Listings /\ Len(n.list) \in Nat
  BY DEF Identities, Listings
<1>2. i \in 0..Len(n.list) /\ (i # 0 => n.list[i].name = name)
  BY <1>1, FindIsByID, ByNameIs
<1>3. i # 0 /\ ActivateNamed(n, name) = [n EXCEPT !.active = n.list[i].id, !.name = name]
  BY DEF ActivateNamed
<1> HIDE DEF i
<1>4. i \in 1..Len(n.list)
  BY <1>1, <1>2, <1>3
<1>5. n.list[i] \in Branches
  BY <1>1, <1>4 DEF Listings
<1>6. n.list[i].id \in IDs
  BY <1>5 DEF Branches
<1> QED
  BY <1>2, <1>3, <1>4, <1>6 DEF Identities, ListedIDs

\* A new save point is listed behind the others.
LEMMA ForkIs ==
    ASSUME NEW n \in Identities, NEW name \in Titles, NEW id \in IDs,
           Fork(n, name, id) # None
    PROVE  LET m == Fork(n, name, id)
           IN  /\ m \in Identities /\ m.active = id
               /\ ListedIDs(m.list) = ListedIDs(n.list) \cup {id}
               /\ Once(n.list) /\ id \notin ListedIDs(n.list) => Once(m.list)
<1> DEFINE new == Branch(id, name)
           list == Append(n.list, new)
<1>1. n.list \in Listings /\ new \in Branches /\ new.id = id
  BY DEF Identities, Branch, Branches
<1>2. Fork(n, name, id) = [active |-> id, name |-> name, list |-> list]
  BY DEF Fork
<1> HIDE DEF new
<1>3. /\ list \in Listings /\ ListedIDs(list) = ListedIDs(n.list) \cup {id}
      /\ Once(n.list) /\ id \notin ListedIDs(n.list) => Once(list)
  BY <1>1, AppendedIs
<1> HIDE DEF list
<1> QED
  BY <1>2, <1>3 DEF Identities

\* What is written for a branch target of the listed identity: every folder
\* is kept but the target's, and every one is listed.
Written(path, pkg, target, payload) ==
    Package(EnsureActiveListed(target),
            [b \in DOMAIN pkg.folder \cup {target.active} |->
               IF b = target.active THEN payload ELSE pkg.folder[b]],
            GetStore(path, pkg))

LEMMA TargetIs ==
    ASSUME NEW path \in Packages, NEW pkg \in Contents, Intact(pkg),
           NEW payload \in Payloads, NEW target \in Identities,
           Once(target.list),
           ListedIDs(target.list) = DOMAIN pkg.folder \cup {target.active}
    PROVE  LET after == Written(path, pkg, target, payload)
           IN  /\ after \in Contents /\ Complete(after)
               /\ after.current = target.active
               /\ DOMAIN after.folder = DOMAIN pkg.folder \cup {target.active}
               /\ \A b \in DOMAIN pkg.folder \ {target.active} :
                     after.folder[b] = pkg.folder[b]
<1> DEFINE ids == DOMAIN pkg.folder \cup {target.active}
           folder == [b \in ids |-> IF b = target.active THEN payload ELSE pkg.folder[b]]
           n == EnsureActiveListed(target)
           i == ByID(target.list, target.active)
           objects == GetStore(path, pkg)
           after == Package(n, folder, objects)
<1>1. target.list \in Listings /\ target.active \in IDs /\ Len(target.list) \in Nat
  BY DEF Identities, Listings
<1>2. /\ n \in Identities /\ n.active = target.active
      /\ i # 0 => /\ Len(n.list) = Len(target.list)
                  /\ \A j \in 1..Len(n.list) : n.list[j].id = target.list[j].id
  BY EnsureIs
<1> HIDE DEF n
<1>3. i # 0
  BY <1>1, ListedIsFound
<1> HIDE DEF i
<1>4. Once(n.list) /\ ListedIDs(n.list) = ids
  <2>1. Once(n.list)
    BY <1>2, <1>3 DEF Once
  <2>2. ListedIDs(n.list) = ListedIDs(target.list)
    BY <1>2, <1>3 DEF ListedIDs
  <2> QED
    BY <2>1, <2>2
<1>5. ids \in SUBSET IDs
  BY <1>1, ContentsAre
<1>6. folder \in [ids -> Payloads]
  BY ContentsAre
<1>7. DOMAIN folder = ids
  OBVIOUS
<1>8. \A b \in DOMAIN pkg.folder \ {target.active} : folder[b] = pkg.folder[b]
  OBVIOUS
<1>9. objects \in SUBSET Objects
  BY ContentsAre DEF GetStore
<1> HIDE DEF folder, objects
<1>10. /\ after.list = n.list /\ after.current = target.active
       /\ after.folder = folder
       /\ after = [list |-> n.list, current |-> n.active, folder |-> folder,
                   objects |-> objects]
  BY <1>2 DEF Package
<1>11. after \in Contents
  <2>1. folder \in UNION {[s -> Payloads] : s \in SUBSET IDs}
    BY <1>5, <1>6
  <2>2. n.list \in Listings /\ n.active \in IDs
    BY <1>2 DEF Identities
  <2> QED
    BY <1>9, <1>10, <2>1, <2>2 DEF Contents
<1> HIDE DEF after
<1>12. Complete(after)
  BY <1>4, <1>7, <1>10, <1>11, CompleteIs
<1> QED
  BY <1>7, <1>8, <1>10, <1>11, <1>12 DEF Written, after, n, folder, objects

\* The list of what is written begins with the folders of the package, each
\* once.
LEMMA BaseIs ==
    ASSUME NEW path \in Packages, NEW pkg \in Contents, Intact(pkg),
           NEW n \in Identities, n.list = pkg.list, n.active \in DOMAIN pkg.folder
    PROVE  LET m == Listed(n, DOMAIN pkg.folder, path)
           IN  /\ m \in Identities /\ Once(m.list)
               /\ ListedIDs(m.list) = DOMAIN pkg.folder
<1> DEFINE ids == DOMAIN pkg.folder
           m == Listed(n, ids, path)
<1>1. ids \in SUBSET IDs /\ Once(pkg.list) /\ ListedIDs(pkg.list) \subseteq ids
  BY ContentsAre, IntactIs
<1>2. /\ m \in Identities /\ (Once(n.list) => Once(m.list))
      /\ ListedIDs(m.list) = ListedIDs(n.list) \cup {n.active} \cup ids
  BY <1>1, ListedIs
<1> QED
  BY <1>1, <1>2

\* What a new save point or an import writes, and what replacing one writes.
Added(path, pkg, n, payload, name) ==
    CreateSavePoint(path, pkg, n, payload, name, FALSE)

Replaced(path, pkg, n, payload, name) ==
    CreateSavePoint(path, pkg, n, payload, name, TRUE)

\* A save point or an import adds a branch.
LEMMA AddedIs ==
    ASSUME NEW path \in Packages, NEW pkg \in Contents, Intact(pkg), Fresh(pkg),
           NEW n \in Identities, n.list = pkg.list, n.active \in DOMAIN pkg.folder,
           NEW payload \in Payloads, NEW name \in Titles, nextID \in IDs,
           Added(path, pkg, n, payload, name) # None
    PROVE  LET after == Added(path, pkg, n, payload, name)
           IN  /\ after \in Contents /\ Complete(after)
               /\ nextID \notin DOMAIN pkg.folder
               /\ DOMAIN after.folder = DOMAIN pkg.folder \cup {nextID}
               /\ \A b \in DOMAIN pkg.folder : after.folder[b] = pkg.folder[b]
<1> DEFINE ids == DOMAIN pkg.folder
           m == Listed(n, ids, path)
           target == Fork(m, name, nextID)
           after == Written(path, pkg, target, payload)
<1>1. /\ target # None
      /\ Added(path, pkg, n, payload, name) = after
  BY DEF Added, CreateSavePoint, Resolve, Written
<1>2. m \in Identities /\ Once(m.list) /\ ListedIDs(m.list) = ids
  BY BaseIs
<1>3. nextID \notin ids
  BY SavePointAssumption DEF Fresh, IDs
<1> HIDE DEF m
<1>4. /\ target \in Identities /\ target.active = nextID
      /\ ListedIDs(target.list) = ListedIDs(m.list) \cup {nextID}
      /\ Once(m.list) /\ nextID \notin ListedIDs(m.list) => Once(target.list)
  BY <1>1, <1>2, ForkIs
<1> HIDE DEF target
<1>5. Once(target.list) /\ ListedIDs(target.list) = ids \cup {target.active}
  BY <1>2, <1>3, <1>4
<1>6. /\ after \in Contents /\ Complete(after)
      /\ DOMAIN after.folder = ids \cup {target.active}
      /\ \A b \in ids \ {target.active} : after.folder[b] = pkg.folder[b]
  BY <1>4, <1>5, TargetIs
<1> HIDE DEF after
<1> QED
  BY <1>1, <1>3, <1>4, <1>6

\* Replacing a save point changes the first branch that has its name.
LEMMA ReplacedIs ==
    ASSUME NEW path \in Packages, NEW pkg \in Contents, Intact(pkg),
           NEW n \in Identities, n.list = pkg.list, n.active \in DOMAIN pkg.folder,
           NEW payload \in Payloads, NEW name \in Titles,
           Replaced(path, pkg, n, payload, name) # None
    PROVE  LET after == Replaced(path, pkg, n, payload, name)
               listed == Listed(n, DOMAIN pkg.folder, path).list
           IN  /\ after \in Contents /\ Complete(after)
               /\ DOMAIN after.folder = DOMAIN pkg.folder
               /\ \A b \in DOMAIN pkg.folder \ {after.current} :
                     after.folder[b] = pkg.folder[b]
               /\ \E i \in 1..Len(listed) :
                     listed[i].name = name /\ after.current = listed[i].id
<1> DEFINE ids == DOMAIN pkg.folder
           m == Listed(n, ids, path)
           target == ActivateNamed(m, name)
           after == Written(path, pkg, target, payload)
<1>1. /\ target # None
      /\ Replaced(path, pkg, n, payload, name) = after
  BY DEF Replaced, CreateSavePoint, Resolve, Written
<1>2. m \in Identities /\ Once(m.list) /\ ListedIDs(m.list) = ids
  BY BaseIs
<1> HIDE DEF m
<1>3. /\ target \in Identities /\ target.list = m.list
      /\ target.active \in ListedIDs(m.list)
      /\ \E i \in 1..Len(m.list) : m.list[i].name = name /\ target.active = m.list[i].id
  BY <1>1, <1>2, ActivatedIs
<1> HIDE DEF target
<1>4. /\ Once(target.list) /\ ListedIDs(target.list) = ids \cup {target.active}
      /\ ids \cup {target.active} = ids
  BY <1>2, <1>3
<1>5. /\ after \in Contents /\ Complete(after) /\ after.current = target.active
      /\ DOMAIN after.folder = ids \cup {target.active}
      /\ \A b \in ids \ {target.active} : after.folder[b] = pkg.folder[b]
  BY <1>3, <1>4, TargetIs
<1> HIDE DEF after
<1> QED
  BY <1>1, <1>3, <1>4, <1>5 DEF m

\* A save to another file writes one branch.
LEMMA SavedIs ==
    ASSUME NEW path \in Packages, NEW payload \in Payloads, nextID \in IDs
    PROVE  LET after == SaveAs(path, payload)
           IN  /\ after \in Contents /\ Complete(after)
               /\ DOMAIN after.folder = {nextID}
<1> DEFINE n == Identity(nextID, Unnamed, << >>)
           m == Listed(n, {nextID}, path)
           folder == [b \in {nextID} |-> payload]
           after == Package(m, folder, {})
<1>1. /\ n \in Identities /\ n.active = nextID /\ n.list = << >>
  BY DEF Identity, Identities, Titles, Listings
<1>2. Once(n.list) /\ ListedIDs(n.list) = {}
  BY <1>1 DEF Once, ListedIDs
<1> HIDE DEF n
<1>3. /\ m \in Identities /\ m.active = nextID
      /\ Once(m.list) /\ ListedIDs(m.list) = {nextID}
  <2> DEFINE ids == {nextID}
  <2>1. ids \in SUBSET IDs
    OBVIOUS
  <2> HIDE DEF ids
  <2>2. m = Listed(n, ids, path)
    BY DEF ids
  <2> HIDE DEF m
  <2>3. /\ m \in Identities /\ m.active = n.active /\ (Once(n.list) => Once(m.list))
        /\ ListedIDs(m.list) = ListedIDs(n.list) \cup {n.active} \cup ids
    BY <1>1, <2>1, <2>2, ListedIs
  <2> QED
    BY <1>1, <1>2, <2>3 DEF ids
<1> HIDE DEF m
<1>4. folder \in [{nextID} -> Payloads] /\ DOMAIN folder = {nextID}
  OBVIOUS
<1>5. SaveAs(path, payload) = after
  BY DEF SaveAs, m, n
<1> HIDE DEF folder
<1>6. /\ after.list = m.list /\ after.current = nextID /\ after.folder = folder
      /\ after = [list |-> m.list, current |-> m.active, folder |-> folder,
                  objects |-> {}]
  BY <1>3 DEF Package
<1>7. after \in Contents
  <2>1. folder \in UNION {[s -> Payloads] : s \in SUBSET IDs}
    BY <1>4
  <2>2. m.list \in Listings /\ m.active \in IDs
    BY <1>3 DEF Identities
  <2> QED
    BY <1>6, <2>1, <2>2 DEF Contents
<1> HIDE DEF after
<1>8. Complete(after)
  BY <1>3, <1>4, <1>6, <1>7, CompleteIs
<1> QED
  BY <1>4, <1>5, <1>6, <1>7, <1>8

\* A package that is complete is intact.
LEMMA CompleteIsIntact ==
    ASSUME NEW pkg, Complete(pkg) PROVE Intact(pkg)
BY DEF Complete, Intact

-----------------------------------------------------------------------------
(* The invariant.                                                          *)

LEMMA InitIInv == Init => IInv
<1> SUFFICES ASSUME Init PROVE IInv
  OBVIOUS
<1>1. \A p \in Packages : file[p] \in FirstFiles[p]
  BY DEF Init
<1>2. ASSUME NEW p \in Packages, file[p] # NoFile
      PROVE  file[p] \in Contents /\ Intact(file[p]) /\ Fresh(file[p])
  BY <1>1, <1>2, FilesAssumption DEF Init, Fresh
<1>3. file \in [Packages -> Contents \cup {NoFile}]
  BY <1>2 DEF Init
<1>4. Typed
  BY <1>3, SavePointAssumption DEF Init, Typed
<1> QED
  BY <1>2, <1>4 DEF Init, IInv, Files, Writing

\* What no command changes that writes nothing.
LEMMA QuietIInv ==
    ASSUME IInv, UNCHANGED <<disk, job, nextID>>, live' \in Patches
    PROVE  IInv'
<1>1. \A pkg : Fresh(pkg)' <=> Fresh(pkg)
  BY DEF Fresh
<1>2. Files' /\ Writing'
  BY <1>1 DEF IInv, Files, Writing, disk, Fresh
<1> QED
  BY <1>2 DEF IInv, Typed, disk

LEMMA QuietCommands ==
    IInv /\ (Edit \/ New \/ Load \/ LoadPlain \/ OpenSavePoint) => IInv'
<1> SUFFICES ASSUME IInv, Edit \/ New \/ Load \/ LoadPlain \/ OpenSavePoint
             PROVE  IInv'
  OBVIOUS
<1>1. CASE Edit
  BY <1>1, QuietIInv DEF Edit
<1>2. CASE New
  BY <1>2, QuietIInv, SavePointAssumption DEF New
<1>3. ASSUME NEW p \in Packages, NEW branch, LoadPackage(p, branch) PROVE IInv'
  <2> DEFINE pkg == file[p]
             n == OpenPackage(pkg, branch)
  <2>1. pkg \in Contents /\ n # None /\ live' = pkg.folder[n.active].patch
        /\ pkg.folder[n.active].patch # NoSource
    BY <1>3 DEF LoadPackage, IInv, Typed
  <2> HIDE DEF pkg
  <2>2. n.active \in DOMAIN pkg.folder
    BY <2>1, OpenedIs
  <2>3. pkg.folder[n.active] \in Payloads
    BY <2>1, <2>2, ContentsAre
  <2>4. live' \in Patches
    BY <2>1, <2>3 DEF Payloads
  <2> QED
    BY <1>3, <2>4, QuietIInv DEF LoadPackage
<1>4. CASE Load
  BY <1>3, <1>4 DEF Load
<1>5. CASE LoadPlain
  BY <1>5, QuietIInv DEF LoadPlain, IInv, Typed
<1>6. CASE OpenSavePoint
  BY <1>3, <1>6 DEF OpenSavePoint
<1> QED
  BY <1>1, <1>2, <1>4, <1>5, <1>6

LEMMA PlainIInv == IInv /\ SavePlain => IInv'
<1> SUFFICES ASSUME IInv, SavePlain PROVE IInv'
  OBVIOUS
<1>1. \A pkg : Fresh(pkg)' <=> Fresh(pkg)
  BY DEF Fresh, SavePlain
<1>2. Typed'
  BY DEF IInv, Typed, SavePlain
<1> QED
  BY <1>1, <1>2 DEF IInv, Files, Writing, SavePlain, Idle, Fresh

\* A command that leaves a write behind.
LEMMA BeginIInv ==
    ASSUME IInv, NEW op \in Commands, NEW p \in Packages, NEW pkg \in Contents,
           Write(op, p, pkg), Complete(pkg),
           nextID' \in FirstID..FirstID + MaxIDs, nextID <= nextID',
           \A b \in DOMAIN pkg.folder : b < nextID'
    PROVE  IInv'
<1>1. job' = [op |-> op, path |-> p, package |-> pkg, step |-> "write"]
      /\ UNCHANGED <<file, aside, text, live>>
  BY DEF Write, disk, host
<1>2. job' \in Jobs /\ job'.package = pkg /\ job'.step = "write"
  BY <1>1 DEF Jobs
<1>3. Typed'
  BY <1>1, <1>2 DEF IInv, Typed
<1>4. ASSUME NEW q \in Packages, file[q] # NoFile
      PROVE  Intact(file[q]) /\ \A b \in DOMAIN file[q].folder : b < nextID'
  <2>1. Intact(file[q]) /\ Fresh(file[q]) /\ file[q] \in Contents
    BY <1>4 DEF IInv, Files, Typed
  <2>2. DOMAIN file[q].folder \subseteq Int
    BY <2>1, ContentsAre, SavePointAssumption DEF IDs
  <2> QED
    BY <2>1, <2>2, SavePointAssumption DEF Fresh, IInv, Typed
<1>5. Files'
  BY <1>1, <1>4 DEF Files, Fresh
<1>6. Writing'
  BY <1>2 DEF Writing, Fresh
<1> QED
  BY <1>3, <1>5, <1>6 DEF IInv

\* What Opened finds in the open package.
LEMMA OpenIsThere ==
    ASSUME IInv, NEW branch, Opened(branch)
    PROVE  LET pkg == file[m_FilePath]
               n == OpenPackage(pkg, branch)
           IN  /\ m_FilePath \in Packages /\ pkg \in Contents
               /\ Intact(pkg) /\ Fresh(pkg)
               /\ n \in Identities /\ n.list = pkg.list
               /\ n.active \in DOMAIN pkg.folder
               /\ n.active = IF branch = None THEN pkg.current ELSE branch
               /\ n.name = pkg.list[ByID(pkg.list, n.active)].name
<1> DEFINE pkg == file[m_FilePath]
<1>1. /\ m_FilePath \in Packages /\ pkg \in Contents /\ Intact(pkg) /\ Fresh(pkg)
      /\ OpenPackage(pkg, branch) # None
  BY DEF Opened, IInv, Typed, Files
<1> HIDE DEF pkg
<1>2. LET n == OpenPackage(pkg, branch)
      IN  /\ n \in Identities /\ n.list = pkg.list
          /\ n.active \in DOMAIN pkg.folder
          /\ n.active = IF branch = None THEN pkg.current ELSE branch
          /\ n.name = pkg.list[ByID(pkg.list, n.active)].name
  BY <1>1, OpenedIs
<1> QED
  BY <1>1, <1>2 DEF pkg

\* The package that replacing the open save point writes.
Replacing(pkg, n, path) ==
    Replaced(path, pkg, n, Payload(live, live),
             IF n.name = Unnamed THEN BaseName[path] ELSE n.name)

LEMMA ReplaceIs ==
    ASSUME IInv, SaveReplace
    PROVE  LET pkg == file[m_FilePath]
               n == OpenPackage(pkg, m_BranchID)
               after == Replacing(pkg, n, m_FilePath)
               listed == Listed(n, DOMAIN pkg.folder, m_FilePath).list
           IN  /\ Write("replace", m_FilePath, after)
               /\ after \in Contents /\ Complete(after)
               /\ DOMAIN after.folder = DOMAIN pkg.folder
               /\ \A b \in DOMAIN pkg.folder \ {after.current} :
                     after.folder[b] = pkg.folder[b]
               /\ \E i \in 1..Len(listed) :
                     /\ listed[i].name = IF n.name = Unnamed THEN BaseName[m_FilePath]
                                         ELSE n.name
                     /\ after.current = listed[i].id
<1> DEFINE path == m_FilePath
           pkg == file[path]
           n == OpenPackage(pkg, m_BranchID)
           name == IF n.name = Unnamed THEN BaseName[path] ELSE n.name
           payload == Payload(live, live)
           after == Replaced(path, pkg, n, payload, name)
           listed == Listed(n, DOMAIN pkg.folder, path).list
<1>1. Opened(m_BranchID) /\ after # None /\ Write("replace", path, after)
  BY DEF SaveReplace, Replaced
<1>2. /\ path \in Packages /\ pkg \in Contents /\ Intact(pkg) /\ Fresh(pkg)
      /\ n \in Identities /\ n.list = pkg.list /\ n.active \in DOMAIN pkg.folder
  BY <1>1, OpenIsThere
<1>3. payload \in Payloads
  BY DEF Payload, Payloads, IInv, Typed
<1>4. after = Replacing(pkg, n, path)
  BY DEF Replacing
<1> HIDE DEF pkg, n, payload
<1>5. name \in Titles
  BY <1>2, SavePointAssumption DEF Identities, Titles
<1> HIDE DEF name, after
<1>6. after = Replaced(path, pkg, n, payload, name)
  BY DEF after
<1>7. /\ after \in Contents /\ Complete(after)
      /\ DOMAIN after.folder = DOMAIN pkg.folder
      /\ \A b \in DOMAIN pkg.folder \ {after.current} : after.folder[b] = pkg.folder[b]
      /\ \E i \in 1..Len(listed) : listed[i].name = name /\ after.current = listed[i].id
  BY <1>1, <1>2, <1>3, <1>5, <1>6, ReplacedIs
<1> QED
  BY <1>1, <1>4, <1>7 DEF pkg, n, name

\* The package that a new save point or an import writes.
LEMMA NewIs ==
    ASSUME IInv, NEW branch, Opened(branch), nextID < FirstID + MaxIDs,
           NEW payload \in Payloads, NEW name \in Names,
           Added(m_FilePath, file[m_FilePath],
                 OpenPackage(file[m_FilePath], branch), payload, name) # None
    PROVE  LET pkg == file[m_FilePath]
               after == Added(m_FilePath, pkg, OpenPackage(pkg, branch),
                              payload, name)
           IN  /\ after \in Contents /\ Complete(after)
               /\ \A b \in DOMAIN after.folder : b < nextID + 1
               /\ \A b \in DOMAIN pkg.folder : /\ b \in DOMAIN after.folder
                                               /\ after.folder[b] = pkg.folder[b]
<1> DEFINE path == m_FilePath
           pkg == file[path]
           n == OpenPackage(pkg, branch)
           after == Added(path, pkg, n, payload, name)
<1>1. /\ path \in Packages /\ pkg \in Contents /\ Intact(pkg) /\ Fresh(pkg)
      /\ n \in Identities /\ n.list = pkg.list /\ n.active \in DOMAIN pkg.folder
  BY OpenIsThere
<1>2. name \in Titles /\ nextID \in IDs
  BY SavePointAssumption DEF IInv, Typed, Titles, IDs
<1>3. after # None
  OBVIOUS
<1> HIDE DEF pkg, n, after
<1>4. after = Added(path, pkg, n, payload, name)
  BY DEF after
<1>5. /\ after \in Contents /\ Complete(after)
      /\ DOMAIN after.folder = DOMAIN pkg.folder \cup {nextID}
      /\ \A b \in DOMAIN pkg.folder : after.folder[b] = pkg.folder[b]
  BY <1>1, <1>2, <1>3, <1>4, AddedIs
<1>6. ASSUME NEW b \in DOMAIN after.folder PROVE b < nextID + 1
  BY <1>1, <1>2, <1>5, <1>6, ContentsAre, SavePointAssumption DEF Fresh, IDs
<1> QED
  BY <1>5, <1>6 DEF pkg, n, after

-----------------------------------------------------------------------------
(* The commands that write, and the steps of a write.                      *)

\* A new save point or an import writes a package that keeps every branch.
LEMMA AddingIs ==
    ASSUME IInv, SaveNew \/ Import
    PROVE  \E op \in {"new", "import"}, after \in Contents :
              /\ Write(op, m_FilePath, after) /\ Complete(after)
              /\ \A b \in DOMAIN after.folder : b < nextID + 1
              /\ \A b \in DOMAIN file[m_FilePath].folder :
                    /\ b \in DOMAIN after.folder
                    /\ after.folder[b] = file[m_FilePath].folder[b]
<1>1. CASE SaveNew
  <2> DEFINE payload == Payload(live, live)
             pkg == file[m_FilePath]
             n == OpenPackage(pkg, m_BranchID)
  <2>1. payload \in Payloads
    BY <1>1 DEF Payload, Payloads, IInv, Typed
  <2>2. PICK name \in Names :
           /\ Added(m_FilePath, pkg, n, payload, name) # None
           /\ Write("new", m_FilePath, Added(m_FilePath, pkg, n, payload, name))
    BY <1>1 DEF SaveNew, Added
  <2>3. Opened(m_BranchID) /\ nextID < FirstID + MaxIDs /\ nextID' = nextID + 1
    BY <1>1 DEF SaveNew
  <2> HIDE DEF payload
  <2> QED
    BY <2>1, <2>2, <2>3, NewIs
<1>2. CASE Import
  <2> DEFINE pkg == file[m_FilePath]
             n == OpenPackage(pkg, None)
             Imported(patch) == Payload(patch, pkg.folder[n.active].sides)
  <2>1. Opened(None) /\ nextID < FirstID + MaxIDs /\ nextID' = nextID + 1
    BY <1>2 DEF Import
  <2>2. PICK patch \in Importable \ {NoSource}, name \in Names :
           /\ Added(m_FilePath, pkg, n, Imported(patch), name) # None
           /\ Write("import", m_FilePath, Added(m_FilePath, pkg, n, Imported(patch), name))
    BY <1>2 DEF Import, Added
  <2> DEFINE payload == Imported(patch)
  <2>3. patch \in Patches
    <3>1. CASE text # NoFile /\ patch = text
      BY <1>2, <3>1 DEF IInv, Typed
    <3>2. ASSUME NEW q \in Packages, file[q] # NoFile, OpenPackage(file[q], None) # None,
                 patch = file[q].folder[file[q].current].patch
          PROVE  patch \in Patches
      <4>1. file[q] \in Contents
        BY <1>2, <3>2 DEF IInv, Typed
      <4>2. file[q].current \in DOMAIN file[q].folder
        BY <3>2, OpenIs
      <4>3. file[q].folder[file[q].current] \in Payloads
        BY <4>1, <4>2, ContentsAre
      <4> QED
        BY <2>2, <3>2, <4>3 DEF Payloads
    <3> QED
      BY <3>1, <3>2, <2>2 DEF Importable
  <2>4. pkg.folder[n.active] \in Payloads
    BY <1>2, <2>1, OpenIsThere, ContentsAre
  <2>5. payload \in Payloads
    BY <2>3, <2>4 DEF Payload, Payloads
  <2> HIDE DEF Imported, payload
  <2>6. /\ Added(m_FilePath, pkg, n, payload, name) # None
        /\ Write("import", m_FilePath, Added(m_FilePath, pkg, n, payload, name))
    BY <2>2 DEF payload
  <2> QED
    BY <2>1, <2>5, <2>6, NewIs
<1> QED
  BY <1>1, <1>2

LEMMA CommandsIInv ==
    IInv /\ ((\E p \in Packages : SavePackageAs(p)) \/ SaveReplace \/ SaveNew \/ Import)
    => IInv'
<1>1. ASSUME IInv, NEW p \in Packages, SavePackageAs(p) PROVE IInv'
  <2> DEFINE payload == Payload(live, live)
             after == SaveAs(p, payload)
  <2>1. payload \in Payloads /\ nextID \in IDs
    BY <1>1, SavePointAssumption
       DEF Payload, Payloads, IInv, Typed, SavePackageAs, IDs
  <2>2. Write("saveas", p, after) /\ nextID' = nextID + 1 /\ nextID < FirstID + MaxIDs
    BY <1>1 DEF SavePackageAs
  <2> HIDE DEF payload
  <2>3. after \in Contents /\ Complete(after) /\ DOMAIN after.folder = {nextID}
    BY <2>1, SavedIs
  <2> HIDE DEF after
  <2>4. /\ nextID' \in FirstID..FirstID + MaxIDs /\ nextID <= nextID'
        /\ \A b \in DOMAIN after.folder : b < nextID'
    BY <1>1, <2>2, <2>3, SavePointAssumption DEF IInv, Typed
  <2> QED
    BY <1>1, <2>2, <2>3, <2>4, BeginIInv DEF Commands
<1>2. ASSUME IInv, SaveReplace PROVE IInv'
  <2> DEFINE pkg == file[m_FilePath]
             after == Replacing(pkg, OpenPackage(pkg, m_BranchID), m_FilePath)
  <2>1. /\ Write("replace", m_FilePath, after) /\ after \in Contents
        /\ Complete(after) /\ DOMAIN after.folder = DOMAIN pkg.folder
    BY <1>2, ReplaceIs
  <2> HIDE DEF after
  <2>2. m_FilePath \in Packages /\ Fresh(pkg) /\ UNCHANGED nextID
    BY <1>2, OpenIsThere DEF SaveReplace
  <2>3. /\ nextID' \in FirstID..FirstID + MaxIDs /\ nextID <= nextID'
        /\ \A b \in DOMAIN after.folder : b < nextID'
    BY <1>2, <2>1, <2>2, SavePointAssumption DEF IInv, Typed, Fresh
  <2> QED
    BY <1>2, <2>1, <2>2, <2>3, BeginIInv DEF Commands
<1>3. ASSUME IInv, SaveNew \/ Import PROVE IInv'
  <2>1. /\ m_FilePath \in Packages /\ nextID < FirstID + MaxIDs /\ nextID' = nextID + 1
    BY <1>3 DEF SaveNew, Import, Opened
  <2>2. PICK op \in {"new", "import"}, after \in Contents :
           /\ Write(op, m_FilePath, after) /\ Complete(after)
           /\ \A b \in DOMAIN after.folder : b < nextID + 1
    BY <1>3, AddingIs
  <2>3. /\ nextID' \in FirstID..FirstID + MaxIDs /\ nextID <= nextID'
        /\ \A b \in DOMAIN after.folder : b < nextID'
    BY <1>3, <2>1, <2>2, SavePointAssumption DEF IInv, Typed
  <2>4. op \in Commands
    BY DEF Commands
  <2> QED
    BY <1>3, <2>1, <2>2, <2>3, <2>4, BeginIInv
<1> QED
  BY <1>1, <1>2, <1>3

\* A step of a write leaves intact what lies at every path.
LEMMA StepIInv ==
    ASSUME IInv, job # None, UNCHANGED <<text, nextID>>, live' \in Patches,
           aside' \in [Packages -> SUBSET Contents], job' = None,
           \/ UNCHANGED file
           \/ file' = [file EXCEPT ![job.path] = job.package]
           \/ job.step = "aside" /\ file' = [file EXCEPT ![job.path] = job.old]
    PROVE  IInv'
<1>1. /\ job.path \in Packages /\ job.package \in Contents
      /\ Intact(job.package) /\ Fresh(job.package)
      /\ job.step = "aside" => job.old \in Contents /\ Intact(job.old) /\ Fresh(job.old)
  BY CompleteIsIntact DEF IInv, Typed, Writing, Jobs
<1>2. file' \in [Packages -> Contents \cup {NoFile}]
  BY <1>1 DEF IInv, Typed
<1>3. Typed'
  BY <1>2 DEF IInv, Typed
<1>4. ASSUME NEW p \in Packages, file'[p] # NoFile
      PROVE  Intact(file'[p]) /\ \A b \in DOMAIN file'[p].folder : b < nextID'
  <2>1. \/ file'[p] = file[p]
        \/ p = job.path /\ file'[p] = job.package
        \/ p = job.path /\ job.step = "aside" /\ file'[p] = job.old
    BY <1>1 DEF IInv, Typed
  <2> QED
    BY <1>1, <1>4, <2>1 DEF IInv, Files, Fresh
<1> QED
  BY <1>3, <1>4 DEF IInv, Files, Writing, Fresh

LEMMA WriteIInv ==
    IInv /\ (Replace \/ SetAside \/ WriteFails \/ ReplaceFails \/ Crash) => IInv'
<1> SUFFICES ASSUME IInv, Replace \/ SetAside \/ WriteFails \/ ReplaceFails \/ Crash
             PROVE  IInv'
  OBVIOUS
<1>1. /\ live \in Patches /\ Empty \in Patches
      /\ aside \in [Packages -> SUBSET Contents]
  BY SavePointAssumption DEF IInv, Typed
<1>2. CASE Replace
  <2>1. job # None /\ job' = None /\ UNCHANGED <<text, nextID>>
        /\ file' = [file EXCEPT ![job.path] = job.package]
    BY <1>2 DEF Replace, At
  <2>2. live' = live
    <3>1. job.op \in Commands
      BY <2>1 DEF IInv, Typed, Jobs
    <3> QED
      BY <1>2, <3>1 DEF Replace, Adopt, Commands
  <2>3. aside' \in [Packages -> SUBSET Contents]
    BY <1>1, <1>2 DEF Replace
  <2> QED
    BY <1>1, <2>1, <2>2, <2>3, StepIInv
<1>3. CASE SetAside
  <2>1. /\ job # None /\ job.step = "write" /\ file[job.path] # NoFile
        /\ job.path \in Packages /\ job.package \in Contents /\ job.op \in Commands
    BY <1>3 DEF SetAside, At, IsDirectory, IInv, Typed, Jobs
  <2> DEFINE old == file[job.path]
  <2>2. /\ aside' = [aside EXCEPT ![job.path] = @ \cup {old}]
        /\ job' = [op |-> job.op, path |-> job.path, package |-> job.package,
                   step |-> "aside", old |-> old]
        /\ file' = [file EXCEPT ![job.path] = NoFile]
        /\ UNCHANGED <<text, live, nextID>>
    BY <1>3 DEF SetAside, host
  <2>3. old \in Contents /\ Intact(old) /\ Fresh(old)
    BY <2>1 DEF IInv, Typed, Files
  <2>4. Complete(job.package) /\ Fresh(job.package)
    BY <2>1 DEF IInv, Writing
  <2> HIDE DEF old
  <2>5. job' \in Jobs /\ job'.package = job.package /\ job'.path = job.path
        /\ job'.old = old
    BY <2>1, <2>2, <2>3 DEF Jobs
  <2>6. Typed'
    <3>1. file' \in [Packages -> Contents \cup {NoFile}]
      BY <2>1, <2>2 DEF IInv, Typed
    <3>2. aside' \in [Packages -> SUBSET Contents]
      BY <2>1, <2>2, <2>3 DEF IInv, Typed
    <3> QED
      BY <2>2, <2>5, <3>1, <3>2 DEF IInv, Typed
  <2>7. file'[job.path] = NoFile /\ old \in aside'[job.path]
    BY <2>1, <2>2 DEF IInv, Typed
  <2>8. ASSUME NEW p \in Packages, file'[p] # NoFile
        PROVE  Intact(file'[p]) /\ \A b \in DOMAIN file'[p].folder : b < nextID'
    <3>1. file'[p] = file[p]
      BY <2>1, <2>2, <2>8 DEF IInv, Typed
    <3> QED
      BY <2>2, <2>8, <3>1 DEF IInv, Files, Fresh
  <2>9. Writing'
    BY <2>2, <2>3, <2>4, <2>5, <2>7 DEF Writing, Fresh
  <2> QED
    BY <2>6, <2>8, <2>9 DEF IInv, Files, Fresh
<1>4. CASE WriteFails
  BY <1>1, <1>4, StepIInv DEF WriteFails, At, disk, host
<1>5. CASE ReplaceFails
  <2>1. job # None /\ job.step = "aside" /\ job' = None
        /\ UNCHANGED <<text, live, nextID>>
        /\ (UNCHANGED file \/ file' = [file EXCEPT ![job.path] = job.old])
    BY <1>5 DEF ReplaceFails, At, host
  <2>2. aside' \in [Packages -> SUBSET Contents]
    BY <1>1, <1>5 DEF ReplaceFails
  <2> QED
    BY <1>1, <2>1, <2>2, StepIInv
<1>6. CASE Crash
  BY <1>1, <1>6, StepIInv DEF Crash, disk
<1> QED
  BY <1>2, <1>3, <1>4, <1>5, <1>6

-----------------------------------------------------------------------------
(* The theorems.                                                           *)

\* IInv is inductive.
THEOREM Invariance == Spec => []IInv
<1>1. IInv /\ UNCHANGED vars => IInv'
  BY QuietIInv DEF vars, disk, IInv, Typed
<1>2. IInv /\ [Next]_vars => IInv'
  BY <1>1, QuietCommands, PlainIInv, CommandsIInv, WriteIInv DEF Next
<1> QED
  BY <1>2, InitIInv, PTL DEF Spec

\* What is written lists every branch that it holds, once, and can be opened.
THEOREM BranchesAreListed == Spec => []Accounted
<1>1. IInv => Accounted
  BY DEF IInv, Writing, Complete, Accounted
<1> QED
  BY <1>1, Invariance, PTL

\* The name of the open branch finds it, where that name is its own.
LEMMA NameFindsIt ==
    ASSUME IInv, Opened(m_BranchID), KnownByName(m_FilePath),
           NEW pkg, pkg = file[m_FilePath],
           NEW n, n = OpenPackage(pkg, m_BranchID),
           NEW m, m = Listed(n, DOMAIN pkg.folder, m_FilePath),
           NEW i \in 1..Len(m.list),
           m.list[i].name = IF n.name = Unnamed THEN BaseName[m_FilePath] ELSE n.name
    PROVE  m.list[i].id = m_BranchID
<1> DEFINE k == ByID(pkg.list, n.active)
<1>1. /\ m_FilePath \in Packages /\ pkg \in Contents /\ Intact(pkg)
      /\ n \in Identities /\ n.list = pkg.list /\ n.active \in DOMAIN pkg.folder
      /\ n.active = IF m_BranchID = None THEN pkg.current ELSE m_BranchID
      /\ n.name = pkg.list[k].name
  BY OpenIsThere
<1>2. PICK j \in DOMAIN pkg.list :
         /\ pkg.list[j].id = m_BranchID /\ pkg.list[j].name # Unnamed
         /\ \A l \in DOMAIN pkg.list : pkg.list[l].name = pkg.list[j].name => l = j
  BY DEF KnownByName
<1>3. pkg.list \in Listings /\ Len(pkg.list) \in Nat
      /\ DOMAIN pkg.list = 1..Len(pkg.list) /\ Once(pkg.list)
  BY <1>1, ContentsAre, IntactIs DEF Listings
<1>4. n.active = m_BranchID
  <2>1. pkg.list[j] \in Branches
    BY <1>2, <1>3 DEF Listings
  <2>2. m_BranchID # None
    BY <1>2, <2>1, FilesAssumption DEF Branches
  <2> QED
    BY <1>1, <2>2
<1>5. k = j
  <2>1. k \in 0..Len(pkg.list) /\ (k # 0 => pkg.list[k].id = n.active)
        /\ (k = 0 => \A l \in 1..Len(pkg.list) : pkg.list[l].id # n.active)
    BY <1>3, ByIDIs
  <2> HIDE DEF k
  <2> QED
    BY <1>2, <1>3, <1>4, <2>1 DEF Once
<1> HIDE DEF k
<1>6. n.name # Unnamed /\ m.list[i].name = pkg.list[j].name
  BY <1>1, <1>2, <1>5
<1>7. DOMAIN pkg.folder \in SUBSET IDs
  BY <1>1, ContentsAre
<1>8. /\ m.name = n.name
      /\ IF i <= Len(pkg.list)
         THEN /\ m.list[i].id = pkg.list[i].id
              /\ m.list[i].name = IF i = j THEN m.name ELSE pkg.list[i].name
         ELSE m.list[i].name = Unnamed
  <2> DEFINE ids == DOMAIN pkg.folder
  <2>1. ids \in SUBSET IDs /\ m = Listed(n, ids, m_FilePath)
    BY <1>7
  <2>2. ByID(n.list, n.active) # 0
    BY <1>1, <1>2, <1>3, <1>5 DEF k
  <2> HIDE DEF ids
  <2>3. /\ m.name = n.name
        /\ IF i <= Len(n.list)
           THEN /\ m.list[i].id = n.list[i].id
                /\ m.list[i].name = IF i = ByID(n.list, n.active) THEN m.name
                                    ELSE n.list[i].name
           ELSE m.list[i].name = Unnamed
    <3>1. LET listed == Listed(n, ids, m_FilePath)
          IN  /\ listed.name = IF n.name = Unnamed THEN BaseName[m_FilePath]
                              ELSE n.name
              /\ \A l \in 1..Len(listed.list) :
                   IF l <= Len(n.list)
                   THEN /\ listed.list[l].id = n.list[l].id
                        /\ listed.list[l].name =
                              IF l = ByID(n.list, n.active) THEN listed.name
                              ELSE n.list[l].name
                   ELSE listed.list[l].name = Unnamed
      BY <1>1, <2>1, <2>2, ListedIs
    <3> QED
      BY <1>6, <2>1, <3>1
  <2> QED
    BY <1>1, <1>5, <2>3 DEF k
<1>9. i \in 1..Len(pkg.list)
  BY <1>2, <1>3, <1>6, <1>8, ListedIs
<1>10. i = j
  BY <1>2, <1>3, <1>6, <1>8, <1>9
<1> QED
  BY <1>2, <1>8, <1>9, <1>10

\* No command changes a branch that it is not about.
THEOREM OthersAreKept == Spec => OthersKept
<1> DEFINE Kept == \A p \in Packages : Begins(p) =>
                      \A b \in DOMAIN file[p].folder :
                         \/ Keeps(p, b)
                         \/ job'.op = "replace" /\ (KnownByName(p) => b = m_BranchID)
<1>1. ASSUME IInv, [Next]_vars PROVE Kept
  <2> SUFFICES ASSUME NEW p \in Packages, Begins(p), NEW b \in DOMAIN file[p].folder
               PROVE  \/ Keeps(p, b)
                      \/ job'.op = "replace" /\ (KnownByName(p) => b = m_BranchID)
    OBVIOUS
  <2>1. job = None /\ job' # None /\ job'.path = p /\ job'.op # "saveas"
    BY DEF Begins
  <2>2. SaveReplace \/ SaveNew \/ Import
    <3>1. ~(\E q \in Packages : SavePackageAs(q))
      BY <2>1 DEF SavePackageAs, Write
    <3>2. ~(Edit \/ New \/ Load \/ LoadPlain \/ OpenSavePoint \/ SavePlain)
      BY <2>1 DEF Edit, New, Load, LoadPlain, OpenSavePoint, SavePlain, LoadPackage
    <3>3. ~(Replace \/ SetAside \/ WriteFails \/ ReplaceFails \/ Crash)
      BY <2>1 DEF Replace, SetAside, WriteFails, ReplaceFails, Crash, At
    <3> QED
      BY <1>1, <2>1, <3>1, <3>2, <3>3 DEF Next, vars
  <2>3. CASE SaveReplace
    <3> DEFINE pkg == file[m_FilePath]
               n == OpenPackage(pkg, m_BranchID)
               after == Replacing(pkg, n, m_FilePath)
               m == Listed(n, DOMAIN pkg.folder, m_FilePath)
    <3>1. /\ Write("replace", m_FilePath, after)
          /\ DOMAIN after.folder = DOMAIN pkg.folder
          /\ \A a \in DOMAIN pkg.folder \ {after.current} :
                after.folder[a] = pkg.folder[a]
          /\ \E i \in 1..Len(m.list) :
                /\ m.list[i].name = IF n.name = Unnamed THEN BaseName[m_FilePath]
                                    ELSE n.name
                /\ after.current = m.list[i].id
      BY <1>1, <2>3, ReplaceIs
    <3> HIDE DEF after
    <3>2. p = m_FilePath /\ job'.op = "replace" /\ job'.package = after
      BY <2>1, <3>1 DEF Write
    <3>3. CASE b # after.current
      BY <3>1, <3>2, <3>3 DEF Keeps
    <3>4. ASSUME KnownByName(p) PROVE after.current = m_BranchID
      <4>1. PICK i \in 1..Len(m.list) :
               /\ m.list[i].name = IF n.name = Unnamed THEN BaseName[m_FilePath]
                                   ELSE n.name
               /\ after.current = m.list[i].id
        BY <3>1
      <4>2. Opened(m_BranchID)
        BY <2>3 DEF SaveReplace
      <4> QED
        BY <1>1, <3>2, <3>4, <4>1, <4>2, NameFindsIt
    <3> QED
      BY <3>2, <3>3, <3>4
  <2>4. CASE SaveNew \/ Import
    <3>1. PICK op \in {"new", "import"}, after \in Contents :
             /\ Write(op, m_FilePath, after)
             /\ \A a \in DOMAIN file[m_FilePath].folder :
                   /\ a \in DOMAIN after.folder
                   /\ after.folder[a] = file[m_FilePath].folder[a]
      BY <1>1, <2>4, AddingIs
    <3>2. p = m_FilePath /\ job'.package = after
      BY <2>1, <3>1 DEF Write
    <3> QED
      BY <3>1, <3>2 DEF Keeps
  <2> QED
    BY <2>2, <2>3, <2>4
<1> QED
  BY <1>1, Invariance, PTL DEF Spec, OthersKept

\* A package that was there is there, or beside its path.
THEOREM PackagesAreThere == Spec => NeverLost
<1> DEFINE There == \A p \in Packages :
              /\ file[p] # NoFile => file'[p] # NoFile \/ file[p] \in aside'[p]
              /\ aside[p] # {} => file'[p] # NoFile \/ aside'[p] # {}
<1>1. ASSUME IInv, UNCHANGED <<file, aside>> PROVE There
  BY <1>1 DEF IInv, Typed
<1>2. ASSUME IInv, [Next]_vars PROVE There
  <2>1. UNCHANGED <<file, aside>> \/ Replace \/ SetAside \/ ReplaceFails
    BY <1>2 DEF Next, vars, Edit, New, Load, LoadPlain, OpenSavePoint, LoadPackage,
       SavePackageAs, SavePlain, SaveReplace, SaveNew, Import, Write, WriteFails,
       Crash, disk
  <2> USE <1>2 DEF IInv, Typed, Writing, Jobs, At
  <2>2. CASE Replace
    BY <2>2, FilesAssumption DEF Replace
  <2>3. CASE SetAside
    BY <2>3, FilesAssumption DEF SetAside
  <2>4. CASE ReplaceFails
    BY <2>4, FilesAssumption DEF ReplaceFails
  <2> QED
    BY <1>1, <1>2, <2>1, <2>2, <2>3, <2>4
<1> QED
  BY <1>2, Invariance, PTL DEF Spec, NeverLost
=============================================================================
