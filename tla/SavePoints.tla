----------------------------- MODULE SavePoints -----------------------------
(***************************************************************************)
(* The host's files: packages with their save points (branches), and how   *)
(* New, Load, Save, Save As, Import as Branch and Save Points change them. *)
(* The File menu of SpiralSynthModular.C makes a Project for the length of *)
(* one command; the commands are therefore written as functions of the     *)
(* package they open.  The write of a package is a sequence of steps that  *)
(* may fail or be cut short by the end of the process.                     *)
(*                                                                         *)
(* A branch's payload is the patch text and the sidecar files (samples)    *)
(* that belong to it: each is named by the patch it came from.  Parents    *)
(* and kinds of branches, extra files and the metadata are left out.       *)
(***************************************************************************)
EXTENDS Naturals, SequencesExt

CONSTANTS Packages,     \* paths of packages
          Directories,  \* those that are folders; the others are ZIP or tar
          Patches,      \* what can be on the canvas
          Names,        \* names of branches
          BaseName,     \* BaseName[p]: the file name of p, without extension
          Large,        \* packages above MemoryLimit: unpacked to disk
          Objects,      \* the shared objects there can be
          FirstFiles,   \* FirstFiles[p]: what may be at p to begin with
          Empty,        \* the patch of an empty canvas
          NoSource,     \* a branch without a patch
          NoFile, None, Unnamed,
          FirstID,      \* ids below are those of FirstFiles
          MaxIDs,       \* bound: branch ids that are generated
          MaxCrashes    \* bound: times the process ends in the middle

ASSUME SavePointAssumption ==
    /\ Directories \subseteq Packages /\ Large \subseteq Packages
    /\ BaseName \in [Packages -> Names]
    /\ Unnamed \notin Names /\ None \notin Packages
    /\ Empty \in Patches /\ NoSource \notin Patches /\ NoFile \notin Patches
    /\ FirstID \in Nat /\ MaxIDs \in Nat

IDs == 0..FirstID + MaxIDs - 1
Titles == Names \cup {Unnamed}
Payloads == [patch : Patches \cup {NoSource}, sides : Patches \cup {NoSource}]
Branches == [id : IDs, name : Titles]
Listings == Seq(Branches)
Identities == [active : IDs, name : Titles, list : Listings]
Contents == [list : Listings, current : IDs,
             folder : UNION {[ids -> Payloads] : ids \in SUBSET IDs},
             objects : SUBSET Objects]

\* What is there to begin with was written by the program, folders that were
\* added since apart: every branch is listed once and has a folder.
Intact(pkg) == LET ids == [i \in DOMAIN pkg.list |-> pkg.list[i].id]
               IN  IsInjective(ids) /\ ToSet(ids) \subseteq DOMAIN pkg.folder

ASSUME FilesAssumption ==
    /\ NoFile \notin Contents /\ None \notin Identities \cup IDs
    /\ DOMAIN FirstFiles = Packages
    /\ \A p \in Packages : \A pkg \in FirstFiles[p] \ {NoFile} :
          pkg \in Contents /\ Intact(pkg) /\ \A b \in DOMAIN pkg.folder : b < FirstID

VARIABLES
    file,             \* path |-> the package there, or NoFile
    aside,            \* path |-> packages that Directory set aside
    text,             \* the one plain .ssm file
    m_FilePath,       \* a package, "ssm" or None
    m_BranchID, m_SavePointCount,
    live,             \* the patch on the canvas
    job,              \* the write under way, or None
    nextID, crashes,  \* ids given out, crashes so far
    open              \* history: the branch the canvas came from or went to

host == <<m_FilePath, m_BranchID, m_SavePointCount, live, open>>
disk == <<file, aside, text>>
vars == <<file, aside, text, m_FilePath, m_BranchID, m_SavePointCount, live,
          job, nextID, crashes, open>>

-----------------------------------------------------------------------------
(* Identity: the active branch, its name, and the manifest's list of       *)
(* branches.  Several branches may have one name; the first one is found.  *)

Identity(id, name, list) == [active |-> id, name |-> name, list |-> list]
Branch(id, name) == [id |-> id, name |-> name]

Find(n, id) == SelectInSeq(n.list, LAMBDA b : b.id = id)
FindByName(n, name) == SelectInSeq(n.list, LAMBDA b : b.name = name)

EnsureActiveListed(n) ==
    LET i == Find(n, n.active)
    IN  IF i = 0
        THEN [n EXCEPT !.list = Append(@, Branch(n.active, n.name))]
        ELSE IF n.name = Unnamed THEN n ELSE [n EXCEPT !.list[i].name = n.name]

\* A save that copies folders and does not list them.
AdoptNone(n, ids) == n

AdoptUnlisted(n, ids) ==
    LET listed == {n.list[i].id : i \in DOMAIN n.list}
        unlisted == SetToSeq(ids \ listed)
    IN  [n EXCEPT !.list =
            @ \o [i \in DOMAIN unlisted |-> Branch(unlisted[i], Unnamed)]]

\* The identity with the named branch active, or None when there is none.
ActivateNamed(n, name) ==
    LET i == FindByName(n, name)
    IN  IF i = 0 THEN None ELSE [n EXCEPT !.active = n.list[i].id, !.name = name]

\* The identity with a new active branch, or None when the name is taken.
Fork(n, name, id) ==
    IF FindByName(n, name) # 0 THEN None
    ELSE [active |-> id, name |-> name, list |-> Append(n.list, Branch(id, name))]

-----------------------------------------------------------------------------
(* Package and Project: a package is the manifest (list, current), a folder *)
(* per branch and the shared objects.                                       *)

Package(n, folder, objects) ==
    [list |-> n.list, current |-> n.active, folder |-> folder,
     objects |-> objects]

\* What Open finds: the identity with the branch (None: the current one)
\* active, or None when it is not listed or has no folder.
OpenPackage(pkg, branch) ==
    LET id == IF branch = None THEN pkg.current ELSE branch
        i == SelectInSeq(pkg.list, LAMBDA b : b.id = id)
    IN  IF i = 0 \/ id \notin DOMAIN pkg.folder THEN None
        ELSE Identity(id, pkg.list[i].name, pkg.list)

\* The identity a write begins with: the active branch has a name and is
\* listed, and so is every folder of the source.
Listed(n, folders, path) ==
    LET named == [n EXCEPT !.name = IF @ = Unnamed THEN BaseName[path] ELSE @]
    IN  AdoptUnlisted(EnsureActiveListed(named), folders)

\* A save point that takes over the branch that has its name.
ResolveAnyway(n, name, replace) ==
    IF FindByName(n, name) # 0 THEN ActivateNamed(n, name)
    ELSE Fork(n, name, nextID)

\* The branch a save point goes to: the named one, or a new one.
Resolve(n, name, replace) ==
    IF replace THEN ActivateNamed(n, name) ELSE Fork(n, name, nextID)

\* The store of a workspace in memory is made empty, whatever was unpacked.
GetStore(path, pkg) == IF path \in Large THEN pkg.objects ELSE {}

\* CreateSavePoint on the unpacked package: its other folders are copied,
\* payload becomes the target's.  None: the name is taken, or not there.
CreateSavePoint(path, pkg, n, payload, name, replace) ==
    LET target == Resolve(Listed(n, DOMAIN pkg.folder, path), name, replace)
    IN  IF target = None THEN None
        ELSE Package(EnsureActiveListed(target),
                     [b \in DOMAIN pkg.folder \cup {target.active} |->
                        IF b = target.active THEN payload ELSE pkg.folder[b]],
                     GetStore(path, pkg))

\* SaveAs of a fresh project: one branch, named after the file.
SaveAs(path, payload) ==
    Package(Listed(Identity(nextID, Unnamed, << >>), {nextID}, path),
            [b \in {nextID} |-> payload], {})

Payload(patch, sides) == [patch |-> patch, sides |-> sides]

-----------------------------------------------------------------------------
(* The commands.  A command that writes leaves a job behind: the package to *)
(* be written and what the host takes over when the write has succeeded.    *)

Idle == job = None

Init == /\ file \in {f \in [Packages -> UNION Range(FirstFiles)] :
                     \A p \in Packages : f[p] \in FirstFiles[p]}
        /\ aside = [p \in Packages |-> {}]
        /\ text = NoFile
        /\ m_FilePath = None /\ m_BranchID = None /\ m_SavePointCount = 0
        /\ live = Empty /\ open = None
        /\ job = None /\ crashes = 0
        /\ nextID = FirstID

\* Editing the canvas.
Edit == /\ Idle
        /\ live' \in Patches \ {live}
        /\ UNCHANGED <<disk, m_FilePath, m_BranchID, m_SavePointCount, job,
                       nextID, crashes, open>>

New == /\ Idle
       /\ m_FilePath' = None /\ m_BranchID' = None /\ m_SavePointCount' = 0
       /\ live' = Empty /\ open' = None
       /\ UNCHANGED <<disk, job, nextID, crashes>>

\* LoadPatch of a package, on its current branch or on a given one; a
\* package without a patch is refused.
LoadPackage(p, branch) ==
    /\ file[p] # NoFile
    /\ LET n == OpenPackage(file[p], branch)
       IN  /\ n # None
           /\ file[p].folder[n.active].patch # NoSource
           /\ m_FilePath' = p /\ m_BranchID' = n.active
           /\ m_SavePointCount' = Len(n.list)
           /\ live' = file[p].folder[n.active].patch
           /\ open' = n.active
    /\ UNCHANGED <<disk, job, nextID, crashes>>

Load == /\ Idle
        /\ \E p \in Packages : LoadPackage(p, None)

LoadPlain == /\ Idle /\ text # NoFile
             /\ m_FilePath' = "ssm" /\ m_BranchID' = None
             /\ m_SavePointCount' = 0 /\ live' = text /\ open' = None
             /\ UNCHANGED <<disk, job, nextID, crashes>>

\* The dialog lists the branches of the package; the menu offers it only
\* when the host has counted some.
OpenSavePoint ==
    /\ Idle /\ m_SavePointCount > 0
    /\ m_FilePath \in Packages /\ file[m_FilePath] # NoFile
    /\ OpenPackage(file[m_FilePath], None) # None
    /\ \E i \in DOMAIN file[m_FilePath].list :
           LoadPackage(m_FilePath, file[m_FilePath].list[i].id)

\* Leave the write of pkg to the container; op says which command it is for.
Write(op, p, pkg) ==
    /\ job' = [op |-> op, path |-> p, package |-> pkg, step |-> "write"]
    /\ UNCHANGED <<disk, host, crashes>>

\* SavePatch to another file than the open one, existing or not.
SavePackageAs(p) ==
    /\ Idle /\ p # m_FilePath
    /\ nextID < FirstID + MaxIDs
    /\ nextID' = nextID + 1
    /\ Write("saveas", p, SaveAs(p, Payload(live, live)))

SavePlain == /\ Idle
             /\ text' = live
             /\ m_FilePath' = "ssm" /\ m_BranchID' = None /\ open' = None
             /\ UNCHANGED <<file, aside, m_SavePointCount, live, job, nextID,
                            crashes>>

\* The package that SaveBranch and Import open: the open file's.
Opened(branch) == /\ Idle /\ m_FilePath \in Packages
                  /\ file[m_FilePath] # NoFile
                  /\ OpenPackage(file[m_FilePath], branch) # None

\* SaveBranch, replacing the current save point: it is looked up by name.
SaveReplace ==
    /\ Opened(m_BranchID)
    /\ LET pkg == file[m_FilePath]
           n == OpenPackage(pkg, m_BranchID)
           name == IF n.name = Unnamed THEN BaseName[m_FilePath] ELSE n.name
           next == CreateSavePoint(m_FilePath, pkg, n, Payload(live, live),
                                   name, TRUE)
       IN  next # None /\ Write("replace", m_FilePath, next)
    /\ UNCHANGED nextID

\* SaveBranch, with a new save point of the name the user enters.
SaveNew ==
    /\ Opened(m_BranchID)
    /\ nextID < FirstID + MaxIDs /\ nextID' = nextID + 1
    /\ \E name \in Names :
           LET pkg == file[m_FilePath]
               next == CreateSavePoint(m_FilePath, pkg,
                                       OpenPackage(pkg, m_BranchID),
                                       Payload(live, live), name, FALSE)
           IN  next # None /\ Write("new", m_FilePath, next)

\* What can be imported: the text of the current branch of a package, or of
\* the plain file.
Importable ==
    {file[p].folder[file[p].current].patch :
        p \in {q \in Packages : file[q] # NoFile
                                /\ OpenPackage(file[q], None) # None}}
    \cup (IF text = NoFile THEN {} ELSE {text})

\* cb_ImportBranch: the open package's current branch has been loaded, its
\* sidecars with it; only the text is replaced before the write.
Import ==
    /\ Opened(None)
    /\ nextID < FirstID + MaxIDs /\ nextID' = nextID + 1
    /\ \E patch \in Importable \ {NoSource}, name \in Names :
           LET pkg == file[m_FilePath]
               n == OpenPackage(pkg, None)
               next == CreateSavePoint(m_FilePath, pkg, n,
                           Payload(patch, pkg.folder[n.active].sides),
                           name, FALSE)
           IN  next # None /\ Write("import", m_FilePath, next)

-----------------------------------------------------------------------------
(* The write.  Every container builds the package beside the target; ZIP    *)
(* and tar then rename it over the target, a directory is set aside first.  *)

\* What the host takes over after a successful write.
Adopt ==
    LET count == Len(job.package.list)
        id == job.package.current
    IN  CASE job.op = "saveas" ->
               /\ m_FilePath' = job.path /\ m_BranchID' = None
               /\ open' = id /\ UNCHANGED <<m_SavePointCount, live>>
          [] job.op \in {"replace", "new"} ->
               /\ m_BranchID' = id /\ m_SavePointCount' = count
               /\ open' = id /\ UNCHANGED <<m_FilePath, live>>
          [] job.op = "import" ->
               /\ m_SavePointCount' = count
               /\ UNCHANGED <<m_FilePath, m_BranchID, live, open>>

At(step) == job # None /\ job.step = step

IsDirectory(p) == p \in Directories /\ file[p] # NoFile

\* rename(temporary, path); a package set aside is then removed.
Replace ==
    /\ \/ At("write") /\ ~IsDirectory(job.path) /\ UNCHANGED aside
       \/ At("aside") /\ aside' = [aside EXCEPT ![job.path] = @ \ {job.old}]
    /\ file' = [file EXCEPT ![job.path] = job.package]
    /\ Adopt
    /\ job' = None
    /\ UNCHANGED <<text, nextID, crashes>>

\* A directory that is removed, and not set aside.
SetNotAside ==
    /\ At("write") /\ IsDirectory(job.path)
    /\ job' = [op |-> job.op, path |-> job.path, package |-> job.package,
               step |-> "aside", old |-> file[job.path]]
    /\ file' = [file EXCEPT ![job.path] = NoFile]
    /\ UNCHANGED <<text, aside, host, nextID, crashes>>

\* Directory: rename(path, previous).
SetAside ==
    /\ At("write") /\ IsDirectory(job.path)
    /\ LET old == file[job.path]
       IN  /\ aside' = [aside EXCEPT ![job.path] = @ \cup {old}]
           /\ job' = [op |-> job.op, path |-> job.path, package |-> job.package,
                      step |-> "aside", old |-> old]
    /\ file' = [file EXCEPT ![job.path] = NoFile]
    /\ UNCHANGED <<text, host, nextID, crashes>>

\* Building the new package, or setting the old one aside, fails.
WriteFails == /\ At("write")
              /\ job' = None
              /\ UNCHANGED <<disk, host, nextID, crashes>>

\* The second rename fails; so may the one that puts the old package back.
ReplaceFails ==
    /\ At("aside")
    /\ \/ UNCHANGED <<file, aside>>
       \/ /\ file' = [file EXCEPT ![job.path] = job.old]
          /\ aside' = [aside EXCEPT ![job.path] = @ \ {job.old}]
    /\ job' = None
    /\ UNCHANGED <<text, host, nextID, crashes>>

\* The process ends during a write and is started again.
Crash == /\ job # None /\ crashes < MaxCrashes
         /\ crashes' = crashes + 1
         /\ job' = None
         /\ m_FilePath' = None /\ m_BranchID' = None /\ m_SavePointCount' = 0
         /\ live' = Empty /\ open' = None
         /\ UNCHANGED <<disk, nextID>>

Next == \/ Edit \/ New \/ Load \/ LoadPlain \/ OpenSavePoint
        \/ \E p \in Packages : SavePackageAs(p)
        \/ SavePlain \/ SaveReplace \/ SaveNew \/ Import
        \/ Replace \/ SetAside \/ WriteFails \/ ReplaceFails \/ Crash

Spec == Init /\ [][Next]_vars

-----------------------------------------------------------------------------
(* The step in which a command has decided what it writes to p.             *)
Begins(p) == /\ job = None /\ job' # None
             /\ job'.path = p /\ file[p] # NoFile /\ job'.op # "saveas"

\* The branch b of p is not changed by what is going to be written.
Keeps(p, b) == /\ b \in DOMAIN job'.package.folder
               /\ job'.package.folder[b] = file[p].folder[b]

\* The open branch is known to the host, and by its name alone.
KnownByName(p) ==
    LET list == file[p].list
    IN  \E i \in DOMAIN list :
            /\ list[i].id = m_BranchID /\ list[i].name # Unnamed
            /\ \A j \in DOMAIN list : list[j].name = list[i].name => j = i

(* A save point or an import changes no branch of the package it is added   *)
(* to, whatever the user calls it; replacing the current save point changes *)
(* that one only, as long as the host knows its id and its name is its own  *)
(* (Project.cpp:288, Package.cpp:101, SpiralSynthModular.C:2397).            *)
OthersKept ==
    [][\A p \in Packages : Begins(p) =>
          \A b \in DOMAIN file[p].folder :
             \/ Keeps(p, b)
             \/ job'.op = "replace" /\ (KnownByName(p) => b = m_BranchID)]_vars

(* Every folder of a package that is written is a branch of its manifest,   *)
(* once, the folders the old manifest did not list included; one of them is *)
(* the current one, so that the package can be opened again                 *)
(* (Identity.cpp:115, Project.cpp:257).                                     *)
Accounted ==
    job # None =>
        LET ids == [i \in DOMAIN job.package.list |-> job.package.list[i].id]
        IN  /\ IsInjective(ids) /\ ToSet(ids) = DOMAIN job.package.folder
            /\ OpenPackage(job.package, None) # None

(* A package that was there is still at its path, or beside it under the    *)
(* name Directory gave it: neither a rename that fails nor the end of the   *)
(* process between two of them leaves nothing (Directory.cpp:142).          *)
NeverLost ==
    [][\A p \in Packages :
          /\ file[p] # NoFile => file'[p] # NoFile \/ file[p] \in aside'[p]
          /\ aside[p] # {} => file'[p] # NoFile \/ aside'[p] # {}]_vars

(* "Same package: overwrite the open branch and keep the others"            *)
(* (SpiralSynthModular.C:1821).  Violated: Save As forgets the branch id,   *)
(* an import makes its branch the current one, and the next Save replaces   *)
(* that one with the patch on the canvas.                                   *)
KeepTheOthers ==
    [][\A p \in Packages : Begins(p) /\ job'.op = "replace" =>
          \A b \in DOMAIN file[p].folder \ {open} : Keeps(p, b)]_vars
=============================================================================
