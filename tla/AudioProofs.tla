------------------------------ MODULE AudioProofs ------------------------------
(***************************************************************************)
(* Proofs about the two ends of the audio driver.  TransportHub, for any   *)
(* number of Output devices: the hub's mode is the state of its client,    *)
(* and what the user has closed stays closed.  TimingMailbox, for every    *)
(* set of words and every number of publications: the safety properties    *)
(* and the refinement of the latest-value register.  The two have nothing  *)
(* in common but the client; each has an invariant of its own.             *)
(***************************************************************************)
EXTENDS TransportHub, TimingMailbox, Integers, SequenceTheorems, TLAPS

-----------------------------------------------------------------------------
(* The hub.                                                                *)

Hub == [m_Members : Seq(Devices), m_Configured : BOOLEAN, m_Mode : Modes,
        m_RequestedMode : Opens \cup {"CLOSED"}, waiting : BOOLEAN,
        IsAttached : BOOLEAN, m_Failed : BOOLEAN, registered : BOOLEAN]

\* ModeIsTheClients of a hub.
Agrees(h) == /\ h.m_Mode \in Opens <=> h.registered
             /\ h.IsAttached => h.registered

\* A hub that cannot open has nothing open: OpenMode leaves the client as it
\* is when it does not try, and calls the mode CLOSED.
Grounded(h) == ~h.m_Configured \/ h.m_Members = << >> => ~h.registered

Consistent(h) == h \in Hub /\ Agrees(h) /\ Grounded(h)

\* Closed in every book of the hub, so that nothing finds a mode to open.
Shut(h) == /\ h.m_RequestedMode = "CLOSED" /\ h.m_Mode = "CLOSED"
           /\ ~h.registered /\ ~h.IsAttached

\* Between two cycles nobody is being visited.
AtRest == gate = Nobody => todo = {} /\ current = Nobody

IInv == /\ TypeOK /\ AtRest
        /\ Consistent(hub)
        /\ wanted = "CLOSED" => Shut(hub)

-----------------------------------------------------------------------------
(* Lists of members.                                                       *)

\* Removing an element from a list that has it once.
LEMMA RemoveOne ==
    ASSUME NEW S, NEW s \in Seq(S), NEW e, IsInjective(s), Contains(s, e)
    PROVE  /\ RemoveFirst(s, e) \in Seq(S)
           /\ ToSet(RemoveFirst(s, e)) = ToSet(s) \ {e}
           /\ IsInjective(RemoveFirst(s, e))
           /\ s # <<e>> => RemoveFirst(s, e) # << >>
<1>1. PICK k \in 1 .. Len(s) : s[k] = e
    BY DEF Contains
<1>2. {i \in 1 .. Len(s) : s[i] = e} = {k}
    BY <1>1 DEF IsInjective
<1>3. SelectInSeq(s, LAMBDA v : v = e) = k
    BY <1>2 DEF SelectInSeq, Min
<1>4. RemoveFirst(s, e) = SubSeq(s, 1, k - 1) \o SubSeq(s, k + 1, Len(s))
    BY <1>1, <1>3 DEF RemoveFirst, RemoveAt
<1> DEFINE r == RemoveFirst(s, e)
<1>5. /\ r \in Seq(S) /\ Len(r) = Len(s) - 1
      /\ \A i \in 1 .. Len(s) - 1 : r[i] = IF i < k THEN s[i] ELSE s[i + 1]
    <2> DEFINE a == SubSeq(s, 1, k - 1)
               b == SubSeq(s, k + 1, Len(s))
    <2>1. a \in Seq(S) /\ Len(a) = k - 1 /\ \A i \in 1 .. k - 1 : a[i] = s[i]
        BY SubSeqProperties, ElementOfSeq, 1 \in Int, k - 1 \in Int
    <2>2. b \in Seq(S) /\ Len(b) = Len(s) - k /\ \A i \in 1 .. Len(s) - k : b[i] = s[k + i]
        BY SubSeqProperties, ElementOfSeq, k + 1 \in Int, Len(s) \in Int
    <2> HIDE DEF a, b, r
    <2>3. r = a \o b
        BY <1>4 DEF a, b, r
    <2>4. /\ r \in Seq(S) /\ Len(r) = Len(s) - 1
          /\ \A i \in 1 .. Len(s) - 1 : r[i] = IF i <= k - 1 THEN a[i] ELSE b[i - (k - 1)]
        <3>1. /\ a \o b \in Seq(S) /\ Len(a \o b) = Len(a) + Len(b)
              /\ \A i \in 1 .. Len(a) + Len(b) :
                    (a \o b)[i] = IF i <= Len(a) THEN a[i] ELSE b[i - Len(a)]
            BY <2>1, <2>2, ConcatProperties
        <3>2. Len(a) + Len(b) = Len(s) - 1
            BY <2>1, <2>2
        <3> QED
            BY <2>1, <2>3, <3>1, <3>2
    <2>5. ASSUME NEW i \in 1 .. Len(s) - 1
          PROVE  r[i] = IF i < k THEN s[i] ELSE s[i + 1]
        <3>1. CASE i < k
            BY <2>1, <2>4, <3>1
        <3>2. CASE ~(i < k)
            <4>1. i - (k - 1) \in 1 .. Len(s) - k /\ k + (i - (k - 1)) = i + 1
                BY <3>2
            <4> QED
                BY <2>2, <2>4, <3>2, <4>1
        <3> QED
            BY <3>1, <3>2
    <2> QED
        BY <2>4, <2>5
<1> HIDE DEF r
<1>6. ToSet(r) = ToSet(s) \ {e}
    <2>1. DOMAIN r = 1 .. Len(s) - 1
        BY <1>5
    <2>2. ASSUME NEW x \in ToSet(r) PROVE x \in ToSet(s) \ {e}
        <3>1. PICK i \in 1 .. Len(s) - 1 : x = r[i]
            BY <2>1, <2>2 DEF ToSet
        <3>2. PICK j \in 1 .. Len(s) : x = s[j] /\ j # k
            BY <1>5, <3>1
        <3> QED
            BY <1>1, <3>2 DEF ToSet, IsInjective
    <2>3. ASSUME NEW x \in ToSet(s) \ {e} PROVE x \in ToSet(r)
        <3>1. PICK i \in 1 .. Len(s) : x = s[i] /\ i # k
            BY <1>1, <2>3 DEF ToSet
        <3>2. CASE i < k
            BY <1>5, <2>1, <3>1, <3>2 DEF ToSet
        <3>3. CASE i > k
            <4>1. i - 1 \in 1 .. Len(s) - 1 /\ r[i - 1] = s[i]
                BY <1>5, <3>1, <3>3
            <4> QED
                BY <2>1, <3>1, <4>1 DEF ToSet
        <3> QED
            BY <3>1, <3>2, <3>3
    <2> QED
        BY <2>2, <2>3
<1>7. IsInjective(r)
    <2> SUFFICES ASSUME NEW i \in 1 .. Len(s) - 1, NEW j \in 1 .. Len(s) - 1, r[i] = r[j]
                 PROVE  i = j
        BY <1>5 DEF IsInjective
    <2> DEFINE at(n) == IF n < k THEN n ELSE n + 1
    <2>1. at(i) \in DOMAIN s /\ at(j) \in DOMAIN s /\ s[at(i)] = s[at(j)]
        BY <1>5
    <2>2. at(i) = at(j)
        BY <2>1 DEF IsInjective
    <2> QED
        BY <2>2
<1>8. s # <<e>> => r # << >>
    BY <1>1, <1>5
<1> QED
    BY <1>5, <1>6, <1>7, <1>8 DEF r

LEMMA AppendOne ==
    ASSUME NEW S, NEW s \in Seq(S), NEW e \in S, IsInjective(s), ~Contains(s, e)
    PROVE  /\ Append(s, e) \in Seq(S) /\ Append(s, e) # << >>
           /\ ToSet(Append(s, e)) = ToSet(s) \cup {e}
           /\ IsInjective(Append(s, e))
<1> DEFINE r == Append(s, e)
<1>1. /\ r \in Seq(S) /\ Len(r) = Len(s) + 1 /\ r # << >>
      /\ r[Len(s) + 1] = e /\ \A i \in 1 .. Len(s) : r[i] = s[i]
    OBVIOUS
<1>2. DOMAIN r = 1 .. Len(s) + 1 /\ DOMAIN s = 1 .. Len(s) /\ Len(s) \in Nat
    BY <1>1
<1>3. \A i \in 1 .. Len(s) : s[i] # e
    BY DEF Contains
<1> HIDE DEF r
<1>4. ToSet(r) = ToSet(s) \cup {e}
    BY <1>1, <1>2 DEF ToSet
<1>5. IsInjective(r)
    <2> SUFFICES ASSUME NEW i \in 1 .. Len(s) + 1, NEW j \in 1 .. Len(s) + 1, r[i] = r[j]
                 PROVE  i = j
        BY <1>2 DEF IsInjective
    <2>1. CASE i \in 1 .. Len(s) /\ j \in 1 .. Len(s)
        BY <1>1, <1>2, <2>1 DEF IsInjective
    <2>2. CASE i = Len(s) + 1 \/ j = Len(s) + 1
        BY <1>1, <1>2, <1>3, <2>2
    <2> QED
        BY <1>2, <2>1, <2>2
<1> QED
    BY <1>1, <1>4, <1>5 DEF r

LEMMA ContainsToSet == ASSUME NEW S, NEW s \in Seq(S), NEW e
                       PROVE  Contains(s, e) <=> e \in ToSet(s)
BY DEF Contains, ToSet

-----------------------------------------------------------------------------
(* The hub's calls keep it consistent.                                     *)

LEMMA OpenModeConsistent ==
    ASSUME NEW h, Consistent(h), NEW mode \in Opens \cup {"CLOSED"}, NEW outcome \in Outcomes,
           mode \in Opens \/ ~h.registered
    PROVE  /\ Consistent(OpenMode(h, mode, outcome))
           /\ OpenMode(h, mode, outcome).m_Members = h.m_Members
<1> USE DEF Consistent, Agrees, Grounded, Hub, Modes, Opens
<1>1. CASE MayOpen(h, mode)
    BY <1>1 DEF MayOpen, OpenMode, OpenClient, CloseClient, Outcomes
<1>2. CASE ~MayOpen(h, mode)
    BY <1>2 DEF MayOpen, OpenMode
<1> QED
    BY <1>1, <1>2

LEMMA CloseConsistent ==
    ASSUME NEW h, Consistent(h)
    PROVE  /\ Consistent(Close(h)) /\ Close(h).m_Members = h.m_Members
           /\ Shut(Close(h))
BY DEF Consistent, Agrees, Grounded, Hub, Modes, Opens, Close, CloseClient, Shut

LEMMA ReconfigureConsistent ==
    ASSUME NEW h, Consistent(h), NEW configured \in BOOLEAN, NEW outcome \in Outcomes
    PROVE  /\ Consistent(Reconfigure(h, configured, outcome))
           /\ Reconfigure(h, configured, outcome).m_Members = h.m_Members
           /\ Shut(h) => Shut(Reconfigure(h, configured, outcome))
<1> DEFINE c == [CloseClient(h) EXCEPT !.m_Configured = configured, !.m_Mode = "CLOSED"]
           mode == IF h.m_Mode = "NO_MODE" THEN "OUTPUT" ELSE h.m_Mode
<1>1. Consistent(c) /\ c.m_Members = h.m_Members /\ ~c.registered
    BY DEF Consistent, Agrees, Grounded, Hub, Modes, Opens, CloseClient
<1>2. mode \in Opens \cup {"CLOSED"}
    BY DEF Consistent, Hub, Modes, Opens
<1>3. Reconfigure(h, configured, outcome) = OpenMode(c, mode, outcome)
    <2> DEFINE b == [CloseClient(h) EXCEPT !.m_Configured = configured]
               after(t) == [t EXCEPT !.m_RequestedMode = mode, !.waiting = TRUE,
                                     !.m_Mode = IF MayOpen(c, mode) /\ outcome = "open"
                                                THEN mode ELSE "CLOSED"]
    <2>1. h \in Hub /\ b \in Hub /\ c = [b EXCEPT !.m_Mode = "CLOSED"]
        BY DEF Consistent, Hub, CloseClient, Modes
    <2> HIDE DEF b, c, mode
    <2>2. MayOpen(b, mode) <=> MayOpen(c, mode)
        BY <2>1 DEF MayOpen, Hub
    <2>3. OpenClient(c, outcome) = [OpenClient(b, outcome) EXCEPT !.m_Mode = "CLOSED"]
        BY <2>1 DEF OpenClient, CloseClient, Hub, Outcomes
    <2>4. OpenClient(b, outcome) \in Hub
        BY <2>1 DEF OpenClient, CloseClient, Hub, Outcomes
    <2>5. \A t \in Hub : after([t EXCEPT !.m_Mode = "CLOSED"]) = after(t)
        BY DEF Hub
    <2>6. OpenMode(b, mode, outcome) = OpenMode(c, mode, outcome)
        <3>1. CASE MayOpen(c, mode)
            BY <2>2, <2>3, <2>4, <2>5, <3>1 DEF OpenMode
        <3>2. CASE ~MayOpen(c, mode)
            BY <2>1, <2>2, <2>5, <3>2 DEF OpenMode
        <3> QED
            BY <3>1, <3>2
    <2> QED
        BY <2>6 DEF Reconfigure, b, mode
<1>4. Shut(h) => Shut(OpenMode(c, mode, outcome))
    BY DEF Shut, OpenMode, MayOpen, CloseClient, Opens, Consistent, Hub
<1> HIDE DEF c, mode
<1> QED
    BY <1>1, <1>2, <1>3, <1>4, OpenModeConsistent

LEMMA ServiceConsistent ==
    ASSUME NEW h, Consistent(h), NEW first \in Outcomes, NEW second \in Outcomes
    PROVE  /\ Consistent(Service(h, first, second))
           /\ Service(h, first, second).m_Members = h.m_Members
           /\ Shut(h) => Service(h, first, second) = h
<1> DEFINE opened == ServiceOpened(h, first)
<1>1. Consistent(opened) /\ opened.m_Members = h.m_Members
    BY OpenModeConsistent DEF ServiceOpened, Opens
<1>2. /\ Consistent(GivenUp(opened)) /\ GivenUp(opened).m_Members = h.m_Members
      /\ GivenUp(opened).m_RequestedMode = opened.m_RequestedMode
    BY <1>1 DEF GivenUp, CloseClient, Consistent, Agrees, Grounded, Hub, Modes, Opens
<1>3. opened.m_RequestedMode \in Opens =>
         /\ Consistent(Retry(GivenUp(opened), second))
         /\ Retry(GivenUp(opened), second).m_Members = h.m_Members
    BY <1>2, OpenModeConsistent DEF Retry
<1>4. Shut(h) => opened = h /\ opened.m_RequestedMode \notin Opens
    BY DEF Shut, ServiceOpened, Opens
<1> HIDE DEF opened
<1> QED
    BY <1>1, <1>3, <1>4 DEF Service, opened

LEMMA AttachConsistent ==
    ASSUME NEW h, Consistent(h), NEW d \in Devices, NEW configured \in BOOLEAN,
           ~Contains(h.m_Members, d), IsInjective(h.m_Members)
    PROVE  /\ Consistent(Attach(h, d, configured))
           /\ Attach(h, d, configured).m_Members = Append(h.m_Members, d)
           /\ Shut(h) => Shut(Attach(h, d, configured))
<1>1. Append(h.m_Members, d) \in Seq(Devices) /\ Append(h.m_Members, d) # << >>
    BY AppendOne DEF Consistent, Hub
<1> QED
    BY <1>1 DEF Attach, CloseClient, Consistent, Agrees, Grounded, Hub, Modes, Opens, Shut

LEMMA DetachConsistent ==
    ASSUME NEW h, Consistent(h), NEW d, Contains(h.m_Members, d), IsInjective(h.m_Members)
    PROVE  /\ Consistent(Detach(h, d))
           /\ ToSet(Detach(h, d).m_Members) = ToSet(h.m_Members) \ {d}
           /\ IsInjective(Detach(h, d).m_Members)
           /\ Shut(h) => Shut(Detach(h, d)) \/ Detach(h, d).m_Members = << >>
<1>1. CASE h.m_Members = <<d>>
    <2>1. ToSet(<<d>>) \ {d} = {} /\ ToSet(<< >>) = {} /\ IsInjective(<< >>)
        BY DEF ToSet, IsInjective
    <2>4. Contains(h.m_Members, d)
        OBVIOUS
    <2>2. Detach(h, d) = [CloseClient(h) EXCEPT !.m_Members = << >>, !.m_Mode = "NO_MODE",
                                           !.m_Configured = FALSE, !.m_Failed = FALSE]
        BY <1>1, <2>4 DEF Detach
    <2>3. Consistent(Detach(h, d)) /\ Detach(h, d).m_Members = << >>
        <3>1. << >> \in Seq(Devices)
            OBVIOUS
        <3>2. h \in Hub
            BY DEF Consistent
        <3>3. /\ CloseClient(h) \in Hub
              /\ ~CloseClient(h).registered /\ ~CloseClient(h).IsAttached
            BY <3>2 DEF CloseClient, Hub
        <3> HIDE DEF CloseClient
        <3> QED
            BY <2>2, <3>1, <3>3 DEF Consistent, Agrees, Grounded, Hub, Modes, Opens
    <2> QED
        BY <1>1, <2>1, <2>3
<1>2. CASE h.m_Members # <<d>>
    <2> DEFINE r == RemoveFirst(h.m_Members, d)
    <2>1. r \in Seq(Devices) /\ ToSet(r) = ToSet(h.m_Members) \ {d} /\ IsInjective(r)
          /\ r # << >>
        BY <1>2, RemoveOne DEF Consistent, Hub
    <2>2. Detach(h, d) = [h EXCEPT !.m_Members = r]
        BY <1>2 DEF Detach
    <2> HIDE DEF r
    <2> QED
        BY <2>1, <2>2 DEF Consistent, Agrees, Grounded, Hub, Shut
<1> QED
    BY <1>1, <1>2

-----------------------------------------------------------------------------
(* The invariant.                                                          *)

LEMMA InitIInv == Init => IInv
<1> SUFFICES ASSUME Init PROVE IInv
    OBVIOUS
<1>1. ToSet(<< >>) = {} /\ IsInjective(<< >>)
    BY DEF ToSet, IsInjective
<1>2. TypeOK
    BY <1>1 DEF Init, TypeOK, Modes, Opens, Nobody
<1>3. AtRest /\ Consistent(hub) /\ wanted # "CLOSED"
    BY DEF Init, AtRest, Consistent, Agrees, Grounded, Hub, Modes, Opens, Nobody
<1> QED
    BY <1>2, <1>3 DEF IInv

\* What is reported, whatever is reported.
LEMMA ReportedType ==
    ASSUME TypeOK, NEW h, Consistent(h)
    PROVE  Reported(h) \in [Devices -> Modes]
BY DEF TypeOK, Reported, Consistent, Hub

LEMMA EngineIInv == IInv /\ Engine => IInv'
<1> SUFFICES ASSUME IInv, Engine PROVE IInv'
    OBVIOUS
<1>1. CASE StartCycle
    BY <1>1 DEF StartCycle, IInv, TypeOK, AtRest, Nobody
<1>2. ASSUME NEW d \in Devices, ExecuteCommands(d) PROVE IInv'
    <2> USE <1>2 DEF ExecuteCommands, IInv
    <2> DEFINE Kept == /\ Consistent(hub') /\ hub'.m_Members = hub.m_Members
                       /\ reported' \in [Devices -> Modes]
                       /\ wanted' = "CLOSED" => Shut(hub')
    <2>1. Kept
        <3>1. CASE UNCHANGED <<hub, reported, wanted>>
            BY <3>1 DEF TypeOK
        <3>2. ASSUME NEW mode \in Opens, NEW outcome \in Outcomes,
                     hub' = OpenMode(hub, mode, outcome), reported' = Reported(hub'),
                     wanted' = mode
              PROVE  Kept
            BY <3>2, OpenModeConsistent, ReportedType DEF Opens
        <3>3. CASE hub' = Close(hub) /\ reported' = Reported(hub') /\ wanted' = "CLOSED"
            BY <3>3, CloseConsistent, ReportedType
        <3> QED
            BY <3>1, <3>2, <3>3
    <2> QED
        BY <2>1 DEF TypeOK, AtRest, Consistent, Hub, Nobody
<1>3. CASE ServiceAudio
    <2> USE <1>3 DEF ServiceAudio, IInv
    <2> DEFINE Kept == /\ Consistent(hub') /\ hub'.m_Members = hub.m_Members
                       /\ reported' \in [Devices -> Modes]
                       /\ wanted' = "CLOSED" => Shut(hub')
    <2>1. Kept
        <3>1. CASE UNCHANGED <<hub, reported>>
            BY <3>1 DEF TypeOK
        <3>2. ASSUME NEW first \in Outcomes, NEW second \in Outcomes,
                     hub' = Service(hub, first, second),
                     reported' \in {reported, Reported(hub')}
              PROVE  Kept
            BY <3>2, ServiceConsistent, ReportedType DEF TypeOK
        <3> QED
            BY <3>1, <3>2
    <2> QED
        BY <2>1 DEF TypeOK, AtRest, Consistent, Hub, Nobody
<1>4. ASSUME NEW d \in Devices, Reset(d) PROVE IInv'
    <2> USE <1>4 DEF Reset, IInv
    <2> DEFINE Kept == /\ Consistent(hub') /\ hub'.m_Members = hub.m_Members
                       /\ reported' \in [Devices -> Modes]
                       /\ wanted' = "CLOSED" => Shut(hub')
    <2>1. Kept
        <3>1. CASE UNCHANGED <<hub, reported>>
            BY <3>1 DEF TypeOK
        <3>2. ASSUME NEW configured \in BOOLEAN, NEW outcome \in Outcomes,
                     hub' = Reconfigure(hub, configured, outcome),
                     reported' = Reported(hub')
              PROVE  Kept
            BY <3>2, ReconfigureConsistent, ReportedType
        <3> QED
            BY <3>1, <3>2
    <2> QED
        BY <2>1 DEF TypeOK, AtRest, Consistent, Hub, Nobody
<1>5. CASE EndCycle
    BY <1>5 DEF EndCycle, IInv, TypeOK, AtRest, Nobody
<1> QED
    BY <1>1, <1>2, <1>3, <1>4, <1>5 DEF Engine

LEMMA ControlIInv ==
    IInv /\ (UpdateHostInfo \/ \E d \in Devices : Construct(d) \/ Initialise(d) \/ Kill(d))
        => IInv'
<1> SUFFICES ASSUME IInv,
                    UpdateHostInfo \/ \E d \in Devices : Construct(d) \/ Initialise(d) \/ Kill(d)
             PROVE  IInv'
    OBVIOUS
<1>1. CASE UpdateHostInfo
    BY <1>1 DEF UpdateHostInfo, IInv, TypeOK, AtRest
<1>2. ASSUME NEW d \in Devices, Construct(d) PROVE IInv'
    BY <1>2 DEF Construct, IInv, TypeOK, AtRest, Consistent, Hub
<1>3. ASSUME NEW d \in Devices, Initialise(d) PROVE IInv'
    <2> USE <1>3 DEF Initialise, IInv
    <2>1. PICK configured \in BOOLEAN : hub' = Attach(hub, d, configured)
        OBVIOUS
    <2>2. hub.m_Members \in Seq(Devices) /\ IsInjective(hub.m_Members)
        BY DEF TypeOK, Consistent, Hub
    <2>3. ~Contains(hub.m_Members, d)
        BY <2>2, ContainsToSet DEF TypeOK
    <2>4. /\ ToSet(Append(hub.m_Members, d)) = ToSet(hub.m_Members) \cup {d}
          /\ IsInjective(Append(hub.m_Members, d))
        BY <2>2, <2>3, AppendOne
    <2>5. /\ Consistent(hub') /\ hub'.m_Members = Append(hub.m_Members, d)
          /\ Shut(hub) => Shut(hub')
        BY <2>1, <2>2, <2>3, AttachConsistent
    <2>6. ToSet(hub'.m_Members) = {e \in Devices : device'[e] = "live"}
        BY <2>4, <2>5 DEF TypeOK
    <2> QED
        BY <2>4, <2>5, <2>6 DEF TypeOK, AtRest, Consistent, Hub
<1>4. ASSUME NEW d \in Devices, Kill(d) PROVE IInv'
    <2> USE <1>4 DEF Kill, IInv
    <2>1. hub.m_Members \in Seq(Devices) /\ IsInjective(hub.m_Members)
        BY DEF TypeOK, Consistent, Hub
    <2>2. Contains(hub.m_Members, d)
        BY <2>1, ContainsToSet DEF TypeOK
    <2>3. /\ Consistent(hub') /\ ToSet(hub'.m_Members) = ToSet(hub.m_Members) \ {d}
          /\ IsInjective(hub'.m_Members)
          /\ Shut(hub) => Shut(hub') \/ hub'.m_Members = << >>
        BY <2>1, <2>2, DetachConsistent
    <2>4. ToSet(hub'.m_Members) = {e \in Devices : device'[e] = "live"}
        BY <2>3 DEF TypeOK
    <2> QED
        BY <2>3, <2>4 DEF TypeOK, AtRest, Consistent, Hub
<1> QED
    BY <1>1, <1>2, <1>3, <1>4

\* The driver and the clock.
LEMMA OthersIInv == IInv /\ (Trouble \/ Health \/ Second) => IInv'
<1> SUFFICES ASSUME IInv, Trouble \/ Health \/ Second PROVE IInv'
    OBVIOUS
<1>1. Consistent(hub') /\ hub'.m_Members = hub.m_Members /\ (Shut(hub) => Shut(hub'))
      /\ hub'.m_Mode = hub.m_Mode /\ hub'.m_RequestedMode = hub.m_RequestedMode
    BY DEF Trouble, Health, Second, IInv, Consistent, Agrees, Grounded, Hub, Shut
<1> QED
    BY <1>1 DEF Trouble, Health, Second, IInv, TypeOK, AtRest

\* IInv is inductive.
THEOREM Invariance == Spec => []IInv
<1>1. IInv /\ UNCHANGED vars => IInv'
    BY DEF vars, IInv, TypeOK, AtRest
<1>2. IInv /\ [Next]_vars => IInv'
    BY <1>1, EngineIInv, ControlIInv, OthersIInv DEF Next
<1> QED
    BY <1>2, InitIInv, PTL DEF Spec

\* The members of the hub are the Output devices that are alive, each once.
THEOREM TypeCorrect == Spec => []TypeOK
<1>1. IInv => TypeOK
    BY DEF IInv
<1> QED
    BY <1>1, Invariance, PTL

\* The hub's mode is the state of its client.
THEOREM ModesAgree == Spec => []ModeIsTheClients
<1>1. IInv => ModeIsTheClients
    BY DEF IInv, Consistent, Agrees, ModeIsTheClients
<1> QED
    BY <1>1, Invariance, PTL

\* Nothing opens what the user has closed.
THEOREM StaysClosed == Spec => []ClosedStaysClosed
<1>1. IInv => ClosedStaysClosed
    BY DEF IInv, Shut, ClosedStaysClosed
<1> QED
    BY <1>1, Invariance, PTL

-----------------------------------------------------------------------------
(* The mailbox.                                                            *)

\* The word that stands for a slot is a word.
LEMMA SomeWord == (CHOOSE w \in Words : TRUE) \in Words
BY WordsAssumption

\* Arithmetic of the exchanged word: a flagged slot is recovered by the mask,
\* an unflagged one is its own value (the | 4 and & 3 of the code).
LEMMA MiddleWord ==
  ASSUME NEW s \in Slots
  PROVE  /\ SlotOf(s) = s
         /\ ~ IsFresh(s)
         /\ SlotOf(Flagged(s)) = s
         /\ IsFresh(Flagged(s))
BY SMT DEF Slots, SlotOf, IsFresh, Flagged

\* Whatever m_Middle holds, its low bits name a slot.
LEMMA MiddleSlot ==
  ASSUME MailboxTypeOK
  PROVE  SlotOf(m_Middle) \in Slots
BY MiddleWord DEF MailboxTypeOK

-----------------------------------------------------------------------------
\* The constructor establishes the invariant.
LEMMA InitInv == MailboxInit => Inv
<1> SUFFICES ASSUME MailboxInit PROVE Inv
  OBVIOUS
<1>1. 2 \in Slots /\ SlotOf(2) = 2 /\ ~ IsFresh(2)
  BY MiddleWord DEF Slots
<1>2. MailboxTypeOK
  BY <1>1, MaxPublishedAssumption DEF MailboxInit, MailboxTypeOK, Slots
<1>3. SlotsDisjoint
  BY <1>1 DEF MailboxInit, SlotsDisjoint
<1>4. WriterHalfway
  BY DEF MailboxInit, WriterHalfway
<1>5. Whole(m_Front, 0) /\ Taken = 0 /\ Published = 0
  BY SomeWord DEF MailboxInit, Whole, Taken, Published, Slots
<1>6. ReaderHalfway
  BY DEF MailboxInit, ReaderHalfway, Slots
<1>7. FrontIsWhole /\ NewestIsOffered
  BY <1>1, <1>5 DEF MailboxInit, FrontIsWhole, NewestIsOffered
<1> QED
  BY <1>2, <1>3, <1>4, <1>6, <1>7 DEF Inv

\* Publish and Read keep the invariant, word by word.
LEMMA NextInv == Inv /\ [MailboxNext]_mailbox => Inv'
<1> SUFFICES ASSUME Inv, [MailboxNext]_mailbox PROVE Inv'
  OBVIOUS
<1> USE DEF Inv
<1>0. SlotOf(m_Middle) \in Slots /\ (CHOOSE w \in Words : TRUE) \in Words
  BY MiddleSlot, SomeWord
<1>1. CASE BeginPublish
  <2>1. MailboxTypeOK' /\ SlotsDisjoint' /\ WriterHalfway' /\ ReaderHalfway'
    BY <1>1, MaxPublishedAssumption
       DEF BeginPublish, MailboxTypeOK, SlotsDisjoint, WriterHalfway, ReaderHalfway
  <2>2. Published' = Published /\ Taken' = Taken
    BY <1>1 DEF BeginPublish, Published, Taken, MailboxTypeOK
  <2>3. FrontIsWhole' /\ NewestIsOffered'
    BY <1>1, <2>2 DEF BeginPublish, FrontIsWhole, NewestIsOffered, Whole
  <2> QED
    BY <2>1, <2>3
<1>2. ASSUME NEW w \in Words, StoreWord(w) PROVE Inv'
  <2>1. MailboxTypeOK' /\ SlotsDisjoint'
    BY <1>2 DEF StoreWord, MailboxTypeOK, SlotsDisjoint
  <2>2. WriterHalfway'
    BY <1>2 DEF StoreWord, MailboxTypeOK, WriterHalfway
  <2>3. \A s \in Slots : s # m_Back => m_Slots'[s] = m_Slots[s]
    BY <1>2 DEF StoreWord, MailboxTypeOK
  <2>4. m_Front \in Slots /\ m_Front # m_Back /\ SlotOf(m_Middle) # m_Back
    BY DEF MailboxTypeOK, SlotsDisjoint
  <2>5. ReaderHalfway'
    BY <1>2, <2>3, <2>4 DEF StoreWord, ReaderHalfway
  <2>6. Published' = Published /\ Taken' = Taken
    BY <1>2, <2>3, <2>4 DEF StoreWord, Published, Taken
  <2>7. FrontIsWhole' /\ NewestIsOffered'
    BY <1>0, <1>2, <2>3, <2>4, <2>6 DEF StoreWord, FrontIsWhole, NewestIsOffered, Whole
  <2> QED
    BY <2>1, <2>2, <2>5, <2>7
<1>3. CASE ExchangeBack
  <2>1. m_Back \in Slots
    BY DEF MailboxTypeOK
  <2>2. SlotOf(m_Middle') = m_Back /\ IsFresh(m_Middle')
    BY <1>3, <2>1, MiddleWord DEF ExchangeBack
  <2>3. MailboxTypeOK' /\ SlotsDisjoint' /\ WriterHalfway' /\ ReaderHalfway'
    BY <1>0, <1>3, <2>1, <2>2
       DEF ExchangeBack, MailboxTypeOK, SlotsDisjoint, WriterHalfway, ReaderHalfway
  <2>4. Published' = serial /\ Published = serial - 1 /\ Taken' = Taken
    BY <1>3 DEF ExchangeBack, Published, Taken
  <2>5. Taken \in Nat /\ Taken <= Published /\ serial \in Nat
    BY <1>0 DEF FrontIsWhole, Taken, MailboxTypeOK
  <2>6. FrontIsWhole'
    BY <1>3, <2>4, <2>5 DEF ExchangeBack, FrontIsWhole, Whole
  <2>7. NewestIsOffered'
    BY <1>3, <2>2, <2>4 DEF ExchangeBack, NewestIsOffered, WriterHalfway, Whole
  <2> QED
    BY <2>3, <2>6, <2>7
<1>4. CASE TestFlag
  <2>1. MailboxTypeOK' /\ SlotsDisjoint' /\ WriterHalfway' /\ ReaderHalfway'
    BY <1>4 DEF TestFlag, MailboxTypeOK, SlotsDisjoint, WriterHalfway, ReaderHalfway
  <2>2. FrontIsWhole' /\ NewestIsOffered'
    BY <1>4 DEF TestFlag, FrontIsWhole, NewestIsOffered, Whole, Taken, Published
  <2> QED
    BY <2>1, <2>2
<1>5. CASE ExchangeFront
  <2>1. IsFresh(m_Middle) /\ m_Front \in Slots
    BY <1>5 DEF ExchangeFront, ReaderHalfway, MailboxTypeOK
  <2>2. SlotOf(m_Middle') = m_Front /\ ~ IsFresh(m_Middle')
    BY <1>5, <2>1, MiddleWord DEF ExchangeFront
  <2>3. Whole(SlotOf(m_Middle), Published) /\ Published' = Published
    BY <1>5, <2>1 DEF ExchangeFront, NewestIsOffered, Published
  <2>4. Taken' = Published
    BY <1>0, <1>5, <2>3 DEF ExchangeFront, Taken, Whole
  <2>5. MailboxTypeOK' /\ SlotsDisjoint' /\ WriterHalfway'
    BY <1>0, <1>5, <2>1, <2>2 DEF ExchangeFront, MailboxTypeOK, SlotsDisjoint, WriterHalfway
  <2>6. \A w \in Words : value[w] <= Published
    <3>1. \A w \in Words : value[w] <= Taken /\ value[w] \in Nat
      BY DEF ReaderHalfway, FrontIsWhole, Whole, MailboxTypeOK
    <3>2. Taken < Published /\ Taken \in Nat /\ Published \in Int
      BY <1>0, <2>1 DEF FrontIsWhole, Taken, Published, MailboxTypeOK
    <3> QED
      BY <3>1, <3>2
  <2>7. ReaderHalfway'
    BY <1>5, <2>3, <2>6 DEF ExchangeFront, ReaderHalfway, Whole
  <2>8. Published \in Int
    BY DEF Published, MailboxTypeOK
  <2>9. FrontIsWhole' /\ NewestIsOffered'
    BY <1>5, <2>2, <2>3, <2>4, <2>8 DEF ExchangeFront, FrontIsWhole, NewestIsOffered, Whole
  <2> QED
    BY <2>5, <2>7, <2>9
<1>6. ASSUME NEW w \in Words, CopyWord(w) PROVE Inv'
  <2>1. MailboxTypeOK' /\ SlotsDisjoint' /\ WriterHalfway'
    BY <1>6 DEF CopyWord, MailboxTypeOK, SlotsDisjoint, WriterHalfway
  <2>2. ReaderHalfway'
    BY <1>6 DEF CopyWord, MailboxTypeOK, ReaderHalfway
  <2>3. FrontIsWhole' /\ NewestIsOffered'
    BY <1>6 DEF CopyWord, FrontIsWhole, NewestIsOffered, Whole, Taken, Published
  <2> QED
    BY <2>1, <2>2, <2>3
<1>7. CASE ReturnTrue
  <2>1. MailboxTypeOK' /\ SlotsDisjoint' /\ WriterHalfway' /\ ReaderHalfway'
    BY <1>7 DEF ReturnTrue, MailboxTypeOK, SlotsDisjoint, WriterHalfway, ReaderHalfway
  <2>2. FrontIsWhole' /\ NewestIsOffered'
    BY <1>7 DEF ReturnTrue, FrontIsWhole, NewestIsOffered, Whole, Taken, Published
  <2> QED
    BY <2>1, <2>2
<1>8. CASE UNCHANGED mailbox
  BY <1>8 DEF mailbox, MailboxTypeOK, SlotsDisjoint, WriterHalfway, ReaderHalfway,
     FrontIsWhole, NewestIsOffered, Whole, Taken, Published
<1> QED
  BY <1>1, <1>2, <1>3, <1>4, <1>5, <1>6, <1>7, <1>8 DEF MailboxNext, Publish, Read

\* Inv holds in every state of every use of the mailbox.
THEOREM MailboxInvariance == MailboxSpec => []Inv
BY InitInv, NextInv, PTL DEF MailboxSpec

-----------------------------------------------------------------------------
\* "Each side owns a different slot" (AudioTiming.h): always.
THEOREM Ownership == MailboxSpec => []SlotsDisjoint
<1>1. Inv => SlotsDisjoint
  BY DEF Inv
<1> QED
  BY <1>1, MailboxInvariance, PTL

\* Every variable of the mailbox keeps its type.
THEOREM MailboxTypeCorrect == MailboxSpec => []MailboxTypeOK
<1>1. Inv => MailboxTypeOK
  BY DEF Inv
<1> QED
  BY <1>1, MailboxInvariance, PTL

\* Read never returns a mixture of two structures.
THEOREM ReadIsWhole == MailboxSpec => []NoTornRead
<1>1. Inv => NoTornRead
  BY DEF Inv, ReaderHalfway, FrontIsWhole, NoTornRead, Whole
<1> QED
  BY <1>1, MailboxInvariance, PTL

\* The newest publication is the offered one until it is taken.
THEOREM NothingLost == MailboxSpec => []NewestIsOffered
<1>1. Inv => NewestIsOffered
  BY DEF Inv
<1> QED
  BY <1>1, MailboxInvariance, PTL

\* The caller's structure never gets older.
THEOREM Monotone == MailboxSpec => NeverBackwards
<1>1. Inv /\ [MailboxNext]_mailbox => [\A w \in Words : value'[w] >= value[w]]_mailbox
  <2> SUFFICES ASSUME Inv, MailboxNext PROVE \A w \in Words : value'[w] >= value[w]
    OBVIOUS
  <2>1. \A w \in Words : value[w] \in Nat /\ value[w] <= m_Slots[m_Front][w]
    <3>1. value \in [Words -> 0..MaxPublished]
      BY DEF Inv, MailboxTypeOK
    <3>2. \A w \in Words : value[w] <= m_Slots[m_Front][w]
      BY DEF Inv, ReaderHalfway
    <3>3. \A w \in Words : value[w] \in 0..MaxPublished
      BY <3>1, Zenon
    <3>4. \A n \in 0..MaxPublished : n \in Nat
      BY MaxPublishedAssumption
    <3> QED
      BY <3>2, <3>3, <3>4, Zenon
  <2>2. value' = value => \A w \in Words : value'[w] >= value[w]
    BY <2>1
  <2>3. ASSUME NEW w \in Words, CopyWord(w)
        PROVE \A u \in Words : value'[u] >= value[u]
    BY <2>1, <2>3 DEF CopyWord, Inv, MailboxTypeOK
  <2> QED
    BY <2>2, <2>3 DEF MailboxNext, Publish, Read, BeginPublish, StoreWord, ExchangeBack,
       TestFlag, ExchangeFront, ReturnTrue
<1> QED
  BY <1>1, MailboxInvariance, PTL DEF MailboxSpec, NeverBackwards

-----------------------------------------------------------------------------
\* The constructor is an empty register.
LEMMA RegisterInit == MailboxInit => Register!Init
BY MiddleWord, SomeWord DEF MailboxInit, Register!Init, Published, Taken, Slots

\* The writer's exchange is Put, the reader's exchange is Take, and every
\* other step of Publish and Read leaves the register alone.
LEMMA RegisterNext == Inv /\ [MailboxNext]_mailbox => [Register!Next]_(Register!vars)
<1> SUFFICES ASSUME Inv, [MailboxNext]_mailbox PROVE [Register!Next]_(Register!vars)
  OBVIOUS
<1> USE DEF Inv, Register!vars
<1>0. SlotOf(m_Middle) \in Slots /\ (CHOOSE w \in Words : TRUE) \in Words
  BY MiddleSlot, SomeWord
<1>1. CASE BeginPublish
  BY <1>1 DEF BeginPublish, Published, Taken, MailboxTypeOK
<1>2. ASSUME NEW w \in Words, StoreWord(w) PROVE UNCHANGED Register!vars
  BY <1>2 DEF StoreWord, Published, Taken, MailboxTypeOK, SlotsDisjoint
<1>3. CASE ExchangeBack
  <2>1. IsFresh(m_Middle')
    BY <1>3, MiddleWord DEF ExchangeBack, MailboxTypeOK
  <2>2. Published' = Published + 1 /\ Published < MaxPublished /\ Taken' = Taken
    BY <1>3, MaxPublishedAssumption DEF ExchangeBack, Published, Taken, MailboxTypeOK, WriterHalfway
  <2> QED
    BY <2>1, <2>2 DEF Register!Next, Register!Put, IsFresh
<1>4. CASE TestFlag
  BY <1>4 DEF TestFlag, Published, Taken
<1>5. CASE ExchangeFront
  <2>1. IsFresh(m_Middle)
    BY <1>5 DEF ExchangeFront, ReaderHalfway
  <2>2. ~ IsFresh(m_Middle') /\ Published' = Published
    BY <1>5, MiddleWord DEF ExchangeFront, MailboxTypeOK, Published
  <2>3. Taken' = Published
    BY <1>0, <1>5, <2>1 DEF ExchangeFront, NewestIsOffered, Taken, Whole
  <2> QED
    BY <2>1, <2>2, <2>3 DEF Register!Next, Register!Take, IsFresh
<1>6. ASSUME NEW w \in Words, CopyWord(w) PROVE UNCHANGED Register!vars
  BY <1>6 DEF CopyWord, Published, Taken
<1>7. CASE ReturnTrue
  BY <1>7 DEF ReturnTrue, Published, Taken
<1>8. CASE UNCHANGED mailbox
  BY <1>8 DEF mailbox, Published, Taken
<1> QED
  BY <1>1, <1>2, <1>3, <1>4, <1>5, <1>6, <1>7, <1>8 DEF MailboxNext, Publish, Read

\* The three-slot mailbox is a register of the latest value: AudioStream may
\* treat Publish and Read as single, instantaneous operations.
THEOREM Refinement == MailboxSpec => ImplementsRegister
BY RegisterInit, RegisterNext, MailboxInvariance, PTL DEF MailboxSpec, ImplementsRegister, Register!Spec
=============================================================================
