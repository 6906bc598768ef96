------------------------------- MODULE GraphSort -------------------------------
(***************************************************************************)
(* The graph behind the canvas (GraphSort.cpp).  A node has a list of the  *)
(* nodes that feed it and a list of those it feeds, one entry per wire,    *)
(* and exists only while it has a wire.  Every change of the graph sorts   *)
(* it again; the engine walks the sorted list from its back, so a device   *)
(* that feeds another must come behind it in the list.  Sort is TestSort,  *)
(* which GraphSort.h selects; nothing in the program asks for OrigSort.    *)
(***************************************************************************)
EXTENDS Integers, FiniteSets, SequencesExt

VARIABLES m_Graph,  \* ID -> the node
          m_Sorted  \* the list the engine walks

graphvars == <<m_Graph, m_Sorted>>

NewNode(term) == [Inputs |-> << >>, Outputs |-> << >>, IsTerminal |-> term]

-----------------------------------------------------------------------------
(* TestSort: from the outputs of the patch back to its sources.            *)

\* Mistake: only the roots.
SeedsRootsOnly(g) == {n \in DOMAIN g : g[n].Outputs = << >>}

\* Terminals and roots, in the order of the map.
Seeds(g) == {n \in DOMAIN g : g[n].Outputs = << >> \/ g[n].IsTerminal}

\* The members of a set of IDs in the order of the map.
InOrder(S) == [k \in 1..Cardinality(S) |->
                  CHOOSE n \in S : Cardinality({m \in S : m < n}) = k - 1]

Start(g) == [candidates |-> InOrder(Seeds(g)),
             sorted |-> << >>,
             UnsatisfiedOutputs |-> [n \in DOMAIN g |-> Len(g[n].Outputs)]]

\* The places of the candidates all of whose outputs are sorted.
Ideal(s) == {i \in DOMAIN s.candidates :
                s.UnsatisfiedOutputs[s.candidates[i]] = 0}

\* Mistake: candidates are taken in the order they came.
PickFirst(s) == Head(s.candidates)

\* The first ideal candidate; without one, the first of all.
Pick(s) == s.candidates[IF Ideal(s) = {} THEN 1
                        ELSE CHOOSE i \in Ideal(s) : \A j \in Ideal(s) : i <= j]

Promoted(s, m) == IF Contains(s.candidates, m) \/ Contains(s.sorted, m)
                  THEN s.candidates ELSE Append(s.candidates, m)

\* m fed a node that has just been sorted.
Feed(s, m) == [s EXCEPT !.UnsatisfiedOutputs[m] = @ - 1,
                        !.candidates = Promoted(s, m)]

\* One turn of the loop over the candidates.
SortOne(g, s) ==
    IF s.candidates = << >> THEN s
    ELSE LET p == Pick(s)
         IN  FoldLeft(Feed, [s EXCEPT !.candidates = RemoveFirst(@, p),
                                      !.sorted = Append(@, p)],
                      g[p].Inputs)

AfterTurns(g, k) == FoldLeft(LAMBDA s, turn : SortOne(g, s), Start(g),
                             [i \in 1..k |-> i])
TestSort(g) == AfterTurns(g, Cardinality(DOMAIN g)).sorted

-----------------------------------------------------------------------------
(* The operations.                                                         *)

\* A node that exists keeps the terminal flag it was made with.
WithNode(g, id, term) == [n \in DOMAIN g \cup {id} |->
                             IF n \in DOMAIN g THEN g[n] ELSE NewNode(term)]

Added(g, SID, STerminal, DID, DTerminal) ==
    [WithNode(WithNode(g, SID, STerminal), DID, DTerminal) EXCEPT
        ![SID].Outputs = Append(@, DID), ![DID].Inputs = Append(@, SID)]

AddConnection(SID, STerminal, DID, DTerminal) ==
    /\ m_Graph' = Added(m_Graph, SID, STerminal, DID, DTerminal)
    /\ m_Sorted' = TestSort(m_Graph')

\* The nodes, of the two ends of a wire, that keep a wire.
Pruned(g, ends) ==
    [n \in {m \in DOMAIN g : m \in ends => g[m].Outputs # << >>
                                           \/ g[m].Inputs # << >>} |-> g[n]]

\* One entry of each list, then the nodes left without a wire.  The last wire
\* of a node to itself is not covered: see ErasedTwice.
Removed(g, SID, DID) ==
    IF {SID, DID} \subseteq DOMAIN g
    THEN Pruned([g EXCEPT ![SID].Outputs = RemoveFirst(@, DID),
                          ![DID].Inputs = RemoveFirst(@, SID)], {SID, DID})
    ELSE g

RemoveConnection(SID, DID) ==
    /\ {SID, DID} \subseteq DOMAIN m_Graph
    /\ m_Graph' = Removed(m_Graph, SID, DID)
    /\ m_Sorted' = TestSort(m_Graph')

\* The node is erased as the source and then tested, and erased, again as the
\* destination, through an iterator that is no longer valid: anything may
\* happen, so whoever removes wires stops at this point.
ErasedTwice(g, SID, DID) == /\ SID = DID
                            /\ SID \in DOMAIN g
                            /\ g[SID].Outputs = <<SID>>
                            /\ g[SID].Inputs = <<SID>>

\* The clearing of the sorted list is commented out.
Clear == m_Graph' = << >> /\ UNCHANGED m_Sorted

-----------------------------------------------------------------------------
(* What the sort is for.                                                   *)

Closed(g, S) == \A n \in S : ToSet(g[n].Outputs) \subseteq S

\* Everything n feeds, directly or through others: the smallest set that has
\* what n feeds and what its members feed.
Fed(g, n) == {m \in DOMAIN g : \A S \in SUBSET DOMAIN g :
                 ToSet(g[n].Outputs) \subseteq S /\ Closed(g, S) => m \in S}
OnCycle(g, n) == n \in Fed(g, n)
\* No device that n feeds is part of a feedback loop, nor n itself.
FeedsNoCycle(g, n) == \A m \in Fed(g, n) \cup {n} : ~OnCycle(g, m)

\* The devices whose sound leaves the patch, and those they can hear.
Exits(g) == {n \in DOMAIN g : g[n].IsTerminal \/ g[n].Outputs = << >>}
Heard(g) == {n \in DOMAIN g : (Fed(g, n) \cup {n}) \cap Exits(g) # {}}

Before(m, n) == \E i, j \in DOMAIN m_Sorted :
                    i < j /\ m_Sorted[i] = m /\ m_Sorted[j] = n

Count(list, x) == Cardinality({i \in DOMAIN list : list[i] = x})

\* The two lists of a wire's ends agree, however many wires the two devices
\* share, and no node stays without a wire.
ListsAgree ==
    /\ \A m, n \in DOMAIN m_Graph :
          Count(m_Graph[m].Outputs, n) = Count(m_Graph[n].Inputs, m)
    /\ \A n \in DOMAIN m_Graph :
          m_Graph[n].Inputs # << >> \/ m_Graph[n].Outputs # << >>

\* What a terminal, or a device that feeds nothing, can hear is in the list,
\* once, and nothing else (after Clear, until the next change, the list is the
\* old one); for this the two lists of a wire must agree.
RunsWhatIsHeard ==
    /\ ListsAgree
    /\ IsInjective(m_Sorted)
    /\ DOMAIN m_Graph # {} => ToSet(m_Sorted) = Heard(m_Graph)

\* A device that feeds no loop runs before everything it feeds, so
\* nothing it computes arrives a period late, whatever loops are elsewhere.
SourcesRunFirst ==
    \A n \in DOMAIN m_Graph : FeedsNoCycle(m_Graph, n) =>
        \A m \in ToSet(m_Graph[n].Outputs) : Before(m, n)

-----------------------------------------------------------------------------
(* What the comments of TestSort say of its choice.                        *)

Stuck(g, s) == s.candidates # << >> /\ Ideal(s) = {}

\* "feedback source": without an ideal candidate, the one that is chosen
\* takes part in a loop.
FeedbackSourceIsInLoop ==
    \A k \in 0..Cardinality(DOMAIN m_Graph) - 1 :
        LET s == AfterTurns(m_Graph, k)
        IN  Stuck(m_Graph, s) => OnCycle(m_Graph, Pick(s))
=============================================================================
