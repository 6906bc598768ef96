------------------------------- MODULE GraphEdits -------------------------------
(* GraphSort on its own: any wire may be added or removed at any time. *)
EXTENDS GraphSort

CONSTANTS Nodes,     \* the IDs of the devices
          Terminals, \* the devices that play or record
          MaxEdges   \* bound: wires at a time

ASSUME NodesAssumption == Nodes \subseteq Nat

Edges == FoldLeft(LAMBDA n, i : n + Len(m_Graph[i].Inputs), 0,
                  SetToSeq(DOMAIN m_Graph))

GraphInit == m_Graph = << >> /\ m_Sorted = << >>

\* The old patch format does not say which devices are terminals.
Add(s, d) == /\ Edges < MaxEdges
             /\ \E known \in BOOLEAN :
                    AddConnection(s, known /\ s \in Terminals,
                                  d, known /\ d \in Terminals)
Drop(s, d) == s \in DOMAIN m_Graph /\ d \in ToSet(m_Graph[s].Outputs)
              /\ ~ErasedTwice(m_Graph, s, d)
              /\ RemoveConnection(s, d)
Forget == m_Graph # << >> /\ Clear

GraphNext == \/ \E s, d \in Nodes : Add(s, d)
             \/ \E s, d \in Nodes : Drop(s, d)
             \/ Forget

GraphSpec == GraphInit /\ [][GraphNext]_graphvars
=============================================================================
