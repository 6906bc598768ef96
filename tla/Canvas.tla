-------------------------------- MODULE Canvas --------------------------------
(***************************************************************************)
(* The canvas (Fl_Canvas.C, Fl_DeviceGUI.C): the boxes of the devices with *)
(* their port buttons, the wires between them, and the wire the user is    *)
(* drawing.  A wire is kept in four places at once: in m_WireVec, in the   *)
(* count of the two buttons, in the input pointer of the device it leads   *)
(* to, and in the graph (module GraphSort).  The mouse, loading, pasting,  *)
(* deleting and devices that change their ports all edit the four.         *)
(*                                                                         *)
(* All of it is the GUI thread's; what the engine does meanwhile is in     *)
(* module HostEngine.                                                      *)
(***************************************************************************)
EXTENDS GraphSort

CONSTANTS Shapes,     \* the ports a device can have: [NumInputs, NumOutputs,
                      \* IsTerminal]
          Patches,    \* patch files: [shapes, wires], a sequence of each
          MaxDevices, \* bound: IDs given out between two calls of Clear,
                      \* copies apart; with more, nothing is drawn or pasted
          MaxCopies,  \* bound: IDs given out, those of copies included
          MaxWires,   \* bound: wires on the canvas
          MaxPasted   \* bound: wires on the canvas after pasting

Shape == [NumInputs : Nat, NumOutputs : Nat, IsTerminal : BOOLEAN]
Wire == [OutputID : Nat, OutputPort : Nat, InputID : Nat, InputPort : Nat]

\* A file is the save of a canvas, where an input has one wire at most.
ASSUME CanvasAssumption ==
    /\ Shapes \subseteq Shape
    /\ \A patch \in Patches :
          /\ patch.shapes \in Seq(Shape)
          /\ patch.wires \in Seq(Wire)
          /\ \A j, k \in DOMAIN patch.wires :
                /\ patch.wires[j].InputID = patch.wires[k].InputID
                /\ patch.wires[j].InputPort = patch.wires[k].InputPort
                => j = k

VARIABLES
    m_Info,           \* ID -> the ports of the device's box
    m_PortVec,        \* ID -> port -> the count of its button
    m_Input,          \* ID -> input -> the output it points to
    m_NextID,
    m_WireVec,        \* the wires, in the order they were made
    m_IncompleteWire, \* the wire being drawn: -1 where an end is missing
    orphaned,         \* a clearing of the canvas has cut a wire being drawn
    broken            \* a missing box or button was used: no state after it

boxes == <<m_Info, m_PortVec, m_Input, m_NextID>>
wires == <<m_WireVec, m_Graph, m_Sorted>>
vars == <<boxes, wires, m_IncompleteWire, orphaned, broken>>

None == -1
NoWire == [OutputID |-> None, OutputPort |-> None,
           InputID |-> None, InputPort |-> None]
NULL == <<None, None>>

\* The buttons of a box: its inputs, then its outputs.
Buttons(info) == 0..info.NumInputs + info.NumOutputs - 1
Inputs(info) == 0..info.NumInputs - 1
OutButton(w) == w.OutputPort + m_Info[w.OutputID].NumInputs

HasBox(id) == id \in DOMAIN m_Info
HasButton(id, b) == HasBox(id) /\ b \in Buttons(m_Info[id])

\* The wires of ws that are in W, in their order.
Among(ws, W) == LET at == InOrder({k \in DOMAIN ws : ws[k] \in W})
                IN  [i \in DOMAIN at |-> ws[at[i]]]
\* How many of the wires ws use a button of a box.
Uses(ws, info, id, b) ==
    Cardinality({k \in DOMAIN ws :
        \/ ws[k].InputID = id /\ ws[k].InputPort = b
        \/ ws[k].OutputID = id /\ ws[k].OutputPort + info.NumInputs = b})
\* The places in ws of the wires to an input.
LeadTo(ws, id, p) == {k \in DOMAIN ws : ws[k].InputID = id /\ ws[k].InputPort = p}
Minus(m, n) == IF n > m THEN 0 ELSE m - n
Joined(f, g) == [x \in DOMAIN f \cup DOMAIN g |->
                    IF x \in DOMAIN f THEN f[x] ELSE g[x]]

Init == /\ m_Info = << >> /\ m_PortVec = << >> /\ m_Input = << >>
        /\ m_NextID = 0
        /\ m_WireVec = << >>
        /\ m_IncompleteWire = NoWire
        /\ m_Graph = << >> /\ m_Sorted = << >>
        /\ orphaned = FALSE /\ broken = FALSE

-----------------------------------------------------------------------------
(* Taking wires away.                                                      *)

Drawing == m_IncompleteWire # NoWire
DrawnFrom(id) == id \in {m_IncompleteWire.OutputID, m_IncompleteWire.InputID}

\* The ends of the wire being drawn, as buttons.  ClearIncompleteWire takes one
\* off the count of each, although none was added for it.
DrawnEnds == {e \in {<<m_IncompleteWire.InputID, m_IncompleteWire.InputPort>>,
                     <<m_IncompleteWire.OutputID,
                       IF HasBox(m_IncompleteWire.OutputID)
                       THEN OutButton(m_IncompleteWire) ELSE None>>} :
                e[1] # None}
Given(e) == IF e \in DrawnEnds THEN 1 ELSE 0
\* ClearIncompleteWire asks for boxes and buttons without looking.
EndMissing == \E e \in DrawnEnds : ~HasButton(e[1], e[2])

\* The node of the graph is erased twice by the removal of one of the wires.
SelfWired(ws) ==
    \E k \in DOMAIN ws :
        LET before == SubSeq(ws, 1, k - 1)
            g == FoldLeft(LAMBDA h, w : Removed(h, w.OutputID, w.InputID),
                          m_Graph, before)
        IN  ErasedTwice(g, ws[k].OutputID, ws[k].InputID)

\* RemoveConnection of a button, for each wire of ws and, when the wire being
\* drawn is given up too, for its ends.
Released(ws, givenup) ==
    [id \in DOMAIN m_PortVec |-> [b \in DOMAIN m_PortVec[id] |->
        Minus(m_PortVec[id][b], Uses(ws, m_Info[id], id, b)
                                + IF givenup THEN Given(<<id, b>>) ELSE 0)]]

\* cb_Unconnect of the wires ws.
Pointers(ws) ==
    [id \in DOMAIN m_Input |-> [p \in DOMAIN m_Input[id] |->
        IF LeadTo(ws, id, p) # {} THEN NULL ELSE m_Input[id][p]]]

\* Mistake: only the first of them.
UnwireGraphFirst(ws) ==
    /\ m_Graph' = IF ws = << >> THEN m_Graph ELSE
                  Removed(m_Graph, Head(ws).OutputID, Head(ws).InputID)
    /\ m_Sorted' = IF ws = << >> THEN m_Sorted ELSE TestSort(m_Graph')
\* Mistake: nothing sorts the graph that is left.
UnwireGraphUnsorted(ws) ==
    /\ m_Graph' = FoldLeft(LAMBDA g, w : Removed(g, w.OutputID, w.InputID),
                           m_Graph, ws)
    /\ UNCHANGED m_Sorted
UnwireGraph(ws) ==
    /\ m_Graph' = FoldLeft(LAMBDA g, w : Removed(g, w.OutputID, w.InputID),
                           m_Graph, ws)
    /\ m_Sorted' = IF ws = << >> THEN m_Sorted ELSE TestSort(m_Graph')

\* The end of a wire that has no button is not looked for either.
WireMissing(ws) == \E k \in DOMAIN ws :
                       \/ ~HasButton(ws[k].OutputID, OutButton(ws[k]))
                       \/ ~HasButton(ws[k].InputID, ws[k].InputPort)
Break(ws, givenup) == \/ SelfWired(ws) \/ WireMissing(ws)
                      \/ givenup /\ EndMissing

\* A press on the empty canvas, or a second end of the same kind.
ClearIncompleteWire ==
    /\ Drawing
    /\ IF EndMissing THEN broken' = TRUE /\ UNCHANGED m_PortVec
       ELSE m_PortVec' = Released(<< >>, TRUE) /\ UNCHANGED broken
    /\ m_IncompleteWire' = NoWire
    /\ UNCHANGED <<m_Info, m_Input, m_NextID, wires, orphaned>>

-----------------------------------------------------------------------------
(* Drawing a wire, and the right button.                                   *)

Bump(counts, id, b) == IF b \in DOMAIN counts[id]
                       THEN [counts EXCEPT ![id][b] = @ + 1] ELSE counts

\* Both ends are known: cb_Connection, which refuses a port that is not there,
\* the graph, and the two buttons.
Connect(w) ==
    /\ Len(m_WireVec) < MaxWires
    /\ m_IncompleteWire' = NoWire
    /\ IF HasBox(w.OutputID) /\ HasBox(w.InputID)
       THEN /\ m_WireVec' = Append(m_WireVec, w)
            /\ m_Input' = IF /\ w.OutputPort < m_Info[w.OutputID].NumOutputs
                             /\ w.InputPort < m_Info[w.InputID].NumInputs
                          THEN [m_Input EXCEPT ![w.InputID][w.InputPort] =
                                                  <<w.OutputID, w.OutputPort>>]
                          ELSE m_Input
            /\ AddConnection(w.OutputID, m_Info[w.OutputID].IsTerminal,
                                   w.InputID, m_Info[w.InputID].IsTerminal)
            /\ m_PortVec' = Bump(Bump(m_PortVec, w.OutputID, OutButton(w)),
                                 w.InputID, w.InputPort)
            /\ UNCHANGED broken
       ELSE broken' = TRUE /\ UNCHANGED <<m_PortVec, m_Input, wires>>
    /\ UNCHANGED <<m_Info, m_NextID, orphaned>>

DrawOn(w) == IF w.OutputID # None /\ w.InputID # None THEN Connect(w)
             ELSE /\ m_IncompleteWire' = w
                  /\ UNCHANGED <<boxes, wires, orphaned, broken>>

\* The left button on an output.
PressOutput(id, p) ==
    /\ p < m_Info[id].NumOutputs
    /\ IF m_IncompleteWire.OutputID # None THEN ClearIncompleteWire
       ELSE DrawOn([m_IncompleteWire EXCEPT !.OutputID = id, !.OutputPort = p])

\* On an input: a lit button, one with a count, ignores the press.
PressInput(id, p) ==
    /\ p < m_Info[id].NumInputs
    /\ m_PortVec[id][p] = 0
    /\ IF m_IncompleteWire.InputID # None THEN ClearIncompleteWire
       ELSE DrawOn([m_IncompleteWire EXCEPT !.InputID = id, !.InputPort = p])

\* The right button takes every wire of the port away, and forgets the wire
\* being drawn without touching a count.
Disconnect(id, b) ==
    LET used == {w \in ToSet(m_WireVec) : \/ w.InputID = id /\ w.InputPort = b
                                          \/ w.OutputID = id /\ OutButton(w) = b}
        gone == Among(m_WireVec, used)
    IN  /\ b \in Buttons(m_Info[id])
        /\ Drawing \/ gone # << >>
        /\ m_IncompleteWire' = NoWire
        /\ m_WireVec' = Among(m_WireVec, ToSet(m_WireVec) \ ToSet(gone))
        /\ m_PortVec' = Released(gone, FALSE)
        /\ m_Input' = Pointers(gone)
        /\ UnwireGraph(gone)
        /\ broken' = Break(gone, FALSE)
        /\ UNCHANGED <<m_Info, m_NextID, orphaned>>

-----------------------------------------------------------------------------
(* Devices come, go and change.                                            *)

Cut(f, id) == [j \in DOMAIN f \ {id} |-> f[j]]

\* PruneConnections: the wires at ports the device will not have.
Lost(id, ins, outs) ==
    Among(m_WireVec, {w \in ToSet(m_WireVec) :
                         \/ w.OutputID = id /\ w.OutputPort >= outs
                         \/ w.InputID = id /\ w.InputPort >= ins})

Prune(id, gone) ==
    /\ m_WireVec' = Among(m_WireVec, ToSet(m_WireVec) \ ToSet(gone))
    /\ UnwireGraph(gone)
    /\ m_IncompleteWire' = IF DrawnFrom(id) THEN NoWire ELSE m_IncompleteWire
    /\ broken' = Break(gone, DrawnFrom(id))

\* RemoveDevice, when the host takes a killed device off the canvas.
RemoveDevice(id) ==
    LET gone == Lost(id, 0, 0)
    IN  /\ Prune(id, gone)
        /\ m_PortVec' = Cut(Released(gone, DrawnFrom(id)), id)
        /\ m_Input' = Cut(Pointers(gone), id)
        /\ m_Info' = Cut(m_Info, id)
        /\ UNCHANGED <<m_NextID, orphaned>>

\* SetupPorts: a device has changed its ports.  Those with a stable layout
\* keep the wires that still have both ends; their new buttons get the counts
\* of these wires.
SetupPorts(id, info, stable) ==
    LET gone == IF stable THEN Lost(id, info.NumInputs, info.NumOutputs)
                ELSE Lost(id, 0, 0)
    IN  /\ info.IsTerminal = m_Info[id].IsTerminal
        /\ Prune(id, gone)
        /\ m_PortVec' = [Released(gone, DrawnFrom(id)) EXCEPT ![id] =
                            [b \in Buttons(info) |->
                                Uses(m_WireVec', info, id, b)]]
        /\ m_Input' = [Pointers(gone) EXCEPT ![id] =
                          [p \in Inputs(info) |->
                              IF p \in DOMAIN @ THEN @[p] ELSE NULL]]
        /\ m_Info' = [m_Info EXCEPT ![id] = info]
        /\ UNCHANGED <<m_NextID, orphaned>>

-----------------------------------------------------------------------------
(* New devices, with the wires a patch or the clipboard has between them.  *)

\* StreamWiresIn skips a wire that lacks an end or a port.
Available(infos, w) == /\ w.OutputID \in DOMAIN infos
                       /\ w.InputID \in DOMAIN infos
                       /\ w.OutputPort < infos[w.OutputID].NumOutputs
                       /\ w.InputPort < infos[w.InputID].NumInputs

\* Mistake: the button of the source is lit, and that ends the condition.
LitSource(ws, info, id, b) ==
    Cardinality({k \in DOMAIN ws : ws[k].OutputID = id
                                   /\ ws[k].OutputPort + info.NumInputs = b})
\* AddConnection of both ends.
Lit(ws, info, id, b) == Uses(ws, info, id, b)

\* news gives the new devices their ports; info is what the canvas keeps.
StreamIn(info, counts, inputs, ws, g, news, file) ==
    LET good == Among(file, {w \in ToSet(file) : Available(news, w)})
    IN  /\ Len(ws) + Len(good) <= MaxWires
        /\ m_Info' = Joined(info, news)
        /\ m_PortVec' = Joined(counts,
              [id \in DOMAIN news |-> [b \in Buttons(news[id]) |->
                  Lit(good, news[id], id, b)]])
        /\ m_Input' = Joined(inputs,
              [id \in DOMAIN news |-> [p \in Inputs(news[id]) |->
                  LET to == LeadTo(good, id, p)
                  IN  IF to = {} THEN NULL
                      ELSE <<good[Max(to)].OutputID, good[Max(to)].OutputPort>>]])
        /\ m_WireVec' = ws \o good
        /\ m_Graph' = FoldLeft(LAMBDA h, w :
                          Added(h, w.OutputID, news[w.OutputID].IsTerminal,
                                w.InputID, news[w.InputID].IsTerminal),
                          g, good)
        /\ m_Sorted' = IF good = << >> THEN m_Sorted ELSE TestSort(m_Graph')
        /\ UNCHANGED <<m_IncompleteWire, broken>>

AddDevice(shape) ==
    /\ m_NextID < MaxDevices
    /\ StreamIn(m_Info, m_PortVec, m_Input, m_WireVec, m_Graph,
                [id \in {m_NextID} |-> shape], << >>)
    /\ m_NextID' = m_NextID + 1
    /\ UNCHANGED orphaned

\* Copy and paste of a selection: copies of its devices, in the order of the
\* selection, and of the wires that have both ends in it.
Paste(ids) ==
    LET copy == [k \in 1..Len(ids) |-> m_NextID + k - 1]
        to(id) == copy[CHOOSE k \in DOMAIN ids : ids[k] = id]
        inside == Among(m_WireVec, {w \in ToSet(m_WireVec) :
                      {w.OutputID, w.InputID} \subseteq ToSet(ids)})
    IN  /\ m_NextID <= MaxDevices /\ m_NextID + Len(ids) <= MaxCopies
        /\ Len(m_WireVec) + Len(inside) <= MaxPasted
        /\ StreamIn(m_Info, m_PortVec, m_Input, m_WireVec, m_Graph,
                    [id \in ToSet(copy) |-> m_Info[ids[id - m_NextID + 1]]],
                    [k \in DOMAIN inside |->
                        [inside[k] EXCEPT !.OutputID = to(@), !.InputID = to(@)]])
        /\ m_NextID' = m_NextID + Len(ids)
        /\ UNCHANGED orphaned

NextAfter(patch) == Len(patch.shapes)

\* New, or Open: Fl_Canvas::Clear, which leaves the wire being drawn and the
\* sorted list as they were, and then the devices and wires of the file.
Open(patch) ==
    /\ StreamIn(<< >>, << >>, << >>, << >>, << >>,
                [id \in 0..Len(patch.shapes) - 1 |-> patch.shapes[id + 1]],
                patch.wires)
    /\ m_NextID' = NextAfter(patch)
    /\ orphaned' = (orphaned \/ Drawing)

Next == /\ ~broken
        /\ \/ \E shape \in Shapes : AddDevice(shape)
           \/ \E id \in DOMAIN m_Info : Paste(<<id>>)
           \/ \E id, id2 \in DOMAIN m_Info : id # id2 /\ Paste(<<id, id2>>)
           \/ \E patch \in Patches : Open(patch)
           \/ ClearIncompleteWire
           \/ \E id \in DOMAIN m_Info :
                 \/ \E p \in Buttons(m_Info[id]) :
                       \/ m_NextID <= MaxDevices /\ PressOutput(id, p)
                       \/ m_NextID <= MaxDevices /\ PressInput(id, p)
                       \/ Disconnect(id, p)
                 \/ RemoveDevice(id)
                 \/ \E shape \in Shapes, stable \in BOOLEAN :
                       SetupPorts(id, shape, stable)

Spec == Init /\ [][Next]_vars

-----------------------------------------------------------------------------
(* The four records of a wire.                                             *)

TypeOK ==
    /\ DOMAIN m_Info \subseteq 0..m_NextID - 1
    /\ DOMAIN m_PortVec = DOMAIN m_Info /\ DOMAIN m_Input = DOMAIN m_Info
    /\ \A id \in DOMAIN m_Info :
          /\ m_PortVec[id] \in [Buttons(m_Info[id]) -> 0..MaxWires + 1]
          /\ DOMAIN m_Input[id] = Inputs(m_Info[id])
    /\ Len(m_WireVec) <= MaxWires
    /\ {orphaned, broken} \subseteq BOOLEAN

\* The graph has the canvas's wires, each once, and nothing else, whatever way
\* they came or went.
GraphFollowsWires ==
    ~broken =>
    /\ DOMAIN m_Graph = {m_WireVec[k].OutputID : k \in DOMAIN m_WireVec}
                        \cup {m_WireVec[k].InputID : k \in DOMAIN m_WireVec}
    /\ \A m, n \in DOMAIN m_Graph :
          Count(m_Graph[n].Inputs, m) =
              Cardinality({k \in DOMAIN m_WireVec : /\ m_WireVec[k].OutputID = m
                                                    /\ m_WireVec[k].InputID = n})

\* An input has one wire at most.  Nothing but its lit button, and the order
\* of the steps that light it, prevents a second.
OneWirePerInput ==
    ~orphaned => \A id \in DOMAIN m_Info : \A p \in Inputs(m_Info[id]) :
                    Cardinality(LeadTo(m_WireVec, id, p)) <= 1

\* A device reads the output its wire comes from, and without a wire none: no
\* edit leaves a pointer into a device that is gone or not connected.
InputsFollowWires ==
    ~orphaned /\ ~broken =>
        \A id \in DOMAIN m_Info : \A p \in Inputs(m_Info[id]) :
            LET to == LeadTo(m_WireVec, id, p)
            IN  IF to = {} THEN m_Input[id][p] = NULL
                ELSE \A k \in to : m_Input[id][p] =
                         <<m_WireVec[k].OutputID, m_WireVec[k].OutputPort>>

\* A wire is in the graph, in the device it leads to and on the canvas, or in
\* none of them, and is alone at its input, after every edit.
RecordsAgree == GraphFollowsWires /\ InputsFollowWires /\ OneWirePerInput

\* An input's button is lit exactly while a wire leads to it.
InputsLit ==
    ~orphaned /\ ~broken =>
        \A id \in DOMAIN m_Info : \A p \in Inputs(m_Info[id]) :
            m_PortVec[id][p] = Cardinality(LeadTo(m_WireVec, id, p))

\* Whatever edit came last, several wires at once included, the list the engine
\* walks is the one for the wires as they are: all that is heard, and sources
\* first.
ListFollowsEdits == ~broken => RunsWhatIsHeard /\ SourcesRunFirst

\* "make sure we don't leave a dangling incomplete wire": its ends are buttons
\* of boxes on the canvas.
NoDanglingIncompleteWire == ~EndMissing

\* "peer counts are still intact": a button counts the wires at it.
CountsIntact ==
    ~orphaned /\ ~broken =>
        \A id \in DOMAIN m_Info : \A b \in Buttons(m_Info[id]) :
            m_PortVec[id][b] = Uses(m_WireVec, m_Info[id], id, b)
=============================================================================
