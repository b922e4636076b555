------------------------------ MODULE Topology ------------------------------
(***************************************************************************)
(* The picture of the topology (topology.js): what ParseTopology draws,    *)
(* and how a view of an answer is highlighted in it.  Each handler runs to *)
(* its end; what is drawn, and how it is coloured, stays for the next one. *)
(*                                                                         *)
(* A node stands for its name, and an interface, <<node, name>>, for the   *)
(* text "node:name".  That the texts are ordered as the nodes are, and that*)
(* no name of a node is a part of another's, is assumed of the names.      *)
(***************************************************************************)
EXTENDS Naturals, Sequences, SequencesExt

CONSTANTS Link,         \* pairs of interfaces of two nodes, as they come in the data
          ViewColor,    \* the colours that views use: "error", "ok"...
          MaxLinks,     \* bound: the links of a topology
          MaxItems      \* bound: the items of each part of a view

Node == {l[1][1] : l \in Link} \cup {l[2][1] : l \in Link}

\* localeCompare.
Before(i, j) ==
  \/ i[1] < j[1]
  \/ i[1] = j[1] /\ i[2] < j[2]

Reversed(l) == <<l[2], l[1]>>

\* GetLinkIds(link)[2].
LinkId(l) == IF Before(l[2], l[1]) THEN Reversed(l) ELSE l

\* GetSrcDst.
Source(l) == IF l[2][1] < l[1][1] THEN l[2][1] ELSE l[1][1]
Target(l) == IF l[2][1] < l[1][1] THEN l[1][1] ELSE l[2][1]
Ends(l)   == {<<Source(l)>>, <<Target(l)>>}

VARIABLES nodes,        \* the nodes that are drawn
          edges,        \* the ids of the links that are drawn
          color,        \* the colour of each node and each link
          arrows,       \* the ends of links with an arrow
          shown,        \* the view that is highlighted
          drawnThen     \* history: what was drawn when it was highlighted

vars == <<nodes, edges, color, arrows, shown, drawnThen>>

\* What is drawn: a node, as <<n>>, or a link by its id.
Element == {<<n>> : n \in Node} \cup {LinkId(l) : l \in Link}

\* A view: nodes, links, and a path, each item in a colour.
Items(S) == SeqOf([of : S, color : ViewColor], MaxItems)
View == [nodes : Items({<<n>> : n \in Node}), links : Items(Link), path : Items(Link)]
NoView == [nodes |-> <<>>, links |-> <<>>, path |-> <<>>]

TypeOK ==
  /\ nodes \subseteq {<<n>> : n \in Node}
  /\ edges \subseteq {LinkId(l) : l \in Link}
  /\ color \in [Element -> ViewColor \cup {"default", "maybe"}]
  /\ arrows \subseteq edges \X {"source", "target"}
  /\ shown \in View
  /\ drawnThen \subseteq Element

Init ==
  /\ nodes = {} /\ edges = {}
  /\ color = [e \in Element |-> "default"]
  /\ arrows = {}
  /\ shown = NoView
  /\ drawnThen = {}
-----------------------------------------------------------------------------
\* AddLink, for the links drawn so far: neither of its two ids is there.
AddLink(drawn, l) ==
  IF l \in drawn \/ Reversed(l) \in drawn THEN drawn ELSE drawn \cup {LinkId(l)}

\* ParseTopology.  What is drawn already stays.
ParseTopology(links) ==
  LET drawn[k \in 0 .. Len(links)] ==
        IF k = 0 THEN edges ELSE AddLink(drawn[k - 1], links[k])
  IN  /\ nodes' = nodes \cup UNION {Ends(links[k]) : k \in DOMAIN links}
      /\ edges' = drawn[Len(links)]
      /\ UNCHANGED <<color, arrows, shown, drawnThen>>

\* HighlightElement, for all that one item highlights: the first colour counts, and
\* another makes it "maybe".
HighlightElement(colors, mark) ==
  [e \in Element |->
     IF e \notin mark.on \/ e \notin nodes \cup edges THEN colors[e]
     ELSE IF colors[e] = "default" THEN mark.color
     ELSE IF colors[e] # mark.color THEN "maybe" ELSE colors[e]]

\* HighlightNodes: a node; HighlightLinks: a link, and the nodes at its ends.
NodeMarks(items) ==
  [k \in DOMAIN items |-> [on |-> {items[k].of}, color |-> items[k].color]]
LinkMarks(items) ==
  [k \in DOMAIN items |-> [on |-> {LinkId(items[k].of)} \cup Ends(items[k].of),
                           color |-> items[k].color]]

\* HighlightView, as marks in the order they are made.
Marks(v) == NodeMarks(v.nodes) \o LinkMarks(v.links) \o LinkMarks(v.path)

HighlightView(colors, v) ==
  LET after[k \in 0 .. Len(Marks(v))] ==
        IF k = 0 THEN colors ELSE HighlightElement(after[k - 1], Marks(v)[k])
  IN  after[Len(Marks(v))]

\* AddArrow: the end opposite to the one with the name of the first node.
Arrow(l) == <<LinkId(l), IF LinkId(l)[1][1] = l[1][1] THEN "target" ELSE "source">>

PathLinks(v) == {v.path[k].of : k \in DOMAIN v.path}
Arrows(v) == {Arrow(l) : l \in {m \in PathLinks(v) : LinkId(m) \in edges}}

\* Mutant: the view that was selected before stays highlighted.
SelectOver(v) ==
  /\ color' = HighlightView(color, v)
  /\ arrows' = Arrows(v)
  /\ shown' = v
  /\ drawnThen' = nodes \cup edges
  /\ UNCHANGED <<nodes, edges>>

\* The select handler of the menu: ClearHighlights, and HighlightView.
SelectView(v) ==
  /\ color' = HighlightView([e \in Element |-> "default"], v)
  /\ arrows' = Arrows(v)
  /\ shown' = v
  /\ drawnThen' = nodes \cup edges
  /\ UNCHANGED <<nodes, edges>>

\* SetupHighlightsMenu clears what was highlighted.
SetupHighlightsMenu == SelectView(NoView)

Next ==
  \/ \E links \in SeqOf(Link, MaxLinks) : ParseTopology(links)
  \/ \E v \in View \ {NoView} : SelectView(v)
  \/ SetupHighlightsMenu
-----------------------------------------------------------------------------
\* The colours that a view gives to an element, by itself or as the end of a link.
ColorsOf(e, v) ==
  {v.nodes[k].color : k \in {j \in DOMAIN v.nodes : v.nodes[j].of = e}}
    \cup UNION {{items[k].color : k \in {j \in DOMAIN items :
                   e \in {LinkId(items[j].of)} \cup Ends(items[j].of)}} :
                items \in {v.links, v.path}}

\* The colour of what is given the colours C.
Mixed(C) ==
  IF C = {} THEN "default"
  ELSE IF \E c \in C : C = {c} THEN CHOOSE c \in C : C = {c} ELSE "maybe"

Colored == \A e \in drawnThen : color[e] = Mixed(ColorsOf(e, shown))

\* The end of the link where the path leaves it: its target, or else its source.
Exit(l) == <<LinkId(l), IF Target(l) = l[2][1] THEN "target" ELSE "source">>

Directed == arrows = {Exit(l) : l \in {m \in PathLinks(shown) : LinkId(m) \in drawnThen}}

\* What was drawn when a view was selected shows that view and nothing of those
\* before it: an element has the colour that the view gives it, by itself or as an
\* end of a link, and "maybe" if it gives it several, whatever order they come in;
\* and the arrows are those of its path, each at the node that the path goes to.
ShownAsGiven == Colored /\ Directed
=============================================================================
