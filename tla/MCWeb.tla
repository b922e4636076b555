------------------------------- MODULE MCWeb -------------------------------
(***************************************************************************)
(* The parts of the web page for TLC, in one run: in every behaviour part  *)
(* says which of them moves, and the others stay in one initial state.     *)
(* What showOldTestrig does to the names is in WorkClient, and what it does*)
(* to the base box in ConfigInput; the chains do not look at the text but  *)
(* whether there is any, which is left open in WorkClient.                 *)
(***************************************************************************)
EXTENDS WorkClient

CONSTANTS MaxInputs, Empty, Link, ViewColor, MaxLinks, MaxItems

\* What is entered is numbered, and no entry is no number.
ASSUME InputAssumption == MaxInputs \in Nat /\ Empty \notin Nat

\* An interface is its node and a number, and "default" is the colour of no view.
ASSUME TopologyAssumption ==
  /\ Link \subseteq (Nat \X Nat) \X (Nat \X Nat)
  /\ MaxLinks \in Nat /\ MaxItems \in Nat
  /\ "default" \notin ViewColor

\* For TLC: two links that meet in node 2, and come in different directions.
MCLink == {<< <<1, 1>>, <<2, 1>> >>, << <<3, 1>>, <<2, 2>> >>}

VARIABLES testrigZip, text, selected, chosen, loads, entries, plain
VARIABLES nodes, edges, color, arrows, shown, drawnThen
VARIABLE part

inputVars == <<testrigZip, text, selected, chosen, loads, entries, plain>>
topoVars  == <<nodes, edges, color, arrows, shown, drawnThen>>
allVars   == <<vars, inputVars, topoVars, part>>

Input == INSTANCE ConfigInput
Topo == INSTANCE Topology

MCInit ==
  /\ part \in {"client", "input", "topology"}
  /\ Init /\ Input!Init /\ Topo!Init
  /\ part # "client" => "btnLogin" \in enabled /\ stage[Old] = "partial"

MCNext ==
  \/ part = "client" /\ Next /\ UNCHANGED <<inputVars, topoVars, part>>
  \/ part = "input" /\ Input!Next /\ UNCHANGED <<vars, topoVars, part>>
  \/ part = "topology" /\ Topo!Next /\ UNCHANGED <<vars, inputVars, part>>

MCSpec == MCInit /\ [][MCNext]_allVars /\ Fairness

TypesOK == TypeOK /\ Input!TypeOK /\ Topo!TypeOK
SendsLastEntry == Input!SendsLastEntry
ShownAsGiven == Topo!ShownAsGiven
=============================================================================
