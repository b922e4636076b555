---------------------------- MODULE ConfigInput ----------------------------
(***************************************************************************)
(* How a configuration gets into the web page (trybatfish.js).  There are  *)
(* two boxes, for the base and the delta configuration, each with a drop   *)
(* down of samples and a file chooser, and one variable, testrigZip, for   *)
(* the zip file of either.  Samples and files arrive by callbacks, in any  *)
(* order.  Selecting a testrig that was uploaded before shows what is in   *)
(* it in the base box.  Both upload buttons send testrigZip and, when that *)
(* is empty, the text of the base box, whatever it is.                     *)
(***************************************************************************)
EXTENDS Naturals

CONSTANTS MaxInputs,    \* bound: how often the user enters something
          Empty         \* no zip file, or a box with nothing entered

Box == {"base", "delta"}
Entry == 1 .. MaxInputs         \* what is entered, in the order of time
Nothing == 0                    \* a zip file made from what could not be fetched

VARIABLES testrigZip,   \* the entry whose zip file it holds, or Empty
          text,         \* the entry whose text, or contents, each box shows
          selected,     \* the boxes whose drop down shows a sample
          chosen,       \* the boxes whose file chooser shows a file
          loads,        \* what has not arrived yet
          entries,      \* how many entries were made
          plain         \* history: nothing is in the way of the last entry

vars == <<testrigZip, text, selected, chosen, loads, entries, plain>>

Load == [entry : Entry, box : Box, from : {"select", "file"}, zip : BOOLEAN]

TypeOK ==
  /\ testrigZip \in {Empty, Nothing} \cup Entry
  /\ text \in [Box -> {Empty, Nothing} \cup Entry]
  /\ selected \subseteq Box /\ chosen \subseteq Box
  /\ loads \subseteq Load
  /\ entries \in 0 .. MaxInputs
  /\ plain \in BOOLEAN

Init ==
  /\ testrigZip = Empty
  /\ text = [b \in Box |-> Empty]
  /\ selected = {} /\ chosen = {} /\ loads = {}
  /\ entries = 0
  /\ plain = FALSE

Show(b, e) == text' = [text EXCEPT ![b] = e]
-----------------------------------------------------------------------------
\* Something that is on its way can still replace what is entered now: a zip file
\* replaces anything that is sent, and a text of the base box another one.
Overtakes(zip) == \E l \in loads : l.zip \/ (~zip /\ l.box = "base")

\* A sample or a file is asked for.  The text of a delta configuration is never sent.
Ask(b, from, zip) ==
  /\ entries < MaxInputs
  /\ entries' = entries + 1
  /\ loads' = loads \cup {[entry |-> entries + 1, box |-> b, from |-> from, zip |-> zip]}
  /\ plain' = ((zip \/ b = "base") /\ ~ Overtakes(zip))
  /\ UNCHANGED text

\* Mutant: the zip file that was loaded before stays.
KeepZip(b, zip) ==
  /\ Ask(b, "select", zip)
  /\ UNCHANGED testrigZip
  /\ selected' = selected \cup {b}
  /\ chosen' = chosen \ {b}

\* loadText: "if we were the testrig, unset the testrigzip".
LoadText(b, zip) ==
  /\ Ask(b, "select", zip)
  /\ testrigZip' = IF ~zip /\ b = "base" THEN Empty ELSE testrigZip
  /\ selected' = selected \cup {b}
  /\ chosen' = chosen \ {b}

\* loadConfigText.
LoadConfigText(b, zip) ==
  /\ Ask(b, "file", zip)
  /\ testrigZip' = IF zip THEN testrigZip ELSE Empty
  /\ chosen' = chosen \cup {b}
  /\ selected' = selected \ {b}

\* Something arrives and is shown.
Arrive(l) ==
  /\ l \in loads
  /\ loads' = loads \ {l}
  /\ testrigZip' = IF l.zip THEN l.entry ELSE testrigZip
  /\ Show(l.box, l.entry)
  /\ UNCHANGED <<selected, chosen, entries, plain>>

\* A zip file that is none, or a text that cannot be fetched, empties the box and
\* resets the selector it came by.  What testrigZip holds is left alone.
Spoiled(l) ==
  /\ l \in loads
  /\ l.zip \/ l.from = "select"
  /\ loads' = loads \ {l}
  /\ Show(l.box, Empty)
  /\ selected' = IF l.from = "select" THEN selected \ {l.box} ELSE selected
  /\ chosen' = IF l.from = "file" THEN chosen \ {l.box} ELSE chosen
  /\ plain' = (plain /\ l.entry # entries)
  /\ UNCHANGED <<testrigZip, entries>>

\* A zip file that cannot be fetched is replaced by one with nothing in it.
FetchFails(l) ==
  /\ l \in loads
  /\ l.zip /\ l.from = "select"
  /\ loads' = loads \ {l}
  /\ testrigZip' = Nothing
  /\ Show(l.box, Nothing)
  /\ plain' = FALSE
  /\ UNCHANGED <<selected, chosen, entries>>

\* A box gets another text at once, which is sent when there is no zip file.
Overwrite(b) ==
  /\ entries < MaxInputs
  /\ entries' = entries + 1
  /\ Show(b, entries + 1)
  /\ plain' = (b = "base" /\ testrigZip = Empty /\ ~ Overtakes(FALSE))
  /\ UNCHANGED <<testrigZip, selected, chosen, loads>>

\* The user edits a box.
Edit(b) == Overwrite(b)

\* showOldTestrig: what the coordinator says of the old testrig is shown in the base
\* box.  It replaces what was there, and is an entry like any other.
ShowOldTestrig == Overwrite("base")

\* The list of samples has zip files only for the delta configuration.
Next ==
  \/ \E zip \in BOOLEAN : LoadText("base", zip)
  \/ LoadText("delta", TRUE)
  \/ \E b \in Box, zip \in BOOLEAN : LoadConfigText(b, zip)
  \/ \E l \in loads : Arrive(l) \/ Spoiled(l) \/ FetchFails(l)
  \/ \E b \in Box : Edit(b)
  \/ ShowOldTestrig
-----------------------------------------------------------------------------
\* uploadTestrigSmart and uploadDiffEnvSmart: what is sent.
Sent == IF testrigZip = Empty THEN text["base"] ELSE testrigZip

\* What was entered last is what is sent as soon as it is there, whatever else is
\* still loading, arrives late or fails to arrive, if it could be loaded and is none of
\* these: the text of a delta configuration; a text of the base box while testrigZip
\* holds a zip file; something that was entered while an earlier zip file was loading,
\* or a text while an earlier text of the base box was.  Selecting an old testrig is
\* entering its description, which is then sent, as the delta configuration too.
SendsLastEntry ==
  plain /\ (\A l \in loads : l.entry # entries) => Sent = entries
=============================================================================
