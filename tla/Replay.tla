------------------------------- MODULE Replay -------------------------------
(***************************************************************************)
(* The replay of src/src/replay.cpp: the lines of a log are run one after  *)
(* the other on a fresh OrderBook, the TRADE lines are collected, and the  *)
(* trades of the two are compared in the end; replay_tool, which runs it   *)
(* on a file, exits with the verdict.  What it prints are the queries of   *)
(* the replayed book and is left out.  The lines it reads are set by the   *)
(* module that extends or instantiates this one.                           *)
(***************************************************************************)
EXTENDS Integers, Sequences, FiniteSets

CONSTANTS
  Malformed,        \* a line that does not parse, is empty or has another tag
  Ids, Prices, Quantities, MaxUint, NoOrder     \* of OrderBook

VARIABLES
  levels, orderIndex, pc, incoming, trades, result,   \* result.book
  input,         \* the lines of the file
  position,      \* how many of them are done
  ran,           \* history: how many requests were run
  replayed,      \* result.replayed_trades
  logged,        \* result.logged_trades
  mismatches,    \* result.mismatches
  phase,         \* "closed", "reading", "done", "exited", "refused"
  exit           \* the exit status of replay_tool, a set of at most one

Book == INSTANCE OrderBook WITH Discipline <- {}

bookVars == <<levels, orderIndex, pc, incoming, trades, result>>

-----------------------------------------------------------------------------
Open(lines) ==
  /\ phase = "closed" /\ phase' = "reading" /\ input' = lines
  /\ UNCHANGED <<bookVars, position, ran, replayed, logged, mismatches, exit>>

NextLine == input[position + 1]

Reading(tags) ==
  /\ phase = "reading" /\ pc = "idle" /\ position < Len(input)
  /\ NextLine # Malformed /\ NextLine.tag \in tags

\* A warning, and the line is skipped.
SkipLine ==
  /\ phase = "reading" /\ pc = "idle" /\ position < Len(input)
  /\ NextLine = Malformed
  /\ position' = position + 1
  /\ UNCHANGED <<bookVars, input, ran, replayed, logged, mismatches, phase, exit>>

CollectTrade ==
  /\ Reading({"TRADE"})
  /\ logged' = Append(logged, NextLine.trade)
  /\ position' = position + 1
  /\ UNCHANGED <<bookVars, input, ran, replayed, mismatches, phase, exit>>

\* Mutant: an ADD line is submitted.
RunLine_AddsSubmitted ==
  /\ Reading({"ADD", "CANCEL", "SUBMIT", "MODIFY"})
  /\ LET l == NextLine
     IN  \/ l.tag = "CANCEL" /\ Book!CancelOrder(l.id)
         \/ l.tag \in {"ADD", "SUBMIT"} /\ Book!SubmitOrder(l.order)
         \/ l.tag = "MODIFY" /\ Book!ModifyOrder(l.id, l.price, l.quantity)
  /\ UNCHANGED <<input, position, ran, replayed, logged, mismatches, phase, exit>>

RunLine ==
  /\ Reading({"ADD", "CANCEL", "SUBMIT", "MODIFY"})
  /\ LET l == NextLine
     IN  \/ l.tag = "ADD"    /\ Book!AddOrder(l.order)
         \/ l.tag = "CANCEL" /\ Book!CancelOrder(l.id)
         \/ l.tag = "SUBMIT" /\ Book!SubmitOrder(l.order)
         \/ l.tag = "MODIFY" /\ Book!ModifyOrder(l.id, l.price, l.quantity)
  /\ UNCHANGED <<input, position, ran, replayed, logged, mismatches, phase, exit>>

ReplayMatch ==
  /\ \/ Book!ConsumeMaker \/ Book!ReduceMaker
     \/ Book!RestRemainder \/ Book!DropRemainder
  /\ UNCHANGED <<input, position, ran, replayed, logged, mismatches, phase, exit>>

LineDone ==
  /\ Book!Return
  /\ replayed' = replayed \o trades
  /\ position' = position + 1 /\ ran' = ran + 1
  /\ UNCHANGED <<input, logged, mismatches, phase, exit>>

\* compareTrades: one mismatch for each place where one of the lists has no
\* trade or the trades differ.
\* Mutant: the trades that are missing from the log are not counted.
Differences_LoggedOnly ==
  {i \in DOMAIN logged : i > Len(replayed) \/ logged[i] # replayed[i]}

Differences ==
  (DOMAIN replayed \cup DOMAIN logged)
    \ {i \in DOMAIN replayed \cap DOMAIN logged : replayed[i] = logged[i]}

Compare ==
  /\ phase = "reading" /\ pc = "idle" /\ position = Len(input)
  /\ mismatches' = Cardinality(Differences) /\ phase' = "done"
  /\ UNCHANGED <<bookVars, input, position, ran, replayed, logged, exit>>

\* main of replay_tool, when the file cannot be opened.
Refuse ==
  /\ phase = "closed" /\ phase' = "refused" /\ exit' = {1}
  /\ UNCHANGED <<bookVars, input, position, ran, replayed, logged, mismatches>>

Exit ==
  /\ phase = "done" /\ phase' = "exited"
  /\ exit' = IF mismatches = 0 THEN {0} ELSE {1}
  /\ UNCHANGED <<bookVars, input, position, ran, replayed, logged, mismatches>>

-----------------------------------------------------------------------------
ReplayInit ==
  /\ Book!Init
  /\ input = <<>> /\ position = 0 /\ ran = 0 /\ replayed = <<>> /\ logged = <<>>
  /\ mismatches = 0 /\ phase = "closed" /\ exit = {}

ReplayStep ==
  SkipLine \/ CollectTrade \/ RunLine \/ ReplayMatch \/ LineDone \/ Compare \/ Refuse \/ Exit
=============================================================================
