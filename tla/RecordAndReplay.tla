--------------------------- MODULE RecordAndReplay ---------------------------
(***************************************************************************)
(* A recorder and a replay of what it wrote.  The file the replay opens    *)
(* holds every line that was flushed and some of the others, the last of   *)
(* them maybe torn: it is read at any moment, or after the recorder has    *)
(* crashed, which is a recorder that takes no further step.  Lines may     *)
(* also be damaged afterwards.                                             *)
(*                                                                         *)
(* Once the file is open the recorder only finishes a call whose request   *)
(* is flushed, for what it writes later is not in the file; one that had   *)
(* not flushed its request has crashed in the flush.                       *)
(***************************************************************************)
EXTENDS RecordingOrderBook, FiniteSets

CONSTANTS
  Malformed,    \* a line that does not parse
  Damageable,   \* the tags of the lines that may be damaged
  MaxDamaged    \* bound: how many are

ASSUME MalformedAssumption ==
  /\ \A r \in Requests : Malformed # Line(r)
  /\ \A t \in Book!Trade : Malformed # TradeLine(t)

VARIABLES
  rLevels, rOrderIndex, rPc, rIncoming, rTrades, rResult,   \* the replayed book
  input, position, ran, replayed, logged, mismatches, phase, exit

Replayer == INSTANCE Replay WITH
  levels <- rLevels, orderIndex <- rOrderIndex, pc <- rPc,
  incoming <- rIncoming, trades <- rTrades, result <- rResult

replayVars ==
  <<rLevels, rOrderIndex, rPc, rIncoming, rTrades, rResult,
    input, position, ran, replayed, logged, mismatches, phase, exit>>
vars == <<recorderVars, replayVars>>

-----------------------------------------------------------------------------
\* What may be left of a number that lost some of its last digits, however many
\* it has, but not all.
Cut[n \in Nat] == IF n < 10 THEN {} ELSE {n \div 10} \cup Cut[n \div 10]

\* What may be read of a line that was cut short.  It parses when the cut is in
\* the number it ends with; ADD and SUBMIT end with one digit.
Torn(l) ==
  {Malformed} \cup
  CASE l.tag = "CANCEL" -> {[l EXCEPT !.id = n] : n \in Cut[l.id]}
    [] l.tag = "MODIFY" -> {[l EXCEPT !.quantity = n] : n \in Cut[l.quantity]}
    [] l.tag = "TRADE"  -> {[l EXCEPT !.trade.quantity = n] : n \in Cut[l.trade.quantity]}
    [] OTHER            -> {}

\* What the file may hold of the log.
Saved ==
  UNION {{SubSeq(log, 1, n)}
           \cup (IF n = flushed THEN {}
                 ELSE {Append(SubSeq(log, 1, n - 1), l) : l \in Torn(log[n])}) :
         n \in flushed .. Len(log)}

Damages(lines) ==
  {D \in SUBSET {i \in DOMAIN lines : lines[i] # Malformed /\ lines[i].tag \in Damageable} :
     Cardinality(D) <= MaxDamaged}

OpenFile ==
  /\ \E lines \in Saved : \E D \in Damages(lines) :
       Replayer!Open([i \in DOMAIN lines |-> IF i \in D THEN Malformed ELSE lines[i]])
  /\ UNCHANGED recorderVars

Init == RecorderInit /\ Replayer!ReplayInit

Record ==
  /\ \/ FinishCall
     \/ phase = "closed" /\ (FlushRequest \/ \E r \in Requests : WriteRequest(r))
  /\ UNCHANGED replayVars

Next == Record \/ OpenFile \/ (Replayer!ReplayStep /\ UNCHANGED recorderVars)

Spec == Init /\ [][Next]_vars

-----------------------------------------------------------------------------
(* Properties.                                                             *)

\* How many of the first n lines are requests.
Requested(lines, n) ==
  Cardinality({i \in 1 .. n : lines[i] # Malformed /\ lines[i].tag # "TRADE"})
SameBook(book) == rLevels = book.levels /\ rOrderIndex = book.orderIndex

\* No call is in progress, and the file has been replayed.
Settled == phase = "done" /\ stage = "idle"

\* The log grows by one call at a time: a request, then its trades.  What is
\* not flushed is of the last call, what the replay collected is the
\* part of the file it is done with, and it is inside the book only while it
\* reads the file.
TypeOK ==
  /\ stage \in {"idle", "writing", "logged", "calling", "trades"}
  /\ phase \in {"closed", "reading", "done", "exited", "refused"}
  /\ pc \in {"idle", "match", "return"} /\ (pc # "idle" => stage = "calling")
  /\ rPc \in {"idle", "match", "return"} /\ (rPc # "idle" => phase = "reading")
  /\ flushed \in 0 .. Len(log)
  /\ stage \in {"idle", "logged", "calling"} => flushed = Len(log)
  /\ Len(completed) = Requested(log, Len(log))
                        - (IF stage \in {"writing", "logged", "calling"} THEN 1 ELSE 0)
  /\ position \in 0 .. Len(input)
  /\ ran = Requested(input, position)
  /\ Len(logged) <= position - ran
  /\ mismatches \in 0 .. Len(replayed) + Len(logged)

\* The replayed book follows the recorded one: when the replay has run n
\* requests of the file, its book has the levels, the places in them and the
\* index that the recorded book had after n calls, at whatever moment the file
\* was taken and whatever became of its TRADE lines.
ReplayFollowsRecording ==
  rPc = "idle" /\ ran \in DOMAIN completed => SameBook(completed[ran])

\* The log is written ahead: whatever was written, torn or lost when the file
\* was taken, no call whose effects the recorded book has is missing from it,
\* and if the recorder goes on to finish its call the two books are the same.
CrashLosesNothing ==
  /\ phase = "done" => ran >= Len(completed)
  /\ Settled => SameBook([levels |-> levels, orderIndex |-> orderIndex])

\* When every request line can be read, the verdict of compareTrades is right,
\* and replay_tool exits with it: no mismatch, and success, exactly when the
\* file has all that was logged and has it whole.
VerdictIsRight ==
  stage = "idle" =>
    /\ phase = "done" => (mismatches = 0 <=> input = log)
    /\ phase = "exited" => (exit = {0} <=> input = log)

\* What the comment on parseLine is for: the book is never called with corrupted
\* data.  Each line that runs is one that was written.  The comment promises it
\* for a line whose extraction fails, which that of a cut number does not.
NoCorruptedCall == rPc # "idle" => Replayer!NextLine = log[position + 1]
=============================================================================
