--------------------------- MODULE IngesterProofs ---------------------------
(***************************************************************************)
(* Proofs about Ingester, for any batch size and any number of lines,      *)
(* rotations, failing calls and restarts.                                  *)
(*                                                                         *)
(* Three invariants are stacked.  TailInv types the worker and ties batch  *)
(* and positions to the file.  RowsInv counts rows: a record the current   *)
(* pass may still insert (Fresh) has been inserted at most once per        *)
(* failure or restart, and records of a batch whose bounties are due have  *)
(* a row more than they have bounties.  KeptInv says what has been handed  *)
(* over at each point of a pass; it carries the refinement of              *)
(* AtLeastOnceLog.                                                         *)
(***************************************************************************)
EXTENDS Ingester, SequenceTheorems, TLAPS

Flushing == {"flush", "bounty", "save"}

\* The lines of the file were written; without rotation it holds all of them.
FileInv ==
    /\ Len(log) <= written
    /\ \A i \in 1..Len(log) : log[i] \in 1..written
    /\ rotations = 0 => Len(log) = written /\ \A i \in 1..written : log[i] = i

\* A batch holds records that were read from the file, is never empty when it
\* is flushed and has room when it is read into.
BatchInv ==
    /\ \A i \in 1..Len(batch) : batch[i].line \in (1..written) \ bad
    /\ pc = "read" => Len(batch) < BatchSize
    /\ pc \in Flushing => Len(batch) > 0
    /\ pc \in {"load", "poll"} => batch = <<>>

\* Without rotation positions lie in the file, and behind the last record of
\* the batch (or the position, without one) the pass has met bad lines only.
PositionInv ==
    rotations = 0 =>
        /\ saved <= written /\ position <= written /\ cursor <= written
        /\ \A i \in 1..Len(batch) : batch[i].end = batch[i].line /\ batch[i].line <= cursor
        /\ pc \in Flushing \cup {"read"} =>
             LET from == IF batch = <<>> THEN position ELSE batch[Len(batch)].end IN
             \A n \in Lines : from < n /\ n <= cursor => n \in bad

TailInv == TypeOK /\ FileInv /\ BatchInv /\ PositionInv

\* The record may still be inserted in this pass, without another failure.
Fresh(n) ==
    CASE pc = "load" -> n > saved
      [] pc = "poll" -> n > position
      [] pc \in {"read", "flush"} -> n > cursor \/ n \in BatchLines
      [] pc \in {"bounty", "save"} -> n > cursor
      [] OTHER -> FALSE

RowsInv ==
    /\ BountyHasLog
    /\ pc = "bounty" => \A n \in BatchLines : bounties[n] < logs[n]
    /\ DuplicatesPaid
    /\ rotations = 0 => \A n \in Lines \ bad : Fresh(n) => logs[n] <= failures + crashes

Handed == bad \cup {n \in 1..written : logs[n] >= 1 /\ bounties[n] >= 1}

Intact == rotations = 0 /\ (bad = {} \/ failures = 0)

\* As long as the promise holds, nothing behind the persisted position is
\* missing; the loop's own position may pass over the records of a waiting
\* batch, but then there is a bad line, and a failure ends the promise.
KeptInv ==
    /\ \A n \in Lines : n > written => logs[n] = 0
    /\ pc \in {"bounty", "save"} => \A n \in BatchLines : logs[n] >= 1
    /\ pc = "save" => \A n \in BatchLines : bounties[n] >= 1
    /\ Intact =>
         /\ 1..saved \subseteq Handed
         /\ pc = "poll" \/ bad = {} => 1..position \subseteq Handed
         /\ pc \in Flushing \cup {"read"} =>
              position <= cursor /\ 1..cursor \subseteq Handed \cup BatchLines


\* The worker's numbers, without the sets that bound them.
LEMMA Numbers ==
    ASSUME TypeOK
    PROVE  /\ MaxLines \in Nat /\ MaxRotations \in Nat /\ MaxFailures \in Nat
           /\ MaxCrashes \in Nat /\ BatchSize \in Nat /\ BatchSize > 0
           /\ written \in Nat /\ written <= MaxLines /\ bad \subseteq 1..written
           /\ saved \in Nat /\ position \in Nat /\ cursor \in Nat
           /\ saved <= MaxLines /\ position <= MaxLines /\ cursor <= MaxLines
           /\ rotations \in Nat /\ failures \in Nat /\ crashes \in Nat
           /\ Len(log) \in Nat /\ \A i \in 1..Len(log) : log[i] \in Lines
<1>1. /\ MaxLines \in Nat /\ MaxRotations \in Nat /\ MaxFailures \in Nat
      /\ MaxCrashes \in Nat /\ BatchSize \in Nat /\ BatchSize > 0
  BY IngesterAssumption
<1>2. log \in Seq(Lines)
  BY DEF TypeOK
<1>3. Len(log) \in Nat /\ \A i \in 1..Len(log) : log[i] \in Lines
  BY <1>2, LenProperties, ElementOfSeq
<1> QED
  BY <1>1, <1>3 DEF TypeOK

\* The type of a batch whose records are not among the lines b.
Entries(b) == [line : Lines \ b, end : 1..MaxLines]

\* The entries of a batch.
LEMMA BatchFacts ==
    ASSUME TypeOK
    PROVE  /\ batch \in Seq(Entries(bad)) /\ Len(batch) \in Nat /\ Len(batch) <= BatchSize
           /\ \A i \in 1..Len(batch) : /\ batch[i] \in Entries(bad)
                                       /\ batch[i].line \in Lines \ bad
                                       /\ batch[i].end \in 1..MaxLines
           /\ Len(batch) = 0 <=> batch = <<>>
           /\ \A n : n \in BatchLines <=> \E i \in 1..Len(batch) : batch[i].line = n
<1>1. batch \in Seq(Entries(bad)) /\ Len(batch) <= BatchSize
  BY DEF TypeOK, Entries
<1>2. /\ Len(batch) \in Nat /\ DOMAIN batch = 1..Len(batch)
      /\ \A i \in 1..Len(batch) : batch[i] \in Entries(bad)
  BY <1>1, LenProperties, ElementOfSeq
<1>3. \A i \in 1..Len(batch) : batch[i].line \in Lines \ bad /\ batch[i].end \in 1..MaxLines
  BY <1>2 DEF Entries
<1>4. Len(batch) = 0 <=> batch = <<>>
  BY <1>1, EmptySeq
<1>5. \A n : n \in BatchLines <=> \E i \in 1..Len(batch) : batch[i].line = n
  BY <1>2 DEF BatchLines
<1> QED
  BY <1>1, <1>2, <1>3, <1>4, <1>5

\* A sequence is one of the set its elements are in.
LEMMA SeqInto ==
    ASSUME NEW S, NEW T, NEW q \in Seq(S), \A i \in 1..Len(q) : q[i] \in T
    PROVE  q \in Seq(T)
<1>1. Len(q) \in Nat /\ q \in [1..Len(q) -> S]
  BY LenProperties
<1>2. q = [i \in 1..Len(q) |-> q[i]]
  BY <1>1
<1> QED
  BY <1>1, <1>2

\* The log counters after an insert, the bounty counters after an extraction.
LEMMA InsertFacts ==
    ASSUME TypeOK, Insert
    PROVE  /\ logs' \in [Lines -> Nat]
           /\ \A n \in Lines : logs'[n] = IF n \in BatchLines THEN logs[n] + 1 ELSE logs[n]
BY DEF TypeOK, Insert

LEMMA ExtractFacts ==
    ASSUME TypeOK, NEW k \in 0..Len(batch), Extract(k)
    PROVE  /\ bounties' \in [Lines -> Nat]
           /\ \A n \in Lines :
                /\ bounties'[n] = bounties[n] \/ bounties'[n] = bounties[n] + 1
                /\ bounties'[n] # bounties[n] => n \in BatchLines
                /\ k = Len(batch) /\ n \in BatchLines => bounties'[n] = bounties[n] + 1
<1>1. /\ bounties' = [n \in Lines |-> IF \E i \in 1..k : batch[i].line = n
                                      THEN bounties[n] + 1 ELSE bounties[n]]
      /\ bounties \in [Lines -> Nat]
  BY DEF Extract, TypeOK
<1>2. bounties' \in [Lines -> Nat]
  BY <1>1
<1>3. /\ \A n : n \in BatchLines <=> \E i \in 1..Len(batch) : batch[i].line = n
      /\ Len(batch) \in Nat
  BY BatchFacts
<1>4. \A i \in 1..k : i \in 1..Len(batch)
  BY <1>3
<1>5. ASSUME NEW n \in Lines
      PROVE  /\ bounties'[n] = bounties[n] \/ bounties'[n] = bounties[n] + 1
             /\ bounties'[n] # bounties[n] => n \in BatchLines
             /\ k = Len(batch) /\ n \in BatchLines => bounties'[n] = bounties[n] + 1
  <2>1. bounties'[n] = IF \E i \in 1..k : batch[i].line = n THEN bounties[n] + 1 ELSE bounties[n]
    BY <1>1
  <2>2. (\E i \in 1..k : batch[i].line = n) => n \in BatchLines
    BY <1>3, <1>4
  <2>3. k = Len(batch) /\ n \in BatchLines => \E i \in 1..k : batch[i].line = n
    BY <1>3
  <2> QED
    BY <2>1, <2>2, <2>3
<1> QED
  BY <1>2, <1>5

\* The file grows or is truncated; the worker's variables stay.
LEMMA TailFile ==
    ASSUME TailInv, WriteLine \/ Rotate
    PROVE  TailInv'
<1>0. TypeOK /\ FileInv /\ BatchInv /\ PositionInv
  BY DEF TailInv
<1>1. CASE WriteLine
  <2>1. /\ written' = written + 1 /\ written < MaxLines
        /\ log' = Append(log, written') /\ bad' \in {bad, bad \cup {written'}}
        /\ UNCHANGED <<pc, position, cursor, batch, resume, saved, logs, bounties,
                       rotations, failures, crashes>>
    BY <1>1 DEF WriteLine, workerVars, tableVars, boundVars
  <2>2. /\ written' \in Nat /\ written' <= MaxLines /\ written' \in Lines
        /\ bad' \subseteq 1..written' /\ written \in Nat
    BY <1>0, <2>1, Numbers DEF Lines
  <2>3. /\ log' \in Seq(Lines) /\ Len(log') = Len(log) + 1 /\ Len(log) \in Nat
        /\ \A i \in 1..Len(log) : log'[i] = log[i]
        /\ log'[Len(log) + 1] = written'
    <3>1. log \in Seq(Lines)
      BY <1>0 DEF TypeOK
    <3> QED
      BY <2>1, <2>2, <3>1, AppendProperties, LenProperties
  <2>4. batch' \in Seq(Entries(bad'))
    <3>1. batch \in Seq(Entries(bad)) /\ \A i \in 1..Len(batch) : batch[i] \in Entries(bad)
      BY <1>0, BatchFacts
    <3>2. \A i \in 1..Len(batch) : batch[i].line # written'
      BY <1>0, <2>1, <2>2 DEF BatchInv
    <3>3. \A i \in 1..Len(batch) : batch[i] \in Entries(bad')
      BY <2>1, <3>1, <3>2 DEF Entries
    <3> QED
      BY <2>1, <3>1, <3>3, SeqInto
  <2>5. TypeOK'
    BY <1>0, <2>1, <2>2, <2>3, <2>4 DEF TypeOK, Entries
  <2>6. FileInv'
    <3>1. Len(log') <= written'
      BY <1>0, <2>1, <2>2, <2>3 DEF FileInv
    <3>2. \A i \in 1..Len(log') : log'[i] \in 1..written'
      BY <1>0, <2>1, <2>2, <2>3 DEF FileInv
    <3>3. rotations' = 0 => Len(log') = written' /\ \A i \in 1..written' : log'[i] = i
      BY <1>0, <2>1, <2>2, <2>3 DEF FileInv
    <3> QED
      BY <3>1, <3>2, <3>3 DEF FileInv
  <2>7. BatchInv'
    BY <1>0, <2>1, <2>2 DEF BatchInv
  <2>8. PositionInv'
    <3>1. /\ saved \in Nat /\ position \in Nat /\ cursor \in Nat /\ bad \subseteq bad'
      BY <1>0, <2>1, Numbers
    <3> QED
      BY <1>0, <2>1, <2>2, <3>1 DEF PositionInv
  <2> QED
    BY <2>5, <2>6, <2>7, <2>8 DEF TailInv
<1>2. CASE Rotate
  <2>1. /\ rotations' = rotations + 1 /\ rotations < MaxRotations /\ log' = <<>>
        /\ UNCHANGED <<written, bad, pc, position, cursor, batch, resume, saved, logs,
                       bounties, failures, crashes>>
    BY <1>2 DEF Rotate, workerVars, tableVars
  <2>2. rotations' \in 0..MaxRotations /\ rotations' # 0
    BY <1>0, <2>1, Numbers
  <2>3. log' \in Seq(Lines) /\ Len(log') = 0
    BY <2>1
  <2>4. TypeOK'
    BY <1>0, <2>1, <2>2, <2>3 DEF TypeOK
  <2>5. FileInv'
    BY <1>0, <2>1, <2>2, <2>3, Numbers DEF FileInv
  <2>6. BatchInv' /\ PositionInv'
    BY <1>0, <2>1, <2>2 DEF BatchInv, PositionInv
  <2> QED
    BY <2>4, <2>5, <2>6 DEF TailInv
<1> QED
  BY <1>1, <1>2

\* The positions are read, and the file is polled and read line by line.
LEMMA TailPass ==
    ASSUME TailInv,
           \/ LoadPosition \/ PollNothing \/ Poll \/ PollRotated
           \/ ReadRecord \/ ReadBadLine \/ ReadEnd
    PROVE  TailInv'
<1>0. TypeOK /\ FileInv /\ BatchInv /\ PositionInv
  BY DEF TailInv
<1>1. CASE LoadPosition
  BY <1>0, <1>1 DEF LoadPosition, TailInv, TypeOK, FileInv, BatchInv, PositionInv, fileVars,
              tableVars, boundVars, Flushing
<1>2. CASE PollNothing
  BY <1>0, <1>2 DEF PollNothing, vars, TailInv, TypeOK, FileInv, BatchInv, PositionInv,
              fileVars, workerVars, tableVars, boundVars
<1>3. CASE Poll
  <2>1. /\ cursor' = position /\ batch' = <<>> /\ pc' = "read"
        /\ UNCHANGED <<log, written, bad, position, resume, saved, logs, bounties,
                       rotations, failures, crashes>>
    BY <1>3 DEF Poll, fileVars, tableVars, boundVars
  <2>2. Len(batch') = 0 /\ BatchSize > 0 /\ BatchSize \in Nat
    BY <1>0, <2>1, Numbers
  <2>3. TypeOK'
    BY <1>0, <2>1, <2>2 DEF TypeOK
  <2>4. FileInv' /\ BatchInv'
    BY <1>0, <2>1, <2>2 DEF FileInv, BatchInv, Flushing
  <2>5. PositionInv'
    <3>1. \A n \in Lines : ~(position < n /\ n <= position)
      BY <1>0, Numbers DEF Lines
    <3> QED
      BY <1>0, <2>1, <2>2, <3>1 DEF PositionInv
  <2> QED
    BY <2>3, <2>4, <2>5 DEF TailInv
<1>4. CASE PollRotated
  <2>1. /\ pc = "poll" /\ Len(log) < position /\ position' = 0 /\ saved' = 0
        /\ UNCHANGED <<log, written, bad, pc, cursor, batch, resume, logs, bounties,
                       rotations, failures, crashes>>
    BY <1>4 DEF PollRotated, fileVars, boundVars
  <2>2. TypeOK'
    BY <1>0, <2>1, Numbers DEF TypeOK
  <2>3. FileInv' /\ BatchInv'
    BY <1>0, <2>1 DEF FileInv, BatchInv
  <2>4. PositionInv'
    BY <1>0, <2>1, Numbers DEF PositionInv, Flushing
  <2> QED
    BY <2>2, <2>3, <2>4 DEF TailInv
<1>5. CASE ReadRecord
  <2>0. PICK e : e = [line |-> log[cursor + 1], end |-> cursor + 1]
    OBVIOUS
  <2>1. /\ pc = "read" /\ cursor < Len(log) /\ log[cursor + 1] \notin bad
        /\ cursor' = cursor + 1 /\ batch' = Append(batch, e)
        /\ \/ pc' = "flush" /\ resume' = "read"
           \/ Len(batch') < BatchSize /\ pc' = pc /\ resume' = resume
        /\ UNCHANGED <<log, written, bad, position, saved, logs, bounties, rotations,
                       failures, crashes>>
    BY <1>5, <2>0 DEF ReadRecord, fileVars, tableVars, boundVars
  <2>2. /\ cursor \in Nat /\ cursor + 1 \in 1..Len(log) /\ cursor + 1 \in 1..MaxLines
        /\ cursor + 1 <= written
    BY <1>0, <2>1, Numbers DEF FileInv
  <2>3. log[cursor + 1] \in (1..written) \ bad /\ log[cursor + 1] \in Lines \ bad
    BY <1>0, <2>1, <2>2, Numbers DEF FileInv
  <2>4. e \in Entries(bad) /\ e.line = log[cursor + 1] /\ e.end = cursor + 1
    BY <2>0, <2>2, <2>3 DEF Entries
  <2>5. /\ batch' \in Seq(Entries(bad)) /\ Len(batch') = Len(batch) + 1 /\ Len(batch) \in Nat
        /\ \A i \in 1..Len(batch) : batch'[i] = batch[i]
        /\ batch'[Len(batch) + 1] = e /\ batch' # <<>>
    <3>1. batch \in Seq(Entries(bad)) /\ Len(batch) \in Nat
      BY <1>0, BatchFacts
    <3> QED
      BY <2>1, <2>4, <3>1, AppendProperties
  <2>6. Len(batch') <= BatchSize
    BY <1>0, <2>1, <2>5, Numbers DEF BatchInv
  <2>7. TypeOK'
    <3>1. cursor' \in 0..MaxLines /\ batch' \in Seq(Entries(bad'))
      BY <2>1, <2>2, <2>5
    <3>2. pc' \in {"read", "flush"} /\ resume' \in {"read", "poll"}
      BY <1>0, <2>1 DEF TypeOK
    <3> QED
      BY <1>0, <2>1, <2>6, <3>1, <3>2 DEF TypeOK, Entries
  <2>8. FileInv'
    BY <1>0, <2>1 DEF FileInv
  <2>9. BatchInv'
    <3>1. \A i \in 1..Len(batch') : i \in 1..Len(batch) \/ i = Len(batch) + 1
      BY <2>5
    <3>2. \A i \in 1..Len(batch') : batch'[i].line \in (1..written) \ bad
      BY <1>0, <2>3, <2>4, <2>5, <3>1 DEF BatchInv
    <3> QED
      BY <2>1, <2>5, <3>2 DEF BatchInv, Flushing
  <2>10. PositionInv'
    <3>1. SUFFICES ASSUME rotations = 0 PROVE PositionInv'
      BY <2>1 DEF PositionInv
    <3>2. e.line = cursor + 1
      BY <1>0, <2>2, <2>4, <3>1 DEF FileInv
    <3>3. \A i \in 1..Len(batch') : i \in 1..Len(batch) \/ i = Len(batch) + 1
      BY <2>5
    <3>4. \A i \in 1..Len(batch') : batch'[i].end = batch'[i].line /\ batch'[i].line <= cursor'
      <4>1. \A i \in 1..Len(batch) : batch[i].line \in Nat
        BY <1>0, BatchFacts DEF Lines
      <4> QED
        BY <1>0, <2>1, <2>2, <2>4, <2>5, <3>1, <3>2, <3>3, <4>1 DEF PositionInv
    <3>5. batch'[Len(batch')].end = cursor'
      BY <2>1, <2>4, <2>5
    <3>6. \A n \in Lines : ~(cursor' < n /\ n <= cursor')
      BY <2>1, <2>2 DEF Lines
    <3> QED
      BY <1>0, <2>1, <2>2, <2>5, <3>1, <3>4, <3>5, <3>6 DEF PositionInv
  <2> QED
    BY <2>7, <2>8, <2>9, <2>10 DEF TailInv
<1>6. CASE ReadBadLine
  <2>1. /\ pc = "read" /\ pc' = pc /\ cursor < Len(log) /\ log[cursor + 1] \in bad
        /\ cursor' = cursor + 1 /\ position' = cursor + 1
        /\ UNCHANGED <<log, written, bad, batch, resume, saved, logs, bounties, rotations,
                       failures, crashes>>
    BY <1>6 DEF ReadBadLine, fileVars, tableVars, boundVars
  <2>2. /\ cursor \in Nat /\ cursor + 1 \in 1..Len(log) /\ cursor + 1 \in 1..MaxLines
        /\ cursor + 1 <= written
    BY <1>0, <2>1, Numbers DEF FileInv
  <2>3. TypeOK'
    BY <1>0, <2>1, <2>2 DEF TypeOK
  <2>4. FileInv' /\ BatchInv'
    BY <1>0, <2>1 DEF FileInv, BatchInv
  <2>5. PositionInv'
    <3>1. SUFFICES ASSUME rotations = 0 PROVE PositionInv'
      BY <2>1 DEF PositionInv
    <3>2. cursor + 1 \in bad
      BY <1>0, <2>1, <2>2, <3>1 DEF FileInv
    <3>3. \A i \in 1..Len(batch) : batch[i].line \in Nat
      BY <1>0, BatchFacts DEF Lines
    <3>4. \A i \in 1..Len(batch) : batch[i].end = batch[i].line /\ batch[i].line <= cursor + 1
      BY <1>0, <2>2, <3>1, <3>3 DEF PositionInv
    <3>5. CASE batch = <<>>
      BY <1>0, <2>1, <2>2, <3>1, <3>4, <3>5 DEF PositionInv, Lines
    <3>6. CASE batch # <<>>
      <4>1. \A n \in Lines : batch[Len(batch)].end < n /\ n <= cursor => n \in bad
        BY <1>0, <2>1, <3>1, <3>6 DEF PositionInv
      <4>2. \A n \in Lines : n <= cursor + 1 => n <= cursor \/ n = cursor + 1
        BY <2>2 DEF Lines
      <4> QED
        BY <1>0, <2>1, <2>2, <3>1, <3>2, <3>4, <3>6, <4>1, <4>2 DEF PositionInv
    <3> QED
      BY <3>5, <3>6
  <2> QED
    BY <2>3, <2>4, <2>5 DEF TailInv
<1>7. CASE ReadEnd
  <2>1. /\ pc = "read" /\ pc' = (IF batch = <<>> THEN "poll" ELSE "flush") /\ resume' = "poll"
        /\ UNCHANGED <<log, written, bad, position, cursor, batch, saved, logs, bounties,
                       rotations, failures, crashes>>
    BY <1>7 DEF ReadEnd, fileVars, tableVars, boundVars
  <2>2. TypeOK' /\ FileInv'
    BY <1>0, <2>1 DEF TypeOK, FileInv
  <2>3. Len(batch) \in Nat /\ (Len(batch) = 0 <=> batch = <<>>)
    BY <1>0, BatchFacts
  <2>4. BatchInv'
    BY <1>0, <2>1, <2>3 DEF BatchInv, Flushing
  <2>5. PositionInv'
    BY <1>0, <2>1 DEF PositionInv, Flushing
  <2> QED
    BY <2>2, <2>4, <2>5 DEF TailInv
<1> QED
  BY <1>1, <1>2, <1>3, <1>4, <1>5, <1>6, <1>7

\* An exception: the batch is dropped, the positions stay.
LEMMA TailRaise ==
    ASSUME TailInv, Raise, position' \in {position, 0}, saved' = saved,
           logs' \in [Lines -> Nat], bounties' \in [Lines -> Nat]
    PROVE  TailInv'
<1>0. TypeOK /\ FileInv /\ BatchInv /\ PositionInv
  BY DEF TailInv
<1>1. /\ failures' = failures + 1 /\ failures < MaxFailures /\ batch' = <<>>
      /\ pc' \in {"poll", "exited"}
      /\ UNCHANGED <<log, written, bad, cursor, resume, rotations, crashes>>
  BY DEF Raise, fileVars
<1>2. failures' \in 0..MaxFailures /\ position' \in 0..MaxLines /\ Len(batch') = 0
  BY <1>0, <1>1, Numbers
<1>3. TypeOK'
  <2>1. batch' \in Seq(Entries(bad')) /\ Len(batch') <= BatchSize
    BY <1>0, <1>1, <1>2, Numbers
  <2>2. {saved', position', cursor'} \subseteq 0..MaxLines /\ bad' \subseteq 1..written'
    BY <1>0, <1>1, <1>2 DEF TypeOK
  <2>3. pc' \in {"load", "poll", "read", "flush", "bounty", "save", "exited"}
    BY <1>1
  <2> QED
    BY <1>0, <1>1, <1>2, <2>1, <2>2, <2>3 DEF TypeOK, Entries
<1>4. FileInv' /\ BatchInv'
  BY <1>0, <1>1, <1>2 DEF FileInv, BatchInv, Flushing
<1>5. PositionInv'
  BY <1>0, <1>1, <1>2, Numbers DEF PositionInv, Flushing
<1> QED
  BY <1>3, <1>4, <1>5 DEF TailInv

\* _flush_batch, its failures, and a restart of the API.
LEMMA TailFlush ==
    ASSUME TailInv, AddLogs \/ ExtractBounties \/ SavePosition \/ Fail \/ Crash
    PROVE  TailInv'
<1>0. TypeOK /\ FileInv /\ BatchInv /\ PositionInv
  BY DEF TailInv
<1>1. CASE AddLogs
  <2>1. /\ pc = "flush" /\ pc' = "bounty" /\ logs' \in [Lines -> Nat]
        /\ UNCHANGED <<log, written, bad, position, cursor, batch, resume, saved, bounties,
                       rotations, failures, crashes>>
    BY <1>0, <1>1, InsertFacts DEF AddLogs, fileVars, workerVars, boundVars
  <2>2. TypeOK' /\ FileInv'
    BY <1>0, <2>1 DEF TypeOK, FileInv
  <2>3. BatchInv' /\ PositionInv'
    BY <1>0, <2>1 DEF BatchInv, PositionInv, Flushing
  <2> QED
    BY <2>2, <2>3 DEF TailInv
<1>2. CASE ExtractBounties
  <2>1. /\ pc = "bounty" /\ pc' = "save" /\ bounties' \in [Lines -> Nat]
        /\ UNCHANGED <<log, written, bad, position, cursor, batch, resume, saved, logs,
                       rotations, failures, crashes>>
    <3>1. Len(batch) \in 0..Len(batch)
      BY <1>0, BatchFacts
    <3> QED
      BY <1>0, <1>2, <3>1, ExtractFacts DEF ExtractBounties, fileVars, workerVars, boundVars
  <2>2. TypeOK' /\ FileInv'
    BY <1>0, <2>1 DEF TypeOK, FileInv
  <2>3. BatchInv' /\ PositionInv'
    BY <1>0, <2>1 DEF BatchInv, PositionInv, Flushing
  <2> QED
    BY <2>2, <2>3 DEF TailInv
<1>3. CASE SavePosition
  <2>0. PICK end : end = batch[Len(batch)].end
    OBVIOUS
  <2>1. /\ pc = "save" /\ pc' = resume /\ saved' = end /\ position' = end /\ batch' = <<>>
        /\ UNCHANGED <<log, written, bad, cursor, resume, logs, bounties, rotations,
                       failures, crashes>>
    BY <1>3, <2>0 DEF SavePosition, fileVars, boundVars
  <2>2. Len(batch) \in Nat /\ Len(batch) > 0 /\ Len(batch) \in 1..Len(batch)
    BY <1>0, <2>1, BatchFacts DEF BatchInv, Flushing
  <2>3. end \in 1..MaxLines /\ end \in 0..MaxLines /\ Len(batch') = 0
    BY <1>0, <2>0, <2>1, <2>2, BatchFacts
  <2>4. resume \in {"read", "poll"}
    BY <1>0 DEF TypeOK
  <2>5. TypeOK'
    <3>1. {saved', position', cursor'} \subseteq 0..MaxLines
      <4>1. cursor \in 0..MaxLines
        BY <1>0 DEF TypeOK
      <4> QED
        BY <2>1, <2>3, <4>1
    <3>2. /\ batch' \in Seq([line : Lines \ bad', end : 1..MaxLines])
          /\ Len(batch') <= BatchSize
      <4>1. batch' \in Seq([line : Lines \ bad', end : 1..MaxLines])
        BY <2>1
      <4>2. 0 <= BatchSize
        BY <1>0, Numbers
      <4> QED
        BY <2>3, <4>1, <4>2
    <3>3. /\ log' \in Seq(Lines) /\ written' \in 0..MaxLines /\ bad' \subseteq 1..written'
          /\ logs' \in [Lines -> Nat] /\ bounties' \in [Lines -> Nat]
          /\ rotations' \in 0..MaxRotations /\ failures' \in 0..MaxFailures
          /\ crashes' \in 0..MaxCrashes
      BY <1>0, <2>1 DEF TypeOK
    <3>4. resume' \in {"read", "poll"} /\ pc' \in {"read", "poll"}
      BY <2>1, <2>4
    <3> QED
      BY <3>1, <3>2, <3>3, <3>4 DEF TypeOK
  <2>6. FileInv' /\ BatchInv'
    BY <1>0, <2>1, <2>3, <2>4, Numbers DEF FileInv, BatchInv, Flushing
  <2>7. PositionInv'
    <3>1. SUFFICES ASSUME rotations = 0 PROVE PositionInv'
      BY <2>1 DEF PositionInv
    <3>2. end <= cursor /\ cursor <= written
      BY <1>0, <2>0, <2>2, <3>1 DEF PositionInv
    <3>3. end <= written
      BY <1>0, <2>3, <3>2, Numbers
    <3>4. \A n \in Lines : end < n /\ n <= cursor => n \in bad
      <4>1. batch # <<>>
        BY <1>0, <2>2, BatchFacts
      <4> QED
        BY <1>0, <2>0, <2>1, <3>1, <4>1 DEF PositionInv, Flushing
    <3> QED
      BY <2>1, <2>3, <3>1, <3>2, <3>3, <3>4 DEF PositionInv
  <2> QED
    BY <2>5, <2>6, <2>7 DEF TailInv
<1>4. CASE PollRotatedFails
  <2>1. Raise /\ position' = 0 /\ UNCHANGED <<saved, logs, bounties>>
    BY <1>4 DEF PollRotatedFails, tableVars
  <2> QED
    BY <1>0, <2>1, TailRaise DEF TypeOK
<1>5. CASE AddLogsFails
  <2>1. /\ Raise /\ (Insert \/ logs' = logs)
        /\ UNCHANGED <<position, saved, bounties>>
    BY <1>5 DEF AddLogsFails
  <2>2. logs' \in [Lines -> Nat] /\ bounties' \in [Lines -> Nat]
    BY <1>0, <2>1, InsertFacts DEF TypeOK
  <2> QED
    BY <2>1, <2>2, TailRaise
<1>6. CASE ExtractBountiesFails
  <2>1. /\ Raise /\ UNCHANGED <<position, saved, logs>>
        /\ \E k \in 0..(Len(batch) - 1) : Extract(k)
    BY <1>6 DEF ExtractBountiesFails
  <2>2. PICK k \in 0..(Len(batch) - 1) : Extract(k)
    BY <2>1
  <2>3. k \in 0..Len(batch)
    BY <1>0, BatchFacts
  <2>4. logs' \in [Lines -> Nat] /\ bounties' \in [Lines -> Nat]
    BY <1>0, <2>1, <2>2, <2>3, ExtractFacts DEF TypeOK
  <2> QED
    BY <2>1, <2>4, TailRaise
<1>7. CASE SavePositionFails
  <2>1. Raise /\ UNCHANGED <<position, saved, logs, bounties>>
    BY <1>7 DEF SavePositionFails, tableVars
  <2> QED
    BY <1>0, <2>1, TailRaise DEF TypeOK
<1>8. CASE Crash
  <2>1. /\ crashes < MaxCrashes /\ crashes' = crashes + 1 /\ pc' = "load" /\ batch' = <<>>
        /\ UNCHANGED <<log, written, bad, position, cursor, resume, saved, logs, bounties,
                       rotations, failures>>
    BY <1>8 DEF Crash, fileVars, tableVars
  <2>2. crashes' \in 0..MaxCrashes /\ Len(batch') = 0 /\ 0 <= BatchSize
    BY <1>0, <2>1, Numbers
  <2>3. TypeOK'
    BY <1>0, <2>1, <2>2 DEF TypeOK
  <2>4. FileInv' /\ BatchInv' /\ PositionInv'
    BY <1>0, <2>1, <2>2 DEF FileInv, BatchInv, PositionInv, Flushing
  <2> QED
    BY <2>3, <2>4 DEF TailInv
<1> QED
  BY <1>1, <1>2, <1>3, <1>4, <1>5, <1>6, <1>7, <1>8 DEF Fail

LEMMA TailInit == Init => TailInv
<1> SUFFICES ASSUME Init PROVE TailInv
  OBVIOUS
<1>1. MaxLines \in Nat /\ MaxRotations \in Nat /\ MaxFailures \in Nat /\ MaxCrashes \in Nat
      /\ BatchSize \in Nat /\ BatchSize > 0
  BY IngesterAssumption
<1>2. Len(log) = 0 /\ Len(batch) = 0 /\ log = <<>> /\ batch = <<>>
  BY DEF Init
<1>3. TypeOK
  BY <1>1, <1>2 DEF Init, TypeOK
<1>4. FileInv /\ BatchInv /\ PositionInv
  BY <1>1, <1>2 DEF Init, FileInv, BatchInv, PositionInv, Flushing
<1> QED
  BY <1>3, <1>4 DEF TailInv

LEMMA TailNext == TailInv /\ [Next]_vars => TailInv'
<1> SUFFICES ASSUME TailInv, [Next]_vars PROVE TailInv'
  OBVIOUS
<1>1. CASE UNCHANGED vars
  BY <1>1 DEF vars, TailInv, TypeOK, FileInv, BatchInv, PositionInv, fileVars,
              workerVars, tableVars, boundVars
<1> QED
  BY <1>1, TailFile, TailPass, TailFlush DEF Next, Step

\* Type correctness and what ties the batch and the positions to the file.
THEOREM TailInvariant == Spec => []TailInv
BY TailInit, TailNext, PTL DEF Spec

\* Type correctness of the JSON log, the worker's positions and batch, and the
\* tables it writes.
THEOREM TypeCorrect == Spec => []TypeOK
<1>1. TailInv => TypeOK
  BY DEF TailInv
<1> QED
  BY <1>1, TailInvariant, PTL

\* What is left to show when every row count is within the budget of the next
\* state: a failure or a restart has just raised it.
LEMMA RowsRaised ==
    ASSUME BountyHasLog', pc' # "bounty", TypeOK',
           rotations' = 0 => \A n \in Lines : logs'[n] <= failures' + crashes'
    PROVE  RowsInv'
<1>1. /\ failures' \in Nat /\ crashes' \in Nat
      /\ \A n \in Lines : logs'[n] \in Nat
  BY DEF TypeOK
<1> QED
  BY <1>1 DEF RowsInv, DuplicatesPaid

\* The steps that touch neither table: no record becomes insertable again.
LEMMA RowsKept ==
    ASSUME TailInv, RowsInv, UNCHANGED <<logs, bounties, failures, crashes>>,
           rotations' = 0 => rotations = 0, bad \subseteq bad',
           pc' = "bounty" => pc = "bounty" /\ batch' = batch,
           rotations' = 0 => \A n \in Lines \ bad' : Fresh(n)' => Fresh(n)
    PROVE  RowsInv'
<1>1. BountyHasLog' /\ DuplicatesPaid'
  BY DEF RowsInv, BountyHasLog, DuplicatesPaid
<1>2. pc' = "bounty" => \A n \in BatchLines' : bounties'[n] < logs'[n]
  BY DEF RowsInv, BatchLines
<1>3. rotations' = 0 => \A n \in Lines \ bad' : Fresh(n)' => logs'[n] <= failures' + crashes'
  BY DEF RowsInv
<1> QED
  BY <1>1, <1>2, <1>3 DEF RowsInv

\* The file steps and the reading.
LEMMA RowsPass ==
    ASSUME TailInv, RowsInv,
           \/ WriteLine \/ Rotate \/ LoadPosition \/ PollNothing \/ Poll \/ PollRotated
           \/ ReadRecord \/ ReadBadLine \/ ReadEnd
    PROVE  RowsInv'
<1>0. TypeOK /\ FileInv /\ BatchInv /\ PositionInv
  BY DEF TailInv
<1>a. Lines \subseteq Nat /\ position \in Nat /\ cursor \in Nat /\ rotations \in Nat
  BY <1>0, Numbers DEF Lines
<1>1. CASE WriteLine
  <2>1. /\ bad \subseteq bad'
        /\ UNCHANGED <<pc, position, cursor, batch, saved, logs, bounties, rotations,
                       failures, crashes>>
    BY <1>1 DEF WriteLine, workerVars, tableVars, boundVars
  <2>2. \A n \in Lines : Fresh(n)' => Fresh(n)
    BY <2>1 DEF Fresh, BatchLines
  <2> QED
    BY <2>1, <2>2, RowsKept
<1>2. CASE Rotate
  <2>1. /\ rotations' = rotations + 1
        /\ UNCHANGED <<bad, pc, batch, logs, bounties, failures, crashes>>
    BY <1>2 DEF Rotate, workerVars, tableVars
  <2>2. rotations' # 0
    BY <1>a, <2>1
  <2> QED
    BY <2>1, <2>2, RowsKept
<1>3. CASE LoadPosition
  <2>1. /\ pc = "load" /\ pc' = "poll" /\ position' = saved
        /\ UNCHANGED <<bad, logs, bounties, rotations, failures, crashes>>
    BY <1>3 DEF LoadPosition, fileVars, tableVars, boundVars
  <2>2. \A n \in Lines : Fresh(n)' => Fresh(n)
    BY <2>1 DEF Fresh
  <2> QED
    BY <2>1, <2>2, RowsKept
<1>4. CASE PollNothing
  <2>1. UNCHANGED <<bad, pc, position, cursor, batch, saved, logs, bounties, rotations,
                    failures, crashes>>
    BY <1>4 DEF PollNothing, vars, fileVars, workerVars, tableVars, boundVars
  <2>2. \A n \in Lines : Fresh(n)' => Fresh(n)
    BY <2>1 DEF Fresh, BatchLines
  <2> QED
    BY <2>1, <2>2, RowsKept
<1>5. CASE Poll
  <2>1. /\ pc = "poll" /\ pc' = "read" /\ cursor' = position /\ batch' = <<>>
        /\ UNCHANGED <<bad, logs, bounties, rotations, failures, crashes>>
    BY <1>5 DEF Poll, fileVars, tableVars, boundVars
  <2>2. BatchLines' = {}
    BY <2>1 DEF BatchLines
  <2>3. \A n \in Lines : Fresh(n)' => Fresh(n)
    BY <2>1, <2>2 DEF Fresh
  <2> QED
    BY <2>1, <2>3, RowsKept
<1>6. CASE PollRotated
  <2>1. /\ pc = "poll" /\ pc' = "poll" /\ Len(log) < position
        /\ UNCHANGED <<bad, logs, bounties, rotations, failures, crashes>>
    BY <1>6 DEF PollRotated, fileVars, boundVars
  <2>2. rotations # 0
    BY <1>0, <2>1, Numbers DEF FileInv, PositionInv
  <2> QED
    BY <2>1, <2>2, RowsKept
<1>7. CASE ReadRecord
  <2>0. PICK e : e = [line |-> log[cursor + 1], end |-> cursor + 1]
    OBVIOUS
  <2>1. /\ pc = "read" /\ pc' \in {"read", "flush"} /\ cursor < Len(log)
        /\ cursor' = cursor + 1 /\ batch' = Append(batch, e) /\ e.line = log[cursor + 1]
        /\ UNCHANGED <<bad, logs, bounties, rotations, failures, crashes>>
    BY <1>7, <2>0 DEF ReadRecord, fileVars, tableVars, boundVars
  <2>2. \A n : n \in BatchLines' => n \in BatchLines \/ n = log[cursor + 1]
    <3>1. batch \in Seq(Entries(bad) \cup {e})
      BY <1>0, BatchFacts, SeqInto
    <3>2. /\ Len(batch') = Len(batch) + 1 /\ Len(batch) \in Nat
          /\ DOMAIN batch' = 1..Len(batch') /\ DOMAIN batch = 1..Len(batch)
          /\ \A i \in 1..Len(batch) : batch'[i] = batch[i]
          /\ batch'[Len(batch) + 1] = e
      BY <2>1, <3>1, AppendProperties, LenProperties
    <3>3. \A i \in 1..Len(batch') : i \in 1..Len(batch) \/ i = Len(batch) + 1
      BY <3>2
    <3> QED
      BY <2>1, <3>2, <3>3 DEF BatchLines
  <2>3. rotations = 0 => log[cursor + 1] = cursor + 1
    BY <1>0, <1>a, <2>1, Numbers DEF FileInv
  <2>4. rotations = 0 => \A n \in Lines : Fresh(n)' => Fresh(n)
    BY <1>a, <2>1, <2>2, <2>3 DEF Fresh
  <2> QED
    BY <2>1, <2>4, RowsKept
<1>8. CASE ReadBadLine
  <2>1. /\ pc = "read" /\ pc' = pc /\ cursor' = cursor + 1 /\ batch' = batch
        /\ UNCHANGED <<bad, logs, bounties, rotations, failures, crashes>>
    BY <1>8 DEF ReadBadLine, fileVars, tableVars, boundVars
  <2>2. \A n \in Lines : Fresh(n)' => Fresh(n)
    BY <1>a, <2>1 DEF Fresh, BatchLines
  <2> QED
    BY <2>1, <2>2, RowsKept
<1>9. CASE ReadEnd
  <2>1. /\ pc = "read" /\ pc' = (IF batch = <<>> THEN "poll" ELSE "flush")
        /\ UNCHANGED <<bad, position, cursor, batch, logs, bounties, rotations, failures,
                       crashes>>
    BY <1>9 DEF ReadEnd, fileVars, tableVars, boundVars
  <2>2. rotations = 0 => \A n \in Lines \ bad : Fresh(n)' => Fresh(n)
    <3>1. CASE batch = <<>>
      <4>1. rotations = 0 => \A n \in Lines : position < n /\ n <= cursor => n \in bad
        BY <1>0, <2>1, <3>1 DEF PositionInv
      <4> QED
        BY <1>a, <2>1, <3>1, <4>1 DEF Fresh
    <3>2. CASE batch # <<>>
      BY <2>1, <3>2 DEF Fresh, BatchLines
    <3> QED
      BY <3>1, <3>2
  <2> QED
    BY <2>1, <2>2, RowsKept
<1> QED
  BY <1>1, <1>2, <1>3, <1>4, <1>5, <1>6, <1>7, <1>8, <1>9

\* _flush_batch.  Records of the batch were insertable, so they have a row less
\* than the budget allows; once inserted they are not insertable any more.
LEMMA RowsFlush ==
    ASSUME TailInv, RowsInv, AddLogs \/ ExtractBounties \/ SavePosition
    PROVE  RowsInv'
<1>0. TypeOK /\ FileInv /\ BatchInv /\ PositionInv
  BY DEF TailInv
<1>a. Lines \subseteq Nat /\ position \in Nat /\ cursor \in Nat /\ failures \in Nat
      /\ crashes \in Nat
  BY <1>0, Numbers DEF Lines
<1>b. /\ \A n \in Lines : logs[n] \in Nat /\ bounties[n] \in Nat
      /\ BatchLines \subseteq Lines \ bad
  BY <1>0, BatchFacts DEF TypeOK
<1>c. rotations = 0 => \A n \in BatchLines : n <= cursor
  BY <1>0, BatchFacts DEF PositionInv
<1>1. CASE AddLogs
  <2>1. /\ pc = "flush" /\ pc' = "bounty" /\ BatchLines' = BatchLines
        /\ UNCHANGED <<bad, cursor, bounties, rotations, failures, crashes>>
    BY <1>1 DEF AddLogs, fileVars, workerVars, boundVars, BatchLines
  <2>2. \A n \in Lines : logs'[n] = IF n \in BatchLines THEN logs[n] + 1 ELSE logs[n]
    BY <1>0, <1>1, InsertFacts DEF AddLogs
  <2>3. /\ \A n \in Lines : bounties[n] <= logs[n]
        /\ rotations = 0 => \A n \in Lines : logs[n] <= 1 + failures + crashes
        /\ rotations = 0 => \A n \in BatchLines : logs[n] <= failures + crashes
        /\ rotations = 0 => \A n \in Lines \ bad : n > cursor => logs[n] <= failures + crashes
    BY <1>b, <2>1 DEF RowsInv, BountyHasLog, DuplicatesPaid, Fresh
  <2>4. BountyHasLog' /\ \A n \in BatchLines' : bounties'[n] < logs'[n]
    BY <1>b, <2>1, <2>2, <2>3 DEF BountyHasLog
  <2>5. DuplicatesPaid'
    BY <1>a, <1>b, <2>1, <2>2, <2>3 DEF DuplicatesPaid
  <2>6. rotations' = 0 => \A n \in Lines \ bad' : Fresh(n)' => logs'[n] <= failures' + crashes'
    BY <1>a, <1>b, <1>c, <2>1, <2>2, <2>3 DEF Fresh
  <2> QED
    BY <2>4, <2>5, <2>6 DEF RowsInv
<1>2. CASE ExtractBounties
  <2>1. /\ pc = "bounty" /\ pc' = "save"
        /\ UNCHANGED <<bad, cursor, logs, rotations, failures, crashes>>
    BY <1>2 DEF ExtractBounties, fileVars, workerVars, boundVars
  <2>2. \A n \in Lines : /\ bounties'[n] = bounties[n] \/ bounties'[n] = bounties[n] + 1
                         /\ bounties'[n] # bounties[n] => n \in BatchLines
    <3>1. Len(batch) \in 0..Len(batch)
      BY <1>0, BatchFacts
    <3> QED
      BY <1>0, <1>2, <3>1, ExtractFacts DEF ExtractBounties
  <2>3. /\ \A n \in Lines : bounties[n] <= logs[n]
        /\ \A n \in BatchLines : bounties[n] < logs[n]
    BY <2>1 DEF RowsInv, BountyHasLog
  <2>4. BountyHasLog'
    BY <1>b, <2>1, <2>2, <2>3 DEF BountyHasLog
  <2>5. DuplicatesPaid'
    BY <2>1 DEF RowsInv, DuplicatesPaid
  <2>6. rotations' = 0 => \A n \in Lines \ bad' : Fresh(n)' => logs'[n] <= failures' + crashes'
    BY <2>1 DEF RowsInv, Fresh
  <2> QED
    BY <2>1, <2>4, <2>5, <2>6 DEF RowsInv
<1>3. CASE SavePosition
  <2>1. /\ pc = "save" /\ pc' = resume /\ position' = batch[Len(batch)].end /\ batch' = <<>>
        /\ UNCHANGED <<bad, cursor, logs, bounties, rotations, failures, crashes>>
    BY <1>3 DEF SavePosition, fileVars, boundVars
  <2>2. resume \in {"read", "poll"} /\ BatchLines' = {}
    BY <1>0, <2>1 DEF TypeOK, BatchLines
  <2>3. rotations = 0 =>
          \A n \in Lines : batch[Len(batch)].end < n /\ n <= cursor => n \in bad
    <3>1. batch # <<>>
      BY <1>0, <2>1, BatchFacts DEF BatchInv, Flushing
    <3> QED
      BY <1>0, <2>1, <3>1 DEF PositionInv, Flushing
  <2>4. batch[Len(batch)].end \in Nat
    <3>1. Len(batch) \in 1..Len(batch)
      BY <1>0, <2>1, BatchFacts DEF BatchInv, Flushing
    <3> QED
      BY <1>0, <3>1, BatchFacts
  <2>5. rotations = 0 => \A n \in Lines \ bad : Fresh(n)' => Fresh(n)
    BY <1>a, <2>1, <2>2, <2>3, <2>4 DEF Fresh
  <2> QED
    BY <2>1, <2>2, <2>5, RowsKept
<1> QED
  BY <1>1, <1>2, <1>3

\* An abandoned pass raises the budget by one, and no record got more than one
\* row in the pass.
LEMMA RowsBroken ==
    ASSUME TailInv, TypeOK', RowsInv, Fail \/ Crash
    PROVE  RowsInv'
<1>0. TypeOK /\ FileInv /\ BatchInv /\ PositionInv
  BY DEF TailInv
<1>a. failures \in Nat /\ crashes \in Nat
  BY <1>0, Numbers
<1>b. /\ \A n \in Lines : logs[n] \in Nat /\ bounties[n] \in Nat
      /\ BatchLines \subseteq Lines \ bad
  BY <1>0, BatchFacts DEF TypeOK
<1>c. /\ \A n \in Lines : bounties[n] <= logs[n]
      /\ rotations = 0 => \A n \in Lines : logs[n] <= 1 + failures + crashes
      /\ rotations = 0 => \A n \in Lines \ bad : Fresh(n) => logs[n] <= failures + crashes
      /\ pc = "bounty" => \A n \in BatchLines : bounties[n] < logs[n]
  BY DEF RowsInv, BountyHasLog, DuplicatesPaid
<1>d. ASSUME Raise
      PROVE  /\ pc' # "bounty" /\ failures' = failures + 1 /\ crashes' = crashes
             /\ rotations' = rotations
  BY <1>d DEF Raise
<1>1. CASE PollRotatedFails \/ SavePositionFails
  <2>1. Raise /\ UNCHANGED <<logs, bounties>>
    BY <1>1 DEF PollRotatedFails, SavePositionFails, tableVars
  <2>2. BountyHasLog'
    BY <1>c, <2>1 DEF BountyHasLog
  <2>3. rotations' = 0 => \A n \in Lines : logs'[n] <= failures' + crashes'
    BY <1>a, <1>b, <1>c, <1>d, <2>1
  <2> QED
    BY <1>d, <2>1, <2>2, <2>3, RowsRaised
<1>2. CASE AddLogsFails
  <2>1. /\ pc = "flush" /\ Raise /\ UNCHANGED bounties
        /\ \/ \A n \in Lines : logs'[n] = IF n \in BatchLines THEN logs[n] + 1 ELSE logs[n]
           \/ logs' = logs
    BY <1>0, <1>2, InsertFacts DEF AddLogsFails
  <2>2. BountyHasLog'
    BY <1>b, <1>c, <2>1 DEF BountyHasLog
  <2>3. rotations = 0 => \A n \in BatchLines : logs[n] <= failures + crashes
    BY <1>b, <1>c, <2>1 DEF Fresh
  <2>4. rotations' = 0 => \A n \in Lines : logs'[n] <= failures' + crashes'
    BY <1>a, <1>b, <1>c, <1>d, <2>1, <2>3
  <2> QED
    BY <1>d, <2>1, <2>2, <2>4, RowsRaised
<1>3. CASE ExtractBountiesFails
  <2>1. /\ pc = "bounty" /\ Raise /\ UNCHANGED logs
        /\ \A n \in Lines : /\ bounties'[n] = bounties[n] \/ bounties'[n] = bounties[n] + 1
                            /\ bounties'[n] # bounties[n] => n \in BatchLines
    <3>1. PICK k \in 0..(Len(batch) - 1) : Extract(k)
      BY <1>3 DEF ExtractBountiesFails
    <3>2. k \in 0..Len(batch)
      BY <1>0, BatchFacts
    <3> QED
      BY <1>0, <1>3, <3>1, <3>2, ExtractFacts DEF ExtractBountiesFails
  <2>2. BountyHasLog'
    BY <1>b, <1>c, <2>1 DEF BountyHasLog
  <2>3. rotations' = 0 => \A n \in Lines : logs'[n] <= failures' + crashes'
    BY <1>a, <1>b, <1>c, <1>d, <2>1
  <2> QED
    BY <1>d, <2>1, <2>2, <2>3, RowsRaised
<1>4. CASE Crash
  <2>1. /\ pc' = "load" /\ crashes' = crashes + 1
        /\ UNCHANGED <<logs, bounties, rotations, failures>>
    BY <1>4 DEF Crash, tableVars
  <2>2. BountyHasLog'
    BY <1>c, <2>1 DEF BountyHasLog
  <2>3. rotations' = 0 => \A n \in Lines : logs'[n] <= failures' + crashes'
    BY <1>a, <1>b, <1>c, <2>1
  <2> QED
    BY <2>1, <2>2, <2>3, RowsRaised
<1> QED
  BY <1>1, <1>2, <1>3, <1>4 DEF Fail

\* The row counts of the logs table and of the bounties (_flush_batch, ingester.py:191-214):
\* however flushes break off, the counts stay within RowsInv.
THEOREM RowsInvariant == Spec => []RowsInv
<1>1. Init => RowsInv
  <2> SUFFICES ASSUME Init PROVE RowsInv
    OBVIOUS
  <2>1. /\ pc = "load" /\ failures = 0 /\ crashes = 0
        /\ \A n \in Lines : logs[n] = 0 /\ bounties[n] = 0
    BY DEF Init
  <2> QED
    BY <2>1 DEF RowsInv, BountyHasLog, DuplicatesPaid
<1>2. TailInv /\ TailInv' /\ RowsInv /\ [Next]_vars => RowsInv'
  <2> SUFFICES ASSUME TailInv, TailInv', RowsInv, [Next]_vars PROVE RowsInv'
    OBVIOUS
  <2>1. CASE WriteLine \/ Rotate \/ LoadPosition \/ PollNothing \/ Poll \/ PollRotated
             \/ ReadRecord \/ ReadBadLine \/ ReadEnd
    BY <2>1, RowsPass
  <2>2. CASE AddLogs \/ ExtractBounties \/ SavePosition
    BY <2>2, RowsFlush
  <2>3. CASE Fail \/ Crash
    BY <2>3, RowsBroken DEF TailInv
  <2>4. CASE UNCHANGED vars
    <3>1. UNCHANGED <<bad, pc, position, cursor, batch, saved, logs, bounties, rotations,
                      failures, crashes>>
      BY <2>4 DEF vars, fileVars, workerVars, tableVars, boundVars
    <3>2. \A n \in Lines : Fresh(n)' => Fresh(n)
      BY <3>1 DEF Fresh, BatchLines
    <3> QED
      BY <3>1, <3>2, RowsKept
  <2> QED
    BY <2>1, <2>2, <2>3, <2>4 DEF Next, Step
<1> QED
  BY <1>1, <1>2, TailInvariant, PTL DEF Spec

\* Bounties are extracted from committed records only (_flush_batch commits the
\* batch before it extracts, ingester.py:211-213).
THEOREM BountyHasLogTheorem == Spec => []BountyHasLog
<1>1. RowsInv => BountyHasLog
  BY DEF RowsInv
<1> QED
  BY <1>1, RowsInvariant, PTL

\* Without rotation a record has at most one row more than there were failing
\* calls and restarts.
THEOREM DuplicatesPaidTheorem == Spec => []DuplicatesPaid
<1>1. RowsInv => DuplicatesPaid
  BY DEF RowsInv
<1> QED
  BY <1>1, RowsInvariant, PTL

\* Handing over is for good: a line only gains rows and bounties.
LEMMA HandedGrows ==
    ASSUME TypeOK, TypeOK', bad \subseteq bad', written <= written',
           \A n \in Lines : logs[n] <= logs'[n] /\ bounties[n] <= bounties'[n]
    PROVE  Handed \subseteq Handed'
<1>0. /\ written \in 0..MaxLines /\ written' \in 0..MaxLines
      /\ logs \in [Lines -> Nat] /\ bounties \in [Lines -> Nat]
      /\ logs' \in [Lines -> Nat] /\ bounties' \in [Lines -> Nat]
  BY DEF TypeOK
<1>1. /\ 1..written \subseteq Lines /\ 1..written \subseteq 1..written'
      /\ \A n \in Lines : /\ logs[n] \in Nat /\ logs'[n] \in Nat
                          /\ bounties[n] \in Nat /\ bounties'[n] \in Nat
  <2>1. MaxLines \in Nat
    BY IngesterAssumption
  <2> QED
    BY <1>0, <2>1 DEF Lines
<1>2. \A n \in 1..written : logs[n] >= 1 /\ bounties[n] >= 1 => logs'[n] >= 1 /\ bounties'[n] >= 1
  BY <1>1
<1> QED
  BY <1>1, <1>2 DEF Handed

\* What no step of the worker does: take back a row, a bounty or a failure.
LEMMA TablesGrow ==
    ASSUME TailInv, [Next]_vars
    PROVE  /\ \A n \in Lines : logs[n] <= logs'[n] /\ bounties[n] <= bounties'[n]
           /\ \A n \in Lines : logs'[n] # logs[n] => n \in BatchLines
           /\ failures <= failures' /\ rotations <= rotations'
           /\ ~WriteLine => bad' = bad /\ written' = written
<1>0. TypeOK /\ BatchInv
  BY DEF TailInv
<1>a. /\ failures \in Nat /\ rotations \in Nat
      /\ \A n \in Lines : logs[n] \in Nat /\ bounties[n] \in Nat
  BY <1>0, Numbers DEF TypeOK
<1>1. CASE Insert /\ bounties' = bounties /\ UNCHANGED <<rotations, bad, written>>
           /\ (failures' = failures \/ failures' = failures + 1)
  BY <1>0, <1>a, <1>1, InsertFacts
<1>2. ASSUME NEW k \in 0..Len(batch), Extract(k), UNCHANGED <<logs, rotations, bad, written>>,
             failures' = failures \/ failures' = failures + 1
      PROVE  /\ \A n \in Lines : logs[n] <= logs'[n] /\ bounties[n] <= bounties'[n]
             /\ \A n \in Lines : logs'[n] # logs[n] => n \in BatchLines
             /\ failures <= failures' /\ rotations <= rotations'
             /\ ~WriteLine => bad' = bad /\ written' = written
  <2>1. \A n \in Lines : bounties'[n] = bounties[n] \/ bounties'[n] = bounties[n] + 1
    BY <1>0, <1>2, ExtractFacts
  <2> QED
    BY <1>a, <1>2, <2>1
<1>3. CASE /\ UNCHANGED <<logs, bounties, bad, written>>
           /\ failures' = failures \/ failures' = failures + 1
           /\ rotations' = rotations \/ rotations' = rotations + 1
  BY <1>a, <1>3
<1>4. CASE WriteLine
  BY <1>a, <1>4 DEF WriteLine, tableVars, boundVars
<1>5. CASE Rotate
  BY <1>3, <1>5 DEF Rotate, tableVars
<1>6. CASE LoadPosition \/ Poll \/ PollNothing \/ PollRotated \/ ReadRecord \/ ReadBadLine
           \/ ReadEnd \/ SavePosition \/ Crash \/ UNCHANGED vars
  <2>1. UNCHANGED <<logs, bounties, bad, written, failures, rotations>>
    BY <1>6 DEF LoadPosition, Poll, PollNothing, PollRotated, ReadRecord, ReadBadLine, ReadEnd,
                SavePosition, Crash, vars, fileVars, workerVars, tableVars, boundVars
  <2> QED
    BY <1>3, <2>1
<1>7. CASE PollRotatedFails \/ SavePositionFails
  BY <1>3, <1>7 DEF PollRotatedFails, SavePositionFails, Raise, tableVars, fileVars
<1>8. CASE AddLogs
  BY <1>1, <1>8 DEF AddLogs, fileVars, boundVars
<1>9. CASE AddLogsFails
  BY <1>1, <1>3, <1>9 DEF AddLogsFails, Raise, fileVars
<1>10. CASE ExtractBounties
  <2>1. Len(batch) \in 0..Len(batch)
    BY <1>0, BatchFacts
  <2> QED
    BY <1>2, <1>10, <2>1 DEF ExtractBounties, fileVars, boundVars
<1>11. CASE ExtractBountiesFails
  <2>1. PICK k \in 0..(Len(batch) - 1) : Extract(k)
    BY <1>11 DEF ExtractBountiesFails
  <2>2. k \in 0..Len(batch)
    BY <1>0, BatchFacts
  <2> QED
    BY <1>2, <1>11, <2>1, <2>2 DEF ExtractBountiesFails, Raise, fileVars
<1> QED
  BY <1>4, <1>5, <1>6, <1>7, <1>8, <1>9, <1>10, <1>11 DEF Next, Step, Fail

\* A step that does not end the promise finds it intact.
LEMMA IntactBefore ==
    ASSUME TailInv, [Next]_vars, Intact'
    PROVE  Intact /\ rotations = 0 /\ (bad' = {} => bad = {})
<1>0. TypeOK
  BY DEF TailInv
<1>1. bad \subseteq bad'
  BY TablesGrow DEF WriteLine
<1>2. failures \in Nat /\ rotations \in Nat
  BY <1>0, Numbers
<1> QED
  BY <1>1, <1>2, TablesGrow DEF Intact

\* A broken-off pass keeps what was handed over; when it ends with the promise
\* intact there is no bad line, and the loop's position is safe to go back to.
LEMMA KeptBroken ==
    ASSUME TailInv, TailInv', KeptInv, Fail \/ Crash
    PROVE  KeptInv'
<1>0. TypeOK /\ TypeOK' /\ FileInv /\ BatchInv /\ PositionInv
  BY DEF TailInv
<1>1. [Next]_vars /\ ~WriteLine
  <2>1. CASE Fail
    <3>1. failures' = failures + 1 /\ failures \in Nat
      BY <1>0, <2>1, Numbers DEF Fail, PollRotatedFails, AddLogsFails, ExtractBountiesFails,
                          SavePositionFails, Raise
    <3> QED
      BY <2>1, <3>1 DEF Next, WriteLine, boundVars
  <2>2. CASE Crash
    <3>1. crashes' = crashes + 1 /\ crashes \in Nat
      BY <1>0, <2>2, Numbers DEF Crash
    <3> QED
      BY <2>2, <3>1 DEF Next, WriteLine, boundVars
  <2> QED
    BY <2>1, <2>2
<1>2. /\ bad' = bad /\ written' = written
      /\ \A n \in Lines : logs'[n] # logs[n] => n \in BatchLines
  BY <1>1, TablesGrow
<1>3. Handed \subseteq Handed'
  BY <1>0, <1>1, <1>2, TablesGrow, HandedGrows, Numbers
<1>4. pc' \in {"poll", "exited", "load"}
  BY DEF Fail, PollRotatedFails, AddLogsFails, ExtractBountiesFails, SavePositionFails, Raise,
         Crash
<1>5. \A n \in Lines : n > written' => logs'[n] = 0
  <2>1. \A n \in BatchLines : n \in 1..written
    BY <1>0, BatchFacts DEF BatchInv
  <2>2. \A n \in Lines : n > written => logs[n] = 0 /\ n \notin 1..written
    BY <1>0, Numbers DEF KeptInv, Lines
  <2> QED
    BY <1>2, <2>1, <2>2
<1>6. ASSUME Intact'
      PROVE  1..saved' \subseteq Handed' /\ (pc' = "poll" \/ bad' = {} => 1..position' \subseteq Handed')
  <2>1. Intact /\ rotations = 0 /\ saved' = saved
    <3>1. saved' = saved
      BY DEF Fail, PollRotatedFails, AddLogsFails, ExtractBountiesFails, SavePositionFails,
             Crash, tableVars
    <3> QED
      BY <1>1, <1>6, <3>1, IntactBefore
  <2>2. ~PollRotatedFails
    BY <1>0, <2>1, Numbers DEF PollRotatedFails, FileInv, PositionInv
  <2>3. position' = position
    BY <2>2 DEF Fail, AddLogsFails, ExtractBountiesFails, SavePositionFails, Crash
  <2>4. pc' = "poll" => bad = {}
    <3>1. CASE Fail
      <4>1. failures' = failures + 1 /\ failures \in Nat
        BY <1>0, <3>1, Numbers DEF Fail, PollRotatedFails, AddLogsFails, ExtractBountiesFails,
                            SavePositionFails, Raise
      <4> QED
        BY <1>2, <1>6, <4>1 DEF Intact
    <3>2. CASE Crash
      BY <3>2 DEF Crash
    <3> QED
      BY <3>1, <3>2
  <2>5. 1..saved \subseteq Handed /\ (bad = {} => 1..position \subseteq Handed)
    BY <2>1 DEF KeptInv
  <2> QED
    BY <1>2, <1>3, <2>1, <2>3, <2>4, <2>5
<1> QED
  BY <1>4, <1>5, <1>6 DEF KeptInv, Flushing

\* A step that leaves the tables and the batch's part of KeptInv as they were.
LEMMA KeptFrame ==
    ASSUME TailInv, TailInv', KeptInv, [Next]_vars, pc' \notin {"bounty", "save"},
           UNCHANGED <<logs, bounties>>,
           Intact /\ Intact' =>
             /\ saved' = saved
             /\ pc' = "poll" \/ bad' = {} => 1..position' \subseteq Handed'
             /\ pc' \in {"read", "flush"} =>
                  position' <= cursor' /\ 1..cursor' \subseteq Handed' \cup BatchLines'
    PROVE  KeptInv'
<1>0. TypeOK /\ TypeOK'
  BY DEF TailInv
<1>1. bad \subseteq bad' /\ written <= written' /\ written \in Nat /\ written' \in Nat
  <2>0. written \in Nat
    BY <1>0, Numbers
  <2>1. CASE WriteLine
    <3>1. written' = written + 1 /\ bad' \in {bad, bad \cup {written'}}
      BY <2>1 DEF WriteLine
    <3>2. bad \subseteq bad'
      BY <3>1
    <3> QED
      BY <2>0, <3>1, <3>2
  <2>2. CASE ~WriteLine
    BY <1>0, <2>2, TablesGrow, Numbers
  <2> QED
    BY <2>1, <2>2
<1>2. Handed \subseteq Handed'
  BY <1>0, <1>1, TablesGrow, HandedGrows
<1>3. \A n \in Lines : n > written' => logs'[n] = 0
  <2>1. \A n \in Lines : n \in Nat
    BY DEF Lines
  <2>2. \A n \in Lines : n > written => logs[n] = 0
    BY DEF KeptInv
  <2> QED
    BY <1>1, <2>1, <2>2
<1>4. Intact' => Intact
  BY IntactBefore
<1>5. Intact => 1..saved \subseteq Handed
  BY DEF KeptInv
<1>6. Intact' => 1..saved' \subseteq Handed'
  BY <1>2, <1>4, <1>5
<1> QED
  BY <1>3, <1>4, <1>6 DEF KeptInv, Flushing

\* The file steps and the reading.
LEMMA KeptPass ==
    ASSUME TailInv, TailInv', KeptInv,
           \/ WriteLine \/ Rotate \/ LoadPosition \/ Poll \/ PollRotated
           \/ ReadRecord \/ ReadBadLine \/ ReadEnd
    PROVE  KeptInv'
<1>0. TypeOK /\ TypeOK' /\ FileInv /\ BatchInv /\ PositionInv
  BY DEF TailInv
<1>a. /\ position \in Nat /\ cursor \in Nat /\ rotations \in Nat /\ written \in Nat
      /\ position' \in Nat /\ cursor' \in Nat
  BY <1>0, Numbers DEF TypeOK
<1>b. [Next]_vars
  BY DEF Next, Step
<1>c. Intact => /\ rotations = 0
                /\ 1..saved \subseteq Handed
                /\ pc = "poll" \/ bad = {} => 1..position \subseteq Handed
                /\ pc \in Flushing \cup {"read"} =>
                     position <= cursor /\ 1..cursor \subseteq Handed \cup BatchLines
  BY DEF KeptInv, Intact
<1>1. CASE WriteLine /\ pc \notin {"bounty", "save"}
  <2>1. /\ bad \subseteq bad' /\ written <= written'
        /\ UNCHANGED <<pc, position, cursor, batch, saved, logs, bounties>>
    BY <1>a, <1>1 DEF WriteLine, workerVars, tableVars, boundVars
  <2>2. Handed \subseteq Handed' /\ BatchLines' = BatchLines
    BY <1>0, <1>b, <2>1, TablesGrow, HandedGrows DEF BatchLines
  <2> QED
    BY <1>1, <1>b, <1>c, <2>1, <2>2, KeptFrame DEF Flushing
<1>2. CASE WriteLine /\ pc \in {"bounty", "save"}
  <2>1. /\ bad \subseteq bad' /\ written' = written + 1
        /\ UNCHANGED <<pc, position, cursor, batch, saved, logs, bounties>>
    BY <1>2 DEF WriteLine, workerVars, tableVars, boundVars
  <2>2. Handed \subseteq Handed' /\ BatchLines' = BatchLines
    BY <1>0, <1>a, <1>b, <2>1, TablesGrow, HandedGrows DEF BatchLines
  <2>3. \A n \in Lines : n > written' => n > written
    BY <1>a, <2>1 DEF Lines
  <2>4. Intact' => Intact
    BY <1>b, IntactBefore
  <2> QED
    BY <1>2, <1>c, <2>1, <2>2, <2>3, <2>4 DEF KeptInv, Flushing
<1>3. CASE Rotate
  <2>1. /\ rotations' = rotations + 1 /\ rotations' # 0
        /\ UNCHANGED <<pc, batch, written, logs, bounties>>
    BY <1>3, <1>a DEF Rotate, workerVars, tableVars
  <2>2. ~Intact' /\ BatchLines' = BatchLines
    BY <2>1 DEF Intact, BatchLines
  <2> QED
    BY <2>1, <2>2 DEF KeptInv
<1>4. CASE LoadPosition
  <2>1. /\ pc' = "poll" /\ position' = saved
        /\ UNCHANGED <<bad, written, saved, logs, bounties>>
    BY <1>4 DEF LoadPosition, fileVars, tableVars, boundVars
  <2>2. Handed' = Handed
    BY <2>1 DEF Handed
  <2> QED
    BY <1>b, <1>c, <2>1, <2>2, KeptFrame
<1>5. CASE Poll
  <2>1. /\ pc = "poll" /\ pc' = "read" /\ cursor' = position /\ position' = position
        /\ UNCHANGED <<bad, written, saved, logs, bounties>>
    BY <1>5 DEF Poll, fileVars, tableVars, boundVars
  <2>2. Handed' = Handed
    BY <2>1 DEF Handed
  <2>3. Intact => 1..position \subseteq Handed
    BY <1>c, <2>1
  <2>4. position' <= cursor' /\ (Intact => 1..cursor' \subseteq Handed' \cup BatchLines')
    BY <1>a, <2>1, <2>2, <2>3
  <2>5. Intact => 1..position' \subseteq Handed'
    BY <2>1, <2>2, <2>3
  <2> QED
    BY <1>b, <2>1, <2>4, <2>5, KeptFrame
<1>6. CASE PollRotated
  <2>1. /\ pc' = "poll" /\ Len(log) < position /\ UNCHANGED <<logs, bounties>>
    BY <1>6 DEF PollRotated
  <2>2. ~Intact
    BY <1>0, <2>1, Numbers DEF FileInv, PositionInv, Intact
  <2> QED
    BY <1>b, <2>1, <2>2, KeptFrame
<1>7. CASE ReadRecord
  <2>0. PICK e : e = [line |-> log[cursor + 1], end |-> cursor + 1]
    OBVIOUS
  <2>1. /\ pc = "read" /\ pc' \in {"read", "flush"} /\ cursor < Len(log)
        /\ cursor' = cursor + 1 /\ batch' = Append(batch, e) /\ e.line = log[cursor + 1]
        /\ UNCHANGED <<bad, written, position, saved, logs, bounties>>
    BY <1>7, <2>0 DEF ReadRecord, fileVars, tableVars, boundVars
  <2>2. Handed' = Handed
    BY <2>1 DEF Handed
  <2>3. BatchLines \subseteq BatchLines' /\ log[cursor + 1] \in BatchLines'
    <3>1. batch \in Seq(Entries(bad) \cup {e})
      BY <1>0, BatchFacts, SeqInto
    <3>2. /\ Len(batch') = Len(batch) + 1 /\ Len(batch) \in Nat
          /\ DOMAIN batch' = 1..Len(batch') /\ DOMAIN batch = 1..Len(batch)
          /\ \A i \in 1..Len(batch) : batch'[i] = batch[i]
          /\ batch'[Len(batch) + 1] = e
      BY <2>1, <3>1, AppendProperties, LenProperties
    <3>3. /\ \A i \in 1..Len(batch) : i \in DOMAIN batch'
          /\ Len(batch) + 1 \in DOMAIN batch'
      BY <3>2
    <3> QED
      BY <2>1, <3>2, <3>3 DEF BatchLines
  <2>4. Intact => log[cursor + 1] = cursor + 1
    BY <1>0, <1>a, <2>1, Numbers DEF FileInv, Intact
  <2>5. \A n \in 1..cursor' : n \in 1..cursor \/ n = cursor + 1
    BY <1>a, <2>1
  <2>6. Intact => position' <= cursor' /\ 1..cursor' \subseteq Handed' \cup BatchLines'
    BY <1>a, <1>c, <2>1, <2>2, <2>3, <2>4, <2>5
  <2>7. Intact /\ bad' = {} => 1..position' \subseteq Handed'
    BY <1>c, <2>1, <2>2
  <2> QED
    BY <1>b, <2>1, <2>6, <2>7, KeptFrame
<1>8. CASE ReadBadLine
  <2>1. /\ pc = "read" /\ pc' = "read" /\ cursor < Len(log) /\ log[cursor + 1] \in bad
        /\ cursor' = cursor + 1 /\ position' = cursor + 1
        /\ UNCHANGED <<bad, written, batch, saved, logs, bounties>>
    BY <1>8 DEF ReadBadLine, fileVars, tableVars, boundVars
  <2>2. Handed' = Handed /\ BatchLines' = BatchLines /\ bad \subseteq Handed
    BY <2>1 DEF Handed, BatchLines
  <2>4. Intact => log[cursor + 1] = cursor + 1
    BY <1>0, <1>a, <2>1, Numbers DEF FileInv, Intact
  <2>5. \A n \in 1..cursor' : n \in 1..cursor \/ n = cursor + 1
    BY <1>a, <2>1
  <2>6. Intact => position' <= cursor' /\ 1..cursor' \subseteq Handed' \cup BatchLines'
    BY <1>a, <1>c, <2>1, <2>2, <2>4, <2>5
  <2>7. bad' # {}
    BY <2>1
  <2> QED
    BY <1>b, <2>1, <2>6, <2>7, KeptFrame
<1>9. CASE ReadEnd
  <2>1. /\ pc = "read" /\ pc' = (IF batch = <<>> THEN "poll" ELSE "flush")
        /\ UNCHANGED <<bad, written, position, cursor, batch, saved, logs, bounties>>
    BY <1>9 DEF ReadEnd, fileVars, tableVars, boundVars
  <2>2. Handed' = Handed /\ BatchLines' = BatchLines
    BY <2>1 DEF Handed, BatchLines
  <2>3. batch = <<>> => BatchLines = {}
    BY DEF BatchLines
  <2>4. Intact => position <= cursor /\ 1..cursor \subseteq Handed \cup BatchLines
    BY <1>c, <2>1
  <2>5. Intact /\ batch = <<>> => 1..position \subseteq Handed
    <3>1. position <= cursor => 1..position \subseteq 1..cursor
      BY <1>a
    <3> QED
      BY <2>3, <2>4, <3>1
  <2>6. Intact /\ (pc' = "poll" \/ bad' = {}) => 1..position' \subseteq Handed'
    BY <1>c, <2>1, <2>2, <2>5
  <2> QED
    BY <1>b, <2>1, <2>2, <2>4, <2>6, KeptFrame
<1> QED
  BY <1>1, <1>2, <1>3, <1>4, <1>5, <1>6, <1>7, <1>8, <1>9

\* _flush_batch: when the position is saved every record of the batch has its
\* row and its bounties.
LEMMA KeptFlush ==
    ASSUME TailInv, TailInv', KeptInv, AddLogs \/ ExtractBounties \/ SavePosition
    PROVE  KeptInv'
<1>0. TypeOK /\ TypeOK' /\ FileInv /\ BatchInv /\ PositionInv
  BY DEF TailInv
<1>a. [Next]_vars /\ ~WriteLine
  <2>1. UNCHANGED written /\ written \in Nat
    BY <1>0, Numbers DEF AddLogs, ExtractBounties, SavePosition, fileVars
  <2> QED
    BY <2>1 DEF Next, Step, WriteLine
<1>b. /\ written' = written /\ bad' = bad
      /\ \A n \in Lines : logs[n] <= logs'[n] /\ bounties[n] <= bounties'[n]
      /\ \A n \in Lines : logs'[n] # logs[n] => n \in BatchLines
  BY <1>a, TablesGrow
<1>c. Handed \subseteq Handed'
  BY <1>0, <1>b, HandedGrows, Numbers
<1>d. /\ \A n \in Lines : logs[n] \in Nat /\ bounties[n] \in Nat
      /\ \A n \in BatchLines : n \in (1..written) \ bad /\ n \in Lines
  <2>1. \A n \in Lines : logs[n] \in Nat /\ bounties[n] \in Nat
    BY <1>0 DEF TypeOK
  <2>2. \A n \in BatchLines : n \in (1..written) \ bad /\ n \in Lines
    BY <1>0, BatchFacts DEF BatchInv
  <2> QED
    BY <2>1, <2>2
<1>e. \A n \in Lines : n > written' => logs'[n] = 0
  <2>1. \A n \in Lines : n > written => logs[n] = 0 /\ n \notin 1..written
    BY <1>0, Numbers DEF KeptInv, Lines
  <2> QED
    BY <1>b, <1>d, <2>1
<1>f. Intact' => Intact
  BY <1>a, IntactBefore
<1>g. Intact => /\ 1..saved \subseteq Handed
                /\ bad = {} => 1..position \subseteq Handed
                /\ pc \in Flushing => position <= cursor /\ 1..cursor \subseteq Handed \cup BatchLines
  BY DEF KeptInv
<1>1. CASE AddLogs
  <2>1. /\ pc = "flush" /\ pc' = "bounty" /\ BatchLines' = BatchLines
        /\ UNCHANGED <<position, cursor, saved>>
    BY <1>1 DEF AddLogs, workerVars, BatchLines
  <2>2. \A n \in BatchLines : logs'[n] >= 1
    BY <1>0, <1>1, <1>d, InsertFacts DEF AddLogs
  <2>3. pc \in Flushing
    BY <2>1 DEF Flushing
  <2> QED
    BY <1>b, <1>c, <1>e, <1>f, <1>g, <2>1, <2>2, <2>3 DEF KeptInv
<1>2. CASE ExtractBounties
  <2>1. /\ pc = "bounty" /\ pc' = "save" /\ BatchLines' = BatchLines
        /\ UNCHANGED <<position, cursor, saved, logs>>
    BY <1>2 DEF ExtractBounties, workerVars, BatchLines
  <2>2. \A n \in BatchLines : bounties'[n] >= 1
    <3>1. Len(batch) \in 0..Len(batch)
      BY <1>0, BatchFacts
    <3> QED
      BY <1>0, <1>2, <1>d, <3>1, ExtractFacts DEF ExtractBounties
  <2>3. pc \in Flushing /\ \A n \in BatchLines : logs[n] >= 1
    BY <2>1 DEF Flushing, KeptInv
  <2> QED
    BY <1>b, <1>c, <1>e, <1>f, <1>g, <2>1, <2>2, <2>3 DEF KeptInv
<1>3. CASE SavePosition
  <2>0. PICK end : end = batch[Len(batch)].end
    OBVIOUS
  <2>1. /\ pc = "save" /\ pc' = resume /\ saved' = end /\ position' = end /\ batch' = <<>>
        /\ UNCHANGED <<cursor, logs, bounties>>
    BY <1>3, <2>0 DEF SavePosition
  <2>2. resume \in {"read", "poll"} /\ BatchLines' = {} /\ pc \in Flushing
    BY <1>0, <2>1 DEF TypeOK, BatchLines, Flushing
  <2>3. BatchLines \subseteq Handed
    BY <1>d, <2>1 DEF KeptInv, Handed
  <2>4. end \in Nat /\ cursor \in Nat /\ (Intact => end <= cursor)
    <3>1. Len(batch) \in 1..Len(batch)
      BY <1>0, <2>1, BatchFacts DEF BatchInv, Flushing
    <3>2. batch[Len(batch)].end \in 1..MaxLines
      BY <1>0, <3>1, BatchFacts
    <3>3. rotations = 0 => batch[Len(batch)].end <= cursor
      BY <1>0, <3>1 DEF PositionInv
    <3> QED
      BY <1>0, <2>0, <3>2, <3>3, Numbers DEF Intact
  <2>5. Intact => 1..cursor \subseteq Handed /\ 1..end \subseteq 1..cursor
    BY <1>g, <2>2, <2>3, <2>4
  <2>6. Intact' => 1..cursor' \subseteq Handed' /\ 1..saved' \subseteq Handed'
                   /\ 1..position' \subseteq Handed' /\ position' <= cursor'
    BY <1>c, <1>f, <2>1, <2>4, <2>5
  <2> QED
    BY <1>e, <2>1, <2>2, <2>6 DEF KeptInv
<1> QED
  BY <1>1, <1>2, <1>3

\* What has been handed over at each point of a pass.
THEOREM KeptInvariant == Spec => []KeptInv
<1>1. Init => KeptInv
  <2> SUFFICES ASSUME Init PROVE KeptInv
    OBVIOUS
  <2>1. /\ pc = "load" /\ saved = 0 /\ position = 0 /\ \A n \in Lines : logs[n] = 0
    BY DEF Init
  <2> QED
    BY <2>1 DEF KeptInv, Flushing
<1>2. TailInv /\ TailInv' /\ KeptInv /\ [Next]_vars => KeptInv'
  <2> SUFFICES ASSUME TailInv, TailInv', KeptInv, [Next]_vars PROVE KeptInv'
    OBVIOUS
  <2>1. CASE WriteLine \/ Rotate \/ LoadPosition \/ Poll \/ PollRotated
             \/ ReadRecord \/ ReadBadLine \/ ReadEnd
    BY <2>1, KeptPass
  <2>2. CASE AddLogs \/ ExtractBounties \/ SavePosition
    BY <2>2, KeptFlush
  <2>3. CASE Fail \/ Crash
    BY <2>3, KeptBroken
  <2>4. CASE PollNothing \/ UNCHANGED vars
    <3>1. UNCHANGED <<bad, written, pc, position, cursor, batch, saved, logs, bounties,
                      rotations, failures>>
      BY <2>4 DEF PollNothing, vars, fileVars, workerVars, tableVars, boundVars
    <3>2. Handed' = Handed /\ BatchLines' = BatchLines /\ (Intact' <=> Intact)
      BY <3>1 DEF Handed, BatchLines, Intact
    <3> QED
      BY <3>1, <3>2 DEF KeptInv
  <2> QED
    BY <2>1, <2>2, <2>3, <2>4 DEF Next, Step
<1> QED
  BY <1>1, <1>2, TailInvariant, PTL DEF Spec

\* The ingester implements the checkpoint promise of AtLeastOnceLog, its
\* progress aside: while the file is not rotated and no failure meets a bad
\* line, the state row is never put beyond a record that has not got its log
\* row and its bounties (ingester.py:107-110).
THEOREM PromiseKept == Spec => Promise!Safety
<1>1. Init => Promise!Init
  <2> SUFFICES ASSUME Init PROVE Promise!Init
    OBVIOUS
  <2>1. bad \cup {n \in 1..written : logs[n] >= 1 /\ bounties[n] >= 1} = {}
    BY DEF Init
  <2> QED
    BY <2>1 DEF Init, Promise!Init
<1>2. TailInv /\ TailInv' /\ KeptInv /\ KeptInv' /\ [Next]_vars => [Promise!Next]_(Promise!vars)
  <2> SUFFICES ASSUME TailInv, TailInv', KeptInv, KeptInv', [Next]_vars
               PROVE  Promise!Next
    OBVIOUS
  <2>0. TypeOK /\ TypeOK'
    BY DEF TailInv
  <2>1. CASE WriteLine
    <3>1. /\ written < MaxLines /\ written' = written + 1 /\ written \in Nat
          /\ bad' \in {bad, bad \cup {written'}}
          /\ UNCHANGED <<pc, saved, logs, bounties, rotations, failures>>
      BY <2>0, <2>1, Numbers DEF WriteLine, tableVars, boundVars
    <3>2. logs[written'] = 0
      BY <2>0, <3>1, Numbers DEF KeptInv, Lines
    <3>3. Handed' \in {Handed, Handed \cup {written'}}
      <4>1. 1..written' = (1..written) \cup {written'}
        BY <3>1
      <4>2. {n \in 1..written' : logs'[n] >= 1 /\ bounties'[n] >= 1}
            = {n \in 1..written : logs[n] >= 1 /\ bounties[n] >= 1}
        BY <3>1, <3>2, <4>1
      <4> QED
        BY <3>1, <4>2 DEF Handed
    <3>4. Intact' => Intact
      BY IntactBefore
    <3>5. Promise!Write
      BY <3>1, <3>3, <3>4 DEF Promise!Write, Handed, Intact
    <3> QED
      BY <3>5 DEF Promise!Next
  <2>2. CASE ~WriteLine
    <3>1. written' = written /\ bad' = bad /\ written \in Nat
      BY <2>0, <2>2, TablesGrow, Numbers
    <3>2. Handed \subseteq Handed' /\ Handed' \subseteq 1..written
      <4>1. Handed \subseteq Handed'
        BY <2>0, <3>1, TablesGrow, HandedGrows
      <4>2. bad \subseteq 1..written
        BY <2>0, Numbers
      <4> QED
        BY <3>1, <4>1, <4>2 DEF Handed
    <3>3. Handed' = Handed \cup Handed' /\ Handed' \in SUBSET (1..written)
      BY <3>2
    <3>4. saved' \in Nat
      BY <2>0 DEF TypeOK
    <3>5. CASE Intact'
      <4>1. Intact /\ 1..saved' \subseteq Handed' /\ saved' \in 0..written
        BY <2>0, <3>1, <3>4, <3>5, IntactBefore DEF KeptInv, TailInv, PositionInv, Intact
      <4>2. Promise!Advance
        BY <3>1, <3>3, <3>5, <4>1 DEF Promise!Advance, Handed, Intact
      <4> QED
        BY <4>2 DEF Promise!Next
    <3>6. CASE ~Intact'
      <4>1. Promise!Broken
        BY <3>1, <3>3, <3>4, <3>6 DEF Promise!Broken, Handed, Intact
      <4> QED
        BY <4>1 DEF Promise!Next
    <3> QED
      BY <3>5, <3>6
  <2> QED
    BY <2>1, <2>2
<1> QED
  BY <1>1, <1>2, TailInvariant, KeptInvariant, PTL DEF Spec, Promise!Safety
=============================================================================
