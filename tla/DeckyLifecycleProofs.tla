------------------------ MODULE DeckyLifecycleProofs ------------------------
(***************************************************************************)
(* Proofs about DeckyLifecycle, for any deckies and any number of rows,    *)
(* faults, drops and crashes.                                              *)
(*                                                                         *)
(* LifeInv ties tasks, jobs and the handler's deltas to the rows and the   *)
(* configuration they are for, whatever happens.  CalmInv says why a delta *)
(* meets a row of its own request when no requests overlap: an open row    *)
(* that an unfinished attempt has in its configuration is its own.         *)
(* PaidInv counts: every row that shows a success is paid for by a         *)
(* successful attempt with its decky, whose delta or seal for that decky   *)
(* has been used up (Spent), and each of them pays once per decky.         *)
(***************************************************************************)
EXTENDS DeckyLifecycle, WellFoundedInduction, FiniteSetTheorems, TLAPS

RowInv ==
    /\ \A r \in 1..rows : /\ kind[r] \in Kinds
                          /\ owner[r] \in 1..rows /\ owner[owner[r]] = owner[r]
                          /\ kind[owner[r]].op = kind[r].op
                          /\ kind[r].decky \in sent[owner[r]]
    /\ \A r, q \in 1..rows : owner[r] = owner[q] /\ kind[r] = kind[q] => r = q
    /\ \A r \in Rows : r > rows => status[r] = "pending" /\ sent[r] = {}

TaskInv(t) ==
    /\ pc[t] # "none" => t <= rows /\ owner[t] = t
    /\ todo[t] \subseteq RowsOf(t)
    /\ pc[t] \in {"mark"} \cup Terminal => todo[t] # {}
    /\ pc[t] \in {"none", "mark", "work", "dispatch"} => work[t] = "none"
    /\ pc[t] = "succeeded" => work[t] = "succeeded" /\ deltas[t] = {} /\ found[t] = 0

JobInv(t) ==
    /\ deltas[t] \subseteq sent[t]
    /\ work[t] \notin Terminal => deltas[t] = {} /\ found[t] = 0
    /\ found[t] # 0 => /\ found[t] \in 1..rows
                       /\ kind[found[t]].op = kind[t].op
                       /\ kind[found[t]].decky \in sent[t]
                       /\ kind[found[t]].decky \notin deltas[t]

LifeInv == TypeOK /\ RowInv /\ \A t \in Rows : TaskInv(t) /\ JobInv(t)

\* The rows of a task while nothing has disturbed them.
CalmRow(r) ==
    LET t == owner[r] IN
    /\ pc[t] \in {"mark", "work", "dispatch"} => status[r] \in Open
    /\ pc[t] \in Terminal => /\ work[t] \in {pc[t], "none"}
                             /\ deltas[t] = {} /\ found[t] = 0
                             /\ r \in todo[t] => status[r] \in Open
    /\ work[t] = "running" \/ kind[r].decky \in deltas[t] \/ found[t] = r => status[r] \in Open
    /\ status[r] = "succeeded" => work[t] = "succeeded"
    /\ status[r] = "failed" => work[t] \in {"failed", "none"}

\* An open row that an unfinished attempt has in its configuration is its own.
OwnRows ==
    \A t, r \in 1..rows :
        /\ Unfinished(t) /\ status[r] \in Open
        /\ kind[r].op = kind[t].op /\ kind[r].decky \in sent[t]
        => owner[r] = t

CalmInv ==
    Calm =>
        /\ OwnRows
        /\ \A r \in 1..rows : CalmRow(r)
        /\ \A t \in Rows : found[t] # 0 => owner[found[t]] = t

Succeeded(k) == {r \in 1..rows : kind[r] = k /\ status[r] = "succeeded"}

\* The successful attempts with the decky whose delta for it was applied, dropped
\* or lost, or whose row of it was sealed.
Spent(k) ==
    {t \in 1..rows : /\ kind[t].op = k.op /\ k.decky \in sent[t] /\ work[t] = "succeeded"
                     /\ k.decky \notin deltas[t]
                     /\ ~(found[t] # 0 /\ kind[found[t]] = k)
                     /\ ~(pc[t] = "succeeded" /\ \E r \in todo[t] : kind[r] = k)}

PaidInv == \A k \in Kinds : Cardinality(Succeeded(k)) <= Cardinality(Spent(k))

\* The first of some rows is one of them (the handler's and the tasks' loops).
LEMMA FirstIn ==
    ASSUME NEW S \in SUBSET Rows, S # {}
    PROVE  First(S) \in S /\ \A q \in S : First(S) <= q
<1>1. S \subseteq Nat
    BY DEF Rows
<1>2. PICK x \in S : \A y \in S : ~ (<<y, x>> \in OpToRel(<, Nat))
    BY <1>1, NatLessThanWellFounded, WFMin
<1>3. \A q \in S : ~(q < x)
    BY <1>1, <1>2 DEF OpToRel
<1>4. \A q \in S : x <= q
    BY <1>1, <1>3
<1> QED
    BY <1>4 DEF First

\* The most recent of some rows is one of them (find_open_lifecycle).
LEMMA LatestIn ==
    ASSUME NEW S \in SUBSET Rows, S # {}
    PROVE  Latest(S) \in S
<1> DEFINE T == {MaxRows - r : r \in S}
<1>0. MaxRows \in Nat
    BY DeckyLifecycleAssumption
<1>1. T \subseteq Nat /\ T # {}
    <2>1. \A r \in S : MaxRows - r \in Nat
        BY <1>0 DEF Rows
    <2> QED BY <2>1
<1>2. PICK x \in T : \A y \in T : ~ (<<y, x>> \in OpToRel(<, Nat))
    <2> HIDE DEF T
    <2> QED BY <1>1, NatLessThanWellFounded, WFMin
<1>3. PICK m \in S : x = MaxRows - m
    BY <1>2
<1>4. \A q \in S : MaxRows - q \in T
    OBVIOUS
<1>5. \A q \in S : ~(MaxRows - q < MaxRows - m)
    BY <1>1, <1>2, <1>3, <1>4 DEF OpToRel
<1>6. \A q \in S : q <= m
    BY <1>0, <1>3, <1>5 DEF Rows
<1> QED
    BY <1>3, <1>6 DEF Latest

LEMMA RowsOfType ==
    ASSUME TypeOK, NEW t
    PROVE  RowsOf(t) \in SUBSET Rows
BY DeckyLifecycleAssumption DEF TypeOK, RowsOf, Rows

\* The deckies of a request are named once each.
LEMMA BatchFacts ==
    ASSUME NEW op \in Operations, NEW names \in Batches(op)
    PROVE  /\ Len(names) \in {1, 2}
           /\ \A i \in 1..Len(names) : names[i] \in Deckies
           /\ \A i, j \in 1..Len(names) : i # j => names[i] # names[j]
<1>1. CASE \E d \in Deckies : names = <<d>>
    <2>1. PICK d \in Deckies : names = <<d>>
        BY <1>1
    <2>2. Len(names) = 1 /\ names[1] = d
        BY <2>1
    <2>3. \A i \in 1..Len(names) : i = 1
        BY <2>2
    <2> QED
        BY <2>2, <2>3
<1>2. CASE names \in Deckies \X Deckies /\ names[1] # names[2]
    <2>1. PICK a \in Deckies, b \in Deckies : names = <<a, b>>
        BY <1>2
    <2>2. Len(names) = 2 /\ names[1] = a /\ names[2] = b /\ a # b
        BY <2>1, <1>2
    <2>3. \A i \in 1..Len(names) : i = 1 \/ i = 2
        BY <2>2
    <2> QED
        BY <2>2, <2>3
<1> QED
    BY <1>1, <1>2 DEF Batches

\* A deploy or a mutate request creates a task for its deckies.
LEMMA RequestTask ==
    ASSUME LifeInv,
           \/ \E names \in Batches("deploy"), replace \in BOOLEAN : Deploy(names, replace)
           \/ \E d \in Deckies : Mutate(d)
    PROVE  /\ fleet' \in SUBSET Deckies
           /\ \E op \in Operations, config \in SUBSET Deckies : \E names \in Batches(op) :
                /\ \A i \in 1..Len(names) : names[i] \in config
                /\ NewTask(names, op, config)
<1>0. fleet \in SUBSET Deckies
    BY DEF LifeInv, TypeOK
<1>1. ASSUME NEW names \in Batches("deploy"), NEW replace \in BOOLEAN, Deploy(names, replace)
      PROVE  /\ fleet' \in SUBSET Deckies
             /\ \E config \in SUBSET Deckies :
                  /\ \A i \in 1..Len(names) : names[i] \in config
                  /\ NewTask(names, "deploy", config)
    <2> DEFINE new == {names[i] : i \in 1..Len(names)}
    <2>1. PICK seen \in IF replace THEN {{}} ELSE SUBSET fleet :
             /\ fleet' = IF replace THEN new ELSE fleet \cup new
             /\ NewTask(names, "deploy", new \cup seen)
        BY <1>1 DEF Deploy
    <2>2. new \in SUBSET Deckies
        BY BatchFacts DEF Operations
    <2>3. seen \in SUBSET Deckies
        BY <1>0, <2>1
    <2>4. \A i \in 1..Len(names) : names[i] \in new
        OBVIOUS
    <2> HIDE DEF new
    <2>5. new \cup seen \in SUBSET Deckies /\ fleet' \in SUBSET Deckies
        BY <1>0, <2>1, <2>2, <2>3
    <2> QED BY <2>1, <2>4, <2>5
<1>2. ASSUME NEW d \in Deckies, Mutate(d)
      PROVE  /\ fleet' \in SUBSET Deckies
             /\ <<d>> \in Batches("mutate") /\ {d} \in SUBSET Deckies
             /\ \A i \in 1..Len(<<d>>) : <<d>>[i] \in {d}
             /\ NewTask(<<d>>, "mutate", {d})
    BY <1>0, <1>2 DEF Mutate, Batches
<1>3. "deploy" \in Operations /\ "mutate" \in Operations
    BY DEF Operations
<1>4. CASE \E names \in Batches("deploy"), replace \in BOOLEAN : Deploy(names, replace)
    BY <1>1, <1>3, <1>4
<1>5. CASE \E d \in Deckies : Mutate(d)
    BY <1>2, <1>3, <1>5
<1> QED BY <1>4, <1>5

\* What a request does to the tables, in one place.
LEMMA RequestFacts ==
    ASSUME LifeInv, NEW op \in Operations, NEW config \in SUBSET Deckies,
           NEW names \in Batches(op), \A i \in 1..Len(names) : names[i] \in config,
           NewTask(names, op, config)
    PROVE  /\ rows' \in {rows + 1, rows + 2} /\ rows' <= MaxRows /\ rows + 1 \in Rows
           /\ \A r \in Rows : r \in (rows + 1)..rows' =>
                /\ kind'[r] = [decky |-> names[r - rows], op |-> op]
                /\ kind'[r] \in Kinds /\ kind'[r].op = op /\ kind'[r].decky \in config
                /\ owner'[r] = rows + 1
           /\ \A r, q \in (rows + 1)..rows' : r # q => kind'[r] # kind'[q]
           /\ \A r \in Rows : r \notin (rows + 1)..rows' =>
                kind'[r] = kind[r] /\ owner'[r] = owner[r]
           /\ pc' = [pc EXCEPT ![rows + 1] = "mark"]
           /\ todo' = [todo EXCEPT ![rows + 1] = (rows + 1)..rows']
           /\ sent' = [sent EXCEPT ![rows + 1] = config]
           /\ kind' \in [Rows -> Kinds \cup {NoKind}] /\ owner' \in [Rows -> 0..MaxRows]
           /\ UNCHANGED <<swarm, status, work, deltas, found, faults, drops, crashes>>
<1>0. rows \in Nat /\ MaxRows \in Nat /\ rows <= MaxRows
    BY DeckyLifecycleAssumption DEF LifeInv, TypeOK
<1>1. /\ Len(names) \in {1, 2}
      /\ \A i \in 1..Len(names) : names[i] \in Deckies
      /\ \A i, j \in 1..Len(names) : i # j => names[i] # names[j]
    BY BatchFacts
<1> DEFINE Kind(r) == [decky |-> names[r - rows], op |-> op]
<1>2. /\ rows + Len(names) <= MaxRows
      /\ rows' = rows + Len(names)
      /\ kind' = [r \in Rows |-> IF r \in (rows + 1)..(rows + Len(names)) THEN Kind(r) ELSE kind[r]]
      /\ owner' = [r \in Rows |-> IF r \in (rows + 1)..(rows + Len(names))
                                    THEN rows + 1 ELSE owner[r]]
      /\ pc' = [pc EXCEPT ![rows + 1] = "mark"]
      /\ todo' = [todo EXCEPT ![rows + 1] = (rows + 1)..(rows + Len(names))]
      /\ sent' = [sent EXCEPT ![rows + 1] = config]
      /\ UNCHANGED <<swarm, status, work, deltas, found, faults, drops, crashes>>
    BY DEF NewTask
<1>3. /\ rows' \in {rows + 1, rows + 2} /\ rows' <= MaxRows /\ rows + 1 \in Rows
      /\ (rows + 1)..rows' \subseteq Rows
    <2>1. Len(names) = 1 \/ Len(names) = 2
        BY <1>1
    <2>2. rows' \in {rows + 1, rows + 2} /\ rows' <= MaxRows
        BY <1>0, <1>2, <2>1
    <2>3. rows' \in Nat /\ rows + 1 <= rows'
        BY <1>0, <2>2
    <2> QED
        BY <1>0, <2>2, <2>3 DEF Rows
<1>4. \A r \in (rows + 1)..rows' : r - rows \in 1..Len(names)
    BY <1>0, <1>1, <1>2
<1>5. \A r \in (rows + 1)..rows' :
         Kind(r) \in Kinds /\ Kind(r).op = op /\ Kind(r).decky \in config
    BY <1>1, <1>4 DEF Kinds
<1>6. \A r, q \in (rows + 1)..rows' : r # q => r - rows # q - rows
    BY <1>0, <1>2, <1>1
<1>7. \A r, q \in (rows + 1)..rows' : r # q => Kind(r).decky # Kind(q).decky
    BY <1>1, <1>4, <1>6
<1>8. \A r, q \in (rows + 1)..rows' : r # q => Kind(r) # Kind(q)
    BY <1>7
<1>9. \A r \in Rows : r \in (rows + 1)..rows' => kind'[r] = Kind(r) /\ owner'[r] = rows + 1
    BY <1>2
<1>10. \A r \in Rows : r \notin (rows + 1)..rows' => kind'[r] = kind[r] /\ owner'[r] = owner[r]
    BY <1>2
<1>11. kind \in [Rows -> Kinds \cup {NoKind}] /\ owner \in [Rows -> 0..MaxRows]
    BY DEF LifeInv, TypeOK
<1>12. kind' \in [Rows -> Kinds \cup {NoKind}]
    BY <1>2, <1>5, <1>11
<1>13. owner' \in [Rows -> 0..MaxRows]
    BY <1>0, <1>1, <1>2, <1>11 DEF Rows
<1>14. \A r, q \in (rows + 1)..rows' : r # q => kind'[r] # kind'[q]
    <2> HIDE DEF Kind
    <2> QED BY <1>3, <1>8, <1>9
<1> QED
    BY <1>2, <1>3, <1>5, <1>9, <1>10, <1>12, <1>13, <1>14

LEMMA LifeRequest ==
    ASSUME LifeInv, NEW op \in Operations, NEW config \in SUBSET Deckies,
           NEW names \in Batches(op), \A i \in 1..Len(names) : names[i] \in config,
           NewTask(names, op, config), fleet' \in SUBSET Deckies
    PROVE  LifeInv'
<1>0. rows \in Nat /\ MaxRows \in Nat /\ rows <= MaxRows
    BY DeckyLifecycleAssumption DEF LifeInv, TypeOK
<1>1. /\ rows' \in {rows + 1, rows + 2} /\ rows' <= MaxRows /\ rows + 1 \in Rows
      /\ \A r \in Rows : r \in (rows + 1)..rows' =>
           kind'[r] \in Kinds /\ kind'[r].op = op /\ kind'[r].decky \in config /\ owner'[r] = rows + 1
      /\ \A r, q \in (rows + 1)..rows' : r # q => kind'[r] # kind'[q]
      /\ \A r \in Rows : r \notin (rows + 1)..rows' =>
           kind'[r] = kind[r] /\ owner'[r] = owner[r]
      /\ pc' = [pc EXCEPT ![rows + 1] = "mark"]
      /\ todo' = [todo EXCEPT ![rows + 1] = (rows + 1)..rows']
      /\ sent' = [sent EXCEPT ![rows + 1] = config]
      /\ kind' \in [Rows -> Kinds \cup {NoKind}] /\ owner' \in [Rows -> 0..MaxRows]
      /\ UNCHANGED <<swarm, status, work, deltas, found, faults, drops, crashes>>
    BY RequestFacts
<1>2. rows' \in Nat /\ rows < rows' /\ rows' <= MaxRows /\ rows + 1 \in 1..rows'
    BY <1>0, <1>1
<1>3. /\ \A r \in Rows : r \in 1..rows' <=> r \in 1..rows \/ r \in (rows + 1)..rows'
      /\ \A r \in 1..rows : r \in Rows /\ r \notin (rows + 1)..rows' /\ r # rows + 1
      /\ (rows + 1)..rows' \subseteq Rows
      /\ 1..rows' \subseteq Rows
    BY <1>0, <1>2 DEF Rows
<1>4. \A u \in Rows : RowsOf(u) \subseteq RowsOf(u)'
    BY <1>1, <1>3 DEF RowsOf
<1>5. \A r \in (rows + 1)..rows' : r \in 1..rows' /\ owner'[r] = rows + 1
    BY <1>1, <1>3
<1>6. /\ pc \in [Rows -> {"none", "mark", "work", "dispatch", "await_202", "done"} \cup Terminal]
      /\ todo \in [Rows -> SUBSET Rows] /\ found \in [Rows -> 0..MaxRows]
      /\ sent \in [Rows -> SUBSET Deckies]
    BY DEF LifeInv, TypeOK
<1>7. /\ pc[rows + 1] = "none" /\ work[rows + 1] = "none" /\ deltas[rows + 1] = {}
      /\ found[rows + 1] = 0
    BY <1>0, <1>1 DEF LifeInv, TaskInv, JobInv, Terminal
<1>S. /\ sent'[rows + 1] = config
      /\ \A u \in Rows : u # rows + 1 => sent'[u] = sent[u]
    BY <1>1, <1>6
<1>8. TypeOK'
    <2>1. disturbed' \in BOOLEAN
        BY DEF NewTask
    <2>2. pc' \in [Rows -> {"none", "mark", "work", "dispatch", "await_202", "done"} \cup Terminal]
        BY <1>1, <1>6
    <2>3. todo' \in [Rows -> SUBSET Rows] /\ sent' \in [Rows -> SUBSET Deckies]
        BY <1>1, <1>3, <1>6
    <2>4. rows' \in 0..MaxRows
        BY <1>0, <1>2
    <2> QED
        BY <1>1, <2>1, <2>2, <2>3, <2>4 DEF LifeInv, TypeOK
<1>9. RowInv'
    <2>1. ASSUME NEW r \in 1..rows'
          PROVE  /\ kind'[r] \in Kinds
                 /\ owner'[r] \in 1..rows' /\ owner'[owner'[r]] = owner'[r]
                 /\ kind'[owner'[r]].op = kind'[r].op
                 /\ kind'[r].decky \in sent'[owner'[r]]
        <3>1. CASE r \in 1..rows
            <4>1. kind'[r] = kind[r] /\ owner'[r] = owner[r]
                BY <1>1, <1>3, <3>1
            <4>2. /\ owner[r] \in 1..rows /\ kind[r] \in Kinds /\ owner[owner[r]] = owner[r]
                  /\ kind[owner[r]].op = kind[r].op /\ kind[r].decky \in sent[owner[r]]
                BY <3>1 DEF LifeInv, RowInv
            <4>3. /\ owner'[owner[r]] = owner[owner[r]] /\ kind'[owner[r]] = kind[owner[r]]
                  /\ sent'[owner[r]] = sent[owner[r]]
                BY <1>1, <1>3, <1>S, <4>2
            <4>4. owner[r] \in 1..rows'
                BY <1>0, <1>2, <4>2
            <4> QED BY <4>1, <4>2, <4>3, <4>4
        <3>2. CASE r \in (rows + 1)..rows'
            <4>1. rows + 1 \in (rows + 1)..rows' /\ rows + 1 \in Rows /\ r \in Rows
                BY <1>0, <1>1, <1>2, <1>3, <3>2
            <4>2. kind'[r] \in Kinds /\ kind'[r].op = op /\ kind'[r].decky \in config /\ owner'[r] = rows + 1
                BY <1>1, <3>2, <4>1
            <4>3. kind'[rows + 1].op = op /\ owner'[rows + 1] = rows + 1
                BY <1>1, <4>1
            <4> QED BY <1>2, <1>S, <4>2, <4>3
        <3> QED BY <1>3, <3>1, <3>2
    <2>2. \A r \in Rows : r > rows' => status'[r] = "pending" /\ sent'[r] = {}
        <3>1. \A r \in Rows : r > rows' => r > rows /\ r # rows + 1
            BY <1>0, <1>1, <1>2 DEF Rows
        <3> QED BY <1>1, <1>S, <3>1 DEF LifeInv, RowInv
    <2>3. ASSUME NEW r \in 1..rows', NEW q \in 1..rows', owner'[r] = owner'[q], kind'[r] = kind'[q]
          PROVE  r = q
        <3>1. \A x \in 1..rows : owner'[x] = owner[x] /\ kind'[x] = kind[x] /\ owner[x] # rows + 1
            BY <1>1, <1>3 DEF LifeInv, RowInv
        <3>2. CASE r \in 1..rows /\ q \in 1..rows
            BY <2>3, <3>1, <3>2 DEF LifeInv, RowInv
        <3>3. CASE r \in (rows + 1)..rows' /\ q \in (rows + 1)..rows'
            BY <1>1, <2>3, <3>3
        <3>4. CASE r \in 1..rows /\ q \in (rows + 1)..rows'
            BY <1>5, <2>3, <3>1, <3>4
        <3>5. CASE q \in 1..rows /\ r \in (rows + 1)..rows'
            BY <1>5, <2>3, <3>1, <3>5
        <3> QED BY <1>3, <3>2, <3>3, <3>4, <3>5
    <2> QED BY <2>1, <2>2, <2>3 DEF RowInv
<1>10. ASSUME NEW u \in Rows PROVE TaskInv(u)' /\ JobInv(u)'
    <2>1. CASE u = rows + 1
        <3>1. pc'[u] = "mark" /\ todo'[u] = (rows + 1)..rows' /\ owner'[u] = u
            BY <1>0, <1>1, <1>2, <1>6, <2>1
        <3>2. u <= rows' /\ todo'[u] # {}
            BY <1>0, <1>2, <2>1, <3>1
        <3>3. todo'[u] \subseteq RowsOf(u)'
            BY <1>5, <2>1, <3>1 DEF RowsOf
        <3> QED
            BY <1>1, <1>7, <2>1, <3>1, <3>2, <3>3 DEF TaskInv, JobInv, Terminal
    <2>2. CASE u # rows + 1
        <3>1. pc'[u] = pc[u] /\ todo'[u] = todo[u] /\ sent'[u] = sent[u]
            BY <1>1, <1>6, <1>S, <2>2
        <3>2. pc[u] # "none" => u <= rows' /\ owner'[u] = u
            <4>1. pc[u] # "none" => u <= rows /\ owner[u] = u
                BY DEF LifeInv, TaskInv
            <4>2. u \in Nat /\ 1 <= u
                BY <1>0 DEF Rows
            <4>3. u <= rows => u \in 1..rows /\ u <= rows'
                BY <1>0, <1>2, <4>2
            <4> QED BY <1>1, <1>3, <4>1, <4>3
        <3>3. TaskInv(u)'
            BY <1>1, <1>4, <3>1, <3>2 DEF LifeInv, TaskInv
        <3>4. JobInv(u)
            BY DEF LifeInv
        <3>5. found[u] # 0 => u \in 1..rows
            <4>1. u \in Nat /\ 1 <= u
                BY <1>0 DEF Rows
            <4>2. found[u] # 0 => ~(u > rows)
                BY <3>4 DEF LifeInv, RowInv, JobInv
            <4> QED BY <1>0, <4>1, <4>2
        <3>6. JobInv(u)'
            <4>1. deltas'[u] = deltas[u] /\ found'[u] = found[u] /\ work'[u] = work[u]
                BY <1>1
            <4>2. found[u] # 0 => /\ found[u] \in 1..rows' /\ kind'[found[u]] = kind[found[u]]
                                  /\ kind'[u] = kind[u]
                BY <1>0, <1>1, <1>2, <1>3, <3>4, <3>5 DEF JobInv
            <4> QED BY <3>1, <3>4, <4>1, <4>2 DEF JobInv
        <3> QED BY <3>3, <3>6
    <2> QED BY <2>1, <2>2
<1> QED
    BY <1>8, <1>9, <1>10 DEF LifeInv

\* A step of one task, job or handler leaves the others' part of LifeInv alone.
LEMMA LifeFrame ==
    ASSUME LifeInv, TypeOK', UNCHANGED rowVars,
           \A r \in Rows : r > rows => status'[r] = status[r],
           NEW t \in Rows, TaskInv(t)', JobInv(t)',
           \A u \in Rows \ {t} : /\ pc'[u] = pc[u] /\ todo'[u] = todo[u] /\ work'[u] = work[u]
                                 /\ deltas'[u] = deltas[u] /\ found'[u] = found[u]
    PROVE  LifeInv'
<1>1. RowInv'
    BY DEF LifeInv, RowInv, rowVars
<1>2. ASSUME NEW u \in Rows, u # t PROVE TaskInv(u)' /\ JobInv(u)'
    <2>1. /\ pc'[u] = pc[u] /\ todo'[u] = todo[u] /\ work'[u] = work[u]
          /\ deltas'[u] = deltas[u] /\ found'[u] = found[u]
        BY <1>2
    <2>2. RowsOf(u)' = RowsOf(u)
        BY DEF RowsOf, rowVars
    <2>3. TaskInv(u) /\ JobInv(u)
        BY DEF LifeInv
    <2> QED BY <2>1, <2>2, <2>3 DEF TaskInv, JobInv, rowVars
<1> QED
    BY <1>1, <1>2 DEF LifeInv

\* The types of the variables a step of one task writes, and its invariant.
LEMMA LifeFacts ==
    ASSUME LifeInv, NEW t \in Rows
    PROVE  /\ rows \in Nat /\ MaxRows \in Nat /\ rows <= MaxRows
           /\ todo[t] \in SUBSET Rows /\ deltas[t] \in SUBSET Deckies
           /\ todo[t] \subseteq RowsOf(t) /\ sent[t] \in SUBSET Deckies
           /\ RowsOf(t) \subseteq 1..rows /\ 1..rows \subseteq Rows
           /\ \A r \in 1..rows : ~(r > rows)
           /\ TaskInv(t) /\ JobInv(t)
<1>1. rows \in Nat /\ MaxRows \in Nat /\ rows <= MaxRows
    BY DeckyLifecycleAssumption DEF LifeInv, TypeOK
<1>2. TaskInv(t) /\ JobInv(t)
    BY DEF LifeInv
<1>3. /\ todo[t] \in SUBSET Rows /\ deltas[t] \in SUBSET Deckies
      /\ sent[t] \in SUBSET Deckies
    BY DEF LifeInv, TypeOK
<1>4. 1..rows \subseteq Rows /\ \A r \in 1..rows : ~(r > rows)
    BY <1>1 DEF Rows
<1> QED
    BY <1>1, <1>2, <1>3, <1>4 DEF TaskInv, JobInv, RowsOf

LEMMA LifeUpdate ==
    ASSUME LifeInv, NEW t \in Rows, NEW new \in Open \cup Terminal,
           NEW next \in {"work", "dispatch", "done"},
           pc[t] \in {"mark"} \cup Terminal, next # "done" => pc[t] = "mark",
           Update(t, new, next)
    PROVE  LifeInv'
<1> DEFINE r == First(todo[t])
<1>1. /\ status' = [status EXCEPT ![r] = new]
      /\ todo' = [todo EXCEPT ![t] = @ \ {r}]
      /\ pc' = IF todo[t] = {r} THEN [pc EXCEPT ![t] = next] ELSE pc
      /\ UNCHANGED <<rowVars, work, deltas, found, boundVars>>
    BY DEF Update
<1>2. /\ todo[t] \in SUBSET Rows /\ todo[t] \subseteq RowsOf(t) /\ RowsOf(t) \subseteq 1..rows
      /\ \A q \in 1..rows : ~(q > rows)
      /\ TaskInv(t) /\ JobInv(t)
    BY LifeFacts
<1>3. r \in todo[t]
    BY <1>2, FirstIn DEF TaskInv
<1> HIDE DEF r
<1>4. /\ status \in [Rows -> Open \cup Terminal]
      /\ pc \in [Rows -> {"none", "mark", "work", "dispatch", "await_202", "done"} \cup Terminal]
      /\ todo \in [Rows -> SUBSET Rows]
    BY DEF LifeInv, TypeOK
<1>5. TypeOK'
    <2>1. status' \in [Rows -> Open \cup Terminal] /\ todo' \in [Rows -> SUBSET Rows]
        BY <1>1, <1>4
    <2>2. pc' \in [Rows -> {"none", "mark", "work", "dispatch", "await_202", "done"} \cup Terminal]
        BY <1>1, <1>4
    <2> QED
        BY <1>1, <2>1, <2>2 DEF LifeInv, TypeOK, rowVars, boundVars
<1>6. \A q \in Rows : q > rows => status'[q] = status[q]
    BY <1>1, <1>2, <1>3, <1>4
<1>7. /\ todo'[t] = todo[t] \ {r} /\ work'[t] = work[t] /\ deltas'[t] = deltas[t]
      /\ RowsOf(t)' = RowsOf(t) /\ found'[t] = found[t]
      /\ pc'[t] = IF todo[t] = {r} THEN next ELSE pc[t]
    BY <1>1, <1>4 DEF RowsOf, rowVars
<1>8. TaskInv(t)'
    BY <1>1, <1>2, <1>3, <1>7 DEF TaskInv, rowVars, Terminal
<1>9. JobInv(t)'
    BY <1>1, <1>2, <1>7 DEF JobInv, rowVars
<1>10. \A u \in Rows \ {t} : pc'[u] = pc[u] /\ todo'[u] = todo[u]
    BY <1>1, <1>4
<1> QED
    BY <1>1, <1>5, <1>6, <1>8, <1>9, <1>10, LifeFrame

\* LocalWork and DispatchRaises: the work is over, every row is to be sealed.
LEMMA LifeLocalWork ==
    ASSUME LifeInv, NEW t \in Rows, LocalWork(t)
    PROVE  LifeInv'
<1>1. PICK outcome \in Terminal :
         /\ work' = [work EXCEPT ![t] = outcome]
         /\ pc' = [pc EXCEPT ![t] = outcome]
    BY DEF LocalWork
<1>2. /\ pc[t] = "work"
      /\ todo' = [todo EXCEPT ![t] = RowsOf(t)]
      /\ UNCHANGED <<rowVars, status, deltas, found, boundVars>>
    BY DEF LocalWork
<1>3. RowsOf(t) \in SUBSET Rows /\ TaskInv(t) /\ JobInv(t)
    BY LifeFacts, RowsOfType DEF LifeInv
<1>4. /\ pc \in [Rows -> {"none", "mark", "work", "dispatch", "await_202", "done"} \cup Terminal]
      /\ todo \in [Rows -> SUBSET Rows]
      /\ work \in [Rows -> {"none", "running", "dead"} \cup Terminal]
    BY DEF LifeInv, TypeOK
<1>5. TypeOK'
    <2>1. pc' \in [Rows -> {"none", "mark", "work", "dispatch", "await_202", "done"} \cup Terminal]
        BY <1>1, <1>4
    <2>2. todo' \in [Rows -> SUBSET Rows]
        BY <1>2, <1>3, <1>4
    <2>3. work' \in [Rows -> {"none", "running", "dead"} \cup Terminal]
        BY <1>1, <1>4
    <2> QED
        BY <1>2, <2>1, <2>2, <2>3 DEF LifeInv, TypeOK, rowVars, boundVars
<1>6. /\ todo'[t] = RowsOf(t) /\ work'[t] = outcome /\ pc'[t] = outcome
      /\ deltas'[t] = deltas[t] /\ found'[t] = found[t] /\ RowsOf(t)' = RowsOf(t)
    BY <1>1, <1>2, <1>4 DEF RowsOf, rowVars
<1>7. t \in RowsOf(t) /\ t <= rows /\ owner[t] = t /\ work[t] = "none" /\ deltas[t] = {} /\ found[t] = 0
    <2>1. t <= rows /\ owner[t] = t /\ work[t] = "none" /\ deltas[t] = {} /\ found[t] = 0
        BY <1>2, <1>3 DEF TaskInv, JobInv, Terminal
    <2>2. t \in 1..rows
        BY <2>1, LifeFacts DEF Rows
    <2> QED BY <2>1, <2>2 DEF RowsOf
<1>8. TaskInv(t)'
    BY <1>2, <1>6, <1>7 DEF TaskInv, rowVars, Terminal
<1>9. JobInv(t)'
    BY <1>1, <1>2, <1>3, <1>6, <1>7 DEF JobInv, rowVars
<1>10. \A u \in Rows \ {t} : pc'[u] = pc[u] /\ todo'[u] = todo[u] /\ work'[u] = work[u]
    BY <1>1, <1>2, <1>4
<1> QED
    BY <1>2, <1>5, <1>8, <1>9, <1>10, LifeFrame

LEMMA LifeRaises ==
    ASSUME LifeInv, NEW t \in Rows, DispatchRaises(t)
    PROVE  LifeInv'
<1>1. /\ pc[t] \in {"dispatch", "await_202"}
      /\ pc' = [pc EXCEPT ![t] = "failed"]
      /\ todo' = [todo EXCEPT ![t] = RowsOf(t)]
      /\ UNCHANGED <<rowVars, status, work, deltas, found, drops, crashes>>
    BY DEF DispatchRaises
<1>2. faults' \in 0..MaxNetFaults /\ disturbed' \in BOOLEAN
    BY DeckyLifecycleAssumption DEF DispatchRaises, LifeInv, TypeOK
<1>3. RowsOf(t) \in SUBSET Rows /\ TaskInv(t) /\ JobInv(t)
    BY LifeFacts, RowsOfType DEF LifeInv
<1>4. /\ pc \in [Rows -> {"none", "mark", "work", "dispatch", "await_202", "done"} \cup Terminal]
      /\ todo \in [Rows -> SUBSET Rows]
    BY DEF LifeInv, TypeOK
<1>5. TypeOK'
    <2>1. pc' \in [Rows -> {"none", "mark", "work", "dispatch", "await_202", "done"} \cup Terminal]
        BY <1>1, <1>4 DEF Terminal
    <2>2. todo' \in [Rows -> SUBSET Rows]
        BY <1>1, <1>3, <1>4
    <2> QED
        BY <1>1, <1>2, <2>1, <2>2 DEF LifeInv, TypeOK, rowVars
<1>6. todo'[t] = RowsOf(t) /\ pc'[t] = "failed" /\ RowsOf(t)' = RowsOf(t)
    BY <1>1, <1>4 DEF RowsOf, rowVars
<1>7. t \in RowsOf(t) /\ t <= rows /\ owner[t] = t
    <2>1. t <= rows /\ owner[t] = t
        BY <1>1, <1>3 DEF TaskInv
    <2>2. t \in 1..rows
        BY <2>1, LifeFacts DEF Rows
    <2> QED BY <2>1, <2>2 DEF RowsOf
<1>8. TaskInv(t)'
    BY <1>1, <1>6, <1>7 DEF TaskInv, rowVars, Terminal
<1>9. JobInv(t)'
    BY <1>1, <1>3, <1>6 DEF JobInv, rowVars
<1>10. \A u \in Rows \ {t} : pc'[u] = pc[u] /\ todo'[u] = todo[u]
    BY <1>1, <1>4
<1> QED
    BY <1>1, <1>5, <1>8, <1>9, <1>10, LifeFrame

LEMMA LifeTaskRaises ==
    ASSUME LifeInv, NEW t \in Rows, TaskRaises(t)
    PROVE  LifeInv'
<1>1. /\ pc[t] \in {"mark"} \cup Terminal
      /\ pc' = [pc EXCEPT ![t] = "done"]
      /\ todo' = [todo EXCEPT ![t] = {}]
      /\ UNCHANGED <<rowVars, status, work, deltas, found, faults, crashes, disturbed>>
    BY DEF TaskRaises
<1>2. drops' \in 0..MaxDrops
    BY DeckyLifecycleAssumption DEF TaskRaises, LifeInv, TypeOK
<1>3. TaskInv(t) /\ JobInv(t)
    BY LifeFacts
<1>4. /\ pc \in [Rows -> {"none", "mark", "work", "dispatch", "await_202", "done"} \cup Terminal]
      /\ todo \in [Rows -> SUBSET Rows]
    BY DEF LifeInv, TypeOK
<1>5. TypeOK'
    <2>1. pc' \in [Rows -> {"none", "mark", "work", "dispatch", "await_202", "done"} \cup Terminal]
        BY <1>1, <1>4
    <2>2. todo' \in [Rows -> SUBSET Rows]
        BY <1>1, <1>4
    <2> QED
        BY <1>1, <1>2, <2>1, <2>2 DEF LifeInv, TypeOK, rowVars
<1>6. todo'[t] = {} /\ pc'[t] = "done" /\ RowsOf(t)' = RowsOf(t)
    BY <1>1, <1>4 DEF RowsOf, rowVars
<1>7. t <= rows /\ owner[t] = t
    BY <1>1, <1>3 DEF TaskInv, Terminal
<1>8. TaskInv(t)'
    BY <1>1, <1>6, <1>7 DEF TaskInv, rowVars, Terminal
<1>9. JobInv(t)'
    BY <1>1, <1>3, <1>6 DEF JobInv, rowVars
<1>10. \A u \in Rows \ {t} : pc'[u] = pc[u] /\ todo'[u] = todo[u]
    BY <1>1, <1>4
<1> QED
    BY <1>1, <1>5, <1>8, <1>9, <1>10, LifeFrame

LEMMA LifeAccepts ==
    ASSUME LifeInv, NEW t \in Rows, AgentAccepts(t) \/ Accepted(t)
    PROVE  LifeInv'
<1>1. PICK p \in {"await_202", "done"} : pc' = [pc EXCEPT ![t] = p]
    BY DEF AgentAccepts, Accepted
<1>2. /\ pc[t] \in {"dispatch", "await_202"}
      /\ work' = [work EXCEPT ![t] = "running"] \/ work' = work
      /\ UNCHANGED <<rowVars, status, todo, deltas, found, boundVars>>
    BY DEF AgentAccepts, Accepted
<1>3. pc[t] = "await_202" => work' = work
    BY DEF AgentAccepts, Accepted
<1>4. TaskInv(t) /\ JobInv(t)
    BY LifeFacts
<1>5. /\ pc \in [Rows -> {"none", "mark", "work", "dispatch", "await_202", "done"} \cup Terminal]
      /\ work \in [Rows -> {"none", "running", "dead"} \cup Terminal]
    BY DEF LifeInv, TypeOK
<1>6. TypeOK'
    <2>1. pc' \in [Rows -> {"none", "mark", "work", "dispatch", "await_202", "done"} \cup Terminal]
        BY <1>1, <1>5
    <2>2. work' \in [Rows -> {"none", "running", "dead"} \cup Terminal]
        BY <1>2, <1>5
    <2> QED
        BY <1>2, <2>1, <2>2 DEF LifeInv, TypeOK, rowVars, boundVars
<1>7. /\ pc'[t] \in {"await_202", "done"} /\ work'[t] \in {work[t], "running"}
      /\ pc[t] = "await_202" => work'[t] = work[t]
      /\ RowsOf(t)' = RowsOf(t)
    BY <1>1, <1>2, <1>3, <1>5 DEF RowsOf, rowVars
<1>8. TaskInv(t)'
    BY <1>2, <1>4, <1>7 DEF TaskInv, rowVars, Terminal
<1>9. JobInv(t)'
    BY <1>2, <1>4, <1>7 DEF TaskInv, JobInv, rowVars, Terminal
<1>10. \A u \in Rows \ {t} : pc'[u] = pc[u] /\ work'[u] = work[u]
    BY <1>1, <1>2, <1>5
<1> QED
    BY <1>2, <1>6, <1>8, <1>9, <1>10, LifeFrame

LEMMA LifeAgentFinishes ==
    ASSUME LifeInv, NEW t \in Rows, AgentFinishes(t)
    PROVE  LifeInv'
<1>1. PICK outcome \in Terminal : work' = [work EXCEPT ![t] = outcome]
    BY DEF AgentFinishes
<1>2. /\ work[t] = "running"
      /\ deltas' = [deltas EXCEPT ![t] = sent[t]] \/ deltas' = deltas
      /\ UNCHANGED <<rowVars, status, pc, todo, found, faults, crashes, disturbed>>
    BY DEF AgentFinishes
<1>3. drops' \in 0..MaxDrops
    BY DeckyLifecycleAssumption DEF AgentFinishes, LifeInv, TypeOK
<1>4. sent[t] \in SUBSET Deckies /\ TaskInv(t) /\ JobInv(t)
    BY LifeFacts
<1>5. /\ work \in [Rows -> {"none", "running", "dead"} \cup Terminal]
      /\ deltas \in [Rows -> SUBSET Deckies]
    BY DEF LifeInv, TypeOK
<1>6. TypeOK'
    <2>1. work' \in [Rows -> {"none", "running", "dead"} \cup Terminal]
        BY <1>1, <1>5
    <2>2. deltas' \in [Rows -> SUBSET Deckies]
        BY <1>2, <1>4, <1>5
    <2> QED
        BY <1>2, <1>3, <2>1, <2>2 DEF LifeInv, TypeOK, rowVars
<1>7. /\ work'[t] \in Terminal /\ deltas'[t] \in {deltas[t], sent[t]}
      /\ RowsOf(t)' = RowsOf(t) /\ deltas[t] = {} /\ found[t] = 0
      /\ pc[t] \notin {"none", "mark", "work", "dispatch", "succeeded"}
    BY <1>1, <1>2, <1>4, <1>5 DEF RowsOf, rowVars, TaskInv, JobInv, Terminal
<1>8. TaskInv(t)'
    BY <1>2, <1>4, <1>7 DEF TaskInv, rowVars
<1>9. JobInv(t)'
    BY <1>2, <1>4, <1>7 DEF JobInv, rowVars
<1>10. \A u \in Rows \ {t} : work'[u] = work[u] /\ deltas'[u] = deltas[u]
    BY <1>1, <1>2, <1>5
<1> QED
    BY <1>2, <1>6, <1>8, <1>9, <1>10, LifeFrame

\* What the look-up does: the delta is taken, and the row found, if any, is open
\* and of the delta's decky and operation.
LEMMA FindOpenFacts ==
    ASSUME LifeInv, NEW t \in Rows, FindOpen(t)
    PROVE  /\ found[t] = 0
           /\ \E d \in deltas[t], l \in 0..MaxRows :
                /\ deltas' = [deltas EXCEPT ![t] = @ \ {d}]
                /\ found' = [found EXCEPT ![t] = l]
                /\ l = 0 => OpenRows([decky |-> d, op |-> kind[t].op]) = {}
                /\ l # 0 => /\ l \in 1..rows /\ status[l] \in Open
                            /\ kind[l] = [decky |-> d, op |-> kind[t].op]
           /\ UNCHANGED <<rowVars, status, pc, todo, work, boundVars>>
<1>1. PICK d \in deltas[t] :
        /\ deltas' = [deltas EXCEPT ![t] = @ \ {d}]
        /\ found' = IF OpenRows([decky |-> d, op |-> kind[t].op]) = {} THEN found
                    ELSE [found EXCEPT ![t] = Latest(OpenRows([decky |-> d, op |-> kind[t].op]))]
    BY DEF FindOpen
<1>2. found[t] = 0 /\ UNCHANGED <<rowVars, status, pc, todo, work, boundVars>>
    BY DEF FindOpen
<1> DEFINE O == OpenRows([decky |-> d, op |-> kind[t].op])
<1>3. O \in SUBSET Rows /\ 1..rows \subseteq 0..MaxRows
    BY LifeFacts DEF OpenRows
<1>4. found \in [Rows -> 0..MaxRows] /\ 0 \in 0..MaxRows
    BY DeckyLifecycleAssumption DEF LifeInv, TypeOK
<1>5. CASE O = {}
    <2>1. found' = [found EXCEPT ![t] = 0]
        BY <1>1, <1>2, <1>4, <1>5
    <2> QED BY <1>1, <1>2, <1>4, <1>5, <2>1
<1>6. CASE O # {}
    <2>1. Latest(O) \in O
        BY <1>3, <1>6, LatestIn
    <2>2. /\ Latest(O) \in 1..rows /\ status[Latest(O)] \in Open
          /\ kind[Latest(O)] = [decky |-> d, op |-> kind[t].op]
        BY <2>1 DEF OpenRows
    <2>3. Latest(O) \in 0..MaxRows /\ Latest(O) # 0
        BY <1>3, <2>2
    <2>4. found' = [found EXCEPT ![t] = Latest(O)]
        BY <1>1, <1>6
    <2> HIDE DEF O
    <2> QED BY <1>1, <1>2, <2>2, <2>3, <2>4
<1> QED BY <1>5, <1>6

LEMMA LifeFindOpen ==
    ASSUME LifeInv, NEW t \in Rows, FindOpen(t)
    PROVE  LifeInv'
<1>1. PICK d \in deltas[t], l \in 0..MaxRows :
        /\ deltas' = [deltas EXCEPT ![t] = @ \ {d}]
        /\ found' = [found EXCEPT ![t] = l]
        /\ l # 0 => l \in 1..rows /\ kind[l] = [decky |-> d, op |-> kind[t].op]
    BY FindOpenFacts
<1>2. found[t] = 0 /\ UNCHANGED <<rowVars, status, pc, todo, work, boundVars>>
    BY FindOpenFacts
<1>3. TaskInv(t) /\ JobInv(t)
    BY LifeFacts
<1>4. found \in [Rows -> 0..MaxRows] /\ deltas \in [Rows -> SUBSET Deckies]
    BY DEF LifeInv, TypeOK
<1>5. TypeOK'
    <2>1. found' \in [Rows -> 0..MaxRows]
        BY <1>1, <1>4
    <2>2. deltas' \in [Rows -> SUBSET Deckies]
        BY <1>1, <1>4
    <2> QED
        BY <1>2, <2>1, <2>2 DEF LifeInv, TypeOK, rowVars, boundVars
<1>6. /\ RowsOf(t)' = RowsOf(t) /\ deltas'[t] = deltas[t] \ {d} /\ found'[t] = l
      /\ d \in sent[t] /\ work[t] \in Terminal
    BY <1>1, <1>2, <1>3, <1>4 DEF RowsOf, rowVars, JobInv
<1>7. TaskInv(t)'
    BY <1>2, <1>3, <1>6, <1>1 DEF TaskInv, rowVars
<1>8. JobInv(t)'
    BY <1>1, <1>2, <1>3, <1>6 DEF JobInv, rowVars
<1>9. \A u \in Rows \ {t} : found'[u] = found[u] /\ deltas'[u] = deltas[u]
    BY <1>1, <1>4
<1> QED
    BY <1>2, <1>5, <1>7, <1>8, <1>9, LifeFrame

LEMMA LifeApplyDelta ==
    ASSUME LifeInv, NEW t \in Rows, ApplyDelta(t)
    PROVE  LifeInv'
<1>1. /\ found[t] # 0
      /\ status' = [status EXCEPT ![found[t]] = work[t]]
      /\ found' = [found EXCEPT ![t] = 0]
      /\ UNCHANGED <<rowVars, pc, todo, work, deltas, boundVars>>
    BY DEF ApplyDelta
<1>2. TaskInv(t) /\ JobInv(t) /\ \A r \in 1..rows : ~(r > rows)
    BY LifeFacts
<1>3. work[t] \in Terminal /\ found[t] \in 1..rows
    BY <1>1, <1>2 DEF JobInv
<1>4. found \in [Rows -> 0..MaxRows] /\ status \in [Rows -> Open \cup Terminal]
    BY DEF LifeInv, TypeOK
<1>5. TypeOK'
    <2>1. found' \in [Rows -> 0..MaxRows]
        BY <1>1, <1>4, DeckyLifecycleAssumption
    <2>2. status' \in [Rows -> Open \cup Terminal]
        BY <1>1, <1>3, <1>4
    <2> QED
        BY <1>1, <2>1, <2>2 DEF LifeInv, TypeOK, rowVars, boundVars
<1>6. RowsOf(t)' = RowsOf(t) /\ found'[t] = 0
    BY <1>1, <1>4 DEF RowsOf, rowVars
<1>7. TaskInv(t)'
    BY <1>1, <1>2, <1>6 DEF TaskInv, rowVars
<1>8. JobInv(t)'
    BY <1>1, <1>2, <1>3, <1>6 DEF JobInv, rowVars
<1>9. \A u \in Rows \ {t} : found'[u] = found[u]
    BY <1>1, <1>4
<1>10. \A r \in Rows : r > rows => status'[r] = status[r]
    BY <1>1, <1>2, <1>3, <1>4
<1> QED
    BY <1>1, <1>5, <1>7, <1>8, <1>9, <1>10, LifeFrame

LEMMA LifeDeltaRaises ==
    ASSUME LifeInv, NEW t \in Rows, DeltaRaises(t)
    PROVE  LifeInv'
<1>1. UNCHANGED <<rowVars, status, pc, todo, work, faults, crashes, disturbed>>
    BY DEF DeltaRaises
<1>2. drops' \in 0..MaxDrops
    BY DeckyLifecycleAssumption DEF DeltaRaises, LifeInv, TypeOK
<1>3. TaskInv(t) /\ JobInv(t)
    BY LifeFacts
<1>4. found \in [Rows -> 0..MaxRows] /\ deltas \in [Rows -> SUBSET Deckies] /\ 0 \in 0..MaxRows
    BY DeckyLifecycleAssumption DEF LifeInv, TypeOK
<1>5. /\ found' \in [Rows -> 0..MaxRows] /\ deltas' \in [Rows -> SUBSET Deckies]
      /\ deltas'[t] \subseteq deltas[t] /\ found'[t] = 0
      /\ \A u \in Rows \ {t} : found'[u] = found[u] /\ deltas'[u] = deltas[u]
    <2>1. CASE found[t] = 0 /\ found' = found
        <3>1. PICK d \in deltas[t] : deltas' = [deltas EXCEPT ![t] = @ \ {d}]
            BY <2>1 DEF DeltaRaises
        <3> QED BY <1>4, <2>1, <3>1
    <2>2. CASE found[t] # 0 /\ found' = [found EXCEPT ![t] = 0] /\ deltas' = deltas
        BY <1>4, <2>2
    <2> QED BY <2>1, <2>2 DEF DeltaRaises
<1>6. TypeOK'
    BY <1>1, <1>2, <1>5 DEF LifeInv, TypeOK, rowVars
<1>7. RowsOf(t)' = RowsOf(t)
    BY <1>1 DEF RowsOf, rowVars
<1>8. TaskInv(t)'
    BY <1>1, <1>3, <1>5, <1>7 DEF TaskInv, rowVars
<1>9. JobInv(t)'
    BY <1>1, <1>3, <1>5 DEF JobInv, rowVars
<1> QED
    BY <1>1, <1>5, <1>6, <1>8, <1>9, LifeFrame

LEMMA LifeCrash ==
    ASSUME LifeInv, ApiRestarts \/ AgentDies
    PROVE  LifeInv'
<1>1. UNCHANGED <<rowVars, deltas, found, faults, drops, disturbed>>
    BY DEF ApiRestarts, AgentDies
<1>2. crashes' \in 0..MaxCrashes
    BY DeckyLifecycleAssumption DEF ApiRestarts, AgentDies, LifeInv, TypeOK
<1>3. \A u \in Rows : TaskInv(u) /\ JobInv(u) /\ RowsOf(u)' = RowsOf(u)
    BY <1>1 DEF LifeInv, RowsOf, rowVars
<1>4. /\ status \in [Rows -> Open \cup Terminal]
      /\ pc \in [Rows -> {"none", "mark", "work", "dispatch", "await_202", "done"} \cup Terminal]
      /\ work \in [Rows -> {"none", "running", "dead"} \cup Terminal]
      /\ rows \in Nat
    BY LifeFacts DEF LifeInv, TypeOK
<1>5. CASE ApiRestarts
    <2>1. /\ pc' = [t \in Rows |-> IF pc[t] = "none" THEN "none" ELSE "done"]
          /\ todo' = [t \in Rows |-> {}]
          /\ work' = work
        BY <1>5 DEF ApiRestarts
    <2>2. PICK k \in 0..rows : status' =
             [r \in Rows |-> IF r <= k /\ status[r] \in Open THEN "failed" ELSE status[r]]
        BY <1>5 DEF ApiRestarts
    <2>3. TypeOK'
        <3>1. status' \in [Rows -> Open \cup Terminal]
            BY <1>4, <2>2 DEF Terminal
        <3>2. pc' \in [Rows -> {"none", "mark", "work", "dispatch", "await_202", "done"} \cup Terminal]
            BY <2>1
        <3>3. todo' \in [Rows -> SUBSET Rows]
            BY <2>1
        <3> QED
            BY <1>1, <1>2, <2>1, <3>1, <3>2, <3>3 DEF LifeInv, TypeOK, rowVars
    <2>4. RowInv'
        <3>1. \A r \in Rows : r > rows => ~(r <= k)
            BY <1>4 DEF Rows
        <3>2. \A r \in Rows : r > rows => status'[r] = "pending" /\ sent[r] = {}
            BY <2>2, <3>1 DEF LifeInv, RowInv
        <3> QED BY <1>1, <3>2 DEF LifeInv, RowInv, rowVars
    <2>5. \A u \in Rows : TaskInv(u)'
        BY <1>1, <1>3, <2>1 DEF TaskInv, rowVars, Terminal
    <2>6. \A u \in Rows : JobInv(u)'
        BY <1>1, <1>3, <2>1 DEF JobInv, rowVars
    <2> QED BY <2>3, <2>4, <2>5, <2>6 DEF LifeInv
<1>6. CASE AgentDies
    <2>1. /\ work' = [t \in Rows |-> IF work[t] = "running" THEN "dead" ELSE work[t]]
          /\ UNCHANGED <<status, pc, todo>>
        BY <1>6 DEF AgentDies
    <2>2. work' \in [Rows -> {"none", "running", "dead"} \cup Terminal]
        BY <1>4, <2>1
    <2>3. TypeOK'
        BY <1>1, <1>2, <2>1, <2>2 DEF LifeInv, TypeOK, rowVars
    <2>4. RowInv'
        BY <1>1, <2>1 DEF LifeInv, RowInv, rowVars
    <2>5. \A u \in Rows : TaskInv(u)'
        BY <1>1, <1>3, <2>1 DEF TaskInv, rowVars, Terminal
    <2>6. \A u \in Rows : JobInv(u)'
        BY <1>1, <1>3, <2>1 DEF JobInv, rowVars, Terminal
    <2> QED BY <2>3, <2>4, <2>5, <2>6 DEF LifeInv
<1> QED
    BY <1>5, <1>6

LEMMA LifeNext ==
    ASSUME LifeInv, [Next]_vars
    PROVE  LifeInv'
<1>1. CASE \/ \E names \in Batches("deploy"), replace \in BOOLEAN : Deploy(names, replace)
           \/ \E d \in Deckies : Mutate(d)
    BY <1>1, RequestTask, LifeRequest
<1>2. ASSUME NEW t \in Rows, MarkRunning(t) PROVE LifeInv'
    <2>1. (IF ~swarm THEN "work" ELSE "dispatch") \in {"work", "dispatch", "done"}
        OBVIOUS
    <2>2. pc[t] = "mark" /\ Update(t, "running", IF ~swarm THEN "work" ELSE "dispatch")
        BY <1>2 DEF MarkRunning
    <2>3. "running" \in Open \cup Terminal
        BY DEF Open
    <2> QED BY <2>1, <2>2, <2>3, LifeUpdate
<1>3. ASSUME NEW t \in Rows, Seal(t) PROVE LifeInv'
    <2>1. pc[t] \in Terminal /\ Update(t, pc[t], "done")
        BY <1>3 DEF Seal
    <2> QED BY <2>1, LifeUpdate
<1>4. ASSUME NEW t \in Rows,
             \/ Task(t) \/ DispatchRaises(t) \/ TaskRaises(t)
             \/ AgentFinishes(t) \/ Heartbeat(t) \/ DeltaRaises(t)
      PROVE  LifeInv'
    BY <1>2, <1>3, <1>4, LifeLocalWork, LifeRaises, LifeTaskRaises, LifeAccepts,
       LifeAgentFinishes, LifeFindOpen, LifeApplyDelta, LifeDeltaRaises DEF Task, Heartbeat
<1>5. CASE UNCHANGED vars
    BY <1>5 DEF vars, rowVars, boundVars, LifeInv, TypeOK, RowInv, TaskInv, JobInv, RowsOf
<1> QED
    BY <1>1, <1>4, <1>5, LifeCrash DEF Next

LEMMA LifeInit ==
    ASSUME Init
    PROVE  LifeInv
<1>1. TypeOK
    <2>1. /\ rows \in 0..MaxRows /\ faults \in 0..MaxNetFaults
          /\ drops \in 0..MaxDrops /\ crashes \in 0..MaxCrashes
        BY DeckyLifecycleAssumption DEF Init
    <2>2. owner \in [Rows -> 0..MaxRows] /\ found \in [Rows -> 0..MaxRows]
        BY DeckyLifecycleAssumption DEF Init
    <2>3. /\ kind \in [Rows -> Kinds \cup {NoKind}]
          /\ status \in [Rows -> Open \cup Terminal]
          /\ todo \in [Rows -> SUBSET Rows] /\ deltas \in [Rows -> SUBSET Deckies]
        BY DEF Init, Open
    <2>5. swarm \in BOOLEAN /\ fleet \in SUBSET Deckies /\ sent \in [Rows -> SUBSET Deckies]
        BY DEF Init
    <2>4. /\ pc \in [Rows -> {"none", "mark", "work", "dispatch", "await_202", "done"} \cup Terminal]
          /\ work \in [Rows -> {"none", "running", "dead"} \cup Terminal]
          /\ disturbed \in BOOLEAN
        BY DEF Init
    <2> QED BY <2>1, <2>2, <2>3, <2>4, <2>5 DEF TypeOK
<1>2. RowInv
    BY DEF Init, RowInv
<1>3. \A t \in Rows : TaskInv(t) /\ JobInv(t)
    BY DEF Init, TaskInv, JobInv, Terminal
<1> QED BY <1>1, <1>2, <1>3 DEF LifeInv

\* Whatever requests overlap and whatever fails: a task updates rows of its own
\* request only, the heartbeat handler's deltas name deckies of the configuration
\* the agent's job was sent, once each, and the row it holds for one of them is of
\* that decky and operation; every variable keeps its type.
THEOREM LifeInvariant == Spec => []LifeInv
<1>1. Init => LifeInv
    BY LifeInit
<1>2. LifeInv /\ [Next]_vars => LifeInv'
    BY LifeNext
<1> QED BY <1>1, <1>2, PTL DEF Spec

\* A step of one task, job or handler that opens no row, starts no attempt and
\* writes no row of another task keeps the calm of the others.
LEMMA CalmFrame ==
    ASSUME LifeInv, CalmInv, Calm, UNCHANGED rowVars, NEW t \in Rows,
           \A u \in Rows \ {t} : /\ pc'[u] = pc[u] /\ todo'[u] = todo[u] /\ work'[u] = work[u]
                                 /\ deltas'[u] = deltas[u] /\ found'[u] = found[u],
           Unfinished(t),
           \A q \in 1..rows : owner[q] # t => status'[q] = status[q],
           \A q \in 1..rows : status'[q] \in Open => status[q] \in Open,
           \A q \in RowsOf(t) : CalmRow(q)',
           found'[t] # 0 => owner[found'[t]] = t
    PROVE  CalmInv'
<1>1. /\ OwnRows
      /\ \A r \in 1..rows : CalmRow(r)
      /\ \A u \in Rows : found[u] # 0 => owner[found[u]] = u
    BY DEF CalmInv
<1>2. rows' = rows /\ kind' = kind /\ owner' = owner /\ sent' = sent
    BY DEF rowVars
<1>3. OwnRows'
    <2>1. ASSUME NEW u \in 1..rows PROVE Unfinished(u)' => Unfinished(u)
        <3>1. u \in Rows
            BY LifeFacts
        <3>2. CASE u # t
            BY <3>1, <3>2 DEF Unfinished
        <3> QED BY <3>2
    <2> QED BY <1>1, <1>2, <2>1 DEF OwnRows
<1>4. ASSUME NEW r \in 1..rows PROVE CalmRow(r)'
    <2>1. CASE owner[r] = t
        BY <2>1 DEF RowsOf
    <2>2. CASE owner[r] # t
        <3>1. owner[r] \in Rows
            BY LifeFacts DEF LifeInv, RowInv
        <3>2. CalmRow(r) /\ status'[r] = status[r]
            BY <1>1, <2>2
        <3> QED BY <1>2, <2>2, <3>1, <3>2 DEF CalmRow
    <2> QED BY <2>1, <2>2
<1>5. \A u \in Rows : found'[u] # 0 => owner'[found'[u]] = u
    BY <1>1, <1>2
<1> QED
    BY <1>2, <1>3, <1>4, <1>5 DEF CalmInv

\* The facts a calm step starts from.
LEMMA CalmFacts ==
    ASSUME LifeInv, CalmInv, Calm, NEW t \in Rows
    PROVE  /\ \A r \in RowsOf(t) : CalmRow(r) /\ owner[r] = t /\ r \in 1..rows /\ r \in Rows
           /\ OwnRows
           /\ \A u \in Rows : found[u] # 0 => owner[found[u]] = u
           /\ status \in [Rows -> Open \cup Terminal]
           /\ todo \in [Rows -> SUBSET Rows] /\ deltas \in [Rows -> SUBSET Deckies]
           /\ pc \in [Rows -> {"none", "mark", "work", "dispatch", "await_202", "done"} \cup Terminal]
           /\ work \in [Rows -> {"none", "running", "dead"} \cup Terminal]
           /\ found \in [Rows -> 0..MaxRows]
<1>1. \A r \in RowsOf(t) : owner[r] = t /\ r \in 1..rows /\ r \in Rows
    BY LifeFacts DEF RowsOf
<1> QED
    BY <1>1 DEF CalmInv, LifeInv, TypeOK

LEMMA CalmUpdate ==
    ASSUME LifeInv, CalmInv, Calm, NEW t \in Rows, NEW new, NEW next \in {"work", "dispatch", "done"},
           \/ pc[t] = "mark" /\ new = "running" /\ next # "done"
           \/ pc[t] \in Terminal /\ new = pc[t] /\ next = "done",
           Update(t, new, next)
    PROVE  CalmInv'
<1> DEFINE r == First(todo[t])
<1>1. /\ status' = [status EXCEPT ![r] = new]
      /\ todo' = [todo EXCEPT ![t] = @ \ {r}]
      /\ pc' = IF todo[t] = {r} THEN [pc EXCEPT ![t] = next] ELSE pc
      /\ UNCHANGED <<rowVars, work, deltas, found, boundVars>>
    BY DEF Update
<1>2. /\ \A q \in RowsOf(t) : CalmRow(q) /\ owner[q] = t /\ q \in 1..rows /\ q \in Rows
      /\ found[t] # 0 => owner[found[t]] = t
      /\ status \in [Rows -> Open \cup Terminal]
      /\ todo \in [Rows -> SUBSET Rows]
      /\ pc \in [Rows -> {"none", "mark", "work", "dispatch", "await_202", "done"} \cup Terminal]
    BY CalmFacts
<1>3. todo[t] \in SUBSET Rows /\ todo[t] \subseteq RowsOf(t) /\ TaskInv(t) /\ JobInv(t)
    BY LifeFacts
<1>4. r \in todo[t] /\ r \in RowsOf(t) /\ owner[r] = t /\ CalmRow(r) /\ r \in Rows
    BY <1>2, <1>3, FirstIn DEF TaskInv
<1> HIDE DEF r
<1>5. /\ status[r] \in Open /\ deltas[t] = {} /\ found[t] = 0 /\ work[t] # "running"
      /\ Unfinished(t)
    BY <1>3, <1>4 DEF CalmRow, TaskInv, JobInv, Terminal, Unfinished
<1>6. \A q \in 1..rows : owner[q] # t => status'[q] = status[q]
    BY <1>1, <1>2, <1>4
<1>7. \A q \in Rows : status'[q] \in Open => status[q] \in Open
    BY <1>1, <1>2, <1>5
<1>8. ASSUME NEW q \in RowsOf(t) PROVE CalmRow(q)'
    <2>1. CalmRow(q) /\ owner[q] = t /\ q \in Rows
        BY <1>2
    <2>2. status'[q] = IF q = r THEN new ELSE status[q]
        BY <1>1, <1>2, <2>1
    <2>3. /\ owner' = owner /\ work'[t] = work[t] /\ deltas'[t] = deltas[t]
          /\ found'[t] = found[t] /\ kind' = kind
          /\ todo'[t] = todo[t] \ {r} /\ pc'[t] \in {pc[t], next}
        BY <1>1, <1>2 DEF rowVars
    <2>6. q # 0
        BY <1>2, LifeFacts
    <2>4. CASE pc[t] = "mark" /\ new = "running" /\ next # "done"
        <3>1. status'[q] \in Open
            BY <2>1, <2>2, <2>4 DEF CalmRow, Open
        <3>2. status'[q] \notin {"succeeded", "failed"}
            BY <3>1 DEF Open
        <3>3. pc'[t] \notin Terminal
            BY <2>3, <2>4 DEF Terminal
        <3> QED BY <2>1, <2>3, <3>1, <3>2, <3>3 DEF CalmRow
    <2>5. CASE pc[t] \in Terminal /\ new = pc[t] /\ next = "done"
        <3>1. pc[t] = "succeeded" => work[t] = "succeeded"
            BY <1>3 DEF TaskInv
        <3>2. work[t] \in {pc[t], "none"}
            BY <2>1, <2>5 DEF CalmRow
        <3>3. pc'[t] \notin {"mark", "work", "dispatch"}
            BY <2>3, <2>5 DEF Terminal
        <3>4. pc'[t] \in Terminal => pc'[t] = pc[t]
            BY <2>3, <2>5 DEF Terminal
        <3>5. pc[t] = "succeeded" \/ pc[t] = "failed"
            BY <2>5 DEF Terminal
        <3>6. CASE q = r
            <4>1. status'[q] = pc[t] /\ q \notin todo'[t]
                BY <2>2, <2>3, <2>5, <3>6
            <4>2. /\ status'[q] = "succeeded" => work'[t] = "succeeded"
                  /\ status'[q] = "failed" => work'[t] \in {"failed", "none"}
                BY <2>3, <3>1, <3>2, <4>1
            <4> QED
                BY <1>5, <2>1, <2>3, <2>6, <3>2, <3>3, <3>4, <4>1, <4>2 DEF CalmRow
        <3>7. CASE q # r
            BY <1>5, <2>1, <2>2, <2>3, <2>5, <3>3, <3>4, <3>7 DEF CalmRow
        <3> QED BY <3>6, <3>7
    <2> QED BY <2>4, <2>5
<1>9. \A u \in Rows \ {t} : pc'[u] = pc[u] /\ todo'[u] = todo[u]
    BY <1>1, <1>2
<1>10. \A q \in 1..rows : q \in Rows
    BY LifeFacts
<1> QED
    BY <1>1, <1>2, <1>5, <1>6, <1>7, <1>8, <1>9, <1>10, CalmFrame

\* The work of a task begins, ends or is given up: its rows are all open.
LEMMA CalmWork ==
    ASSUME LifeInv, CalmInv, Calm, Calm', NEW t \in Rows,
           LocalWork(t) \/ AgentAccepts(t) \/ DispatchRaises(t) \/ AgentFinishes(t)
    PROVE  CalmInv'
<1>1. /\ \A q \in RowsOf(t) : CalmRow(q) /\ owner[q] = t /\ q \in 1..rows /\ q \in Rows
      /\ found[t] # 0 => owner[found[t]] = t
      /\ todo \in [Rows -> SUBSET Rows] /\ deltas \in [Rows -> SUBSET Deckies]
      /\ pc \in [Rows -> {"none", "mark", "work", "dispatch", "await_202", "done"} \cup Terminal]
      /\ work \in [Rows -> {"none", "running", "dead"} \cup Terminal]
    BY CalmFacts
<1>2. TaskInv(t) /\ JobInv(t)
    BY LifeFacts
<1>3. /\ UNCHANGED <<rowVars, status, found>>
      /\ pc[t] \in {"work", "dispatch"} \/ work[t] = "running"
    BY DEF LocalWork, AgentAccepts, DispatchRaises, AgentFinishes, Calm
<1>4. \A q \in RowsOf(t) : status[q] \in Open
    BY <1>1, <1>3 DEF CalmRow
<1>5. deltas[t] = {} /\ found[t] = 0 /\ Unfinished(t)
    BY <1>2, <1>3 DEF TaskInv, JobInv, Terminal, Unfinished
<1>6. \A u \in Rows \ {t} : /\ pc'[u] = pc[u] /\ todo'[u] = todo[u] /\ work'[u] = work[u]
                            /\ deltas'[u] = deltas[u]
    BY <1>1 DEF LocalWork, AgentAccepts, DispatchRaises, AgentFinishes
<1>7. pc'[t] \in Terminal => work'[t] \in {pc'[t], "none"} /\ deltas'[t] = {} /\ found'[t] = 0
    <2>1. CASE LocalWork(t)
        <3>1. PICK outcome \in Terminal :
                 work' = [work EXCEPT ![t] = outcome] /\ pc' = [pc EXCEPT ![t] = outcome]
            BY <2>1 DEF LocalWork
        <3> QED BY <1>1, <1>5, <2>1, <3>1 DEF LocalWork
    <2>2. CASE AgentAccepts(t)
        BY <1>1, <2>2 DEF AgentAccepts, Terminal
    <2>3. CASE DispatchRaises(t)
        BY <1>1, <1>2, <1>5, <2>3 DEF DispatchRaises, Calm, TaskInv
    <2>4. CASE AgentFinishes(t)
        <3>1. pc'[t] = pc[t] /\ work[t] = "running"
            BY <2>4 DEF AgentFinishes
        <3>2. pc[t] # "succeeded"
            BY <1>2, <3>1 DEF TaskInv
        <3>3. pc[t] = "failed" => FALSE
            <4>1. SUFFICES ASSUME pc[t] = "failed" PROVE FALSE
                OBVIOUS
            <4>2. PICK q \in RowsOf(t) : TRUE
                BY <1>2, <4>1 DEF TaskInv, Terminal
            <4> QED BY <1>1, <3>1, <4>1, <4>2 DEF CalmRow, Terminal
        <3> QED BY <3>1, <3>2, <3>3 DEF Terminal
    <2> QED BY <2>1, <2>2, <2>3, <2>4
<1>8. ASSUME NEW q \in RowsOf(t) PROVE CalmRow(q)'
    <2>1. owner'[q] = t /\ status'[q] \in Open
        BY <1>1, <1>3, <1>4 DEF rowVars
    <2>2. status'[q] \notin {"succeeded", "failed"}
        BY <2>1 DEF Open
    <2> QED BY <1>7, <2>1, <2>2 DEF CalmRow
<1> QED
    BY <1>3, <1>5, <1>6, <1>8, CalmFrame

LEMMA CalmAccepted ==
    ASSUME LifeInv, CalmInv, Calm, NEW t \in Rows, Accepted(t)
    PROVE  CalmInv'
<1>1. /\ \A q \in RowsOf(t) : CalmRow(q) /\ owner[q] = t
      /\ found[t] # 0 => owner[found[t]] = t
      /\ pc \in [Rows -> {"none", "mark", "work", "dispatch", "await_202", "done"} \cup Terminal]
    BY CalmFacts
<1>2. /\ pc' = [pc EXCEPT ![t] = "done"]
      /\ UNCHANGED <<rowVars, status, todo, work, deltas, found, boundVars>>
    BY DEF Accepted
<1>3. pc'[t] = "done" /\ Unfinished(t) /\ \A u \in Rows \ {t} : pc'[u] = pc[u]
    BY <1>1, <1>2 DEF Accepted, Unfinished
<1>4. \A q \in RowsOf(t) : CalmRow(q)'
    BY <1>1, <1>2, <1>3 DEF CalmRow, rowVars, Terminal
<1> QED
    BY <1>1, <1>2, <1>3, <1>4, CalmFrame

\* A task that update_lifecycle leaves in the lurch, and deltas that are dropped.
LEMMA CalmTaskRaises ==
    ASSUME LifeInv, CalmInv, Calm, NEW t \in Rows, TaskRaises(t)
    PROVE  CalmInv'
<1>1. /\ \A q \in RowsOf(t) : CalmRow(q) /\ owner[q] = t
      /\ found[t] # 0 => owner[found[t]] = t
      /\ pc \in [Rows -> {"none", "mark", "work", "dispatch", "await_202", "done"} \cup Terminal]
      /\ todo \in [Rows -> SUBSET Rows]
    BY CalmFacts
<1>2. /\ pc[t] \in {"mark"} \cup Terminal
      /\ pc' = [pc EXCEPT ![t] = "done"]
      /\ todo' = [todo EXCEPT ![t] = {}]
      /\ UNCHANGED <<rowVars, status, work, deltas, found>>
    BY DEF TaskRaises
<1>3. /\ pc'[t] = "done" /\ Unfinished(t)
      /\ \A u \in Rows \ {t} : pc'[u] = pc[u] /\ todo'[u] = todo[u]
    BY <1>1, <1>2 DEF Unfinished, Terminal
<1>4. \A q \in RowsOf(t) : CalmRow(q)'
    BY <1>1, <1>2, <1>3 DEF CalmRow, rowVars, Terminal
<1> QED
    BY <1>1, <1>2, <1>3, <1>4, CalmFrame

LEMMA CalmDeltaRaises ==
    ASSUME LifeInv, CalmInv, Calm, NEW t \in Rows, DeltaRaises(t)
    PROVE  CalmInv'
<1>1. /\ \A q \in RowsOf(t) : CalmRow(q) /\ owner[q] = t
      /\ deltas \in [Rows -> SUBSET Deckies] /\ found \in [Rows -> 0..MaxRows]
    BY CalmFacts
<1>2. UNCHANGED <<rowVars, status, pc, todo, work>>
    BY DEF DeltaRaises
<1>3. /\ deltas'[t] \subseteq deltas[t] /\ found'[t] = 0 /\ Unfinished(t)
      /\ \A u \in Rows \ {t} : found'[u] = found[u] /\ deltas'[u] = deltas[u]
    <2>1. CASE found[t] = 0 /\ found' = found
        <3>1. PICK d \in deltas[t] : deltas' = [deltas EXCEPT ![t] = @ \ {d}]
            BY <2>1 DEF DeltaRaises
        <3> QED BY <1>1, <2>1, <3>1 DEF Unfinished
    <2>2. CASE found[t] # 0 /\ found' = [found EXCEPT ![t] = 0] /\ deltas' = deltas
        BY <1>1, <2>2 DEF Unfinished
    <2> QED BY <2>1, <2>2 DEF DeltaRaises
<1>4. ASSUME NEW q \in RowsOf(t) PROVE CalmRow(q)'
    <2>1. CalmRow(q) /\ owner[q] = t /\ owner'[q] = t /\ kind'[q] = kind[q] /\ status'[q] = status[q]
        BY <1>1, <1>2 DEF rowVars
    <2>2. found'[t] # q
        BY <1>3, LifeFacts DEF RowsOf
    <2> QED BY <1>2, <1>3, <2>1, <2>2 DEF CalmRow
<1> QED
    BY <1>2, <1>3, <1>4, CalmFrame

\* find_open_lifecycle finds a row of the delta's own request.
LEMMA CalmFindOpen ==
    ASSUME LifeInv, CalmInv, Calm, NEW t \in Rows, FindOpen(t)
    PROVE  CalmInv'
<1>1. /\ \A q \in RowsOf(t) : CalmRow(q) /\ owner[q] = t /\ q \in 1..rows /\ q \in Rows
      /\ OwnRows
      /\ deltas \in [Rows -> SUBSET Deckies] /\ found \in [Rows -> 0..MaxRows]
    BY CalmFacts
<1>2. PICK d \in deltas[t], l \in 0..MaxRows :
        /\ deltas' = [deltas EXCEPT ![t] = @ \ {d}]
        /\ found' = [found EXCEPT ![t] = l]
        /\ l # 0 => /\ l \in 1..rows /\ status[l] \in Open
                    /\ kind[l] = [decky |-> d, op |-> kind[t].op]
    BY FindOpenFacts
<1>3. found[t] = 0 /\ UNCHANGED <<rowVars, status, pc, todo, work, boundVars>>
    BY FindOpenFacts
<1>4. Unfinished(t) /\ d \in sent[t] /\ JobInv(t)
    BY <1>2, LifeFacts DEF JobInv, Unfinished
<1>5. t \in 1..rows
    <2>1. t \in Nat /\ 1 <= t /\ rows \in Nat
        BY LifeFacts DEF Rows
    <2>2. ~(t > rows)
        BY <1>4 DEF LifeInv, RowInv
    <2> QED BY <2>1, <2>2
<1>6. l # 0 => owner[l] = t
    BY <1>1, <1>2, <1>4, <1>5 DEF OwnRows
<1>7. /\ found'[t] = l /\ deltas'[t] = deltas[t] \ {d}
      /\ \A u \in Rows \ {t} : found'[u] = found[u] /\ deltas'[u] = deltas[u]
    BY <1>1, <1>2
<1>8. ASSUME NEW q \in RowsOf(t) PROVE CalmRow(q)'
    <2>1. /\ CalmRow(q) /\ owner[q] = t /\ owner'[q] = t /\ kind'[q] = kind[q]
          /\ status'[q] = status[q] /\ q # 0
        BY <1>1, <1>3, LifeFacts DEF rowVars
    <2>2. found'[t] = q => status[q] \in Open
        BY <1>2, <1>7, <2>1
    <2>3. pc[t] \notin Terminal
        BY <1>2, <2>1 DEF CalmRow
    <2> QED BY <1>3, <1>7, <2>1, <2>2, <2>3 DEF CalmRow
<1> QED
    BY <1>3, <1>4, <1>6, <1>7, <1>8, CalmFrame

LEMMA CalmApplyDelta ==
    ASSUME LifeInv, CalmInv, Calm, NEW t \in Rows, ApplyDelta(t)
    PROVE  CalmInv'
<1>0. PICK f : f = found[t]
    OBVIOUS
<1>1. /\ \A q \in RowsOf(t) : CalmRow(q) /\ owner[q] = t /\ q \in 1..rows /\ q \in Rows
      /\ found[t] # 0 => owner[found[t]] = t
      /\ status \in [Rows -> Open \cup Terminal]
      /\ found \in [Rows -> 0..MaxRows]
    BY CalmFacts
<1>2. /\ f # 0
      /\ status' = [status EXCEPT ![f] = work[t]]
      /\ found' = [found EXCEPT ![t] = 0]
      /\ UNCHANGED <<rowVars, pc, todo, work, deltas, boundVars>>
    BY <1>0 DEF ApplyDelta
<1>3. TaskInv(t) /\ JobInv(t) /\ \A q \in 1..rows : q \in Rows /\ q # 0
    BY LifeFacts
<1>4. /\ work[t] \in Terminal /\ f \in 1..rows /\ owner[f] = t /\ Unfinished(t)
      /\ kind[f].decky \notin deltas[t]
    BY <1>0, <1>1, <1>2, <1>3 DEF JobInv, Unfinished
<1>5. f \in RowsOf(t) /\ f \in Rows
    BY <1>3, <1>4 DEF RowsOf
<1>7. status[f] \in Open /\ pc[t] \notin Terminal \cup {"none", "mark", "work", "dispatch"}
    <2>1. CalmRow(f) /\ owner[f] = t
        BY <1>1, <1>5
    <2>2. status[f] \in Open /\ pc[t] \notin Terminal
        BY <1>0, <1>2, <2>1 DEF CalmRow
    <2> QED BY <1>3, <1>4, <2>2 DEF TaskInv, Terminal
<1>8. \A q \in 1..rows : owner[q] # t => status'[q] = status[q]
    BY <1>1, <1>2, <1>3, <1>4
<1>9. \A q \in 1..rows : status'[q] \in Open => status[q] \in Open
    BY <1>1, <1>2, <1>3, <1>7
<1>10. ASSUME NEW q \in RowsOf(t) PROVE CalmRow(q)'
    <2>1. CalmRow(q) /\ owner[q] = t /\ owner'[q] = t /\ kind'[q] = kind[q] /\ q \in Rows /\ q # 0
        BY <1>1, <1>2, <1>3 DEF rowVars
    <2>2. /\ deltas'[t] = deltas[t] /\ pc'[t] = pc[t] /\ work'[t] = work[t] /\ found'[t] = 0
          /\ status'[q] = IF q = f THEN work[t] ELSE status[q]
        BY <1>1, <1>2, <2>1
    <2>3. work[t] = "succeeded" \/ work[t] = "failed"
        BY <1>4 DEF Terminal
    <2> QED BY <1>4, <1>7, <2>1, <2>2, <2>3 DEF CalmRow
<1>11. found'[t] = 0 /\ \A u \in Rows \ {t} : found'[u] = found[u]
    BY <1>1, <1>2
<1> QED
    BY <1>2, <1>4, <1>8, <1>9, <1>10, <1>11, CalmFrame

LEMMA CalmRequest ==
    ASSUME LifeInv, CalmInv, Calm, Calm', NEW op \in Operations, NEW config \in SUBSET Deckies,
           NEW names \in Batches(op), \A i \in 1..Len(names) : names[i] \in config,
           NewTask(names, op, config)
    PROVE  CalmInv'
<1>0. rows \in Nat /\ MaxRows \in Nat /\ rows <= MaxRows
    BY DeckyLifecycleAssumption DEF LifeInv, TypeOK
<1>1. /\ rows' \in {rows + 1, rows + 2} /\ rows' <= MaxRows /\ rows + 1 \in Rows
      /\ \A r \in Rows : r \in (rows + 1)..rows' =>
           kind'[r].op = op /\ kind'[r].decky \in config /\ owner'[r] = rows + 1
      /\ \A r \in Rows : r \notin (rows + 1)..rows' => kind'[r] = kind[r] /\ owner'[r] = owner[r]
      /\ pc' = [pc EXCEPT ![rows + 1] = "mark"]
      /\ todo' = [todo EXCEPT ![rows + 1] = (rows + 1)..rows']
      /\ sent' = [sent EXCEPT ![rows + 1] = config]
      /\ UNCHANGED <<status, work, deltas, found>>
    BY RequestFacts
<1>2. /\ \A r \in 1..rows' : r \in 1..rows \/ r \in (rows + 1)..rows'
      /\ \A r \in 1..rows : r \in Rows /\ r \notin (rows + 1)..rows' /\ r # rows + 1
      /\ \A r \in (rows + 1)..rows' : r \in Rows /\ r > rows
      /\ rows + 1 \in (rows + 1)..rows'
    BY <1>0, <1>1 DEF Rows
<1>3. ~Overlaps(op, config)
    BY DEF NewTask, Calm
<1>4. \A r \in (rows + 1)..rows' : status[r] = "pending" /\ sent[r] = {}
    BY <1>2 DEF LifeInv, RowInv
<1>5. /\ OwnRows
      /\ \A r \in 1..rows : CalmRow(r)
      /\ \A u \in Rows : found[u] # 0 => owner[found[u]] = u
    BY DEF CalmInv
<1>8. /\ pc \in [Rows -> {"none", "mark", "work", "dispatch", "await_202", "done"} \cup Terminal]
      /\ todo \in [Rows -> SUBSET Rows] /\ sent \in [Rows -> SUBSET Deckies]
    BY DEF LifeInv, TypeOK
<1>6. ASSUME NEW u \in 1..rows', NEW r \in 1..rows', Unfinished(u)', status'[r] \in Open,
             kind'[r].op = kind'[u].op, kind'[r].decky \in sent'[u]
      PROVE  owner'[r] = u
    <2>1. u \in Rows /\ r \in Rows
        BY <1>2
    <2>2. CASE u \in 1..rows
        <3>1. sent'[u] = sent[u] /\ pc'[u] = pc[u] /\ kind'[u] = kind[u]
            BY <1>1, <1>2, <1>8, <2>1, <2>2
        <3>2. Unfinished(u)
            BY <1>1, <1>6, <3>1 DEF Unfinished
        <3>3. CASE r \in 1..rows
            <4>1. kind'[r] = kind[r] /\ owner'[r] = owner[r]
                BY <1>1, <1>2, <3>3
            <4> QED BY <1>1, <1>5, <1>6, <2>2, <3>1, <3>2, <3>3, <4>1 DEF OwnRows
        <3>4. CASE r \in (rows + 1)..rows'
            <4>1. kind'[r].op = op /\ kind'[r].decky \in config
                BY <1>1, <2>1, <3>4
            <4>2. kind[u].op = op /\ sent[u] \cap config # {}
                BY <1>6, <3>1, <4>1
            <4> QED BY <1>3, <2>2, <3>2, <4>2 DEF Overlaps
        <3> QED BY <1>2, <3>3, <3>4
    <2>3. CASE u = rows + 1
        <3>1. sent'[u] = config /\ kind'[u].op = op
            BY <1>1, <1>2, <1>8, <2>1, <2>3
        <3>2. CASE r \in 1..rows
            <4>1. kind'[r] = kind[r]
                BY <1>1, <1>2, <3>2
            <4> QED BY <1>1, <1>3, <1>6, <3>1, <3>2, <4>1 DEF Overlaps
        <3>3. CASE r \in (rows + 1)..rows'
            BY <1>1, <2>1, <2>3, <3>3
        <3> QED BY <1>2, <3>2, <3>3
    <2>4. CASE u \in (rows + 1)..rows' /\ u # rows + 1
        <3>1. sent'[u] = {}
            BY <1>1, <1>4, <1>8, <2>1, <2>4
        <3> QED BY <1>6, <3>1
    <2> QED BY <1>2, <2>2, <2>3, <2>4
<1>7. /\ pc[rows + 1] = "none" /\ work[rows + 1] = "none" /\ deltas[rows + 1] = {}
      /\ found[rows + 1] = 0
    BY <1>0, <1>1 DEF LifeInv, TaskInv, JobInv, Terminal
<1>9. ASSUME NEW r \in 1..rows' PROVE CalmRow(r)'
    <2>1. CASE r \in 1..rows
        <3>1. owner'[r] = owner[r] /\ kind'[r] = kind[r] /\ owner[r] \in 1..rows /\ CalmRow(r)
            BY <1>1, <1>2, <1>5, <2>1 DEF LifeInv, RowInv
        <3>2. owner[r] # rows + 1 /\ owner[r] \in Rows
            BY <1>0, <1>2, <3>1
        <3>3. pc'[owner[r]] = pc[owner[r]] /\ todo'[owner[r]] = todo[owner[r]]
            BY <1>1, <1>8, <3>2
        <3> QED BY <1>1, <3>1, <3>3 DEF CalmRow
    <2>2. CASE r \in (rows + 1)..rows'
        <3>1. owner'[r] = rows + 1 /\ status'[r] = "pending" /\ pc'[rows + 1] = "mark"
            BY <1>1, <1>2, <1>4, <1>8, <2>2
        <3>2. status'[r] \in Open
            BY <3>1 DEF Open
        <3> QED BY <1>1, <1>7, <3>1, <3>2 DEF CalmRow, Terminal
    <2> QED BY <1>2, <2>1, <2>2
<1>10. \A u \in Rows : found'[u] # 0 => owner'[found'[u]] = u
    <2>1. \A u \in Rows : found[u] # 0 => found[u] \in 1..rows
        BY DEF LifeInv, JobInv
    <2> QED BY <1>1, <1>2, <1>5, <2>1
<1>11. OwnRows'
    BY <1>6 DEF OwnRows
<1> QED
    BY <1>9, <1>10, <1>11 DEF CalmInv

LEMMA CalmNext ==
    ASSUME LifeInv, CalmInv, [Next]_vars
    PROVE  CalmInv'
<1>1. SUFFICES ASSUME Calm' PROVE CalmInv'
    BY DEF CalmInv
<1>2. CASE UNCHANGED vars
    BY <1>2 DEF vars, rowVars, boundVars, CalmInv, CalmRow, Calm, OwnRows, Unfinished
<1>3. CASE ApiRestarts \/ AgentDies
    <2>1. crashes \in Nat /\ crashes' = crashes + 1
        BY <1>3, DeckyLifecycleAssumption DEF ApiRestarts, AgentDies, LifeInv, TypeOK
    <2> QED BY <1>1, <2>1 DEF Calm
<1>4. CASE \/ \E names \in Batches("deploy"), replace \in BOOLEAN : Deploy(names, replace)
           \/ \E d \in Deckies : Mutate(d)
    <2>1. PICK op \in Operations, config \in SUBSET Deckies : \E names \in Batches(op) :
             /\ \A i \in 1..Len(names) : names[i] \in config
             /\ NewTask(names, op, config)
        BY <1>4, RequestTask
    <2>2. PICK names \in Batches(op) : /\ \A i \in 1..Len(names) : names[i] \in config
                                      /\ NewTask(names, op, config)
        BY <2>1
    <2>3. Calm
        BY <1>1, <2>2 DEF Calm, NewTask
    <2> QED BY <1>1, <2>2, <2>3, CalmRequest
<1>5. ASSUME NEW t \in Rows, MarkRunning(t) PROVE CalmInv'
    <2>1. pc[t] = "mark" /\ Update(t, "running", IF ~swarm THEN "work" ELSE "dispatch")
        BY <1>5 DEF MarkRunning
    <2>2. Calm
        BY <1>1, <2>1 DEF Calm, Update, boundVars
    <2>3. CASE ~swarm
        BY <2>1, <2>2, <2>3, CalmUpdate
    <2>4. CASE swarm
        BY <2>1, <2>2, <2>4, CalmUpdate
    <2> QED BY <2>3, <2>4
<1>6. ASSUME NEW t \in Rows, Seal(t) PROVE CalmInv'
    <2>1. pc[t] \in Terminal /\ Update(t, pc[t], "done")
        BY <1>6 DEF Seal
    <2>2. Calm
        BY <1>1, <2>1 DEF Calm, Update, boundVars
    <2> QED BY <2>1, <2>2, CalmUpdate
<1>7. ASSUME NEW t \in Rows,
             LocalWork(t) \/ AgentAccepts(t) \/ DispatchRaises(t) \/ AgentFinishes(t)
      PROVE  CalmInv'
    <2>1. Calm
        <3>1. CASE DispatchRaises(t)
            BY <1>1, <3>1, Zenon DEF Calm, DispatchRaises
        <3>2. CASE LocalWork(t) \/ AgentAccepts(t) \/ AgentFinishes(t)
            BY <1>1, <3>2 DEF Calm, LocalWork, AgentAccepts, AgentFinishes, boundVars
        <3> QED BY <1>7, <3>1, <3>2
    <2> QED BY <1>1, <1>7, <2>1, CalmWork
<1>8. ASSUME NEW t \in Rows, \/ Accepted(t) \/ TaskRaises(t)
                              \/ FindOpen(t) \/ ApplyDelta(t) \/ DeltaRaises(t)
      PROVE  CalmInv'
    <2>1. Calm
        BY <1>1, <1>8 DEF Calm, Accepted, TaskRaises, FindOpen, ApplyDelta, DeltaRaises, boundVars
    <2> QED BY <1>8, <2>1, CalmAccepted, CalmTaskRaises, CalmFindOpen, CalmApplyDelta,
               CalmDeltaRaises
<1> QED
    BY <1>2, <1>3, <1>4, <1>5, <1>6, <1>7, <1>8 DEF Next, Task, Heartbeat

\* "master pivots them onto the matching open DeckyLifecycle rows": while no
\* requests overlap (share a decky of their configurations) and nothing crashes or
\* times out late, a row ends as its own attempt did, for any number of rows and
\* deckies and whatever database calls raise.
THEOREM OutcomeMatchesAttemptTheorem == Spec => []OutcomeMatchesAttempt
<1>1. Init => CalmInv
    BY DEF Init, CalmInv, CalmRow, OwnRows
<1>2. LifeInv /\ CalmInv /\ [Next]_vars => CalmInv'
    BY CalmNext
<1>3. CalmInv => OutcomeMatchesAttempt
    BY DEF CalmInv, CalmRow, OutcomeMatchesAttempt
<1> QED BY <1>1, <1>2, <1>3, LifeInvariant, PTL DEF Spec

\* Counting: every row that shows a success keeps its payer ...
LEMMA CountSame ==
    ASSUME NEW A, NEW B, NEW A1 \in SUBSET A, NEW B1, IsFiniteSet(A), IsFiniteSet(B1),
           B \subseteq B1, Cardinality(A) <= Cardinality(B)
    PROVE  Cardinality(A1) <= Cardinality(B1)
<1>1. IsFiniteSet(B) /\ Cardinality(B) <= Cardinality(B1)
    BY FS_Subset
<1>2. IsFiniteSet(A1) /\ Cardinality(A1) <= Cardinality(A)
    BY FS_Subset
<1>3. /\ Cardinality(A) \in Nat /\ Cardinality(B) \in Nat
      /\ Cardinality(A1) \in Nat /\ Cardinality(B1) \in Nat
    BY <1>1, <1>2, FS_CardinalityType
<1> QED BY <1>1, <1>2, <1>3

\* ... and one more success comes with one more payer.
LEMMA CountOneMore ==
    ASSUME NEW A, NEW B, NEW a, NEW b, NEW A1 \in SUBSET (A \cup {a}), NEW B1,
           IsFiniteSet(A), IsFiniteSet(B1), b \notin B, B \cup {b} \subseteq B1,
           Cardinality(A) <= Cardinality(B)
    PROVE  Cardinality(A1) <= Cardinality(B1)
<1>0. IsFiniteSet(B)
    BY FS_Subset
<1>1. /\ IsFiniteSet(A \cup {a})
      /\ Cardinality(A \cup {a}) = IF a \in A THEN Cardinality(A) ELSE Cardinality(A) + 1
    BY FS_AddElement
<1>2. /\ IsFiniteSet(B \cup {b})
      /\ Cardinality(B \cup {b}) = Cardinality(B) + 1
    BY <1>0, FS_AddElement
<1>3. Cardinality(A) \in Nat /\ Cardinality(B) \in Nat
    BY <1>0, FS_CardinalityType
<1>4. Cardinality(A \cup {a}) <= Cardinality(B \cup {b})
    BY <1>1, <1>2, <1>3
<1> QED BY <1>1, <1>2, <1>4, CountSame

\* A success that is spent stays spent: a step may use up deltas and rows to
\* seal, never the outcome of an attempt.
KeepsSpent ==
    /\ 1..rows \subseteq 1..rows'
    /\ \A r \in 1..rows : kind'[r] = kind[r] /\ sent'[r] = sent[r]
    /\ \A u \in 1..rows :
         work[u] = "succeeded" =>
           /\ work'[u] = "succeeded" /\ deltas'[u] \subseteq deltas[u]
           /\ found'[u] # 0 => /\ found'[u] \in 1..rows
                               /\ found'[u] = found[u] \/ kind[found'[u]].decky \in deltas[u]
           /\ pc'[u] = "succeeded" => pc[u] = "succeeded" /\ todo'[u] \subseteq todo[u]

LEMMA SpentGrows ==
    ASSUME LifeInv, KeepsSpent, NEW k
    PROVE  Spent(k) \subseteq Spent(k)'
<1>1. SUFFICES ASSUME NEW u \in Spent(k) PROVE u \in Spent(k)'
    OBVIOUS
<1>2. /\ u \in 1..rows /\ kind[u].op = k.op /\ k.decky \in sent[u] /\ work[u] = "succeeded"
      /\ k.decky \notin deltas[u]
      /\ ~(found[u] # 0 /\ kind[found[u]] = k)
      /\ ~(pc[u] = "succeeded" /\ \E r \in todo[u] : kind[r] = k)
    BY DEF Spent
<1>3. /\ u \in 1..rows' /\ kind'[u] = kind[u] /\ sent'[u] = sent[u]
      /\ work'[u] = "succeeded" /\ k.decky \notin deltas'[u]
    BY <1>2 DEF KeepsSpent
<1>4. ~(found'[u] # 0 /\ kind'[found'[u]] = k)
    <2>1. SUFFICES ASSUME found'[u] # 0, kind'[found'[u]] = k PROVE FALSE
        OBVIOUS
    <2>2. /\ found'[u] \in 1..rows /\ kind'[found'[u]] = kind[found'[u]]
          /\ found'[u] = found[u] \/ kind[found'[u]].decky \in deltas[u]
        BY <1>2, <2>1 DEF KeepsSpent
    <2> QED BY <1>2, <2>1, <2>2
<1>5. ~(pc'[u] = "succeeded" /\ \E r \in todo'[u] : kind'[r] = k)
    <2>1. pc'[u] = "succeeded" => pc[u] = "succeeded" /\ todo'[u] \subseteq todo[u]
        BY <1>2 DEF KeepsSpent
    <2>2. todo[u] \subseteq 1..rows
        <3>1. u \in Rows
            BY <1>2, DeckyLifecycleAssumption DEF LifeInv, TypeOK, Rows
        <3> QED BY <3>1 DEF LifeInv, TaskInv, RowsOf
    <2>3. \A r \in todo[u] : kind'[r] = kind[r]
        BY <2>2 DEF KeepsSpent
    <2> QED BY <1>2, <2>1, <2>3
<1> QED
    BY <1>2, <1>3, <1>4, <1>5 DEF Spent

LEMMA CountedFinite ==
    ASSUME LifeInv, NEW k
    PROVE  IsFiniteSet(Succeeded(k)) /\ IsFiniteSet(Spent(k))
<1>1. rows \in Int
    BY DeckyLifecycleAssumption DEF LifeInv, TypeOK
<1>2. IsFiniteSet(1..rows)
    BY <1>1, FS_Interval
<1> QED
    BY <1>2, FS_Subset DEF Succeeded, Spent

\* A step that shows no new success.
LEMMA PaidQuiet ==
    ASSUME LifeInv, LifeInv', PaidInv, KeepsSpent,
           \A r \in 1..rows' : status'[r] = "succeeded" => r \in 1..rows /\ status[r] = "succeeded"
    PROVE  PaidInv'
<1>1. SUFFICES ASSUME NEW k \in Kinds PROVE Cardinality(Succeeded(k)') <= Cardinality(Spent(k)')
    BY DEF PaidInv
<1>2. Succeeded(k)' \in SUBSET Succeeded(k)
    BY DEF Succeeded, KeepsSpent
<1>3. Spent(k) \subseteq Spent(k)'
    BY SpentGrows
<1>4. IsFiniteSet(Succeeded(k)) /\ IsFiniteSet(Spent(k)')
    <2>1. rows' \in Int
        BY DeckyLifecycleAssumption DEF LifeInv, TypeOK
    <2>2. IsFiniteSet(1..rows')
        BY <2>1, FS_Interval
    <2>3. IsFiniteSet(Spent(k)')
        BY <2>2, FS_Subset DEF Spent
    <2> QED BY <2>3, CountedFinite
<1>5. Cardinality(Succeeded(k)) <= Cardinality(Spent(k))
    BY DEF PaidInv
<1> QED BY <1>2, <1>3, <1>4, <1>5, CountSame

\* A step that shows one: row a, paid for by attempt b.
LEMMA PaidOnce ==
    ASSUME LifeInv, LifeInv', PaidInv, KeepsSpent, rows' = rows,
           NEW a \in 1..rows, NEW b,
           \A r \in 1..rows : r # a /\ status'[r] = "succeeded" => status[r] = "succeeded",
           b \notin Spent(kind[a]), b \in Spent(kind[a])'
    PROVE  PaidInv'
<1>1. SUFFICES ASSUME NEW k \in Kinds PROVE Cardinality(Succeeded(k)') <= Cardinality(Spent(k)')
    BY DEF PaidInv
<1>2. Spent(k) \subseteq Spent(k)'
    BY SpentGrows
<1>3. IsFiniteSet(Succeeded(k)) /\ IsFiniteSet(Spent(k)')
    <2>1. rows' \in Int
        BY DeckyLifecycleAssumption DEF LifeInv, TypeOK
    <2>2. IsFiniteSet(1..rows')
        BY <2>1, FS_Interval
    <2>3. IsFiniteSet(Spent(k)')
        BY <2>2, FS_Subset DEF Spent
    <2> QED BY <2>3, CountedFinite
<1>4. Cardinality(Succeeded(k)) <= Cardinality(Spent(k))
    BY DEF PaidInv
<1>5. CASE k = kind[a]
    <2>1. Succeeded(k)' \in SUBSET (Succeeded(k) \cup {a})
        BY DEF Succeeded, KeepsSpent
    <2>2. b \notin Spent(k) /\ b \in Spent(k)'
        <3>1. kind'[a] = kind[a]
            BY DEF KeepsSpent
        <3>2. b \in Spent(k)'
            BY <1>5, <3>1 DEF Spent
        <3> QED BY <1>5, <3>2
    <2> QED BY <1>2, <1>3, <1>4, <2>1, <2>2, CountOneMore
<1>6. CASE k # kind[a]
    <2>1. Succeeded(k)' \in SUBSET Succeeded(k)
        BY <1>6 DEF Succeeded, KeepsSpent
    <2> QED BY <1>2, <1>3, <1>4, <2>1, CountSame
<1> QED BY <1>5, <1>6

LEMMA PaidUpdate ==
    ASSUME LifeInv, LifeInv', PaidInv, NEW t \in Rows, NEW new, NEW next \in {"work", "dispatch", "done"},
           \/ pc[t] = "mark" /\ new = "running" /\ next # "done"
           \/ pc[t] \in Terminal /\ new = pc[t] /\ next = "done",
           Update(t, new, next)
    PROVE  PaidInv'
<1>0. PICK r : r = First(todo[t])
    OBVIOUS
<1>1. /\ status' = [status EXCEPT ![r] = new]
      /\ todo' = [todo EXCEPT ![t] = @ \ {r}]
      /\ pc' = IF todo[t] = {r} THEN [pc EXCEPT ![t] = next] ELSE pc
      /\ UNCHANGED <<rowVars, work, deltas, found, boundVars>>
    BY <1>0 DEF Update
<1>2. /\ todo[t] \in SUBSET Rows /\ todo[t] \subseteq RowsOf(t) /\ TaskInv(t)
      /\ RowsOf(t) \subseteq 1..rows /\ 1..rows \subseteq Rows
    BY LifeFacts
<1>3. r \in todo[t] /\ r \in 1..rows /\ owner[r] = t /\ t \in 1..rows
    <2>1. r \in todo[t]
        BY <1>0, <1>2, FirstIn DEF TaskInv
    <2>2. r \in 1..rows /\ owner[r] = t
        BY <1>2, <2>1 DEF RowsOf
    <2> QED BY <2>1, <2>2 DEF LifeInv, RowInv
<1>4. /\ status \in [Rows -> Open \cup Terminal] /\ todo \in [Rows -> SUBSET Rows]
      /\ pc \in [Rows -> {"none", "mark", "work", "dispatch", "await_202", "done"} \cup Terminal]
    BY DEF LifeInv, TypeOK
<1>5. \A u \in Rows : /\ todo'[u] \subseteq todo[u]
                      /\ pc'[u] = "succeeded" => pc[u] = "succeeded"
    BY <1>1, <1>4
<1>6. KeepsSpent
    <2>1. \A u \in Rows : found[u] # 0 => found[u] \in 1..rows
        BY DEF LifeInv, JobInv
    <2> QED BY <1>1, <1>2, <1>5, <2>1 DEF KeepsSpent, rowVars
<1>7. \A q \in 1..rows : q # r => status'[q] = status[q]
    BY <1>1, <1>2, <1>4
<1>8. status'[r] = new
    BY <1>1, <1>2, <1>3, <1>4
<1>9. CASE new = "succeeded"
    <2>1. pc[t] = "succeeded" /\ work[t] = "succeeded" /\ deltas[t] = {} /\ found[t] = 0
        BY <1>2, <1>9 DEF TaskInv
    <2>2. t \notin Spent(kind[r])
        BY <1>3, <2>1 DEF Spent
    <2>3. /\ todo'[t] = todo[t] \ {r} /\ work'[t] = "succeeded" /\ deltas'[t] = {}
          /\ found'[t] = 0 /\ rows' = rows /\ kind' = kind /\ sent' = sent
        BY <1>1, <1>3, <1>4, <2>1 DEF rowVars
    <2>4. \A q \in todo'[t] : kind[q] # kind[r]
        <3>1. \A q \in todo'[t] : q \in 1..rows /\ owner[q] = t /\ q # r
            BY <1>2, <2>3 DEF RowsOf
        <3> QED BY <1>3, <3>1 DEF LifeInv, RowInv
    <2>5. kind[t].op = kind[r].op /\ kind[r].decky \in sent[t]
        BY <1>3 DEF LifeInv, RowInv
    <2>6. t \in Spent(kind[r])'
        BY <1>3, <2>3, <2>4, <2>5 DEF Spent
    <2> QED BY <1>1, <1>3, <1>6, <1>7, <2>2, <2>6, PaidOnce DEF rowVars
<1>10. CASE new # "succeeded"
    <2>1. \A q \in 1..rows' : status'[q] = "succeeded" => q \in 1..rows /\ status[q] = "succeeded"
        BY <1>1, <1>7, <1>8, <1>10 DEF rowVars
    <2> QED BY <1>6, <2>1, PaidQuiet
<1> QED BY <1>9, <1>10

\* The steps that only move an attempt along; a dropped delta is spent.
LEMMA PaidStep ==
    ASSUME LifeInv, LifeInv', PaidInv, NEW t \in Rows,
           \/ LocalWork(t) \/ AgentAccepts(t) \/ Accepted(t)
           \/ DispatchRaises(t) \/ TaskRaises(t) \/ AgentFinishes(t)
    PROVE  PaidInv'
<1>1. UNCHANGED <<rowVars, status, found>>
    BY DEF LocalWork, AgentAccepts, Accepted, DispatchRaises, TaskRaises, AgentFinishes
<1>2. /\ todo \in [Rows -> SUBSET Rows] /\ deltas \in [Rows -> SUBSET Deckies]
      /\ pc \in [Rows -> {"none", "mark", "work", "dispatch", "await_202", "done"} \cup Terminal]
      /\ work \in [Rows -> {"none", "running", "dead"} \cup Terminal]
    BY DEF LifeInv, TypeOK
<1>3. TaskInv(t) /\ 1..rows \subseteq Rows
    BY LifeFacts
<1>4. \A u \in Rows \ {t} : /\ pc'[u] = pc[u] /\ todo'[u] = todo[u] /\ work'[u] = work[u]
                            /\ deltas'[u] = deltas[u]
    BY <1>2 DEF LocalWork, AgentAccepts, Accepted, DispatchRaises, TaskRaises, AgentFinishes
<1>5. work[t] = "succeeded" =>
        /\ work'[t] = "succeeded" /\ deltas'[t] \subseteq deltas[t]
        /\ pc'[t] = "succeeded" => pc[t] = "succeeded" /\ todo'[t] \subseteq todo[t]
    <2>1. CASE LocalWork(t) \/ AgentAccepts(t) \/ AgentFinishes(t)
        BY <1>3, <2>1 DEF LocalWork, AgentAccepts, AgentFinishes, TaskInv
    <2>2. CASE Accepted(t) \/ DispatchRaises(t) \/ TaskRaises(t)
        BY <1>2, <2>2 DEF Accepted, DispatchRaises, TaskRaises
    <2> QED BY <2>1, <2>2
<1>6. KeepsSpent
    <2>1. \A u \in Rows : found[u] # 0 => found[u] \in 1..rows
        BY DEF LifeInv, JobInv
    <2> QED BY <1>1, <1>3, <1>4, <1>5, <2>1 DEF KeepsSpent, rowVars
<1> QED BY <1>1, <1>6, PaidQuiet DEF rowVars

\* The look-up and a raising call of the handler.
LEMMA PaidLookUp ==
    ASSUME LifeInv, LifeInv', PaidInv, NEW t \in Rows, FindOpen(t) \/ DeltaRaises(t)
    PROVE  PaidInv'
<1>1. UNCHANGED <<rowVars, status, pc, todo, work>>
    BY DEF FindOpen, DeltaRaises
<1>2. found \in [Rows -> 0..MaxRows] /\ deltas \in [Rows -> SUBSET Deckies]
    BY DEF LifeInv, TypeOK
<1>3. /\ deltas'[t] \subseteq deltas[t]
      /\ found'[t] # 0 => found'[t] \in 1..rows /\ kind[found'[t]].decky \in deltas[t]
      /\ \A u \in Rows \ {t} : found'[u] = found[u] /\ deltas'[u] = deltas[u]
    <2>1. CASE FindOpen(t)
        <3>1. PICK d \in deltas[t], l \in 0..MaxRows :
                /\ deltas' = [deltas EXCEPT ![t] = @ \ {d}]
                /\ found' = [found EXCEPT ![t] = l]
                /\ l # 0 => l \in 1..rows /\ kind[l] = [decky |-> d, op |-> kind[t].op]
            BY <2>1, FindOpenFacts
        <3> QED BY <1>2, <3>1
    <2>2. CASE DeltaRaises(t)
        <3>1. CASE found[t] = 0 /\ found' = found
            <4>1. PICK d \in deltas[t] : deltas' = [deltas EXCEPT ![t] = @ \ {d}]
                BY <2>2, <3>1 DEF DeltaRaises
            <4> QED BY <1>2, <3>1, <4>1
        <3>2. CASE found[t] # 0 /\ found' = [found EXCEPT ![t] = 0] /\ deltas' = deltas
            BY <1>2, <3>2
        <3> QED BY <2>2, <3>1, <3>2 DEF DeltaRaises
    <2> QED BY <2>1, <2>2
<1>4. KeepsSpent
    <2>1. \A u \in Rows : found[u] # 0 => found[u] \in 1..rows
        BY DEF LifeInv, JobInv
    <2>2. 1..rows \subseteq Rows
        BY LifeFacts
    <2> QED BY <1>1, <1>3, <2>1, <2>2 DEF KeepsSpent, rowVars
<1> QED BY <1>1, <1>4, PaidQuiet DEF rowVars

LEMMA PaidApplyDelta ==
    ASSUME LifeInv, LifeInv', PaidInv, NEW t \in Rows, ApplyDelta(t)
    PROVE  PaidInv'
<1>0. PICK f : f = found[t]
    OBVIOUS
<1>1. /\ f # 0
      /\ status' = [status EXCEPT ![f] = work[t]]
      /\ found' = [found EXCEPT ![t] = 0]
      /\ UNCHANGED <<rowVars, pc, todo, work, deltas, boundVars>>
    BY <1>0 DEF ApplyDelta
<1>2. TaskInv(t) /\ JobInv(t) /\ 1..rows \subseteq Rows
    BY LifeFacts
<1>3. /\ f \in 1..rows /\ kind[f] \in Kinds
      /\ kind[f].op = kind[t].op /\ kind[f].decky \in sent[t] /\ kind[f].decky \notin deltas[t]
    BY <1>0, <1>1, <1>2 DEF JobInv, LifeInv, RowInv
<1>4. t \in 1..rows
    <2>1. t \in Nat /\ 1 <= t /\ rows \in Nat
        BY LifeFacts DEF Rows
    <2>2. ~(t > rows)
        BY <1>3 DEF LifeInv, RowInv
    <2> QED BY <2>1, <2>2
<1>5. status \in [Rows -> Open \cup Terminal] /\ found \in [Rows -> 0..MaxRows]
    BY DEF LifeInv, TypeOK
<1>6. KeepsSpent
    <2>1. \A u \in Rows : found[u] # 0 => found[u] \in 1..rows
        BY DEF LifeInv, JobInv
    <2>2. \A u \in Rows : found'[u] # 0 => found'[u] = found[u]
        BY <1>1, <1>5
    <2> QED BY <1>1, <1>2, <2>1, <2>2 DEF KeepsSpent, rowVars
<1>7. /\ \A q \in 1..rows : q # f => status'[q] = status[q]
      /\ status'[f] = work[t]
    BY <1>1, <1>2, <1>3, <1>5
<1>8. CASE work[t] = "succeeded"
    <2>1. t \notin Spent(kind[f])
        BY <1>0, <1>1 DEF Spent
    <2>2. pc[t] # "succeeded" /\ found'[t] = 0
        BY <1>0, <1>1, <1>2, <1>5 DEF TaskInv
    <2>3. t \in Spent(kind[f])'
        BY <1>1, <1>3, <1>4, <1>8, <2>2 DEF Spent, rowVars
    <2> QED BY <1>1, <1>3, <1>6, <1>7, <2>1, <2>3, PaidOnce DEF rowVars
<1>9. CASE work[t] # "succeeded"
    <2>1. \A q \in 1..rows' : status'[q] = "succeeded" => q \in 1..rows /\ status[q] = "succeeded"
        BY <1>1, <1>7, <1>9 DEF rowVars
    <2> QED BY <1>6, <2>1, PaidQuiet
<1> QED BY <1>8, <1>9

LEMMA PaidRequest ==
    ASSUME LifeInv, LifeInv', PaidInv, NEW op \in Operations, NEW config \in SUBSET Deckies,
           NEW names \in Batches(op), \A i \in 1..Len(names) : names[i] \in config,
           NewTask(names, op, config)
    PROVE  PaidInv'
<1>0. rows \in Nat /\ MaxRows \in Nat /\ rows <= MaxRows
    BY DeckyLifecycleAssumption DEF LifeInv, TypeOK
<1>1. /\ rows' \in {rows + 1, rows + 2} /\ rows' <= MaxRows
      /\ \A r \in Rows : r \notin (rows + 1)..rows' => kind'[r] = kind[r] /\ owner'[r] = owner[r]
      /\ pc' = [pc EXCEPT ![rows + 1] = "mark"]
      /\ todo' = [todo EXCEPT ![rows + 1] = (rows + 1)..rows']
      /\ sent' = [sent EXCEPT ![rows + 1] = config]
      /\ UNCHANGED <<status, work, deltas, found>>
    BY RequestFacts
<1>2. /\ 1..rows \subseteq 1..rows' /\ 1..rows' \subseteq Rows
      /\ \A r \in 1..rows : r \notin (rows + 1)..rows' /\ r # rows + 1
      /\ \A r \in 1..rows' : r \in 1..rows \/ r > rows
    BY <1>0, <1>1 DEF Rows
<1>3. /\ pc \in [Rows -> {"none", "mark", "work", "dispatch", "await_202", "done"} \cup Terminal]
      /\ todo \in [Rows -> SUBSET Rows] /\ sent \in [Rows -> SUBSET Deckies]
    BY DEF LifeInv, TypeOK
<1>4. KeepsSpent
    <2>1. \A u \in 1..rows : pc'[u] = pc[u] /\ todo'[u] = todo[u] /\ sent'[u] = sent[u]
        BY <1>1, <1>2, <1>3
    <2>2. \A u \in Rows : found[u] # 0 => found[u] \in 1..rows
        BY DEF LifeInv, JobInv
    <2> QED BY <1>1, <1>2, <2>1, <2>2 DEF KeepsSpent
<1>5. \A r \in 1..rows' : status'[r] = "succeeded" => r \in 1..rows /\ status[r] = "succeeded"
    BY <1>1, <1>2 DEF LifeInv, RowInv
<1> QED BY <1>4, <1>5, PaidQuiet

LEMMA PaidCrash ==
    ASSUME LifeInv, LifeInv', PaidInv, ApiRestarts \/ AgentDies
    PROVE  PaidInv'
<1>1. /\ work \in [Rows -> {"none", "running", "dead"} \cup Terminal]
      /\ 1..rows \subseteq Rows
    BY DeckyLifecycleAssumption DEF LifeInv, TypeOK, Rows
<1>2. UNCHANGED <<rowVars, deltas, found>> /\ \A u \in Rows : found[u] # 0 => found[u] \in 1..rows
    BY DEF ApiRestarts, AgentDies, LifeInv, JobInv
<1>3. CASE ApiRestarts
    <2>1. work' = work /\ \A u \in Rows : pc'[u] # "succeeded"
        BY <1>3 DEF ApiRestarts
    <2>2. \A r \in Rows : status'[r] = "succeeded" => status[r] = "succeeded"
        BY <1>3 DEF ApiRestarts
    <2>3. KeepsSpent
        BY <1>1, <1>2, <2>1 DEF KeepsSpent, rowVars
    <2> QED BY <1>1, <1>2, <2>2, <2>3, PaidQuiet DEF rowVars
<1>4. CASE AgentDies
    <2>1. /\ UNCHANGED <<status, pc, todo>>
          /\ \A u \in Rows : work[u] = "succeeded" => work'[u] = "succeeded"
        BY <1>4 DEF AgentDies
    <2>2. KeepsSpent
        BY <1>1, <1>2, <2>1 DEF KeepsSpent, rowVars
    <2> QED BY <1>2, <2>1, <2>2, PaidQuiet DEF rowVars
<1> QED BY <1>3, <1>4

LEMMA PaidNext ==
    ASSUME LifeInv, LifeInv', PaidInv, [Next]_vars
    PROVE  PaidInv'
<1>1. CASE UNCHANGED vars
    BY <1>1 DEF vars, rowVars, PaidInv, Succeeded, Spent
<1>2. ASSUME NEW t \in Rows, MarkRunning(t) PROVE PaidInv'
    <2>1. pc[t] = "mark" /\ Update(t, "running", IF ~swarm THEN "work" ELSE "dispatch")
        BY <1>2 DEF MarkRunning
    <2>2. CASE ~swarm
        BY <2>1, <2>2, PaidUpdate
    <2>3. CASE swarm
        BY <2>1, <2>3, PaidUpdate
    <2> QED BY <2>2, <2>3
<1>3. ASSUME NEW t \in Rows, Seal(t) PROVE PaidInv'
    <2>1. pc[t] \in Terminal /\ Update(t, pc[t], "done")
        BY <1>3 DEF Seal
    <2> QED BY <2>1, PaidUpdate
<1>4. CASE \/ \E names \in Batches("deploy"), replace \in BOOLEAN : Deploy(names, replace)
           \/ \E d \in Deckies : Mutate(d)
    BY <1>4, RequestTask, PaidRequest
<1> QED
    BY <1>1, <1>2, <1>3, <1>4, PaidStep, PaidLookUp, PaidApplyDelta, PaidCrash DEF Next, Task, Heartbeat

\* Through every fault, crash, dropped delta and overlap of requests a decky shows
\* no more successes of an operation than there were successful attempts with it
\* (no attempt's success is spent twice on a decky), for any number of rows and
\* deckies.
THEOREM SuccessesEarnedTheorem == Spec => []SuccessesEarned
<1>1. Init => PaidInv
    <2> SUFFICES ASSUME Init, NEW k \in Kinds
                   PROVE  Cardinality(Succeeded(k)) <= Cardinality(Spent(k))
        BY DEF PaidInv
    <2>2. Succeeded(k) = {} /\ Spent(k) = {}
        BY DEF Init, Succeeded, Spent
    <2> QED BY <2>2, FS_EmptySet
<1>2. LifeInv /\ LifeInv' /\ PaidInv /\ [Next]_vars => PaidInv'
    BY PaidNext
<1>3. LifeInv /\ PaidInv => SuccessesEarned
    <2> SUFFICES ASSUME LifeInv, PaidInv, NEW k \in Kinds
                   PROVE  Cardinality({r \in 1..rows : kind[r] = k /\ status[r] = "succeeded"})
                            <= Cardinality({t \in 1..rows : /\ kind[t].op = k.op /\ k.decky \in sent[t]
                                                            /\ work[t] = "succeeded"})
        BY DEF SuccessesEarned
    <2> DEFINE E == {t \in 1..rows : /\ kind[t].op = k.op /\ k.decky \in sent[t]
                                     /\ work[t] = "succeeded"}
    <2>2. rows \in Int
        BY DeckyLifecycleAssumption DEF LifeInv, TypeOK
    <2>3. IsFiniteSet(1..rows)
        BY <2>2, FS_Interval
    <2>4. IsFiniteSet(E)
        BY <2>3, FS_Subset
    <2>5. Spent(k) \subseteq E
        BY DEF Spent
    <2>6. IsFiniteSet(Succeeded(k)) /\ Succeeded(k) \in SUBSET Succeeded(k)
        BY CountedFinite
    <2>7. Cardinality(Succeeded(k)) <= Cardinality(Spent(k))
        BY DEF PaidInv
    <2> HIDE DEF E
    <2>8. Cardinality(Succeeded(k)) <= Cardinality(E)
        BY <2>4, <2>5, <2>6, <2>7, CountSame
    <2> QED BY <2>8 DEF Succeeded, E
<1> QED BY <1>1, <1>2, <1>3, LifeInvariant, PTL DEF Spec
=============================================================================
