--------------------------- MODULE LogPathProofs ---------------------------
(***************************************************************************)
(* Proofs about the collector and the forwarder of MCLogPath, each for its *)
(* own specification and for every value of its constants (those about the *)
(* ingester are in IngesterProofs), and about the three side by side.      *)
(***************************************************************************)
EXTENDS MCLogPath, IngesterProofs, SequenceTheorems, FiniteSetTheorems, TLAPS

-----------------------------------------------------------------------------
(* The collector *)

\* The pool's queue holds a container at most once, and only while its entry in
\* the active dict is waiting for a thread.
OnceEach(q) == \A i, j \in 1..Len(q) : i # j /\ q[i] = q[j] => q[i] \notin Containers
QueueInv ==
    /\ \A i \in 1..Len(queue) : queue[i] \in Containers => active[queue[i]] = "queued"
    /\ OnceEach(queue)

\* A line was copied once per stream that ended, and once more by the stream
\* that is open, if that has come to it.
CopiesInv ==
    \A c \in Containers, n \in C!Lines :
        copies[c][n] <= ended[c] + (IF active[c] = "streaming" /\ n <= pos[c] THEN 1 ELSE 0)

Jobs == Containers \cup {C!Watch, C!List}
CollectorTypes ==
    /\ running \subseteq Containers /\ seen \subseteq Containers
    /\ posted \subseteq Containers
    /\ active \in [Containers -> {"none", "queued", "streaming", "ended", "done"}]
    /\ lines \in [Containers -> 0..MaxLogged]
    /\ pos \in [Containers -> 0..MaxLogged]
    /\ \A c \in Containers : pos[c] <= lines[c]
    /\ copies \in [Containers -> [C!Lines -> Nat]]
    /\ ended \in [Containers -> Nat]
    /\ queue \in Seq(Jobs)

CollectorInv == CollectorTypes /\ QueueInv /\ CopiesInv

\* The collector's own copy of FiniteSets counts like the library's.
LEMMA SameCount == \A S : C!Cardinality(S) = Cardinality(S)
BY Zenon DEF C!Cardinality, Cardinality, C!IsFiniteSet, IsFiniteSet

LEMMA PathNumbers ==
    /\ MaxLag \in Nat /\ MaxShipped \in Nat /\ MaxCuts \in Nat /\ PoolSize \in Nat
    /\ MaxLogged \in Nat /\ MaxChanges \in Nat /\ MaxBreaks \in Nat /\ MaxDeaths \in Nat
    /\ MaxRotations \in Nat /\ MaxCrashes \in Nat /\ BatchSize \in Nat /\ BatchSize > 0
BY PathAssumption, IngesterAssumption

\* Two queues that share no container.
LEMMA JoinOnce ==
    ASSUME NEW q \in Seq(Jobs), NEW s \in Seq(Jobs), OnceEach(q), OnceEach(s),
           \A i \in 1..Len(q), j \in 1..Len(s) : q[i] \in Containers => q[i] # s[j]
    PROVE  OnceEach(q \o s)
<1>1. /\ Len(q) \in Nat /\ Len(s) \in Nat /\ Len(q \o s) = Len(q) + Len(s)
      /\ \A i \in 1..Len(q) + Len(s) :
           (q \o s)[i] = IF i <= Len(q) THEN q[i] ELSE s[i - Len(q)]
    BY ConcatProperties, LenProperties
<1>2. SUFFICES ASSUME NEW i \in 1..Len(q) + Len(s), NEW j \in 1..Len(q) + Len(s), i # j,
                      (q \o s)[i] = (q \o s)[j]
               PROVE  (q \o s)[i] \notin Containers
    BY <1>1 DEF OnceEach
<1>3. CASE i <= Len(q) /\ j <= Len(q)
    <2>1. i \in 1..Len(q) /\ j \in 1..Len(q) /\ (q \o s)[i] = q[i] /\ (q \o s)[j] = q[j]
        BY <1>1, <1>3
    <2> QED BY <1>2, <2>1 DEF OnceEach
<1>4. CASE i <= Len(q) /\ j > Len(q)
    <2>1. i \in 1..Len(q) /\ j - Len(q) \in 1..Len(s)
        BY <1>1, <1>4
    <2>2. (q \o s)[i] = q[i] /\ (q \o s)[j] = s[j - Len(q)]
        BY <1>1, <1>4
    <2> QED BY <1>2, <2>1, <2>2
<1>5. CASE i > Len(q) /\ j <= Len(q)
    <2>1. j \in 1..Len(q) /\ i - Len(q) \in 1..Len(s)
        BY <1>1, <1>5
    <2>2. (q \o s)[j] = q[j] /\ (q \o s)[i] = s[i - Len(q)]
        BY <1>1, <1>5
    <2> QED BY <1>2, <2>1, <2>2
<1>6. CASE i > Len(q) /\ j > Len(q)
    <2>1. i - Len(q) \in 1..Len(s) /\ j - Len(q) \in 1..Len(s) /\ i - Len(q) # j - Len(q)
        BY <1>1, <1>2, <1>6
    <2>2. (q \o s)[i] = s[i - Len(q)] /\ (q \o s)[j] = s[j - Len(q)]
        BY <1>1, <1>6
    <2> QED BY <1>2, <2>1, <2>2 DEF OnceEach
<1>7. i \in Int /\ j \in Int /\ Len(q) \in Int
    BY <1>1
<1> QED BY <1>3, <1>4, <1>5, <1>6, <1>7

\* _spawn puts the containers that have no stream behind the others, and changes
\* no entry of the dict that has a thread.
LEMMA SpawnKeeps ==
    ASSUME CollectorInv, NEW S \in SUBSET Containers,
           NEW jobs \in {<<>>, <<C!Watch>>}, C!Spawn(S, jobs)
    PROVE  /\ active' \in [Containers -> {"none", "queued", "streaming", "ended", "done"}]
           /\ \A c \in Containers : (active'[c] = "streaming") <=> (active[c] = "streaming")
           /\ queue' \in Seq(Jobs)
           /\ QueueInv'
<1> DEFINE M == C!Missing(S)
<1>1. active' = [c \in Containers |-> IF c \in M THEN "queued" ELSE active[c]]
    BY DEF C!Spawn
<1>2. PICK s \in C!Orders(M) : queue' = queue \o s \o jobs
    BY DEF C!Spawn
<1>3. M \in SUBSET Containers /\ \A c \in M : active[c] \in {"none", "done"}
    BY DEF C!Missing
<1> HIDE DEF M
<1>4. Cardinality(M) \in Nat
    BY <1>3, PathAssumption, FS_Subset, FS_CardinalityType
<1>5. PICK n \in Nat : n = Cardinality(M)
    BY <1>4
<1>6. s \in [1..n -> M] /\ \A i, j \in DOMAIN s : i # j => s[i] # s[j]
    BY <1>2, <1>5, SameCount DEF C!Orders
<1>7. s \in Seq(M)
    BY <1>6, SeqDef
<1>8. s \in Seq(Jobs) /\ Len(s) \in Nat /\ DOMAIN s = 1..Len(s)
    <2>1. M \subseteq Jobs
        BY <1>3 DEF Jobs
    <2> QED BY <1>7, <2>1, SeqMonotonic, LenProperties
<1>9. \A i \in 1..Len(s) : s[i] \in M
    BY <1>7, ElementOfSeq
<1>10. /\ jobs \in Seq(Jobs) /\ Len(jobs) \in Nat
       /\ \A i \in 1..Len(jobs) : jobs[i] \notin Containers
    <2>1. C!Watch \in Jobs /\ C!Watch \notin Containers
        BY PathAssumption DEF Jobs
    <2>2. CASE jobs = <<>>
        BY <2>2, EmptySeq
    <2>3. CASE jobs = <<C!Watch>>
        <3>1. jobs \in Seq(Jobs) /\ Len(jobs) = 1 /\ jobs[1] = C!Watch
            BY <2>1, <2>3
        <3>2. \A i \in 1..Len(jobs) : i = 1
            BY <3>1
        <3> QED BY <2>1, <3>1, <3>2
    <2> QED BY <2>2, <2>3
<1>11. queue \in Seq(Jobs) /\ Len(queue) \in Nat /\ OnceEach(queue)
       /\ \A i \in 1..Len(queue) : queue[i] \in Containers => active[queue[i]] = "queued"
    BY LenProperties DEF CollectorInv, CollectorTypes, QueueInv
<1>12. OnceEach(s) /\ OnceEach(jobs)
    BY <1>6, <1>8, <1>10 DEF OnceEach
<1> DEFINE qs == queue \o s
<1>13. /\ qs \in Seq(Jobs) /\ Len(qs) = Len(queue) + Len(s)
       /\ \A i \in 1..Len(queue) + Len(s) :
            qs[i] = IF i <= Len(queue) THEN queue[i] ELSE s[i - Len(queue)]
    BY <1>8, <1>11, ConcatProperties
<1>14. OnceEach(qs)
    <2>1. \A i \in 1..Len(queue), j \in 1..Len(s) : queue[i] \in Containers => queue[i] # s[j]
        BY <1>3, <1>9, <1>11
    <2> QED BY <1>8, <1>11, <1>12, <2>1, JoinOnce
<1>15. \A i \in 1..Len(qs) : qs[i] \in Containers => active'[qs[i]] = "queued"
    <2> SUFFICES ASSUME NEW i \in 1..Len(qs), qs[i] \in Containers
                 PROVE  active'[qs[i]] = "queued"
        OBVIOUS
    <2>1. CASE i <= Len(queue)
        <3>1. i \in 1..Len(queue) /\ qs[i] = queue[i]
            BY <1>8, <1>11, <1>13, <2>1
        <3> QED BY <1>1, <1>11, <3>1
    <2>2. CASE ~(i <= Len(queue))
        <3>1. i - Len(queue) \in 1..Len(s) /\ qs[i] = s[i - Len(queue)]
            BY <1>8, <1>11, <1>13, <2>2
        <3> QED BY <1>1, <1>9, <3>1
    <2> QED BY <2>1, <2>2
<1> HIDE DEF qs
<1>16. /\ queue' \in Seq(Jobs) /\ Len(queue') = Len(qs) + Len(jobs) /\ Len(qs) \in Nat
       /\ \A i \in 1..Len(qs) + Len(jobs) :
            queue'[i] = IF i <= Len(qs) THEN qs[i] ELSE jobs[i - Len(qs)]
    <2>1. queue' = qs \o jobs
        BY <1>2 DEF qs
    <2> QED BY <1>10, <1>13, <2>1, ConcatProperties, LenProperties
<1>17. OnceEach(queue)'
    <2>1. \A i \in 1..Len(qs), j \in 1..Len(jobs) : qs[i] \in Containers => qs[i] # jobs[j]
        BY <1>10
    <2>2. OnceEach(qs \o jobs)
        BY <1>10, <1>12, <1>13, <1>14, <2>1, JoinOnce
    <2>3. queue' = qs \o jobs
        BY <1>2 DEF qs
    <2> QED BY <2>2, <2>3 DEF OnceEach
<1>18. \A i \in 1..Len(queue') : queue'[i] \in Containers => active'[queue'[i]] = "queued"
    <2> SUFFICES ASSUME NEW i \in 1..Len(queue'), queue'[i] \in Containers
                 PROVE  active'[queue'[i]] = "queued"
        OBVIOUS
    <2>1. CASE i <= Len(qs)
        <3>1. i \in 1..Len(qs) /\ queue'[i] = qs[i]
            BY <1>10, <1>16, <2>1
        <3> QED BY <1>15, <3>1
    <2>2. CASE ~(i <= Len(qs))
        <3>1. i - Len(qs) \in 1..Len(jobs) /\ queue'[i] = jobs[i - Len(qs)]
            BY <1>10, <1>16, <2>2
        <3> QED BY <1>10, <3>1
    <2> QED BY <2>1, <2>2
<1>19. active \in [Containers -> {"none", "queued", "streaming", "ended", "done"}]
    BY DEF CollectorInv, CollectorTypes
<1>20. active' \in [Containers -> {"none", "queued", "streaming", "ended", "done"}]
    BY <1>1, <1>19
<1>21. \A c \in Containers : (active'[c] = "streaming") <=> (active[c] = "streaming")
    BY <1>1, <1>3
<1> QED
    BY <1>16, <1>17, <1>18, <1>20, <1>21 DEF QueueInv

\* What Docker does changes neither dict, queue nor file.
LEMMA CollectorDocker ==
    ASSUME CollectorInv, NEW c \in Containers, C!Log(c) \/ C!Start(c) \/ C!Stop(c)
    PROVE  CollectorInv'
<1>1. UNCHANGED <<active, pos, copies, queue, seen, posted, ended>>
    BY DEF C!Log, C!Start, C!Stop
<1>2. running' \subseteq Containers
    BY DEF C!Log, C!Start, C!Stop, CollectorInv, CollectorTypes
<1>3. lines \in [Containers -> 0..MaxLogged] /\ \A d \in Containers : pos[d] <= lines[d]
      /\ pos \in [Containers -> 0..MaxLogged]
    BY DEF CollectorInv, CollectorTypes
<1>4. /\ lines' \in [Containers -> 0..MaxLogged]
      /\ \A d \in Containers : pos[d] <= lines'[d]
    <2>1. CASE C!Log(c)
        <3>1. lines[c] < MaxLogged /\ lines' = [lines EXCEPT ![c] = @ + 1]
            BY <2>1 DEF C!Log
        <3>2. lines[c] + 1 \in 0..MaxLogged /\ pos[c] <= lines[c] + 1
            BY <1>3, <3>1, PathNumbers
        <3> QED BY <1>3, <3>1, <3>2
    <2>2. CASE C!Start(c) \/ C!Stop(c)
        BY <1>3, <2>2 DEF C!Start, C!Stop
    <2> QED BY <2>1, <2>2
<1>5. CollectorTypes'
    BY <1>1, <1>2, <1>4 DEF CollectorInv, CollectorTypes
<1> QED
    BY <1>1, <1>5 DEF CollectorInv, QueueInv, OnceEach, CopiesInv

\* Steps of the watcher and of the list call, and the ends of the worker.
LEMMA CollectorQuiet ==
    ASSUME CollectorInv,
           \/ \E c \in Containers : C!WatchEvent(c)
           \/ C!WatchBreaks \/ C!WatchReconnects \/ C!ListReturns
           \/ C!ScanRaises \/ C!WatchEnds
    PROVE  CollectorInv'
<1>1. UNCHANGED <<running, lines, active, pos, copies, queue, ended>>
    BY DEF C!WatchEvent, C!WatchBreaks, C!WatchReconnects, C!ListReturns, C!ScanRaises,
           C!WatchEnds, C!dockerVars
<1>2. posted' \subseteq Containers /\ seen' \subseteq Containers
    BY DEF C!WatchEvent, C!WatchBreaks, C!WatchReconnects, C!ListReturns, C!ScanRaises,
           C!WatchEnds, CollectorInv, CollectorTypes
<1> QED
    BY <1>1, <1>2 DEF CollectorInv, CollectorTypes, QueueInv, OnceEach, CopiesInv

\* The three places that call _spawn.
LEMMA CollectorSpawns ==
    ASSUME CollectorInv,
           C!Scan \/ C!ReconcileApplies \/ \E c \in Containers : C!SpawnPosted(c)
    PROVE  CollectorInv'
<1>1. UNCHANGED <<running, lines, pos, copies, ended>>
    BY DEF C!Scan, C!ReconcileApplies, C!SpawnPosted, C!dockerVars
<1>2. PICK S \in SUBSET Containers, jobs \in {<<>>, <<C!Watch>>} : C!Spawn(S, jobs)
    <2>1. CASE C!Scan
        BY <2>1 DEF C!Scan, CollectorInv, CollectorTypes
    <2>2. CASE C!ReconcileApplies
        <3>1. {c \in seen : active[c] = "none"} \in SUBSET Containers
            BY DEF CollectorInv, CollectorTypes
        <3>2. C!Spawn({c \in seen : active[c] = "none"}, <<>>)
            BY <2>2 DEF C!ReconcileApplies
        <3> QED BY <3>1, <3>2
    <2>3. CASE \E c \in Containers : C!SpawnPosted(c)
        <3>1. PICK c \in Containers : C!Spawn({c}, <<>>)
            BY <2>3 DEF C!SpawnPosted
        <3>2. {c} \in SUBSET Containers
            OBVIOUS
        <3> QED BY <3>1, <3>2
    <2> QED BY <2>1, <2>2, <2>3
<1>3. /\ active' \in [Containers -> {"none", "queued", "streaming", "ended", "done"}]
      /\ \A c \in Containers : (active'[c] = "streaming") <=> (active[c] = "streaming")
      /\ queue' \in Seq(Jobs)
      /\ QueueInv'
    BY <1>2, SpawnKeeps
<1>4. posted' \subseteq Containers /\ seen' \subseteq Containers
    BY DEF C!Scan, C!ReconcileApplies, C!SpawnPosted, CollectorInv, CollectorTypes
<1>5. CollectorTypes'
    BY <1>1, <1>3, <1>4 DEF CollectorInv, CollectorTypes
<1>6. CopiesInv'
    BY <1>1, <1>3 DEF CollectorInv, CopiesInv
<1> QED BY <1>3, <1>5, <1>6 DEF CollectorInv

\* A thread takes a container: it is no longer in the queue, and was in it once.
LEMMA CollectorTakes ==
    ASSUME CollectorInv, C!Take
    PROVE  CollectorInv'
<1>1. PICK j : j = Head(queue)
    OBVIOUS
<1>2. /\ queue # <<>> /\ queue' = Tail(queue)
      /\ active' = IF j \in Containers THEN [active EXCEPT ![j] = "streaming"] ELSE active
      /\ pos' = IF j \in Containers THEN [pos EXCEPT ![j] = 0] ELSE pos
      /\ UNCHANGED <<running, lines, copies, posted, seen, ended>>
    BY <1>1 DEF C!Take, C!dockerVars
<1>3. /\ active \in [Containers -> {"none", "queued", "streaming", "ended", "done"}]
      /\ lines \in [Containers -> 0..MaxLogged] /\ pos \in [Containers -> 0..MaxLogged]
      /\ copies \in [Containers -> [C!Lines -> Nat]] /\ ended \in [Containers -> Nat]
      /\ \A c \in Containers : pos[c] <= lines[c]
      /\ queue \in Seq(Jobs)
    BY DEF CollectorInv, CollectorTypes
<1>4. /\ Len(queue) \in Nat /\ queue' \in Seq(Jobs) /\ Len(queue') = Len(queue) - 1
      /\ \A i \in 1..Len(queue') : queue'[i] = queue[i + 1]
    BY <1>2, <1>3, HeadTailProperties, LenProperties
<1>5. 1 \in 1..Len(queue) /\ j = queue[1]
    BY <1>1, <1>2, <1>3, EmptySeq
<1>6. \A i \in 1..Len(queue') : i + 1 \in 1..Len(queue) /\ i + 1 # 1
    BY <1>4
<1>7. /\ \A i \in 1..Len(queue) : queue[i] \in Containers => active[queue[i]] = "queued"
      /\ OnceEach(queue)
    BY DEF CollectorInv, QueueInv
<1>8. \A i \in 1..Len(queue') : queue'[i] \in Containers => queue'[i] # j
    BY <1>4, <1>5, <1>6, <1>7 DEF OnceEach
<1>9. QueueInv'
    <2>1. \A i \in 1..Len(queue') : queue'[i] \in Containers => active'[queue'[i]] = "queued"
        BY <1>2, <1>3, <1>4, <1>6, <1>7, <1>8
    <2>2. \A i, k \in 1..Len(queue') : i # k => i + 1 # k + 1
        BY <1>4
    <2>3. OnceEach(queue)'
        BY <1>4, <1>6, <1>7, <2>2 DEF OnceEach
    <2> QED BY <2>1, <2>3 DEF QueueInv
<1>10. CollectorTypes'
    <2>1. active' \in [Containers -> {"none", "queued", "streaming", "ended", "done"}]
        BY <1>2, <1>3
    <2>2. pos' \in [Containers -> 0..MaxLogged] /\ \A c \in Containers : pos'[c] <= lines[c]
        BY <1>2, <1>3, PathNumbers
    <2> QED
        BY <1>2, <1>4, <2>1, <2>2 DEF CollectorInv, CollectorTypes
<1>11. CopiesInv'
    <2> SUFFICES ASSUME NEW c \in Containers, NEW n \in C!Lines
                 PROVE  copies[c][n] <= ended[c]
                          + (IF active'[c] = "streaming" /\ n <= pos'[c] THEN 1 ELSE 0)
        BY <1>2 DEF CopiesInv
    <2>1. copies[c][n] <= ended[c]
                          + (IF active[c] = "streaming" /\ n <= pos[c] THEN 1 ELSE 0)
        BY DEF CollectorInv, CopiesInv
    <2>2. CASE c = j
        <3>1. active[c] = "queued" /\ pos'[c] = 0
            BY <1>2, <1>3, <1>5, <1>7, <2>2
        <3>2. n \in Nat /\ n >= 1 /\ copies[c][n] \in Nat /\ ended[c] \in Nat
            BY <1>3, PathNumbers DEF C!Lines
        <3>3. ~(n <= 0)
            BY <3>2
        <3> QED BY <2>1, <3>1, <3>2, <3>3
    <2>3. CASE c # j
        <3>1. active'[c] = active[c] /\ pos'[c] = pos[c]
            BY <1>2, <1>3, <2>3
        <3> QED BY <2>1, <3>1
    <2> QED BY <2>2, <2>3
<1> QED BY <1>9, <1>10, <1>11 DEF CollectorInv

\* A wake-up drops finished entries and queues the list call.
LEMMA CollectorWakes ==
    ASSUME CollectorInv, C!ReconcileWakes
    PROVE  CollectorInv'
<1>1. /\ active' = [c \in Containers |-> IF active[c] = "done" THEN "none" ELSE active[c]]
      /\ queue' = Append(queue, C!List)
      /\ UNCHANGED <<running, lines, pos, copies, posted, seen, ended>>
    BY DEF C!ReconcileWakes, C!dockerVars
<1>2. /\ active \in [Containers -> {"none", "queued", "streaming", "ended", "done"}]
      /\ queue \in Seq(Jobs) /\ OnceEach(queue)
      /\ \A i \in 1..Len(queue) : queue[i] \in Containers => active[queue[i]] = "queued"
    BY DEF CollectorInv, CollectorTypes, QueueInv
<1>3. C!List \in Jobs /\ C!List \notin Containers
    BY PathAssumption DEF Jobs
<1>4. /\ queue' \in Seq(Jobs) /\ Len(queue') = Len(queue) + 1 /\ Len(queue) \in Nat
      /\ \A i \in 1..Len(queue) : queue'[i] = queue[i]
      /\ queue'[Len(queue) + 1] = C!List
    BY <1>1, <1>2, <1>3, AppendProperties, LenProperties
<1>5. \A i \in 1..Len(queue') : i \in 1..Len(queue) \/ i = Len(queue) + 1
    BY <1>4
<1>6. \A c \in Containers : /\ active[c] = "queued" => active'[c] = "queued"
                            /\ (active'[c] = "streaming") <=> (active[c] = "streaming")
    BY <1>1
<1>7. QueueInv'
    <2>1. \A i \in 1..Len(queue') : queue'[i] \in Containers => active'[queue'[i]] = "queued"
        BY <1>2, <1>3, <1>4, <1>5, <1>6
    <2>2. OnceEach(queue)'
        BY <1>2, <1>3, <1>4, <1>5 DEF OnceEach
    <2> QED BY <2>1, <2>2 DEF QueueInv
<1>8. active' \in [Containers -> {"none", "queued", "streaming", "ended", "done"}]
    BY <1>1, <1>2
<1>9. CollectorTypes'
    BY <1>1, <1>4, <1>8 DEF CollectorInv, CollectorTypes
<1>10. CopiesInv'
    BY <1>1, <1>6 DEF CollectorInv, CopiesInv
<1> QED BY <1>7, <1>9, <1>10 DEF CollectorInv

\* A line is written: the one behind the stream's position, once.
LEMMA CollectorReads ==
    ASSUME CollectorInv, NEW c \in Containers, C!Read(c)
    PROVE  CollectorInv'
<1>1. /\ active[c] = "streaming" /\ pos[c] < lines[c]
      /\ pos' = [pos EXCEPT ![c] = @ + 1]
      /\ copies' = [copies EXCEPT ![c][pos[c] + 1] = @ + 1]
      /\ UNCHANGED <<running, lines, active, queue, posted, seen, ended>>
    BY DEF C!Read, C!dockerVars
<1>2. /\ lines \in [Containers -> 0..MaxLogged] /\ pos \in [Containers -> 0..MaxLogged]
      /\ copies \in [Containers -> [C!Lines -> Nat]] /\ ended \in [Containers -> Nat]
      /\ \A d \in Containers : pos[d] <= lines[d]
    BY DEF CollectorInv, CollectorTypes
<1>3. PICK k \in C!Lines : k = pos[c] + 1 /\ k \in 0..MaxLogged /\ k <= lines[c]
    BY <1>1, <1>2, PathNumbers DEF C!Lines
<1>4. pos' \in [Containers -> 0..MaxLogged] /\ \A d \in Containers : pos'[d] <= lines[d]
    BY <1>1, <1>2, <1>3
<1>5. copies' = [copies EXCEPT ![c] = [copies[c] EXCEPT ![k] = copies[c][k] + 1]]
    BY <1>1, <1>2, <1>3
<1>6. copies[c] \in [C!Lines -> Nat]
    BY <1>2
<1>7. [copies[c] EXCEPT ![k] = copies[c][k] + 1] \in [C!Lines -> Nat]
    BY <1>6
<1>8. copies' \in [Containers -> [C!Lines -> Nat]]
    BY <1>2, <1>5, <1>7
<1>9. CollectorTypes'
    BY <1>1, <1>4, <1>8 DEF CollectorInv, CollectorTypes
<1>10. CopiesInv'
    <2> SUFFICES ASSUME NEW d \in Containers, NEW n \in C!Lines
                 PROVE  copies'[d][n] <= ended[d]
                          + (IF active[d] = "streaming" /\ n <= pos'[d] THEN 1 ELSE 0)
        BY <1>1 DEF CopiesInv
    <2>1. copies[d][n] <= ended[d]
                          + (IF active[d] = "streaming" /\ n <= pos[d] THEN 1 ELSE 0)
        BY DEF CollectorInv, CopiesInv
    <2>2. CASE d # c
        <3>1. copies'[d] = copies[d] /\ pos'[d] = pos[d]
            BY <1>1, <1>2, <1>5, <2>2
        <3> QED BY <2>1, <3>1
    <2>3. CASE d = c
        <3>1. pos'[c] = k /\ copies'[c] = [copies[c] EXCEPT ![k] = copies[c][k] + 1]
            BY <1>1, <1>2, <1>3, <1>5
        <3>2. copies'[c][n] = IF n = k THEN copies[c][n] + 1 ELSE copies[c][n]
            BY <1>6, <3>1
        <3>3. n \in Nat /\ k \in Nat /\ pos[c] \in Nat /\ ended[c] \in Nat /\ copies[c][n] \in Nat
            BY <1>2, <1>6, PathNumbers DEF C!Lines
        <3>4. CASE n = k
            <4>1. ~(n <= pos[c]) /\ n <= pos'[c]
                BY <1>3, <3>1, <3>3, <3>4
            <4>2. copies[c][n] <= ended[c]
                BY <2>1, <2>3, <3>3, <4>1
            <4> QED BY <1>1, <2>3, <3>2, <3>3, <3>4, <4>1, <4>2
        <3>5. CASE n # k
            <4>1. n <= pos'[c] <=> n <= pos[c]
                BY <1>3, <3>1, <3>3, <3>5
            <4> QED BY <2>1, <2>3, <3>2, <3>3, <3>5, <4>1
        <3> QED BY <3>4, <3>5
    <2> QED BY <2>2, <2>3
<1> QED BY <1>1, <1>9, <1>10 DEF CollectorInv, QueueInv, OnceEach

\* A stream ends, and its future is noticed.
LEMMA CollectorEnds ==
    ASSUME CollectorInv, NEW c \in Containers, C!StreamEnds(c) \/ C!FutureDone(c)
    PROVE  CollectorInv'
<1>1. PICK a \in {"ended", "done"} : active' = [active EXCEPT ![c] = a]
    BY DEF C!StreamEnds, C!FutureDone
<1>2. /\ active[c] \in {"streaming", "ended"}
      /\ \/ ended' = [ended EXCEPT ![c] = @ + 1]
         \/ ended' = ended /\ active[c] # "streaming"
      /\ UNCHANGED <<running, lines, pos, copies, queue, posted, seen>>
    BY DEF C!StreamEnds, C!FutureDone, C!dockerVars
<1>3. /\ active \in [Containers -> {"none", "queued", "streaming", "ended", "done"}]
      /\ copies \in [Containers -> [C!Lines -> Nat]] /\ ended \in [Containers -> Nat]
    BY DEF CollectorInv, CollectorTypes
<1>4. active' \in [Containers -> {"none", "queued", "streaming", "ended", "done"}]
    BY <1>1, <1>3
<1>5. ended' \in [Containers -> Nat]
    BY <1>2, <1>3
<1>6. CollectorTypes'
    BY <1>2, <1>4, <1>5 DEF CollectorInv, CollectorTypes
<1>7. QueueInv'
    <2>1. \A d \in Containers : active[d] = "queued" => active'[d] = "queued"
        BY <1>1, <1>2, <1>3
    <2> QED BY <1>2, <2>1 DEF CollectorInv, QueueInv, OnceEach
<1>8. CopiesInv'
    <2> SUFFICES ASSUME NEW d \in Containers, NEW n \in C!Lines
                 PROVE  copies[d][n] <= ended'[d]
                          + (IF active'[d] = "streaming" /\ n <= pos[d] THEN 1 ELSE 0)
        BY <1>2 DEF CopiesInv
    <2>1. copies[d][n] <= ended[d]
                          + (IF active[d] = "streaming" /\ n <= pos[d] THEN 1 ELSE 0)
        BY DEF CollectorInv, CopiesInv
    <2>2. copies[d][n] \in Nat /\ ended[d] \in Nat
        BY <1>3
    <2>3. CASE d # c
        <3>1. active'[d] = active[d] /\ ended'[d] = ended[d]
            BY <1>1, <1>2, <1>3, <2>3
        <3> QED BY <2>1, <3>1
    <2>4. CASE d = c
        <3>1. active'[c] = a
            BY <1>1, <1>3
        <3>2. \/ ended'[c] = ended[c] + 1
              \/ ended'[c] = ended[c] /\ active[c] # "streaming"
            <4>1. CASE ended' = [ended EXCEPT ![c] = @ + 1]
                BY <1>3, <4>1
            <4>2. CASE ended' = ended /\ active[c] # "streaming"
                BY <4>2
            <4> QED BY <1>2, <4>1, <4>2
        <3> QED BY <2>1, <2>2, <2>4, <3>1, <3>2
    <2> QED BY <2>3, <2>4
<1> QED BY <1>6, <1>7, <1>8 DEF CollectorInv

\* The process dies: the threads and the queue go, open streams end.
LEMMA CollectorDies ==
    ASSUME CollectorInv, C!Die
    PROVE  CollectorInv'
<1>1. /\ active' = [c \in Containers |-> "none"]
      /\ ended' = [c \in Containers |-> IF active[c] = "streaming" THEN ended[c] + 1 ELSE ended[c]]
      /\ queue' = <<>> /\ posted' = {} /\ seen' = {}
      /\ UNCHANGED <<running, lines, pos, copies>>
    BY DEF C!Die, C!dockerVars
<1>2. copies \in [Containers -> [C!Lines -> Nat]] /\ ended \in [Containers -> Nat]
    BY DEF CollectorInv, CollectorTypes
<1>3. ended' \in [Containers -> Nat]
    BY <1>1, <1>2
<1>4. queue' \in Seq(Jobs) /\ Len(queue') = 0
    BY <1>1, EmptySeq
<1>5. CollectorTypes'
    BY <1>1, <1>3, <1>4 DEF CollectorInv, CollectorTypes
<1>6. QueueInv'
    <2>1. 1..Len(queue') = {}
        BY <1>4
    <2> QED BY <2>1 DEF QueueInv, OnceEach
<1>7. CopiesInv'
    <2> SUFFICES ASSUME NEW d \in Containers, NEW n \in C!Lines
                 PROVE  copies[d][n] <= ended'[d]
                          + (IF active'[d] = "streaming" /\ n <= pos[d] THEN 1 ELSE 0)
        BY <1>1 DEF CopiesInv
    <2>1. copies[d][n] <= ended[d]
                          + (IF active[d] = "streaming" /\ n <= pos[d] THEN 1 ELSE 0)
        BY DEF CollectorInv, CopiesInv
    <2>2. copies[d][n] \in Nat /\ ended[d] \in Nat
        BY <1>2
    <2>3. /\ ended'[d] = IF active[d] = "streaming" THEN ended[d] + 1 ELSE ended[d]
          /\ active'[d] = "none"
        BY <1>1
    <2> QED BY <2>1, <2>2, <2>3
<1> QED BY <1>5, <1>6, <1>7 DEF CollectorInv

LEMMA CollectorInit ==
    ASSUME C!Init
    PROVE  CollectorInv
<1>1. Len(queue) = 0 /\ queue \in Seq(Jobs)
    BY EmptySeq DEF C!Init
<1>2. 1..Len(queue) = {}
    BY <1>1
<1>3. QueueInv
    BY <1>2 DEF QueueInv, OnceEach
<1>4. lines \in [Containers -> 0..MaxLogged] /\ pos \in [Containers -> 0..MaxLogged]
    BY PathNumbers DEF C!Init
<1>5. copies \in [Containers -> [C!Lines -> Nat]] /\ ended \in [Containers -> Nat]
    BY DEF C!Init
<1>6. \A c \in Containers : pos[c] <= lines[c]
    BY DEF C!Init
<1>7. CollectorTypes
    BY <1>1, <1>4, <1>5, <1>6 DEF C!Init, CollectorTypes
<1>8. CopiesInv
    BY DEF C!Init, CopiesInv
<1> QED BY <1>3, <1>7, <1>8 DEF CollectorInv

LEMMA CollectorNext ==
    ASSUME CollectorInv, [C!Next]_(C!vars)
    PROVE  CollectorInv'
<1>1. CASE UNCHANGED C!vars
    BY <1>1 DEF C!vars, C!dockerVars, CollectorInv, CollectorTypes, QueueInv, OnceEach, CopiesInv
<1>2. CASE C!Next
    BY <1>2, CollectorDocker, CollectorQuiet, CollectorSpawns, CollectorTakes, CollectorWakes,
       CollectorReads, CollectorEnds, CollectorDies
       DEF C!Next, C!Watcher, C!Stream, C!Reconcile
<1> QED BY <1>1, <1>2

\* The pool's queue and the active dict never hold a container twice, and the
\* log file has each line once per stream (collector/worker.py, _spawn).
THEOREM CollectorInvariant == C!Spec => []CollectorInv
<1>1. C!Init => CollectorInv
    BY CollectorInit
<1>2. CollectorInv /\ [C!Next]_(C!vars) => CollectorInv'
    BY CollectorNext
<1> QED BY <1>1, <1>2, PTL DEF C!Spec

\* A container has one stream at a time, whatever scan, start events and stale
\* lists ask for, for any containers, pool size and number of faults.
THEOREM NoSecondStreamTheorem == C!Spec => []NoSecondStream
<1>1. CollectorInv => NoSecondStream
    <2> SUFFICES ASSUME CollectorInv, NEW c \in Containers, NEW n \in C!Lines
                 PROVE  copies[c][n] <= 1 + ended[c]
        BY DEF NoSecondStream, C!NoSecondStream
    <2>1. copies[c][n] <= ended[c]
                          + (IF active[c] = "streaming" /\ n <= pos[c] THEN 1 ELSE 0)
        BY DEF CollectorInv, CopiesInv
    <2>2. copies[c][n] \in Nat /\ ended[c] \in Nat
        BY DEF CollectorInv, CollectorTypes
    <2> QED BY <2>1, <2>2
<1> QED BY <1>1, CollectorInvariant, PTL

-----------------------------------------------------------------------------
(* The forwarder *)

\* The lines of the file were written; without rotation it holds all of them.
ShipFileInv ==
    /\ Len(shipLog) <= shipWritten
    /\ \A i \in 1..Len(shipLog) : shipLog[i] \in 1..shipWritten
    /\ shipRotations = 0 => Len(shipLog) = shipWritten /\ \A i \in 1..shipWritten : shipLog[i] = i

Accounted == F!Elements(received) \cup F!InFlight \cup lost

\* A batch whose drain() is awaited was written to a connection; and as long as
\* no connection breaks there is one, with everything in flight on it.
WireInv ==
    /\ drained \subseteq Accounted
    /\ shipPc = "drain" => F!Elements(shipBatch) \subseteq Accounted
    /\ link = "open" => conn \in F!Conns
    /\ link = "cut" => cuts > 0
    /\ cuts = 0 /\ shipCrashes = 0 =>
         /\ lost = {}
         /\ \/ /\ conn = 0 /\ shipPc = "connect" /\ link = "closed"
               /\ offset = 0 /\ received = <<>>
            \/ conn = 1 /\ link = "open" /\ shipPc \in {"stat", "read", "drain"}
         /\ \A c \in F!Conns : c # conn => wire[c] = <<>>

ShipInv == F!TypeOK /\ ShipFileInv /\ WireInv

\* The undisturbed forwarder: what it sent is the beginning of the file, up to
\* its position and the batch it is draining.
Undisturbed == cuts + shipCrashes + shipRotations = 0 /\ skipped = {}
Sent == received \o wire[1]
MirrorInv ==
    Undisturbed =>
        /\ conn = 1 => Len(Sent) = pumped + (IF shipPc = "drain" THEN Len(shipBatch) ELSE 0)
        /\ Len(Sent) <= Len(shipLog)
        /\ \A i \in 1..Len(Sent) : Sent[i] = shipLog[i]

\* Where the forwarder stands in a file that was not rotated, and what it has
\* handed over when it stands there.
GivenUp == drained \cup skipped
PositionsInv ==
    /\ GivenUp \subseteq 1..shipWritten
    /\ \A i \in 1..Len(shipBatch) : shipBatch[i] \in 1..shipWritten
    /\ shipRotations = 0 =>
         /\ stored <= shipWritten /\ 1..stored \subseteq GivenUp
         /\ offset <= shipWritten /\ 1..offset \subseteq GivenUp
         /\ pumped <= shipWritten /\ 1..pumped \subseteq GivenUp
         /\ shipPc = "drain" =>
              /\ pumped + Len(shipBatch) <= shipWritten
              /\ \A i \in 1..Len(shipBatch) : shipBatch[i] = pumped + i

LEMMA JoinedElements ==
    ASSUME NEW S, NEW s \in Seq(S), NEW t \in Seq(S)
    PROVE  F!Elements(s \o t) = F!Elements(s) \cup F!Elements(t)
<1>1. /\ s \o t \in Seq(S) /\ Len(s \o t) = Len(s) + Len(t)
      /\ Len(s) \in Nat /\ Len(t) \in Nat
      /\ DOMAIN s = 1..Len(s) /\ DOMAIN t = 1..Len(t) /\ DOMAIN (s \o t) = 1..Len(s \o t)
      /\ \A i \in 1..Len(s) + Len(t) :
           (s \o t)[i] = IF i <= Len(s) THEN s[i] ELSE t[i - Len(s)]
    BY ConcatProperties, LenProperties
<1>2. ASSUME NEW i \in 1..Len(s) + Len(t)
      PROVE  (s \o t)[i] \in F!Elements(s) \cup F!Elements(t)
    <2>1. CASE i <= Len(s)
        <3>1. i \in 1..Len(s) /\ (s \o t)[i] = s[i]
            BY <1>1, <2>1
        <3> QED BY <1>1, <3>1 DEF F!Elements
    <2>2. CASE ~(i <= Len(s))
        <3>1. i - Len(s) \in 1..Len(t) /\ (s \o t)[i] = t[i - Len(s)]
            BY <1>1, <2>2
        <3> QED BY <1>1, <3>1 DEF F!Elements
    <2> QED BY <2>1, <2>2
<1>3. \A i \in 1..Len(s) : s[i] \in F!Elements(s \o t)
    <2>1. \A i \in 1..Len(s) : i \in 1..Len(s) + Len(t) /\ (s \o t)[i] = s[i]
        BY <1>1
    <2> QED BY <1>1, <2>1 DEF F!Elements
<1>4. ASSUME NEW i \in 1..Len(t) PROVE t[i] \in F!Elements(s \o t)
    <2>1. /\ Len(s) + i \in 1..Len(s) + Len(t) /\ ~(Len(s) + i <= Len(s))
          /\ (Len(s) + i) - Len(s) = i
        BY <1>1
    <2>2. (s \o t)[Len(s) + i] = t[i]
        BY <1>1, <2>1
    <2> QED BY <1>1, <2>1, <2>2 DEF F!Elements
<1>5. F!Elements(s \o t) \subseteq F!Elements(s) \cup F!Elements(t)
    BY <1>1, <1>2 DEF F!Elements
<1>6. F!Elements(s) \cup F!Elements(t) \subseteq F!Elements(s \o t)
    BY <1>1, <1>3, <1>4 DEF F!Elements
<1> QED BY <1>5, <1>6

LEMMA EmptyElements ==
    F!Elements(<<>>) = {}
BY DEF F!Elements

LEMMA AppendedElements ==
    ASSUME NEW S, NEW s \in Seq(S), NEW e \in S
    PROVE  F!Elements(Append(s, e)) = F!Elements(s) \cup {e}
<1>1. /\ Append(s, e) \in Seq(S) /\ Len(Append(s, e)) = Len(s) + 1 /\ Len(s) \in Nat
      /\ DOMAIN s = 1..Len(s) /\ DOMAIN Append(s, e) = 1..Len(Append(s, e))
      /\ \A i \in 1..Len(s) : Append(s, e)[i] = s[i]
      /\ Append(s, e)[Len(s) + 1] = e
    BY AppendProperties, LenProperties
<1>2. \A i \in 1..Len(s) + 1 : i \in 1..Len(s) \/ i = Len(s) + 1
    BY <1>1
<1>3. \A i \in 1..Len(s) : i \in 1..Len(s) + 1
    BY <1>1
<1>4. Len(s) + 1 \in 1..Len(s) + 1
    BY <1>1
<1>5. F!Elements(Append(s, e)) \subseteq F!Elements(s) \cup {e}
    BY <1>1, <1>2 DEF F!Elements
<1>6. F!Elements(s) \cup {e} \subseteq F!Elements(Append(s, e))
    BY <1>1, <1>3, <1>4 DEF F!Elements
<1> QED BY <1>5, <1>6

LEMMA HeadElements ==
    ASSUME NEW S, NEW s \in Seq(S), s # <<>>
    PROVE  F!Elements(s) = {Head(s)} \cup F!Elements(Tail(s))
<1>1. /\ Tail(s) \in Seq(S) /\ Len(Tail(s)) = Len(s) - 1 /\ Len(s) \in Nat /\ Len(s) >= 1
      /\ \A i \in 1..Len(Tail(s)) : Tail(s)[i] = s[i + 1]
      /\ DOMAIN s = 1..Len(s) /\ DOMAIN Tail(s) = 1..Len(Tail(s)) /\ Head(s) = s[1]
    BY HeadTailProperties, LenProperties, EmptySeq
<1>2. \A i \in 1..Len(s) : i = 1 \/ (i - 1 \in 1..Len(Tail(s)) /\ (i - 1) + 1 = i)
    BY <1>1
<1>3. \A i \in 1..Len(Tail(s)) : i + 1 \in 1..Len(s)
    BY <1>1
<1>4. 1 \in 1..Len(s)
    BY <1>1
<1>5. ASSUME NEW i \in 1..Len(s) PROVE s[i] \in {Head(s)} \cup F!Elements(Tail(s))
    <2>1. CASE i = 1
        BY <1>1, <2>1
    <2>2. CASE i - 1 \in 1..Len(Tail(s)) /\ (i - 1) + 1 = i
        <3>1. Tail(s)[i - 1] = s[i]
            BY <1>1, <2>2
        <3> QED BY <1>1, <2>2, <3>1 DEF F!Elements
    <2> QED BY <1>2, <2>1, <2>2
<1>6. F!Elements(s) \subseteq {Head(s)} \cup F!Elements(Tail(s))
    BY <1>1, <1>5 DEF F!Elements
<1>7. {Head(s)} \cup F!Elements(Tail(s)) \subseteq F!Elements(s)
    BY <1>1, <1>3, <1>4 DEF F!Elements
<1> QED BY <1>6, <1>7

\* The forwarder's numbers and sequences.
LEMMA ShipNumbers ==
    ASSUME F!TypeOK
    PROVE  /\ shipWritten \in Nat /\ shipWritten <= MaxShipped
           /\ stored \in Nat /\ offset \in Nat /\ pumped \in Nat
           /\ cuts \in Nat /\ shipCrashes \in Nat /\ shipRotations \in Nat
           /\ Len(shipLog) \in Nat /\ Len(shipBatch) \in Nat /\ Len(received) \in Nat
           /\ \A i \in 1..Len(shipLog) : shipLog[i] \in F!Lines
           /\ \A i \in 1..Len(shipBatch) : shipBatch[i] \in F!Lines
           /\ \A c \in F!Conns : wire[c] \in Seq(F!Lines)
<1>1. shipLog \in Seq(F!Lines) /\ shipBatch \in Seq(F!Lines) /\ received \in Seq(F!Lines)
    BY DEF F!TypeOK
<1>2. /\ Len(shipLog) \in Nat /\ Len(shipBatch) \in Nat /\ Len(received) \in Nat
      /\ \A i \in 1..Len(shipLog) : shipLog[i] \in F!Lines
      /\ \A i \in 1..Len(shipBatch) : shipBatch[i] \in F!Lines
    BY <1>1, LenProperties, ElementOfSeq
<1>3. /\ shipWritten \in 0..MaxShipped /\ cuts \in 0..MaxCuts
      /\ shipCrashes \in 0..MaxCrashes /\ shipRotations \in 0..MaxRotations
    BY DEF F!TypeOK
<1>4. stored \in Nat /\ offset \in Nat /\ pumped \in Nat
    BY DEF F!TypeOK
<1>5. \A c \in F!Conns : wire[c] \in Seq(F!Lines)
    BY DEF F!TypeOK
<1> QED BY <1>2, <1>3, <1>4, <1>5, PathNumbers

\* The next batch repeats the file from _pump's position on.
LEMMA NextBatchFacts ==
    ASSUME F!TypeOK
    PROVE  /\ F!NextBatch \in Seq(F!Lines) /\ Len(F!NextBatch) \in Nat
           /\ \A i \in 1..Len(F!NextBatch) : /\ pumped + i \in 1..Len(shipLog)
                                             /\ F!NextBatch[i] = shipLog[pumped + i]
           /\ pumped <= Len(shipLog) => pumped + Len(F!NextBatch) <= Len(shipLog)
           /\ F!NextBatch = <<>> <=> Len(F!NextBatch) = 0
<1>1. pumped \in Nat /\ Len(shipLog) \in Nat /\ BatchSize \in Nat /\ BatchSize > 0
      /\ \A i \in 1..Len(shipLog) : shipLog[i] \in F!Lines
    BY ShipNumbers, PathNumbers
<1> DEFINE m == pumped + 1
           n == IF Len(shipLog) < pumped + BatchSize THEN Len(shipLog) ELSE pumped + BatchSize
<1>2. m \in Int /\ n \in Int /\ m >= 1 /\ n <= Len(shipLog)
    BY <1>1
<1>3. \A i \in m..n : shipLog[i] \in F!Lines
    BY <1>1, <1>2
<1>4. F!NextBatch = SubSeq(shipLog, m, n)
    BY DEF F!NextBatch
<1> HIDE DEF m, n
<1>5. /\ F!NextBatch \in Seq(F!Lines)
      /\ Len(F!NextBatch) = IF m <= n THEN n - m + 1 ELSE 0
      /\ \A i \in 1..n - m + 1 : F!NextBatch[i] = shipLog[m + i - 1]
    BY <1>2, <1>3, <1>4, SubSeqProperties
<1>6. Len(F!NextBatch) \in Nat
    BY <1>5, LenProperties
<1>7. \A i \in 1..Len(F!NextBatch) : /\ i \in 1..n - m + 1 /\ m + i - 1 = pumped + i
                                     /\ pumped + i \in 1..Len(shipLog)
    BY <1>1, <1>2, <1>5 DEF m
<1>8. \A i \in 1..Len(F!NextBatch) : F!NextBatch[i] = shipLog[pumped + i]
    BY <1>5, <1>7
<1>9. pumped <= Len(shipLog) => pumped + Len(F!NextBatch) <= Len(shipLog)
    BY <1>1, <1>2, <1>5 DEF m
<1>10. F!NextBatch = <<>> <=> Len(F!NextBatch) = 0
    BY <1>5, EmptySeq
<1> QED BY <1>5, <1>6, <1>7, <1>8, <1>9, <1>10

LEMMA ShipTypes ==
    ASSUME F!TypeOK
    PROVE  /\ shipLog \in Seq(F!Lines) /\ received \in Seq(F!Lines) /\ shipBatch \in Seq(F!Lines)
           /\ shipPc \in {"connect", "stat", "read", "drain", "dead"}
           /\ conn \in {0} \cup F!Conns /\ link \in {"open", "cut", "closed"}
           /\ wire \in [F!Conns -> Seq(F!Lines)]
           /\ drained \subseteq F!Lines /\ skipped \subseteq F!Lines /\ lost \subseteq F!Lines
           /\ 1 \in F!Conns /\ F!Conns \subseteq Nat \ {0}
BY PathNumbers DEF F!TypeOK, F!Conns

\* The file under the forwarder.
LEMMA ShipFile ==
    ASSUME ShipInv, F!Collect \/ F!Rotate
    PROVE  ShipInv'
<1>0. /\ shipWritten \in Nat /\ Len(shipLog) \in Nat /\ MaxShipped \in Nat
      /\ shipRotations \in 0..MaxRotations /\ MaxRotations \in Nat /\ shipLog \in Seq(F!Lines)
      /\ \A i \in 1..Len(shipLog) : shipLog[i] \in F!Lines
    BY ShipNumbers, ShipTypes, PathNumbers DEF ShipInv, F!TypeOK
<1>1. UNCHANGED <<F!forwarderVars, F!netVars, F!historyVars, cuts, shipCrashes>>
    BY DEF F!Collect, F!Rotate, F!boundVars
<1>2. WireInv'
    BY <1>1 DEF ShipInv, WireInv, Accounted, F!Elements, F!InFlight, F!forwarderVars, F!netVars,
                F!historyVars
<1>3. CASE F!Collect
    <2>1. /\ shipWritten < MaxShipped /\ shipWritten' = shipWritten + 1
          /\ shipLog' = Append(shipLog, shipWritten + 1) /\ shipRotations' = shipRotations
        BY <1>3 DEF F!Collect, F!boundVars
    <2>2. shipWritten + 1 \in F!Lines /\ shipWritten' \in 0..MaxShipped
        BY <1>0, <2>1 DEF F!Lines
    <2>3. /\ shipLog' \in Seq(F!Lines) /\ Len(shipLog') = Len(shipLog) + 1
          /\ \A i \in 1..Len(shipLog) : shipLog'[i] = shipLog[i]
          /\ shipLog'[Len(shipLog) + 1] = shipWritten + 1
        BY <1>0, <2>1, <2>2, AppendProperties
    <2>4. F!TypeOK'
        BY <1>1, <2>1, <2>2, <2>3 DEF ShipInv, F!TypeOK, F!forwarderVars, F!netVars, F!historyVars
    <2>5. ShipFileInv'
        <3>1. /\ Len(shipLog) <= shipWritten
              /\ \A i \in 1..Len(shipLog) : shipLog[i] \in 1..shipWritten
              /\ shipRotations = 0 => /\ Len(shipLog) = shipWritten
                                      /\ \A i \in 1..shipWritten : shipLog[i] = i
            BY DEF ShipInv, ShipFileInv
        <3>2. \A i \in 1..Len(shipLog') : i \in 1..Len(shipLog) \/ i = Len(shipLog) + 1
            BY <1>0, <2>3
        <3>3. \A i \in 1..Len(shipLog') : shipLog'[i] \in 1..shipWritten'
            BY <1>0, <2>1, <2>3, <3>1, <3>2
        <3>4. Len(shipLog') <= shipWritten'
            BY <1>0, <2>1, <2>3, <3>1
        <3>5. ASSUME shipRotations' = 0
              PROVE  Len(shipLog') = shipWritten' /\ \A i \in 1..shipWritten' : shipLog'[i] = i
            <4>1. Len(shipLog) = shipWritten /\ \A i \in 1..shipWritten : shipLog[i] = i
                BY <2>1, <3>1, <3>5
            <4> QED BY <1>0, <2>1, <2>3, <3>2, <4>1
        <3> QED BY <3>3, <3>4, <3>5 DEF ShipFileInv
    <2> QED BY <1>2, <2>4, <2>5 DEF ShipInv
<1>4. CASE F!Rotate
    <2>1. /\ shipRotations < MaxRotations /\ shipRotations' = shipRotations + 1
          /\ shipLog' = <<>> /\ shipWritten' = shipWritten
        BY <1>4 DEF F!Rotate
    <2>2. shipLog' \in Seq(F!Lines) /\ Len(shipLog') = 0
        BY <2>1, EmptySeq
    <2>3. shipRotations' \in 0..MaxRotations /\ shipRotations' # 0
        BY <1>0, <2>1
    <2>4. F!TypeOK'
        BY <1>1, <2>1, <2>2, <2>3 DEF ShipInv, F!TypeOK, F!forwarderVars, F!netVars, F!historyVars
    <2>5. ShipFileInv'
        BY <1>0, <2>1, <2>2, <2>3 DEF ShipFileInv
    <2> QED BY <1>2, <2>4, <2>5 DEF ShipInv
<1> QED BY <1>3, <1>4

\* Every step but those of the file and the network keeps what is in flight.
LEMMA ShipConnect ==
    ASSUME ShipInv, F!Connect
    PROVE  ShipInv'
<1>1. /\ shipPc = "connect" /\ conn + 1 \in F!Conns /\ conn' = conn + 1
      /\ link' = "open" /\ pumped' = offset /\ shipPc' = "stat"
      /\ UNCHANGED <<shipLog, shipWritten, stored, offset, shipBatch, wire, received, lost,
                     drained, skipped, shipRotations, cuts, shipCrashes>>
    BY DEF F!Connect, F!historyVars, F!boundVars
<1>2. F!TypeOK'
    BY <1>1 DEF ShipInv, F!TypeOK
<1>3. ShipFileInv'
    BY <1>1 DEF ShipInv, ShipFileInv
<1>4. WireInv'
    <2>1. Accounted' = Accounted
        BY <1>1 DEF Accounted, F!Elements, F!InFlight
    <2>2. cuts = 0 /\ shipCrashes = 0 =>
            lost = {} /\ conn = 0 /\ \A c \in F!Conns : c # conn => wire[c] = <<>>
        BY <1>1 DEF ShipInv, WireInv
    <2>3. \A c \in F!Conns : c # 0
        BY PathNumbers DEF F!Conns
    <2> QED BY <1>1, <2>1, <2>2, <2>3 DEF ShipInv, WireInv
<1> QED BY <1>2, <1>3, <1>4 DEF ShipInv

\* What the rotation reset and the lag cap make of the position.
LEMMA StatFacts ==
    ASSUME F!TypeOK, F!Stat
    PROVE  /\ shipPc = "stat" /\ shipPc' \in {"stat", "read"}
           /\ pumped' \in Nat /\ pumped' <= Len(shipLog)
           /\ pumped <= Len(shipLog) => pumped <= pumped'
           /\ stored' \in {stored, pumped'}
           /\ skipped \subseteq skipped' /\ skipped' \subseteq skipped \cup {shipLog[i] : i \in 1..Len(shipLog)}
           /\ pumped <= Len(shipLog) =>
                skipped' = skipped \cup {shipLog[i] : i \in (pumped + 1)..pumped'}
           /\ UNCHANGED <<shipLog, shipWritten, offset, shipBatch, conn, link, wire, received, lost,
                          drained, shipRotations, cuts, shipCrashes>>
<1>0. Len(shipLog) \in Nat /\ pumped \in Nat /\ MaxLag \in Nat
    BY ShipNumbers, PathNumbers
<1>1. PICK from \in Nat : from = IF Len(shipLog) < pumped THEN 0 ELSE pumped
    BY <1>0
<1>2. PICK to \in Nat : to = IF Len(shipLog) - from > MaxLag THEN Len(shipLog) - MaxLag ELSE from
    <2>1. (IF Len(shipLog) - from > MaxLag THEN Len(shipLog) - MaxLag ELSE from) \in Nat
        <3>1. CASE Len(shipLog) - from > MaxLag
            <4>1. Len(shipLog) - MaxLag \in Nat
                BY <1>0, <3>1
            <4> QED BY <3>1, <4>1
        <3>2. CASE ~(Len(shipLog) - from > MaxLag)
            BY <3>2
        <3> QED BY <3>1, <3>2
    <2> QED BY <2>1
<1>3. /\ shipPc = "stat" /\ pumped' = to
      /\ stored' = IF to # pumped THEN to ELSE stored
      /\ skipped' = skipped \cup {shipLog[i] : i \in (from + 1)..to}
      /\ shipPc' = IF Len(shipLog) = to THEN "stat" ELSE "read"
      /\ UNCHANGED <<shipLog, shipWritten, offset, shipBatch, conn, link, wire, received, lost,
                     drained, shipRotations, cuts, shipCrashes>>
    BY <1>1, <1>2 DEF F!Stat, F!netVars, F!boundVars
<1>4. to <= Len(shipLog) /\ from <= to /\ (pumped <= Len(shipLog) => from = pumped)
    BY <1>0, <1>1, <1>2
<1>5. (from + 1)..to \subseteq 1..Len(shipLog)
    BY <1>0, <1>4
<1>6. skipped \subseteq skipped' /\ skipped' \subseteq skipped \cup {shipLog[i] : i \in 1..Len(shipLog)}
    BY <1>3, <1>5
<1>7. pumped <= Len(shipLog) =>
         skipped' = skipped \cup {shipLog[i] : i \in (pumped + 1)..pumped'}
    BY <1>3, <1>4
<1> QED BY <1>3, <1>4, <1>6, <1>7

LEMMA ShipStat ==
    ASSUME ShipInv, F!Stat
    PROVE  ShipInv'
<1>1. /\ shipPc = "stat" /\ shipPc' \in {"stat", "read"} /\ pumped' \in Nat
      /\ stored' \in {stored, pumped'}
      /\ skipped' \subseteq skipped \cup {shipLog[i] : i \in 1..Len(shipLog)}
      /\ UNCHANGED <<shipLog, shipWritten, offset, shipBatch, conn, link, wire, received, lost,
                     drained, shipRotations, cuts, shipCrashes>>
    BY StatFacts DEF ShipInv
<1>2. skipped' \subseteq F!Lines
    BY <1>1, ShipNumbers, ShipTypes DEF ShipInv
<1>3. F!TypeOK'
    <2>1. stored' \in Nat
        BY <1>1, ShipNumbers DEF ShipInv
    <2> QED BY <1>1, <1>2, <2>1 DEF ShipInv, F!TypeOK
<1>4. ShipFileInv'
    BY <1>1 DEF ShipInv, ShipFileInv
<1>5. WireInv'
    <2>1. Accounted' = Accounted
        BY <1>1 DEF Accounted, F!Elements, F!InFlight
    <2> QED BY <1>1, <2>1 DEF ShipInv, WireInv
<1> QED BY <1>3, <1>4, <1>5 DEF ShipInv

\* The batch is written to the connection, or falls with it.
LEMMA ShipRead ==
    ASSUME ShipInv, F!ReadBatch
    PROVE  ShipInv'
<1>1. PICK b \in Seq(F!Lines) : b = F!NextBatch
    BY NextBatchFacts DEF ShipInv
<1>2. /\ shipPc = "read" /\ shipBatch' = b
      /\ shipPc' = IF b = <<>> THEN "stat" ELSE "drain"
      /\ UNCHANGED <<shipLog, shipWritten, stored, offset, pumped, conn, link, received,
                     drained, skipped, shipRotations, cuts, shipCrashes>>
    BY <1>1 DEF F!ReadBatch, F!historyVars, F!boundVars
<1>3. /\ link = "open" => wire' = [wire EXCEPT ![conn] = @ \o b] /\ lost' = lost
      /\ link # "open" => lost' = lost \cup F!Elements(b) /\ wire' = wire
    BY <1>1 DEF F!ReadBatch, F!Ship
<1>4. /\ wire \in [F!Conns -> Seq(F!Lines)] /\ lost \subseteq F!Lines
      /\ link = "open" => conn \in F!Conns
    BY ShipTypes DEF ShipInv, WireInv
<1>5. F!Elements(b) \subseteq F!Lines
    BY <1>1, LenProperties, ElementOfSeq DEF F!Elements
<1>6. link = "open" => /\ wire[conn] \o b \in Seq(F!Lines)
                       /\ F!Elements(wire[conn] \o b) = F!Elements(wire[conn]) \cup F!Elements(b)
    BY <1>1, <1>4, ConcatProperties, JoinedElements
<1>7. wire' \in [F!Conns -> Seq(F!Lines)] /\ lost' \subseteq F!Lines
    BY <1>3, <1>4, <1>5, <1>6
<1>8. Accounted \subseteq Accounted' /\ F!Elements(b) \subseteq Accounted'
    <2>1. CASE link = "open"
        <3>1. F!Elements(b) \subseteq F!InFlight'
            <4>1. conn \in F!Conns /\ wire'[conn] = wire[conn] \o b
                BY <1>3, <1>4, <2>1
            <4>2. F!Elements(b) \subseteq F!Elements(wire'[conn])
                BY <1>6, <2>1, <4>1
            <4> QED BY <4>1, <4>2 DEF F!InFlight, F!Elements
        <3>2. F!InFlight \subseteq F!InFlight'
            <4>1. \A c \in F!Conns : F!Elements(wire[c]) \subseteq F!Elements(wire'[c])
                BY <1>3, <1>4, <1>6, <2>1
            <4>2. ASSUME NEW x \in F!InFlight PROVE x \in F!InFlight'
                <5>1. PICK c \in F!Conns : x \in F!Elements(wire[c])
                    BY DEF F!InFlight
                <5>2. x \in F!Elements(wire'[c])
                    BY <4>1, <5>1
                <5> QED BY <5>2 DEF F!InFlight, F!Elements
            <4> QED BY <4>2
        <3> QED BY <1>2, <1>3, <2>1, <3>1, <3>2 DEF Accounted, F!Elements
    <2>2. CASE link # "open"
        BY <1>2, <1>3, <2>2 DEF Accounted, F!Elements, F!InFlight
    <2> QED BY <2>1, <2>2
<1>9. F!TypeOK'
    BY <1>1, <1>2, <1>7 DEF ShipInv, F!TypeOK
<1>10. ShipFileInv'
    BY <1>2 DEF ShipInv, ShipFileInv
<1>11. WireInv'
    <2>1. drained' \subseteq Accounted'
        BY <1>2, <1>8 DEF ShipInv, WireInv
    <2>2. F!Elements(shipBatch') \subseteq Accounted'
        BY <1>2, <1>8
    <2>3. cuts = 0 /\ shipCrashes = 0 =>
             /\ lost = {} /\ conn = 1 /\ link = "open"
             /\ \A c \in F!Conns : c # conn => wire[c] = <<>>
        BY <1>2 DEF ShipInv, WireInv
    <2>4. cuts = 0 /\ shipCrashes = 0 =>
             lost' = {} /\ \A c \in F!Conns : c # conn => wire'[c] = <<>>
        BY <1>3, <1>4, <2>3
    <2>5. shipPc' \in {"stat", "drain"}
        BY <1>2
    <2>6. (link = "open" => conn \in F!Conns) /\ (link = "cut" => cuts > 0)
        BY DEF ShipInv, WireInv
    <2>7. F!Elements(shipBatch)' = F!Elements(shipBatch')
        BY DEF F!Elements
    <2> QED BY <1>2, <2>1, <2>2, <2>3, <2>4, <2>5, <2>6, <2>7 DEF WireInv
<1> QED BY <1>9, <1>10, <1>11 DEF ShipInv

\* drain() returns: the lines of the batch were written before.
LEMMA ShipDrain ==
    ASSUME ShipInv, F!Drain
    PROVE  ShipInv'
<1>1. /\ shipPc = "drain" /\ pumped' = pumped + Len(shipBatch) /\ stored' = pumped'
      /\ drained' = drained \cup F!Elements(shipBatch) /\ shipBatch' = <<>> /\ shipPc' = "stat"
      /\ UNCHANGED <<shipLog, shipWritten, offset, conn, link, wire, received, lost, skipped,
                     shipRotations, cuts, shipCrashes>>
    BY DEF F!Drain, F!netVars, F!boundVars
<1>2. F!Elements(shipBatch) \subseteq F!Lines /\ shipBatch' \in Seq(F!Lines) /\ pumped' \in Nat
    <2>1. F!Elements(shipBatch) \subseteq F!Lines
        BY ShipTypes, LenProperties, ElementOfSeq DEF F!Elements, ShipInv
    <2>2. shipBatch' \in Seq(F!Lines)
        BY <1>1, EmptySeq
    <2>3. pumped' \in Nat
        BY <1>1, ShipNumbers DEF ShipInv
    <2> QED BY <2>1, <2>2, <2>3
<1>3. F!TypeOK'
    <2>1. drained' \subseteq F!Lines
        BY <1>1, <1>2, ShipTypes DEF ShipInv
    <2> QED BY <1>1, <1>2, <2>1 DEF ShipInv, F!TypeOK
<1>4. ShipFileInv'
    BY <1>1 DEF ShipInv, ShipFileInv
<1>5. WireInv'
    <2>1. Accounted' = Accounted
        BY <1>1 DEF Accounted, F!Elements, F!InFlight
    <2>2. drained' \subseteq Accounted
        BY <1>1 DEF ShipInv, WireInv
    <2> QED BY <1>1, <2>1, <2>2 DEF ShipInv, WireInv
<1> QED BY <1>3, <1>4, <1>5 DEF ShipInv

\* A connection or the forwarder itself goes down, or comes back.
LEMMA ShipBreak ==
    ASSUME ShipInv, F!DrainRaises \/ F!Crash \/ F!Restart \/ F!Cut
    PROVE  ShipInv'
<1>0. /\ cuts \in Nat /\ shipCrashes \in Nat /\ stored \in Nat /\ offset \in Nat
      /\ MaxCuts \in Nat /\ MaxCrashes \in Nat
      /\ cuts \in 0..MaxCuts /\ shipCrashes \in 0..MaxCrashes
    BY ShipNumbers, PathNumbers DEF ShipInv, F!TypeOK
<1>1. UNCHANGED <<shipLog, shipWritten, stored, pumped, conn, wire, received, lost,
                  drained, skipped, shipRotations>>
    BY DEF F!DrainRaises, F!Crash, F!Restart, F!Cut, F!forwarderVars, F!netVars, F!historyVars,
           F!boundVars
<1>2. /\ (shipBatch' = shipBatch) \/ (shipBatch' = <<>>)
      /\ offset' \in Nat
      /\ link' \in {"cut", "closed"} \/ link' = link
      /\ shipPc' \in {"connect", "dead"} \/ (shipPc' = shipPc /\ shipBatch' = shipBatch)
      /\ cuts' \in 0..MaxCuts /\ shipCrashes' \in 0..MaxCrashes
      /\ link' = "cut" => cuts' > 0
      /\ cuts' = 0 /\ shipCrashes' = 0 => FALSE
    <2>1. CASE F!DrainRaises
        <3>1. cuts > 0
            BY <2>1 DEF F!DrainRaises, ShipInv, WireInv
        <3>2. /\ shipBatch' = <<>> /\ link' = "closed" /\ shipPc' = "connect"
              /\ UNCHANGED <<offset, cuts, shipCrashes>>
            BY <2>1 DEF F!DrainRaises, F!boundVars
        <3> QED BY <1>0, <3>1, <3>2
    <2>2. CASE F!Crash
        <3>1. /\ shipBatch' = <<>> /\ link' = "closed" /\ shipPc' = "dead"
              /\ shipCrashes < MaxCrashes /\ shipCrashes' = shipCrashes + 1
              /\ UNCHANGED <<offset, cuts>>
            BY <2>2 DEF F!Crash
        <3>2. shipCrashes' \in 0..MaxCrashes /\ shipCrashes' # 0
            BY <1>0, <3>1
        <3> QED BY <1>0, <3>1, <3>2
    <2>3. CASE F!Restart
        <3>1. cuts > 0 \/ shipCrashes > 0
            BY <1>0, <2>3 DEF F!Restart, ShipInv, WireInv
        <3>2. link = "cut" => cuts > 0
            BY DEF ShipInv, WireInv
        <3> QED BY <1>0, <2>3, <3>1, <3>2 DEF F!Restart, F!netVars, F!boundVars
    <2>4. CASE F!Cut
        BY <1>0, <2>4 DEF F!Cut, F!forwarderVars
    <2> QED BY <2>1, <2>2, <2>3, <2>4
<1>3. shipBatch' \in Seq(F!Lines)
    BY <1>2, ShipTypes, EmptySeq DEF ShipInv
<1>4. /\ link' \in {"open", "cut", "closed"}
      /\ shipPc' \in {"connect", "stat", "read", "drain", "dead"}
    BY <1>2, ShipTypes DEF ShipInv
<1>5. F!TypeOK'
    BY <1>1, <1>2, <1>3, <1>4 DEF ShipInv, F!TypeOK
<1>6. ShipFileInv'
    BY <1>1 DEF ShipInv, ShipFileInv
<1>7. WireInv'
    <2>1. Accounted' = Accounted
        BY <1>1 DEF Accounted, F!Elements, F!InFlight
    <2>2. shipPc' = "drain" => shipPc = "drain" /\ shipBatch' = shipBatch
        BY <1>2
    <2>3. link' = "open" => link = "open"
        BY <1>2
    <2> QED BY <1>1, <1>2, <2>1, <2>2, <2>3 DEF ShipInv, WireInv
<1> QED BY <1>5, <1>6, <1>7 DEF ShipInv

\* Frames of a connection arrive or fall with it.
LEMMA ShipNet ==
    ASSUME ShipInv, NEW c \in F!Conns, F!Lose(c) \/ F!HandleFrame(c)
    PROVE  ShipInv'
<1>1. /\ wire[c] # <<>>
      /\ UNCHANGED <<shipLog, shipWritten, stored, offset, pumped, shipBatch, shipPc, conn, link,
                     drained, skipped, shipRotations, cuts, shipCrashes>>
    BY DEF F!Lose, F!HandleFrame, F!forwarderVars, F!historyVars, F!boundVars
<1>2. /\ wire \in [F!Conns -> Seq(F!Lines)] /\ received \in Seq(F!Lines) /\ lost \subseteq F!Lines
    BY ShipTypes DEF ShipInv
<1>3. PICK w \in Seq(F!Lines) : wire' = [wire EXCEPT ![c] = w]
    <2>1. CASE F!Lose(c)
        BY <2>1, EmptySeq DEF F!Lose
    <2>2. CASE F!HandleFrame(c)
        <3>1. wire' = [wire EXCEPT ![c] = Tail(wire[c])] /\ Tail(wire[c]) \in Seq(F!Lines)
            BY <1>1, <1>2, <2>2, HeadTailProperties DEF F!HandleFrame
        <3> QED BY <3>1
    <2> QED BY <2>1, <2>2
<1>4. /\ F!Elements(wire[c]) \subseteq F!Elements(w) \cup F!Elements(received') \cup lost'
      /\ F!Elements(received) \subseteq F!Elements(received') /\ lost \subseteq lost'
      /\ received' \in Seq(F!Lines) /\ lost' \subseteq F!Lines
    <2>1. CASE F!Lose(c)
        <3>1. F!Elements(wire[c]) \subseteq F!Lines
            BY <1>2, LenProperties, ElementOfSeq DEF F!Elements
        <3> QED BY <1>2, <2>1, <3>1 DEF F!Lose
    <2>2. CASE F!HandleFrame(c)
        <3>1. /\ received' = Append(received, Head(wire[c])) /\ lost' = lost
              /\ wire' = [wire EXCEPT ![c] = Tail(wire[c])]
            BY <2>2 DEF F!HandleFrame
        <3>2. w = Tail(wire[c])
            BY <1>2, <1>3, <3>1
        <3>3. wire[c] \in Seq(F!Lines) /\ Head(wire[c]) \in F!Lines
            BY <1>1, <1>2, HeadTailProperties
        <3>4. F!Elements(wire[c]) = {Head(wire[c])} \cup F!Elements(Tail(wire[c]))
            BY <1>1, <3>3, HeadElements
        <3>5. F!Elements(received') = F!Elements(received) \cup {Head(wire[c])}
            BY <1>2, <3>1, <3>3, AppendedElements
        <3>6. received' \in Seq(F!Lines)
            BY <1>2, <3>1, <3>3, AppendProperties
        <3> QED BY <1>2, <3>1, <3>2, <3>4, <3>5, <3>6
    <2> QED BY <2>1, <2>2
<1>5. Accounted \subseteq Accounted'
    <2>1. F!Elements(received)' = F!Elements(received')
        BY DEF F!Elements
    <2>2. ASSUME NEW x \in F!InFlight
          PROVE  x \in F!InFlight' \/ x \in F!Elements(received') \/ x \in lost'
        <3>1. PICK d \in F!Conns : x \in F!Elements(wire[d])
            BY DEF F!InFlight
        <3>2. ASSUME x \in F!Elements(wire'[d]) PROVE x \in F!InFlight'
            BY <3>2 DEF F!InFlight, F!Elements
        <3>3. CASE d = c
            <4>1. wire'[d] = w
                BY <1>2, <1>3, <3>3
            <4> QED BY <1>4, <3>1, <3>2, <3>3, <4>1
        <3>4. CASE d # c
            <4>1. wire'[d] = wire[d]
                BY <1>2, <1>3, <3>4
            <4> QED BY <3>1, <3>2, <4>1
        <3> QED BY <3>3, <3>4
    <2> QED BY <1>4, <2>1, <2>2 DEF Accounted
<1>6. F!TypeOK'
    <2>1. wire' \in [F!Conns -> Seq(F!Lines)]
        BY <1>2, <1>3
    <2> QED BY <1>1, <1>4, <2>1 DEF ShipInv, F!TypeOK
<1>7. ShipFileInv'
    BY <1>1 DEF ShipInv, ShipFileInv
<1>8. cuts = 0 /\ shipCrashes = 0 =>
        /\ lost' = {} /\ conn = 1 /\ link = "open" /\ shipPc \in {"stat", "read", "drain"}
        /\ \A d \in F!Conns : d # conn => wire'[d] = <<>>
    <2> SUFFICES ASSUME cuts = 0, shipCrashes = 0
                 PROVE  /\ lost' = {} /\ conn = 1 /\ link = "open"
                        /\ shipPc \in {"stat", "read", "drain"}
                        /\ \A d \in F!Conns : d # conn => wire'[d] = <<>>
        OBVIOUS
    <2>1. /\ lost = {} /\ \A d \in F!Conns : d # conn => wire[d] = <<>>
          /\ \/ conn = 0
             \/ conn = 1 /\ link = "open" /\ shipPc \in {"stat", "read", "drain"}
        BY DEF ShipInv, WireInv
    <2>2. c = conn /\ c # 0
        BY <1>1, <2>1, PathNumbers DEF F!Conns
    <2>3. lost' = lost
        BY <2>1, <2>2 DEF F!Lose, F!HandleFrame
    <2>4. \A d \in F!Conns : d # conn => wire'[d] = wire[d]
        BY <1>2, <1>3, <2>2
    <2> QED BY <2>1, <2>2, <2>3, <2>4
<1>9. WireInv'
    <2>1. drained \subseteq Accounted'
        BY <1>5 DEF ShipInv, WireInv
    <2>2. shipPc = "drain" => F!Elements(shipBatch) \subseteq Accounted'
        BY <1>5 DEF ShipInv, WireInv
    <2>3. (link = "open" => conn \in F!Conns) /\ (link = "cut" => cuts > 0)
        BY DEF ShipInv, WireInv
    <2>4. F!Elements(shipBatch)' = F!Elements(shipBatch)
        BY <1>1 DEF F!Elements
    <2> QED BY <1>1, <1>8, <2>1, <2>2, <2>3, <2>4 DEF WireInv
<1> QED BY <1>6, <1>7, <1>9 DEF ShipInv

LEMMA ShipInit ==
    ASSUME F!Init
    PROVE  ShipInv
<1>1. /\ shipLog \in Seq(F!Lines) /\ received \in Seq(F!Lines) /\ shipBatch \in Seq(F!Lines)
      /\ wire \in [F!Conns -> Seq(F!Lines)] /\ Len(shipLog) = 0
    BY EmptySeq DEF F!Init
<1>2. /\ shipWritten \in 0..MaxShipped /\ shipRotations \in 0..MaxRotations
      /\ cuts \in 0..MaxCuts /\ shipCrashes \in 0..MaxCrashes
    BY PathNumbers DEF F!Init
<1>3. F!TypeOK
    BY <1>1, <1>2 DEF F!Init, F!TypeOK
<1>4. ShipFileInv
    BY <1>1 DEF F!Init, ShipFileInv
<1>5. WireInv
    BY DEF F!Init, WireInv
<1> QED BY <1>3, <1>4, <1>5 DEF ShipInv

LEMMA ShipNext ==
    ASSUME ShipInv, [F!Next]_(F!vars)
    PROVE  ShipInv'
<1>1. CASE UNCHANGED F!vars
    <2>1. UNCHANGED <<shipLog, shipWritten, stored, offset, pumped, shipBatch, shipPc, conn, link,
                      wire, received, lost, drained, skipped, shipRotations, cuts, shipCrashes>>
        BY <1>1 DEF F!vars, F!forwarderVars, F!netVars, F!historyVars, F!boundVars
    <2>2. F!TypeOK' /\ ShipFileInv'
        BY <2>1 DEF ShipInv, F!TypeOK, ShipFileInv
    <2>3. Accounted' = Accounted /\ F!Elements(shipBatch)' = F!Elements(shipBatch)
        BY <2>1 DEF Accounted, F!InFlight, F!Elements
    <2>4. WireInv'
        BY <2>1, <2>3 DEF ShipInv, WireInv
    <2> QED BY <2>2, <2>4 DEF ShipInv
<1>2. CASE F!Next
    BY <1>2, ShipFile, ShipConnect, ShipStat, ShipRead, ShipDrain, ShipBreak, ShipNet
       DEF F!Next, F!Forward
<1> QED BY <1>1, <1>2

\* The forwarder's types, its file, and the whereabouts of every batch that was
\* written to a connection (log_forwarder.py, _send_batch).
THEOREM ShipInvariant == F!Spec => []ShipInv
<1>1. F!Init => ShipInv
    BY ShipInit
<1>2. ShipInv /\ [F!Next]_(F!vars) => ShipInv'
    BY ShipNext
<1> QED BY <1>1, <1>2, PTL DEF F!Spec

\* What left the forwarder is on the master, on its way, or fell with a
\* connection, and nothing falls while connections hold: for any batch size,
\* lag cap and number of faults.
THEOREM ShippedAccountedTheorem == F!Spec => []ShippedAccounted
<1>1. ShipInv => ShippedAccounted
    BY DEF ShipInv, WireInv, Accounted, ShippedAccounted, F!DrainedAccounted
<1> QED BY <1>1, ShipInvariant, PTL

\* A frame that moves from the connection to the master's file.
LEMMA MoveHead ==
    ASSUME NEW S, NEW r \in Seq(S), NEW w \in Seq(S), w # <<>>
    PROVE  Append(r, Head(w)) \o Tail(w) = r \o w
<1>1. /\ Head(w) \in S /\ Tail(w) \in Seq(S) /\ Len(Tail(w)) = Len(w) - 1
      /\ \A i \in 1..Len(Tail(w)) : Tail(w)[i] = w[i + 1]
      /\ Len(w) \in Nat /\ Len(w) >= 1 /\ Len(r) \in Nat /\ Head(w) = w[1]
    BY HeadTailProperties, LenProperties, EmptySeq
<1> DEFINE a == Append(r, Head(w))
<1>2. /\ a \in Seq(S) /\ Len(a) = Len(r) + 1
      /\ \A i \in 1..Len(r) : a[i] = r[i]
      /\ a[Len(r) + 1] = Head(w)
    BY <1>1, AppendProperties
<1> HIDE DEF a
<1>3. /\ a \o Tail(w) \in Seq(S) /\ Len(a \o Tail(w)) = Len(a) + Len(Tail(w))
      /\ \A i \in 1..Len(a) + Len(Tail(w)) :
           (a \o Tail(w))[i] = IF i <= Len(a) THEN a[i] ELSE Tail(w)[i - Len(a)]
    BY <1>1, <1>2, ConcatProperties
<1>4. /\ r \o w \in Seq(S) /\ Len(r \o w) = Len(r) + Len(w)
      /\ \A i \in 1..Len(r) + Len(w) : (r \o w)[i] = IF i <= Len(r) THEN r[i] ELSE w[i - Len(r)]
    BY ConcatProperties
<1>5. Len(a \o Tail(w)) = Len(r \o w) /\ Len(a) + Len(Tail(w)) = Len(r) + Len(w)
    BY <1>1, <1>2, <1>3, <1>4
<1>6. ASSUME NEW i \in 1..Len(r) + Len(w) PROVE (a \o Tail(w))[i] = (r \o w)[i]
    <2>1. CASE i <= Len(r)
        <3>1. i <= Len(a) /\ i \in 1..Len(r)
            BY <1>1, <1>2, <2>1
        <3> QED BY <1>2, <1>3, <1>4, <1>5, <2>1, <3>1
    <2>2. CASE i = Len(r) + 1
        <3>1. i <= Len(a) /\ ~(i <= Len(r)) /\ i - Len(r) = 1
            BY <1>1, <1>2, <2>2
        <3> QED BY <1>1, <1>2, <1>3, <1>4, <1>5, <2>2, <3>1
    <2>3. CASE i > Len(r) + 1
        <3>1. /\ ~(i <= Len(a)) /\ ~(i <= Len(r)) /\ i - Len(a) \in 1..Len(Tail(w))
              /\ (i - Len(a)) + 1 = i - Len(r)
            BY <1>1, <1>2, <2>3
        <3>2. Tail(w)[i - Len(a)] = w[i - Len(r)]
            BY <1>1, <3>1
        <3> QED BY <1>3, <1>4, <1>5, <3>1, <3>2
    <2>4. i <= Len(r) \/ i = Len(r) + 1 \/ i > Len(r) + 1
        BY <1>1
    <2> QED BY <2>1, <2>2, <2>3, <2>4
<1> QED BY <1>3, <1>4, <1>5, <1>6, SeqEqual DEF a

\* The undisturbed forwarder has at most one connection, and it is up.
LEMMA UndisturbedFacts ==
    ASSUME ShipInv, Undisturbed
    PROVE  /\ cuts = 0 /\ shipCrashes = 0 /\ shipRotations = 0 /\ skipped = {}
           /\ received \in Seq(F!Lines) /\ wire[1] \in Seq(F!Lines) /\ Sent \in Seq(F!Lines)
           /\ Len(Sent) \in Nat /\ Len(shipLog) \in Nat /\ Len(shipBatch) \in Nat /\ pumped \in Nat
           /\ \/ /\ conn = 0 /\ shipPc = "connect" /\ link = "closed"
                 /\ offset = 0 /\ Sent = <<>> /\ Len(Sent) = 0
              \/ conn = 1 /\ link = "open" /\ shipPc \in {"stat", "read", "drain"}
           /\ \A c \in F!Conns : c # conn => wire[c] = <<>>
<1>1. /\ cuts \in Nat /\ shipCrashes \in Nat /\ shipRotations \in Nat
      /\ Len(shipLog) \in Nat /\ Len(shipBatch) \in Nat /\ pumped \in Nat
    BY ShipNumbers DEF ShipInv
<1>2. cuts = 0 /\ shipCrashes = 0 /\ shipRotations = 0 /\ skipped = {}
    BY <1>1 DEF Undisturbed
<1>3. received \in Seq(F!Lines) /\ wire[1] \in Seq(F!Lines) /\ 1 \in F!Conns
    BY ShipTypes DEF ShipInv
<1>4. Sent \in Seq(F!Lines) /\ Len(Sent) \in Nat
    BY <1>3, ConcatProperties, LenProperties DEF Sent
<1>5. /\ \/ /\ conn = 0 /\ shipPc = "connect" /\ link = "closed"
            /\ offset = 0 /\ received = <<>>
         \/ conn = 1 /\ link = "open" /\ shipPc \in {"stat", "read", "drain"}
      /\ \A c \in F!Conns : c # conn => wire[c] = <<>>
    BY <1>2 DEF ShipInv, WireInv
<1>6. conn = 0 => Sent = <<>> /\ Len(Sent) = 0
    <2>1. conn = 0 => received = <<>> /\ wire[1] = <<>>
        BY <1>3, <1>5
    <2> QED BY <2>1, EmptySeq, ConcatEmptySeq DEF Sent
<1> QED BY <1>1, <1>2, <1>3, <1>4, <1>5, <1>6

\* The library's associativity, for the lines of this path.
LEMMA ConcatLines ==
    ASSUME NEW r \in Seq(F!Lines), NEW w \in Seq(F!Lines), NEW b \in Seq(F!Lines)
    PROVE  (r \o w) \o b = r \o (w \o b)
<1>1. /\ r \o w \in Seq(F!Lines) /\ Len(r \o w) = Len(r) + Len(w)
      /\ \A i \in 1..(Len(r) + Len(w)) : (r \o w)[i] = IF i <= Len(r) THEN r[i] ELSE w[i - Len(r)]
    BY ConcatProperties
<1>2. /\ w \o b \in Seq(F!Lines) /\ Len(w \o b) = Len(w) + Len(b)
      /\ \A i \in 1..(Len(w) + Len(b)) : (w \o b)[i] = IF i <= Len(w) THEN w[i] ELSE b[i - Len(w)]
    BY ConcatProperties
<1> QED BY ConcatAssociative

\* A sum of counters that is zero.
LEMMA NoneHappened ==
    \A a, b, c \in Nat : a + b + c = 0 => a = 0 /\ b = 0 /\ c = 0
OBVIOUS

\* Every step of the forwarder keeps the mirror.
LEMMA MirrorNext ==
    ASSUME ShipInv, MirrorInv, [F!Next]_(F!vars)
    PROVE  MirrorInv'
<1>0. SUFFICES ASSUME Undisturbed' PROVE MirrorInv'
    BY DEF MirrorInv
<1>1. ShipInv'
    BY ShipNext
<1>2. /\ cuts' = 0 /\ shipCrashes' = 0 /\ shipRotations' = 0 /\ skipped' = {}
    <2>1. cuts' \in 0..MaxCuts /\ shipCrashes' \in 0..MaxCrashes /\ shipRotations' \in 0..MaxRotations
        BY <1>1 DEF ShipInv, F!TypeOK
    <2>2. cuts' \in Nat /\ shipCrashes' \in Nat /\ shipRotations' \in Nat
        BY <2>1, PathNumbers
    <2>3. cuts' + shipCrashes' + shipRotations' = 0
        BY <1>0 DEF Undisturbed
    <2>4. skipped' = {}
        BY <1>0 DEF Undisturbed
    <2>5. cuts' = 0 /\ shipCrashes' = 0 /\ shipRotations' = 0
        BY <2>2, <2>3, NoneHappened
    <2> QED BY <2>4, <2>5
<1>3. cuts \in Nat /\ shipCrashes \in Nat /\ shipRotations \in Nat
    BY ShipNumbers DEF ShipInv
<1> DEFINE Goal == /\ conn' = 1 => Len(Sent') = pumped' + (IF shipPc' = "drain" THEN Len(shipBatch') ELSE 0)
                   /\ Len(Sent') <= Len(shipLog')
                   /\ \A i \in 1..Len(Sent') : Sent'[i] = shipLog'[i]
<1>4. SUFFICES Goal
    BY DEF MirrorInv
<1>5. CASE UNCHANGED F!vars
    <2>1. UNCHANGED <<shipLog, pumped, shipBatch, shipPc, conn, wire, received, skipped,
                      shipRotations, cuts, shipCrashes>>
        BY <1>5 DEF F!vars, F!forwarderVars, F!netVars, F!historyVars, F!boundVars
    <2>2. Undisturbed /\ Sent' = Sent
        BY <1>0, <2>1 DEF Undisturbed, Sent
    <2> QED BY <2>1, <2>2 DEF MirrorInv
<1>6. CASE F!Collect
    <2>1. /\ shipLog' = Append(shipLog, shipWritten + 1) /\ shipWritten < MaxShipped
          /\ UNCHANGED <<pumped, shipBatch, shipPc, conn, wire, received, skipped,
                         shipRotations, cuts, shipCrashes>>
        BY <1>6 DEF F!Collect, F!forwarderVars, F!netVars, F!historyVars, F!boundVars
    <2>2. Undisturbed /\ Sent' = Sent
        BY <1>0, <2>1 DEF Undisturbed, Sent
    <2>3. Len(Sent) \in Nat /\ Len(shipLog) \in Nat
        BY <2>2, UndisturbedFacts
    <2>4. shipWritten + 1 \in F!Lines /\ shipLog \in Seq(F!Lines)
        BY <2>1, ShipNumbers, ShipTypes, PathNumbers DEF ShipInv, F!Lines
    <2>5. Len(shipLog') = Len(shipLog) + 1 /\ \A i \in 1..Len(shipLog) : shipLog'[i] = shipLog[i]
        BY <2>1, <2>4, AppendProperties
    <2>6. /\ conn = 1 => Len(Sent) = pumped + (IF shipPc = "drain" THEN Len(shipBatch) ELSE 0)
          /\ Len(Sent) <= Len(shipLog) /\ \A i \in 1..Len(Sent) : Sent[i] = shipLog[i]
        BY <2>2 DEF MirrorInv
    <2>7. Len(Sent) <= Len(shipLog') /\ \A i \in 1..Len(Sent) : Sent[i] = shipLog'[i]
        BY <2>3, <2>5, <2>6
    <2> QED BY <2>1, <2>2, <2>6, <2>7
<1>7. CASE F!Rotate
    BY <1>2, <1>3, <1>7 DEF F!Rotate
<1>8. CASE F!Connect
    <2>1. /\ shipPc = "connect" /\ pumped' = offset /\ shipPc' = "stat"
          /\ UNCHANGED <<shipLog, wire, received, skipped, shipRotations, cuts, shipCrashes>>
        BY <1>8 DEF F!Connect, F!historyVars, F!boundVars
    <2>2. Undisturbed /\ Sent' = Sent
        BY <1>0, <2>1 DEF Undisturbed, Sent
    <2>3. offset = 0 /\ Len(Sent) = 0 /\ Len(shipLog) \in Nat
        BY <2>1, <2>2, UndisturbedFacts
    <2>4. 1..Len(Sent) = {}
        BY <2>3
    <2> QED BY <2>1, <2>2, <2>3, <2>4
<1>9. CASE F!Stat
    <2>1. /\ shipPc = "stat" /\ shipPc' \in {"stat", "read"}
          /\ pumped' \in Nat /\ (pumped <= Len(shipLog) => pumped <= pumped')
          /\ skipped \subseteq skipped'
          /\ pumped <= Len(shipLog) =>
               skipped' = skipped \cup {shipLog[i] : i \in (pumped + 1)..pumped'}
          /\ UNCHANGED <<shipLog, conn, wire, received, shipRotations, cuts, shipCrashes>>
        BY <1>9, StatFacts DEF ShipInv
    <2>2. Undisturbed /\ Sent' = Sent
        BY <1>0, <1>2, <2>1 DEF Undisturbed, Sent
    <2>3. conn = 1 /\ pumped \in Nat /\ Len(shipLog) \in Nat
        BY <2>1, <2>2, UndisturbedFacts
    <2>4. Len(Sent) = pumped /\ Len(Sent) <= Len(shipLog) /\ \A i \in 1..Len(Sent) : Sent[i] = shipLog[i]
        BY <2>1, <2>2, <2>3 DEF MirrorInv
    <2>5. pumped' = pumped
        <3>1. pumped <= pumped' /\ {shipLog[i] : i \in (pumped + 1)..pumped'} = {}
            BY <1>2, <2>1, <2>4
        <3>2. (pumped + 1)..pumped' = {}
            BY <3>1
        <3>3. ~(pumped + 1 <= pumped')
            BY <2>1, <2>3, <3>2
        <3> QED BY <2>1, <2>3, <3>1, <3>3
    <2> QED BY <2>1, <2>2, <2>4, <2>5
<1>10. CASE F!ReadBatch
    <2>1. PICK b \in Seq(F!Lines) : b = F!NextBatch
        BY NextBatchFacts DEF ShipInv
    <2>2. /\ shipPc = "read" /\ shipBatch' = b
          /\ shipPc' = IF b = <<>> THEN "stat" ELSE "drain"
          /\ link = "open" => wire' = [wire EXCEPT ![conn] = @ \o b]
          /\ UNCHANGED <<shipLog, pumped, conn, received, skipped, shipRotations, cuts, shipCrashes>>
        BY <1>10, <2>1 DEF F!ReadBatch, F!Ship, F!historyVars, F!boundVars
    <2>3. Undisturbed
        BY <1>0, <2>2 DEF Undisturbed
    <2>4. /\ conn = 1 /\ link = "open" /\ received \in Seq(F!Lines) /\ wire[1] \in Seq(F!Lines)
          /\ pumped \in Nat /\ Len(shipLog) \in Nat /\ Sent \in Seq(F!Lines) /\ Len(Sent) \in Nat
        BY <2>2, <2>3, UndisturbedFacts
    <2>5. Sent' = Sent \o b
        <3>1. wire'[1] = wire[1] \o b
            BY <2>2, <2>4, ShipTypes DEF ShipInv
        <3>2. (received \o wire[1]) \o b = received \o (wire[1] \o b)
            BY <2>1, <2>4, ConcatLines
        <3> QED BY <2>2, <3>1, <3>2 DEF Sent
    <2>6. Len(Sent) = pumped /\ Len(Sent) <= Len(shipLog) /\ \A i \in 1..Len(Sent) : Sent[i] = shipLog[i]
        BY <2>2, <2>3, <2>4 DEF MirrorInv
    <2>7. /\ Len(b) \in Nat /\ pumped + Len(b) <= Len(shipLog)
          /\ \A i \in 1..Len(b) : b[i] = shipLog[pumped + i]
          /\ b = <<>> <=> Len(b) = 0
        BY <2>1, <2>4, <2>6, NextBatchFacts DEF ShipInv
    <2>8. /\ Len(Sent') = Len(Sent) + Len(b)
          /\ \A i \in 1..Len(Sent) + Len(b) :
               Sent'[i] = IF i <= Len(Sent) THEN Sent[i] ELSE b[i - Len(Sent)]
        BY <2>4, <2>5, ConcatProperties
    <2>9. ASSUME NEW i \in 1..Len(Sent) + Len(b) PROVE Sent'[i] = shipLog[i]
        <3>1. CASE i <= Len(Sent)
            <4>1. i \in 1..Len(Sent)
                BY <2>4, <3>1
            <4> QED BY <2>6, <2>8, <3>1, <4>1
        <3>2. CASE ~(i <= Len(Sent))
            <4>1. i - Len(Sent) \in 1..Len(b) /\ pumped + (i - Len(Sent)) = i
                BY <2>4, <2>6, <2>7, <3>2
            <4> QED BY <2>7, <2>8, <3>2, <4>1
        <3> QED BY <3>1, <3>2
    <2>10. Len(Sent') = pumped + (IF shipPc' = "drain" THEN Len(b) ELSE 0)
        <3>1. Len(Sent') = pumped + Len(b)
            BY <2>6, <2>8
        <3>2. CASE b = <<>>
            BY <2>2, <2>4, <2>7, <3>1, <3>2
        <3>3. CASE b # <<>>
            BY <2>2, <3>1, <3>3
        <3> QED BY <3>2, <3>3
    <2> QED BY <2>2, <2>6, <2>7, <2>8, <2>9, <2>10
<1>11. CASE F!Drain
    <2>1. /\ shipPc = "drain" /\ pumped' = pumped + Len(shipBatch) /\ shipPc' = "stat"
          /\ UNCHANGED <<shipLog, conn, wire, received, skipped, shipRotations, cuts, shipCrashes>>
        BY <1>11 DEF F!Drain, F!netVars, F!boundVars
    <2>2. Undisturbed /\ Sent' = Sent
        BY <1>0, <2>1 DEF Undisturbed, Sent
    <2>3. conn = 1 /\ pumped \in Nat /\ Len(shipBatch) \in Nat
        BY <2>1, <2>2, UndisturbedFacts
    <2>4. Len(Sent) = pumped + Len(shipBatch) /\ Len(Sent) <= Len(shipLog)
          /\ \A i \in 1..Len(Sent) : Sent[i] = shipLog[i]
        BY <2>1, <2>2, <2>3 DEF MirrorInv
    <2> QED BY <2>1, <2>2, <2>3, <2>4
<1>12. CASE F!DrainRaises \/ F!Crash \/ F!Restart \/ F!Cut
    <2>1. CASE F!DrainRaises
        BY <1>2, <1>3, <2>1 DEF F!DrainRaises, F!boundVars, ShipInv, WireInv
    <2>2. CASE F!Crash \/ F!Cut
        BY <1>2, <1>3, <2>2 DEF F!Crash, F!Cut
    <2>3. CASE F!Restart
        BY <1>2, <2>3 DEF F!Restart, F!boundVars, ShipInv, WireInv
    <2> QED BY <1>12, <2>1, <2>2, <2>3
<1>13. ASSUME NEW c \in F!Conns, F!Lose(c) \/ F!HandleFrame(c) PROVE Goal
    <2>1. /\ wire[c] # <<>>
          /\ UNCHANGED <<shipLog, pumped, shipBatch, shipPc, conn, link, skipped,
                         shipRotations, cuts, shipCrashes>>
        BY <1>13 DEF F!Lose, F!HandleFrame, F!forwarderVars, F!historyVars, F!boundVars
    <2>2. Undisturbed
        BY <1>0, <2>1 DEF Undisturbed
    <2>3. c = 1 /\ conn = 1 /\ link = "open" /\ received \in Seq(F!Lines) /\ wire[1] \in Seq(F!Lines)
        BY <2>1, <2>2, UndisturbedFacts, ShipTypes DEF ShipInv
    <2>4. /\ received' = Append(received, Head(wire[1]))
          /\ wire' = [wire EXCEPT ![1] = Tail(wire[1])]
        BY <1>13, <2>3 DEF F!Lose, F!HandleFrame
    <2>5. Sent' = Sent
        <3>1. wire'[1] = Tail(wire[1])
            BY <2>3, <2>4, ShipTypes DEF ShipInv
        <3> QED BY <2>1, <2>3, <2>4, <3>1, MoveHead DEF Sent
    <2> QED BY <2>1, <2>2, <2>5 DEF MirrorInv
<1>14. CASE F!Next
    BY <1>6, <1>7, <1>8, <1>9, <1>10, <1>11, <1>12, <1>13, <1>14 DEF F!Next, F!Forward
<1> QED BY <1>5, <1>14

\* Without cuts, crashes, rotations and lag the master's log repeats the
\* worker's, same lines, same order, none twice, for any number of lines and any
\* batch size.
THEOREM MirrorsLogTheorem == F!Spec => []MirrorsLog
<1>1. F!Init => MirrorInv
    <2> SUFFICES ASSUME F!Init PROVE MirrorInv
        OBVIOUS
    <2>1. ShipInv /\ Undisturbed
        BY ShipInit DEF F!Init, Undisturbed
    <2>2. Len(Sent) = 0 /\ Len(shipLog) \in Nat /\ conn = 0
        BY <2>1, UndisturbedFacts DEF F!Init
    <2>3. 1..Len(Sent) = {}
        BY <2>2
    <2> QED BY <2>2, <2>3 DEF MirrorInv
<1>2. ShipInv /\ MirrorInv /\ [F!Next]_(F!vars) => MirrorInv'
    BY MirrorNext
<1>3. ShipInv /\ MirrorInv => MirrorsLog
    <2> SUFFICES ASSUME ShipInv, MirrorInv, Undisturbed
                 PROVE  \A i \in DOMAIN Sent : Sent[i] = shipLog[i]
        BY DEF MirrorsLog, F!MirrorsLog, Undisturbed, Sent
    <2>1. DOMAIN Sent = 1..Len(Sent)
        BY UndisturbedFacts, LenProperties
    <2> QED BY <2>1 DEF MirrorInv
<1> QED BY <1>1, <1>2, <1>3, ShipInvariant, PTL DEF F!Spec

\* Steps that leave the forwarder's positions, its batch and its histories alone.
LEMMA PositionsStand ==
    ASSUME ShipInv, PositionsInv,
           UNCHANGED <<stored, offset, pumped, shipBatch, shipPc, drained, skipped>>,
           shipWritten' \in Nat, shipWritten <= shipWritten',
           shipRotations' = 0 => shipRotations = 0
    PROVE  PositionsInv'
<1>0. /\ shipWritten \in Nat /\ Len(shipBatch) \in Nat
      /\ stored \in Nat /\ offset \in Nat /\ pumped \in Nat
    BY ShipNumbers DEF ShipInv
<1>1. 1..shipWritten \subseteq 1..shipWritten'
    BY <1>0
<1>2. GivenUp' = GivenUp
    BY DEF GivenUp
<1>3. GivenUp' \subseteq 1..shipWritten'
    BY <1>1, <1>2 DEF PositionsInv
<1>4. \A i \in 1..Len(shipBatch') : shipBatch'[i] \in 1..shipWritten'
    BY <1>1 DEF PositionsInv
<1>5. SUFFICES ASSUME shipRotations' = 0
               PROVE  /\ stored' <= shipWritten' /\ 1..stored' \subseteq GivenUp'
                      /\ offset' <= shipWritten' /\ 1..offset' \subseteq GivenUp'
                      /\ pumped' <= shipWritten' /\ 1..pumped' \subseteq GivenUp'
                      /\ shipPc' = "drain" =>
                           /\ pumped' + Len(shipBatch') <= shipWritten'
                           /\ \A i \in 1..Len(shipBatch') : shipBatch'[i] = pumped' + i
    BY <1>3, <1>4 DEF PositionsInv
<1>6. /\ stored <= shipWritten /\ 1..stored \subseteq GivenUp
      /\ offset <= shipWritten /\ 1..offset \subseteq GivenUp
      /\ pumped <= shipWritten /\ 1..pumped \subseteq GivenUp
      /\ shipPc = "drain" =>
           /\ pumped + Len(shipBatch) <= shipWritten
           /\ \A i \in 1..Len(shipBatch) : shipBatch[i] = pumped + i
    BY <1>5 DEF PositionsInv
<1>7. stored' <= shipWritten' /\ offset' <= shipWritten' /\ pumped' <= shipWritten'
    BY <1>0, <1>6
<1>8. shipPc' = "drain" => /\ pumped' + Len(shipBatch') <= shipWritten'
                           /\ \A i \in 1..Len(shipBatch') : shipBatch'[i] = pumped' + i
    BY <1>0, <1>6
<1> QED BY <1>2, <1>6, <1>7, <1>8

\* Steps that choose a new position among covered ones, with no batch under way.
LEMMA PositionsMove ==
    ASSUME ShipInv, PositionsInv, shipPc' # "drain",
           shipWritten' = shipWritten, shipRotations' = shipRotations,
           GivenUp \subseteq GivenUp', GivenUp' \subseteq 1..shipWritten,
           shipBatch' = shipBatch \/ shipBatch' = <<>>,
           shipRotations = 0 =>
             \A p \in {stored', offset', pumped'} : p <= shipWritten /\ 1..p \subseteq GivenUp'
    PROVE  PositionsInv'
<1>1. \A i \in 1..Len(shipBatch') : shipBatch'[i] \in 1..shipWritten'
    <2>1. CASE shipBatch' = shipBatch
        BY <2>1 DEF PositionsInv
    <2>2. CASE shipBatch' = <<>>
        <3>1. Len(shipBatch') = 0
            BY <2>2, EmptySeq
        <3> QED BY <3>1
    <2> QED BY <2>1, <2>2
<1> QED BY <1>1 DEF PositionsInv

\* stat(): the lines between the old and the new position are given up.
LEMMA PositionsStat ==
    ASSUME ShipInv, PositionsInv, F!Stat
    PROVE  PositionsInv' /\ GivenUp \subseteq GivenUp'
<1>0. /\ shipPc' \in {"stat", "read"}
      /\ pumped' \in Nat /\ pumped' <= Len(shipLog)
      /\ pumped <= Len(shipLog) => pumped <= pumped'
      /\ stored' \in {stored, pumped'}
      /\ skipped \subseteq skipped' /\ skipped' \subseteq skipped \cup {shipLog[i] : i \in 1..Len(shipLog)}
      /\ pumped <= Len(shipLog) =>
           skipped' = skipped \cup {shipLog[i] : i \in (pumped + 1)..pumped'}
      /\ UNCHANGED <<shipWritten, offset, shipBatch, drained, shipRotations>>
    BY StatFacts DEF ShipInv
<1>1. shipWritten \in Nat /\ Len(shipLog) \in Nat /\ pumped \in Nat
    BY ShipNumbers DEF ShipInv
<1>2. GivenUp \subseteq GivenUp'
    BY <1>0 DEF GivenUp
<1>3. {shipLog[i] : i \in 1..Len(shipLog)} \subseteq 1..shipWritten
    BY DEF ShipInv, ShipFileInv
<1>4. GivenUp' \subseteq 1..shipWritten
    BY <1>0, <1>3 DEF GivenUp, PositionsInv
<1>5. ASSUME shipRotations = 0
      PROVE  \A p \in {stored', offset', pumped'} : p <= shipWritten /\ 1..p \subseteq GivenUp'
    <2>1. /\ stored <= shipWritten /\ 1..stored \subseteq GivenUp
          /\ offset <= shipWritten /\ 1..offset \subseteq GivenUp
          /\ pumped <= shipWritten /\ 1..pumped \subseteq GivenUp
        BY <1>5 DEF PositionsInv
    <2>2. Len(shipLog) = shipWritten /\ \A i \in 1..shipWritten : shipLog[i] = i
        BY <1>5 DEF ShipInv, ShipFileInv
    <2>3. skipped' = skipped \cup {shipLog[i] : i \in (pumped + 1)..pumped'}
        BY <1>0, <2>1, <2>2
    <2>4. \A i \in (pumped + 1)..pumped' : i \in 1..shipWritten /\ shipLog[i] = i
        BY <1>0, <1>1, <2>2
    <2>5. \A i \in (pumped + 1)..pumped' : i \in skipped'
        BY <2>3, <2>4
    <2>6. 1..pumped' \subseteq 1..pumped \cup (pumped + 1)..pumped'
        BY <1>0, <1>1
    <2>7. 1..pumped' \subseteq GivenUp' /\ pumped' <= shipWritten
        BY <1>0, <1>2, <2>1, <2>2, <2>5, <2>6 DEF GivenUp
    <2> QED BY <1>0, <1>2, <2>1, <2>7
<1> QED BY <1>0, <1>2, <1>4, <1>5, PositionsMove

\* The batch is read from the position on.
LEMMA PositionsRead ==
    ASSUME ShipInv, PositionsInv, F!ReadBatch
    PROVE  PositionsInv' /\ GivenUp' = GivenUp
<1>1. PICK b : b = F!NextBatch
    OBVIOUS
<1>2. /\ shipBatch' = b
      /\ UNCHANGED <<shipWritten, stored, offset, pumped, drained, skipped, shipRotations>>
    BY <1>1 DEF F!ReadBatch, F!historyVars, F!boundVars
<1>3. /\ Len(b) \in Nat
      /\ pumped <= Len(shipLog) => pumped + Len(b) <= Len(shipLog)
      /\ \A i \in 1..Len(b) : pumped + i \in 1..Len(shipLog) /\ b[i] = shipLog[pumped + i]
    BY <1>1, NextBatchFacts DEF ShipInv
<1>4. GivenUp' = GivenUp
    BY <1>2 DEF GivenUp
<1>5. \A i \in 1..Len(b) : b[i] \in 1..shipWritten
    BY <1>3 DEF ShipInv, ShipFileInv
<1>6. ASSUME shipRotations = 0
      PROVE  pumped + Len(b) <= shipWritten /\ \A i \in 1..Len(b) : b[i] = pumped + i
    <2>1. Len(shipLog) = shipWritten /\ \A i \in 1..shipWritten : shipLog[i] = i
        BY <1>6 DEF ShipInv, ShipFileInv
    <2> QED BY <1>3, <1>6, <2>1 DEF PositionsInv
<1> QED BY <1>2, <1>4, <1>5, <1>6 DEF PositionsInv

\* drain() returns: the batch is behind the new position.
LEMMA PositionsDrain ==
    ASSUME ShipInv, PositionsInv, F!Drain
    PROVE  PositionsInv' /\ GivenUp \subseteq GivenUp'
<1>1. /\ shipPc = "drain" /\ pumped' = pumped + Len(shipBatch) /\ stored' = pumped'
      /\ drained' = drained \cup F!Elements(shipBatch)
      /\ shipBatch' = <<>> /\ shipPc' # "drain"
      /\ UNCHANGED <<shipWritten, offset, skipped, shipRotations>>
    BY DEF F!Drain, F!boundVars
<1>2. shipWritten \in Nat /\ pumped \in Nat /\ Len(shipBatch) \in Nat /\ shipBatch \in Seq(F!Lines)
    BY ShipNumbers, ShipTypes DEF ShipInv
<1>3. F!Elements(shipBatch) = {shipBatch[i] : i \in 1..Len(shipBatch)}
    BY <1>2, LenProperties DEF F!Elements
<1>4. GivenUp \subseteq GivenUp'
    BY <1>1 DEF GivenUp
<1>5. GivenUp' \subseteq 1..shipWritten
    BY <1>1, <1>3 DEF GivenUp, PositionsInv
<1>6. ASSUME shipRotations = 0
      PROVE  \A p \in {stored', offset', pumped'} : p <= shipWritten /\ 1..p \subseteq GivenUp'
    <2>1. /\ offset <= shipWritten /\ 1..offset \subseteq GivenUp
          /\ pumped <= shipWritten /\ 1..pumped \subseteq GivenUp
          /\ pumped + Len(shipBatch) <= shipWritten
          /\ \A i \in 1..Len(shipBatch) : shipBatch[i] = pumped + i
        BY <1>1, <1>6 DEF PositionsInv
    <2>2. ASSUME NEW j \in 1..pumped' PROVE j \in GivenUp'
        <3>1. CASE j <= pumped
            BY <1>2, <1>4, <2>1, <3>1
        <3>2. CASE j > pumped
            <4>1. j - pumped \in 1..Len(shipBatch) /\ j = pumped + (j - pumped)
                BY <1>1, <1>2, <3>2
            <4>2. j \in F!Elements(shipBatch)
                BY <1>3, <2>1, <4>1
            <4> QED BY <1>1, <4>2 DEF GivenUp
        <3> QED BY <1>1, <1>2, <3>1, <3>2
    <2> QED BY <1>1, <1>4, <2>1, <2>2
<1> QED BY <1>1, <1>4, <1>5, <1>6, PositionsMove

\* A connection begins at the offset, a failed or killed forwarder drops its
\* batch, a restarted one reads the store.
LEMMA PositionsChoose ==
    ASSUME ShipInv, PositionsInv, F!Connect \/ F!DrainRaises \/ F!Crash \/ F!Restart
    PROVE  PositionsInv' /\ GivenUp' = GivenUp
<1>1. /\ {stored', offset', pumped'} \subseteq {stored, offset, pumped}
      /\ UNCHANGED <<shipWritten, drained, skipped, shipRotations>>
      /\ shipBatch' = shipBatch \/ shipBatch' = <<>>
      /\ shipPc' # "drain"
    BY DEF F!Connect, F!DrainRaises, F!Crash, F!Restart, F!historyVars, F!boundVars, F!netVars
<1>2. GivenUp' = GivenUp
    BY <1>1 DEF GivenUp
<1>3. GivenUp' \subseteq 1..shipWritten
    BY <1>2 DEF PositionsInv
<1>4. shipRotations = 0 =>
        \A p \in {stored', offset', pumped'} : p <= shipWritten /\ 1..p \subseteq GivenUp'
    BY <1>1, <1>2 DEF PositionsInv
<1> QED BY <1>1, <1>2, <1>3, <1>4, PositionsMove

\* What a step may do to the promise: the file grows by one line, or the line
\* count stands and no line is taken back from what was handed over.
LEMMA PositionsNext ==
    ASSUME ShipInv, PositionsInv, [F!Next]_(F!vars)
    PROVE  /\ PositionsInv'
           /\ \/ /\ shipWritten < MaxShipped /\ shipWritten' = shipWritten + 1
                 /\ UNCHANGED <<drained, skipped, stored, shipRotations>>
              \/ /\ shipWritten' = shipWritten /\ GivenUp \subseteq GivenUp'
                 /\ shipRotations' = shipRotations \/ shipRotations' # 0
<1>0. shipWritten \in Nat /\ shipRotations \in Nat /\ MaxShipped \in Nat
    BY ShipNumbers, PathNumbers DEF ShipInv
<1>1. CASE F!Collect
    <2>1. /\ shipWritten < MaxShipped /\ shipWritten' = shipWritten + 1
          /\ UNCHANGED <<stored, offset, pumped, shipBatch, shipPc, drained, skipped, shipRotations>>
        BY <1>1 DEF F!Collect, F!forwarderVars, F!historyVars, F!boundVars
    <2>2. PositionsInv'
        BY <1>0, <2>1, PositionsStand
    <2> QED BY <2>1, <2>2
<1>2. CASE F!Rotate
    <2>1. /\ shipRotations' = shipRotations + 1
          /\ UNCHANGED <<shipWritten, stored, offset, pumped, shipBatch, shipPc, drained, skipped>>
        BY <1>2 DEF F!Rotate, F!forwarderVars, F!historyVars
    <2>2. shipRotations' # 0 /\ GivenUp' = GivenUp
        BY <1>0, <2>1 DEF GivenUp
    <2>3. PositionsInv'
        BY <1>0, <2>1, <2>2, PositionsStand
    <2> QED BY <2>1, <2>2, <2>3
<1>3. CASE UNCHANGED F!vars \/ F!Cut \/ (\E c \in F!Conns : F!Lose(c) \/ F!HandleFrame(c))
    <2>1. UNCHANGED <<shipWritten, stored, offset, pumped, shipBatch, shipPc, drained, skipped,
                      shipRotations>>
        BY <1>3 DEF F!Cut, F!Lose, F!HandleFrame, F!vars, F!forwarderVars, F!historyVars, F!boundVars
    <2>2. GivenUp' = GivenUp
        BY <2>1 DEF GivenUp
    <2>3. PositionsInv'
        BY <1>0, <2>1, PositionsStand
    <2> QED BY <2>1, <2>2, <2>3
<1>4. CASE F!Stat
    <2>1. UNCHANGED <<shipWritten, shipRotations>>
        BY <1>4 DEF F!Stat, F!boundVars
    <2> QED BY <1>4, <2>1, PositionsStat
<1>5. CASE F!ReadBatch
    <2>1. UNCHANGED <<shipWritten, shipRotations>>
        BY <1>5 DEF F!ReadBatch, F!boundVars
    <2> QED BY <1>5, <2>1, PositionsRead
<1>6. CASE F!Drain
    <2>1. UNCHANGED <<shipWritten, shipRotations>>
        BY <1>6 DEF F!Drain, F!boundVars
    <2> QED BY <1>6, <2>1, PositionsDrain
<1>7. CASE F!Connect \/ F!DrainRaises \/ F!Crash \/ F!Restart
    <2>1. UNCHANGED <<shipWritten, shipRotations>>
        BY <1>7 DEF F!Connect, F!DrainRaises, F!Crash, F!Restart, F!boundVars
    <2> QED BY <1>7, <2>1, PositionsChoose
<1> QED BY <1>1, <1>2, <1>3, <1>4, <1>5, <1>6, <1>7 DEF F!Next, F!Forward

\* The positions hold from the start.
LEMMA PositionsInit == F!Init => PositionsInv
<1> SUFFICES ASSUME F!Init PROVE PositionsInv
    OBVIOUS
<1>1. /\ shipWritten = 0 /\ stored = 0 /\ offset = 0 /\ pumped = 0 /\ drained = {} /\ skipped = {}
      /\ shipPc = "connect"
    BY DEF F!Init
<1>2. Len(shipBatch) = 0
    BY EmptySeq DEF F!Init
<1>3. GivenUp = {}
    BY <1>1 DEF GivenUp
<1> QED BY <1>1, <1>2, <1>3 DEF PositionsInv

\* For every file, batch size, number of connections, rotations and crashes:
\* a saved offset has behind it only lines that were sent or given up for lag,
\* until the file is rotated.
THEOREM PositionsInvariant == F!Spec => []PositionsInv
BY PositionsInit, PositionsNext, ShipInvariant, PTL DEF F!Spec

\* The forwarder implements the safety part of the checkpoint promise, step by
\* step: "offset persistence MUST be transactional w.r.t. the send"
\* (log_forwarder.py:15-16).
THEOREM ForwarderPromiseKept == F!Spec => F!Promise!Safety
<1>1. F!Init => F!Promise!Init
    BY DEF F!Init, F!Promise!Init
<1>2. ShipInv /\ ShipInv' /\ PositionsInv /\ [F!Next]_(F!vars)
        => [F!Promise!Next]_(F!Promise!vars)
    <2> SUFFICES ASSUME ShipInv, ShipInv', PositionsInv, [F!Next]_(F!vars)
                 PROVE  F!Promise!Next
        OBVIOUS
    <2>1. /\ PositionsInv'
          /\ \/ /\ shipWritten < MaxShipped /\ shipWritten' = shipWritten + 1
                /\ UNCHANGED <<drained, skipped, stored, shipRotations>>
             \/ /\ shipWritten' = shipWritten /\ GivenUp \subseteq GivenUp'
                /\ shipRotations' = shipRotations \/ shipRotations' # 0
        BY PositionsNext
    <2>2. shipWritten \in Nat /\ stored' \in Nat
        BY ShipNumbers DEF ShipInv, F!TypeOK
    <2>3. CASE /\ shipWritten < MaxShipped /\ shipWritten' = shipWritten + 1
               /\ UNCHANGED <<drained, skipped, stored, shipRotations>>
        <3>1. F!Promise!Write
            BY <2>3 DEF F!Promise!Write
        <3> QED BY <3>1 DEF F!Promise!Next
    <2>4. CASE /\ shipWritten' = shipWritten /\ GivenUp \subseteq GivenUp'
               /\ shipRotations' = shipRotations \/ shipRotations' # 0
        <3>1. GivenUp' \in SUBSET (1..shipWritten) /\ GivenUp' = GivenUp \cup GivenUp'
            BY <2>1, <2>4 DEF PositionsInv
        <3>2. CASE shipRotations' # 0
            <4>1. F!Promise!Broken
                BY <2>2, <2>4, <3>1, <3>2 DEF F!Promise!Broken, GivenUp
            <4> QED BY <4>1 DEF F!Promise!Next
        <3>3. CASE shipRotations' = 0
            <4>1. stored' \in 0..shipWritten /\ 1..stored' \subseteq GivenUp'
                BY <2>1, <2>2, <2>4, <3>3 DEF PositionsInv
            <4>2. (shipRotations = 0)' = (shipRotations = 0)
                BY <2>4, <3>3
            <4>3. F!Promise!Advance
                BY <2>4, <3>1, <4>1, <4>2 DEF F!Promise!Advance, GivenUp
            <4> QED BY <4>3 DEF F!Promise!Next
        <3> QED BY <3>2, <3>3
    <2> QED BY <2>1, <2>3, <2>4
<1> QED BY <1>1, <1>2, ShipInvariant, PositionsInvariant, PTL DEF F!Spec, F!Promise!Safety

-----------------------------------------------------------------------------
(* The pool, and the three workers side by side *)

Streams == {c \in Containers : active[c] = "streaming"}
InPool(b) == IF b THEN 1 ELSE 0

\* The pool runs no more jobs than it has threads.
PoolInv ==
    /\ events \subseteq Containers
    /\ watch \in {"none", "queued", "live", "backoff"}
    /\ recon \in {"sleep", "queued", "listing", "apply"}
    /\ C!Threads <= PoolSize

LEMMA StreamsCount ==
    /\ IsFiniteSet(Streams) /\ Cardinality(Streams) \in Nat
    /\ C!Threads = Cardinality(Streams) + InPool(watch \in {"live", "backoff"})
                     + InPool(recon = "listing")
<1>1. IsFiniteSet(Streams)
    BY PathAssumption, FS_Subset DEF Streams
<1> QED BY <1>1, SameCount, FS_CardinalityType DEF C!Threads, Streams, InPool

LEMMA StreamsThen ==
    /\ IsFiniteSet(Streams)' /\ Cardinality(Streams)' \in Nat
    /\ C!Threads' = Cardinality(Streams)' + InPool(watch' \in {"live", "backoff"})
                      + InPool(recon' = "listing")
<1>1. IsFiniteSet(Streams')
    BY PathAssumption, FS_Subset DEF Streams
<1> QED BY <1>1, SameCount, FS_CardinalityType DEF C!Threads, Streams, InPool

\* Threads that are given back, or that others go on with.
LEMMA ThreadsFall ==
    ASSUME PoolInv, Streams' \subseteq Streams, events' \subseteq Containers,
           watch' \in {"none", "queued", "live", "backoff"},
           watch' \in {"live", "backoff"} => watch \in {"live", "backoff"},
           recon' \in {"sleep", "queued", "listing", "apply"},
           recon' = "listing" => recon = "listing"
    PROVE  PoolInv'
<1>1. /\ IsFiniteSet(Streams) /\ Cardinality(Streams) \in Nat
      /\ C!Threads = Cardinality(Streams) + InPool(watch \in {"live", "backoff"})
                       + InPool(recon = "listing")
    BY StreamsCount
<1>2. /\ Cardinality(Streams)' \in Nat
      /\ C!Threads' = Cardinality(Streams)' + InPool(watch' \in {"live", "backoff"})
                        + InPool(recon' = "listing")
    BY StreamsThen
<1>3. Cardinality(Streams)' <= Cardinality(Streams)
    BY <1>1, FS_Subset
<1>4. C!Threads <= PoolSize
    BY DEF PoolInv
<1>5. C!Threads' <= PoolSize
    BY <1>1, <1>2, <1>3, <1>4, PathNumbers DEF InPool
<1> QED BY <1>5 DEF PoolInv

\* A free thread is taken by one job.
LEMMA ThreadTaken ==
    ASSUME CollectorInv, PoolInv, C!Take PROVE PoolInv'
<1>1. PICK j : j = Head(queue)
    OBVIOUS
<1>2. /\ C!Threads < PoolSize
      /\ watch' = IF j = C!Watch THEN "live" ELSE watch
      /\ recon' = IF j = C!List THEN "listing" ELSE recon
      /\ active' = IF j \in Containers THEN [active EXCEPT ![j] = "streaming"] ELSE active
      /\ events' = events
    BY <1>1 DEF C!Take
<1>3. /\ IsFiniteSet(Streams) /\ Cardinality(Streams) \in Nat
      /\ C!Threads = Cardinality(Streams) + InPool(watch \in {"live", "backoff"})
                       + InPool(recon = "listing")
    BY StreamsCount
<1>4. /\ Cardinality(Streams)' \in Nat
      /\ C!Threads' = Cardinality(Streams)' + InPool(watch' \in {"live", "backoff"})
                        + InPool(recon' = "listing")
    BY StreamsThen
<1>5. C!Watch # C!List /\ C!Watch \notin Containers /\ C!List \notin Containers
    BY PathAssumption DEF C!Watch, C!List
<1>6. active \in [Containers -> {"none", "queued", "streaming", "ended", "done"}]
    BY DEF CollectorInv, CollectorTypes
<1>7. CASE j \in Containers
    <2>1. Streams' = Streams \cup {j}
        BY <1>2, <1>6, <1>7 DEF Streams
    <2>2. Cardinality(Streams)' <= Cardinality(Streams) + 1
        <3>1. Cardinality(Streams \cup {j}) \in {Cardinality(Streams), Cardinality(Streams) + 1}
            BY <1>3, FS_AddElement
        <3> QED BY <1>3, <2>1, <3>1
    <2>3. watch' = watch /\ recon' = recon
        BY <1>2, <1>5, <1>7
    <2>4. C!Threads' <= PoolSize
        BY <1>2, <1>3, <1>4, <2>2, <2>3, PathNumbers DEF InPool
    <2> QED BY <1>2, <2>3, <2>4 DEF PoolInv
<1>8. CASE j \notin Containers
    <2>1. Streams' = Streams
        BY <1>2, <1>8 DEF Streams
    <2>2. /\ watch' = "live" \/ watch' = watch
          /\ recon' = "listing" \/ recon' = recon
          /\ watch' = watch \/ recon' = recon
        BY <1>2, <1>5
    <2>3. C!Threads' <= PoolSize
        BY <1>2, <1>3, <1>4, <2>1, <2>2, PathNumbers DEF InPool
    <2> QED BY <1>2, <2>2, <2>3 DEF PoolInv
<1> QED BY <1>7, <1>8

LEMMA PoolNext ==
    ASSUME CollectorInv, PoolInv, [C!Next]_(C!vars) PROVE PoolInv'
<1>0. /\ active \in [Containers -> {"none", "queued", "streaming", "ended", "done"}]
      /\ events \subseteq Containers
      /\ watch \in {"none", "queued", "live", "backoff"}
      /\ recon \in {"sleep", "queued", "listing", "apply"}
    BY DEF CollectorInv, CollectorTypes, PoolInv
<1>1. CASE UNCHANGED C!vars
    BY <1>0, <1>1, ThreadsFall DEF C!vars, Streams
<1>2. ASSUME NEW c \in Containers, C!Log(c) \/ C!Start(c) \/ C!Stop(c) \/ C!WatchEvent(c) \/ C!Read(c)
      PROVE  PoolInv'
    <2>1. UNCHANGED <<active, watch, recon>> /\ events' \subseteq Containers
        BY <1>0, <1>2 DEF C!Log, C!Start, C!Stop, C!WatchEvent, C!Read
    <2> QED BY <1>0, <2>1, ThreadsFall DEF Streams
<1>3. ASSUME NEW S, NEW jobs, C!Spawn(S, jobs) PROVE Streams' \subseteq Streams
    <2>1. active' = [c \in Containers |-> IF c \in C!Missing(S) THEN "queued" ELSE active[c]]
        BY <1>3 DEF C!Spawn
    <2> QED BY <2>1 DEF Streams
<1>4. ASSUME NEW c \in Containers, C!SpawnPosted(c) PROVE PoolInv'
    BY <1>0, <1>3, <1>4, ThreadsFall DEF C!SpawnPosted
<1>5. CASE C!Scan
    BY <1>0, <1>3, <1>5, ThreadsFall DEF C!Scan
<1>6. CASE C!ReconcileApplies
    BY <1>0, <1>3, <1>6, ThreadsFall DEF C!ReconcileApplies
<1>7. ASSUME NEW c \in Containers, C!StreamEnds(c) \/ C!FutureDone(c) PROVE PoolInv'
    <2>1. UNCHANGED <<watch, recon, events>>
        BY <1>7 DEF C!StreamEnds, C!FutureDone
    <2>2. PICK a \in {"ended", "done"} : active' = [active EXCEPT ![c] = a]
        BY <1>7 DEF C!StreamEnds, C!FutureDone
    <2>3. Streams' \subseteq Streams
        BY <1>0, <2>2 DEF Streams
    <2> QED BY <1>0, <2>1, <2>3, ThreadsFall
<1>8. CASE C!ReconcileWakes \/ C!ListReturns
    <2>1. UNCHANGED <<watch, events>> /\ recon' \in {"sleep", "queued", "apply"}
        BY <1>8 DEF C!ReconcileWakes, C!ListReturns
    <2>2. Streams' \subseteq Streams
        BY <1>8 DEF C!ReconcileWakes, C!ListReturns, Streams
    <2> QED BY <1>0, <2>1, <2>2, ThreadsFall
<1>9. CASE C!WatchBreaks \/ C!WatchReconnects
    <2>1. UNCHANGED <<active, recon>> /\ events' \subseteq Containers
        BY <1>0, <1>9 DEF C!WatchBreaks, C!WatchReconnects
    <2>2. watch \in {"live", "backoff"} /\ watch' \in {"live", "backoff"}
        BY <1>9 DEF C!WatchBreaks, C!WatchReconnects
    <2> QED BY <1>0, <2>1, <2>2, ThreadsFall DEF Streams
<1>10. CASE C!Die
    BY <1>10, ThreadsFall DEF C!Die, Streams
<1>11. CASE C!Take
    BY <1>11, ThreadTaken
<1>12. CASE C!ScanRaises \/ C!WatchEnds
    <2>1. UNCHANGED <<active, recon>> /\ watch' \in {watch, "none"} /\ events' \subseteq Containers
        BY <1>0, <1>12 DEF C!ScanRaises, C!WatchEnds
    <2> QED BY <1>0, <2>1, ThreadsFall DEF Streams
<1> QED
    BY <1>1, <1>2, <1>4, <1>5, <1>6, <1>7, <1>8, <1>9, <1>10, <1>11, <1>12
       DEF C!Next, C!Watcher, C!Stream, C!Reconcile

LEMMA PoolInit == C!Init => PoolInv
<1> SUFFICES ASSUME C!Init PROVE PoolInv
    OBVIOUS
<1>1. Streams = {} /\ watch = "none" /\ recon = "sleep" /\ events = {}
    BY DEF C!Init, Streams
<1>2. C!Threads = 0
    BY <1>1, StreamsCount, FS_EmptySet DEF InPool
<1> QED BY <1>1, <1>2, PathNumbers DEF PoolInv

PathInv == TailInv /\ ShipInv /\ CollectorInv /\ PoolInv

\* A step of MCLogPath is one of its subject and a stutter of the others.
LEMMA PathStep ==
    ASSUME [PathNext]_pathVars
    PROVE  [Next]_vars /\ [F!Next]_(F!vars) /\ [C!Next]_(C!vars)
<1>1. UNCHANGED shipVars => UNCHANGED F!vars
    BY DEF shipVars, F!vars, F!forwarderVars, F!netVars, F!historyVars, F!boundVars
<1>2. UNCHANGED collectVars => UNCHANGED C!vars
    BY DEF collectVars, C!vars, C!dockerVars, C!boundVars
<1>3. CASE UNCHANGED pathVars
    BY <1>1, <1>2, <1>3 DEF pathVars
<1>4. CASE PathNext
    BY <1>1, <1>2, <1>4 DEF PathNext, ByIngester, ByForwarder, ByCollector
<1> QED BY <1>3, <1>4

\* Type correctness of the three workers as MCLogPath runs them: the files, the
\* positions, batches and connections of ingester and forwarder, and the
\* collector's dict and pool, which never runs more jobs than it has threads
\* (collector_pool's max_workers), whatever starts, breaks, rotates or dies.
THEOREM PathTypeCorrect == PathSpec => []PathTypeOK
<1>1. PathInit => PathInv
    BY TailInit, ShipInit, CollectorInit, PoolInit DEF PathInit, PathInv
<1>2. PathInv /\ [PathNext]_pathVars => PathInv'
    BY PathStep, TailNext, ShipNext, CollectorNext, PoolNext DEF PathInv
<1>3. PathInv => PathTypeOK
    <2> SUFFICES ASSUME PathInv PROVE PathTypeOK
        OBVIOUS
    <2>1. TypeOK /\ F!TypeOK
        BY DEF PathInv, TailInv, ShipInv
    <2>2. C!TypeOK
        <3>1. CollectorTypes /\ PoolInv
            BY DEF PathInv, CollectorInv
        <3>2. \A i \in DOMAIN queue : queue[i] \in Jobs
            BY <3>1, LenProperties, ElementOfSeq DEF CollectorTypes
        <3>3. \A c \in Containers : pos[c] <= lines[c] /\ lines[c] <= MaxLogged
            BY <3>1, PathNumbers DEF CollectorTypes
        <3> QED BY <3>1, <3>2, <3>3 DEF C!TypeOK, CollectorTypes, PoolInv, Jobs
    <2> QED BY <2>1, <2>2 DEF PathTypeOK
<1> QED BY <1>1, <1>2, <1>3, PTL DEF PathSpec
=============================================================================
