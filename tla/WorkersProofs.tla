---------------------------- MODULE WorkersProofs ----------------------------
(***************************************************************************)
(* Proofs about the parts MCWorkers puts side by side, each for its own    *)
(* specification and for every value of its constants (those about the     *)
(* lifecycle are in DeckyLifecycleProofs), and of what they have together. *)
(***************************************************************************)
EXTENDS MCWorkers, DeckyLifecycleProofs, SequenceTheorems, TLAPS

-----------------------------------------------------------------------------
(* The updater *)

\* What a request may count on at each of its steps: which release is in
\* active.new, in active and in the agent's venv, that the symlink names this
\* venv unless repointing it failed, and what the agent's process runs then.
UpdateInv ==
    /\ job.at = "idle" <=> job = U!Idle
    /\ job.op = "self" <=> job.tree = "updater"
    /\ job.at \in {"extract", "pip", "drop", "keep", "promote", "heal"} =>
         job.op \in {"update", "self"} /\ job.rel \in Releases
    /\ job.at \in {"restart", "probe"} => job.op = "update"
    /\ job.at \in {"out", "in", "back", "respawn", "reprobe"} => job.op \in {"undo", "rollback"}
    /\ job.at = "reexec" => job.op = "self"
    /\ job.at \in {"pip", "drop", "keep", "promote"} => slots[job.tree].new = job.rel
    /\ job.at \in {"drop", "keep", "promote", "heal", "restart", "probe"} /\ job.tree = "agent" =>
         venv["agent"] = job.rel
    /\ job.at = "heal" => slots[job.tree].active = job.rel
    /\ job.at \in {"restart", "probe"} => slots["agent"].active = job.rel /\ job.rel \in Releases
    /\ job.at = "restart" => (systemd /\ stuck) \/ U!Started("agent") = job.rel
    /\ job.at = "probe" => (systemd /\ stuck) \/ proc["agent"] = job.rel
    /\ job.at \in {"back", "respawn", "reprobe"} => slots["agent"].active # U!None

\* Where the last good release is, as long as nothing unguarded happened: in
\* active, and from the rotation to the rollback in prev.
GoodInv ==
    deaths = 0 /\ ~unguarded =>
        /\ job.op # "rollback"
        /\ IF job.tree = "agent" /\ job.at \in {"promote", "heal", "restart", "probe", "out", "in"}
           THEN slots["agent"].prev = good
           ELSE slots["agent"].active = good

UpdaterInv == U!TypeOK /\ UpdateInv /\ GoodInv /\ UpdatedRuns

\* A tree's directories are renamed or removed; the other tree's stay.
LEMMA SlotsSet ==
    ASSUME U!TypeOK, NEW t \in U!Trees, NEW new \in U!Directories, U!SetSlots(t, new)
    PROVE  /\ slots' \in [U!Trees -> U!Directories]
           /\ slots'[t] = new
           /\ \A u \in U!Trees : u # t => slots'[u] = slots[u]
BY DEF U!TypeOK, U!SetSlots

\* The fields of a tree after one or two of its directories changed.
LEMMA Renamed ==
    ASSUME NEW d \in U!Directories, NEW a \in U!Held, NEW b \in U!Held
    PROVE  /\ [d EXCEPT !.new = a] \in U!Directories
           /\ [d EXCEPT !.prev = a] \in U!Directories
           /\ [d EXCEPT !.swap = a] \in U!Directories
           /\ [d EXCEPT !.prev = a, !.active = b] \in U!Directories
           /\ [d EXCEPT !.active = a, !.new = b] \in U!Directories
           /\ [d EXCEPT !.swap = a, !.active = b] \in U!Directories
           /\ [d EXCEPT !.active = a, !.prev = b] \in U!Directories
           /\ [d EXCEPT !.prev = a, !.swap = b] \in U!Directories
BY DEF U!Directories

\* The request moves on.
LEMMA Moved ==
    ASSUME U!TypeOK, NEW step \in {"pip", "drop", "keep", "promote", "heal", "restart", "probe",
                                   "reexec", "in", "back", "respawn", "reprobe"},
           U!Goto(step)
    PROVE  /\ job' \in U!Jobs /\ job' # U!Idle
           /\ job'.at = step /\ job'.op = job.op /\ job'.tree = job.tree /\ job'.rel = job.rel
           /\ UNCHANGED <<last, good, unguarded, ops, deaths>>
BY DEF U!TypeOK, U!Goto, U!Jobs, U!Idle

\* The request is answered.
LEMMA Ended ==
    ASSUME U!TypeOK, NEW how \in {"updated", "error", "raised", "rolled_back", "failed",
                                  "self_update_queued"},
           NEW active, U!End(how, active)
    PROVE  /\ job' = U!Idle /\ job' \in U!Jobs
           /\ last' \in U!Ends /\ last'.how = how /\ last'.rel = job.rel
           /\ good' = IF how \in {"updated", "rolled_back"} THEN active ELSE good
           /\ how = "raised" => unguarded'
           /\ how # "raised" => unguarded' = unguarded
           /\ unguarded' \in BOOLEAN
           /\ ops' = ops /\ deaths' = deaths
           /\ job'.at = "idle" /\ job'.op = "none" /\ job'.tree = "agent"
<1>1. job \in U!Jobs /\ unguarded \in BOOLEAN
  BY DEF U!TypeOK
<1>2. /\ job' = U!Idle /\ last' = [how |-> how, rel |-> job.rel]
      /\ good' = (IF how \in {"updated", "rolled_back"} THEN active ELSE good)
      /\ unguarded' = (unguarded \/ how = "raised") /\ ops' = ops /\ deaths' = deaths
  BY DEF U!End
<1>3. job' \in U!Jobs /\ job'.at = "idle" /\ job'.op = "none" /\ job'.tree = "agent"
  BY <1>2 DEF U!Idle, U!Jobs, U!Trees
<1>4. last' \in U!Ends /\ last'.how = how /\ last'.rel = job.rel
  BY <1>1, <1>2 DEF U!Ends, U!Jobs
<1>5. /\ how = "raised" => unguarded'
      /\ how # "raised" => unguarded' = unguarded
      /\ unguarded' \in BOOLEAN
  BY <1>1, <1>2
<1> QED
  BY <1>2, <1>3, <1>4, <1>5

\* What the steps read: the request, its tree and the agent's directories.
LEMMA UpdaterFacts ==
    ASSUME U!TypeOK
    PROVE  /\ job \in U!Jobs /\ job.tree \in U!Trees /\ "agent" \in U!Trees
           /\ job.rel \in U!Held /\ U!None \in U!Held /\ U!Partial \in U!Held
           /\ U!Here = slots[job.tree]
           /\ \A t \in U!Trees : /\ slots[t] \in U!Directories
                                 /\ slots[t].active \in U!Held /\ slots[t].prev \in U!Held
                                 /\ slots[t].new \in U!Held /\ slots[t].swap \in U!Held
<1>1. job \in U!Jobs /\ \A t \in U!Trees : slots[t] \in U!Directories
  BY DEF U!TypeOK
<1>2. job.tree \in U!Trees /\ job.rel \in Releases \cup {U!None}
  BY <1>1 DEF U!Jobs
<1>3. \A t \in U!Trees : /\ slots[t].active \in U!Held /\ slots[t].prev \in U!Held
                         /\ slots[t].new \in U!Held /\ slots[t].swap \in U!Held
  BY <1>1 DEF U!Directories
<1>4. "agent" \in U!Trees /\ U!None \in U!Held /\ U!Partial \in U!Held /\ job.rel \in U!Held
  BY <1>2 DEF U!Trees, U!Held
<1> QED
  BY <1>1, <1>2, <1>3, <1>4 DEF U!Here

\* run_update and run_update_self up to the restart.
LEMMA UpdateSteps ==
    ASSUME UpdaterInv,
           U!Extract \/ U!Pip \/ U!DropPrev \/ U!KeepActive \/ U!Promote \/ U!Heal
    PROVE  UpdaterInv'
<1>0. U!TypeOK /\ UpdateInv /\ GoodInv
  BY DEF UpdaterInv
<1>1. CASE U!Extract
  <2>1. /\ job.at = "extract"
        /\ UNCHANGED <<venv, bin, stuck, proc, healthy, systemd>>
    BY <1>1 DEF U!Extract, U!At
  <2>2. CASE U!SetSlots(job.tree, [U!Here EXCEPT !.new = job.rel]) /\ U!Goto("pip")
    <3>1. /\ job' \in U!Jobs /\ job' # U!Idle /\ job'.at = "pip" /\ job'.op = job.op
          /\ job'.tree = job.tree /\ job'.rel = job.rel
          /\ UNCHANGED <<last, good, unguarded, ops, deaths>>
      BY <1>0, <2>2, Moved
    <3>2. /\ slots' \in [U!Trees -> U!Directories]
          /\ slots'[job.tree] = [slots[job.tree] EXCEPT !.new = job.rel]
          /\ \A u \in U!Trees : u # job.tree => slots'[u] = slots[u]
      BY <1>0, <2>2, UpdaterFacts, Renamed, SlotsSet
    <3>3. /\ slots'[job.tree].new = job.rel
          /\ slots'["agent"].active = slots["agent"].active
      BY <1>0, <3>2, UpdaterFacts DEF U!Directories
    <3>4. U!TypeOK'
      BY <1>0, <2>1, <3>1, <3>2 DEF U!TypeOK
    <3>5. UpdateInv' /\ GoodInv' /\ UpdatedRuns'
      BY <1>0, <2>1, <3>1, <3>3 DEF UpdateInv, GoodInv, UpdatedRuns, U!UpdatedRuns, U!Started
    <3> QED
      BY <3>4, <3>5 DEF UpdaterInv
  <2>3. CASE UNCHANGED slots /\ U!End("error", U!None)
    BY <1>0, <2>1, <2>3, Ended DEF UpdaterInv, U!TypeOK, UpdateInv, GoodInv, UpdatedRuns,
                                   U!UpdatedRuns, U!Started, U!Idle
  <2> QED
    BY <1>1, <2>2, <2>3 DEF U!Extract
<1>2. CASE U!Pip
  <2>1. /\ job.at = "pip" /\ UNCHANGED <<bin, stuck, proc, healthy, systemd>>
    BY <1>2 DEF U!Pip, U!At
  <2>2. /\ venv \in [U!Trees -> U!Programs] /\ venv["agent"] \in Releases \cup {U!Broken}
        /\ venv["agent"] # U!Bare /\ venv["agent"] # U!None
        /\ job.rel \in Releases /\ job.tree \in U!Trees
    BY <1>0, <2>1, UpdaterFacts, ReleasesAssumption
       DEF U!TypeOK, UpdateInv, U!Bare, U!None, U!Broken
  <2> DEFINE
    Succeeds == /\ venv' = [venv EXCEPT ![job.tree] = IF venv[job.tree] = U!Bare THEN U!Bare
                                                      ELSE job.rel]
                /\ U!Goto("drop") /\ UNCHANGED slots
    Fails == /\ \E v \in U!Programs : /\ venv' = [venv EXCEPT ![job.tree] = v]
                                      /\ job.tree = "agent" => v = venv["agent"]
             /\ \E how \in {"error", "raised"} : U!End(how, U!None)
             /\ \/ UNCHANGED slots
                \/ U!SetSlots(job.tree, [U!Here EXCEPT !.new = U!None])
  <2>3. CASE Succeeds
    <3>1. /\ job' \in U!Jobs /\ job' # U!Idle /\ job'.at = "drop" /\ job'.op = job.op
          /\ job'.tree = job.tree /\ job'.rel = job.rel
          /\ UNCHANGED <<last, good, unguarded, ops, deaths>>
      BY <1>0, <2>3, Moved
    <3>2. /\ venv' \in [U!Trees -> U!Programs] /\ venv'["agent"] \in Releases \cup {U!Broken}
          /\ job.tree = "agent" => venv'["agent"] = job.rel
      BY <2>2, <2>3 DEF U!Trees, U!Programs
    <3>3. U!TypeOK'
      BY <1>0, <2>1, <2>3, <3>1, <3>2 DEF U!TypeOK
    <3>4. UpdateInv' /\ GoodInv' /\ UpdatedRuns'
      BY <1>0, <2>1, <2>3, <3>1, <3>2 DEF UpdateInv, GoodInv, UpdatedRuns, U!UpdatedRuns
    <3> QED
      BY <3>3, <3>4 DEF UpdaterInv
  <2>4. CASE Fails
    <3>1. /\ slots' \in [U!Trees -> U!Directories]
          /\ slots'["agent"].active = slots["agent"].active
      <4>1. CASE UNCHANGED slots
        BY <1>0, <4>1 DEF U!TypeOK
      <4>2. CASE U!SetSlots(job.tree, [U!Here EXCEPT !.new = U!None])
        <5>1. /\ slots' \in [U!Trees -> U!Directories]
              /\ slots'[job.tree] = [slots[job.tree] EXCEPT !.new = U!None]
              /\ \A u \in U!Trees : u # job.tree => slots'[u] = slots[u]
          BY <1>0, <4>2, UpdaterFacts, Renamed, SlotsSet
        <5> QED
          BY <1>0, <5>1, UpdaterFacts DEF U!Directories
      <4> QED
        BY <2>4, <4>1, <4>2
    <3>2. venv' \in [U!Trees -> U!Programs] /\ venv'["agent"] \in Releases \cup {U!Broken}
      BY <2>2, <2>4 DEF U!Trees
    <3>3. /\ job' = U!Idle /\ job' \in U!Jobs /\ last' \in U!Ends /\ last'.how # "updated"
          /\ good' = good /\ unguarded' \in BOOLEAN /\ ops' = ops /\ deaths' = deaths
          /\ ~unguarded' => ~unguarded
          /\ job'.at = "idle" /\ job'.op = "none" /\ job'.tree = "agent"
      <4>1. PICK how \in {"error", "raised"} : U!End(how, U!None)
        BY <2>4
      <4> QED
        BY <1>0, <4>1, Ended
    <3>4. U!TypeOK'
      BY <1>0, <2>1, <3>1, <3>2, <3>3 DEF U!TypeOK
    <3>5. UpdateInv' /\ GoodInv' /\ UpdatedRuns'
      BY <1>0, <2>1, <3>1, <3>3 DEF UpdateInv, GoodInv, UpdatedRuns, U!UpdatedRuns
    <3> QED
      BY <3>4, <3>5 DEF UpdaterInv
  <2>5. Succeeds \/ Fails
    <3>1. CASE /\ venv' = [venv EXCEPT ![job.tree] = IF venv[job.tree] = U!None THEN U!Bare
                                                     ELSE venv[job.tree]]
               /\ U!SetSlots(job.tree, [U!Here EXCEPT !.new = U!None])
               /\ U!End("error", U!None)
      <4>1. /\ (IF venv[job.tree] = U!None THEN U!Bare ELSE venv[job.tree]) \in U!Programs
            /\ job.tree = "agent" =>
                 (IF venv[job.tree] = U!None THEN U!Bare ELSE venv[job.tree]) = venv["agent"]
        BY <2>2 DEF U!Programs
      <4> QED
        BY <3>1, <4>1
    <3>2. CASE /\ venv[job.tree] = U!None
               /\ venv' \in {venv, [venv EXCEPT ![job.tree] = U!Bare]}
               /\ U!End("raised", U!None) /\ UNCHANGED slots
      <4>1. job.tree # "agent" /\ U!Bare \in U!Programs /\ venv[job.tree] \in U!Programs
        BY <2>2, <3>2 DEF U!Programs
      <4>2. venv = [venv EXCEPT ![job.tree] = venv[job.tree]]
        BY <2>2
      <4> QED
        BY <3>2, <4>1, <4>2
    <3> QED
      BY <1>2, <3>1, <3>2 DEF U!Pip
  <2> HIDE DEF Succeeds, Fails
  <2> QED
    BY <2>3, <2>4, <2>5
<1>3. CASE U!DropPrev
  <2>1. /\ job.at = "drop" /\ UNCHANGED <<venv, bin, stuck, proc, healthy, systemd>>
    BY <1>3 DEF U!DropPrev, U!At
  <2>2. /\ job' \in U!Jobs /\ job' # U!Idle /\ job'.at = "keep" /\ job'.op = job.op
        /\ job'.tree = job.tree /\ job'.rel = job.rel
        /\ UNCHANGED <<last, good, unguarded, ops, deaths>>
    BY <1>0, <1>3, Moved DEF U!DropPrev
  <2>3. /\ slots' \in [U!Trees -> U!Directories]
        /\ slots'[job.tree] = [slots[job.tree] EXCEPT !.prev = U!None]
        /\ \A u \in U!Trees : u # job.tree => slots'[u] = slots[u]
    BY <1>0, <1>3, UpdaterFacts, Renamed, SlotsSet DEF U!DropPrev
  <2>4. /\ slots'[job.tree].new = slots[job.tree].new
        /\ slots'["agent"].active = slots["agent"].active
    BY <1>0, <2>3, UpdaterFacts DEF U!Directories
  <2>5. U!TypeOK'
    BY <1>0, <2>1, <2>2, <2>3 DEF U!TypeOK
  <2>6. UpdateInv' /\ GoodInv' /\ UpdatedRuns'
    BY <1>0, <2>1, <2>2, <2>4 DEF UpdateInv, GoodInv, UpdatedRuns, U!UpdatedRuns, U!Started
  <2> QED
    BY <2>5, <2>6 DEF UpdaterInv
<1>4. CASE U!KeepActive
  <2>1. /\ job.at = "keep" /\ UNCHANGED <<venv, bin, stuck, proc, healthy, systemd>>
    BY <1>4 DEF U!KeepActive, U!At
  <2>2. /\ job' \in U!Jobs /\ job' # U!Idle /\ job'.at = "promote" /\ job'.op = job.op
        /\ job'.tree = job.tree /\ job'.rel = job.rel
        /\ UNCHANGED <<last, good, unguarded, ops, deaths>>
    BY <1>0, <1>4, Moved DEF U!KeepActive
  <2>3. /\ slots' \in [U!Trees -> U!Directories]
        /\ slots'[job.tree] = [slots[job.tree] EXCEPT !.prev = slots[job.tree].active,
                                                      !.active = U!None]
        /\ \A u \in U!Trees : u # job.tree => slots'[u] = slots[u]
    BY <1>0, <1>4, UpdaterFacts, Renamed, SlotsSet DEF U!KeepActive
  <2>4. /\ slots'[job.tree].new = slots[job.tree].new
        /\ slots'[job.tree].prev = slots[job.tree].active
        /\ job.tree # "agent" => slots'["agent"] = slots["agent"]
    BY <1>0, <2>3, UpdaterFacts DEF U!Directories
  <2>5. U!TypeOK'
    BY <1>0, <2>1, <2>2, <2>3 DEF U!TypeOK
  <2>6. UpdateInv' /\ GoodInv' /\ UpdatedRuns'
    BY <1>0, <2>1, <2>2, <2>4 DEF UpdateInv, GoodInv, UpdatedRuns, U!UpdatedRuns, U!Started
  <2> QED
    BY <2>5, <2>6 DEF UpdaterInv
<1>5. CASE U!Promote
  <2>1. /\ job.at = "promote"
        /\ UNCHANGED <<venv, bin, stuck, proc, healthy, systemd>>
    BY <1>5 DEF U!Promote, U!At
  <2>2. /\ job' \in U!Jobs /\ job' # U!Idle /\ job'.op = job.op
        /\ job'.at = "heal"
        /\ job'.tree = job.tree /\ job'.rel = job.rel
        /\ UNCHANGED <<last, good, unguarded, ops, deaths>>
    BY <1>0, <1>5, Moved DEF U!Promote
  <2>3. /\ slots' \in [U!Trees -> U!Directories]
        /\ slots'[job.tree] = [slots[job.tree] EXCEPT !.active = slots[job.tree].new,
                                                      !.new = U!None]
        /\ \A u \in U!Trees : u # job.tree => slots'[u] = slots[u]
    BY <1>0, <1>5, UpdaterFacts, Renamed, SlotsSet DEF U!Promote
  <2>4. /\ slots'[job.tree].active = slots[job.tree].new
        /\ slots'["agent"].prev = slots["agent"].prev
        /\ job.tree # "agent" => slots'["agent"] = slots["agent"]
    BY <1>0, <2>3, UpdaterFacts DEF U!Directories
  <2>5. slots[job.tree].new = job.rel /\ job.rel \in Releases /\ job.op \in {"update", "self"}
    BY <1>0, <2>1 DEF UpdateInv
  <2>6. U!TypeOK'
    BY <1>0, <2>1, <2>2, <2>3, <2>5 DEF U!TypeOK
  <2>7. job.tree \in {"agent", "updater"} /\ (job.op = "self" <=> job.tree = "updater")
    BY <1>0, UpdaterFacts DEF UpdateInv, U!Trees
  <2>8. UpdateInv' /\ GoodInv' /\ UpdatedRuns'
    BY <1>0, <2>1, <2>2, <2>4, <2>5, <2>7 DEF UpdateInv, GoodInv, UpdatedRuns, U!UpdatedRuns, U!Started
  <2> QED
    BY <2>6, <2>8 DEF UpdaterInv
<1>6. CASE U!Heal
  <2>1. /\ job.at = "heal" /\ UNCHANGED <<slots, venv, proc, healthy, systemd>>
        /\ \/ bin' = job.tree /\ stuck' = FALSE
           \/ bin' = bin /\ stuck' = TRUE
    BY <1>6 DEF U!Heal, U!At
  <2>2. /\ job' \in U!Jobs /\ job' # U!Idle /\ job'.op = job.op
        /\ job'.at = (IF job.op = "self" THEN "reexec" ELSE "restart")
        /\ job'.tree = job.tree /\ job'.rel = job.rel
        /\ UNCHANGED <<last, good, unguarded, ops, deaths>>
    BY <1>0, <1>6, Moved DEF U!Heal
  <2>3. /\ job.tree \in {"agent", "updater"} /\ (job.op = "self" <=> job.tree = "updater")
        /\ job.op \in {"update", "self"} /\ job.rel \in Releases
        /\ slots[job.tree].active = job.rel
        /\ job.tree = "agent" => venv["agent"] = job.rel
    BY <1>0, <2>1, UpdaterFacts DEF UpdateInv, U!Trees
  <2>4. bin' \in U!Trees /\ stuck' \in BOOLEAN
    BY <1>0, <2>1, <2>3 DEF U!TypeOK, U!Trees
  <2>5. U!TypeOK'
    BY <1>0, <2>1, <2>2, <2>4 DEF U!TypeOK
  <2>6. job.tree = "agent" => (systemd' /\ stuck') \/ U!Started("agent")' = job.rel
    <3>1. CASE systemd
      BY <2>1, <2>3, <3>1 DEF U!Started
    <3>2. CASE ~systemd
      BY <2>1, <2>3, <3>2 DEF U!Started
    <3> QED
      BY <3>1, <3>2
  <2>7. UpdateInv'
    BY <1>0, <2>1, <2>2, <2>3, <2>6 DEF UpdateInv
  <2>8. GoodInv' /\ UpdatedRuns'
    BY <1>0, <2>1, <2>2, <2>3 DEF GoodInv, UpdatedRuns, U!UpdatedRuns
  <2> QED
    BY <2>5, <2>7, <2>8 DEF UpdaterInv
<1> QED
  BY <1>1, <1>2, <1>3, <1>4, <1>5, <1>6

\* The restart, the probes and the re-exec.
LEMMA ProbeSteps ==
    ASSUME UpdaterInv,
           U!Restart \/ U!Respawn \/ U!ProbeUpdate \/ U!ProbeRollback \/ U!Reexec
    PROVE  UpdaterInv'
<1>0. U!TypeOK /\ UpdateInv /\ GoodInv
  BY DEF UpdaterInv
<1>a. /\ venv \in [U!Trees -> U!Programs] /\ proc \in [U!Trees -> U!Programs]
      /\ U!None \in U!Programs
      /\ \A t \in U!Trees : U!Started(t) \in U!Programs
  BY <1>0 DEF U!TypeOK, U!Trees, U!Started, U!Programs
<1>1. CASE U!Restart \/ U!Respawn
  <2>1. /\ U!Restart => job.at = "restart"
        /\ U!Respawn => job.at = "respawn"
        /\ UNCHANGED <<slots, venv, bin, stuck, healthy, systemd>>
    BY <1>1 DEF U!Restart, U!Respawn, U!At
  <2>2. CASE /\ proc' = [proc EXCEPT !["agent"] = U!Started("agent")]
             /\ \/ U!Restart /\ U!Goto("probe")
                \/ U!Respawn /\ U!Goto("reprobe")
    <3>1. /\ job' \in U!Jobs /\ job' # U!Idle /\ job'.op = job.op
          /\ job'.at = (IF job.at = "restart" THEN "probe" ELSE "reprobe")
          /\ job'.tree = job.tree /\ job'.rel = job.rel
          /\ UNCHANGED <<last, good, unguarded, ops, deaths>>
      BY <1>0, <2>1, <2>2, Moved
    <3>2. proc' \in [U!Trees -> U!Programs] /\ proc'["agent"] = U!Started("agent")
      BY <1>a, <2>2 DEF U!Trees
    <3>3. U!TypeOK'
      BY <1>0, <2>1, <3>1, <3>2 DEF U!TypeOK
    <3>4. job.at = "restart" => job.tree = "agent"
      BY <1>0, UpdaterFacts DEF UpdateInv, U!Trees
    <3>5. UpdateInv' /\ GoodInv' /\ UpdatedRuns'
      BY <1>0, <2>1, <2>2, <3>1, <3>2, <3>4 DEF UpdateInv, GoodInv, UpdatedRuns, U!UpdatedRuns, U!Started
    <3> QED
      BY <3>3, <3>5 DEF UpdaterInv
  <2>3. CASE proc' = [proc EXCEPT !["agent"] = U!None] /\ U!End("raised", U!None)
    <3>1. proc' \in [U!Trees -> U!Programs]
      BY <1>a, <2>3 DEF U!Trees
    <3>2. U!TypeOK'
      BY <1>0, <2>1, <2>3, <3>1, Ended DEF U!TypeOK
    <3>3. UpdateInv' /\ GoodInv' /\ UpdatedRuns'
      BY <1>0, <2>3, Ended DEF UpdateInv, GoodInv, UpdatedRuns, U!UpdatedRuns, U!Started
    <3> QED
      BY <3>2, <3>3 DEF UpdaterInv
  <2> QED
    BY <1>1, <2>2, <2>3 DEF U!Restart, U!Respawn
<1>2. CASE U!ProbeUpdate
  <2>1. /\ job.at = "probe" /\ job.op = "update"
        /\ UNCHANGED <<slots, venv, bin, stuck, proc, healthy, systemd>>
    BY <1>2 DEF U!ProbeUpdate, U!At
  <2>2. /\ slots["agent"].active = job.rel /\ venv["agent"] = job.rel /\ job.rel \in Releases
        /\ (systemd /\ stuck) \/ proc["agent"] = job.rel
        /\ job.tree = "agent"
    BY <1>0, <2>1, UpdaterFacts DEF UpdateInv, U!Trees
  <2>3. CASE proc["agent"] \in healthy /\ U!End("updated", U!Here.active)
    <3>1. U!Here.active = job.rel
      BY <2>2 DEF U!Here
    <3>2. /\ job' = U!Idle /\ job' \in U!Jobs
          /\ last' \in U!Ends /\ last'.how = "updated" /\ last'.rel = job.rel
          /\ good' = job.rel /\ unguarded' = unguarded /\ ops' = ops /\ deaths' = deaths
          /\ job'.at = "idle" /\ job'.op = "none" /\ job'.tree = "agent"
      BY <1>0, <2>3, <3>1, Ended
    <3>3. U!TypeOK'
      BY <1>0, <2>1, <2>2, <3>2 DEF U!TypeOK
    <3>4. UpdateInv' /\ GoodInv'
      BY <1>0, <2>1, <2>2, <3>2 DEF UpdateInv, GoodInv
    <3>5. UpdatedRuns'
      BY <2>1, <2>2, <2>3, <3>2 DEF UpdatedRuns, U!UpdatedRuns, U!Started
    <3> QED
      BY <3>3, <3>4, <3>5 DEF UpdaterInv
  <2>4. CASE job' = [job EXCEPT !.op = "undo", !.at = "out"]
             /\ UNCHANGED <<last, good, unguarded, ops, deaths>>
    <3>1. /\ job' \in U!Jobs /\ job' # U!Idle /\ job'.op = "undo" /\ job'.at = "out"
          /\ job'.tree = job.tree /\ job'.rel = job.rel
      BY <1>0, <2>4, UpdaterFacts DEF U!Jobs, U!Idle
    <3>2. U!TypeOK'
      BY <1>0, <2>1, <2>4, <3>1 DEF U!TypeOK
    <3>3. UpdateInv' /\ GoodInv' /\ UpdatedRuns'
      BY <1>0, <2>1, <2>2, <2>4, <3>1 DEF UpdateInv, GoodInv, UpdatedRuns, U!UpdatedRuns, U!Started
    <3> QED
      BY <3>2, <3>3 DEF UpdaterInv
  <2> QED
    BY <1>2, <2>3, <2>4 DEF U!ProbeUpdate
<1>3. CASE U!ProbeRollback
  <2>1. /\ job.at = "reprobe" /\ UNCHANGED <<slots, venv, bin, stuck, proc, healthy, systemd>>
        /\ U!End("rolled_back", U!Here.active) \/ U!End("failed", U!None)
    BY <1>3 DEF U!ProbeRollback, U!At
  <2>2. /\ job.tree = "agent" /\ job.op \in {"undo", "rollback"}
        /\ slots["agent"].active # U!None /\ U!Here.active = slots["agent"].active
    BY <1>0, <2>1, UpdaterFacts DEF UpdateInv, U!Trees, U!Here
  <2>3. slots["agent"].active \in Releases \cup {U!Partial}
    BY <1>0, <2>2, UpdaterFacts DEF U!Held
  <2>4. /\ job' = U!Idle /\ job' \in U!Jobs /\ last' \in U!Ends /\ last'.how # "updated"
        /\ good' \in {good, slots["agent"].active} /\ unguarded' = unguarded
        /\ ops' = ops /\ deaths' = deaths
        /\ job'.at = "idle" /\ job'.op = "none" /\ job'.tree = "agent"
    BY <1>0, <2>1, <2>2, Ended
  <2>5. U!TypeOK'
    BY <1>0, <2>1, <2>3, <2>4 DEF U!TypeOK
  <2>6. UpdateInv' /\ GoodInv' /\ UpdatedRuns'
    BY <1>0, <2>1, <2>2, <2>4 DEF UpdateInv, GoodInv, UpdatedRuns, U!UpdatedRuns, U!Started
  <2> QED
    BY <2>5, <2>6 DEF UpdaterInv
<1>4. CASE U!Reexec
  <2>1. /\ job.at = "reexec" /\ job.op = "self" /\ job.tree = "updater"
        /\ proc' = [proc EXCEPT !["updater"] = U!Serves(U!Started("updater"))]
        /\ U!End("self_update_queued", U!None)
        /\ UNCHANGED <<slots, venv, bin, stuck, healthy, systemd>>
    BY <1>0, <1>4 DEF U!Reexec, U!At, UpdateInv
  <2>2. proc' \in [U!Trees -> U!Programs]
    BY <1>a, <2>1 DEF U!Trees, U!Serves
  <2>3. U!TypeOK'
    BY <1>0, <2>1, <2>2, Ended DEF U!TypeOK
  <2>4. UpdateInv' /\ GoodInv' /\ UpdatedRuns'
    BY <1>0, <2>1, Ended DEF UpdateInv, GoodInv, UpdatedRuns, U!UpdatedRuns, U!Started
  <2> QED
    BY <2>3, <2>4 DEF UpdaterInv
<1> QED
  BY <1>1, <1>2, <1>3, <1>4

\* The rollback: active and prev change places by way of .swap.
LEMMA SwapSteps ==
    ASSUME UpdaterInv, U!SwapOut \/ U!SwapIn \/ U!SwapBack
    PROVE  UpdaterInv'
<1>0. U!TypeOK /\ UpdateInv /\ GoodInv
  BY DEF UpdaterInv
<1>a. job.tree = "agent" /\ job.op \in {"undo", "rollback"} /\ job.at \in {"out", "in", "back"}
  BY <1>0, UpdaterFacts DEF U!SwapOut, U!SwapIn, U!SwapBack, U!At, UpdateInv, U!Trees
<1>b. U!Here = slots["agent"]
  BY <1>a DEF U!Here
<1>1. CASE U!SwapOut
  <2>1. /\ job.at = "out" /\ UNCHANGED <<venv, bin, stuck, healthy, systemd>>
        /\ proc' = IF systemd THEN proc ELSE [proc EXCEPT !["agent"] = U!None]
    BY <1>1 DEF U!SwapOut, U!At
  <2>2. proc' \in [U!Trees -> U!Programs]
    BY <1>0, <2>1 DEF U!TypeOK, U!Trees, U!Programs
  <2>3. CASE /\ U!SetSlots("agent", [U!Here EXCEPT !.swap = U!Here.active, !.active = U!None])
             /\ U!Goto("in")
    <3>1. /\ job' \in U!Jobs /\ job' # U!Idle /\ job'.at = "in" /\ job'.op = job.op
          /\ job'.tree = job.tree /\ job'.rel = job.rel
          /\ UNCHANGED <<last, good, unguarded, ops, deaths>>
      BY <1>0, <2>3, Moved
    <3>2. /\ slots' \in [U!Trees -> U!Directories]
          /\ slots'["agent"] = [slots["agent"] EXCEPT !.swap = slots["agent"].active,
                                                      !.active = U!None]
      BY <1>0, <1>b, <2>3, UpdaterFacts, Renamed, SlotsSet
    <3>3. slots'["agent"].prev = slots["agent"].prev
      BY <1>0, <3>2, UpdaterFacts DEF U!Directories
    <3>4. U!TypeOK'
      BY <1>0, <2>1, <2>2, <3>1, <3>2 DEF U!TypeOK
    <3>5. UpdateInv' /\ GoodInv' /\ UpdatedRuns'
      BY <1>0, <1>a, <2>1, <3>1, <3>3 DEF UpdateInv, GoodInv, UpdatedRuns, U!UpdatedRuns, U!Started
    <3> QED
      BY <3>4, <3>5 DEF UpdaterInv
  <2>4. CASE U!SetSlots("agent", [U!Here EXCEPT !.swap = U!None]) /\ U!End("raised", U!None)
    <3>1. slots' \in [U!Trees -> U!Directories]
      BY <1>0, <1>b, <2>4, UpdaterFacts, Renamed, SlotsSet
    <3>2. U!TypeOK'
      BY <1>0, <2>1, <2>2, <2>4, <3>1, Ended DEF U!TypeOK
    <3>3. UpdateInv' /\ GoodInv' /\ UpdatedRuns'
      BY <1>0, <2>4, Ended DEF UpdateInv, GoodInv, UpdatedRuns, U!UpdatedRuns, U!Started
    <3> QED
      BY <3>2, <3>3 DEF UpdaterInv
  <2> QED
    BY <1>1, <2>3, <2>4 DEF U!SwapOut
<1>2. CASE U!SwapIn
  <2>1. /\ job.at = "in" /\ UNCHANGED <<venv, bin, stuck, proc, healthy, systemd>>
    BY <1>2 DEF U!SwapIn, U!At
  <2>2. CASE /\ U!Here.prev # U!None
             /\ U!SetSlots("agent", [U!Here EXCEPT !.active = U!Here.prev, !.prev = U!None])
             /\ U!Goto("back")
    <3>1. /\ job' \in U!Jobs /\ job' # U!Idle /\ job'.at = "back" /\ job'.op = job.op
          /\ job'.tree = job.tree /\ job'.rel = job.rel
          /\ UNCHANGED <<last, good, unguarded, ops, deaths>>
      BY <1>0, <2>2, Moved
    <3>2. /\ slots' \in [U!Trees -> U!Directories]
          /\ slots'["agent"] = [slots["agent"] EXCEPT !.active = slots["agent"].prev,
                                                      !.prev = U!None]
      BY <1>0, <1>b, <2>2, UpdaterFacts, Renamed, SlotsSet
    <3>3. slots'["agent"].active = slots["agent"].prev /\ slots["agent"].prev # U!None
      BY <1>0, <1>b, <2>2, <3>2, UpdaterFacts DEF U!Directories
    <3>4. U!TypeOK'
      BY <1>0, <2>1, <3>1, <3>2 DEF U!TypeOK
    <3>5. UpdateInv' /\ GoodInv' /\ UpdatedRuns'
      BY <1>0, <1>a, <2>1, <3>1, <3>3 DEF UpdateInv, GoodInv, UpdatedRuns, U!UpdatedRuns, U!Started
    <3> QED
      BY <3>4, <3>5 DEF UpdaterInv
  <2>3. CASE U!End("raised", U!None) /\ UNCHANGED slots
    <3>1. U!TypeOK'
      BY <1>0, <2>1, <2>3, Ended DEF U!TypeOK
    <3>2. UpdateInv' /\ GoodInv' /\ UpdatedRuns'
      BY <1>0, <2>3, Ended DEF UpdateInv, GoodInv, UpdatedRuns, U!UpdatedRuns, U!Started
    <3> QED
      BY <3>1, <3>2 DEF UpdaterInv
  <2> QED
    BY <1>2, <2>2, <2>3 DEF U!SwapIn
<1>3. CASE U!SwapBack
  <2>1. /\ job.at = "back" /\ UNCHANGED <<venv, bin, stuck, proc, healthy, systemd>>
        /\ U!SetSlots("agent", [U!Here EXCEPT !.prev = U!Here.swap, !.swap = U!None])
        /\ U!Goto("respawn")
    BY <1>3 DEF U!SwapBack, U!At
  <2>2. /\ job' \in U!Jobs /\ job' # U!Idle /\ job'.at = "respawn" /\ job'.op = job.op
        /\ job'.tree = job.tree /\ job'.rel = job.rel
        /\ UNCHANGED <<last, good, unguarded, ops, deaths>>
    BY <1>0, <2>1, Moved
  <2>3. /\ slots' \in [U!Trees -> U!Directories]
        /\ slots'["agent"] = [slots["agent"] EXCEPT !.prev = slots["agent"].swap,
                                                    !.swap = U!None]
    BY <1>0, <1>b, <2>1, UpdaterFacts, Renamed, SlotsSet
  <2>4. slots'["agent"].active = slots["agent"].active
    BY <1>0, <2>3, UpdaterFacts DEF U!Directories
  <2>5. U!TypeOK'
    BY <1>0, <2>1, <2>2, <2>3 DEF U!TypeOK
  <2>6. UpdateInv' /\ GoodInv' /\ UpdatedRuns'
    BY <1>0, <1>a, <2>1, <2>2, <2>4 DEF UpdateInv, GoodInv, UpdatedRuns, U!UpdatedRuns, U!Started
  <2> QED
    BY <2>5, <2>6 DEF UpdaterInv
<1> QED
  BY <1>1, <1>2, <1>3

\* New requests, and the death of the updater.
LEMMA RequestSteps ==
    ASSUME UpdaterInv,
           U!Rollback \/ U!Die \/ \E t \in U!Trees, r \in Releases : U!Update(t, r)
    PROVE  UpdaterInv'
<1>0. U!TypeOK /\ UpdateInv /\ GoodInv
  BY DEF UpdaterInv
<1>a. ops \in 0..MaxOps /\ deaths \in 0..MaxDeaths /\ slots \in [U!Trees -> U!Directories]
      /\ venv \in [U!Trees -> U!Programs] /\ venv["agent"] \in Releases \cup {U!Broken}
      /\ proc \in [U!Trees -> U!Programs] /\ bin \in U!Trees
  BY <1>0 DEF U!TypeOK
<1>1. CASE U!Rollback
  <2>1. /\ job = U!Idle /\ ops < MaxOps /\ ops' = ops + 1 /\ unguarded' = TRUE
        /\ job' = [op |-> "rollback", tree |-> "agent", rel |-> U!None, at |-> "out"]
        /\ UNCHANGED <<slots, venv, bin, stuck, proc, healthy, systemd, last, good, deaths>>
    BY <1>1 DEF U!Rollback
  <2>2. /\ job' \in U!Jobs /\ job' # U!Idle /\ job'.at = "out" /\ job'.op = "rollback"
        /\ job'.tree = "agent"
    BY <2>1 DEF U!Jobs, U!Idle, U!Trees
  <2>3. ops' \in 0..MaxOps
    BY <1>0, <1>a, <2>1, WorkersAssumption
  <2>4. U!TypeOK'
    BY <1>0, <2>1, <2>2, <2>3 DEF U!TypeOK
  <2>5. UpdateInv' /\ GoodInv' /\ UpdatedRuns'
    BY <1>0, <2>1, <2>2 DEF UpdateInv, GoodInv, UpdatedRuns, U!UpdatedRuns, U!Started
  <2> QED
    BY <2>4, <2>5 DEF UpdaterInv
<1>2. CASE U!Die
  <2>1. /\ job' = U!Idle /\ last' = U!NoEnd /\ deaths < MaxDeaths /\ deaths' = deaths + 1
        /\ slots' \in {slots, [slots EXCEPT ![job.tree].prev = U!Partial]}
        /\ proc' = [proc EXCEPT !["updater"] = U!Serves(venv'[bin])]
        /\ UNCHANGED <<bin, stuck, healthy, systemd, good, unguarded, ops>>
    BY <1>2 DEF U!Die
  <2>2. /\ job' \in U!Jobs /\ job'.at = "idle" /\ job'.op = "none" /\ job'.tree = "agent"
    BY <2>1 DEF U!Jobs, U!Idle, U!Trees
  <2>3. last' \in U!Ends /\ last'.how = "none"
    BY <2>1 DEF U!Ends, U!NoEnd
  <2>4. deaths' \in 0..MaxDeaths /\ deaths' # 0
    BY <1>a, <2>1, WorkersAssumption
  <2>5. /\ venv' \in [U!Trees -> U!Programs] /\ venv'["agent"] \in Releases \cup {U!Broken}
        /\ proc' \in [U!Trees -> U!Programs]
    <3>1. PICK left \in U!CutOff(venv[job.tree]) \cup {venv[job.tree]} :
            venv' = [venv EXCEPT ![job.tree] = left]
      BY <1>2 DEF U!Die
    <3>2. job.tree \in U!Trees /\ venv[job.tree] \in U!Programs
      BY <1>0, <1>a, UpdaterFacts
    <3>3. left \in U!Programs
      BY <3>1, <3>2 DEF U!CutOff, U!Programs
    <3>4. job.tree = "agent" => left \in Releases \cup {U!Broken}
      BY <1>a, <3>1, ReleasesAssumption DEF U!CutOff, U!None, U!Bare, U!Broken
    <3>5. venv' \in [U!Trees -> U!Programs] /\ venv'["agent"] \in Releases \cup {U!Broken}
      BY <1>a, <3>1, <3>2, <3>3, <3>4 DEF U!Trees
    <3>6. U!Serves(venv'[bin]) \in U!Programs
      BY <1>a, <3>5 DEF U!Serves, U!Programs
    <3> QED
      BY <1>a, <2>1, <3>5, <3>6
  <2>6. slots' \in [U!Trees -> U!Directories]
    <3>1. [slots EXCEPT ![job.tree].prev = U!Partial]
            = [slots EXCEPT ![job.tree] = [slots[job.tree] EXCEPT !.prev = U!Partial]]
      BY <1>a
    <3>2. [slots[job.tree] EXCEPT !.prev = U!Partial] \in U!Directories
      BY <1>0, UpdaterFacts, Renamed
    <3> QED
      BY <1>a, <2>1, <3>1, <3>2
  <2>7. U!TypeOK'
    BY <1>0, <2>1, <2>2, <2>3, <2>4, <2>5, <2>6 DEF U!TypeOK
  <2>8. UpdateInv' /\ GoodInv' /\ UpdatedRuns'
    BY <2>1, <2>2, <2>3, <2>4 DEF UpdateInv, GoodInv, UpdatedRuns, U!UpdatedRuns, U!Started
  <2> QED
    BY <2>7, <2>8 DEF UpdaterInv
<1>3. ASSUME NEW t \in U!Trees, NEW r \in Releases, U!Update(t, r)
      PROVE  UpdaterInv'
  <2>1. /\ job = U!Idle /\ ops < MaxOps /\ ops' = ops + 1
        /\ job' = [op |-> IF t = "agent" THEN "update" ELSE "self", tree |-> t, rel |-> r,
                   at |-> "extract"]
        /\ U!SetSlots(t, [slots[t] EXCEPT !.new = U!Partial])
        /\ UNCHANGED <<venv, bin, stuck, proc, healthy, systemd, last, good, unguarded, deaths>>
    BY <1>3 DEF U!Update
  <2>2. /\ job' \in U!Jobs /\ job' # U!Idle /\ job'.at = "extract" /\ job'.rel = r
        /\ job'.tree = t /\ job'.op = (IF t = "agent" THEN "update" ELSE "self")
    BY <2>1 DEF U!Jobs, U!Idle
  <2>3. ops' \in 0..MaxOps
    BY <1>0, <1>a, <2>1, WorkersAssumption
  <2>4. /\ slots' \in [U!Trees -> U!Directories]
        /\ slots'[t] = [slots[t] EXCEPT !.new = U!Partial]
        /\ \A u \in U!Trees : u # t => slots'[u] = slots[u]
    BY <1>0, <2>1, UpdaterFacts, Renamed, SlotsSet
  <2>5. slots'["agent"].active = slots["agent"].active
    BY <1>0, <2>4, UpdaterFacts DEF U!Directories
  <2>6. U!TypeOK'
    BY <1>0, <2>1, <2>2, <2>3, <2>4 DEF U!TypeOK
  <2>7. t \in {"agent", "updater"} /\ job.at = "idle"
    BY <2>1 DEF U!Trees, U!Idle
  <2>8. UpdateInv' /\ GoodInv' /\ UpdatedRuns'
    BY <1>0, <2>1, <2>2, <2>5, <2>7 DEF UpdateInv, GoodInv, UpdatedRuns, U!UpdatedRuns, U!Started
  <2> QED
    BY <2>6, <2>8 DEF UpdaterInv
<1> QED
  BY <1>1, <1>2, <1>3

LEMMA UpdaterInit == U!Init => UpdaterInv
<1> SUFFICES ASSUME U!Init PROVE UpdaterInv
  OBVIOUS
<1>1. /\ job = U!Idle /\ last = U!NoEnd /\ good = Installed /\ unguarded = FALSE
      /\ ops = 0 /\ deaths = 0 /\ bin = "agent" /\ stuck = FALSE
      /\ slots = [t \in U!Trees |-> IF t = "agent" THEN [U!NoTree EXCEPT !.active = Installed]
                                    ELSE U!NoTree]
      /\ venv = [t \in U!Trees |-> IF t = "agent" THEN Installed ELSE U!None]
      /\ proc = [t \in U!Trees |-> Installed]
      /\ healthy \subseteq Releases /\ systemd \in BOOLEAN /\ Installed \in Releases
  BY DEF U!Init
<1>2. /\ job \in U!Jobs /\ job.at = "idle" /\ job.op = "none" /\ job.tree = "agent"
  BY <1>1 DEF U!Idle, U!Jobs, U!Trees
<1>3. last \in U!Ends /\ last.how = "none"
  BY <1>1 DEF U!NoEnd, U!Ends
<1>4. slots \in [U!Trees -> U!Directories] /\ slots["agent"].active = Installed
  <2>1. [U!NoTree EXCEPT !.active = Installed] \in U!Directories /\ U!NoTree \in U!Directories
    BY <1>1 DEF U!NoTree, U!Directories, U!Held
  <2>2. [U!NoTree EXCEPT !.active = Installed].active = Installed
    BY DEF U!NoTree
  <2> QED
    BY <1>1, <2>1, <2>2 DEF U!Trees
<1>5. ops \in 0..MaxOps /\ deaths \in 0..MaxDeaths
  BY <1>1, WorkersAssumption
<1>a. /\ venv \in [U!Trees -> U!Programs] /\ venv["agent"] \in Releases \cup {U!Broken}
      /\ proc \in [U!Trees -> U!Programs] /\ bin \in U!Trees /\ stuck \in BOOLEAN
  BY <1>1 DEF U!Trees, U!Programs
<1>6. U!TypeOK
  BY <1>1, <1>2, <1>3, <1>4, <1>5, <1>a DEF U!TypeOK
<1>7. UpdateInv /\ GoodInv /\ UpdatedRuns
  BY <1>1, <1>2, <1>3, <1>4 DEF UpdateInv, GoodInv, UpdatedRuns, U!UpdatedRuns, U!Started
<1> QED
  BY <1>6, <1>7 DEF UpdaterInv

LEMMA UpdaterNext == UpdaterInv /\ [U!Next]_(U!vars) => UpdaterInv'
<1> SUFFICES ASSUME UpdaterInv, [U!Next]_(U!vars) PROVE UpdaterInv'
  OBVIOUS
<1>1. CASE UNCHANGED U!vars
  BY <1>1 DEF U!vars, U!jobVars, UpdaterInv, U!TypeOK, UpdateInv, GoodInv, UpdatedRuns,
              U!UpdatedRuns, U!Started
<1> QED
  BY <1>1, UpdateSteps, ProbeSteps, SwapSteps, RequestSteps DEF U!Next, U!Step

\* The invariant of the updater (executor.py: run_update, run_update_self,
\* run_rollback), over any sequence of requests, failing steps and deaths.
THEOREM UpdaterInvariant == U!Spec => []UpdaterInv
BY UpdaterInit, UpdaterNext, PTL DEF U!Spec

\* An update reported as done (run_update's 200 after the probe): the release
\* that was pushed is active and installed, the agent is healthy and runs it,
\* unless systemd starts it through /usr/local/bin/decnet and repointing that
\* symlink failed (_heal_path_symlink swallows the OSError).
THEOREM UpdatedRunsTheorem == U!Spec => []UpdatedRuns
<1>1. UpdaterInv => UpdatedRuns
  BY DEF UpdaterInv
<1> QED
  BY <1>1, UpdaterInvariant, PTL

\* An update that ends in an UpdateError leaves the last good release active, as
\* long as the updater does not die, systemctl does not fail and nobody rolls
\* back by hand.
THEOREM FailureRestoresTheorem == U!Spec => []FailureRestores
<1>1. UpdaterInv => FailureRestores
  <2> SUFFICES ASSUME UpdaterInv, job = U!Idle, deaths = 0, ~unguarded
               PROVE  slots["agent"].active = good
    BY DEF FailureRestores, U!FailureRestores
  <2>1. job.at = "idle"
    BY DEF U!Idle
  <2> QED
    BY <2>1 DEF UpdaterInv, GoodInv
<1> QED
  BY <1>1, UpdaterInvariant, PTL

-----------------------------------------------------------------------------

(* The event bus *)

\* What the server will believe once the frames on their way are handled: with
\* a subscription open it holds the pattern, or a SUB task is still to run, or
\* a BYE ends the connection first.
SubscribedInv ==
    /\ client = "closed" => link = "eof"
    /\ link = "up" /\ B!Local # {} =>
         \/ starting > 0
         \/ toServer = <<>> /\ registered
         \/ toServer # <<>> /\ toServer[Len(toServer)] = "SUB"
         \/ \E i \in 1..Len(toServer) : toServer[i] = "BYE"

BusInv == B!TypeOK /\ SubscribedInv

Frames == {"SUB", "UNSUB", "BYE"}

\* _enqueue_drop_oldest keeps a queue's type and its bound.
LEMMA EnqueueFacts ==
    ASSUME NEW S, NEW q \in Seq(S), NEW item \in S, NEW size \in Nat \ {0}, Len(q) <= size
    PROVE  B!Enqueue(q, item, size) \in Seq(S) /\ Len(B!Enqueue(q, item, size)) <= size
<1>0. Len(q) \in Nat
  BY LenProperties
<1>1. CASE Len(q) < size
  <2>1. Append(q, item) \in Seq(S) /\ Len(Append(q, item)) = Len(q) + 1
    BY AppendProperties
  <2> QED
    BY <1>0, <1>1, <2>1 DEF B!Enqueue
<1>2. CASE ~(Len(q) < size)
  <2>1. q # <<>>
    BY <1>0, <1>2, EmptySeq
  <2>2. Tail(q) \in Seq(S) /\ Len(Tail(q)) = Len(q) - 1
    BY <2>1, HeadTailProperties
  <2>3. Append(Tail(q), item) \in Seq(S) /\ Len(Append(Tail(q), item)) = Len(q)
    BY <1>0, <2>2, AppendProperties
  <2> QED
    BY <1>2, <2>3 DEF B!Enqueue
<1> QED
  BY <1>1, <1>2

\* The sentinels fit where there is room.
LEMMA WakeFacts ==
    ASSUME B!TypeOK, B!Wake
    PROVE  /\ inbound' \in [Subs -> Seq(0..BusEvents)]
           /\ \A s \in Subs : Len(inbound'[s]) <= InSize
           /\ unwoken' \subseteq Subs
<1>1. /\ inbound \in [Subs -> Seq(0..BusEvents)] /\ \A s \in Subs : Len(inbound[s]) <= InSize
      /\ unwoken \subseteq Subs
  BY DEF B!TypeOK
<1>2. InSize \in Nat /\ 0 \in 0..BusEvents
  BY WorkersAssumption
<1>3. ASSUME NEW s \in Subs
      PROVE  inbound'[s] \in Seq(0..BusEvents) /\ Len(inbound'[s]) <= InSize
  <2>1. inbound'[s] = IF s \in B!Local /\ Len(inbound[s]) < InSize
                      THEN Append(inbound[s], B!Close) ELSE inbound[s]
    BY DEF B!Wake
  <2>2. inbound[s] \in Seq(0..BusEvents) /\ Len(inbound[s]) \in Nat
    BY <1>1, LenProperties
  <2>3. /\ Append(inbound[s], B!Close) \in Seq(0..BusEvents)
        /\ Len(Append(inbound[s], B!Close)) = Len(inbound[s]) + 1
    BY <1>2, <2>2, AppendProperties DEF B!Close
  <2> QED
    <3>1. CASE s \in B!Local /\ Len(inbound[s]) < InSize
      BY <1>2, <2>1, <2>2, <2>3, <3>1
    <3>2. CASE ~(s \in B!Local /\ Len(inbound[s]) < InSize)
      BY <1>1, <2>1, <3>2
    <3> QED
      BY <3>1, <3>2
<1>4. inbound' = [s \in Subs |-> inbound'[s]]
  BY DEF B!Wake
<1>5. unwoken' \subseteq Subs
  BY <1>1 DEF B!Wake, B!Local
<1> QED
  BY <1>3, <1>4, <1>5

\* A frame on its way to the server.
LEMMA FrameFacts ==
    ASSUME B!TypeOK, NEW f \in Frames
    PROVE  /\ Append(toServer, f) \in Seq(Frames)
           /\ Append(toServer, f) # <<>>
           /\ Len(Append(toServer, f)) = Len(toServer) + 1 /\ Len(toServer) \in Nat
           /\ Append(toServer, f)[Len(toServer) + 1] = f
           /\ \A i \in 1..Len(toServer) :
                i \in 1..Len(Append(toServer, f)) /\ Append(toServer, f)[i] = toServer[i]
<1>1. toServer \in Seq(Frames)
  BY DEF B!TypeOK, Frames
<1>2. /\ Append(toServer, f) \in Seq(Frames)
      /\ Append(toServer, f) # <<>>
      /\ Len(Append(toServer, f)) = Len(toServer) + 1 /\ Len(toServer) \in Nat
      /\ Append(toServer, f)[Len(toServer) + 1] = f
      /\ \A i \in 1..Len(toServer) : Append(toServer, f)[i] = toServer[i]
  BY <1>1, AppendProperties, LenProperties
<1> QED
  BY <1>2

\* The client's tasks: subscribe, SUB, __anext__ and aclose.
LEMMA BusClient ==
    ASSUME BusInv, \/ \E s \in Subs : B!Subscribe(s) \/ B!Consume(s) \/ B!Unsubscribe(s)
                   \/ B!SendSub
    PROVE  BusInv'
<1>0. B!TypeOK /\ SubscribedInv
  BY DEF BusInv
<1>1. ASSUME NEW s \in Subs, B!Subscribe(s)
      PROVE  BusInv'
  <2>1. /\ sub' = [sub EXCEPT ![s] = "open"] /\ starting' = starting + 1
        /\ unwoken' \in {unwoken, unwoken \cup {s}}
        /\ UNCHANGED <<inbound, client, reader, got, registered, outbound, toServer, toClient,
                       link, published, owed>>
    BY <1>1 DEF B!Subscribe, B!serverVars
  <2>2. starting' \in Nat /\ starting' > 0
    BY <1>0, <2>1 DEF B!TypeOK
  <2>3. B!TypeOK'
    BY <1>0, <2>1, <2>2 DEF B!TypeOK
  <2>4. SubscribedInv'
    BY <1>0, <2>1, <2>2 DEF SubscribedInv
  <2> QED
    BY <2>3, <2>4 DEF BusInv
<1>2. ASSUME NEW s \in Subs, B!Consume(s)
      PROVE  BusInv'
  <2>1. /\ sub[s] = "open" /\ inbound[s] # <<>> /\ inbound' = [inbound EXCEPT ![s] = Tail(@)]
        /\ \/ sub' = [sub EXCEPT ![s] = "ended"] /\ got' = got
           \/ got' = [got EXCEPT ![s] = Head(inbound[s])] /\ sub' = sub
        /\ UNCHANGED <<starting, client, reader, unwoken, registered, outbound, toServer,
                       toClient, link, published, owed>>
    BY <1>2 DEF B!Consume, B!serverVars
  <2>2. inbound \in [Subs -> Seq(0..BusEvents)] /\ \A r \in Subs : Len(inbound[r]) <= InSize
    BY <1>0 DEF B!TypeOK
  <2>3. /\ Tail(inbound[s]) \in Seq(0..BusEvents) /\ Head(inbound[s]) \in 0..BusEvents
        /\ Len(Tail(inbound[s])) = Len(inbound[s]) - 1 /\ Len(inbound[s]) \in Nat
    BY <2>1, <2>2, HeadTailProperties, LenProperties
  <2>4. inbound' \in [Subs -> Seq(0..BusEvents)] /\ \A r \in Subs : Len(inbound'[r]) <= InSize
    BY <2>1, <2>2, <2>3, WorkersAssumption
  <2>5. sub' \in [Subs -> {"none", "open", "ended", "closed"}] /\ got' \in [Subs -> 0..BusEvents]
    BY <1>0, <2>1, <2>3 DEF B!TypeOK
  <2>6. B!TypeOK'
    BY <1>0, <2>1, <2>4, <2>5 DEF B!TypeOK
  <2>7. B!Local' = B!Local
    BY <1>0, <2>1 DEF B!Local, B!TypeOK
  <2>8. SubscribedInv'
    BY <1>0, <2>1, <2>7 DEF SubscribedInv
  <2> QED
    BY <2>6, <2>8 DEF BusInv
<1>3. ASSUME NEW s \in Subs, B!Unsubscribe(s)
      PROVE  BusInv'
  <2>1. /\ sub' = [sub EXCEPT ![s] = "closed"] /\ inbound' = [inbound EXCEPT ![s] = <<>>]
        /\ got' = [got EXCEPT ![s] = 0] /\ owed' = [owed EXCEPT ![s] = 0]
        /\ toServer' = IF client # "closed" /\ link = "up" /\ B!Local = {s}
                       THEN Append(toServer, "UNSUB") ELSE toServer
        /\ UNCHANGED <<starting, client, reader, unwoken, registered, outbound, toClient, link,
                       published>>
    BY <1>3 DEF B!Unsubscribe, B!serverVars
  <2>2. toServer' \in Seq(Frames)
    BY <1>0, <2>1, FrameFacts DEF B!TypeOK, Frames
  <2>3. inbound' \in [Subs -> Seq(0..BusEvents)] /\ \A r \in Subs : Len(inbound'[r]) <= InSize
    <3>1. InSize \in Nat
      BY WorkersAssumption
    <3>2. inbound \in [Subs -> Seq(0..BusEvents)] /\ \A r \in Subs : Len(inbound[r]) <= InSize
      BY <1>0 DEF B!TypeOK
    <3>3. inbound' = [inbound EXCEPT ![s] = <<>>]
      BY <2>1
    <3> QED
      BY <3>1, <3>2, <3>3
  <2>4. /\ sub' \in [Subs -> {"none", "open", "ended", "closed"}]
        /\ got' \in [Subs -> 0..BusEvents] /\ owed' \in [Subs -> 0..BusEvents]
    <3>1. 0 \in 0..BusEvents
      BY WorkersAssumption
    <3> QED
      BY <1>0, <2>1, <3>1 DEF B!TypeOK
  <2>5. B!TypeOK'
    BY <1>0, <2>1, <2>2, <2>3, <2>4 DEF B!TypeOK, Frames
  <2>6. B!Local' = B!Local \ {s}
    BY <1>0, <2>1 DEF B!Local, B!TypeOK
  <2>7. SubscribedInv'
    <3>1. CASE client # "closed" /\ link = "up" /\ B!Local = {s}
      <4>1. B!Local' = {}
        BY <2>6, <3>1
      <4> QED
        BY <1>0, <2>1, <4>1 DEF SubscribedInv
    <3>2. CASE ~(client # "closed" /\ link = "up" /\ B!Local = {s})
      BY <1>0, <2>1, <2>6, <3>2 DEF SubscribedInv
    <3> QED
      BY <3>1, <3>2
  <2> QED
    BY <2>5, <2>7 DEF BusInv
<1>4. CASE B!SendSub
  <2>1. /\ starting > 0 /\ starting' = starting - 1
        /\ toServer' = IF client \in {"open", "closing", "cancelled"} /\ link = "up"
                       THEN Append(toServer, "SUB") ELSE toServer
        /\ UNCHANGED <<sub, inbound, client, reader, got, unwoken, registered, outbound,
                       toClient, link, published, owed>>
    BY <1>4 DEF B!SendSub, B!serverVars
  <2>2. starting' \in Nat /\ client \in {"open", "closing", "cancelled", "closed"}
    BY <1>0, <2>1 DEF B!TypeOK
  <2>3. toServer' \in Seq(Frames)
    BY <1>0, <2>1, FrameFacts DEF B!TypeOK, Frames
  <2>4. B!TypeOK'
    BY <1>0, <2>1, <2>2, <2>3 DEF B!TypeOK, Frames
  <2>5. SubscribedInv'
    <3>1. CASE link = "up"
      <4>1. toServer' = Append(toServer, "SUB")
        BY <1>0, <2>1, <2>2, <3>1 DEF SubscribedInv
      <4>2. toServer' # <<>> /\ toServer'[Len(toServer')] = "SUB"
        BY <1>0, <4>1, FrameFacts DEF Frames
      <4> QED
        BY <1>0, <2>1, <4>2 DEF SubscribedInv
    <3>2. CASE link # "up"
      BY <1>0, <2>1, <3>2 DEF SubscribedInv
    <3> QED
      BY <3>1, <3>2
  <2> QED
    BY <2>4, <2>5 DEF BusInv
<1> QED
  BY <1>1, <1>2, <1>3, <1>4

\* The reader task and close().
LEMMA BusReader ==
    ASSUME BusInv, B!Reader \/ B!CloseBus \/ B!Closer
    PROVE  BusInv'
<1>0. B!TypeOK /\ SubscribedInv
  BY DEF BusInv
<1>1. CASE B!ReadEvent
  <2>1. /\ toClient # <<>> /\ toClient' = Tail(toClient)
        /\ inbound' = [s \in Subs |-> IF s \in B!Local
                                      THEN B!Enqueue(inbound[s], Head(toClient), InSize)
                                      ELSE inbound[s]]
        /\ UNCHANGED <<sub, starting, client, reader, got, unwoken, registered, outbound,
                       toServer, link, published, owed>>
    BY <1>1 DEF B!ReadEvent, B!serverVars
  <2>2. /\ toClient \in Seq(1..BusEvents) /\ Len(toClient) <= SocketSize
        /\ inbound \in [Subs -> Seq(0..BusEvents)] /\ \A s \in Subs : Len(inbound[s]) <= InSize
        /\ SocketSize \in Nat /\ InSize \in Nat \ {0} /\ BusEvents \in Nat
    BY <1>0, WorkersAssumption DEF B!TypeOK
  <2>3. /\ toClient' \in Seq(1..BusEvents) /\ Head(toClient) \in 1..BusEvents
        /\ Len(toClient') = Len(toClient) - 1 /\ Len(toClient) \in Nat
    BY <2>1, <2>2, HeadTailProperties, LenProperties
  <2>4. toClient' \in Seq(1..BusEvents) /\ Len(toClient') <= SocketSize
    BY <2>2, <2>3
  <2>5. Head(toClient) \in 0..BusEvents
    BY <2>2, <2>3
  <2>6. ASSUME NEW s \in Subs
        PROVE  inbound'[s] \in Seq(0..BusEvents) /\ Len(inbound'[s]) <= InSize
    <3>1. /\ B!Enqueue(inbound[s], Head(toClient), InSize) \in Seq(0..BusEvents)
          /\ Len(B!Enqueue(inbound[s], Head(toClient), InSize)) <= InSize
      BY <2>2, <2>5, EnqueueFacts
    <3> QED
      BY <2>1, <2>2, <3>1
  <2>7. inbound' \in [Subs -> Seq(0..BusEvents)] /\ \A s \in Subs : Len(inbound'[s]) <= InSize
    <3>1. inbound' = [s \in Subs |-> inbound'[s]]
      BY <2>1
    <3> QED
      BY <2>6, <3>1
  <2>8. B!TypeOK'
    BY <1>0, <2>1, <2>4, <2>7 DEF B!TypeOK
  <2>9. SubscribedInv'
    BY <1>0, <2>1 DEF SubscribedInv, B!Local
  <2> QED
    BY <2>8, <2>9 DEF BusInv
<1>2. CASE B!ReaderEnds
  <2>1. /\ reader' = "done" /\ B!Wake
        /\ UNCHANGED <<sub, starting, client, got, registered, outbound, toServer, toClient,
                       link, published, owed>>
    BY <1>2 DEF B!ReaderEnds, B!serverVars
  <2>2. B!TypeOK'
    BY <1>0, <2>1, WakeFacts DEF B!TypeOK
  <2>3. SubscribedInv'
    BY <1>0, <2>1 DEF SubscribedInv, B!Local
  <2> QED
    BY <2>2, <2>3 DEF BusInv
<1>3. CASE B!CloseBus
  <2>1. /\ client' = "closing"
        /\ toServer' = IF link = "up" THEN Append(toServer, "BYE") ELSE toServer
        /\ UNCHANGED <<sub, starting, inbound, reader, got, unwoken, registered, outbound,
                       toClient, link, published, owed>>
    BY <1>3 DEF B!CloseBus, B!serverVars
  <2>2. toServer' \in Seq(Frames)
    BY <1>0, <2>1, FrameFacts DEF B!TypeOK, Frames
  <2>3. B!TypeOK'
    BY <1>0, <2>1, <2>2 DEF B!TypeOK, Frames
  <2>4. link = "up" => \E i \in 1..Len(toServer') : toServer'[i] = "BYE"
    <3>1. SUFFICES ASSUME link = "up" PROVE \E i \in 1..Len(toServer') : toServer'[i] = "BYE"
      OBVIOUS
    <3>2. /\ toServer'[Len(toServer) + 1] = "BYE" /\ Len(toServer') = Len(toServer) + 1
          /\ Len(toServer) \in Nat
      BY <1>0, <2>1, <3>1, FrameFacts DEF Frames
    <3> QED
      BY <3>2
  <2>5. SubscribedInv'
    BY <2>1, <2>4 DEF SubscribedInv
  <2> QED
    BY <2>3, <2>5 DEF BusInv
<1>4. CASE B!CancelReader
  <2>1. /\ client' = "cancelled" /\ reader' = "done"
        /\ B!Wake \/ UNCHANGED <<inbound, unwoken>>
        /\ UNCHANGED <<sub, starting, got, registered, outbound, toServer, toClient, link,
                       published, owed>>
    BY <1>4 DEF B!CancelReader, B!serverVars
  <2>2. /\ inbound' \in [Subs -> Seq(0..BusEvents)]
        /\ \A s \in Subs : Len(inbound'[s]) <= InSize
        /\ unwoken' \subseteq Subs
    BY <1>0, <2>1, WakeFacts DEF B!TypeOK
  <2>3. B!TypeOK'
    BY <1>0, <2>1, <2>2 DEF B!TypeOK
  <2>4. SubscribedInv'
    BY <1>0, <2>1 DEF SubscribedInv, B!Local
  <2> QED
    BY <2>3, <2>4 DEF BusInv
<1>5. CASE B!ClearSubs
  <2>1. /\ client' = "closed" /\ link' = "eof" /\ toServer' = <<>> /\ registered' = FALSE
        /\ outbound' = <<>> /\ B!Wake
        /\ UNCHANGED <<sub, starting, reader, got, toClient, published, owed>>
    BY <1>5 DEF B!ClearSubs, B!Disconnect
  <2>2. /\ outbound' \in Seq(1..BusEvents) /\ Len(outbound') <= OutSize
        /\ toServer' \in Seq({"SUB", "UNSUB", "BYE"}) /\ registered' \in BOOLEAN
    <3>1. registered' \in BOOLEAN
      BY <2>1
    <3>2. outbound' \in Seq(1..BusEvents) /\ Len(outbound') = 0
      BY <2>1
    <3>3. toServer' \in Seq({"SUB", "UNSUB", "BYE"})
      BY <2>1
    <3> QED
      BY <2>1, WorkersAssumption, <3>1, <3>2, <3>3
  <2>3. B!TypeOK'
    BY <1>0, <2>1, <2>2, WakeFacts DEF B!TypeOK
  <2>4. SubscribedInv'
    BY <2>1 DEF SubscribedInv
  <2> QED
    BY <2>3, <2>4 DEF BusInv
<1> QED
  BY <1>1, <1>2, <1>3, <1>4, <1>5 DEF B!Reader, B!Closer

\* The server's reader, fan-out, writer and end.
LEMMA BusServer ==
    ASSUME BusInv, B!ServerReads \/ B!Publish \/ B!WriteEvent \/ B!ServerGone
    PROVE  BusInv'
<1>0. B!TypeOK /\ SubscribedInv
  BY DEF BusInv
<1>a. 0 <= OutSize
  BY WorkersAssumption
<1>1. ASSUME B!Disconnect,
             UNCHANGED <<sub, starting, inbound, client, reader, got, unwoken, toClient,
                         published, owed>>
      PROVE  BusInv'
  <2>1. /\ link' = "eof" /\ toServer' = <<>> /\ registered' = FALSE /\ outbound' = <<>>
    BY <1>1 DEF B!Disconnect
  <2>2. /\ outbound' \in Seq(1..BusEvents) /\ Len(outbound') <= OutSize
        /\ toServer' \in Seq({"SUB", "UNSUB", "BYE"}) /\ registered' \in BOOLEAN
    <3>1. registered' \in BOOLEAN
      BY <2>1
    <3>2. outbound' \in Seq(1..BusEvents) /\ Len(outbound') = 0
      BY <2>1
    <3>3. toServer' \in Seq({"SUB", "UNSUB", "BYE"})
      BY <2>1
    <3> QED
      BY <1>a, <2>1, <3>1, <3>2, <3>3
  <2>3. B!TypeOK'
    BY <1>0, <1>1, <2>1, <2>2 DEF B!TypeOK
  <2>4. SubscribedInv'
    BY <2>1 DEF SubscribedInv
  <2> QED
    BY <2>3, <2>4 DEF BusInv
<1>2. CASE B!ServerGone
  BY <1>1, <1>2 DEF B!ServerGone, B!clientVars
<1>3. CASE B!ServerReads
  <2>1. toServer # <<>> /\ link = "up"
        /\ UNCHANGED <<sub, starting, inbound, client, reader, got, unwoken, toClient,
                       published, owed>>
    BY <1>3 DEF B!ServerReads, B!clientVars
  <2>2. CASE B!Disconnect
    BY <1>1, <2>1, <2>2
  <2>3. CASE /\ Head(toServer) # "BYE" /\ toServer' = Tail(toServer)
             /\ registered' = (Head(toServer) = "SUB") /\ UNCHANGED <<outbound, link>>
    <3>1. toServer \in Seq(Frames)
      BY <1>0 DEF B!TypeOK, Frames
    <3>2. /\ toServer' \in Seq(Frames) /\ Len(toServer) \in Nat /\ Len(toServer) > 0
          /\ Len(toServer') = Len(toServer) - 1 /\ Head(toServer) = toServer[1]
          /\ \A i \in 1..Len(toServer') : toServer'[i] = toServer[i + 1]
      BY <2>1, <2>3, <3>1, HeadTailProperties, LenProperties, EmptySeq
    <3>3. toServer' = <<>> <=> Len(toServer) = 1
      BY <3>2, EmptySeq
    <3>4. registered' \in BOOLEAN
      BY <2>3
    <3>5. B!TypeOK'
      BY <1>0, <2>1, <2>3, <3>2, <3>4 DEF B!TypeOK, Frames
    <3>6. CASE starting > 0 \/ B!Local = {}
      BY <1>0, <2>1, <2>3, <3>5, <3>6 DEF SubscribedInv, BusInv, B!Local
    <3>7. CASE toServer[Len(toServer)] = "SUB"
      <4>1. Len(toServer) = 1 => registered'
        BY <2>3, <3>2, <3>7
      <4>2. Len(toServer) # 1 => toServer'[Len(toServer')] = "SUB"
        BY <3>2, <3>7
      <4> QED
        BY <1>0, <2>1, <2>3, <3>3, <3>5, <4>1, <4>2 DEF SubscribedInv, BusInv
    <3>8. ASSUME NEW i \in 1..Len(toServer), toServer[i] = "BYE"
          PROVE  BusInv'
      <4>1. i - 1 \in 1..Len(toServer') /\ toServer'[i - 1] = "BYE"
        <5>1. i # 1
          BY <2>3, <3>2, <3>8
        <5>2. i - 1 \in 1..Len(toServer') /\ (i - 1) + 1 = i
          BY <3>2, <5>1
        <5> QED
          BY <3>2, <3>8, <5>2
      <4> QED
        BY <1>0, <2>1, <2>3, <3>5, <4>1 DEF SubscribedInv, BusInv
    <3> QED
      BY <1>0, <2>1, <3>6, <3>7, <3>8 DEF SubscribedInv
  <2> QED
    BY <1>3, <2>2, <2>3 DEF B!ServerReads
<1>4. CASE B!Publish
  <2>1. /\ published < BusEvents /\ published' = published + 1
        /\ outbound' = B!Enqueue(outbound, published', OutSize)
        /\ owed' = [s \in Subs |-> IF sub[s] = "open" THEN published' ELSE owed[s]]
        /\ UNCHANGED <<sub, starting, inbound, client, reader, got, unwoken, registered,
                       toServer, toClient, link>>
    BY <1>4 DEF B!Publish, B!clientVars
  <2>2. /\ published' \in 1..BusEvents /\ published' \in 0..BusEvents
        /\ OutSize \in Nat \ {0}
    BY <1>0, <2>1, WorkersAssumption DEF B!TypeOK
  <2>3. outbound' \in Seq(1..BusEvents) /\ Len(outbound') <= OutSize
    <3>1. outbound \in Seq(1..BusEvents) /\ Len(outbound) <= OutSize
      BY <1>0 DEF B!TypeOK
    <3> QED
      BY <2>1, <2>2, <3>1, EnqueueFacts
  <2>4. owed' \in [Subs -> 0..BusEvents]
    BY <1>0, <2>1, <2>2 DEF B!TypeOK
  <2>5. B!TypeOK'
    BY <1>0, <2>1, <2>2, <2>3, <2>4 DEF B!TypeOK
  <2>6. SubscribedInv'
    BY <1>0, <2>1 DEF SubscribedInv, B!Local
  <2> QED
    BY <2>5, <2>6 DEF BusInv
<1>5. CASE B!WriteEvent
  <2>1. /\ outbound # <<>> /\ Len(toClient) < SocketSize
        /\ toClient' = Append(toClient, Head(outbound)) /\ outbound' = Tail(outbound)
        /\ UNCHANGED <<sub, starting, inbound, client, reader, got, unwoken, registered,
                       toServer, link, published, owed>>
    BY <1>5 DEF B!WriteEvent, B!clientVars
  <2>2. /\ outbound \in Seq(1..BusEvents) /\ toClient \in Seq(1..BusEvents)
        /\ Len(outbound) <= OutSize /\ OutSize \in Nat /\ SocketSize \in Nat
    BY <1>0, WorkersAssumption DEF B!TypeOK
  <2>3. /\ Head(outbound) \in 1..BusEvents /\ outbound' \in Seq(1..BusEvents)
        /\ Len(outbound') = Len(outbound) - 1 /\ Len(outbound) \in Nat
    BY <2>1, <2>2, HeadTailProperties, LenProperties
  <2>4. toClient' \in Seq(1..BusEvents) /\ Len(toClient') = Len(toClient) + 1
        /\ Len(toClient) \in Nat
    BY <2>1, <2>2, <2>3, AppendProperties, LenProperties
  <2>5. Len(outbound') <= OutSize /\ Len(toClient') <= SocketSize
    BY <2>1, <2>2, <2>3, <2>4
  <2>6. B!TypeOK'
    BY <1>0, <2>1, <2>3, <2>4, <2>5 DEF B!TypeOK
  <2>7. SubscribedInv'
    BY <1>0, <2>1 DEF SubscribedInv, B!Local
  <2> QED
    BY <2>6, <2>7 DEF BusInv
<1> QED
  BY <1>2, <1>3, <1>4, <1>5

LEMMA BusInit == B!Init => BusInv
<1> SUFFICES ASSUME B!Init PROVE BusInv
  OBVIOUS
<1>1. /\ 0 \in 0..BusEvents /\ 0 <= OutSize /\ 0 <= InSize /\ 0 <= SocketSize
  BY WorkersAssumption
<1>2. /\ sub = [s \in Subs |-> "none"] /\ starting = 0 /\ toServer = <<>>
      /\ toClient = <<>> /\ registered = FALSE /\ outbound = <<>>
      /\ inbound = [s \in Subs |-> <<>>] /\ link = "up" /\ client = "open"
      /\ reader = "run" /\ published = 0 /\ got = [s \in Subs |-> 0]
      /\ owed = [s \in Subs |-> 0] /\ unwoken = {}
  BY DEF B!Init
<1>3. /\ outbound \in Seq(1..BusEvents) /\ Len(outbound) <= OutSize
      /\ toClient \in Seq(1..BusEvents) /\ Len(toClient) <= SocketSize
      /\ toServer \in Seq({"SUB", "UNSUB", "BYE"})
      /\ got \in [Subs -> 0..BusEvents] /\ owed \in [Subs -> 0..BusEvents]
      /\ inbound \in [Subs -> Seq(0..BusEvents)] /\ \A s \in Subs : Len(inbound[s]) <= InSize
  BY <1>1, <1>2
<1>4. B!TypeOK
  BY <1>1, <1>2, <1>3 DEF B!TypeOK
<1>5. B!Local = {}
  BY <1>2 DEF B!Local
<1>6. SubscribedInv
  BY <1>2, <1>5 DEF SubscribedInv
<1> QED
  BY <1>4, <1>6 DEF BusInv

LEMMA BusNext == BusInv /\ [B!Next]_(B!vars) => BusInv'
<1> SUFFICES ASSUME BusInv, [B!Next]_(B!vars) PROVE BusInv'
  OBVIOUS
<1>1. CASE UNCHANGED B!vars
  BY <1>1 DEF B!vars, B!clientVars, B!serverVars, BusInv, B!TypeOK, SubscribedInv, B!Local
<1> QED
  BY <1>1, BusClient, BusReader, BusServer DEF B!Next

\* The invariant of a client of the bus and its connection on the server
\* (unix_client.py, unix_server.py).
THEOREM BusInvariant == B!Spec => []BusInv
BY BusInit, BusNext, PTL DEF B!Spec

\* Closing one of several subscriptions of a pattern does not unsubscribe the
\* others on the server (UNSUB is sent for the last one only, and SUB tasks that
\* run late come behind it).
THEOREM StaysSubscribedTheorem == B!Spec => []StaysSubscribed
<1>1. BusInv => StaysSubscribed
  <2> SUFFICES ASSUME BusInv, link = "up", starting = 0, toServer = <<>>, B!Local # {}
               PROVE  registered
    BY DEF StaysSubscribed, B!StaysSubscribed
  <2>1. Len(toServer) = 0
    OBVIOUS
  <2> QED
    BY <2>1 DEF BusInv, SubscribedInv
<1> QED
  BY <1>1, BusInvariant, PTL

(* The webhook dispatcher *)

\* While nothing overlaps there is one delivery task at most, and neither the
\* row's counter nor the one a task is about to write exceeds the number of
\* deliveries that failed since the last recorded success or the enabling: a
\* task that read the counter writes it back before anybody else touches it,
\* and a call that raises can only leave a failure uncounted.
CircuitInv ==
    ~overlap =>
        /\ \A k, l \in Tasks : task[k] # W!Free /\ task[l] # W!Free => k = l
        /\ row.exists => row.failures <= streak
        /\ \A k \in Tasks : task[k].at \in {"bump", "trip"} => task[k].count <= streak
        /\ \A k \in Tasks : task[k].at = "trip" => task[k].count >= Threshold

HookInv == W!TypeOK /\ CircuitInv

\* The record of a task, and the fields of the row.
LEMMA HookTypes ==
    ASSUME W!TypeOK
    PROVE  /\ row \in W!Rows /\ row.exists \in BOOLEAN /\ row.enabled \in BOOLEAN
           /\ row.tripped \in BOOLEAN /\ row.failures \in Nat
           /\ streak \in Nat /\ Threshold \in Nat /\ overlap \in BOOLEAN
           /\ task \in [Tasks -> [at : {"free", "deliver", "bump", "trip"}, count : Nat]]
           /\ \A k \in Tasks : task[k].count \in Nat
           /\ \A k \in Tasks : task[k].at # "free" => task[k] # W!Free
           /\ W!Free \in [at : {"free", "deliver", "bump", "trip"}, count : Nat]
           /\ W!Free.at = "free"
BY WorkersAssumption DEF W!TypeOK, W!Rows, W!Free

\* The worker's loop and the bus: no task and no row changes.
LEMMA HookLoop ==
    ASSUME HookInv, W!Loop \/ W!BusStops \/ W!BusStarts
    PROVE  HookInv' /\ row' = row
<1>1. UNCHANGED <<row, task, streak, overlap>>
  BY DEF W!Loop, W!Connect, W!Reload, W!EpochEnds, W!WaitEnds, W!BusStops, W!BusStarts
<1>2. CircuitInv'
  BY <1>1 DEF HookInv, CircuitInv
<1>3. /\ server' \in BOOLEAN /\ conn' \in {"none", "live", "dead"}
      /\ loop' \in {"connect", "reload", "wait"} /\ consumer' \in {"none", "live", "deaf"}
      /\ flag' \in BOOLEAN
  BY DEF HookInv, W!TypeOK, W!Loop, W!Connect, W!Reload, W!EpochEnds, W!WaitEnds, W!BusStops,
         W!BusStarts
<1>4. /\ events' \in 0..HookEvents /\ patches' \in 0..MaxPatches
      /\ restarts' \in 0..MaxRestarts /\ errors' \in 0..MaxErrors
  BY WorkersAssumption DEF HookInv, W!TypeOK, W!Loop, W!Connect, W!Reload, W!EpochEnds,
     W!DbError, W!WaitEnds, W!BusStops, W!BusStarts, W!countVars
<1>5. orphans' \subseteq Tasks
  BY DEF HookInv, W!TypeOK, W!Loop, W!Connect, W!Reload, W!EpochEnds, W!Busy, W!WaitEnds,
         W!BusStops, W!BusStarts
<1>6. W!TypeOK'
  BY <1>1, <1>3, <1>4, <1>5 DEF HookInv, W!TypeOK
<1> QED
  BY <1>1, <1>2, <1>6 DEF HookInv

\* The API's changes of the row: one that meets a task is an overlap.
LEMMA HookPatch ==
    ASSUME HookInv, W!Enable \/ W!Pause \/ W!Delete
    PROVE  HookInv' /\ ~(~row.tripped /\ row'.tripped)
<1>0. /\ row \in W!Rows /\ row.failures \in Nat /\ streak \in Nat
      /\ \A k \in Tasks : task[k].at # "free" => task[k] # W!Free
  BY HookTypes DEF HookInv
<1>1. /\ row.exists /\ patches < MaxPatches /\ patches' = patches + 1
      /\ flag' \in {flag, TRUE} /\ overlap' = (overlap \/ W!Busy # {})
      /\ UNCHANGED <<server, conn, loop, consumer, task, orphans, events, restarts, errors>>
  BY DEF W!Enable, W!Pause, W!Delete, W!Patch
<1>2. /\ row' \in W!Rows /\ streak' \in Nat
      /\ row'.exists => \/ row'.failures = 0 /\ streak' = 0
                        \/ row'.failures = row.failures /\ streak' = streak
      /\ row'.tripped => row.tripped
  <2>1. CASE W!Enable
    <3>1. row' = [row EXCEPT !.enabled = TRUE, !.tripped = FALSE, !.failures = 0] /\ streak' = 0
      BY <2>1 DEF W!Enable, W!Patch
    <3>2. row' \in W!Rows /\ row'.failures = 0
      BY <1>0, <3>1 DEF W!Rows
    <3>3. ~row'.tripped
      BY <1>0, <3>1 DEF W!Rows
    <3>4. streak' \in Nat
      BY <3>1
    <3> QED
      BY <3>1, <3>2, <3>3, <3>4
  <2>2. CASE W!Pause \/ W!Delete
    BY <1>0, <2>2 DEF W!Pause, W!Delete, W!Patch, W!Rows
  <2> QED
    BY <2>1, <2>2
<1>3. /\ patches' \in 0..MaxPatches
      /\ flag' \in BOOLEAN
      /\ overlap' \in BOOLEAN
  <2>1. patches \in 0..MaxPatches /\ MaxPatches \in Nat /\ flag \in BOOLEAN
    BY WorkersAssumption DEF HookInv, W!TypeOK
  <2>2. patches' \in 0..MaxPatches
    BY <1>1, <2>1
  <2>3. flag' \in BOOLEAN /\ overlap' \in BOOLEAN
    BY <1>1, <2>1, Zenon
  <2> QED
    BY <2>2, <2>3
<1>4. W!TypeOK'
  BY <1>1, <1>2, <1>3 DEF HookInv, W!TypeOK
<1>5. CircuitInv'
  <2> SUFFICES ASSUME ~overlap' PROVE CircuitInv'
    BY DEF CircuitInv
  <2>1. ~overlap /\ \A k \in Tasks : task[k] = W!Free
    BY <1>1 DEF W!Busy
  <2>2. \A k \in Tasks : task'[k] = W!Free /\ task'[k].at = "free"
    BY <1>1, <2>1 DEF W!Free
  <2>3. row'.exists => row'.failures <= streak'
    BY <1>0, <1>1, <1>2, <2>1 DEF HookInv, CircuitInv
  <2> QED
    BY <2>2, <2>3 DEF CircuitInv
<1> QED
  BY <1>2, <1>4, <1>5 DEF HookInv

\* An event starts a task.
LEMMA HookDispatch ==
    ASSUME HookInv, NEW k \in Tasks, W!Dispatch(k)
    PROVE  HookInv' /\ row' = row
<1>0. /\ task \in [Tasks -> [at : {"free", "deliver", "bump", "trip"}, count : Nat]]
      /\ W!Free.at = "free"
  BY HookTypes DEF HookInv
<1>1. /\ task[k] = W!Free /\ events < HookEvents /\ events' = events + 1
      /\ task' = [task EXCEPT ![k].at = "deliver"]
      /\ overlap' = (overlap \/ W!Busy # {})
      /\ orphans' = orphans \ {k}
      /\ UNCHANGED <<row, server, conn, loop, flag, consumer, patches, restarts, errors, streak>>
  BY DEF W!Dispatch
<1>2. /\ task' \in [Tasks -> [at : {"free", "deliver", "bump", "trip"}, count : Nat]]
      /\ task'[k].at = "deliver" /\ \A l \in Tasks \ {k} : task'[l] = task[l]
  BY <1>0, <1>1
<1>3. events' \in 0..HookEvents /\ overlap' \in BOOLEAN /\ orphans' \subseteq Tasks
  BY <1>1, WorkersAssumption DEF HookInv, W!TypeOK
<1>4. W!TypeOK'
  BY <1>1, <1>2, <1>3 DEF HookInv, W!TypeOK
<1>5. CircuitInv'
  <2> SUFFICES ASSUME ~overlap' PROVE CircuitInv'
    BY DEF CircuitInv
  <2>1. ~overlap /\ \A l \in Tasks : task[l] = W!Free
    BY <1>1 DEF W!Busy
  <2>2. \A l \in Tasks \ {k} : task'[l] = W!Free /\ task'[l].at = "free"
    BY <1>0, <1>2, <2>1
  <2>3. row'.exists => row'.failures <= streak'
    BY <1>1, <2>1 DEF HookInv, CircuitInv
  <2> QED
    BY <1>2, <2>2, <2>3 DEF CircuitInv
<1> QED
  BY <1>1, <1>4, <1>5 DEF HookInv

\* The delivery, the counter and the trip.
LEMMA HookWork ==
    ASSUME HookInv, NEW k \in Tasks, W!Work(k)
    PROVE  HookInv' /\ (~row.tripped /\ row'.tripped /\ ~overlap => streak >= Threshold)
<1> DEFINE OneTask == [at : {"free", "deliver", "bump", "trip"}, count : Nat]
<1>0. /\ row \in W!Rows /\ row.exists \in BOOLEAN /\ row.failures \in Nat /\ streak \in Nat
      /\ Threshold \in Nat /\ task \in [Tasks -> OneTask] /\ \A l \in Tasks : task[l].count \in Nat
      /\ \A l \in Tasks : task[l].at # "free" => task[l] # W!Free
      /\ W!Free \in OneTask /\ W!Free.at = "free"
  BY HookTypes DEF HookInv
<1>1. /\ UNCHANGED <<server, conn, loop, consumer, orphans, events, patches, restarts, overlap>>
      /\ task[k].at # "free"
  BY DEF W!Work, W!Succeed, W!Fail, W!Bump, W!Trip, W!TaskGoes
<1>a. flag' \in BOOLEAN /\ errors' \in 0..MaxErrors
  <2>1. flag \in BOOLEAN /\ errors \in 0..MaxErrors /\ MaxErrors \in Nat
    BY WorkersAssumption DEF HookInv, W!TypeOK
  <2>2. errors' = errors \/ (errors < MaxErrors /\ errors' = errors + 1)
    BY DEF W!Work, W!Succeed, W!Fail, W!Bump, W!Trip, W!DbError
  <2>3. flag' = flag \/ flag' = (flag \/ k \notin orphans)
    BY DEF W!Work, W!Succeed, W!Fail, W!Bump, W!Trip
  <2>4. errors' \in 0..MaxErrors
    BY <2>1, <2>2
  <2>5. flag' \in BOOLEAN
    BY <2>1, <2>3, Zenon
  <2> QED
    BY <2>4, <2>5
<1>2. PICK new \in OneTask :
        /\ task' = [task EXCEPT ![k] = new]
        /\ row' \in W!Rows /\ streak' \in Nat
        /\ row'.exists = row.exists
        /\ \/ /\ new = W!Free /\ row'.tripped = row.tripped
              /\ \/ (row.exists => row'.failures = 0) /\ streak' = 0
                 \/ row' = row /\ streak' \in {streak, streak + 1}
                 \/ /\ task[k].at = "bump" /\ streak' = streak
                    /\ row.exists => row'.failures = task[k].count
           \/ /\ new.at = "bump" /\ row' = row /\ streak' = streak + 1
              /\ new.count = (IF row.exists THEN row.failures ELSE 0) + 1
           \/ /\ task[k].at = "bump" /\ streak' = streak
              /\ new.at = "trip" /\ new.count = task[k].count /\ new.count >= Threshold
              /\ row.exists => row'.failures = task[k].count
              /\ row'.tripped = row.tripped
           \/ /\ task[k].at = "trip" /\ new = W!Free /\ streak' = streak
              /\ row'.failures = row.failures
  <2>1. CASE W!Succeed(k)
    <3>1. task' = [task EXCEPT ![k] = W!Free]
      BY <2>1 DEF W!Succeed, W!TaskGoes
    <3>2. CASE UNCHANGED <<row, streak>>
      BY <1>0, <3>1, <3>2
    <3>3. CASE row' = (IF row.exists THEN [row EXCEPT !.failures = 0] ELSE row) /\ streak' = 0
      <4>1. /\ row' \in W!Rows /\ row'.exists = row.exists /\ row'.tripped = row.tripped
            /\ row.exists => row'.failures = 0
        BY <1>0, <3>3 DEF W!Rows
      <4> QED
        BY <1>0, <3>1, <3>3, <4>1
    <3> QED
      BY <2>1, <3>2, <3>3 DEF W!Succeed
  <2>2. CASE W!Fail(k)
    <3>1. PICK n \in Nat : n = (IF row.exists THEN row.failures ELSE 0) + 1
      BY <1>0
    <3>2. [at |-> "bump", count |-> n] \in OneTask
      OBVIOUS
    <3>3. /\ row' = row /\ streak' = streak + 1 /\ streak' \in Nat
          /\ \/ task' = [task EXCEPT ![k] = [at |-> "bump", count |-> n]]
             \/ task' = [task EXCEPT ![k] = W!Free]
      BY <1>0, <2>2, <3>1 DEF W!Fail, W!TaskGoes
    <3> QED
      BY <1>0, <3>1, <3>2, <3>3
  <2>3. CASE W!Bump(k)
    <3>1. CASE task' = [task EXCEPT ![k] = W!Free] /\ UNCHANGED <<row, streak>>
      BY <1>0, <3>1
    <3>2. CASE /\ row' = IF row.exists THEN [row EXCEPT !.failures = task[k].count] ELSE row
               /\ task' = [task EXCEPT ![k] = IF task[k].count >= Threshold
                                              THEN [task[k] EXCEPT !.at = "trip"] ELSE W!Free]
               /\ UNCHANGED streak
      <4>1. /\ row' \in W!Rows /\ streak' \in Nat /\ row'.exists = row.exists
            /\ task[k].at = "bump" /\ streak' = streak
            /\ row.exists => row'.failures = task[k].count
            /\ row'.tripped = row.tripped
        BY <1>0, <2>3, <3>2 DEF W!Bump, W!Rows
      <4>2. CASE task[k].count >= Threshold
        <5>1. task' = [task EXCEPT ![k] = [task[k] EXCEPT !.at = "trip"]]
          BY <3>2, <4>2
        <5>2. PICK n \in OneTask : n = [task[k] EXCEPT !.at = "trip"]
          BY <1>0
        <5>3. n.at = "trip" /\ n.count = task[k].count
          BY <1>0, <5>2
        <5> QED
          BY <4>1, <4>2, <5>1, <5>2, <5>3
      <4>3. CASE ~(task[k].count >= Threshold)
        <5>1. task' = [task EXCEPT ![k] = W!Free]
          BY <3>2, <4>3
        <5> QED
          BY <1>0, <4>1, <5>1
      <4> QED
        BY <4>2, <4>3
    <3> QED
      BY <2>3, <3>1, <3>2 DEF W!Bump, W!TaskGoes
  <2>4. CASE W!Trip(k)
    BY <1>0, <2>4 DEF W!Trip, W!TaskGoes, W!Rows
  <2> QED
    BY <2>1, <2>2, <2>3, <2>4 DEF W!Work
<1>3. task'[k] = new /\ (\A l \in Tasks \ {k} : task'[l] = task[l]) /\ task' \in [Tasks -> OneTask]
  BY <1>0, <1>2
<1>4. W!TypeOK'
  BY <1>1, <1>a, <1>2, <1>3 DEF HookInv, W!TypeOK
<1>5. ASSUME ~overlap
      PROVE  /\ \A l \in Tasks \ {k} : task[l] = W!Free
             /\ row.exists => row.failures <= streak
             /\ task[k].at \in {"bump", "trip"} => task[k].count <= streak
             /\ task[k].at = "trip" => task[k].count >= Threshold
  BY <1>0, <1>1, <1>5 DEF HookInv, CircuitInv
<1>6. CircuitInv'
  <2> SUFFICES ASSUME ~overlap' PROVE CircuitInv'
    BY DEF CircuitInv
  <2>1. ~overlap /\ \A l \in Tasks \ {k} : task'[l] = W!Free /\ task'[l].at = "free"
    BY <1>0, <1>1, <1>3, <1>5
  <2>2. row'.exists => row'.failures <= streak'
    BY <1>0, <1>2, <1>5, <2>1
  <2>3. new.at \in {"bump", "trip"} => new.count <= streak'
    BY <1>0, <1>2, <1>5, <2>1
  <2>4. new.at = "trip" => new.count >= Threshold
    BY <1>0, <1>2
  <2> QED
    BY <1>3, <2>1, <2>2, <2>3, <2>4 DEF CircuitInv
<1>7. ~row.tripped /\ row'.tripped /\ ~overlap => streak >= Threshold
  <2> SUFFICES ASSUME ~row.tripped, row'.tripped, ~overlap PROVE streak >= Threshold
    OBVIOUS
  <2>1. task[k].at = "trip"
    BY <1>2
  <2>2. task[k].count <= streak /\ task[k].count >= Threshold
    BY <1>5, <2>1
  <2> QED
    BY <1>0, <2>2
<1> QED
  BY <1>4, <1>6, <1>7 DEF HookInv

LEMMA HookInit == W!Init => HookInv
<1> SUFFICES ASSUME W!Init PROVE HookInv
  OBVIOUS
<1>1. W!TypeOK
  <2>1. 0 \in 0..HookEvents /\ 0 \in 0..MaxPatches /\ 0 \in 0..MaxRestarts /\ 0 \in 0..MaxErrors
    BY WorkersAssumption
  <2>2. row \in W!Rows /\ task \in [Tasks -> [at : {"free", "deliver", "bump", "trip"}, count : Nat]]
    BY DEF W!Init, W!Rows, W!Free
  <2> QED
    BY <2>1, <2>2 DEF W!Init, W!TypeOK
<1>2. CircuitInv
  BY DEF W!Init, W!Free, CircuitInv
<1> QED
  BY <1>1, <1>2 DEF HookInv

LEMMA HookNext == HookInv /\ [W!Next]_(W!vars) => HookInv'
<1> SUFFICES ASSUME HookInv, [W!Next]_(W!vars) PROVE HookInv'
  OBVIOUS
<1>1. CASE UNCHANGED W!vars
  BY <1>1 DEF W!vars, W!countVars, HookInv, W!TypeOK, CircuitInv
<1> QED
  BY <1>1, HookLoop, HookPatch, HookDispatch, HookWork DEF W!Next

\* The counter of the circuit breaker (webhooks.py, record_webhook_failure).
THEOREM HookInvariant == W!Spec => []HookInv
BY HookInit, HookNext, PTL DEF W!Spec

\* The circuit breaker trips on a dead receiver only: deliveries that overlap
\* neither each other nor a change of the row trip it after Threshold failures
\* since the last success that was recorded or the enabling, whichever database
\* calls raise and are swallowed (webhook/worker.py, _dispatch_one).
THEOREM TripEarnedTheorem == W!Spec => TripEarned
<1>1. HookInv /\ [W!Next]_(W!vars)
        => [~row.tripped /\ row'.tripped /\ ~overlap => streak >= Threshold]_row
  <2> SUFFICES ASSUME HookInv, [W!Next]_(W!vars), row' # row, ~row.tripped, row'.tripped, ~overlap
               PROVE  streak >= Threshold
    OBVIOUS
  <2>1. row' = row \/ W!Next
    BY DEF W!vars
  <2> QED
    BY <2>1, HookLoop, HookPatch, HookDispatch, HookWork DEF W!Next
<1> QED
  BY <1>1, HookInvariant, PTL DEF W!Spec, TripEarned, W!TripEarned

(* The parts side by side *)

PartsInv == LifeInv /\ UpdaterInv /\ BusInv /\ HookInv

\* A step of MCWorkers is one of its subject and a stutter of the others.
LEMMA PartsStep ==
    ASSUME [WorkersNext]_workersVars
    PROVE  [Next]_vars /\ [U!Next]_(U!vars) /\ [B!Next]_(B!vars) /\ [W!Next]_(W!vars)
<1>1. UNCHANGED updaterVars => UNCHANGED U!vars
  BY DEF updaterVars, U!vars, U!jobVars
<1>2. UNCHANGED busVars => UNCHANGED B!vars
  BY DEF busVars, B!vars, B!clientVars, B!serverVars
<1>3. UNCHANGED hookVars => UNCHANGED W!vars
  BY DEF hookVars, W!vars, W!countVars
<1>4. CASE UNCHANGED workersVars
  BY <1>1, <1>2, <1>3, <1>4 DEF workersVars
<1>5. CASE WorkersNext
  BY <1>1, <1>2, <1>3, <1>5 DEF WorkersNext, ByLifecycle, ByUpdater, ByBus, ByWebhook
<1> QED
  BY <1>4, <1>5

\* Type correctness of the four parts as MCWorkers runs them: rows, tasks and
\* agent jobs of the lifecycle, the updater's directories and job, the queues of
\* the bus within their sizes (OutSize, InSize, SocketSize) and the webhook's row
\* and tasks, whatever is published, pushed, patched, lost or restarted.
THEOREM WorkersTypeCorrect == WorkersSpec => []WorkersTypeOK
<1>1. WorkersInit => PartsInv
  BY LifeInit, UpdaterInit, BusInit, HookInit DEF WorkersInit, PartsInv
<1>2. PartsInv /\ [WorkersNext]_workersVars => PartsInv'
  BY PartsStep, LifeNext, UpdaterNext, BusNext, HookNext DEF PartsInv
<1>3. PartsInv => WorkersTypeOK
  BY DEF PartsInv, LifeInv, UpdaterInv, BusInv, HookInv, WorkersTypeOK
<1> QED
  BY <1>1, <1>2, <1>3, PTL DEF WorkersSpec
=============================================================================
