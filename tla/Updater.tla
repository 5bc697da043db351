------------------------------- MODULE Updater -------------------------------
(***************************************************************************)
(* The self-updater of a swarm worker (decnet/updater/executor.py, app.py):*)
(* update of the agent's release with a health probe and a rollback,       *)
(* manual rollback, and the update of the updater itself.                  *)
(*                                                                         *)
(* Each of the two trees (the agent's and the updater's own) has release   *)
(* directories active, prev, active.new and .swap and one shared venv: a   *)
(* process runs the release that was last installed in a venv, whatever    *)
(* directory is called active.  Which venv is decided by one symlink,      *)
(* /usr/local/bin/decnet: both systemd units execute it, and both kinds of *)
(* update repoint it to their own tree's venv, best effort.                *)
(*                                                                         *)
(* A handler runs to its end before the next request is served; the        *)
(* updater may die between any two file operations and inside an           *)
(* extraction, an installation or a removal.  The current symlink always   *)
(* names the path of active and is left out, and so is what the unit files *)
(* say, which a release may replace.                                       *)
(***************************************************************************)
EXTENDS Naturals

CONSTANTS Releases,      \* releases the master pushes
          Installed,     \* the release the bootstrap installed
          MaxOps,        \* bound: requests
          MaxDeaths      \* bound: deaths of the updater

Trees == {"agent", "updater"}
None == "none"           \* no such directory, or no process
Partial == "partial"     \* a directory cut off while it was written or removed
Broken == "broken"       \* a venv in which the installation of a release was cut off
Bare == "bare"           \* a venv without the dependencies of a release
Held == Releases \cup {None, Partial}
Directories == [active : Held, prev : Held, new : Held, swap : Held]
NoTree == [active |-> None, prev |-> None, new |-> None, swap |-> None]
Programs == Releases \cup {None, Broken, Bare}

VARIABLES
    slots,     \* what each tree's directories hold
    venv,      \* the release installed in each tree's venv
    bin,       \* the tree whose venv /usr/local/bin/decnet names
    proc,      \* the release each process runs: the agent, the updater
    healthy,   \* the releases whose agent can answer the probe
    systemd,   \* whether systemctl is there
    job,       \* the request being served
    last,      \* how the last request ended
    good,      \* history: the active release when a request last succeeded
    unguarded, \* history: a manual rollback, or a request that raised
    stuck,     \* history: the last attempt to repoint the symlink failed
    ops, deaths

jobVars == <<job, last, good, unguarded, ops, deaths>>
vars == <<slots, venv, bin, stuck, proc, healthy, systemd, jobVars>>

Idle == [op |-> "none", tree |-> "agent", rel |-> None, at |-> "idle"]
NoEnd == [how |-> "none", rel |-> None]
Jobs == [op : {"none", "update", "self", "undo", "rollback"}, tree : Trees,
         rel : Releases \cup {None},
         at : {"idle", "extract", "pip", "drop", "keep", "promote", "heal", "restart", "probe",
               "reexec", "out", "in", "back", "respawn", "reprobe"}]
Ends == [how : {"none", "updated", "error", "raised", "rolled_back", "failed",
                "self_update_queued"},
         rel : Releases \cup {None}]

\* The bootstrap unpacks and installs the agent's tree and links its venv; the
\* updater has no tree of its own before its first update.
Init ==
    /\ slots = [t \in Trees |-> IF t = "agent" THEN [NoTree EXCEPT !.active = Installed]
                                ELSE NoTree]
    /\ venv = [t \in Trees |-> IF t = "agent" THEN Installed ELSE None]
    /\ bin = "agent" /\ stuck = FALSE
    /\ proc = [t \in Trees |-> Installed]
    /\ healthy \in {S \in SUBSET Releases : Installed \in S}
    /\ systemd \in BOOLEAN
    /\ job = Idle /\ last = NoEnd
    /\ good = Installed /\ unguarded = FALSE
    /\ ops = 0 /\ deaths = 0

At(step) == job.at = step
Goto(step) == job' = [job EXCEPT !.at = step] /\ UNCHANGED <<last, good, unguarded, ops, deaths>>

\* The request is answered; good is the active release of a success.
End(how, active) ==
    /\ job' = Idle
    /\ last' = [how |-> how, rel |-> job.rel]
    /\ good' = IF how \in {"updated", "rolled_back"} THEN active ELSE good
    /\ unguarded' = (unguarded \/ how = "raised")
    /\ UNCHANGED <<ops, deaths>>

Here == slots[job.tree]
SetSlots(t, new) == slots' = [slots EXCEPT ![t] = new]

-----------------------------------------------------------------------------
(* run_update, and run_update_self, which has no probe *)

\* The tarball's digest was verified (a request with a wrong one changes
\* nothing); a stale active.new is removed and the extraction begins.
Update(t, r) ==
    /\ job = Idle /\ proc["updater"] # None
    /\ ops < MaxOps /\ ops' = ops + 1
    /\ job' = [op |-> IF t = "agent" THEN "update" ELSE "self", tree |-> t, rel |-> r,
               at |-> "extract"]
    /\ SetSlots(t, [slots[t] EXCEPT !.new = Partial])
    /\ UNCHANGED <<venv, bin, stuck, proc, healthy, systemd, last, good, unguarded, deaths>>

\* The manifest is written, or a member of the archive is refused.
Extract ==
    /\ At("extract")
    /\ \/ SetSlots(job.tree, [Here EXCEPT !.new = job.rel]) /\ Goto("pip")
       \/ UNCHANGED slots /\ End("error", None)
    /\ UNCHANGED <<venv, bin, stuck, proc, healthy, systemd>>

\* pip install into the shared venv, which the first installation creates: that
\* one brings the dependencies, the later ones only the release.  A failure
\* removes active.new again and leaves the venv; creating a venv may raise.
Pip ==
    /\ At("pip")
    /\ \/ /\ venv' = [venv EXCEPT ![job.tree] = IF @ = Bare THEN Bare ELSE job.rel]
          /\ Goto("drop") /\ UNCHANGED slots
       \/ /\ SetSlots(job.tree, [Here EXCEPT !.new = None])
          /\ venv' = [venv EXCEPT ![job.tree] = IF @ = None THEN Bare ELSE @]
          /\ End("error", None)
       \/ /\ venv[job.tree] = None
          /\ venv' \in {venv, [venv EXCEPT ![job.tree] = Bare]}
          /\ End("raised", None) /\ UNCHANGED slots
    /\ UNCHANGED <<bin, stuck, proc, healthy, systemd>>

\* _rotate: prev is deleted,
DropPrev ==
    /\ At("drop")
    /\ SetSlots(job.tree, [Here EXCEPT !.prev = None])
    /\ Goto("keep")
    /\ UNCHANGED <<venv, bin, stuck, proc, healthy, systemd>>

\* active, if there is one, becomes prev,
KeepActive ==
    /\ At("keep")
    /\ SetSlots(job.tree, [Here EXCEPT !.prev = Here.active, !.active = None])
    /\ Goto("promote")
    /\ UNCHANGED <<venv, bin, stuck, proc, healthy, systemd>>

\* and active.new becomes active.
Promote ==
    /\ At("promote")
    /\ SetSlots(job.tree, [Here EXCEPT !.active = Here.new, !.new = None])
    /\ Goto("heal")
    /\ UNCHANGED <<venv, bin, stuck, proc, healthy, systemd>>

\* Faulty variant: only a self-update repoints the symlink.
Heal_Skip ==
    /\ At("heal")
    /\ \/ job.op = "self" /\ bin' = job.tree /\ stuck' = FALSE
       \/ job.op # "self" /\ UNCHANGED <<bin, stuck>>
    /\ Goto(IF job.op = "self" THEN "reexec" ELSE "restart")
    /\ UNCHANGED <<slots, venv, proc, healthy, systemd>>

\* _heal_path_symlink: the symlink is made to name this tree's venv; an OSError
\* is logged and the update goes on.  Then the unit files are copied.
Heal ==
    /\ At("heal")
    /\ \/ bin' = job.tree /\ stuck' = FALSE
       \/ bin # job.tree /\ stuck' = TRUE /\ UNCHANGED bin
    /\ Goto(IF job.op = "self" THEN "reexec" ELSE "restart")
    /\ UNCHANGED <<slots, venv, proc, healthy, systemd>>

\* What a process that is started runs: under systemd the unit executes the
\* symlink, otherwise the venv's own command is executed.
Started(t) == venv[IF systemd THEN bin ELSE t]

\* _stop_agent and _spawn_agent.  A failing systemctl restart raises out of the
\* handler.
Restart ==
    /\ At("restart")
    /\ \/ proc' = [proc EXCEPT !["agent"] = Started("agent")] /\ Goto("probe")
       \/ systemd /\ proc' = [proc EXCEPT !["agent"] = None] /\ End("raised", None)
    /\ UNCHANGED <<slots, venv, bin, stuck, healthy, systemd>>

\* The probe of run_update: ten attempts; a healthy agent may be too slow.
ProbeUpdate ==
    /\ At("probe") /\ job.op = "update"
    /\ \/ proc["agent"] \in healthy /\ End("updated", Here.active)
       \/ job' = [job EXCEPT !.op = "undo", !.at = "out"]
          /\ UNCHANGED <<last, good, unguarded, ops, deaths>>
    /\ UNCHANGED <<slots, venv, bin, stuck, proc, healthy, systemd>>

\* An updater that cannot start serves no more requests.
Serves(program) == IF program \in healthy THEN program ELSE None

\* run_update_self: the updater is restarted by systemd, or replaces itself.
Reexec ==
    /\ At("reexec")
    /\ proc' = [proc EXCEPT !["updater"] = Serves(Started("updater"))]
    /\ End("self_update_queued", None)
    /\ UNCHANGED <<slots, venv, bin, stuck, healthy, systemd>>

-----------------------------------------------------------------------------
(* The rollback of run_update, and run_rollback *)

Rollback ==
    /\ job = Idle /\ proc["updater"] # None
    /\ ops < MaxOps /\ ops' = ops + 1
    /\ slots["agent"].prev # None
    /\ unguarded' = TRUE
    /\ job' = [op |-> "rollback", tree |-> "agent", rel |-> None, at |-> "out"]
    /\ UNCHANGED <<slots, venv, bin, stuck, proc, healthy, systemd, last, good, deaths>>

\* The agent is stopped (not under systemd), an old .swap removed and active
\* moved there; without active the rename raises.
SwapOut ==
    /\ At("out")
    /\ proc' = IF systemd THEN proc ELSE [proc EXCEPT !["agent"] = None]
    /\ \/ /\ Here.active # None
          /\ SetSlots("agent", [Here EXCEPT !.swap = Here.active, !.active = None])
          /\ Goto("in")
       \/ /\ Here.active = None
          /\ SetSlots("agent", [Here EXCEPT !.swap = None])
          /\ End("raised", None)
    /\ UNCHANGED <<venv, bin, stuck, healthy, systemd>>

\* prev becomes active; without prev the rename raises.
SwapIn ==
    /\ At("in")
    /\ \/ /\ Here.prev # None
          /\ SetSlots("agent", [Here EXCEPT !.active = Here.prev, !.prev = None])
          /\ Goto("back")
       \/ Here.prev = None /\ End("raised", None) /\ UNCHANGED slots
    /\ UNCHANGED <<venv, bin, stuck, proc, healthy, systemd>>

\* Faulty variant: the release that failed is put back as active.
SwapBack_Active ==
    /\ At("back")
    /\ SetSlots("agent", [Here EXCEPT !.prev = Here.active, !.active = Here.swap,
                                      !.swap = None])
    /\ Goto("respawn")
    /\ UNCHANGED <<venv, bin, stuck, proc, healthy, systemd>>

\* .swap becomes prev.
SwapBack ==
    /\ At("back")
    /\ SetSlots("agent", [Here EXCEPT !.prev = Here.swap, !.swap = None])
    /\ Goto("respawn")
    /\ UNCHANGED <<venv, bin, stuck, proc, healthy, systemd>>

\* _spawn_agent: no release is installed again and the symlink stays as it is.
Respawn ==
    /\ At("respawn")
    /\ \/ proc' = [proc EXCEPT !["agent"] = Started("agent")] /\ Goto("reprobe")
       \/ systemd /\ proc' = [proc EXCEPT !["agent"] = None] /\ End("raised", None)
    /\ UNCHANGED <<slots, venv, bin, stuck, healthy, systemd>>

\* The second probe decides what is reported (409 or 500), and nothing else.
ProbeRollback ==
    /\ At("reprobe")
    /\ \/ proc["agent"] \in healthy /\ End("rolled_back", Here.active)
       \/ End("failed", None)
    /\ UNCHANGED <<slots, venv, bin, stuck, proc, healthy, systemd>>

-----------------------------------------------------------------------------
\* What a pip that is cut off leaves in a venv.
CutOff(program) ==
    CASE program = None -> {None, Bare}
      [] program = Bare -> {Bare}
      [] OTHER -> {program, Broken}

\* The updater dies and is started again through the symlink: nothing looks at
\* what it left.
Die ==
    /\ job # Idle
    /\ deaths < MaxDeaths /\ deaths' = deaths + 1
    /\ job' = Idle
    /\ last' = NoEnd
    /\ \E left \in IF At("pip") THEN CutOff(venv[job.tree]) ELSE {venv[job.tree]} :
          venv' = [venv EXCEPT ![job.tree] = left]
    /\ slots' \in {slots} \cup (IF At("drop") /\ Here.prev # None
                                THEN {[slots EXCEPT ![job.tree].prev = Partial]} ELSE {})
    /\ proc' = [proc EXCEPT !["updater"] = Serves(venv'[bin])]
    /\ UNCHANGED <<bin, stuck, healthy, systemd, good, unguarded, ops>>

Step ==
    \/ Extract \/ Pip \/ DropPrev \/ KeepActive \/ Promote \/ Heal \/ Restart \/ ProbeUpdate
    \/ Reexec \/ SwapOut \/ SwapIn \/ SwapBack \/ Respawn \/ ProbeRollback

Next == Step \/ Rollback \/ Die \/ \E t \in Trees, r \in Releases : Update(t, r)

Spec == Init /\ [][Next]_vars

-----------------------------------------------------------------------------
(* Properties *)

\* Type correctness of the directories, the venvs and the request.
TypeOK ==
    /\ slots \in [Trees -> Directories]
    /\ venv \in [Trees -> Programs] /\ venv["agent"] \in Releases \cup {Broken}
    /\ bin \in Trees /\ stuck \in BOOLEAN
    /\ proc \in [Trees -> Programs]
    /\ healthy \subseteq Releases /\ systemd \in BOOLEAN
    /\ job \in Jobs /\ last \in Ends
    /\ good \in Releases \cup {Partial} /\ unguarded \in BOOLEAN
    /\ ops \in 0..MaxOps /\ deaths \in 0..MaxDeaths

\* "updated" is true: whatever earlier requests, self-updates, failures and
\* deaths left behind, the release that was pushed is active and installed, the
\* agent that answered the probe is healthy, and it runs that release, unless
\* the agent is started through the symlink and it could not be repointed.
UpdatedRuns ==
    last.how = "updated" /\ job = Idle =>
        /\ last.rel = slots["agent"].active /\ last.rel = venv["agent"]
        /\ proc["agent"] \in healthy
        /\ (systemd /\ stuck) \/ last.rel = proc["agent"]

\* "fails but the install dir is consistent" (UpdateError): as long as the
\* updater does not die, systemctl does not fail and nobody rolls back by hand,
\* an update that ends in an UpdateError leaves the last good release in active,
\* however many updates failed before.
FailureRestores ==
    last.how \in {"error", "failed", "rolled_back"} /\ job = Idle
    /\ deaths = 0 /\ ~unguarded =>
        slots["agent"].active = good

\* What a rollback reports ("rolled back to previous release"): the agent runs
\* the release that is active again.
RolledBackRuns ==
    last.how = "rolled_back" /\ job = Idle => proc["agent"] = slots["agent"].active
=============================================================================
