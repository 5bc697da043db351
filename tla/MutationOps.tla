----------------------------- MODULE MutationOps -----------------------------
(***************************************************************************)
(* The live mutations of one deployed, master-resident MazeNET topology    *)
(* (decnet/mutator/ops.py): each apply_<op> reads the hydrated topology,   *)
(* writes rows, converges Docker towards them as far as Docker lets it,    *)
(* and validates the result.  Beside the mutator act the API's live        *)
(* service changes (engine/services_live.py) and teardown, and a redeploy  *)
(* of the flat fleet.  What an op reads and checks before its first write  *)
(* is one step; after it each write, check of the status and docker call   *)
(* is a step of its own.                                                   *)
(*                                                                         *)
(* LAN and decky names are unique in a topology, so they stand for the     *)
(* rows; the edges hold the LAN's id and so follow a rename, the addresses *)
(* in decky_config are keyed by its name and do not.  An address is its    *)
(* subnet and a host number.  Coordinates, archetypes, the content of      *)
(* service configs and the two checks on service names and configs are     *)
(* left out, and so is an update_decky patch that rewrites the name or     *)
(* empties the addresses.  A compose command of several targets acts on    *)
(* all or none.                                                            *)
(***************************************************************************)
EXTENDS TopologyStatus, Naturals, Sequences, SequencesExt

CONSTANTS LanNames, Subnets, Hosts, Deckies, Services,
          FirstLans,     \* the LANs deployed at first
          PinnedHosts,   \* host numbers a payload asks for
          Patches,       \* address lists an update_decky patch may carry
          MaxOps, MaxApi, MaxFaults   \* bounds on mutations, API calls, faults

Address == [lan : LanNames, ip : [net : Subnets, host : Hosts]]

ASSUME MutationOpsAssumption ==
    /\ Subnets \subseteq Nat \ {0} /\ Hosts \subseteq Nat \ {0} /\ Deckies \subseteq Nat \ {0}
    /\ PinnedHosts \subseteq Hosts /\ 1 \in Hosts
    /\ FirstLans \subseteq LanNames /\ FirstLans # {} /\ 1 \in Deckies
    /\ IsFiniteSet(LanNames)
    /\ 1..Cardinality(FirstLans) \subseteq Subnets
    /\ \A p \in Patches :
          p \in Seq(Address) /\ p # <<>> /\ \A i, j \in DOMAIN p : p[i].lan = p[j].lan => i = j
    /\ MaxOps \in Nat /\ MaxApi \in Nat /\ MaxFaults \in Nat

VARIABLES
    status,    \* topologies.status
    lans,      \* LAN rows by name
    rows,      \* decky rows by name
    edges,     \* topology_edges
    bridges,   \* the topology's bridge networks: their subnet
    base,      \* base containers: compose project, networks, published
    svc,       \* service containers: their compose project
    file,      \* the topology's compose file
    job,       \* the mutation being applied
    api,       \* the live service change in progress
    down,      \* the teardown in progress
    left,      \* the mutations, API calls and faults still to come
    excuses    \* what has happened that Docker need not follow the rows after

dbVars == <<lans, rows, edges>>
dockerVars == <<bridges, base, svc, file>>
vars == <<status, dbVars, dockerVars, job, api, down, left, excuses>>

None == "none"
Own == "topology"     \* _topology_compose_project
Fleet == "fleet"      \* FLEET_COMPOSE_PROJECT
NoNet == 0
NoLan == [subnet |-> NoNet, dmz |-> FALSE]
NoRow == [uuid |-> 0]
NoBase == [project |-> None, nets |-> {}, l3 |-> FALSE]
NoFile == [d \in {0} |-> None]
NoApi == [kind |-> None]
NoDown == [at |-> None]

Blank == [op |-> None, at |-> None, d |-> 0, lan |-> None, ip |-> None, l3 |-> FALSE,
          cfg |-> <<>>, patch |-> None, services |-> {}, add |-> {}, del |-> {}, visitors |-> {}]

HasRow(d) == rows[d] # NoRow
IsLive == status \in LiveStatuses

\* A topology as deployed: the first LAN is the DMZ and has the first decky.
\* Of mutations, API calls and faults a behaviour has a budget each.
Init ==
    LET order == SetToSeq(FirstLans)
        home == [lan |-> order[1], ip |-> [net |-> 1, host |-> 1]]
        cfg == [ips |-> <<home>>, l3 |-> FALSE]
        first == [l \in LanNames |-> IF l \notin FirstLans THEN NoLan
                     ELSE LET n == CHOOSE i \in DOMAIN order : order[i] = l IN
                          [subnet |-> n, dmz |-> n = 1]] IN
    /\ status = "active"
    /\ lans = first
    /\ rows = [d \in Deckies |->
                 IF d = 1 THEN [uuid |-> 1, cfg |-> cfg, services |-> Services,
                                state |-> "running"]
                 ELSE NoRow]
    /\ edges = {[d |-> 1, lan |-> home.lan, bridge |-> FALSE]}
    /\ bridges = [l \in LanNames |-> first[l].subnet]
    /\ base = [d \in Deckies |->
                 IF d = 1 THEN [project |-> Own, nets |-> {home}, l3 |-> FALSE] ELSE NoBase]
    /\ svc = [d \in Deckies |-> [s \in Services |-> IF d = 1 THEN Own ELSE None]]
    /\ file = [d \in {1} |-> [nets |-> {home}, services |-> Services, l3 |-> FALSE]]
    /\ job = Blank /\ api = NoApi /\ down = NoDown
    /\ left \in [ops : 0..MaxOps, api : 0..MaxApi, faults : 0..MaxFaults]
    /\ excuses = {}

-----------------------------------------------------------------------------
(* The rows as hydrate reads them *)

Keys(ips) == {ips[i].lan : i \in DOMAIN ips}
Members(l) == {d \in Deckies : \E e \in edges : e.d = d /\ e.lan = l}
Least(S) == CHOOSE x \in S : \A y \in S : x <= y

\* Pass 2 of _backfill_decky_configs: an edge without an address is given one,
\* the free hosts of the LAN going to such members in the order of their names.
Backfilled(d, l) ==
    LET gaps == {e \in Members(l) : l \notin Keys(rows[e].cfg.ips)}
        reserved == {h \in Hosts : \E e \in Members(l) :
                        ToSet(rows[e].cfg.ips)
                            \cap {[lan |-> l, ip |-> [net |-> lans[l].subnet, host |-> h]]} # {}}
        Rank(S, x) == Cardinality({y \in S : y <= x})
        h == CHOOSE h \in Hosts \ reserved : Rank(Hosts \ reserved, h) = Rank(gaps, d) IN
    [lan |-> l, ip |-> [net |-> lans[l].subnet, host |-> h]]

Config(d) ==
    LET ips == rows[d].cfg.ips
        gaps == {l \in LanNames : d \in Members(l) /\ l \notin Keys(ips)} IN
    [rows[d].cfg EXCEPT !.ips = ips \o SetToSeq({Backfilled(d, l) : l \in gaps})]

Configs == [d \in {e \in Deckies : HasRow(e)} |-> Config(d)]

\* _assert_valid_after on the hydrated topology: every address in a known LAN
\* and its subnet, none twice in a LAN, and no two LANs on one subnet.
Valid ==
    LET cfg == Configs IN
    /\ \A d \in DOMAIN cfg : \A a \in ToSet(cfg[d].ips) :
          /\ lans[a.lan] # NoLan /\ a.ip.net = lans[a.lan].subnet
          /\ \A e \in DOMAIN cfg \ {d} : a \notin ToSet(cfg[e].ips)
    /\ \A l, m \in LanNames : l # m /\ lans[l] # NoLan => lans[l].subnet # lans[m].subnet

\* write_topology_compose: an address in an unknown LAN raises, the old file stays.
Renders == \A d \in DOMAIN Configs : \A a \in ToSet(Configs[d].ips) : lans[a.lan] # NoLan

Rendered ==
    IF ~Renders THEN file
    ELSE [d \in DOMAIN Configs |->
            [nets |-> ToSet(Configs[d].ips), services |-> rows[d].services, l3 |-> Configs[d].l3]]

-----------------------------------------------------------------------------
(* Docker, as far as the code uses it *)

\* Networks are removed with force: whoever is on them is disconnected first.
Unplugged(S) ==
    [d \in Deckies |-> [base[d] EXCEPT !.nets = {a \in @ : a.lan \notin S}]]

InUse(l) == \E d \in Deckies : \E a \in base[d].nets : a.lan = l

\* create_bridge_network: reuse, or replace one of this name on another subnet,
\* sweep unused bridges on the subnet; one in use makes the create fail.
CreateBridge(l, subnet) ==
    LET rivals == {m \in LanNames \ {l} : bridges[m] = subnet} IN
    IF bridges[l] = subnet THEN UNCHANGED <<bridges, base>>
    ELSE /\ base' = Unplugged({l})
         /\ bridges' = [m \in LanNames |->
               CASE m = l -> IF \E r \in rivals : InUse(r) THEN NoNet ELSE subnet
                 [] m \in rivals /\ ~InUse(m) -> NoNet
                 [] OTHER -> bridges[m]]

RemoveBridge(l) == base' = Unplugged({l}) /\ bridges' = [bridges EXCEPT ![l] = NoNet]

\* The addresses can be had: the networks exist and nobody else is there.
Wirable(d, nets) ==
    \A a \in nets : /\ bridges[a.lan] = a.ip.net
                    /\ \A e \in Deckies \ {d} : a \notin base[e].nets

\* A base container is created from compose file f in project p: its name must
\* not belong to a container of another project.
BaseStarts(d, f, p) ==
    d \in DOMAIN f /\ base[d].project \in {None, p} /\ Wirable(d, f[d].nets)

FromFile(d, f, p) == [project |-> p, nets |-> f[d].nets, l3 |-> f[d].l3]

\* Service containers live in the namespace of the base of their own project.
ServicesStart(d, S, f, p) ==
    /\ d \in DOMAIN f /\ S \subseteq f[d].services
    /\ \A s \in S : svc[d][s] \in {None, p}

With(sv, d, S, p) == [sv EXCEPT ![d] = [s \in Services |-> IF s \in S THEN p ELSE @[s]]]

\* compose stop and rm name services of the file; containers of another project
\* are not theirs to remove.
Listed(d, S, f) == d \in DOMAIN f /\ S \subseteq f[d].services
Without(sv, d, S, p) ==
    [sv EXCEPT ![d] = [s \in Services |-> IF s \in S /\ @[s] = p THEN None ELSE @[s]]]

-----------------------------------------------------------------------------
(* Mutations: the first step, up to the first write *)

Excuse(e, c) == excuses' = IF c THEN excuses \cup {e} ELSE excuses
Fault ==
    /\ left.faults > 0 /\ left' = [left EXCEPT !.faults = @ - 1]
    /\ Excuse("disturbed", TRUE)
NoFault == UNCHANGED <<left, excuses>>

Degraded == IF assert_transition(status, "degraded") THEN "degraded" ELSE status

\* Claimed while the topology was live; a teardown may have begun since.
Claim ==
    /\ job = Blank /\ (IsLive \/ down # NoDown)
    /\ left.ops > 0 /\ left' = [left EXCEPT !.ops = @ - 1]

\* The op starts with this job, or its guard raises and the topology degrades.
Begin(guard, j) ==
    /\ Claim
    /\ IF guard THEN job' = j /\ UNCHANGED status ELSE status' = Degraded /\ UNCHANGED job
    /\ excuses' = excuses \cup {e \in {"disturbed"} : api # NoApi \/ down # NoDown}
                          \cup {e \in {"rename"} : guard /\ j.op = "update_lan"}
                          \cup {e \in {"patch"} : guard /\ j.patch = "addresses"}
    /\ UNCHANGED <<dockerVars, api, down>>

\* A subnet from the payload or the allocator; the unique constraint refuses a
\* second LAN of the name.
apply_add_lan(l, subnet) ==
    /\ Begin(lans[l] = NoLan, [Blank EXCEPT !.op = "add_lan", !.at = "check", !.lan = l])
    /\ lans' = IF lans[l] = NoLan THEN [lans EXCEPT ![l] = [subnet |-> subnet, dmz |-> FALSE]]
               ELSE lans
    /\ UNCHANGED <<rows, edges>>

Home(cfg) == IF cfg.ips = <<>> THEN None ELSE cfg.ips[1].lan

apply_remove_lan(l) ==
    /\ Begin(/\ lans[l] # NoLan
             /\ \A d \in DOMAIN Configs : Home(Configs[d]) # l,
             [Blank EXCEPT !.op = "remove_lan", !.lan = l, !.cfg = Configs,
                           !.at = IF Members(l) = {} THEN "drop" ELSE "write",
                           !.visitors = Members(l)])
    /\ UNCHANGED dbVars

\* The allocator reserves the addresses taken in the LAN, which must be of its
\* subnet, and hands out the next host; 0 asks for it, any other is pinned.
Taken(l) == {a.ip : a \in {b \in UNION {ToSet(Configs[d].ips) : d \in DOMAIN Configs} :
                             b.lan = l}}
FreeHosts(l) == Hosts \ {ip.host : ip \in Taken(l)}
Allocates(l, pin) ==
    pin # 0 \/ (FreeHosts(l) # {} /\ \A ip \in Taken(l) : ip.net = lans[l].subnet)
NewAddress(l, pin) ==
    LET host == IF pin # 0 \/ FreeHosts(l) = {} THEN pin ELSE Least(FreeHosts(l)) IN
    [lan |-> l, ip |-> [net |-> lans[l].subnet, host |-> host]]

apply_add_decky(d, l, S, l3, pin) ==
    /\ Begin(~HasRow(d) /\ lans[l] # NoLan /\ Allocates(l, pin),
             [Blank EXCEPT !.op = "add_decky", !.at = "write", !.d = d, !.lan = l,
                           !.ip = NewAddress(l, pin), !.add = S, !.l3 = l3])
    /\ UNCHANGED dbVars

apply_attach_decky(d, l, l3, pin) ==
    /\ Begin(HasRow(d) /\ lans[l] # NoLan /\ d \notin Members(l) /\ Allocates(l, pin),
             [Blank EXCEPT !.op = "attach_decky", !.at = "write", !.d = d, !.lan = l,
                           !.ip = NewAddress(l, pin), !.l3 = l3, !.cfg = Configs])
    /\ UNCHANGED dbVars

\* Faulty: the home LAN may be detached too.
apply_detach_decky_AnyLan(d, l) ==
    /\ Begin(HasRow(d) /\ lans[l] # NoLan /\ d \in Members(l),
             [Blank EXCEPT !.op = "detach_decky", !.at = "write", !.d = d, !.lan = l,
                           !.cfg = Configs])
    /\ UNCHANGED dbVars

apply_detach_decky(d, l) ==
    /\ Begin(HasRow(d) /\ lans[l] # NoLan /\ Home(Configs[d]) \notin {None, l} /\ d \in Members(l),
             [Blank EXCEPT !.op = "detach_decky", !.at = "write", !.d = d, !.lan = l,
                           !.cfg = Configs])
    /\ UNCHANGED dbVars

apply_remove_decky(d) ==
    /\ Begin(HasRow(d), [Blank EXCEPT !.op = "remove_decky", !.at = "write", !.d = d,
                                      !.del = IF HasRow(d) THEN rows[d].services ELSE {}])
    /\ UNCHANGED dbVars

\* A gateway is homed in the DMZ, by its first non-bridge edge or else any edge.
HomedInDmz(d) ==
    LET mine == {e \in edges : e.d = d}
        homes == IF \E e \in mine : ~e.bridge THEN {e \in mine : ~e.bridge} ELSE mine IN
    \E e \in homes : lans[e.lan].dmz

\* New services S, and a patch merged into decky_config key by key: it may carry
\* a whole new address list, ips, and flip forwards_l3, which needs force while
\* live; nothing but validation looks at the addresses.
apply_update_decky(d, S, patch, ips, flip, force) ==
    /\ flip \/ ips # <<>> => patch
    /\ HasRow(d) => patch \/ S # rows[d].services
    /\ Begin(HasRow(d) /\ (flip => (force \/ ~IsLive) /\ (Configs[d].l3 \/ HomedInDmz(d))),
             IF ~HasRow(d) THEN Blank
             ELSE [Blank EXCEPT !.op = "update_decky", !.at = "write", !.d = d,
                                !.cfg = IF ips = <<>> THEN Configs
                                        ELSE [Configs EXCEPT ![d].ips = ips],
                                !.patch = CASE ips # <<>> -> "addresses"
                                            [] ips = <<>> /\ patch -> "keys"
                                            [] OTHER -> None,
                                !.l3 = (Configs[d].l3 # flip), !.services = S,
                                !.add = S \ rows[d].services, !.del = rows[d].services \ S])
    /\ UNCHANGED dbVars

\* A new name, or with the same name a new subnet, which is refused while live.
\* The row is all that is written.
apply_update_lan(l, name, subnet) ==
    LET accepts == /\ lans[l] # NoLan
                   /\ IF name = l THEN ~IsLive ELSE lans[name] = NoLan
        new == IF name = l THEN [lans[l] EXCEPT !.subnet = subnet] ELSE lans[l] IN
    /\ (name = l) = (subnet # NoNet)
    /\ Begin(accepts, [Blank EXCEPT !.op = "update_lan", !.at = "validate"])
    /\ lans' = IF accepts THEN [[lans EXCEPT ![l] = NoLan] EXCEPT ![name] = new] ELSE lans
    /\ edges' = IF accepts THEN {IF e.lan = l THEN [e EXCEPT !.lan = name] ELSE e : e \in edges}
                ELSE edges
    /\ UNCHANGED rows

-----------------------------------------------------------------------------
(* Mutations: the other writes *)

Goto(at) == job' = [job EXCEPT !.at = at]
On(opset, at) == job.op \in opset /\ job.at = at
RowStep == UNCHANGED <<status, lans, dockerVars, api, down, left, excuses>>

\* An address list has a LAN once: pop and put are those of a dict that keeps
\* the order of its keys.
Pop(ips, l) == IF l \in Keys(ips)
               THEN RemoveAt(ips, CHOOSE i \in DOMAIN ips : ips[i].lan = l) ELSE ips
Put(ips, a) == IF a.lan \in Keys(ips)
               THEN [i \in DOMAIN ips |-> IF ips[i].lan = a.lan THEN a ELSE ips[i]]
               ELSE Append(ips, a)

WriteAdd ==
    /\ On({"add_decky"}, "write")
    /\ rows' = [rows EXCEPT ![job.d] =
          [uuid |-> left.ops + 2, cfg |-> [ips |-> <<job.ip>>, l3 |-> job.l3],
           services |-> job.add, state |-> "pending"]]
    /\ Goto("edge") /\ UNCHANGED edges /\ RowStep

\* decky_config as it was hydrated, with the LAN's address put in or popped.
WriteAttach ==
    /\ On({"attach_decky"}, "write")
    /\ rows' = [rows EXCEPT ![job.d].cfg =
          [ips |-> Put(job.cfg[job.d].ips, job.ip), l3 |-> job.cfg[job.d].l3 \/ job.l3]]
    /\ Goto("edge") /\ UNCHANGED edges /\ RowStep

\* Faulty: decky_config keeps the address, only the edge goes.
WriteDetach_KeepAddress ==
    /\ On({"detach_decky"}, "write")
    /\ Goto("unedge") /\ UNCHANGED <<rows, edges>> /\ RowStep

WriteDetach ==
    /\ On({"detach_decky"}, "write")
    /\ rows' = [rows EXCEPT ![job.d].cfg = [job.cfg[job.d] EXCEPT !.ips = Pop(@, job.lan)]]
    /\ Goto("unedge") /\ UNCHANGED edges /\ RowStep

\* remove_lan's loop over the members left, all of them visitors.
WriteVisitor ==
    /\ On({"remove_lan"}, "write")
    /\ \E d \in job.visitors :
          /\ rows' = [rows EXCEPT ![d].cfg = [job.cfg[d] EXCEPT !.ips = Pop(@, job.lan)]]
          /\ job' = [job EXCEPT !.d = d, !.at = "check"]
    /\ UNCHANGED edges /\ RowStep

WriteRemove ==
    /\ On({"remove_decky"}, "write")
    /\ rows' = [rows EXCEPT ![job.d] = NoRow]
    /\ edges' = {e \in edges : e.d # job.d}
    /\ Goto("check") /\ RowStep

Flips == job.l3 # job.cfg[job.d].l3

WriteUpdate ==
    LET d == job.d IN
    /\ On({"update_decky"}, "write")
    /\ rows' = [rows EXCEPT
          ![d].cfg = IF job.patch # None THEN [job.cfg[d] EXCEPT !.l3 = job.l3] ELSE @,
          ![d].services = IF job.add \cup job.del # {} THEN job.services ELSE @]
    /\ Goto(IF job.add \cup job.del # {} THEN "check" ELSE "check_l3")
    /\ UNCHANGED edges /\ RowStep

AddEdge ==
    /\ On({"add_decky", "attach_decky"}, "edge")
    /\ edges' = edges \cup {[d |-> job.d, lan |-> job.lan, bridge |-> job.op = "attach_decky"]}
    /\ Goto("check") /\ UNCHANGED rows /\ RowStep

DeleteEdge ==
    LET others == job.visitors \ {job.d} IN
    /\ On({"detach_decky", "remove_lan"}, "unedge")
    /\ edges' = {e \in edges : e.d # job.d \/ e.lan # job.lan}
    /\ IF job.op = "detach_decky" THEN Goto("check")
       ELSE job' = [job EXCEPT !.visitors = others, !.d = 0,
                               !.at = IF others = {} THEN "drop" ELSE "write"]
    /\ UNCHANGED rows /\ RowStep

DropLan ==
    /\ On({"remove_lan"}, "drop")
    /\ lans' = [lans EXCEPT ![job.lan] = NoLan]
    /\ Goto("check")
    /\ UNCHANGED <<status, rows, edges, dockerVars, api, down, left, excuses>>

-----------------------------------------------------------------------------
(* Mutations: docker, and the verdict *)

\* Where an op goes on after its docker work, or without it.
AfterDocker ==
    CASE job.op = "remove_lan" /\ job.d # 0 -> "unedge"
      [] job.op = "update_decky" /\ job.at \in {"check", "docker"} /\ Flips -> "check_l3"
      [] OTHER -> "validate"

\* _live_topology_or_none: is the topology still live?
CheckLive ==
    \/ /\ job.at = "check" /\ Goto(IF IsLive THEN "docker" ELSE AfterDocker)
       /\ UNCHANGED <<rows, edges>> /\ RowStep
    \/ /\ job.at = "check_l3" /\ Goto(IF IsLive /\ Flips THEN "docker_l3" ELSE "validate")
       /\ UNCHANGED <<rows, edges>> /\ RowStep

DockerStep(opset) ==
    /\ On(opset, "docker")
    /\ file' = Rendered
    /\ UNCHANGED <<status, dbVars, api, down>>

\* The commands of ops.py name no project: they run in the fleet's.
OpsProject == Fleet

\* _materialise_lan_change: a failing bridge call is logged, but docker.from_env
\* raises out of the op.
DockerLan ==
    \/ /\ DockerStep({"add_lan", "remove_lan"})
       /\ job.d = 0
       /\ \/ /\ NoFault
             /\ IF job.op = "add_lan" THEN CreateBridge(job.lan, lans[job.lan].subnet)
                ELSE RemoveBridge(job.lan)
          \/ Fault /\ UNCHANGED <<bridges, base>>
       /\ Goto("validate") /\ UNCHANGED svc
    \/ /\ On({"add_lan", "remove_lan"}, "docker")
       /\ job.d = 0
       /\ Fault /\ job' = Blank /\ status' = Degraded
       /\ UNCHANGED <<dbVars, dockerVars, api, down>>

DockerSpawn ==
    LET f == Rendered
        starts == BaseStarts(job.d, f, OpsProject)
                  /\ ServicesStart(job.d, job.add, f, OpsProject) IN
    /\ DockerStep({"add_decky"})
    /\ \/ /\ starts /\ NoFault
          /\ base' = [base EXCEPT ![job.d] = FromFile(job.d, f, OpsProject)]
          /\ svc' = With(svc, job.d, job.add, OpsProject)
          /\ Goto("state")
       \/ /\ IF starts THEN Fault ELSE NoFault
          /\ Goto("validate") /\ UNCHANGED <<base, svc>>
    /\ UNCHANGED bridges

DockerRemove ==
    LET d == job.d
        acts == Listed(d, job.del, file) IN
    /\ DockerStep({"remove_decky"})
    /\ \/ /\ acts /\ NoFault
          /\ base' = [base EXCEPT ![d] = IF @.project = OpsProject THEN NoBase ELSE @]
          /\ svc' = Without(svc, d, job.del, OpsProject)
       \/ (IF acts THEN Fault ELSE NoFault) /\ UNCHANGED <<base, svc>>
    /\ Goto("validate") /\ UNCHANGED bridges

DockerConnect ==
    LET d == job.d
        connects == /\ base[d] # NoBase /\ job.lan \notin {a.lan : a \in base[d].nets}
                    /\ Wirable(d, {job.ip}) IN
    /\ DockerStep({"attach_decky"})
    /\ \/ connects /\ NoFault /\ base' = [base EXCEPT ![d].nets = @ \cup {job.ip}]
       \/ (IF connects THEN Fault ELSE NoFault) /\ UNCHANGED base
    /\ Goto("validate") /\ UNCHANGED <<bridges, svc>>

DockerDisconnect ==
    LET d == job.d IN
    /\ DockerStep({"detach_decky", "remove_lan"})
    /\ d # 0
    /\ \/ /\ NoFault
          /\ base' = [base EXCEPT ![d].nets = {a \in @ : a.lan # job.lan}]
       \/ base[d] # NoBase /\ Fault /\ UNCHANGED base
    /\ Goto(AfterDocker) /\ UNCHANGED <<bridges, svc>>

\* _materialise_decky_services_diff renders first, so that what it stops is no
\* longer in the file.
DockerServices ==
    LET d == job.d
        f == Rendered
        added == IF base[d].project = OpsProject /\ ServicesStart(d, job.add, f, OpsProject)
                 THEN With(svc, d, job.add, OpsProject) ELSE svc IN
    /\ DockerStep({"update_decky"})
    /\ \/ /\ NoFault
          /\ svc' = IF Listed(d, job.del, f) THEN Without(added, d, job.del, OpsProject) ELSE added
       \/ Fault /\ UNCHANGED svc
    /\ Goto(AfterDocker) /\ UNCHANGED <<bridges, base>>

DockerRecreate ==
    LET d == job.d
        f == Rendered
        starts == BaseStarts(d, f, OpsProject) IN
    /\ On({"update_decky"}, "docker_l3")
    /\ file' = f
    /\ \/ starts /\ NoFault /\ base' = [base EXCEPT ![d] = FromFile(d, f, OpsProject)]
       \/ (IF starts THEN Fault ELSE NoFault) /\ UNCHANGED base
    /\ Goto("validate")
    /\ UNCHANGED <<status, dbVars, bridges, svc, api, down>>

\* Faulty: a state the column does not know.
WriteRunning_Unknown ==
    /\ On({"add_decky"}, "state")
    /\ rows' = [rows EXCEPT ![job.d].state = "up"]
    /\ Goto("validate") /\ UNCHANGED edges /\ RowStep

WriteRunning ==
    /\ On({"add_decky"}, "state")
    /\ rows' = [rows EXCEPT ![job.d].state = "running"]
    /\ Goto("validate") /\ UNCHANGED edges /\ RowStep

\* A failed validation undoes nothing.
Validate ==
    /\ job.at = "validate"
    /\ job' = Blank
    /\ status' = IF Valid THEN status ELSE Degraded
    /\ Excuse("disturbed", ~Valid)
    /\ UNCHANGED <<dbVars, dockerVars, api, down, left>>

\* The mutator dies; the rest of the op is never done.
MutatorDies ==
    /\ job # Blank
    /\ job' = Blank
    /\ Fault
    /\ UNCHANGED <<status, dbVars, dockerVars, api, down>>

-----------------------------------------------------------------------------
(* Live service changes through the API: engine/services_live.py *)

ApiGoto(at) == api' = [api EXCEPT !.at = at]
ApiEnds == api' = NoApi
ApiStep == UNCHANGED <<lans, edges, bridges, job, down>>

\* The decky is read; config says whether decky_config will be written too,
\* up whether a container is to be started.  The status is not looked at.
ApiBegin(kind, d, s, config, up) ==
    /\ api = NoApi /\ left.api > 0 /\ left' = [left EXCEPT !.api = @ - 1]
    /\ HasRow(d)
    /\ (s \in rows[d].services) = (kind # "add")
    /\ kind = "add" => up
    /\ kind = "remove" => ~config /\ ~up
    /\ kind = "update" => config
    /\ api' = [kind |-> kind, at |-> IF kind = "remove" THEN "stop" ELSE "write", d |-> d,
               s |-> s, uuid |-> rows[d].uuid, cfg |-> Config(d),
               services |-> rows[d].services, config |-> config, up |-> up]
    /\ Excuse("disturbed", job # Blank \/ ~IsLive)
    /\ UNCHANGED <<status, dbVars, dockerVars, job, down>>

\* compose stop and rm; a failure ends the request before anything is written.
ApiStop ==
    /\ api.kind = "remove" /\ api.at = "stop"
    /\ \/ /\ Listed(api.d, {api.s}, file) /\ NoFault
          /\ svc' = Without(svc, api.d, {api.s}, Own)
          /\ ApiGoto("write")
       \/ /\ IF Listed(api.d, {api.s}, file) THEN Fault ELSE NoFault
          /\ ApiEnds /\ UNCHANGED svc
    /\ UNCHANGED <<status, rows, base, file>> /\ ApiStep

\* The services and, if asked, the configuration as they were read.
ApiWrite ==
    LET d == api.d
        new == CASE api.kind = "add" -> api.services \cup {api.s}
                 [] api.kind = "remove" -> api.services \ {api.s}
                 [] OTHER -> rows[d].services IN
    /\ api.kind # None /\ api.at = "write"
    /\ IF rows[d].uuid # api.uuid THEN ApiEnds /\ UNCHANGED rows
       ELSE /\ rows' = [rows EXCEPT ![d].services = new,
                                    ![d].cfg = IF api.config THEN api.cfg ELSE @]
            /\ ApiGoto("render")
    /\ UNCHANGED <<status, svc, base, file, left, excuses>> /\ ApiStep

ApiRender ==
    /\ api.kind # None /\ api.at = "render"
    /\ file' = Rendered
    /\ IF Renders /\ api.up THEN ApiGoto("up") ELSE ApiEnds
    /\ UNCHANGED <<status, rows, svc, base, left, excuses>> /\ ApiStep

\* compose up in the topology's project.
ApiUp ==
    LET starts == base[api.d].project = Own /\ ServicesStart(api.d, {api.s}, file, Own) IN
    /\ api.kind # None /\ api.at = "up"
    /\ \/ starts /\ NoFault /\ svc' = With(svc, api.d, {api.s}, Own)
       \/ (IF starts THEN Fault ELSE NoFault) /\ UNCHANGED svc
    /\ ApiEnds
    /\ UNCHANGED <<status, rows, base, file>> /\ ApiStep

-----------------------------------------------------------------------------
(* Teardown, and the flat fleet *)

Gone(S, p) == [d \in Deckies |-> IF S[d].project = p THEN NoBase ELSE S[d]]
GoneServices(sv, p) ==
    [d \in Deckies |-> [s \in Services |-> IF sv[d][s] = p THEN None ELSE sv[d][s]]]

\* teardown_topology: the LANs are those of the topology as hydrated.
TearBegin ==
    /\ down = NoDown /\ IsLive
    /\ left.api > 0 /\ left' = [left EXCEPT !.api = @ - 1]
    /\ status' = "tearing_down"
    /\ down' = [at |-> "compose", lans |-> {l \in LanNames : lans[l] # NoLan}]
    /\ Excuse("disturbed", job # Blank \/ api # NoApi)
    /\ UNCHANGED <<dbVars, dockerVars, job, api>>

TearCompose ==
    /\ down.at = "compose"
    /\ \/ /\ NoFault
          /\ base' = IF file = NoFile THEN base ELSE Gone(base, Own)
          /\ svc' = IF file = NoFile THEN svc ELSE GoneServices(svc, Own)
       \/ file # NoFile /\ Fault /\ UNCHANGED <<base, svc>>
    /\ down' = [down EXCEPT !.at = "networks"]
    /\ UNCHANGED <<status, dbVars, bridges, file, job, api>>

TearNetworks ==
    /\ down.at = "networks"
    /\ bridges' = [l \in LanNames |-> IF l \in down.lans THEN NoNet ELSE bridges[l]]
    /\ base' = Unplugged(down.lans)
    /\ file' = NoFile
    /\ status' = IF assert_transition(status, "torn_down") THEN "torn_down" ELSE status
    /\ down' = NoDown
    /\ UNCHANGED <<dbVars, svc, job, api, left, excuses>>

\* A fleet mutate: up -d --remove-orphans in the fleet's project, whose compose
\* file names none of the topology's containers.
FleetUp ==
    /\ base' = Gone(base, Fleet)
    /\ svc' = GoneServices(svc, Fleet)
    /\ Excuse("fleet", <<base', svc'>> # <<base, svc>>)
    /\ UNCHANGED <<status, dbVars, bridges, file, job, api, down, left>>

-----------------------------------------------------------------------------
Mutation ==
    \/ \E l \in LanNames :
          \/ \E n \in Subnets : apply_add_lan(l, n)
          \/ apply_remove_lan(l)
          \/ \E name \in LanNames, n \in Subnets \cup {NoNet} : apply_update_lan(l, name, n)
    \/ \E d \in Deckies :
          \/ apply_remove_decky(d)
          \/ \E S \in SUBSET Services, ips \in Patches \cup {<<>>}, patch, flip, force \in BOOLEAN :
                /\ (force => flip) /\ (ips # <<>> => ~flip)
                /\ apply_update_decky(d, S, patch, ips, flip, force)
          \/ \E l \in LanNames :
                \/ apply_detach_decky(d, l)
                \/ \E l3 \in BOOLEAN, pin \in PinnedHosts \cup {0} :
                      /\ l3 => pin = 0
                      /\ \/ apply_attach_decky(d, l, l3, pin)
                         \/ \E S \in SUBSET Services : apply_add_decky(d, l, S, l3, pin)

Work ==
    \/ WriteAdd \/ WriteAttach \/ WriteDetach \/ WriteVisitor \/ WriteRemove \/ WriteUpdate
    \/ AddEdge \/ DeleteEdge \/ DropLan \/ WriteRunning
    \/ CheckLive
    \/ DockerLan \/ DockerSpawn \/ DockerRemove \/ DockerConnect \/ DockerDisconnect
    \/ DockerServices \/ DockerRecreate
    \/ Validate

Api ==
    \/ \E kind \in {"add", "remove", "update"}, d \in Deckies, s \in Services,
          config, up \in BOOLEAN : ApiBegin(kind, d, s, config, up)
    \/ ApiStop \/ ApiWrite \/ ApiRender \/ ApiUp

Next ==
    \/ Mutation \/ Work \/ MutatorDies
    \/ Api
    \/ TearBegin \/ TearCompose \/ TearNetworks
    \/ FleetUp

Spec == Init /\ [][Next]_vars

-----------------------------------------------------------------------------
(* Properties *)

IsConfig(cfg) == ToSet(cfg.ips) \subseteq Address /\ cfg.l3 \in BOOLEAN
Projects == {None, Own, Fleet}

\* The rows, what Docker has, and the record of the work in progress are of
\* their types; a decky has at most one address in a LAN.
TypeOK ==
    /\ status \in ALL
    /\ lans \in [LanNames -> [subnet : Subnets, dmz : BOOLEAN] \cup {NoLan}]
    /\ \A d \in Deckies : HasRow(d) =>
          /\ IsConfig(rows[d].cfg) /\ Len(rows[d].cfg.ips) = Cardinality(Keys(rows[d].cfg.ips))
          /\ rows[d].services \subseteq Services /\ rows[d].state \in {"pending", "running"}
    /\ edges \subseteq [d : Deckies, lan : LanNames, bridge : BOOLEAN]
    /\ bridges \in [LanNames -> Subnets \cup {NoNet}]
    /\ \A d \in Deckies : base[d].project \in Projects /\ base[d].nets \subseteq Address
    /\ svc \in [Deckies -> [Services -> Projects]]
    /\ \A d \in DOMAIN file \ {0} : file[d].nets \subseteq Address
    /\ job.d \in Deckies \cup {0} /\ job.visitors \subseteq Deckies
    /\ excuses \subseteq {"disturbed", "fleet", "rename", "patch"}

Quiet == job = Blank /\ api = NoApi /\ down = NoDown

\* Deployed containers whose row is gone: remove_decky cannot remove what deploy
\* started, and a decky added under such a name cannot start either.
Strays == {d \in Deckies : base[d].project = Own /\ (HasRow(d) => rows[d].state # "running")}

\* Docker and edges agree with the rows: every LAN has its bridge, and a running
\* decky has its base container, on the networks and addresses of its row.
Wired ==
    /\ \A l \in LanNames : bridges[l] = lans[l].subnet
    /\ \A d \in Deckies : HasRow(d) =>
          /\ Keys(rows[d].cfg.ips) = {e.lan : e \in {e \in edges : e.d = d}}
          /\ rows[d].state = "running" =>
                base[d] # NoBase /\ base[d].nets = ToSet(rows[d].cfg.ips)

\* "persisting intent first keeps the system self-healing" (ops.py:13): as long
\* as every mutation was accepted, none renamed a LAN or patched an address
\* list, and nothing failed or overlapped, Docker is what the rows say after
\* each of them, in whatever order they came.
WiresFollowRows == Quiet /\ IsLive /\ Strays = {} /\ excuses = {} => Wired

\* A redeploy of the fleet sweeps only the fleet's containers (deployer.py:318):
\* it leaves the topology's as they are.
FleetHarmless == Quiet /\ IsLive /\ Strays = {} /\ excuses \subseteq {"fleet"} => Wired

\* A decky keeps its home LAN as long as it has a row: no detach, removal of a
\* LAN, stale write of the API, crash or refused mutation takes it.  Only two
\* accepted mutations are exempt, and from then on: the renaming of a LAN, which
\* leaves the addresses under the old name, and an update_decky whose patch
\* carries an address list (ops.py:939), which may name another home.
HomeKept ==
    [][\A d \in Deckies :
          /\ HasRow(d) /\ rows'[d] # NoRow /\ rows'[d].uuid = rows[d].uuid
          /\ "patch" \notin excuses'
          => /\ Home(rows'[d].cfg) = Home(rows[d].cfg)
             /\ "rename" \notin excuses' => lans'[Home(rows[d].cfg)] # NoLan]_vars
=============================================================================
