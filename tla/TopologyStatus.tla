--------------------------- MODULE TopologyStatus ---------------------------
(***************************************************************************)
(* The status state machine of a MazeNET topology                          *)
(* (decnet/topology/status.py): the seven values of topologies.status and  *)
(* the table of legal transitions that assert_transition enforces.         *)
(*                                                                         *)
(* The module is constant: who writes the column, and in how many steps,   *)
(* is modelled by the modules that extend it.                              *)
(***************************************************************************)

\* The status of a topology whose row does not exist (never created, or
\* deleted by delete_topology_cascade): get_topology returns None.
Absent == "absent"

ALL == {"pending", "deploying", "active", "degraded", "failed",
        "tearing_down", "torn_down"}

\* _LEGAL: the statuses that may follow a status.
legal_next(current) ==
    CASE current = "pending"      -> {"deploying", "torn_down"}
      [] current = "deploying"    -> {"active", "failed", "degraded", "tearing_down"}
      [] current = "active"       -> {"degraded", "tearing_down"}
      [] current = "degraded"     -> {"active", "tearing_down"}
      [] current = "failed"       -> {"tearing_down"}
      [] current = "tearing_down" -> {"torn_down", "degraded"}
      [] OTHER                    -> {}

\* assert_transition raises TopologyStatusError exactly when this is false.
assert_transition(current, new) == current \in ALL /\ new \in legal_next(current)

\* list_live_topology_ids, has_pending_topology_mutation and the enqueue
\* endpoint's _MUTATABLE: the statuses in which the mutation queue is open.
LiveStatuses == {"active", "degraded"}

\* _DELETABLE: the statuses in which DELETE /topologies/{id} is accepted.
Deletable == {"pending", "torn_down", "failed"}

\* _TEARDOWNABLE: the statuses in which the teardown endpoint is accepted.
Teardownable == {"active", "degraded", "failed", "deploying"}
=============================================================================
