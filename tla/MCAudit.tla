------------------------------- MODULE MCAudit ------------------------------
(***************************************************************************)
(* Two tasks for TLC: the kernel's own, which has every capability and no  *)
(* parent, and a grandchild of it in domain 0 whose id needs more than a   *)
(* byte.                                                                   *)
(***************************************************************************)
EXTENDS Audit

MCCallers ==
  {[task_id |-> 1, parent_task_id |-> TASK_PARENT_NONE, lineage_depth |-> 0,
    sibling_count |-> 0, domain |-> 0,
    cap_mask |-> {"SEND", "RECV", "PRIVILEGED", "CROSS"}],
   [task_id |-> 12, parent_task_id |-> 11, lineage_depth |-> 2, sibling_count |-> 1,
    domain |-> 0, cap_mask |-> {"SEND", "RECV", "PRIVILEGED"}]}

(* States with more than one edge added to the matrix, or more than one    *)
(* pair of linked ids, are checked and not followed further.               *)
MCBound == Cardinality(edges_seen) <= 1 /\ Cardinality(chan_edges) <= 1
=============================================================================
