---------------------------- MODULE TaskRecords -----------------------------
(***************************************************************************)
(* The task table beside the records written about it: TASK_CREATE at the  *)
(* end of create_task (for kernel_task, from task_emit_kernel_create_event)*)
(* TASK_EXIT in SYS_EXIT, and WORKFLOW records, which name a task as the   *)
(* owner.  No field they carry changes while the task exists, so what the  *)
(* reader knows is a function of the table.                                *)
(***************************************************************************)
EXTENDS Tasks, Records

(* An id is at most 0xFFFFFFFF, and a domain is a uint32_t.                *)
ASSUME WidthAssumption == MaxId < Word /\ Domains \subseteq 0 .. Word - 1

(* The bits of a mask, of which this model has two.                        *)
CapWord(caps) ==
  (IF "SEND" \in caps THEN 1 ELSE 0) + (IF CrossDomain \in caps THEN 4 ELSE 0)

parent_task_id(t) == IF t = 0 THEN TASK_PARENT_NONE ELSE task_id[parent[t]]

(* Mutant: the domain is handed over as a byte.                            *)
MutTaskCreated(t) ==
  emit_task_create_record(task_id[t], parent_task_id(t), CapWord(cap_mask[t]),
    Low(domain[t]), 0, 0)

TaskCreated(t) ==
  emit_task_create_record(task_id[t], parent_task_id(t), CapWord(cap_mask[t]),
    domain[t], 0, 0)

(* The slots that go by an id.                                             *)
Named(id) == {t \in Used : task_id[t] = id}

(* Exit codes, and the results of a step that failed or did not.           *)
Codes == {-1, 0, (Word \div 2) - 1}
Results == {-1, 0}

(* The reader has the tree of tasks: every task with its own capabilities  *)
(* and its full domain, which a byte would not hold, and under its parent, *)
(* who is known by then, or at the root.  A TASK_EXIT record is about the  *)
(* one task that exits, with a negative code as itself, and a WORKFLOW     *)
(* record leads to the one task that owns the workflow, with the id put    *)
(* together from its two halves and a failed step's negative result.       *)
ReaderKnowsTasks ==
  LET id == task_id[current_task]
      task == [task_id |-> id, domain |-> domain[current_task]]
  IN
  /\ \A t \in Used :
       LET k == ReadTask(TaskCreated(t)) IN
       /\ Named(k.task_id) = {t}
       /\ k.domain = domain[t] /\ k.cap_mask = CapWord(cap_mask[t])
       /\ IF t = 0 THEN Named(k.parent) = {}
          ELSE Named(k.parent) = {parent[t]} /\ parent[t] < t
  /\ \A code \in Codes :
       LET e == ReadExit(emit_task_exit_record(id, code))
       IN  Named(e.task_id) = {current_task} /\ e.exit_code = code
  /\ \A rv \in Results :
       LET w == ReadWorkflow(
                  emit_workflow_record(task, Word + id, id, Byte - 1, 1, 0, rv, 2))
       IN  /\ Named(w.owner) = {current_task}
           /\ w.id = Word + id /\ w.step = Byte - 1 /\ w.done = 0 /\ w.rv = rv
=============================================================================
