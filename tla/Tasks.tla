------------------------------- MODULE Tasks --------------------------------
(***************************************************************************)
(* The task table (kernel/sched/task.c), the round-robin scheduler that    *)
(* walks it (services/scheduler/round_robin.c), the context switch, and    *)
(* the task system calls (kernel/syscall/syscall.c).                       *)
(*                                                                         *)
(* The kernel is single-core and cooperative: nothing but the running task *)
(* acts, and it gives up the CPU only in task_yield.  kmain uses the table *)
(* in three stages.  "early": kernel_task creates tasks that get no        *)
(* initial frame.  "tasks": it has parked those, spawns kernel-mode tasks  *)
(* with a frame, and everybody yields.  "user" or "idle": current_task is  *)
(* user_init_task for good; system calls, or the idle loop, still run the  *)
(* scheduler but never switch.                                             *)
(***************************************************************************)
EXTENDS Naturals, FiniteSets

CONSTANTS
  MaxTasks,      \* MAX_TASKS: slots of tasks[]
  MaxRunnable,   \* MAX_RUNNABLE: kernel stacks
  MaxId,         \* the largest task id, 0xFFFFFFFF
  Caps,          \* the capability bits; CAP_ALL is the whole set
  CrossDomain,   \* CAP_CROSS_DOMAIN
  InitCaps,      \* what user_init_task asks for: CAP_IPC_SEND
  Domains, Root, \* security domains; kernel_task and user_init_task are in Root
  NibbleMax      \* LINEAGE_NIBBLE_MAX

ASSUME TaskAssumption ==
  /\ MaxTasks \in Nat \ {0} /\ MaxRunnable \in Nat \ {0}
  /\ MaxId \in Nat /\ MaxTasks < MaxId
  /\ CrossDomain \in Caps /\ InitCaps \subseteq Caps /\ Root \in Domains
  /\ NibbleMax \in Nat

VARIABLES
  task_count, task_id, state, cap_mask, domain,
  parent,        \* the slot of parent_task_id; a slot is its own parent at the root
  saved_sp,      \* what saved_sp points at
  current_task,  \* as a slot
  next_task_id,  \* the id allocator
  rr_cursor,
  stage

table == <<task_count, task_id, cap_mask, domain, parent, next_task_id>>
vars == <<task_count, task_id, state, cap_mask, domain, parent, saved_sp,
          current_task, next_task_id, rr_cursor, stage>>

-----------------------------------------------------------------------------

Slots == 0 .. MaxTasks - 1
Used == 0 .. task_count - 1
None == MaxTasks

(* "unused" is a slot beyond task_count.  No code sets TASK_BLOCKED.       *)
States == {"unused", "READY", "RUNNING", "TERMINATED"}

(* "zero": NULL.  "top": an empty stack, nothing to resume.  "frame": the  *)
(* frame task_setup_initial_frame built.  "saved": where the task was      *)
(* switched away from.                                                     *)
StackPointers == {"zero", "top", "frame", "saved"}
Stages == {"early", "tasks", "user", "idle"}

TypeOK ==
  /\ task_count \in 1 .. MaxTasks
  /\ task_id \in [Slots -> 0 .. MaxId]
  /\ state \in [Slots -> States]
  /\ cap_mask \in [Slots -> SUBSET Caps]
  /\ domain \in [Slots -> Domains]
  /\ parent \in [Slots -> Slots]
  /\ saved_sp \in [Slots -> StackPointers]
  /\ current_task \in Used
  /\ next_task_id \in 1 .. MaxId
  /\ rr_cursor \in Used
  /\ stage \in Stages

(* task_init, and rr_init after it.                                        *)
Init ==
  /\ task_count = 1
  /\ task_id = [t \in Slots |-> IF t = 0 THEN 1 ELSE 0]
  /\ state = [t \in Slots |-> IF t = 0 THEN "RUNNING" ELSE "unused"]
  /\ cap_mask = [t \in Slots |-> IF t = 0 THEN Caps ELSE {}]
  /\ domain = [t \in Slots |-> Root]
  /\ parent = [t \in Slots |-> 0]
  /\ saved_sp = [t \in Slots |-> "zero"]
  /\ current_task = 0
  /\ next_task_id = 2
  /\ rr_cursor = 0
  /\ stage = "early"

-----------------------------------------------------------------------------
(* create_task.                                                            *)

allocate_task_id ==
  next_task_id' = IF next_task_id = MaxId THEN 1 ELSE next_task_id + 1

assign_kernel_stack(slot) == IF slot >= MaxRunnable THEN "zero" ELSE "top"

(* Mutant: the parent's own capabilities are not consulted.                *)
MutEffectiveCaps(caps) == caps

EffectiveCaps(caps) == caps \intersect cap_mask[current_task]

MayCreate(dom) ==
  /\ task_count < MaxTasks
  /\ dom # domain[current_task] => CrossDomain \in cap_mask[current_task]

(* The new table entry; sp is its saved_sp when the caller is done.        *)
create_task(caps, dom, sp) ==
  LET slot == task_count IN
  /\ MayCreate(dom)
  /\ task_count' = task_count + 1
  /\ allocate_task_id
  /\ task_id' = [task_id EXCEPT ![slot] = next_task_id]
  /\ cap_mask' = [cap_mask EXCEPT ![slot] = EffectiveCaps(caps)]
  /\ domain' = [domain EXCEPT ![slot] = dom]
  /\ parent' = [parent EXCEPT ![slot] = current_task]
  /\ saved_sp' = [saved_sp EXCEPT ![slot] = sp]

(* kernel_task creates a task and leaves it without a frame.               *)
CreateEarly(caps, dom) ==
  /\ stage = "early"
  /\ create_task(caps, dom, assign_kernel_stack(task_count))
  /\ state' = [state EXCEPT ![task_count] = "READY"]
  /\ UNCHANGED <<current_task, rr_cursor, stage>>

(* create_task followed by task_setup_initial_frame, which does nothing    *)
(* for a task that got no stack.  The callers have no yield between the    *)
(* two, also where they create two tasks first and set up two frames then. *)
Spawn(caps, dom) ==
  /\ stage = "tasks"
  /\ state[current_task] # "TERMINATED"
  /\ create_task(caps, dom,
       IF assign_kernel_stack(task_count) = "zero" THEN "zero" ELSE "frame")
  /\ state' = [state EXCEPT ![task_count] = "READY"]
  /\ UNCHANGED <<current_task, rr_cursor, stage>>

(* Mutant: the stale tasks are left READY.                                 *)
MutPark ==
  /\ stage = "early"
  /\ stage' = "tasks"
  /\ UNCHANGED <<table, state, saved_sp, current_task, rr_cursor>>

(* The sweep that opens test_task_lifecycle.                               *)
Park ==
  /\ stage = "early"
  /\ stage' = "tasks"
  /\ state' = [t \in Slots |->
       IF t \in Used \ {current_task} THEN "TERMINATED" ELSE state[t]]
  /\ UNCHANGED <<table, saved_sp, current_task, rr_cursor>>

-----------------------------------------------------------------------------
(* rr_schedule and task_yield.                                             *)

(* RUNNING tasks go back to READY first, so they take part.                *)
Candidates == {t \in Used : state[t] \in {"READY", "RUNNING"}}

(* How many increments of the cursor reach slot t.                         *)
Distance(t) == ((t + task_count - (rr_cursor + 1)) % task_count) + 1

(* Mutant: RUNNING tasks are not set back to READY.                        *)
MutScheduled(next) == [state EXCEPT ![next] = "RUNNING"]

Scheduled(next) ==
  [t \in Slots |-> IF t = next THEN "RUNNING"
                   ELSE IF state[t] = "RUNNING" THEN "READY" ELSE state[t]]

(* Mutant: the scan starts at slot 0 instead of behind the cursor.         *)
MutNearest(t) == \A u \in Candidates : t <= u

Nearest(t) == \A u \in Candidates : Distance(t) <= Distance(u)

(* next is the slot of the returned id, or None for -1; a scan that finds  *)
(* nothing brings the cursor round to where it was.                        *)
rr_schedule(next) ==
  \/ /\ Candidates = {} /\ next = None
     /\ UNCHANGED <<state, rr_cursor>>
  \/ /\ next \in Candidates /\ Nearest(next)
     /\ state' = Scheduled(next)
     /\ rr_cursor' = next

(* arm_context_switch and x86_context_switch.                              *)
context_switch(next) ==
  /\ saved_sp' = [saved_sp EXCEPT ![current_task] = "saved"]
  /\ current_task' = next

(* Cooperative yield.  The scheduler has already marked the picked task    *)
(* RUNNING when task_yield finds that it has no stack and returns.         *)
task_yield ==
  /\ stage = "tasks"
  /\ \E next \in Slots \union {None} :
       /\ rr_schedule(next)
       /\ \/ /\ next = None \/ next = current_task \/ saved_sp[next] = "zero"
             /\ UNCHANGED <<saved_sp, current_task>>
          \/ /\ next \notin {None, current_task} /\ saved_sp[next] # "zero"
             /\ context_switch(next)
  /\ UNCHANGED <<table, stage>>

(* A task body ends: it marks itself TERMINATED, then yields forever.      *)
Finish ==
  /\ stage = "tasks"
  /\ current_task # 0
  /\ state[current_task] # "TERMINATED"
  /\ state' = [state EXCEPT ![current_task] = "TERMINATED"]
  /\ UNCHANGED <<table, saved_sp, current_task, rr_cursor, stage>>

-----------------------------------------------------------------------------
(* kmain's last act: user_init_task becomes current_task by assignment,    *)
(* and the user program is entered, or the idle loop if there is none.     *)
EnterUser(s) ==
  /\ stage = "tasks"
  /\ current_task = 0
  /\ create_task(InitCaps, Root, assign_kernel_stack(task_count))
  /\ state' = [state EXCEPT ![task_count] = "READY"]
  /\ current_task' = task_count
  /\ stage' = s
  /\ UNCHANGED rr_cursor

(* After SYS_EXIT user code is in crt0's endless loop: no more calls.      *)
InUser == stage = "user" /\ state[current_task] # "TERMINATED"

SYS_CREATE_TASK(caps, dom) ==
  /\ InUser
  /\ create_task(caps, dom, assign_kernel_stack(task_count))
  /\ state' = [state EXCEPT ![task_count] = "READY"]
  /\ UNCHANGED <<current_task, rr_cursor, stage>>

(* The caller goes back to READY, which rr_schedule does anyway, and the   *)
(* scheduler picks; nothing is switched.                                   *)
SYS_YIELD ==
  /\ InUser
  /\ \E next \in Slots \union {None} : rr_schedule(next)
  /\ UNCHANGED <<table, saved_sp, current_task, stage>>

(* rr_remove_task sets the same state again; the cursor is in bounds.      *)
SYS_EXIT ==
  /\ InUser
  /\ state' = [state EXCEPT ![current_task] = "TERMINATED"]
  /\ UNCHANGED <<table, saved_sp, current_task, rr_cursor, stage>>

(* One round of the idle loop.                                             *)
process_events ==
  /\ stage = "idle"
  /\ \E next \in Slots \union {None} : rr_schedule(next)
  /\ UNCHANGED <<table, saved_sp, current_task, stage>>

Next ==
  \/ \E caps \in SUBSET Caps, dom \in Domains :
       \/ CreateEarly(caps, dom)
       \/ Spawn(caps, dom)
       \/ SYS_CREATE_TASK(caps, dom)
  \/ Park
  \/ task_yield
  \/ Finish
  \/ \E s \in {"user", "idle"} : EnterUser(s)
  \/ SYS_YIELD
  \/ SYS_EXIT
  \/ process_events

Spec == Init /\ [][Next]_vars

(* Every kernel-mode task body yields again and again, and so does         *)
(* kernel_task while it waits for them.                                    *)
FairSpec == Spec /\ WF_vars(task_yield)

-----------------------------------------------------------------------------
(* The lineage of a task, as ipc.c puts it into a DENY record: how far it  *)
(* is from kernel_task, and how many tasks have the same parent.  Both     *)
(* have to fit a nibble, so the walk and the count stop there.             *)

(* A slot, its parent, the parent of that, and so on.                      *)
Ancestors(above, t) ==
  LET up[n \in Nat] == IF n = 0 THEN t ELSE above[up[n - 1]]
  IN  up

Depth(line) ==
  CHOOSE n \in 0 .. NibbleMax :
    /\ line[n] = 0 \/ n = NibbleMax
    /\ \A m \in 0 .. n - 1 : line[m] # 0

lineage_depth_of(t) == Depth(Ancestors(parent, t))

(* Mutant: tasks that have ended are not counted.                          *)
MutSiblings(t) ==
  {u \in Used \ {0, t} : t # 0 /\ parent[u] = parent[t] /\ state[u] # "TERMINATED"}

(* kernel_task has no parent and no siblings.                              *)
Siblings(t) == {u \in Used \ {0, t} : t # 0 /\ parent[u] = parent[t]}

sibling_count_of(t) ==
  IF Cardinality(Siblings(t)) < NibbleMax THEN Cardinality(Siblings(t)) ELSE NibbleMax

-----------------------------------------------------------------------------
(* Properties.                                                             *)

(* Never two RUNNING tasks, although task_yield leaves early after the     *)
(* scheduler has made its choice, and SYS_YIELD and the idle loop choose   *)
(* without switching.                                                      *)
OneRunning ==
  \A t, u \in Used : state[t] = "RUNNING" /\ state[u] = "RUNNING" => t = u

(* Authority only shrinks down the lineage, whoever creates whom: a task   *)
(* holds no capability its parent lacks, and is in another domain than its *)
(* parent only if the parent held CAP_CROSS_DOMAIN.  Parents precede their *)
(* children in the table, so every lineage ends at kernel_task.            *)
Narrowing ==
  \A t \in Used \ {0} :
    /\ parent[t] < t
    /\ cap_mask[t] \subseteq cap_mask[parent[t]]
    /\ domain[t] # domain[parent[t]] => CrossDomain \in cap_mask[parent[t]]

(* task_find has at most one answer: ids are distinct and never 0.         *)
UniqueIds ==
  \A t, u \in Used : task_id[t] # 0 /\ (task_id[t] = task_id[u] => t = u)

(* Whoever task_yield can switch to has something to resume: no task the   *)
(* scheduler can pick sits on an empty stack.                              *)
Resumable ==
  stage = "tasks" =>
    \A t \in Used :
      state[t] \in {"READY", "RUNNING"} => saved_sp[t] # "top"

(* The inductive invariant: the properties above, the extent of the table, *)
(* the ids in the order of their allocation, and who runs before Park.     *)
IInv ==
  /\ TypeOK /\ OneRunning /\ Narrowing /\ Resumable
  /\ \A t \in Slots : t < task_count <=> state[t] # "unused"
  /\ \A t \in Used : task_id[t] = t + 1
  /\ next_task_id = task_count + 1
  /\ stage = "early" => current_task = 0 /\ saved_sp[0] # "top"

(* A TERMINATED task is never made schedulable again, by any of the four   *)
(* places that assign a task's state.                                      *)
TerminatedIsFinal ==
  [][\A t \in Slots : state[t] = "TERMINATED" => state'[t] = "TERMINATED"]_vars

(* The lineage a DENY record shows does not "jitter as the table churned": *)
(* from its creation on a task's depth is one more than its parent's, or   *)
(* the largest that fits, and the number of its siblings never falls.      *)
LineageIsStable ==
  [][\A t \in Used \ {0} :
       /\ lineage_depth_of(t)' = IF lineage_depth_of(parent[t]) < NibbleMax
                                  THEN lineage_depth_of(parent[t]) + 1 ELSE NibbleMax
       /\ sibling_count_of(t)' >= sibling_count_of(t)]_vars

(* No schedulable task with a stack is passed over for ever, although      *)
(* tasks without a stack take turns too.                                   *)
NoStarvation ==
  \A t \in Slots :
    state[t] = "READY" /\ saved_sp[t] # "zero" /\ stage = "tasks"
      ~> current_task = t \/ stage # "tasks"
=============================================================================
