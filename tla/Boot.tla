-------------------------------- MODULE Boot --------------------------------
(***************************************************************************)
(* kmain (kernel/main.c): it starts the subsystems one after the other,    *)
(* runs the self-tests on the live kernel tables, seals the domain matrix  *)
(* and enters the first user program as user_init_task.  The tests share   *)
(* the tables with the system they precede: an entry a test leaves behind, *)
(* a stand-in it does not take away, is there when the user program runs.  *)
(*                                                                         *)
(* Each subtest is a script of the calls it makes, with what its error     *)
(* path gives back, and the actions interpret the scripts one call at a    *)
(* time.  What a call does inside its component is in that component's     *)
(* module; here it takes or gives back an entry of a table, or is checked. *)
(* The sizes of the tables are chosen at the start, so that every request  *)
(* of every test is refused in some behaviour.  test_mmu_protection,       *)
(* test_memory_map, test_sandbox_staging and test_fault_telemetry take     *)
(* nothing from these tables and are left out.                             *)
(***************************************************************************)
EXTENDS Naturals, Integers, Sequences, FiniteSets

CONSTANTS
  Channels, Messages, TaskSlots, Frames, Buffers, Checkpoints, Slots,
             \* the sizes to try for each table
  LogSize,   \* TXN_LOG_ENTRIES: 256
  Writes     \* the entries test_transactional_storage writes: 1000

(* Sockets are never the scarce table: a channel takes one, and no test    *)
(* holds more than three beside its channels.                              *)
ASSUME BootAssumption ==
  /\ \A s \in {Channels, Messages, TaskSlots, Frames, Buffers, Checkpoints,
               Slots} : s \subseteq Nat
  /\ 0 \notin TaskSlots
  /\ LogSize \in Nat /\ Writes \in Nat /\ LogSize < Writes

VARIABLES
  room,      \* the size of each table
  used,      \* entries in use
  sub, at,   \* the subtest kmain is in, and the next call of its script
  ok,        \* no check of this subtest has failed
  passed,    \* the subtests that reported PASS
  refused,   \* the tables that have refused a request
  up,        \* the subsystems started
  sane,      \* no call came before its subsystem, no empty stack was resumed
  tasks,     \* tasks[], kernel_task first
  current,   \* current_task
  edges, sealed, backend

vars == <<room, used, sub, at, ok, passed, refused, up, sane, tasks, current,
          edges, sealed, backend>>

-----------------------------------------------------------------------------
(* The calls.                                                              *)

\* A refused request gives back undo and ends the subtest.
Take(t, undo) == [op |-> "take", table |-> t, undo |-> undo]
Give(t) == [op |-> "give", table |-> t]
Check(c) == [op |-> "check", what |-> c]
Room(t, n) == [op |-> "check", what |-> "room", table |-> t, n |-> n]
\* exits: a refused creation ends the subtest, else it is a failed check.
Create(exits) == [op |-> "create_task", exits |-> exits]
Start(s) == [op |-> "start", what |-> s]
Become(t) == [op |-> "become", what |-> t]
Do(e) == [op |-> e]
Backend(b) == [op |-> "backend", what |-> b]
Log(n) == [op |-> "log", n |-> n]
Trace(calls, expect) ==
  [op |-> "check", what |-> "trace", calls |-> calls, expect |-> expect]
Link(to, caps, allowed) ==
  [op |-> "check", what |-> "link", to |-> to, caps |-> caps, allowed |-> allowed]
Send(need, caps, allowed) ==
  [op |-> "check", what |-> "send", need |-> need, caps |-> caps, allowed |-> allowed]

\* leave: a refused request ends the whole test (return, goto done).
Subtest(test, leave, body) == [test |-> test, leave |-> leave, body |-> body]

-----------------------------------------------------------------------------
(* The scripts, in the order of main.c.                                    *)

kmain_init ==
  << Subtest("kmain", FALSE,
       << Start("security"), Start("memory"), Start("storage"), Start("frames"),
          Start("tasks"), Start("domains"), Start("ipc"), Start("auditor"),
          Start("kernel_create_event"), Start("scheduler") >>) >>

test_nng ==
  << Subtest("nng", TRUE,
       << Take("sockets", <<>>),
          Take("messages", <<"sockets">>), Give("messages"),
          Take("messages", <<"sockets">>), Give("messages"),
          Give("sockets") >>) >>

test_energy_grid_alert ==
  << Subtest("energy", TRUE,
       << Take("sockets", <<>>),
          Take("messages", <<"sockets">>), Give("messages"),
          Give("sockets") >>) >>

test_auditor ==
  << Subtest("auditor", TRUE, << Take("channels", <<>>), Give("channels") >>) >>

All == {"send", "recv", "privileged", "cross"}

\* A pair of channels: when only the second is refused the first stays open.
Pair(checks) ==
  << Take("channels", <<>>), Take("channels", <<>>) >> \o checks
  \o << Give("channels"), Give("channels") >>

Denials ==
  << Subtest("enforcement", TRUE,
       << Take("channels", <<>>), Send({"send"}, {"recv"}, FALSE), Give("channels") >>),
     Subtest("enforcement", TRUE,
       << Take("channels", <<>>),
          Send({"send", "privileged"}, {"send", "recv"}, FALSE), Give("channels") >>),
     Subtest("enforcement", TRUE, Pair(<< Link(1, {"send", "recv"}, FALSE) >>)) >>

Grants ==
  << Subtest("enforcement", TRUE, Pair(<< Link(0, {"send", "recv"}, TRUE) >>)),
     Subtest("enforcement", TRUE, << Do("domain_edge_set") >>),
     Subtest("enforcement", TRUE, Pair(<< Link(1, {"send", "recv"}, TRUE) >>)),
     Subtest("enforcement", TRUE, Pair(<< Link(2, {"send", "recv", "cross"}, TRUE) >>)) >>

test_ipc_enforcement == Denials \o Grants

test_task_caps ==
  << Subtest("caps", FALSE,
       << Become("parent"), Create(FALSE), Become("kernel") >>),
     Subtest("caps", FALSE, << Become("child"), Check("escalation"), Become("kernel") >>),
     Subtest("caps", FALSE,
       << Become("child"), Room("channels", 1), Become("kernel") >>) >>

(* Mutant: the tasks of the tests before are not parked.                   *)
Mut_test_task_lifecycle ==
  << Subtest("lifecycle", TRUE,
       << Create(TRUE), Create(TRUE), Do("frames"), Do("yield") >>) >>

test_task_lifecycle ==
  << Subtest("lifecycle", TRUE,
       << Do("park"), Create(TRUE), Create(TRUE), Do("frames"), Do("yield") >>) >>

test_frame_allocator ==
  << Subtest("frames", FALSE, << Room("frames", 3) >>),
     Subtest("frames", FALSE, << Room("frames", 3) >>),
     Subtest("frames", FALSE, << Room("frames", 1) >>) >>

\* create_checkpoint and restore_checkpoint log an entry each.
test_transactional_storage ==
  << Subtest("storage", FALSE, <<>>),
     Subtest("storage", FALSE,
       << Take("buffers", <<>>), Take("checkpoints", <<>>), Log(2) >>),
     Subtest("storage", FALSE, << Check("overflows"), Log(Writes) >>) >>

test_storage_backend ==
  << Subtest("backend", FALSE,
       << Check("memory"), Take("buffers", <<>>), Take("checkpoints", <<>>),
          Log(2), Give("checkpoints"), Log(1) >>),
     Subtest("backend", FALSE,
       << Backend("fake"), Room("slots", 1), Backend("memory") >>) >>

Steps == 3
Ran(n) == [i \in 1 .. n |-> i]
Undone(n) == [i \in 1 .. n |-> i - n - 1]

\* The calls of the engine when step f fails (0: none), after done of them.
wf_run(f) == IF f = 0 THEN Ran(Steps) ELSE Ran(f) \o Undone(f - 1)
wf_recovered(done) == Undone(done)

Traced(calls, expect) ==
  Subtest("workflow", FALSE,
    << Take("slots", <<>>), Trace(calls, expect), Give("slots") >>)

\* workflow_recover frees the slot of the fifth, the test that of the sixth.
test_workflow ==
  << Traced(wf_run(0), << 1, 2, 3 >>),
     Traced(wf_run(2), << 1, 2, -1 >>),
     Traced(wf_run(3), << 1, 2, 3, -2, -1 >>),
     Traced(wf_run(3), << 1, 2, 3, -2, -1 >>),
     Traced(wf_recovered(2), << -2, -1 >>),
     Traced(wf_recovered(2), << -2, -1 >>) >>

\* The original and the copies it is delivered as, at their peak.
test_nng_patterns ==
  << Subtest("patterns", FALSE, << Room("messages", 2) >>),
     Subtest("patterns", FALSE, << Room("messages", 3) >>),
     Subtest("patterns", FALSE, << Room("messages", 2) >>) >>

\* The snapshot is dropped at the commit; the registered target stays.
test_update_system ==
  << Subtest("update", TRUE,
       << Take("buffers", <<>>), Check("memory"), Room("slots", 1),
          Room("checkpoints", 1), Log(2) >>) >>

enter_user ==
  << Subtest("user", TRUE,
       << Do("domain_edges_seal"), Create(TRUE), Become("user"),
          Take("channels", <<>>) >>) >>

Script ==
  kmain_init \o test_nng \o test_energy_grid_alert \o test_auditor
  \o test_ipc_enforcement \o test_task_caps \o test_task_lifecycle
  \o test_frame_allocator \o test_transactional_storage
  \o test_storage_backend \o test_workflow \o test_nng_patterns
  \o test_update_system \o enter_user

-----------------------------------------------------------------------------
(* The interpreter.                                                        *)

Tables == {"channels", "sockets", "messages", "frames", "buffers",
           "checkpoints", "slots", "log"}

Init ==
  /\ room \in [channels : Channels, messages : Messages, tasks : TaskSlots,
               frames : Frames, buffers : Buffers, checkpoints : Checkpoints,
               slots : Slots]
  /\ used = [t \in Tables |-> 0]
  /\ sub = 1 /\ at = 1 /\ ok = TRUE
  /\ passed = {} /\ refused = {}
  /\ up = {} /\ sane = TRUE
  /\ tasks = << [state |-> "RUNNING", frame |-> TRUE] >> /\ current = "kernel"
  /\ edges = {} /\ sealed = FALSE /\ backend = "none"

\* MAX_SOCKETS is large enough; a channel is counted with its socket.
Free(t) == IF t = "sockets" THEN 1 ELSE room[t] - used[t]

Caps == [kernel |-> All, parent |-> {"send"}, child |-> {"send", "recv"},
         user |-> {"send"}]

\* What must be running before a call of a table's owner means anything.
Needs(t) ==
  CASE t = "channels" -> {"tasks", "domains", "ipc", "auditor"}
    [] t = "messages" -> {"security", "memory", "ipc"}
    [] t = "sockets" -> {"ipc"}
    [] t = "frames" -> {"frames"}
    [] t = "tasks" -> {"tasks", "auditor", "kernel_create_event"}
    [] t = "slots" -> {"auditor"}
    [] OTHER -> {"security", "storage"}

Running == sub <= Len(Script)
Call == Script[sub].body[at]
Calls(op) == Running /\ at <= Len(Script[sub].body) /\ Call.op = op

Advance == at' = at + 1 /\ UNCHANGED sub

\* The subtest that follows a refused request.
Exit ==
  IF Script[sub].leave
  THEN CHOOSE i \in sub + 1 .. Len(Script) + 1 :
         /\ i > Len(Script) \/ Script[i].test # Script[sub].test
         /\ \A j \in sub + 1 .. i - 1 : Script[j].test = Script[sub].test
  ELSE sub + 1

Leave(t) ==
  /\ sub' = Exit /\ at' = 1 /\ ok' = TRUE
  /\ refused' = refused \union {t}

GivenBack(undo) ==
  [t \in Tables |-> used[t] - Cardinality({i \in DOMAIN undo : undo[i] = t})]

take ==
  /\ Calls("take")
  /\ sane' = (sane /\ Needs(Call.table) \subseteq up)
  /\ \/ /\ Free(Call.table) > 0
        /\ used' = [used EXCEPT ![Call.table] = @ + 1]
        /\ Advance /\ UNCHANGED <<ok, refused>>
     \/ /\ Free(Call.table) = 0
        /\ used' = GivenBack(Call.undo)
        /\ Leave(Call.table)
  /\ UNCHANGED <<room, passed, up, tasks, current, edges, sealed, backend>>

give ==
  /\ Calls("give")
  /\ used' = [used EXCEPT ![Call.table] = @ - 1]
  /\ Advance
  /\ UNCHANGED <<room, ok, passed, refused, up, sane, tasks, current, edges,
                 sealed, backend>>

MayLink(to, caps) == to = 0 \/ to \in edges \/ "cross" \in caps

Holds(c) ==
  CASE c.what = "room" -> Free(c.table) >= c.n
    [] c.what = "send" -> (c.need \subseteq c.caps) = c.allowed
    [] c.what = "link" -> MayLink(c.to, c.caps) = c.allowed
    [] c.what = "trace" -> c.calls = c.expect
    [] c.what = "escalation" -> ~ All \subseteq Caps[current]
    [] c.what = "memory" -> backend = "memory"
    [] c.what = "overflows" -> Writes > LogSize - used["log"]

check ==
  /\ Calls("check")
  /\ ok' = (ok /\ Holds(Call))
  /\ refused' = IF Call.what = "room" /\ ~ Holds(Call)
                THEN refused \union {Call.table} ELSE refused
  /\ Advance
  /\ UNCHANGED <<room, used, passed, up, sane, tasks, current, edges, sealed, backend>>

start ==
  /\ Calls("start")
  /\ up' = up \union {Call.what}
  /\ backend' = IF Call.what = "storage" THEN "memory" ELSE backend
  /\ Advance
  /\ UNCHANGED <<room, used, ok, passed, refused, sane, tasks, current, edges, sealed>>

become ==
  /\ Calls("become")
  /\ current' = Call.what
  /\ Advance
  /\ UNCHANGED <<room, used, ok, passed, refused, up, sane, tasks, edges, sealed, backend>>

storage_set_backend ==
  /\ Calls("backend")
  /\ backend' = Call.what
  /\ Advance
  /\ UNCHANGED <<room, used, ok, passed, refused, up, sane, tasks, current, edges, sealed>>

log_transaction ==
  /\ Calls("log")
  /\ used' = [used EXCEPT !["log"] =
                IF @ + Call.n > LogSize THEN LogSize ELSE @ + Call.n]
  /\ Advance
  /\ UNCHANGED <<room, ok, passed, refused, up, sane, tasks, current, edges,
                 sealed, backend>>

domain_edge_set ==
  /\ Calls("domain_edge_set")
  /\ edges' = IF sealed THEN edges ELSE edges \union {1}
  /\ ok' = (ok /\ ~ sealed)
  /\ Advance
  /\ UNCHANGED <<room, used, passed, refused, up, sane, tasks, current, sealed, backend>>

domain_edges_seal ==
  /\ Calls("domain_edges_seal")
  /\ sealed' = TRUE
  /\ Advance
  /\ UNCHANGED <<room, used, ok, passed, refused, up, sane, tasks, current, edges, backend>>

\* Boot makes five tasks at most, and MAX_RUNNABLE is 8: each has a stack,
\* empty until task_setup_initial_frame writes to it.
create_task ==
  /\ Calls("create_task")
  /\ sane' = (sane /\ Needs("tasks") \subseteq up)
  /\ \/ /\ Len(tasks) < room.tasks
        /\ tasks' = Append(tasks, [state |-> "READY", frame |-> FALSE])
        /\ Advance /\ UNCHANGED <<ok, refused>>
     \/ /\ Len(tasks) >= room.tasks /\ Call.exits
        /\ Leave("tasks") /\ UNCHANGED tasks
     \/ /\ Len(tasks) >= room.tasks /\ ~ Call.exits
        /\ ok' = FALSE /\ refused' = refused \union {"tasks"}
        /\ Advance /\ UNCHANGED tasks
  /\ UNCHANGED <<room, used, passed, up, current, edges, sealed, backend>>

park ==
  /\ Calls("park")
  /\ tasks' = [i \in DOMAIN tasks |->
                IF i = 1 THEN tasks[i] ELSE [tasks[i] EXCEPT !.state = "TERMINATED"]]
  /\ Advance
  /\ UNCHANGED <<room, used, ok, passed, refused, up, sane, current, edges, sealed, backend>>

task_setup_initial_frame ==
  /\ Calls("frames")
  /\ tasks' = [i \in DOMAIN tasks |->
                IF i > Len(tasks) - 2 THEN [tasks[i] EXCEPT !.frame = TRUE] ELSE tasks[i]]
  /\ Advance
  /\ UNCHANGED <<room, used, ok, passed, refused, up, sane, current, edges, sealed, backend>>

\* The yields of the test and of both bodies: round robin resumes every
\* READY task, and each body ends by marking its task TERMINATED.
task_yield ==
  /\ Calls("yield")
  /\ sane' = (sane /\ "scheduler" \in up
                   /\ \A i \in DOMAIN tasks : tasks[i].state = "READY" => tasks[i].frame)
  /\ tasks' = [i \in DOMAIN tasks |->
                IF tasks[i].state = "READY"
                THEN [tasks[i] EXCEPT !.state = "TERMINATED"] ELSE tasks[i]]
  /\ Advance
  /\ UNCHANGED <<room, used, ok, passed, refused, up, current, edges, sealed, backend>>

\* The end of a subtest, and its PASS line.
report ==
  /\ Running /\ at > Len(Script[sub].body)
  /\ passed' = IF ok THEN passed \union {sub} ELSE passed
  /\ sub' = sub + 1 /\ at' = 1 /\ ok' = TRUE
  /\ UNCHANGED <<room, used, refused, up, sane, tasks, current, edges, sealed, backend>>

Next ==
  \/ take \/ give \/ check \/ start \/ become \/ storage_set_backend
  \/ log_transaction \/ domain_edge_set \/ domain_edges_seal
  \/ create_task \/ park \/ task_setup_initial_frame \/ task_yield \/ report

Spec == Init /\ [][Next]_vars

-----------------------------------------------------------------------------

Booted == sub > Len(Script)

\* What the tests leave on purpose: the two tasks they ran and the one they
\* only created, ckpt_a, the registered buffers, and a full log.
Residue == [channels |-> 1, sockets |-> 0, messages |-> 0, frames |-> 0,
            buffers |-> 3, checkpoints |-> 1, slots |-> 0, log |-> LogSize]

(* The tests leave the kernel fit for the program they precede.  No call    *)
(* of the boot comes before the subsystem that serves it, and none resumes *)
(* an empty stack.  When the user program is entered the matrix is sealed, *)
(* the real storage back end is installed, no test identity is current,    *)
(* and sockets, messages and workflow slots are all free, whatever table   *)
(* refused whatever request on the way; a refused channel costs at most    *)
(* one more.  If none refused, every subtest has passed, exactly the known *)
(* residue is left, the only task not TERMINATED beside kernel_task is the *)
(* user's, and that task is current.                                       *)
BootIsClean ==
  /\ sane
  /\ Booted =>
       /\ sealed /\ backend = "memory" /\ current \in {"kernel", "user"}
       /\ used["sockets"] = 0 /\ used["messages"] = 0 /\ used["slots"] = 0
       /\ used["channels"] <= 1
       /\ refused = {} =>
            /\ passed = 1 .. Len(Script) /\ used = Residue
            /\ current = "user"
            /\ {i \in DOMAIN tasks : tasks[i].state # "TERMINATED"} = {1, Len(tasks)}

=============================================================================
