# A TLA+ development of the LughOS kernel

LughOS is a single-core microkernel for x86, ARM and RISC-V. Kernel code is not
preempted: tasks give up the processor in `task_yield` only, and the only thing
an interrupt changes in kernel data is the tick counter. Apart from the
interrupt controllers themselves, what makes the code hard is therefore not
parallelism but long sequences of legal calls, tables at
their limits, identifiers that are used again, a fault in the middle of a call,
and early returns that leave a decision half carried out. The modules here keep
all of that control and abstract messages, names and payloads to what the
properties tell apart.

## The parts of the system

| Part | Source | Module | State |
|---|---|---|---|
| Workflow engine | `services/workflow/workflow.c` | `Workflow`, `Saga` | modelled, proved but for liveness |
| Task table, round-robin scheduler, task system calls | `kernel/sched/task.c`, `services/scheduler/round_robin.c`, `kernel/syscall/syscall.c` | `Tasks` | modelled, proved but for liveness |
| Event ring, transaction log, auditor drain | `kernel/ring_buffer.c`, `kernel/fs/storage.c`, `services/auditor/exporter.c` | `Telemetry` | modelled, proved but for liveness |
| Auditor records and their readers | `services/auditor/exporter.c`, `kernel/ipc/ipc.c`, `scripts/reconstruct_graph.py`, `scripts/read_telemetry.py` | `Records`, `Audit`, `TaskRecords` | modelled, proved |
| Interrupt controllers, spl, timers | `kernel/arch/x86/pic.c`, `isr.c`, `pit.c`, `kernel/arch/arm/vic.c`, `timer.c` | `Interrupts` | modelled, proved but for liveness |
| Boot and self-tests | `kernel/main.c` | `Boot` | partly, model-checked |
| Page frame allocator | `kernel/mm/frames.c` | `FrameAllocator` | modelled, proved |
| Message layer | `kernel/nngcompat.c` | `Nng`, `MCNng` | partly, proved |
| IPC channels, capabilities, domain matrix | `kernel/ipc/ipc.c`, `include/capabilities.h`, `kernel/security/domain_graph.c` | `Ipc` (over `Nng`) | modelled, proved |
| Checkpoint storage, update pipeline | `services/storage`, `services/update` | `Update` (over `Workflow`) | partly, proved for updates that do not overlap |
| Block allocator, memory regions, section permissions | `kernel/mm/memory.c`, `kernel/security.c`, `kernel/mm/arm_mmu.c` | `MemoryMap` (over `FrameAllocator`) | modelled, proved |
| Memory and string functions | `kernel/mm/memory_utils.c` | `MemoryUtils` (over `MemoryMap`) | modelled, proved |
| Priority scheduler and queue | `kernel/sched/priority.c`, `services/scheduler/utils.c` | | not modelled: no caller in the tree |
| Crypto, console, log, user library | | | not modelled |

How they meet: a system call or a kernel-mode task acts under the identity of
`current_task` (Tasks). Sending on an IPC channel checks capabilities, pushes a
copy into the event ring (Telemetry) and hands the message to the message layer
(Nng). The update pipeline is a workflow (Workflow) over the checkpoint storage;
every workflow and storage operation adds to the transaction log (Telemetry).
Creating and linking channels, refusing a call, and creating tasks write records
at once, which a reader outside turns back into a graph (Records, Audit). `kmain`
starts all of it and runs self-tests on the live tables before the user program
(Boot); `task_yield` switches inside a raised interrupt level (Interrupts).

## The modules

### Workflow and Saga

A slot of the table is `status`, `step_count`, `done_count` and `undoable` (which
steps have an undo). `frame` is the C activation that executes the slot:
`workflow_run` and `wf_unwind` are cut at every point where a fault matters, so
there is an action for the call of a step, its return, its STEP_OK record, and
`done_count++`. `scan` is the loop of `workflow_recover`. `Fault` ends an
activation in code that is called (a callback, `wf_emit`) or that calls the
engine; inside a callback the effect may or may not have happened. Assignments
with no call between them, such as `done_count++` and the commit, are one step.
`effects`, `torn`, `failed` and `journal` observe the world: which effects
exist, which a fault left uncounted, whose undo reported failure, which records
were written. Recovery runs when no workflow does, as at both of its callers
(`kmain` and `test_workflow`); the code itself has no check for that.

`Saga` says what the engine promises, without slots, cursors or recovery:
effects appear in step order, are taken back latest first, and a workflow ends
committed with all of them, reversed with none, or stuck with what could not be
reversed. `Workflow` implements it for the effects that `done_count` counts.

### Tasks

One variable per field of `task_t`, indexed by slot; `saved_sp` is abstracted to
what it points at (nothing, an empty stack, an initial frame, a saved context).
`stage` follows `kmain`: tasks made without a frame, the sweep that parks them,
kernel-mode tasks that yield, and finally the user program or the idle loop, in
which the scheduler runs and nothing is switched. `rr_schedule` is stated by the
distance of a slot from the cursor, instead of the loop that walks it. The
lineage that `kernel/ipc/ipc.c` computes for a DENY record (depth below
kernel_task, number of siblings, both cut off at what a nibble holds) is stated
here too, because it is a function of this table.

### Telemetry

`head`, `tail` and `buf` of the ring with its real modular arithmetic, the log
with its free-running counters modulo `CounterRange` (2^32 in the code), the
overflow counter both share, and `auditor_tick` cut into report, drain steps and
end. A message is the number of its acceptance. The records that exporter.c
writes directly are in `Records`; `tick_count`, which only fills a field of the
heartbeat, is left out.

### Records and Audit

`Records` has one operator per emitter of `exporter.c`, from the values an event
has to the fields of the one record layout, and the readers' side: which field
each script takes for what. A byte has `Byte` values and a nibble `Nibble` (256
and 16 in the code), so that narrow fields cut off in small models too; packing
is the arithmetic of the loops. Digests of payloads are words like others.

`Audit` puts the records beside the tables they describe. A channel has a serial
number, so that two channels of one id can be told apart, and a link is a pair
of them; sockets are those of `Ipc`, where each channel is shown to own one. The
reader's state moves with every record, since the port loses nothing; message
records wait in the ring instead. `chan_edges` is the set of pairs of ids that
`reconstruct_graph.py` keeps and never takes anything out of. `live_edges` is a
set of pairs that could be kept from the same records: a CHAN_CREATE drops the
pairs of its id. `GraphIsCurrent` shows of the second that it has exactly the
links between channels in use, and of the first only that it misses none. A refused call changes nothing and writes a
DENY record: `CreateDenials` and the like are the record such a call would write
in a state, and the property ranges over all calls. `TaskRecords` extends `Tasks`
in the same way; what is recorded of a task never changes, so the reader's
knowledge is a function of the table and needs no variable.

### Interrupts

Both architectures from reset, chosen initially. The PICs have request, mask and
in-service bits, priorities, the cascade, non-specific end-of-interrupt and the
vector 7 they answer with when a request has gone away; these are hardware and
modelled from how `pic.c` and `isr.c` use them. The VIC has its raw status and
enable bits, and `arm_irq_dispatch` reads the status once and then walks it. A
level is a mask on x86 and the I bit on ARM. `timer_isr` is cut between its count
and its write to INTCLR, where the timer can expire again; everything else a
handler does is one step, because handlers run with interrupts off. `frames`
observes each task's open `splraise`/`splx` sections; `task_yield` is cut into
splhigh, the switch, and splx in the task that comes back.

### Boot

A script interpreter: each subtest of `main.c` is the list of calls it makes on
shared tables and what its error path gives back, and the actions interpret one
call at a time. What a call does inside its component is in that component's
module. The sizes of the tables are chosen initially from small sets that
include too small ones, so that each request of each test is refused somewhere.
`sane` observes that no call came before its subsystem was started and that no
empty stack was resumed.

### FrameAllocator

The bitmap as a set of indices, the count beside it, and calls of `free_frame`
with any address of `Addresses`: below and above the pool, unaligned, freed
already. `held` observes what callers own.

### MemoryMap

Extends `FrameAllocator`: blocks, regions, sections and frames describe one
address space. `booted` follows `kmain` through `security_init`, `memory_init`
and `arm_mmu_init`; allocation starts afterwards. `dirty` is the set of heap
addresses that are not zero, so that clearing, which goes through a memset that
the region table may refuse, can be told from not clearing; `owned` observes
what callers hold. The section table is the ARM one; the other targets run
without it. The execute permission of a region is stored and never read.

### MemoryUtils

The gated copies and string functions as functions of a memory: what each
address holds, and which addresses the validator lets through for reading and
writing. Loops are recursive functions in the loop's own order. The second half
of the module is what callers expect of the C library's functions of these
names, stated without loops. Bytes are unsigned in memory; `strcmp` subtracts
plain chars, which `CharSigned` says are signed (on x86) or not, with `HighBit`
for 0x80. It extends `MemoryMap`, whose region table says what
may be read and written in a window of the address space.

### Update

Extends `Workflow`: each action is a step of the engine together with what the
callback does to the storage. `store` maps checkpoint names to snapshots;
`checkpoint` is the one static buffer the name is kept in, which all
`update_state`s share; `made` and `base` observe under which name, and with which
contents, a workflow's snapshot was taken. Nothing runs between `apply_update`
and its return or the fault that ends it. A fault can strike before or after a
callback's effect and, in `create_checkpoint`, between claiming a slot and
filling it. `Overlap` says whether an update may be set up while another is
unfinished. Transaction records, image bytes, log paths and the sizes of buffers
are left out: a key that is registered again keeps its size.

### Nng

Sockets, pipes, per-socket queues, topic lists, round-robin cursors, return
addresses and survey deadlines; one action per protocol for `nng_send`. A send is
one step because nothing preempts it. `born` counts the openings of a socket id,
and a queued message is the opening it was sent to. Message bodies and their
lengths are not modelled.

### Ipc

Extends `Nng`: a channel is a slot that owns one socket; creating, closing,
linking, sending and receiving check the capabilities of the caller or the
channel, and the domain matrix, and then act on the socket. Callers are any
capability set and domain, which stands for `current_task`. `Direct` is kernel
code with sockets of its own (`test_nng_patterns`). The event ring is its
length and whether it has overflowed, which is all that Telemetry shows a sender
can tell. A channel remembers which opening of its socket id it was given;
`at_seal` and `refused` observe the matrix at its sealing and the outcome of
receipts. Owner and security level are stored for the records only, which are in
`Audit`.

## The runs

| Run | Question | Bounds |
|---|---|---|
| `workflow_table` | commit, residue, order, recovery, termination, the saga | 2 slots, 3 steps in one and 1 in the other (two effects held when the third step fails, all patterns of missing undos), 2 faults: one in a run, one in the recovery from it |
| `tasks_table` | table, scheduler, system calls, lineage, task records, no starvation | 4 slots, 3 stacks: the table outgrows the stacks; 2 capabilities, 2 domains of which one is wider than a byte |
| `telemetry_ring` | ring, log, account of drops, everything accepted is sent | ring of 4, batch of 2, log of 2 with counters modulo 4; 7 pushes and 6 log calls wrap both |
| `memory_map` | frame ownership, disjoint and cleared blocks, the validator, who can reach what | 4 frames, half of them in user sections, freed by addresses of every refused kind; 2 sizes of 2 blocks; sections of 8 bytes, addresses to 63; a gap between guard and text, so that an access can straddle an edge; for the memory functions, windows of 5 cells of 4 values, two of them with the high bit, over the guard, text and data and at the last address, strings of at most 3 |
| `nng_families` | message pool, socket reuse, rotation | 3 sockets, queues of 1, pool of 3; one protocol family per behaviour |
| `ipc_channels` | each channel keeps its socket, every link is authorised | 2 channels, 2 sockets opened twice, 1 pipe, 2 capability sets, 2 domains in the matrix and one outside, ring of 2 |
| `ipc_checksum` | violation: the checksum as "integrity check" | the same with 2 pipes and PAIR sockets |
| `update_pipeline` | the snapshot until the commit, clean reversals, leaks, failures | 2 workflow slots, 5 steps, 2 faults, 2 checkpoint slots, a path whose checkpoint name is too long, 2 set-ups, one at a time |
| `audit` | what the reader of the records knows | 2 channels, 3 creations (so that an id is used again), room for 1 record in the ring, 2 domains in the matrix and one outside that is wider than a byte, bytes of 9 values, 2 callers, channels without SEND, RECV or CROSS |
| `interrupts` | service bits, levels, ticks, and that a tick is taken | both architectures, the timer and a device on each PIC (7 and 15, whose vectors are also the spurious ones), 2 tasks, 3 levels, 2 open sections per task with task_yield's, 2 expiries: the second can come while the first is handled |
| `boot` | the state the user program starts in | each table from too small for one request up to enough for all; a log of 4 entries and 6 writes to it |
| `update_alias` | violation: "a clean reversal proves the workflow left nothing behind" | 2 updates that may overlap |

Deadlock is checked except in `Tasks`, where the program really stops (after
SYS_EXIT the user code loops outside the kernel), in `Nng`, where the model stops
when the bounds on openings and the clock are used up, and in `Boot`, which ends
where the user program begins.

In `workflow_table` a state constraint keeps slot 1 to one step. It cuts off the
state `workflow_begin` makes, and no fairness is assumed of that action, so
the liveness properties are not weakened for the tables that remain.

In `nng_families` a state constraint keeps a behaviour inside one family of
protocols (sockets of different families exchange no messages) and gives each
family the openings, links and ticks it needs to reach its limits.

In `audit` a state constraint stops behaviours after the first edge added to the
matrix or the first linked pair of ids: the states with two are checked and not
followed. One pair is enough for an id to be closed, used again and linked again.

Fairness. `Workflow`: callbacks return and C code that was entered goes on, so
the activation of a slot and the recovery scan are weakly fair; nothing makes a
recovery start and nothing makes a fault happen. `Tasks`: every task body and
kernel_task yield again and again (`test_task_lifecycle`), so `task_yield` is
weakly fair. `Telemetry`: the idle loop of `kmain` calls `process_events`, which
ticks; a user program that neither sends nor exits would keep the kernel from
getting there, and the liveness claim is about a kernel that does. `Interrupts`:
the processor takes an unmasked request between two instructions, so acceptance
is strongly fair (levels go up and down meanwhile); handlers, boot and calls that
have begun run on; kernel_task leaves the sections it enters, other tasks yield
in the end (as the bodies in `main.c` do), and round robin, by `NoStarvation`,
comes back to kernel_task. Other tasks run at IPL_HIGH throughout, because
`task_yield` starts them inside its own section, so without these a tick could
wait for ever.

## What the violations show

* `update_alias`: an update faults after its checkpoint, a second one is set up,
  overwrites the shared name, makes its own snapshot, and faults too; the
  recovery of the first slot removes the second's snapshot and reports a clean reversal. With one
  update at a time (`update_pipeline`) `CleanReversal` holds.
* `ipc_checksum`: the checksum does not travel with the message, so `ipc_recv`
  compares with what the receiver's buffer held before and refuses intact
  messages, which are gone by then.

Other places where a comment and the code part, on which no run is spent:

* A fault between the effect of a step and `done_count++` leaves that effect
  outside the undo cursor, where `include/workflow.h` says "it looks like it
  never started". `Residue`, which holds, is the exact promise: at most that one
  effect remains.
* Return addresses are socket ids without an epoch (`kernel/nngcompat.c`): a
  reply to a requester that was closed goes to the next socket of its id, and
  the answer of a respondent that missed a survey counts for the open one.
* There is no record of a closed channel, so the reader's graph keeps it until
  its id is used again. `scripts/reconstruct_graph.py` does not drop an id's
  pairs from `chan_edges` even then (lines 108-122), so it draws links that the
  new channel does not have, where its lines 10-14 say that it can rebuild the
  "channel connections" from the events alone. The events do suffice: see
  `live_edges` in `GraphIsCurrent`.
* `include/capabilities.h` says of denial reason 3 "CAP_PRIVILEGED_OP missing".
  `ipc_send` gives it to every refused privileged operation, also when the
  channel has that capability and lacks CAP_IPC_SEND; `DenyExplains` shows that
  the two masks of the record tell which.
* A refused receive or link records CAP_IPC_SEND as the capability it required,
  because `emit_deny` is given operation 0; which one was missing follows from
  the reason. `read_telemetry.py` prints FAULT records as unknown.
* `strcmp` subtracts plain chars. Where they are signed and the strings part in
  bytes of which one is 0x80 or more and the other is not, its sign is the
  opposite of the C library's, which compares unsigned chars; `StringsRight`
  has this as its one exception. Nothing in the tree calls `strcmp`.
* `pit_tick` does not call `log_tick`, so log times stay 0 on x86.
* `strcpy` of a source longer than `strlen` follows copies one byte.
* When only the second channel of a pair is refused, `test_ipc_enforcement`
  leaves the first open, and the log is full when the user program starts:
  `BootIsClean` counts both. The edge from 0 to 1 that the test adds is in the
  matrix when it is sealed.
* When the task of the user program cannot be created, `kmain` enters it as
  kernel_task; `BootIsClean` asks for the user's identity only when no table
  refused anything.
* A MSG record says that a message was accepted for sending: `ipc_send` pushes it
  before `nng_send` is tried, which can still fail.
* `rr_schedule` turns kernel_task to READY with everybody else and schedules it,
  where `kernel/sched/task.c` says its state "stays RUNNING";
  `test_task_lifecycle` depends on it.
* `kernel/mm/arm_mmu.c` puts the overlap of the frame pool and user space at
  0x500000-0x600000; by the constants of `frames.c` the pool is
  0x200000-0x600000, so it begins at 0x400000, the load address of the user
  program. The scan of `alloc_frame` gives those frames out last.

## What is proved

Every safety and action property that a passing run checks is also a theorem,
but for the one of `Boot`. The theorems hold for every value of the constants
that satisfies the named assumptions. All use the same argument: an invariant
with `Init => Inv`, `Inv /\ [Next]_vars => Inv'` and `Inv => property`, one step
per action; TLC checked the invariants first. What makes each inductive:

* `WorkflowProofs`. The properties are not inductive: `IInv` adds which activation
  a status admits (`PlaceInv`), where the cursors stand (`CursorInv`), exactly
  which effects exist in each phase (`EffectInv`), which records exist
  (`JournalInv`), and that a recovery is alone (`ScanInv`).
  `ReverseOrder` and the refinement `ImplementsSaga` follow from it: each action
  maps to a saga step or a stutter.
* `UpdateProofs`, over `WorkflowProofs`. All updates share one name buffer, so
  everything rests on `OneAtATime`: there is one update or one slot that the
  name in it is for. `MadeInv`, `HeldInv` and `GoneInv` follow the snapshot of a
  slot from its making to its removal, `UnharmedInv` what holds before the first
  fault, and `DebtInv` charges each lost snapshot to a fault of its own, which is
  how `LeaksNeedFaults` counts without cardinalities. The theorems assume
  `Overlap = FALSE`; `update_alias` shows that `CleanReversal` fails without it.
* `TasksProofs`. `IInv` adds the extent of the table, the ids in the order of
  allocation (no slot is used twice, so no id is), and who runs before the
  parking sweep. With it every parent is an earlier slot, so the walk to the
  root ends, and the record that `TaskRecords` writes for a task is read back:
  four digits to any base make up a word. `LineageIsStable` compares the walk
  from a task with the walk from its parent, one step shorter.
* `TelemetryProofs`. `RingHolds`, `Accounted` and `LogKeepsNewest` with the types
  are inductive. The work is modular arithmetic with a symbolic modulus: a few
  lemmas state what a step does to a distance modulo the capacity. The log
  needs that its size divides the range of its counters.
* `AuditProofs`. Lemmas first: what is packed into words, bytes and nibbles is
  read back, for every base. `AuditInv` then has five parts. Serial numbers are
  distinct (`ChannelsInv`); the reader knows the channels in use (`SeenInv`);
  a link names serial numbers given out already, so a channel that is given an
  id again starts with none, and `live_edges`, from which the creation dropped
  the id, has none for it either (`LinksInv`); the matrix is the identity and
  the recorded edges (`MatrixInv`); and a message in the ring carries the stamp
  of a channel that is as it was at the sending, or whose serial number is gone
  for good (`RingInv`). `DenialsExplain` is proved of every state, also where
  messages and links exist, which the run leaves out.
* `MemoryMapProofs`. For the frames, types, count and ownership are inductive
  together; the count uses the cardinality theorems. For the validator, `Built`,
  that the table stays as `security_init` made it, is inductive; a lemma says
  that `region_add` restricts the accepted accesses by exactly the region it
  adds, and is applied to the five regions in turn. For the blocks, `BlocksInv`
  adds that addresses are the carved ones, which the lemmas on `Carved` put apart
  and inside the heap, and that no section of the heap loses its kernel mapping.
  For the memory functions, a copy loop is followed forwards or backwards by
  which bytes it has moved, and the string loops are instances of one search
  that stops at the first place of a set; `PlainOrder` says how the order of
  plain chars and that of bytes differ; `UtilsAreRight` is about every memory,
  whatever may be read and written in it.
* `IpcProofs`, about `Nng` and `Ipc`. `NngInv` says that the count of allocated
  messages is the number of queue entries, that queued messages belong to the
  present opening of their socket, and that a closed socket has no pipe; the
  broadcast loops are shown to keep it round by round. `PeersTakeTurns` says
  which peer the cursor points at in the list collected anew. `ChannelsInv` adds
  who owns which opening, and `LinksFit` states authorisation against the matrix
  as it is, which only grows until it is sealed.
* `InterruptsProofs`. `Machine` (where boot has got to, and that the PICs serve
  what is being dispatched) is inductive alone and gives `InServiceExact`. With
  it `Ticks` is inductive and gives `CountedOnce`. `LevelKept` speaks of the
  running task only and is far from inductive: `Stacks` adds, for every task,
  that each saved value is the level of the sections below it, that a task that
  is away has its own IPL_HIGH section on top, and that a fresh one has none;
  `Masks` adds that the PICs' mask is the one of the level, so that what is
  dispatched was not masked. The lemmas on pushing and popping a section are
  about any sequence.

Loops and recursive functions are reasoned about in the same way everywhere: a
non-empty set of naturals has a least element (`LeastNat`), so what passes from
each round to the next holds after the last (`UpTo`), and the values a loop goes
through exist (`IterExists`). The modules that need these lemmas, or the ones on
quotients and digits, begin with them.

Assumptions, beyond the sizes being positive numbers and sets having the right
elements:

| Assumption | What | Why it holds of the code |
|---|---|---|
| `TaskAssumption` | fewer slots than task ids | MAX_TASKS against 32-bit ids |
| `WidthAssumption`, `AuditAssumption` | ids and domains fit a word; channel ids are below the byte that means "none" | `uint32_t` fields, MAX_IPC_CHANNELS against 0xFF |
| `CallersAssumption` | a parent's id fits three bytes, depth and sibling count a nibble | ids are given out in order to MAX_TASKS tasks; `ipc.c` saturates at LINEAGE_NIBBLE_MAX |
| `MasksAssumption` | capability sets have the four bits of `capabilities.h`; a byte holds the six reasons | a bound on what the model calls a byte |
| `TelemetryAssumption` | the log's size divides the range of its counters | a power of two against 2^32 |
| `FrameAssumption`, `MapAssumption`, `HeapAssumption` | the pool is aligned; sections are in the linker's order; heap and user space start with a section; the blocks fit the heap; five free regions | the constants of `frames.c` and `memory.h`, `_Static_assert`s of `memory.c`, the linker scripts |
| `KeysAssumption`, `StepsAssumption` | other users of the storage use other names; five steps fit a workflow | the names in `main.c`; WORKFLOW_MAX_STEPS |
| `UtilsAssumption` | bytes are below twice `HighBit`, and 0 is one | eight bits |
| `InterruptsAssumption` | devices are not on the timer's, the cascade's or the ARM timer's line; levels are 1 to 3 | `pic.c`, `vic.c` |

Proved and not among the runs' properties, because they need no instance: the
inductive invariants, `UniqueIds`, `TerminatedIsFinal`, `CommitIsFinal`, the frame
allocator's `CountAgrees` and `AllocIsFresh`, and that the channels leave the
message layer's properties intact.

Only model-checked:

* all liveness (`RunsToAnEnd`, `NoStarvation`, `EventuallySent`, `TickServed`): the
  provers have no rule for fairness and ENABLED;
* `BootIsClean`: the scripts of `Boot` are finite data that a run goes through
  completely, for every combination of table sizes it is given; a proof would
  repeat the interpretation call by call;
* the two violations, which need no proof.

## Not modelled

* The console, the log and assertions (formatting and output), cryptographic
  computations and signatures (functions of bytes without state), the user
  library (wrappers around one instruction).
* Code before `kmain` and in assembly beyond the context switch: page tables and
  descriptor tables at reset, entry and exit of exceptions, the RISC-V port
  beyond what it shares. The interrupt flag in user mode is part of that.
* Code without a caller: the priority scheduler and the priority queue,
  `kmalloc`, `kfree`, `nng_shutdown`, `rr_get_state`, `rr_set_state`,
  `rollback_update`, `commit_update`.
* Torn reads of the 64-bit tick counter: on the 32-bit targets `hw_get_jiffies`
  takes two loads, and the reader could see the halves of two ticks, once in
  2^32 of them.
* In `Boot`: `test_mmu_protection`, whose section flip is in `MemoryMap`;
  `test_memory_map` and `test_sandbox_staging`, which compare values and hold
  nothing; `test_fault_telemetry`, which only writes two FAULT records.
