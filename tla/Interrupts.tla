----------------------------- MODULE Interrupts -----------------------------
(***************************************************************************)
(* Interrupt controllers, priority levels (spl) and the timer tick, for    *)
(* the two architectures that have them: kernel/arch/x86 (two 8259 PICs    *)
(* and a PIT) and kernel/arch/arm (a PL190 VIC and an SP804).              *)
(*                                                                         *)
(* On x86 a level is a mask written to the PICs; on ARM every level above  *)
(* IPL_NONE sets CPSR.I.  Handlers run with the processor's interrupts off *)
(* (interrupt gates; CPSR.I), so they do not nest.  A device raises        *)
(* requests at any time from when a driver has enabled its line.  One that *)
(* goes away between the signal to the processor and its acknowledgement   *)
(* makes a PIC answer with its vector 7, and sets no in-service bit for    *)
(* it: the spurious IRQ 7 or 15.                                           *)
(*                                                                         *)
(* The code that is interrupted is a set of tasks that switch with         *)
(* task_yield, each with splraise/splx sections of its own.                *)
(***************************************************************************)
EXTENDS Naturals, Sequences, FiniteSets

CONSTANTS
  Devices,    \* interrupt lines with a device other than the timer
  Tasks,      \* kernel tasks that yield to one another
  Kernel,     \* kernel_task, which boots
  Levels,     \* levels that sections raise to, of 1 .. 3
  MaxNest,    \* bound on open sections of a task, task_yield's included
  MaxTicks    \* bound on timer expiries

ASSUME InterruptsAssumption ==
  /\ Devices \subseteq (0 .. 15) \ {0, 2, 4}
  /\ Kernel \in Tasks
  /\ Levels \subseteq 1 .. 3
  /\ MaxNest \in Nat /\ MaxTicks \in Nat

VARIABLES
  arch,         \* "x86" or "arm"
  stage,        \* next step of kmain's interrupt setup
  intr,         \* the processor accepts interrupts: EFLAGS.IF, not CPSR.I
  ipl,          \* ipl_mask, by its level
  enabled,      \* lines enabled: not in enabled_mask; VIC IntEnable
  imr,          \* lines masked in the PICs
  pending,      \* requests: the PICs' IRR; the raw status of the VIC
  in_service,   \* the ISR bits of both PICs
  todo,         \* lines the dispatcher that runs has still to look at
  counted,      \* timer_isr has counted and not yet written INTCLR
  handlers,     \* lines with a registered handler
  jiffies,      \* jiffies, arm_jiffies
  expiries,     \* times the timer expired
  running,      \* current_task
  mode,         \* per task: fresh, run, leaving, away, back
  frames,       \* per task, its open sections: value to restore, level asked
  asleep        \* in hlt

pic == <<enabled, imr, in_service>>
clock == <<counted, jiffies, expiries>>
code == <<running, mode, frames>>
vars == <<arch, stage, intr, ipl, pic, pending, todo, handlers, clock, code, asleep>>

-----------------------------------------------------------------------------

x86 == arch = "x86"
arm == arch = "arm"
TimerIrq == IF x86 THEN 0 ELSE 4
Cascade == 2
Irqs == {0, Cascade} \cup Devices
Up == 9

IPL_NONE == 0
IPL_TTY == 1
IPL_CLOCK == 2
IPL_HIGH == 3

(* The masks are nested, and as numbers they grow with the level; ipl_mask *)
(* only ever holds one of them.                                            *)
ipl_to_mask ==
  [l \in 0 .. 3 |-> {i \in Irqs : \/ l >= IPL_TTY /\ i \in 4 .. 7
                                  \/ l >= IPL_CLOCK /\ i # 0
                                  \/ l = IPL_HIGH}]

(* What apply_mask writes to the PICs.                                     *)
apply_mask(on, level) == (Irqs \ on) \cup ipl_to_mask[level]

(* Reset: interrupts off, whatever the firmware left in the PICs unmasked. *)
Init ==
  /\ arch \in {"x86", "arm"} /\ stage = 0
  /\ intr = FALSE /\ ipl = IPL_HIGH
  /\ enabled = (IF x86 THEN {Cascade} ELSE {}) /\ imr = {} /\ in_service = {}
  /\ pending = {} /\ todo = {} /\ counted = FALSE /\ handlers = {}
  /\ jiffies = 0 /\ expiries = 0
  /\ running = Kernel
  /\ mode = [t \in Tasks |-> IF t = Kernel THEN "run" ELSE "fresh"]
  /\ frames = [t \in Tasks |-> <<>>]
  /\ asleep = FALSE

-----------------------------------------------------------------------------
(* Devices and controllers.                                                *)

(* The PIT ticks from power-on; Timer0 once arm_timer_init enables it.     *)
expire ==
  /\ expiries < MaxTicks /\ expiries' = expiries + 1
  /\ arm => stage >= 2
  /\ pending' = pending \cup {TimerIrq}
  /\ UNCHANGED <<arch, stage, intr, ipl, pic, todo, counted, handlers, jiffies, code, asleep>>

request(d) ==
  /\ stage = Up /\ d \in enabled \ pending
  /\ pending' = pending \cup {d}
  /\ UNCHANGED <<arch, stage, intr, ipl, pic, todo, handlers, clock, code, asleep>>

(* The master sees a line of the slave as its line 2.  A request waits     *)
(* while one of the same or a higher priority is in service.               *)
Line(i) == IF i >= 8 THEN Cascade ELSE i
Unblocked(i) ==
  /\ \A s \in in_service : s < 8 => Line(i) < s
  /\ \A s \in in_service : s >= 8 /\ i >= 8 => i < s
Before(i, j) == Line(i) < Line(j) \/ (Line(i) = Line(j) /\ i < j)
Offered == {i \in pending \ imr : Line(i) \notin imr /\ Unblocked(i)}

Accepting == intr /\ todo = {}

(* The processor acknowledges the request of highest priority.             *)
x86_accept(i) ==
  /\ x86 /\ Accepting
  /\ i \in Offered /\ \A j \in Offered \ {i} : Before(i, j)
  /\ pending' = pending \ {i} /\ todo' = {i}
  /\ in_service' = in_service \cup {i, Line(i)}
  /\ asleep' = FALSE
  /\ UNCHANGED <<arch, stage, intr, ipl, enabled, imr, handlers, clock, code>>

(* The same when the request went away; IRQ 15 by way of the cascade.      *)
x86_spurious(i) ==
  /\ x86 /\ Accepting
  /\ i = 15 => Cascade \notin imr /\ Unblocked(15)
  /\ todo' = {i}
  /\ in_service' = in_service \cup (IF i = 15 THEN {Cascade} ELSE {})
  /\ asleep' = FALSE
  /\ UNCHANGED <<arch, stage, intr, ipl, enabled, imr, pending, handlers, clock, code>>

(* arm_irq_dispatch reads IRQStatus once.                                  *)
arm_accept ==
  /\ arm /\ Accepting
  /\ pending \cap enabled # {}
  /\ todo' = pending \cap enabled
  /\ UNCHANGED <<arch, stage, intr, ipl, pic, pending, handlers, clock, code, asleep>>

-----------------------------------------------------------------------------
(* Dispatch.                                                               *)

(* A non-specific EOI ends the service of highest priority in one PIC.     *)
Ended(bits, pic_lines) ==
  LET own == bits \cap pic_lines
  IN  bits \ {i \in own : \A j \in own : i <= j}
EOI_master(bits) == Ended(bits, 0 .. 7)
EOI_slave(bits) == Ended(bits, 8 .. 15)

irq_eoi(irq, bits) == EOI_master(IF irq >= 8 THEN EOI_slave(bits) ELSE bits)

(* Mutant: a spurious IRQ 15 is dropped as a spurious IRQ 7 is.            *)
Mut_served(irq) ==
  IF irq \in {7, 15} /\ irq \notin in_service THEN in_service
  ELSE irq_eoi(irq, in_service)

(* The in-service bits after do_irq.                                       *)
served(irq) ==
  IF irq = 7 /\ 7 \notin in_service THEN in_service
  ELSE IF irq = 15 /\ 15 \notin in_service THEN EOI_master(in_service)
  ELSE irq_eoi(irq, in_service)

(* do_irq, with pit_tick; a device's handler changes nothing modelled.     *)
do_irq(irq) ==
  /\ x86 /\ todo = {irq} /\ todo' = {}
  /\ in_service' = served(irq)
  /\ jiffies' = IF irq = 0 /\ 0 \in handlers THEN jiffies + 1 ELSE jiffies
  /\ UNCHANGED <<arch, stage, intr, ipl, enabled, imr, pending, counted, handlers, expiries, code, asleep>>

Lowest(i) == i \in todo /\ \A j \in todo : i <= j

(* One round of arm_irq_dispatch, for a line other than the timer's.  The  *)
(* handler is taken to acknowledge its device.                             *)
arm_handle(i) ==
  /\ arm /\ Lowest(i) /\ i # TimerIrq
  /\ todo' = todo \ {i}
  /\ pending' = IF i \in handlers THEN pending \ {i} ELSE pending
  /\ UNCHANGED <<arch, stage, intr, ipl, pic, handlers, clock, code, asleep>>

(* timer_isr: count, if Timer0 is asserted.  Timer1 is never enabled.      *)
timer_isr_count ==
  /\ arm /\ Lowest(TimerIrq) /\ ~counted /\ TimerIrq \in handlers \cap pending
  /\ jiffies' = jiffies + 1 /\ counted' = TRUE
  /\ UNCHANGED <<arch, stage, intr, ipl, pic, pending, todo, handlers, expiries, code, asleep>>

(* Mutant: the timer's interrupt is not cleared.                           *)
MutCleared == pending

Cleared == pending \ {TimerIrq}

(* INTCLR, which also takes an expiry that came since the count.           *)
timer_isr_clear ==
  /\ counted /\ counted' = FALSE
  /\ pending' = Cleared /\ todo' = todo \ {TimerIrq}
  /\ UNCHANGED <<arch, stage, intr, ipl, pic, handlers, jiffies, expiries, code, asleep>>

-----------------------------------------------------------------------------
(* Levels.  spl_t is the level on x86 and the I bit on ARM.                *)

Spl == IF x86 THEN ipl ELSE IF intr THEN 0 ELSE 1

splx(prev) ==
  IF x86 THEN ipl' = prev /\ imr' = apply_mask(enabled, prev) /\ UNCHANGED intr
         ELSE intr' = (prev = 0) /\ UNCHANGED <<ipl, imr>>

(* Mutant: the level asked for, lower or not.                              *)
MutRaised(l) == IF x86 THEN l ELSE 1

Raised(l) == IF x86 THEN (IF l > ipl THEN l ELSE ipl) ELSE 1

(* splraise(l) for l above IPL_NONE; Spl is what it returns.               *)
splraise(l) == IF Raised(l) = Spl THEN UNCHANGED <<ipl, imr, intr>> ELSE splx(Raised(l))

spl0 == splx(IPL_NONE)

-----------------------------------------------------------------------------
(* kmain's setup, in order.                                                *)

Step(a, n) == arch = a /\ stage = n /\ stage' = n + 1
Later == UNCHANGED <<arch, expiries, jiffies, counted, todo, code, asleep>>

(* ICW1 clears the PICs; their masks are then written again.               *)
pic_remap ==
  /\ Step("x86", 0)
  /\ imr' = apply_mask(enabled, ipl) /\ in_service' = {} /\ pending' = {}
  /\ UNCHANGED <<intr, ipl, enabled, handlers>> /\ Later

pit_init ==
  /\ Step("x86", 1)
  /\ handlers' = handlers \cup {0}
  /\ UNCHANGED <<intr, ipl, pic, pending>> /\ Later

pic_unmask(irq) ==
  /\ enabled' = enabled \cup {irq}
  /\ imr' = apply_mask(enabled', ipl)

unmask_timer ==
  /\ Step("x86", 2)
  /\ pic_unmask(0)
  /\ UNCHANGED <<intr, ipl, in_service, handlers, pending>> /\ Later

sti ==
  /\ Step("x86", 3)
  /\ intr' = TRUE
  /\ UNCHANGED <<ipl, pic, handlers, pending>> /\ Later

lower_ipl ==
  /\ x86 /\ stage = 4 /\ stage' = Up /\ todo = {}
  /\ spl0
  /\ UNCHANGED <<enabled, in_service, handlers, pending>> /\ Later

vic_init ==
  /\ Step("arm", 0)
  /\ enabled' = {} /\ handlers' = {}
  /\ UNCHANGED <<intr, ipl, imr, in_service, pending>> /\ Later

arm_timer_init ==
  /\ Step("arm", 1)
  /\ handlers' = handlers \cup {TimerIrq} /\ enabled' = enabled \cup {TimerIrq}
  /\ UNCHANGED <<intr, ipl, imr, in_service, pending>> /\ Later

(* After arm_mmu_init, which leaves interrupts alone.                      *)
clear_cpsr_i ==
  /\ arm /\ stage = 2 /\ stage' = Up
  /\ intr' = TRUE
  /\ UNCHANGED <<ipl, pic, handlers, pending>> /\ Later

setup == pic_remap \/ pit_init \/ unmask_timer \/ sti \/ lower_ipl \/ vic_init \/ arm_timer_init \/ clear_cpsr_i

-----------------------------------------------------------------------------
(* Code between interrupts.                                                *)

Runs(t, m) == stage = Up /\ running = t /\ mode[t] = m /\ todo = {} /\ ~asleep
Calls(t) == Runs(t, "run")
Rest == UNCHANGED <<arch, stage, enabled, in_service, pending, todo, handlers, clock>>

Pushed(t, l) == [frames EXCEPT ![t] = Append(@, [old |-> Spl, asked |-> l])]
Top(t) == frames[t][Len(frames[t])]
Popped(t) == [frames EXCEPT ![t] = SubSeq(@, 1, Len(@) - 1)]

(* A section: prev = splraise(l) ... splx(prev).                           *)
enter(t, l) ==
  /\ Calls(t) /\ Len(frames[t]) < MaxNest - 1
  /\ frames' = Pushed(t, l) /\ splraise(l)
  /\ Rest /\ UNCHANGED <<running, mode, asleep>>

leave(t) ==
  /\ Calls(t) /\ frames[t] # <<>>
  /\ frames' = Popped(t) /\ splx(Top(t).old)
  /\ Rest /\ UNCHANGED <<running, mode, asleep>>

(* task_yield: splhigh, ...                                                *)
task_yield(t) ==
  /\ Calls(t) /\ Len(frames[t]) < MaxNest
  /\ \E n \in Tasks \ {t} : mode[n] \in {"fresh", "away"}
  /\ frames' = Pushed(t, IPL_HIGH) /\ splraise(IPL_HIGH)
  /\ mode' = [mode EXCEPT ![t] = "leaving"]
  /\ Rest /\ UNCHANGED <<running, asleep>>

(* ... the switch to n, which starts at its entry or returns in task_yield *)
switch(t, n) ==
  /\ Runs(t, "leaving") /\ n # t /\ mode[n] \in {"fresh", "away"}
  /\ running' = n
  /\ mode' = [mode EXCEPT ![t] = "away", ![n] = IF @ = "fresh" THEN "run" ELSE "back"]
  /\ Rest /\ UNCHANGED <<intr, ipl, imr, frames, asleep>>

(* Mutant: task_yield returns without lowering the level.                  *)
Mut_return(t) ==
  /\ Runs(t, "back")
  /\ mode' = [mode EXCEPT ![t] = "run"]
  /\ frames' = Popped(t) /\ UNCHANGED <<ipl, imr, intr>>
  /\ Rest /\ UNCHANGED <<running, asleep>>

(* ... and splx(old) by the task that was away.                            *)
return(t) ==
  /\ Runs(t, "back")
  /\ mode' = [mode EXCEPT ![t] = "run"]
  /\ frames' = Popped(t) /\ splx(Top(t).old)
  /\ Rest /\ UNCHANGED <<running, asleep>>

(* The idle loop's cpu_idle: sti; hlt on x86, nothing on ARM.              *)
cpu_idle ==
  /\ x86 /\ Calls(Kernel) /\ frames[Kernel] = <<>>
  /\ asleep' = TRUE /\ intr' = TRUE
  /\ Rest /\ UNCHANGED <<ipl, imr, code>>

(* A driver: irq_register_handler, on x86 followed by pic_unmask, which    *)
(* the VIC's version does by itself.  In between the line is still masked. *)
irq_register_handler(t, d) ==
  /\ Calls(t) /\ handlers' = handlers \cup {d}
  /\ IF x86 THEN pic_unmask(d) ELSE enabled' = enabled \cup {d} /\ UNCHANGED imr
  /\ UNCHANGED <<arch, stage, intr, ipl, in_service, pending, todo, clock, code, asleep>>

(* The x86 version leaves the line unmasked.                               *)
irq_unregister_handler(t, d) ==
  /\ Calls(t) /\ handlers' = handlers \ {d}
  /\ enabled' = IF x86 THEN enabled ELSE enabled \ {d}
  /\ UNCHANGED <<arch, stage, intr, ipl, imr, in_service, pending, todo, clock, code, asleep>>

-----------------------------------------------------------------------------

Hardware ==
  \/ expire
  \/ \E d \in Devices : request(d)
  \/ \E i \in Irqs : x86_accept(i)
  \/ x86_spurious(7) \/ x86_spurious(15)
  \/ arm_accept

Dispatch ==
  \/ \E i \in 0 .. 15 : do_irq(i) \/ arm_handle(i)
  \/ timer_isr_count \/ timer_isr_clear

Code(t) ==
  \/ \E l \in Levels : enter(t, l)
  \/ leave(t) \/ task_yield(t) \/ return(t)
  \/ \E n \in Tasks : switch(t, n)
  \/ \E d \in Devices : irq_register_handler(t, d) \/ irq_unregister_handler(t, d)

Next == Hardware \/ Dispatch \/ setup \/ cpu_idle \/ \E t \in Tasks : Code(t)

(* The processor takes an unmasked request between two instructions; boot, *)
(* handlers, and the calls that have begun run to their end.  kernel_task  *)
(* leaves its sections, other tasks yield in the end, and the round robin  *)
(* comes back to kernel_task.                                              *)
Midway ==
  \E t \in Tasks : return(t) \/ \E n \in Tasks : switch(t, n)
Fairness ==
  /\ SF_vars(x86_accept(0) \/ arm_accept)
  /\ WF_vars(Dispatch) /\ WF_vars(setup)
  /\ SF_vars(Midway)
  /\ \A n \in 1 .. MaxNest - 1 : SF_vars(leave(Kernel) /\ Len(frames[Kernel]) = n)
  /\ SF_vars(\E t \in Tasks \ {Kernel} : task_yield(t))
  /\ SF_vars(\E t \in Tasks : switch(t, Kernel))

Spec == Init /\ [][Next]_vars
FairSpec == Spec /\ Fairness

-----------------------------------------------------------------------------
(* Properties.                                                             *)

(* Nothing is in service but what is being dispatched, in either PIC: a    *)
(* stale bit would block its line, and every line below it, for good.      *)
InServiceExact ==
  in_service \subseteq UNION {{i, Line(i)} : i \in todo}

(* The level of the running task is the highest of those its open sections *)
(* asked for, IPL_HIGH for a task that was started by a task_yield, through*)
(* any nesting and any switches in between; and no handler runs for a line *)
(* that one of these levels masks, on ARM none at all above IPL_NONE.      *)
Base(t) == IF t = Kernel THEN IPL_NONE ELSE IPL_HIGH
Asked(t) == {Base(t)} \cup {frames[t][i].asked : i \in DOMAIN frames[t]}
Highest(l, set) == l \in set /\ \A k \in set : k <= l
LevelKept ==
  stage = Up /\ mode[running] \in {"run", "leaving"} =>
    /\ \E l \in Asked(running) :
         Highest(l, Asked(running)) /\ Spl = (IF x86 THEN l ELSE IF l = 0 THEN 0 ELSE 1)
    /\ \A i \in todo, l \in Asked(running) :
         IF x86 THEN i \in in_service => i \notin ipl_to_mask[l] ELSE l = IPL_NONE

(* An expiry is counted at most once: one that waits, in the controller or *)
(* for do_irq, is not among the ticks counted.                             *)
CountedOnce ==
  LET waits == (IF TimerIrq \in pending /\ ~counted THEN 1 ELSE 0)
               + (IF x86 /\ 0 \in todo THEN 1 ELSE 0)
  IN  jiffies + waits <= expiries

(* Once interrupts are set up, a timer request is taken and cleared in the *)
(* end, whatever sections, switches and other interrupts there are.        *)
TickServed ==
  (stage = Up /\ TimerIrq \in pending) ~> TimerIrq \notin pending
=============================================================================
