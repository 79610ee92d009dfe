-------------------------- MODULE InterruptsProofs --------------------------
(***************************************************************************)
(* Proofs about Interrupts, for any devices, tasks, levels and bounds.     *)
(* Machine is inductive by itself: where boot has got to, and that the     *)
(* PICs serve exactly what is being dispatched.  Ticks and Stacks are      *)
(* inductive given Machine, and Masks given both.  Stacks says what the    *)
(* saved value of a section means: it is the level of the sections below   *)
(* it, whichever tasks ran while the section was open.                     *)
(***************************************************************************)
EXTENDS Interrupts, SequenceTheorems, TLAPS

Modes == {"fresh", "run", "leaving", "away", "back"}
Frame == [old : 0 .. 3, asked : 1 .. 3]

-----------------------------------------------------------------------------
(* The machine.                                                            *)

(* What the PICs serve while todo is dispatched.                           *)
Serving ==
  \/ todo = {} /\ in_service = {}
  \/ \E i \in 0 .. 15 : todo = {i} /\ in_service = {i, Line(i)}
  \/ todo = {7} /\ in_service = {}
  \/ todo = {15} /\ in_service = {Cascade}

Machine ==
  /\ arch \in {"x86", "arm"}
  /\ stage \in 0 .. Up
  /\ x86 => Serving /\ ~counted
  /\ arm => in_service = {}
  /\ x86 /\ stage <= 3 => ~intr /\ todo = {}
  /\ arm /\ stage <= 2 => ~intr /\ todo = {}
  /\ arm => stage \in {0, 1, 2, Up}
  /\ x86 => stage \in {0, 1, 2, 3, 4, Up}

(* The command to one PIC ends the one service it has.                     *)
LEMMA EndsOwn ==
  ASSUME NEW S, NEW i \in 0 .. 15, i \in S, NEW bits, bits \cap S = {i}
  PROVE  Ended(bits, S) = bits \ {i}
<1>1. {k \in bits \cap S : \A j \in bits \cap S : k <= j} = {i}
  OBVIOUS
<1>. QED  BY <1>1 DEF Ended

(* do_irq ends exactly the service that was begun.                         *)
LEMMA ServiceEnds ==
  ASSUME NEW i \in 0 .. 15, x86, Serving, todo = {i}
  PROVE  served(i) = {}
<1>1. Line(i) \in 0 .. 7 /\ (i < 8 => Line(i) = i) /\ (i >= 8 => Line(i) = 2)
  BY DEF Line, Cascade
<1>2. CASE in_service = {i, Line(i)} /\ i < 8
  <2>1. in_service = {i}
    BY <1>1, <1>2
  <2>2. {i} \cap (0 .. 7) = {i} /\ {i} \ {i} = {}
    <3>1. i \in 0 .. 7
      BY <1>2
    <3>. QED  BY <3>1, Zenon
  <2>3. EOI_master({i}) = {}
    BY <2>2, EndsOwn DEF EOI_master
  <2>. QED  BY <1>2, <2>1, <2>3 DEF served, irq_eoi
<1>3. CASE in_service = {i, Line(i)} /\ i >= 8
  <2>1. in_service = {i, 2}
    BY <1>1, <1>3
  <2>2. EOI_slave({i, 2}) = {2}
    <3>1. {i, 2} \cap (8 .. 15) = {i} /\ {i, 2} \ {i} = {2}
      <4>1. i \in 8 .. 15 /\ 2 \notin 8 .. 15 /\ i # 2
        BY <1>3
      <4>. QED  BY <4>1, Zenon
    <3>. QED  BY <1>3, <3>1, EndsOwn DEF EOI_slave
  <2>3. EOI_master({2}) = {}
    BY DEF EOI_master, Ended
  <2>. QED  BY <1>3, <2>1, <2>2, <2>3 DEF served, irq_eoi
<1>4. CASE i = 7 /\ in_service = {}
  BY <1>4 DEF served
<1>5. CASE i = 15 /\ in_service = {Cascade}
  <2>1. EOI_master({2}) = {}
    BY DEF EOI_master, Ended
  <2>. QED  BY <1>5, <2>1 DEF served, Cascade
<1>. QED
  BY SMTT(60), <1>2, <1>3, <1>4, <1>5 DEF Serving

LEMMA MachineInit == Init => Machine
BY DEF Init, Machine, Serving, x86, arm, Up

LEMMA MachineStep == Machine /\ [Next]_vars => Machine'
<1>. SUFFICES ASSUME Machine, [Next]_vars  PROVE Machine'
  OBVIOUS
<1>. USE InterruptsAssumption DEF x86, arm, Up
<1>1. CASE expire \/ (\E d \in Devices : request(d))
  BY <1>1 DEF Machine, Serving, expire, request, pic, clock, code
<1>2. ASSUME NEW i \in Irqs, x86_accept(i)  PROVE Machine'
  <2>1. i \in 0 .. 15 /\ todo' = {i} /\ in_service' = {i, Line(i)}
    BY <1>2 DEF x86_accept, Accepting, Irqs, Cascade, Machine, Serving
  <2>2. Serving'
    BY <2>1 DEF Serving, Line
  <2>. QED  BY <1>2, <2>1, <2>2 DEF Machine, x86_accept, Accepting, clock, code
<1>3. ASSUME NEW i \in {7, 15}, x86_spurious(i)  PROVE Machine'
  <2>1. Serving'
    BY <1>3 DEF x86_spurious, Accepting, Machine, Serving
  <2>. QED  BY <1>3, <2>1 DEF Machine, x86_spurious, Accepting, clock, code
<1>4. CASE arm_accept
  BY <1>4 DEF Machine, arm_accept, Accepting, pic, clock, code
<1>5. ASSUME NEW i \in 0 .. 15, do_irq(i)  PROVE Machine'
  <2>1. todo' = {} /\ in_service' = {}
    BY <1>5, ServiceEnds DEF do_irq, Machine
  <2>2. Serving'
    BY <2>1 DEF Serving
  <2>. QED  BY <1>5, <2>1, <2>2 DEF do_irq, Machine
<1>6. ASSUME NEW i \in 0 .. 15, arm_handle(i)  PROVE Machine'
  BY <1>6 DEF arm_handle, Machine, Lowest, pic, clock
<1>7. CASE timer_isr_count
  BY <1>7 DEF timer_isr_count, Machine, Lowest, pic
<1>8. CASE timer_isr_clear
  BY <1>8 DEF timer_isr_clear, Machine, pic
<1>9. CASE setup
  <2>1. CASE pic_remap \/ pit_init \/ unmask_timer \/ sti
    BY <1>9, <2>1 DEF Machine, Serving, pic_remap, pit_init, unmask_timer, pic_unmask,
                      sti, Step, Later, pic
  <2>2. CASE lower_ipl
    BY <1>9, <2>2 DEF Machine, Serving, lower_ipl, spl0, splx, Later
  <2>3. CASE vic_init \/ arm_timer_init \/ clear_cpsr_i
    BY <1>9, <2>3 DEF Machine, vic_init, arm_timer_init, clear_cpsr_i, Step, Later, pic
  <2>. QED  BY <1>9, <2>1, <2>2, <2>3 DEF setup
<1>10. CASE cpu_idle
  BY <1>10 DEF Machine, Serving, cpu_idle, Calls, Runs, Rest, clock
<1>11. ASSUME NEW t \in Tasks, Code(t)  PROVE Machine'
  <2>1. stage = Up /\ UNCHANGED <<arch, stage, in_service, todo, counted>>
    BY Zenon, <1>11 DEF Code, enter, leave, task_yield, return, switch, irq_register_handler,
                 irq_unregister_handler, Calls, Runs, Rest, clock
  <2>. QED  BY <2>1 DEF Machine, Serving
<1>12. CASE UNCHANGED vars
  BY <1>12 DEF Machine, Serving, vars, pic, clock, code
<1>. QED
  BY <1>1, <1>2, <1>3, <1>4, <1>5, <1>6, <1>7, <1>8, <1>9, <1>10, <1>11, <1>12
     DEF Next, Hardware, Dispatch

(* Throughout, boot and the PICs are in the states Machine describes.      *)
THEOREM MachineInvariance == Spec => []Machine
BY MachineInit, MachineStep, PTL DEF Spec

(* No in-service bit outlives its dispatch, in either PIC, spurious        *)
(* vectors of both included (isr.c).                                       *)
THEOREM ServiceIsExact == Spec => []InServiceExact
<1>1. Machine => InServiceExact
  <2>. SUFFICES ASSUME Machine, NEW s \in in_service
                PROVE  \E i \in todo : s \in {i, Line(i)}
    BY DEF InServiceExact
  <2>. QED  BY DEF Machine, Serving, x86, arm, Line, Cascade
<1>. QED  BY <1>1, MachineInvariance, PTL

-----------------------------------------------------------------------------
(* The clock.                                                              *)

(* The waiting expiries: in the controller, and in do_irq's hands.         *)
Waiting == TimerIrq \in pending /\ ~counted
Taken == x86 /\ 0 \in todo

Ticks ==
  /\ jiffies \in Nat /\ expiries \in Nat
  /\ jiffies <= expiries
  /\ Waiting \/ Taken => jiffies + 1 <= expiries
  /\ Waiting /\ Taken => jiffies + 2 <= expiries

LEMMA TicksCount == Ticks => CountedOnce
BY DEF Ticks, CountedOnce, Waiting, Taken

LEMMA TicksStep == Machine /\ Ticks /\ [Next]_vars => Ticks'
<1>. SUFFICES ASSUME Machine, Ticks, [Next]_vars  PROVE Ticks'
  OBVIOUS
<1>. USE InterruptsAssumption DEF Ticks, Waiting, Taken, TimerIrq, x86, arm
<1>1. CASE expire
  BY <1>1 DEF expire
<1>2. ASSUME NEW d \in Devices, request(d)  PROVE Ticks'
  <2>1. d # 0 /\ d # 4
    OBVIOUS
  <2>. QED  BY <1>2, <2>1 DEF request, clock
<1>3. ASSUME NEW i \in Irqs, x86_accept(i)  PROVE Ticks'
  BY <1>3 DEF x86_accept, Accepting, Offered, Machine, clock
<1>4. ASSUME NEW i \in {7, 15}, x86_spurious(i)  PROVE Ticks'
  BY <1>4 DEF x86_spurious, Accepting, clock
<1>5. CASE arm_accept
  BY <1>5 DEF arm_accept, clock
<1>6. ASSUME NEW i \in 0 .. 15, do_irq(i)  PROVE Ticks'
  BY <1>6 DEF do_irq
<1>7. ASSUME NEW i \in 0 .. 15, arm_handle(i)  PROVE Ticks'
  BY <1>7 DEF arm_handle, clock
<1>8. CASE timer_isr_count
  BY <1>8 DEF timer_isr_count
<1>9. CASE timer_isr_clear
  BY <1>9 DEF timer_isr_clear, Cleared, Machine
<1>10. CASE setup
  BY <1>10 DEF setup, pic_remap, pit_init, unmask_timer, sti, lower_ipl, vic_init,
               arm_timer_init, clear_cpsr_i, Step, Later
<1>11. CASE cpu_idle
  BY Zenon, <1>11 DEF cpu_idle, Rest, clock
<1>12. ASSUME NEW t \in Tasks, Code(t)  PROVE Ticks'
  BY Zenon, <1>12 DEF Code, enter, leave, task_yield, return, switch, irq_register_handler,
               irq_unregister_handler, Rest, clock
<1>13. CASE UNCHANGED vars
  BY <1>13 DEF vars, clock
<1>. QED
  BY Zenon, <1>1, <1>2, <1>3, <1>4, <1>5, <1>6, <1>7, <1>8, <1>9, <1>10, <1>11, <1>12, <1>13
     DEF Next, Hardware, Dispatch

(* Neither pit_tick nor timer_isr counts an expiry twice, although the     *)
(* timer may expire between timer_isr's count and its write to INTCLR.     *)
THEOREM TicksAreReal == Spec => []CountedOnce
<1>1. Init => Ticks
  BY DEF Init, Ticks, Waiting, Taken
<1>. QED  BY <1>1, TicksStep, TicksCount, MachineInvariance, PTL DEF Spec

-----------------------------------------------------------------------------
(* Levels.                                                                 *)

(* A level as spl_t has it, and the levels asked for up to section n.      *)
Enc(a, l) == IF a = "x86" THEN l ELSE IF l = 0 THEN 0 ELSE 1
Asks(b, f, n) == {b} \cup {f[i].asked : i \in 1 .. n}
Is(a, v, b, f, n) == \E l \in 0 .. 3 : Highest(l, Asks(b, f, n)) /\ v = Enc(a, l)

(* Every saved value is the level of the sections below.                   *)
Sound(a, b, f) == \A i \in 1 .. Len(f) : Is(a, f[i].old, b, f, i - 1)

Nested(a, v, l) == IF a = "x86" THEN (IF l > v THEN l ELSE v) ELSE 1

(* A level depends on the sections below it only.                          *)
LEMMA IsPrefix ==
  ASSUME NEW a, NEW v, NEW b, NEW f, NEW g, NEW n \in Nat,
         \A i \in 1 .. n : f[i] = g[i], Is(a, v, b, f, n)
  PROVE  Is(a, v, b, g, n)
<1>1. Asks(b, f, n) = Asks(b, g, n)
  BY DEF Asks
<1>. QED  BY <1>1 DEF Is

LEMMA SoundPush ==
  ASSUME NEW a \in {"x86", "arm"}, NEW b \in 0 .. 3, NEW f \in Seq(Frame),
         NEW v \in 0 .. 3, NEW l \in 1 .. 3,
         Sound(a, b, f), Is(a, v, b, f, Len(f))
  PROVE  LET g == Append(f, [old |-> v, asked |-> l])
         IN  /\ g \in Seq(Frame) /\ Len(g) = Len(f) + 1 /\ g[Len(g)].asked = l
             /\ Sound(a, b, g) /\ Is(a, Nested(a, v, l), b, g, Len(g))
<1>. DEFINE e == [old |-> v, asked |-> l]
            g == Append(f, e)
<1>1. /\ e \in Frame /\ e.old = v /\ e.asked = l
      /\ g \in Seq(Frame) /\ Len(g) = Len(f) + 1 /\ Len(f) \in Nat
      /\ g[Len(g)] = e /\ \A i \in 1 .. Len(f) : g[i] = f[i]
  BY DEF Frame
<1>. HIDE DEF g, e
<1>2. ASSUME NEW i \in 1 .. Len(g)  PROVE Is(a, g[i].old, b, g, i - 1)
  <2>1. CASE i = Len(g)
    BY SMTT(60), <1>1, <2>1, IsPrefix
  <2>2. CASE i \in 1 .. Len(f)
    <3>1. Is(a, f[i].old, b, f, i - 1) /\ i - 1 \in Nat
      BY <2>2 DEF Sound
    <3>2. \A j \in 1 .. (i - 1) : f[j] = g[j]
      BY <1>1, <2>2
    <3>3. Is(a, f[i].old, b, g, i - 1)
      BY <3>1, <3>2, IsPrefix
    <3>. QED  BY Zenon, <1>1, <2>2, <3>3
  <2>. QED  BY <1>1, <2>1, <2>2
<1>3. Is(a, Nested(a, v, l), b, g, Len(g))
  <2>1. PICK h \in 0 .. 3 : Highest(h, Asks(b, f, Len(f))) /\ v = Enc(a, h)
    BY DEF Is
  <2>2. Asks(b, g, Len(g)) = Asks(b, f, Len(f)) \cup {l}
    BY SMTT(60), <1>1 DEF Asks
  <2>. DEFINE top == IF l > h THEN l ELSE h
  <2>3. Highest(top, Asks(b, g, Len(g))) /\ top \in 0 .. 3
    <3>1. \A i \in 1 .. Len(f) : f[i].asked \in 1 .. 3
      <4>1. \A i \in 1 .. Len(f) : f[i] \in Frame
        OBVIOUS
      <4>. QED  BY <4>1 DEF Frame
    <3>2. Asks(b, f, Len(f)) \subseteq 0 .. 3
      BY <3>1 DEF Asks
    <3>. QED  BY <2>1, <2>2, <3>2 DEF Highest
  <2>4. Nested(a, v, l) = Enc(a, top)
    BY <2>1 DEF Nested, Enc
  <2>. QED  BY Zenon, <2>3, <2>4 DEF Is
<1>. QED  BY Zenon, <1>1, <1>2, <1>3 DEF Sound, g, e

LEMMA SoundPop ==
  ASSUME NEW a, NEW b, NEW f \in Seq(Frame), f # <<>>, Sound(a, b, f)
  PROVE  LET g == SubSeq(f, 1, Len(f) - 1)
         IN  /\ g \in Seq(Frame) /\ Len(g) = Len(f) - 1
             /\ Sound(a, b, g) /\ Is(a, f[Len(f)].old, b, g, Len(g))
             /\ f[Len(f)] \in Frame
<1>. DEFINE g == SubSeq(f, 1, Len(f) - 1)
<1>1. /\ Len(f) \in Nat /\ Len(f) > 0 /\ f[Len(f)] \in Frame
      /\ g \in Seq(Frame) /\ Len(g) = Len(f) - 1
      /\ \A i \in 1 .. Len(f) - 1 : g[i] = f[i]
  <2>1. Len(f) \in Nat /\ Len(f) > 0 /\ \A i \in 1 .. Len(f) : f[i] \in Frame
    <3>1. Len(f) \in Nat \ {0}
      BY EmptySeq, Zenon
    <3>. QED  BY <3>1
  <2>2. g \in Seq(Frame) /\ Len(g) = Len(f) - 1
    <3>1. ASSUME NEW n \in Nat, n = Len(f) - 1
          PROVE  SubSeq(f, 1, n) \in Seq(Frame) /\ Len(SubSeq(f, 1, n)) = n
      BY <2>1, <3>1
    <3>2. Len(f) - 1 \in Nat
      BY <2>1
    <3>. QED  BY <3>1, <3>2, Zenon
  <2>3. \A i \in 1 .. Len(f) - 1 : g[i] = f[i]
    BY <2>1
  <2>. QED  BY <2>1, <2>2, <2>3
<1>. HIDE DEF g
<1>2. ASSUME NEW i \in 1 .. Len(f)  PROVE Is(a, f[i].old, b, g, i - 1)
  <2>1. Is(a, f[i].old, b, f, i - 1) /\ i - 1 \in Nat
    BY <1>1 DEF Sound
  <2>2. \A j \in 1 .. (i - 1) : f[j] = g[j]
    BY <1>1
  <2>. QED  BY <2>1, <2>2, IsPrefix
<1>3. Is(a, f[Len(f)].old, b, g, Len(g))
  BY <1>1, <1>2
<1>4. Sound(a, b, g)
  <2>. SUFFICES ASSUME NEW i \in 1 .. Len(g)  PROVE Is(a, g[i].old, b, g, i - 1)
    BY DEF Sound
  <2>1. i \in 1 .. Len(f) /\ g[i] = f[i]
    BY <1>1
  <2>. QED  BY <1>2, <2>1
<1>. QED  BY <1>1, <1>3, <1>4 DEF g

LevelIs(t, v) == Is(arch, v, Base(t), frames[t], Len(frames[t]))

(* The code's half: saved values are sound, and the level is the running   *)
(* task's own, or IPL_HIGH while a switch is under way.                    *)
Stacks ==
  /\ ipl \in 0 .. 3
  /\ running \in Tasks /\ mode \in [Tasks -> Modes] /\ frames \in [Tasks -> Seq(Frame)]
  /\ \A t \in Tasks : Sound(arch, Base(t), frames[t])
  /\ \A t \in Tasks : mode[t] = "fresh" => t # Kernel /\ frames[t] = <<>>
  /\ \A t \in Tasks : mode[t] \in {"leaving", "away", "back"} =>
       frames[t] # <<>> /\ Top(t).asked = IPL_HIGH
  /\ stage # Up => running = Kernel /\ mode[Kernel] = "run" /\ frames[Kernel] = <<>>
  /\ mode[running] \in {"run", "leaving", "back"}
  /\ stage = Up =>
       IF mode[running] = "back" THEN Spl = Enc(arch, IPL_HIGH) ELSE LevelIs(running, Spl)

(* The hardware's half: what is dispatched was not masked.                 *)
Masks ==
  /\ x86 /\ stage = Up => imr = apply_mask(enabled, ipl)
  /\ x86 /\ stage = Up => \A i \in todo : i \in in_service => i \notin ipl_to_mask[ipl]
  /\ arm /\ todo # {} => intr

LEMMA StacksInit == Init => Stacks /\ Masks
<1>. SUFFICES ASSUME Init  PROVE Stacks /\ Masks
  OBVIOUS
<1>1. \A t \in Tasks : Sound(arch, Base(t), frames[t])
  BY DEF Init, Sound
<1>2. Stacks
  BY <1>1, InterruptsAssumption DEF Init, Stacks, Up, IPL_HIGH, Modes
<1>3. Masks
  BY DEF Init, Masks, Up
<1>. QED  BY <1>2, <1>3

(* splx and splraise set the level they say.                               *)
LEMMA SplxSets ==
  ASSUME arch \in {"x86", "arm"}, UNCHANGED <<arch, enabled>>, ipl \in 0 .. 3,
         NEW v \in 0 .. 3, arm => v \in {0, 1}, splx(v)
  PROVE  Spl' = v /\ ipl' \in 0 .. 3 /\ (x86 => imr' = apply_mask(enabled, ipl)')
BY Zenon DEF splx, Spl, x86, arm, apply_mask, ipl_to_mask, Irqs, Cascade

LEMMA SplraiseSets ==
  ASSUME arch \in {"x86", "arm"}, UNCHANGED <<arch, enabled>>, ipl \in 0 .. 3,
         NEW l \in 1 .. 3, splraise(l)
  PROVE  /\ Spl' = Nested(arch, Spl, l) /\ ipl' \in 0 .. 3
         /\ x86 /\ imr = apply_mask(enabled, ipl) => imr' = apply_mask(enabled, ipl)'
<1>1. Raised(l) = Nested(arch, Spl, l) /\ Raised(l) \in 0 .. 3 /\ (arm => Raised(l) = 1)
  BY DEF Raised, Nested, Spl, x86, arm
<1>2. CASE Raised(l) = Spl
  BY Zenon, <1>1, <1>2 DEF splraise, Spl, x86, apply_mask, ipl_to_mask, Irqs, Cascade
<1>3. CASE Raised(l) # Spl
  <2>1. splx(Raised(l))
    BY <1>3 DEF splraise
  <2>. QED  BY <1>1, <2>1, SplxSets
<1>. QED  BY <1>2, <1>3

LEMMA SplType == ASSUME arch \in {"x86", "arm"}, ipl \in 0 .. 3  PROVE Spl \in 0 .. 3
BY DEF Spl

(* prev = splraise(l), by enter and by task_yield.                         *)
LEMMA StacksPush ==
  ASSUME Machine, Stacks, stage = Up, UNCHANGED <<arch, enabled, stage, running>>,
         NEW l \in 1 .. 3, NEW t \in Tasks, running = t, mode[t] = "run",
         frames' = Pushed(t, l), splraise(l),
         NEW m \in {"run", "leaving"}, mode' = [mode EXCEPT ![t] = m],
         m = "leaving" => l = IPL_HIGH
  PROVE  Stacks'
<1>. DEFINE f == frames[t]
            g == Append(f, [old |-> Spl, asked |-> l])
<1>1. /\ arch \in {"x86", "arm"} /\ Spl \in 0 .. 3 /\ Base(t) \in 0 .. 3
      /\ f \in Seq(Frame) /\ Sound(arch, Base(t), f) /\ Is(arch, Spl, Base(t), f, Len(f))
  BY SplType DEF Machine, Stacks, LevelIs, Base, IPL_NONE, IPL_HIGH
<1>2. /\ g \in Seq(Frame) /\ Len(g) = Len(f) + 1 /\ g[Len(g)].asked = l
      /\ Sound(arch, Base(t), g)
      /\ Is(arch, Nested(arch, Spl, l), Base(t), g, Len(g))
  BY Zenon, <1>1, SoundPush
<1>3. Len(f) \in Nat /\ Len(<<>>) = 0
  BY <1>1
<1>4. g # <<>>
  <2>1. Len(f) + 1 # 0
    BY <1>3
  <2>. QED  BY <1>2, <1>3, <2>1, Zenon
<1>5. frames' = [frames EXCEPT ![t] = g]
  BY DEF Pushed
<1>6. Spl' = Nested(arch, Spl, l) /\ ipl' \in 0 .. 3
  BY Zenon, <1>1, SplraiseSets DEF Stacks
<1>. HIDE DEF g
<1>7. /\ frames' \in [Tasks -> Seq(Frame)] /\ frames'[t] = g
      /\ \A u \in Tasks \ {t} : frames'[u] = frames[u]
  BY Zenon, <1>2, <1>5 DEF Stacks
<1>8. /\ mode' \in [Tasks -> Modes] /\ mode'[t] = m
      /\ \A u \in Tasks \ {t} : mode'[u] = mode[u]
  BY DEF Stacks, Modes
<1>9. \A u \in Tasks : Sound(arch', Base(u), frames'[u])
  BY Zenon, <1>2, <1>7 DEF Stacks
<1>10. LevelIs(running, Spl)'
  BY Zenon, <1>2, <1>6, <1>7 DEF LevelIs, Base
<1>11. \A u \in Tasks : mode'[u] = "fresh" => u # Kernel /\ frames'[u] = <<>>
  BY ZenonT(60), <1>7, <1>8 DEF Stacks
<1>12. \A u \in Tasks : mode'[u] \in {"leaving", "away", "back"} =>
         frames'[u] # <<>> /\ Top(u)'.asked = IPL_HIGH
  <2>1. Top(t)' = g[Len(g)] /\ (m = "leaving" => Top(t)'.asked = IPL_HIGH)
    BY Zenon, <1>2, <1>7 DEF Top
  <2>2. ASSUME NEW u \in Tasks \ {t}, mode'[u] \in {"leaving", "away", "back"}
        PROVE  frames'[u] # <<>> /\ Top(u)'.asked = IPL_HIGH
    <3>1. frames[u] # <<>> /\ Top(u).asked = IPL_HIGH
      BY Zenon, <1>8, <2>2 DEF Stacks
    <3>2. frames'[u] = frames[u] /\ Top(u)' = Top(u)
      BY Zenon, <1>7 DEF Top
    <3>. QED  BY Zenon, <3>1, <3>2
  <2>. QED  BY Zenon, <1>4, <1>7, <1>8, <2>1, <2>2
<1>. QED
  BY Zenon, <1>6, <1>7, <1>8, <1>9, <1>10, <1>11, <1>12 DEF Stacks, Base, IPL_HIGH, IPL_NONE

(* splx(prev), by leave and by the return from task_yield.                 *)
LEMMA StacksPop ==
  ASSUME Machine, Stacks, stage = Up, UNCHANGED <<arch, enabled, stage, running>>,
         NEW t \in Tasks, running = t, frames[t] # <<>>,
         frames' = Popped(t), splx(Top(t).old), mode' = [mode EXCEPT ![t] = "run"]
  PROVE  Stacks'
<1>. DEFINE f == frames[t]
            g == SubSeq(f, 1, Len(f) - 1)
            old == f[Len(f)].old
<1>1. arch \in {"x86", "arm"} /\ f \in Seq(Frame) /\ Sound(arch, Base(t), f)
  BY Zenon DEF Machine, Stacks
<1>2. /\ g \in Seq(Frame) /\ Sound(arch, Base(t), g)
      /\ Is(arch, old, Base(t), g, Len(g)) /\ f[Len(f)] \in Frame
  BY Zenon, <1>1, SoundPop
<1>3. old \in 0 .. 3 /\ (arm => old \in {0, 1})
  BY Zenon, <1>2 DEF Frame, Is, Enc, arm
<1>4. Spl' = old /\ ipl' \in 0 .. 3
  BY Zenon, <1>1, <1>3, SplxSets DEF Stacks, Top
<1>5. frames' = [frames EXCEPT ![t] = g]
  BY DEF Popped
<1>. HIDE DEF g
<1>6. /\ frames' \in [Tasks -> Seq(Frame)] /\ frames'[t] = g
      /\ \A u \in Tasks \ {t} : frames'[u] = frames[u]
  BY Zenon, <1>2, <1>5 DEF Stacks
<1>7. /\ mode' \in [Tasks -> Modes] /\ mode'[t] = "run"
      /\ \A u \in Tasks \ {t} : mode'[u] = mode[u]
  BY Zenon DEF Stacks, Modes
<1>8. \A u \in Tasks : Sound(arch', Base(u), frames'[u])
  BY Zenon, <1>2, <1>6 DEF Stacks
<1>9. LevelIs(running, Spl)'
  BY Zenon, <1>2, <1>4, <1>6 DEF LevelIs, Base
<1>10. \A u \in Tasks : mode'[u] = "fresh" => u # Kernel /\ frames'[u] = <<>>
  BY Zenon, <1>6, <1>7 DEF Stacks
<1>11. \A u \in Tasks : mode'[u] \in {"leaving", "away", "back"} =>
         frames'[u] # <<>> /\ Top(u)'.asked = IPL_HIGH
  BY ZenonT(60), <1>6, <1>7 DEF Stacks, Top
<1>. QED
  BY Zenon, <1>4, <1>6, <1>7, <1>8, <1>9, <1>10, <1>11 DEF Stacks, Base, IPL_HIGH, IPL_NONE

(* The switch keeps IPL_HIGH, which is where a fresh task starts.          *)
LEMMA StacksSwitch ==
  ASSUME Machine, Stacks, NEW t \in Tasks, NEW n \in Tasks, switch(t, n)
  PROVE  Stacks'
<1>1. /\ stage = Up /\ running = t /\ mode[t] = "leaving" /\ running' = n /\ n # t
      /\ mode[n] \in {"fresh", "away"} /\ UNCHANGED <<arch, stage, intr, ipl, frames>>
      /\ mode' = [mode EXCEPT ![t] = "away",
                              ![n] = IF @ = "fresh" THEN "run" ELSE "back"]
  BY DEF switch, Runs, Rest
<1>2. Spl = Enc(arch, IPL_HIGH)
  <2>1. PICK h \in 0 .. 3 : /\ Highest(h, Asks(Base(t), frames[t], Len(frames[t])))
                            /\ Spl = Enc(arch, h)
    BY Zenon, <1>1 DEF Stacks, LevelIs, Is
  <2>2. frames[t] \in Seq(Frame) /\ frames[t] # <<>>
    BY Zenon, <1>1 DEF Stacks
  <2>3. Len(frames[t]) \in 1 .. Len(frames[t])
    BY <2>2, EmptySeq
  <2>4. 3 \in Asks(Base(t), frames[t], Len(frames[t]))
    BY Zenon, <1>1, <2>3 DEF Stacks, Top, Asks, IPL_HIGH
  <2>. QED  BY <2>1, <2>4 DEF Highest, IPL_HIGH
<1>3. Spl' = Spl
  BY <1>1 DEF Spl, x86
<1>4. /\ mode' \in [Tasks -> Modes] /\ mode'[t] = "away"
      /\ mode'[n] = IF mode[n] = "fresh" THEN "run" ELSE "back"
      /\ \A u \in Tasks \ {t, n} : mode'[u] = mode[u]
  BY Zenon, <1>1 DEF Stacks, Modes
<1>5. mode[n] = "fresh" => LevelIs(n, Enc(arch, IPL_HIGH))
  <2>. SUFFICES ASSUME mode[n] = "fresh"  PROVE LevelIs(n, Enc(arch, IPL_HIGH))
    OBVIOUS
  <2>1. Base(n) = 3 /\ frames[n] = <<>>
    BY Zenon DEF Stacks, Base, IPL_HIGH
  <2>2. Asks(Base(n), frames[n], Len(frames[n])) = {3}
    <3>1. 1 .. Len(<<>>) = {}
      OBVIOUS
    <3>. QED  BY <2>1, <3>1, Zenon DEF Asks
  <2>3. Highest(3, {3}) /\ 3 \in 0 .. 3
    BY DEF Highest
  <2>. QED  BY <2>2, <2>3, Zenon DEF LevelIs, Is, IPL_HIGH
<1>6. \A u \in Tasks : Sound(arch', Base(u), frames'[u])
  BY Zenon, <1>1 DEF Stacks
<1>7. stage' = Up =>
        IF mode'[running'] = "back" THEN Spl' = Enc(arch', IPL_HIGH)
        ELSE LevelIs(running, Spl)'
  BY Zenon, <1>1, <1>2, <1>3, <1>4, <1>5 DEF LevelIs, Base
<1>8. \A u \in Tasks : mode'[u] = "fresh" => u # Kernel /\ frames'[u] = <<>>
  BY Zenon, <1>1, <1>4 DEF Stacks
<1>9. \A u \in Tasks : mode'[u] \in {"leaving", "away", "back"} =>
        frames'[u] # <<>> /\ Top(u)'.asked = IPL_HIGH
  <2>1. \A u \in Tasks : mode'[u] \in {"leaving", "away", "back"} =>
          mode[u] \in {"leaving", "away", "back"}
    BY Zenon, <1>1, <1>4
  <2>2. \A u \in Tasks : Top(u)' = Top(u)
    BY <1>1 DEF Top
  <2>. QED  BY Zenon, <1>1, <2>1, <2>2 DEF Stacks
<1>10. mode'[running'] \in {"run", "leaving", "back"}
  BY Zenon, <1>1, <1>4
<1>. QED
  BY Zenon, <1>1, <1>4, <1>6, <1>7, <1>8, <1>9, <1>10 DEF Stacks, Base

LEMMA StacksStep == Machine /\ Stacks /\ [Next]_vars => Stacks'
<1>. SUFFICES ASSUME Machine, Stacks, [Next]_vars  PROVE Stacks'
  OBVIOUS
<1>1. ASSUME UNCHANGED <<arch, stage, ipl, running, mode, frames>>, Spl' = Spl
      PROVE  Stacks'
  BY Zenon, <1>1 DEF Stacks, LevelIs, Top, Base, IPL_HIGH, IPL_NONE
<1>2. CASE Hardware \/ Dispatch \/ UNCHANGED vars
  <2>1. UNCHANGED <<arch, stage, intr, ipl, running, mode, frames>>
    BY Zenon, <1>2 DEF Hardware, expire, request, x86_accept, x86_spurious, arm_accept, Dispatch,
                do_irq, arm_handle, timer_isr_count, timer_isr_clear, vars, code
  <2>. QED  BY <1>1, <2>1 DEF Spl, x86
<1>3. CASE setup
  <2>1. CASE pic_remap \/ pit_init \/ unmask_timer \/ sti \/ vic_init \/ arm_timer_init
    <3>1. UNCHANGED <<arch, ipl, running, mode, frames>> /\ stage # Up /\ stage' # Up
      BY <2>1, SMTT(40) DEF pic_remap, pit_init, unmask_timer, sti, vic_init, arm_timer_init, Step,
                  Later, pic, code, Up
    <3>. QED  BY Zenon, <3>1 DEF Stacks, Top, Base, IPL_HIGH, IPL_NONE
  <2>2. CASE lower_ipl \/ clear_cpsr_i
    <3>1. UNCHANGED <<arch, running, mode, frames>> /\ stage # Up /\ stage' = Up
      BY <2>2 DEF lower_ipl, clear_cpsr_i, Later, code, Up
    <3>2. Spl' = 0 /\ ipl' \in 0 .. 3
      BY <2>2, SMTT(40) DEF lower_ipl, spl0, splx, clear_cpsr_i, Later, Spl, x86, arm, IPL_NONE, Stacks
    <3>3. running = Kernel /\ mode[Kernel] = "run" /\ frames[Kernel] = <<>>
      BY <3>1 DEF Stacks
    <3>4. Asks(Base(Kernel), frames[Kernel], Len(frames[Kernel])) = {0}
      BY <3>3 DEF Asks, Base, IPL_NONE
    <3>5. LevelIs(Kernel, 0)
      BY <3>4 DEF LevelIs, Is, Highest, Enc
    <3>6. LevelIs(running, Spl)'
      BY Zenon, <3>1, <3>2, <3>3, <3>5 DEF LevelIs, Base
    <3>. QED  BY Zenon, <3>1, <3>2, <3>3, <3>6 DEF Stacks, Top, Base, IPL_HIGH, IPL_NONE
  <2>. QED  BY <1>3, <2>1, <2>2 DEF setup
<1>4. CASE cpu_idle
  <2>1. UNCHANGED <<arch, stage, ipl, running, mode, frames>> /\ x86
    BY <1>4 DEF cpu_idle, Rest, code
  <2>. QED  BY <1>1, <2>1 DEF Spl, x86
<1>5. ASSUME NEW t \in Tasks, NEW l \in Levels, enter(t, l)  PROVE Stacks'
  <2>1. l \in 1 .. 3
    BY InterruptsAssumption
  <2>2. mode' = [mode EXCEPT ![t] = "run"]
    BY <1>5 DEF enter, Calls, Runs, Stacks
  <2>. QED  BY Zenon, <1>5, <2>1, <2>2, StacksPush DEF enter, Calls, Runs, Rest
<1>6. ASSUME NEW t \in Tasks, task_yield(t)  PROVE Stacks'
  <2>1. IPL_HIGH \in 1 .. 3
    BY DEF IPL_HIGH
  <2>. QED  BY Zenon, <1>6, <2>1, StacksPush DEF task_yield, Calls, Runs, Rest
<1>7. ASSUME NEW t \in Tasks, leave(t)  PROVE Stacks'
  <2>1. mode' = [mode EXCEPT ![t] = "run"]
    BY Zenon, <1>7 DEF leave, Calls, Runs, Stacks
  <2>. QED  BY Zenon, <1>7, <2>1, StacksPop DEF leave, Calls, Runs, Rest
<1>8. ASSUME NEW t \in Tasks, return(t)  PROVE Stacks'
  <2>1. frames[t] # <<>>
    BY Zenon, <1>8 DEF return, Runs, Stacks
  <2>. QED  BY Zenon, <1>8, <2>1, StacksPop DEF return, Runs, Rest
<1>9. ASSUME NEW t \in Tasks, NEW d \in Devices,
             irq_register_handler(t, d) \/ irq_unregister_handler(t, d)
      PROVE  Stacks'
  <2>1. UNCHANGED <<arch, stage, intr, ipl, running, mode, frames>>
    BY Zenon, <1>9 DEF irq_register_handler, irq_unregister_handler, code
  <2>. QED  BY Zenon, <1>1, <2>1 DEF Spl, x86
<1>. QED
  BY <1>2, <1>3, <1>4, <1>5, <1>6, <1>7, <1>8, <1>9, StacksSwitch DEF Next, Code

LEMMA MasksStep == Machine /\ Stacks /\ Masks /\ [Next]_vars => Masks'
<1>. SUFFICES ASSUME Machine, Stacks, Masks, [Next]_vars  PROVE Masks'
  OBVIOUS
<1>. USE DEF x86, arm
<1>1. ASSUME UNCHANGED <<arch, stage, ipl, enabled, imr, in_service, intr>>, todo' \subseteq todo
      PROVE  Masks'
  BY Zenon, <1>1 DEF Masks, apply_mask, ipl_to_mask, Irqs, Cascade
<1>2. ASSUME UNCHANGED arch, todo' = {},
             x86 /\ stage' = Up => imr' = apply_mask(enabled, ipl)'
      PROVE  Masks'
  BY Zenon, <1>2 DEF Masks
<1>3. CASE Hardware
  <2>1. CASE expire \/ (\E d \in Devices : request(d))
    BY Zenon, <1>1, <2>1 DEF expire, request, pic
  <2>2. ASSUME NEW i \in Irqs, x86_accept(i)  PROVE Masks'
    <3>1. stage = Up => i \notin ipl_to_mask[ipl]
      BY Zenon, <2>2 DEF x86_accept, Offered, Masks, apply_mask
    <3>. QED
      BY Zenon, <2>2, <3>1 DEF x86_accept, Masks, apply_mask, ipl_to_mask, Irqs, Cascade
  <2>3. ASSUME NEW i \in {7, 15}, x86_spurious(i)  PROVE Masks'
    <3>1. todo' = {i} /\ i \notin in_service'
      BY <2>3 DEF x86_spurious, Accepting, Machine, Serving, Cascade
    <3>. QED
      BY Zenon, <2>3, <3>1 DEF x86_spurious, Masks, apply_mask, ipl_to_mask, Irqs, Cascade
  <2>4. CASE arm_accept
    BY Zenon, <2>4 DEF arm_accept, Accepting, Masks
  <2>. QED  BY Zenon, <1>3, <2>1, <2>2, <2>3, <2>4 DEF Hardware
<1>4. CASE Dispatch
  <2>1. ASSUME NEW i \in 0 .. 15, do_irq(i)  PROVE Masks'
    <3>1. x86 /\ stage' = Up => imr' = apply_mask(enabled, ipl)'
      BY Zenon, <2>1 DEF do_irq, Masks, apply_mask, ipl_to_mask, Irqs, Cascade
    <3>. QED  BY Zenon, <1>2, <2>1, <3>1 DEF do_irq
  <2>2. ASSUME NEW i \in 0 .. 15, arm_handle(i)  PROVE Masks'
    BY Zenon, <1>1, <2>2 DEF arm_handle, pic
  <2>3. CASE timer_isr_count \/ timer_isr_clear
    BY Zenon, <1>1, <2>3 DEF timer_isr_count, timer_isr_clear, pic
  <2>. QED  BY Zenon, <1>4, <2>1, <2>2, <2>3 DEF Dispatch
<1>5. CASE setup
  <2>1. CASE pic_remap \/ pit_init \/ unmask_timer \/ sti \/ vic_init \/ arm_timer_init
    <3>1. /\ arch' = arch /\ todo' = todo
          /\ \/ x86 /\ \E n \in {0, 1, 2, 3} : stage = n /\ stage' = n + 1
             \/ arm /\ \E n \in {0, 1} : stage = n /\ stage' = n + 1
      <4>1. CASE pic_remap
        BY Zenon, <4>1 DEF pic_remap, Step, Later
      <4>2. CASE pit_init
        BY Zenon, <4>2 DEF pit_init, Step, Later
      <4>3. CASE unmask_timer
        BY Zenon, <4>3 DEF unmask_timer, Step, Later
      <4>4. CASE sti
        BY Zenon, <4>4 DEF sti, Step, Later
      <4>5. CASE vic_init
        BY Zenon, <4>5 DEF vic_init, Step, Later
      <4>6. CASE arm_timer_init
        BY Zenon, <4>6 DEF arm_timer_init, Step, Later
      <4>. QED  BY Zenon, <2>1, <4>1, <4>2, <4>3, <4>4, <4>5, <4>6
    <3>2. todo = {} /\ stage' # Up
      BY <3>1 DEF Machine, Up
    <3>. QED  BY Zenon, <1>2, <3>1, <3>2
  <2>2. CASE lower_ipl
    <3>1. arch' = arch /\ todo' = {} /\ imr' = apply_mask(enabled, ipl)'
      BY Zenon, <2>2 DEF lower_ipl, spl0, splx, Later, apply_mask, ipl_to_mask, Irqs, Cascade
    <3>. QED  BY <1>2, <3>1
  <2>3. CASE clear_cpsr_i
    <3>1. arch' = arch /\ todo' = {} /\ arm
      BY <2>3 DEF Machine, clear_cpsr_i, Later
    <3>. QED  BY <1>2, <3>1
  <2>. QED  BY <1>5, <2>1, <2>2, <2>3 DEF setup
<1>6. CASE cpu_idle
  <2>1. arch' = arch /\ todo' = {} /\ UNCHANGED <<stage, ipl, enabled, imr>>
    BY Zenon, <1>6 DEF cpu_idle, Calls, Runs, Rest
  <2>2. x86 /\ stage' = Up => imr' = apply_mask(enabled, ipl)'
    BY Zenon, <2>1 DEF Masks, apply_mask, ipl_to_mask, Irqs, Cascade
  <2>. QED  BY <1>2, <2>1, <2>2
<1>7. ASSUME NEW t \in Tasks, Code(t)  PROVE Masks'
  <2>1. arch' = arch /\ todo' = {} /\ stage = Up
    BY Zenon, <1>7 DEF Code, enter, leave, task_yield, return, switch, irq_register_handler,
                irq_unregister_handler, Calls, Runs, Rest
  <2>2. arch \in {"x86", "arm"} /\ ipl \in 0 .. 3
    BY Zenon DEF Machine, Stacks
  <2>3. SUFFICES ASSUME x86  PROVE imr' = apply_mask(enabled, ipl)'
    BY Zenon, <1>2, <2>1
  <2>4. imr = apply_mask(enabled, ipl)
    BY Zenon, <2>1, <2>3 DEF Masks
  <2>5. ASSUME NEW l \in 1 .. 3, splraise(l), enabled' = enabled
        PROVE  imr' = apply_mask(enabled, ipl)'
    BY Zenon, <2>1, <2>2, <2>3, <2>4, <2>5, SplraiseSets
  <2>6. CASE \E l \in Levels : enter(t, l)
    BY Zenon, <2>5, <2>6, InterruptsAssumption DEF enter, Rest
  <2>7. CASE task_yield(t)
    <3>1. IPL_HIGH \in 1 .. 3
      BY DEF IPL_HIGH
    <3>. QED  BY Zenon, <2>5, <2>7, <3>1 DEF task_yield, Rest
  <2>8. CASE leave(t) \/ return(t)
    <3>1. splx(Top(t).old) /\ enabled' = enabled
      BY Zenon, <2>8 DEF leave, return, Rest
    <3>. QED  BY Zenon, <2>3, <3>1 DEF splx, apply_mask, ipl_to_mask, Irqs, Cascade
  <2>9. CASE \E n \in Tasks : switch(t, n)
    BY Zenon, <2>4, <2>9 DEF switch, Rest, apply_mask, ipl_to_mask, Irqs, Cascade
  <2>10. CASE \E d \in Devices : irq_register_handler(t, d) \/ irq_unregister_handler(t, d)
    BY Zenon, <2>3, <2>4, <2>10 DEF irq_register_handler, irq_unregister_handler, pic_unmask,
                             apply_mask, ipl_to_mask, Irqs, Cascade
  <2>. QED  BY Zenon, <1>7, <2>6, <2>7, <2>8, <2>9, <2>10 DEF Code
<1>8. CASE UNCHANGED vars
  BY Zenon, <1>1, <1>8 DEF vars, pic
<1>. QED
  BY Zenon, <1>3, <1>4, <1>5, <1>6, <1>7, <1>8 DEF Next

(* The running task's level is the highest its own sections asked for,     *)
(* whatever nesting and whatever task_yield did in between (pic.c, vic.c,  *)
(* task.c), and no handler runs that this level masks.                     *)
THEOREM LevelIsKept == Spec => []LevelKept
<1>1. Machine /\ Stacks /\ Masks => LevelKept
  <2>. SUFFICES ASSUME Machine, Stacks, Masks, stage = Up, mode[running] \in {"run", "leaving"}
                PROVE  LevelKept
    BY Zenon DEF LevelKept
  <2>. DEFINE f == frames[running]
              A == Asked(running)
  <2>1. f \in Seq(Frame) /\ Base(running) \in 0 .. 3
    BY DEF Stacks, Base, IPL_HIGH, IPL_NONE
  <2>2. DOMAIN f = 1 .. Len(f) /\ \A i \in 1 .. Len(f) : f[i].asked \in 1 .. 3
    <3>1. DOMAIN f = 1 .. Len(f) /\ \A i \in 1 .. Len(f) : f[i] \in Frame
      BY <2>1, LenProperties, ElementOfSeq, Zenon
    <3>. QED  BY Zenon, <3>1 DEF Frame
  <2>3. A = Asks(Base(running), f, Len(f)) /\ A \subseteq 0 .. 3
    <3>1. A = {Base(running)} \cup {f[i].asked : i \in 1 .. Len(f)}
      BY <2>2, Zenon DEF Asked
    <3>2. A = Asks(Base(running), f, Len(f))
      BY <3>1, Zenon DEF Asks
    <3>3. 1 .. 3 \subseteq 0 .. 3
      OBVIOUS
    <3>4. A \subseteq 0 .. 3
      BY <2>1, <2>2, <3>1, <3>3, Zenon
    <3>. QED  BY <3>2, <3>4, Zenon
  <2>4. PICK l \in 0 .. 3 : Highest(l, A) /\ Spl = Enc(arch, l)
    BY Zenon, <2>3 DEF Stacks, LevelIs, Is
  <2>5. arch \in {"x86", "arm"}
    BY DEF Machine
  <2>6. ASSUME NEW i \in todo, NEW k \in A
        PROVE  IF x86 THEN i \in in_service => i \notin ipl_to_mask[k] ELSE k = IPL_NONE
    <3>1. k \in 0 .. 3 /\ k <= l
      BY Zenon, <2>3, <2>4 DEF Highest
    <3>2. CASE x86
      <4>1. ipl = l
        BY Zenon, <2>4, <3>2 DEF Spl, Enc, x86
      <4>2. i \in in_service => i \notin ipl_to_mask[l]
        BY Zenon, <3>2, <4>1 DEF Masks
      <4>3. ipl_to_mask[k] \subseteq ipl_to_mask[l]
        BY <3>1 DEF ipl_to_mask, IPL_TTY, IPL_CLOCK, IPL_HIGH
      <4>. QED  BY Zenon, <3>2, <4>2, <4>3
    <3>3. CASE arm
      <4>1. Spl = 0
        BY Zenon, <3>3 DEF Masks, Spl, x86, arm
      <4>. QED  BY <2>4, <3>1, <3>3, <4>1 DEF Enc, x86, arm, IPL_NONE
    <3>. QED  BY Zenon, <2>5, <3>2, <3>3 DEF x86, arm
  <2>7. l \in A /\ Spl = (IF x86 THEN l ELSE IF l = 0 THEN 0 ELSE 1)
    BY Zenon, <2>4 DEF Highest, Enc, x86
  <2>. QED  BY Zenon, <2>4, <2>6, <2>7 DEF LevelKept
<1>. QED
  BY <1>1, StacksInit, StacksStep, MasksStep, MachineInvariance, PTL DEF Spec
=============================================================================
