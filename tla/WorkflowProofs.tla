--------------------------- MODULE WorkflowProofs ---------------------------
(***************************************************************************)
(* Proofs about Workflow, for tables of any size, step tables of any       *)
(* length and any number of faults.  Every step concerns one slot, so the  *)
(* invariant is split into SlotInv(s), which mentions slot s alone, and    *)
(* what the recovery scan knows about all slots.                           *)
(***************************************************************************)
EXTENDS Workflow, TLAPS

(* The outcome of slot s: CommitComplete, Residue and WriteAhead for s.    *)
OutcomeInv(s) ==
  /\ status[s] = "COMMITTED" =>
       done_count[s] = step_count[s] /\ effects[s] = undoable[s]
  /\ status[s] = "ROLLED_BACK" => effects[s] \subseteq torn[s]
  /\ status[s] = "FAILED" =>
       /\ effects[s] \subseteq torn[s] \union failed[s]
       /\ failed[s] # {} /\ failed[s] \subseteq Recorded(s, "UNDO_FAIL")
  /\ \A j, k \in torn[s] : j = k
  /\ effects[s] \subseteq Recorded(s, "BEGIN")
  /\ status[s] = "RUNNING" =>
       Recorded(s, "STEP_OK") \intersect undoable[s] \subseteq effects[s]

SlotInv(s) ==
  PlaceInv(s) /\ CursorInv(s) /\ EffectInv(s) /\ JournalInv(s) /\ OutcomeInv(s)

ScansInv == ScanInv /\ RecoverySettles

(* Comparisons of a cursor with the steps below it.                        *)
LEMMA Cursors ==
  /\ \A d \in Nat : d \notin 0 .. d - 1
  /\ \A a \in Nat, b \in Nat, c \in Nat : a <= b /\ b <= c => a <= c
  /\ \A r \in Nat : \A j \in 0 .. r - 1 : j < r - 1 \/ j = r - 1
  /\ \A r \in Nat : \A j \in 0 .. r - 1 : ~(j > r - 1)
OBVIOUS

(* The two ways of writing the invariant agree.                            *)
LEMMA IInvBySlot ==
  IInv <=> TypeOK /\ (\A s \in Slots : SlotInv(s)) /\ ScansInv
BY DEF IInv, SlotInv, OutcomeInv, ScansInv, CommitComplete, Residue, WriteAhead

(* The invariant holds of the empty table.                                 *)
LEMMA InitIInv == Init => IInv
<1> SUFFICES ASSUME Init PROVE IInv
  OBVIOUS
<1>1. TypeOK
  BY SizeAssumption DEF Init, TypeOK, Slots, Steps, Status, Frames, NoFrame, At,
     Places, ScanPos, Idle, Events
<1>2. ASSUME NEW s \in Slots PROVE SlotInv(s)
  BY SizeAssumption DEF Init, SlotInv, PlaceInv, CursorInv, EffectInv, JournalInv,
     OutcomeInv, Recorded, NoFrame, At, Running, Live, Counted, Effect, Terminal
<1>3. ScansInv
  BY DEF Init, ScansInv, ScanInv, RecoverySettles
<1> QED
  BY <1>1, <1>2, <1>3, IInvBySlot

-----------------------------------------------------------------------------

(* A step of another slot leaves slot r as it is.                          *)
Same(r) ==
  /\ status'[r] = status[r] /\ step_count'[r] = step_count[r]
  /\ undoable'[r] = undoable[r] /\ done_count'[r] = done_count[r]
  /\ frame'[r] = frame[r] /\ effects'[r] = effects[r] /\ torn'[r] = torn[r]
  /\ failed'[r] = failed[r] /\ journal'[r] = journal[r]

(* SlotInv(r) depends on slot r alone.                                     *)
LEMMA SameSlot == ASSUME NEW r \in Slots, SlotInv(r), Same(r) PROVE SlotInv(r)'
BY DEF SlotInv, PlaceInv, CursorInv, EffectInv, JournalInv, OutcomeInv, Same,
   Recorded, Running, Live, Counted, Effect, Terminal

(* Every step keeps the types; the loop index and the cursor stay within   *)
(* the step table because SlotInv relates them.                            *)
LEMMA TypeStep == IInv /\ [Next]_vars => TypeOK'
<1> SUFFICES ASSUME TypeOK, \A s \in Slots : SlotInv(s), [Next]_vars PROVE TypeOK'
  BY IInvBySlot
<1>1. ASSUME NEW s \in Slots, NEW n \in 1 .. MaxSteps, NEW U \in SUBSET (0 .. n - 1),
             workflow_begin(s, n, U)
      PROVE  TypeOK'
  <2>1. n \in 0 .. MaxSteps /\ 0 \in 0 .. MaxSteps /\ U \in SUBSET Steps
    BY SizeAssumption DEF Steps
  <2>2. At("claimed", 0) \in Frames
    BY SizeAssumption DEF Frames, Places, At
  <2> QED
    BY <1>1, <2>1, <2>2 DEF workflow_begin, TypeOK, Status
<1>2. ASSUME NEW s \in Slots, RunBegin(s) PROVE TypeOK'
  <2>1. At("call", 0) \in Frames /\ 0 \in Steps
    BY SizeAssumption DEF Frames, Places, At, Steps
  <2> QED
    BY <1>2, <2>1 DEF RunBegin, EnterStep, Emit, TypeOK, Events, slotVars
<1>3. ASSUME NEW s \in Slots, StepReturnsOk(s) PROVE TypeOK'
  BY ZenonT(60), <1>3 DEF StepReturnsOk, Effect, TypeOK, Frames, Places, slotVars
<1>4. ASSUME NEW s \in Slots, RecordStep(s), SlotInv(s) PROVE TypeOK'
  <2>1. frame[s].i \in Steps
    BY <1>4, SizeAssumption DEF RecordStep, SlotInv, PlaceInv, CursorInv, Running,
       TypeOK, Steps, Frames
  <2> QED
    BY SMTT(40), <1>4, <2>1 DEF RecordStep, Emit, TypeOK, Frames, Places, Events, slotVars
<1>5. ASSUME NEW s \in Slots, CountStep(s), SlotInv(s) PROVE TypeOK'
  <2>1. /\ frame[s].i = done_count[s] /\ done_count[s] < step_count[s]
        /\ done_count[s] \in Nat /\ step_count[s] \in 0 .. MaxSteps
    BY <1>5, SizeAssumption DEF CountStep, SlotInv, PlaceInv, CursorInv, Running, TypeOK
  <2>2. done_count[s] + 1 \in 0 .. MaxSteps
    BY <2>1, SizeAssumption
  <2>3. CASE frame[s].i + 1 < step_count[s] /\ EnterStep(s, frame[s].i + 1) /\ UNCHANGED status
    <3>1. frame[s].i + 1 \in Steps /\ At("call", frame[s].i + 1) \in Frames
      BY <2>1, <2>2, <2>3, SizeAssumption DEF Steps, Frames, Places, At
    <3> QED
      BY <1>5, <2>2, <2>3, <3>1 DEF CountStep, EnterStep, Emit, TypeOK, Events
  <2>4. CASE /\ status' = [status EXCEPT ![s] = "COMMITTED"]
             /\ frame' = [frame EXCEPT ![s].at = "over"]
             /\ UNCHANGED journal
    BY SMTT(40), <1>5, <2>2, <2>4 DEF CountStep, TypeOK, Frames, Places, Status
  <2> QED
    BY <1>5, <2>3, <2>4 DEF CountStep
<1>6. ASSUME NEW s \in Slots, EnterUnwind(s)
      PROVE  /\ status' \in [Slots -> Status]
             /\ frame' \in [Slots -> Frames]
             /\ failed' \in [Slots -> SUBSET Steps]
  <2>1. [at |-> "unwind", i |-> 0, remaining |-> done_count[s]] \in Frames
    BY SizeAssumption DEF Frames, Places, TypeOK
  <2> QED
    BY <1>6, <2>1 DEF EnterUnwind, TypeOK, Status
<1>7. ASSUME NEW s \in Slots, StepFails(s), SlotInv(s) PROVE TypeOK'
  <2>1. frame[s].i \in Steps
    BY <1>7, SizeAssumption DEF StepFails, SlotInv, PlaceInv, CursorInv, Running,
       TypeOK, Steps, Frames
  <2>2. journal' \in [Slots -> SUBSET (Events \X Steps)]
    BY <1>7, <2>1 DEF StepFails, Emit, TypeOK, Events
  <2>3. EnterUnwind(s)
    BY <1>7 DEF StepFails
  <2> QED
    BY <1>6, <1>7, <2>2, <2>3 DEF StepFails, TypeOK
<1>8. ASSUME NEW s \in Slots, UndoSkip(s) PROVE TypeOK'
  <2>1. frame[s].remaining - 1 \in 0 .. MaxSteps
    BY <1>8, SizeAssumption DEF UndoSkip, TypeOK, Frames
  <2>2. frame' \in [Slots -> Frames]
    BY ZenonT(60), <1>8, <2>1 DEF UndoSkip, TypeOK, Frames
  <2> QED
    BY <1>8, <2>2 DEF UndoSkip, TypeOK, slotVars
<1>9. ASSUME NEW s \in Slots, NEW ok \in BOOLEAN, UndoReturns(s, ok) PROVE TypeOK'
  <2> DEFINE k == frame[s].remaining - 1
  <2>1. k \in Steps /\ k \in 0 .. MaxSteps
    BY <1>9, SizeAssumption DEF UndoReturns, TypeOK, Frames, Steps
  <2>2. frame' \in [Slots -> Frames]
    BY ZenonT(60), <1>9, <2>1 DEF UndoReturns, TypeOK, Frames
  <2>3. journal' \in [Slots -> SUBSET (Events \X Steps)]
    BY <1>9, <2>1 DEF UndoReturns, Emit, TypeOK, Events
  <2>4. effects' \in [Slots -> SUBSET Steps] /\ failed' \in [Slots -> SUBSET Steps]
    BY <1>9, <2>1 DEF UndoReturns, TypeOK
  <2> QED
    BY <1>9, <2>2, <2>3, <2>4 DEF UndoReturns, TypeOK, slotVars
<1>10. ASSUME NEW s \in Slots, UnwindEnds(s) PROVE TypeOK'
  BY SMTT(40), <1>10, SizeAssumption DEF UnwindEnds, TypeOK, Frames, Places, Status
<1>11. ASSUME NEW s \in Slots, Cleared(s)
       PROVE  /\ status' \in [Slots -> Status]
              /\ step_count' \in [Slots -> 0 .. MaxSteps]
              /\ undoable' \in [Slots -> SUBSET Steps]
              /\ done_count' \in [Slots -> 0 .. MaxSteps]
              /\ frame' \in [Slots -> Frames]
              /\ effects' \in [Slots -> SUBSET Steps]
              /\ torn' \in [Slots -> SUBSET Steps]
              /\ failed' \in [Slots -> SUBSET Steps]
              /\ journal' \in [Slots -> SUBSET (Events \X Steps)]
  <2>1. NoFrame \in Frames /\ 0 \in 0 .. MaxSteps
    BY SizeAssumption DEF NoFrame, At, Frames, Places
  <2> QED
    BY <1>11, <2>1 DEF Cleared, TypeOK, Status
<1>12. NoFrame \in Frames
  BY SizeAssumption DEF NoFrame, At, Frames, Places
<1>13. ASSUME NEW s \in Slots, Dispose(s) PROVE TypeOK'
  BY <1>11, <1>12, <1>13 DEF Dispose, workflow_release, KeepEvidence, TypeOK, slotVars
<1>14. ASSUME RecoverStep \/ RecoverBegin PROVE TypeOK'
  <2>1. \A s \in Slots : s + 1 \in ScanPos /\ 0 \in ScanPos /\ Idle \in ScanPos
    BY SizeAssumption DEF Slots, ScanPos, Idle
  <2>2. ASSUME NEW s \in Slots, RecoverSkip(s) PROVE TypeOK'
    BY <2>1, <2>2 DEF RecoverSkip, TypeOK, slotVars
  <2>3. ASSUME NEW s \in Slots, RecoverUnwind(s) PROVE TypeOK'
    BY <1>6, <2>3 DEF RecoverUnwind, TypeOK
  <2>4. ASSUME NEW s \in Slots, RecoverKeep(s) PROVE TypeOK'
    BY <1>12, <2>1, <2>4 DEF RecoverKeep, TypeOK, slotVars
  <2>5. ASSUME NEW s \in Slots, RecoverRelease(s) PROVE TypeOK'
    BY <1>11, <2>1, <2>5 DEF RecoverRelease, TypeOK
  <2>6. 0 \in ScanPos /\ Idle \in ScanPos
    BY SizeAssumption DEF ScanPos, Idle
  <2>7. CASE RecoverBegin
    BY <2>6, <2>7 DEF RecoverBegin, TypeOK, slotVars
  <2>8. CASE RecoverEnd
    BY <2>6, <2>8 DEF RecoverEnd, TypeOK, slotVars
  <2> QED
    BY <1>14, <2>2, <2>3, <2>4, <2>5, <2>7, <2>8 DEF RecoverStep
<1>15. ASSUME NEW s \in Slots, Fault(s) PROVE TypeOK'
  <2>1. effects' \in [Slots -> SUBSET Steps]
    BY <1>15 DEF Fault, TypeOK, Effect
  <2>2. torn' \in [Slots -> SUBSET Steps]
    BY ZenonT(60), <1>15, <2>1 DEF Fault, TypeOK
  <2>3. scan' \in ScanPos /\ faults' \in 0 .. MaxFaults
    BY <1>15, SizeAssumption DEF Fault, TypeOK, ScanPos, Idle
  <2>4. frame' \in [Slots -> Frames]
    BY <1>12, <1>15 DEF Fault, TypeOK
  <2> QED
    BY <1>15, <2>1, <2>2, <2>3, <2>4 DEF Fault, TypeOK, slotVars
<1>16. CASE UNCHANGED vars
  BY <1>16 DEF vars, TypeOK
<1> QED
  BY <1>1, <1>2, <1>3, <1>4, <1>5, <1>7, <1>8, <1>9, <1>10, <1>13, <1>14, <1>15,
     <1>16 DEF Next, Advance

-----------------------------------------------------------------------------
(* Each action keeps SlotInv of the slot it works on.                      *)

LEMMA workflow_beginSlot ==
  ASSUME TypeOK, TypeOK', NEW s \in Slots, SlotInv(s), NEW n \in 1 .. MaxSteps, NEW U \in SUBSET (0 .. n - 1), workflow_begin(s, n, U)
  PROVE  SlotInv(s)' /\ \A r \in Slots \ {s} : Same(r)
<1>a. status[s] = "IDLE" /\ effects' = effects /\ torn' = torn /\ failed' = failed /\ journal' = journal
  BY DEF workflow_begin
<1>b. /\ status'[s] = "RUNNING" /\ step_count'[s] = n /\ undoable'[s] = U /\ done_count'[s] = 0
      /\ frame'[s].at = "claimed" /\ frame'[s].i = 0
  BY DEF workflow_begin, TypeOK, At
<1>c. effects[s] = {} /\ torn[s] = {} /\ failed[s] = {} /\ journal[s] = {}
  BY <1>a DEF SlotInv, EffectInv, JournalInv
<1>d. n \in Nat /\ n > 0 /\ U \subseteq 0 .. n - 1
  BY SizeAssumption
<1>1. PlaceInv(s)'
  BY <1>b, <1>d DEF PlaceInv, Running
<1>2. CursorInv(s)'
  BY <1>b, <1>d DEF CursorInv
<1>3. EffectInv(s)'
  <2>1. Counted(s)' = {}
    BY <1>b, <1>d DEF Counted
  <2> QED
    BY Zenon, <1>a, <1>b, <1>c, <2>1 DEF EffectInv, Live
<1>4. JournalInv(s)'
  BY Zenon, <1>a, <1>b, <1>c DEF JournalInv
<1>5. OutcomeInv(s)'
  BY <1>a, <1>b, <1>c DEF OutcomeInv, Recorded
<1>6. \A r \in Slots \ {s} : Same(r)
  BY DEF workflow_begin, Same, TypeOK
<1> QED
  BY <1>1, <1>2, <1>3, <1>4, <1>5, <1>6 DEF SlotInv

LEMMA RunBeginSlot ==
  ASSUME TypeOK, TypeOK', NEW s \in Slots, SlotInv(s), RunBegin(s)
  PROVE  SlotInv(s)' /\ \A r \in Slots \ {s} : Same(r)
<1>a. /\ frame[s].at = "claimed" /\ UNCHANGED <<status, step_count, undoable, done_count>>
      /\ effects' = effects /\ torn' = torn /\ failed' = failed
  BY Zenon DEF RunBegin, slotVars
<1>b. /\ frame'[s].at = "call" /\ frame'[s].i = 0
      /\ journal'[s] = journal[s] \union {<<"BEGIN", 0>>}
  BY Zenon DEF RunBegin, EnterStep, Emit, TypeOK, At
<1>c. status[s] = "RUNNING"
  BY Zenon, <1>a DEF SlotInv, PlaceInv, Running
<1>1. PlaceInv(s)'
  BY <1>a, <1>b, <1>c DEF SlotInv, PlaceInv, Running
<1>2. CursorInv(s)'
  BY <1>a, <1>b DEF SlotInv, CursorInv, Running
<1>3. EffectInv(s)'
  <2>1. effects[s] = Counted(s) /\ torn[s] = {} /\ failed[s] = {}
    BY <1>a, <1>c DEF SlotInv, EffectInv
  <2>2. Counted(s)' = Counted(s)
    BY <1>a DEF Counted
  <2> QED
    BY Zenon, <1>a, <1>b, <1>c, <2>1, <2>2 DEF EffectInv, Live
<1>4. JournalInv(s)'
  BY <1>a, <1>b, <1>c DEF SlotInv, JournalInv, Recorded
<1>5. OutcomeInv(s)'
  <2>1. Recorded(s, "BEGIN") \subseteq Recorded(s, "BEGIN")'
    BY <1>b DEF Recorded
  <2>2. Recorded(s, "STEP_OK")' = Recorded(s, "STEP_OK")
    BY <1>b DEF Recorded
  <2> QED
    BY Zenon, <1>a, <1>c, <2>1, <2>2 DEF SlotInv, OutcomeInv
<1>6. \A r \in Slots \ {s} : Same(r)
  BY Zenon DEF RunBegin, EnterStep, Emit, slotVars, Same, TypeOK
<1> QED
  BY SMTT(40), <1>1, <1>2, <1>3, <1>4, <1>5, <1>6 DEF SlotInv

LEMMA StepReturnsOkSlot ==
  ASSUME TypeOK, TypeOK', NEW s \in Slots, SlotInv(s), StepReturnsOk(s)
  PROVE  SlotInv(s)' /\ \A r \in Slots \ {s} : Same(r)
<1> USE SizeAssumption DEF TypeOK, Frames, At, NoFrame, Running, Live, Terminal, Steps
<1>1. PlaceInv(s)'
  BY DEF StepReturnsOk, slotVars, SlotInv, PlaceInv, CursorInv
<1>2. CursorInv(s)'
  BY DEF StepReturnsOk, slotVars, SlotInv, PlaceInv, CursorInv
<1>3. EffectInv(s)'
  BY DEF StepReturnsOk, slotVars, SlotInv, PlaceInv, CursorInv, EffectInv, Counted, Effect
<1>4. JournalInv(s)'
  BY DEF StepReturnsOk, slotVars, SlotInv, PlaceInv, JournalInv, EffectInv, Recorded
<1>5. OutcomeInv(s)'
  BY ZenonT(60) DEF StepReturnsOk, slotVars, SlotInv, PlaceInv, CursorInv, EffectInv, JournalInv, OutcomeInv, Recorded, Counted, Effect
<1>6. \A r \in Slots \ {s} : Same(r)
  BY DEF StepReturnsOk, slotVars, Same
<1> QED
  BY <1>1, <1>2, <1>3, <1>4, <1>5, <1>6 DEF SlotInv

LEMMA RecordStepSlot ==
  ASSUME TypeOK, TypeOK', NEW s \in Slots, SlotInv(s), RecordStep(s)
  PROVE  SlotInv(s)' /\ \A r \in Slots \ {s} : Same(r)
<1> USE SizeAssumption DEF TypeOK, Frames, At, NoFrame, Running, Live, Terminal, Steps
<1>1. PlaceInv(s)'
  BY DEF RecordStep, Emit, slotVars, SlotInv, PlaceInv, CursorInv
<1>2. CursorInv(s)'
  BY DEF RecordStep, Emit, slotVars, SlotInv, PlaceInv, CursorInv
<1>3. EffectInv(s)'
  BY DEF RecordStep, Emit, slotVars, SlotInv, PlaceInv, CursorInv, EffectInv, Counted, Effect
<1>4. JournalInv(s)'
  BY DEF RecordStep, Emit, slotVars, SlotInv, PlaceInv, JournalInv, EffectInv, Recorded
<1>5. OutcomeInv(s)'
  BY DEF RecordStep, Emit, slotVars, SlotInv, PlaceInv, CursorInv, EffectInv, JournalInv, OutcomeInv, Recorded, Counted, Effect
<1>6. \A r \in Slots \ {s} : Same(r)
  BY DEF RecordStep, Emit, slotVars, Same
<1> QED
  BY <1>1, <1>2, <1>3, <1>4, <1>5, <1>6 DEF SlotInv

LEMMA StepFailsSlot ==
  ASSUME TypeOK, TypeOK', NEW s \in Slots, SlotInv(s), StepFails(s)
  PROVE  SlotInv(s)' /\ \A r \in Slots \ {s} : Same(r)
<1>a. /\ frame[s].at = "call" /\ UNCHANGED <<step_count, undoable, done_count, effects, torn>>
  BY DEF StepFails
<1>b. /\ status'[s] = "ROLLING_BACK" /\ failed'[s] = {}
      /\ frame'[s].at = "unwind" /\ frame'[s].remaining = done_count[s]
  BY Zenon DEF StepFails, EnterUnwind, TypeOK
<1>c. journal'[s] = journal[s] \union {<<"STEP_FAIL", frame[s].i>>}
  BY Zenon DEF StepFails, Emit, TypeOK
<1>d. status[s] = "RUNNING"
  BY <1>a DEF SlotInv, PlaceInv, Running
<1>e. done_count[s] \in Nat
  BY SizeAssumption DEF TypeOK
<1>1. PlaceInv(s)'
  BY <1>a, <1>b, <1>d DEF SlotInv, PlaceInv, Running
<1>2. CursorInv(s)'
  BY <1>a, <1>b, <1>e DEF SlotInv, CursorInv, Running
<1>3. EffectInv(s)'
  <2>1. effects[s] = Counted(s) /\ torn[s] = {}
    BY Zenon, <1>a DEF SlotInv, EffectInv
  <2>2. Counted(s)' = Counted(s) /\ Counted(s) \subseteq 0 .. done_count[s] - 1
    BY <1>a DEF Counted
  <2> QED
    BY Zenon, <1>a, <1>b, <2>1, <2>2 DEF EffectInv, Live
<1>4. JournalInv(s)'
  BY <1>b DEF JournalInv
<1>5. OutcomeInv(s)'
  <2>1. Recorded(s, "BEGIN") \subseteq Recorded(s, "BEGIN")'
    BY <1>c DEF Recorded
  <2> QED
    BY Zenon, <1>a, <1>b, <2>1 DEF SlotInv, OutcomeInv
<1>6. \A r \in Slots \ {s} : Same(r)
  BY ZenonT(60) DEF StepFails, EnterUnwind, Emit, Same, TypeOK
<1> QED
  BY <1>1, <1>2, <1>3, <1>4, <1>5, <1>6 DEF SlotInv

LEMMA UndoSkipSlot ==
  ASSUME TypeOK, TypeOK', NEW s \in Slots, SlotInv(s), UndoSkip(s)
  PROVE  SlotInv(s)' /\ \A r \in Slots \ {s} : Same(r)
<1> USE SizeAssumption DEF TypeOK, Frames, At, NoFrame, Running, Live, Terminal, Steps
<1>1. PlaceInv(s)'
  BY DEF UndoSkip, slotVars, SlotInv, PlaceInv, CursorInv
<1>2. CursorInv(s)'
  BY DEF UndoSkip, slotVars, SlotInv, PlaceInv, CursorInv
<1>3. EffectInv(s)'
  BY DEF UndoSkip, slotVars, SlotInv, PlaceInv, CursorInv, EffectInv, Counted, Effect
<1>4. JournalInv(s)'
  BY DEF UndoSkip, slotVars, SlotInv, PlaceInv, JournalInv, EffectInv, Recorded
<1>5. OutcomeInv(s)'
  BY DEF UndoSkip, slotVars, SlotInv, PlaceInv, CursorInv, EffectInv, JournalInv, OutcomeInv, Recorded, Counted, Effect
<1>6. \A r \in Slots \ {s} : Same(r)
  BY DEF UndoSkip, slotVars, Same
<1> QED
  BY <1>1, <1>2, <1>3, <1>4, <1>5, <1>6 DEF SlotInv

LEMMA UndoReturnsSlot ==
  ASSUME TypeOK, TypeOK', NEW s \in Slots, SlotInv(s), NEW ok \in BOOLEAN, UndoReturns(s, ok)
  PROVE  SlotInv(s)' /\ \A r \in Slots \ {s} : Same(r)
<1> USE SizeAssumption DEF TypeOK, Frames, At, NoFrame, Running, Live, Terminal, Steps
<1>1. PlaceInv(s)'
  BY DEF UndoReturns, Emit, slotVars, SlotInv, PlaceInv, CursorInv
<1>2. CursorInv(s)'
  BY DEF UndoReturns, Emit, slotVars, SlotInv, PlaceInv, CursorInv
<1>3. EffectInv(s)'
  BY SMTT(40) DEF UndoReturns, Emit, slotVars, SlotInv, PlaceInv, CursorInv, EffectInv, Counted, Effect
<1>4. JournalInv(s)'
  BY DEF UndoReturns, Emit, slotVars, SlotInv, PlaceInv, JournalInv, EffectInv, Recorded
<1>5. OutcomeInv(s)'
  BY DEF UndoReturns, Emit, slotVars, SlotInv, PlaceInv, CursorInv, EffectInv, JournalInv, OutcomeInv, Recorded, Counted, Effect
<1>6. \A r \in Slots \ {s} : Same(r)
  BY DEF UndoReturns, Emit, slotVars, Same
<1> QED
  BY <1>1, <1>2, <1>3, <1>4, <1>5, <1>6 DEF SlotInv

LEMMA UnwindEndsSlot ==
  ASSUME TypeOK, TypeOK', NEW s \in Slots, SlotInv(s), UnwindEnds(s)
  PROVE  SlotInv(s)' /\ \A r \in Slots \ {s} : Same(r)
<1> USE SizeAssumption DEF TypeOK, Frames, At, NoFrame, Running, Live, Terminal, Steps
<1>1. PlaceInv(s)'
  BY DEF UnwindEnds, SlotInv, PlaceInv, CursorInv
<1>2. CursorInv(s)'
  BY DEF UnwindEnds, SlotInv, PlaceInv, CursorInv
<1>3. EffectInv(s)'
  BY DEF UnwindEnds, SlotInv, PlaceInv, CursorInv, EffectInv, Counted, Effect
<1>4. JournalInv(s)'
  BY DEF UnwindEnds, SlotInv, PlaceInv, JournalInv, EffectInv, Recorded
<1>5. OutcomeInv(s)'
  BY DEF UnwindEnds, SlotInv, PlaceInv, CursorInv, EffectInv, JournalInv, OutcomeInv, Recorded, Counted, Effect
<1>6. \A r \in Slots \ {s} : Same(r)
  BY DEF UnwindEnds, Same
<1> QED
  BY <1>1, <1>2, <1>3, <1>4, <1>5, <1>6 DEF SlotInv

LEMMA CountStepSlot ==
  ASSUME TypeOK, TypeOK', NEW s \in Slots, SlotInv(s), CountStep(s)
  PROVE  SlotInv(s)' /\ \A r \in Slots \ {s} : Same(r)
<1> USE SizeAssumption DEF TypeOK, Frames, At, NoFrame, Running, Live, Terminal, Steps
<1>1. PlaceInv(s)'
  BY DEF CountStep, EnterStep, Emit, SlotInv, PlaceInv, CursorInv
<1>2. CursorInv(s)'
  BY DEF CountStep, EnterStep, Emit, SlotInv, PlaceInv, CursorInv
<1>3. EffectInv(s)'
  BY SMTT(40) DEF CountStep, EnterStep, Emit, SlotInv, PlaceInv, CursorInv, EffectInv, Counted, Effect
<1>4. JournalInv(s)'
  BY DEF CountStep, EnterStep, Emit, SlotInv, PlaceInv, JournalInv, EffectInv, Recorded
<1>5. OutcomeInv(s)'
  <2>1. /\ frame[s].i = done_count[s] /\ status[s] = "RUNNING"
        /\ done_count[s] < step_count[s] /\ torn[s] = {}
        /\ effects[s] = Counted(s) \union Effect(s, done_count[s])
    BY DEF CountStep, SlotInv, PlaceInv, CursorInv, EffectInv
  <2>2. CASE /\ frame[s].i + 1 < step_count[s]
             /\ EnterStep(s, frame[s].i + 1)
             /\ UNCHANGED status
    BY <2>1, <2>2 DEF CountStep, EnterStep, Emit, SlotInv, OutcomeInv, Recorded
  <2>3. CASE /\ frame[s].i + 1 = step_count[s]
             /\ status' = [status EXCEPT ![s] = "COMMITTED"]
             /\ UNCHANGED journal
    <3>1. undoable[s] \subseteq 0 .. done_count[s]
      BY <2>1, <2>3 DEF SlotInv, CursorInv
    <3>2. effects[s] = undoable[s]
      <4>1. \A k \in undoable[s] : k \in 0 .. done_count[s] - 1 \/ k = done_count[s]
        BY <3>1
      <4> QED
        BY <2>1, <4>1 DEF Counted, Effect
    <3> QED
      BY <2>1, <2>3, <3>2 DEF CountStep, SlotInv, OutcomeInv, Recorded
  <2> QED
    BY <2>2, <2>3 DEF CountStep
<1>6. \A r \in Slots \ {s} : Same(r)
  BY DEF CountStep, EnterStep, Emit, Same
<1> QED
  BY <1>1, <1>2, <1>3, <1>4, <1>5, <1>6 DEF SlotInv

LEMMA FaultSlot ==
  ASSUME TypeOK, TypeOK', NEW s \in Slots, SlotInv(s), Fault(s)
  PROVE  SlotInv(s)' /\ \A r \in Slots \ {s} : Same(r)
<1> USE SizeAssumption DEF TypeOK, Frames, At, NoFrame, Running, Live, Terminal, Steps
<1>1. PlaceInv(s)'
  BY DEF Fault, slotVars, SlotInv, PlaceInv, CursorInv
<1>2. CursorInv(s)'
  BY DEF Fault, slotVars, SlotInv, PlaceInv, CursorInv
<1>3. EffectInv(s)'
  <2>1. CASE frame[s].at \in Running
    <3>1. /\ status[s] = "RUNNING" /\ frame[s].i = done_count[s] /\ failed[s] = {}
          /\ torn[s] = {}
      BY Zenon, <2>1 DEF SlotInv, PlaceInv, CursorInv, EffectInv
    <3>2. /\ effects'[s] = Counted(s) \union torn'[s]
          /\ torn'[s] \subseteq {done_count[s]}
      <4>1. CASE frame[s].at = "claimed"
        BY <3>1, <4>1 DEF Fault, SlotInv, EffectInv, Counted
      <4>2. CASE frame[s].at = "call"
        BY <3>1, <4>2 DEF Fault, SlotInv, EffectInv, Counted, Effect
      <4>3. CASE frame[s].at \in {"returned", "recorded"}
        BY <3>1, <4>3 DEF Fault, SlotInv, EffectInv, Counted, Effect
      <4> QED
        BY <2>1, <4>1, <4>2, <4>3
    <3> QED
      <4>1. /\ status'[s] = "RUNNING" /\ done_count'[s] = done_count[s] /\ failed'[s] = {}
            /\ undoable'[s] = undoable[s] /\ frame'[s].at = "none"
        BY <3>1 DEF Fault, slotVars
      <4>2. Counted(s)' = Counted(s) /\ done_count[s] \in Nat
        BY <4>1 DEF Counted
      <4>3. \A j \in torn'[s] : done_count'[s] <= j
        BY <3>2, <4>1, <4>2
      <4> QED
        BY Zenon, <3>2, <4>1, <4>2, <4>3 DEF EffectInv
  <2>2. CASE frame[s].at \in {"unwind", "over"}
    <3>1. torn'[s] = torn[s] /\ effects'[s] \subseteq effects[s]
      BY <2>2 DEF Fault
    <3>2. frame[s].at = "over" => effects'[s] = effects[s]
      BY DEF Fault
    <3>3. status[s] \notin {"IDLE", "RUNNING"}
      BY <2>2 DEF SlotInv, PlaceInv
    <3> QED
      BY ZenonT(60), <2>2, <3>1, <3>2, <3>3 DEF Fault, slotVars, SlotInv, EffectInv, Counted
  <2> QED
    BY SMTT(40), <2>1, <2>2 DEF Fault, Places
<1>4. JournalInv(s)'
  BY DEF Fault, slotVars, SlotInv, PlaceInv, JournalInv, EffectInv, Recorded
<1>5. OutcomeInv(s)'
  <2>1. CASE frame[s].at \in Running
    <3>1. /\ status[s] = "RUNNING" /\ frame[s].i = done_count[s] /\ torn[s] = {}
      BY Zenon, <2>1 DEF SlotInv, PlaceInv, CursorInv, EffectInv
    <3>2. /\ effects[s] \subseteq effects'[s]
          /\ effects'[s] \subseteq Recorded(s, "BEGIN")
      <4>1. CASE frame[s].at = "call"
        <5>1. /\ effects[s] \subseteq effects'[s]
              /\ effects'[s] \subseteq effects[s] \union Effect(s, frame[s].i)
          BY <4>1 DEF Fault
        <5>2. Effect(s, frame[s].i) \subseteq Recorded(s, "BEGIN")
          BY ZenonT(60), <4>1 DEF SlotInv, JournalInv, Effect, Recorded
        <5> QED
          BY Zenon, <5>1, <5>2 DEF SlotInv, OutcomeInv
      <4>2. CASE frame[s].at # "call"
        BY <2>1, <4>2 DEF Fault, SlotInv, OutcomeInv
      <4> QED
        BY <4>1, <4>2
    <3>3. \A j, k \in torn'[s] : j = k
      BY <3>1 DEF Fault
    <3> QED
      BY SMTT(40), <3>1, <3>2, <3>3 DEF Fault, slotVars, SlotInv, OutcomeInv, Recorded
  <2>2. CASE frame[s].at \in {"unwind", "over"}
    <3>1. torn'[s] = torn[s] /\ effects'[s] \subseteq effects[s]
      BY <2>2 DEF Fault
    <3>2. frame[s].at = "over" => effects'[s] = effects[s]
      BY DEF Fault
    <3>3. /\ status[s] \notin {"IDLE", "RUNNING"}
          /\ frame[s].at = "unwind" => status[s] = "ROLLING_BACK"
      BY <2>2 DEF SlotInv, PlaceInv
    <3> QED
      BY Zenon, <2>2, <3>1, <3>2, <3>3 DEF Fault, slotVars, SlotInv, OutcomeInv, Recorded
  <2> QED
    BY <2>1, <2>2 DEF Fault, Places
<1>6. \A r \in Slots \ {s} : Same(r)
  BY DEF Fault, slotVars, Same
<1> QED
  BY <1>1, <1>2, <1>3, <1>4, <1>5, <1>6 DEF SlotInv

LEMMA RecoverUnwindSlot ==
  ASSUME TypeOK, TypeOK', NEW s \in Slots, SlotInv(s), RecoverUnwind(s)
  PROVE  SlotInv(s)' /\ \A r \in Slots \ {s} : Same(r)
<1>a. status[s] \in {"RUNNING", "ROLLING_BACK"} /\ frame[s].at = "none"
  BY DEF RecoverUnwind, NonTerminal, Live
<1>b. /\ step_count' = step_count /\ undoable' = undoable /\ done_count' = done_count
      /\ effects' = effects /\ torn' = torn /\ journal' = journal
  BY DEF RecoverUnwind
<1>c. /\ status'[s] = "ROLLING_BACK" /\ failed'[s] = {}
      /\ frame'[s] = [at |-> "unwind", i |-> 0, remaining |-> done_count[s]]
  BY Zenon DEF RecoverUnwind, EnterUnwind, TypeOK
<1>d. frame'[s].at = "unwind" /\ frame'[s].i = 0 /\ frame'[s].remaining = done_count[s]
  BY <1>c
<1>e. done_count[s] \in 0 .. MaxSteps /\ step_count[s] \in 0 .. MaxSteps /\ MaxSteps \in Nat
  BY SizeAssumption DEF TypeOK
<1>1. PlaceInv(s)'
  BY Zenon, <1>a, <1>b, <1>c, <1>d DEF SlotInv, PlaceInv, Running
<1>2. CursorInv(s)'
  <2>1. undoable[s] \subseteq 0 .. step_count[s] - 1 /\ done_count[s] <= step_count[s]
    BY DEF SlotInv, CursorInv
  <2> QED
    BY <1>b, <1>c, <1>d, <1>e, <2>1 DEF CursorInv, Running
<1>3. EffectInv(s)'
  <2>1. effects[s] \subseteq Counted(s) \union torn[s] /\ \A j \in torn[s] : done_count[s] <= j
    BY Zenon, <1>a DEF SlotInv, EffectInv, Live
  <2> QED
    BY Zenon, <1>b, <1>c, <1>d, <2>1 DEF EffectInv, Counted, Live
<1>4. JournalInv(s)'
  BY Zenon, <1>b, <1>c, <1>d DEF JournalInv, Recorded
<1>5. OutcomeInv(s)'
  BY Zenon, <1>b, <1>c DEF SlotInv, OutcomeInv, Recorded
<1>6. \A r \in Slots \ {s} : Same(r)
  BY ZenonT(60) DEF RecoverUnwind, EnterUnwind, Same, TypeOK
<1> QED
  BY <1>1, <1>2, <1>3, <1>4, <1>5, <1>6 DEF SlotInv

(* A released slot satisfies SlotInv, whatever it held.                    *)
LEMMA ClearedSlot ==
  ASSUME TypeOK, NEW s \in Slots, Cleared(s)
  PROVE  SlotInv(s)' /\ \A r \in Slots \ {s} : Same(r)
<1>1. SlotInv(s)'
  <2>1. /\ status'[s] = "IDLE" /\ step_count'[s] = 0 /\ undoable'[s] = {}
        /\ done_count'[s] = 0 /\ frame'[s].at = "none" /\ effects'[s] = {}
        /\ torn'[s] = {} /\ failed'[s] = {} /\ journal'[s] = {}
    BY DEF Cleared, TypeOK, NoFrame, At
  <2>2. PlaceInv(s)' /\ CursorInv(s)'
    <3>1. PlaceInv(s)'
      BY Zenon, <2>1 DEF PlaceInv, Running
    <3>2. CursorInv(s)'
      <4>1. {} \subseteq 0 .. 0 - 1 /\ 0 <= 0
        OBVIOUS
      <4> QED
        BY <2>1, <4>1, Zenon DEF CursorInv, Running
    <3> QED
      BY <3>1, <3>2
  <2>3. EffectInv(s)'
    BY Zenon, <2>1 DEF EffectInv, Live
  <2>4. JournalInv(s)' /\ OutcomeInv(s)'
    BY ZenonT(60), <2>1 DEF JournalInv, OutcomeInv, Recorded
  <2> QED
    BY Zenon, <2>2, <2>3, <2>4 DEF SlotInv
<1>2. \A r \in Slots \ {s} : Same(r)
  BY DEF Cleared, Same, TypeOK
<1> QED
  BY SMTT(40), <1>1, <1>2

(* Letting go of a slot in a terminal state keeps SlotInv.                 *)
LEMMA LetGoSlot ==
  ASSUME TypeOK, NEW s \in Slots, SlotInv(s), frame[s].at = "over",
         frame' = [frame EXCEPT ![s] = NoFrame],
         UNCHANGED <<slotVars, effects, torn, failed, journal>>
  PROVE  SlotInv(s)' /\ \A r \in Slots \ {s} : Same(r)
<1>1. SlotInv(s)'
  <2>1. frame'[s].at = "none" /\ status[s] \in Terminal
    BY DEF TypeOK, NoFrame, At, SlotInv, PlaceInv
  <2>2. /\ UNCHANGED <<status, step_count, undoable, done_count, effects, torn, failed, journal>>
    BY DEF slotVars
  <2>3. PlaceInv(s)'
    BY Zenon, <2>1, <2>2 DEF SlotInv, PlaceInv, Running
  <2>4. CursorInv(s)'
    BY Zenon, <2>1, <2>2 DEF SlotInv, CursorInv, Running
  <2>5. EffectInv(s)'
    BY Zenon, <2>1, <2>2 DEF SlotInv, EffectInv, Live, Terminal
  <2>6. JournalInv(s)' /\ OutcomeInv(s)'
    BY Zenon, <2>1, <2>2 DEF SlotInv, JournalInv, OutcomeInv, Recorded
  <2> QED
    BY <2>3, <2>4, <2>5, <2>6 DEF SlotInv
<1>2. \A r \in Slots \ {s} : Same(r)
  BY DEF Same, TypeOK, slotVars
<1> QED
  BY SMTT(40), <1>1, <1>2

-----------------------------------------------------------------------------
(* The scan.                                                               *)

(* Every step either concerns one slot, or none.                           *)
LEMMA SlotsStep ==
  ASSUME IInv, [Next]_vars
  PROVE  \A r \in Slots : SlotInv(r)'
<1>1. TypeOK /\ TypeOK' /\ \A s \in Slots : SlotInv(s)
  BY IInvBySlot, TypeStep
<1>2. ASSUME NEW s \in Slots, SlotInv(s)' /\ \A r \in Slots \ {s} : Same(r)
      PROVE  \A r \in Slots : SlotInv(r)'
  BY <1>1, <1>2, SameSlot
<1>3. ASSUME \A r \in Slots : Same(r) PROVE \A r \in Slots : SlotInv(r)'
  BY <1>1, <1>3, SameSlot
<1>4. ASSUME NEW s \in Slots, NEW n \in 1 .. MaxSteps, NEW U \in SUBSET (0 .. n - 1),
             workflow_begin(s, n, U)
      PROVE  \A r \in Slots : SlotInv(r)'
  BY <1>1, <1>2, <1>4, workflow_beginSlot
<1>5. ASSUME NEW s \in Slots, Advance(s) PROVE \A r \in Slots : SlotInv(r)'
  <2>1. SlotInv(s)' /\ \A r \in Slots \ {s} : Same(r)
    BY Zenon, <1>1, <1>5, RunBeginSlot, StepReturnsOkSlot, RecordStepSlot, CountStepSlot,
       StepFailsSlot, UndoSkipSlot, UndoReturnsSlot, UnwindEndsSlot DEF Advance
  <2> QED
    BY <1>2, <2>1
<1>6. ASSUME NEW s \in Slots, Dispose(s) PROVE \A r \in Slots : SlotInv(r)'
  <2>1. CASE workflow_release(s)
    BY <1>1, <1>2, <2>1, ClearedSlot DEF workflow_release
  <2>2. CASE KeepEvidence(s)
    BY Zenon, <1>1, <1>2, <2>2, LetGoSlot DEF KeepEvidence
  <2> QED
    BY <1>6, <2>1, <2>2 DEF Dispose
<1>7. ASSUME NEW s \in Slots,
             RecoverSkip(s) \/ RecoverUnwind(s) \/ RecoverKeep(s) \/ RecoverRelease(s)
      PROVE  \A r \in Slots : SlotInv(r)'
  <2>1. CASE RecoverSkip(s)
    BY <1>3, <2>1 DEF RecoverSkip, Same, slotVars
  <2>2. CASE RecoverUnwind(s)
    BY <1>1, <1>2, <2>2, RecoverUnwindSlot
  <2>3. CASE RecoverKeep(s)
    BY ZenonT(60), <1>1, <1>2, <2>3, LetGoSlot DEF RecoverKeep
  <2>4. CASE RecoverRelease(s)
    BY <1>1, <1>2, <2>4, ClearedSlot DEF RecoverRelease
  <2> QED
    BY <1>7, <2>1, <2>2, <2>3, <2>4
<1>8. CASE RecoverBegin \/ RecoverEnd \/ UNCHANGED vars
  BY Zenon, <1>3, <1>8 DEF RecoverBegin, RecoverEnd, Same, slotVars, vars
<1>9. ASSUME NEW s \in Slots, Fault(s) PROVE \A r \in Slots : SlotInv(r)'
  BY <1>1, <1>2, <1>9, FaultSlot
<1> QED
  BY <1>4, <1>5, <1>6, <1>7, <1>8, <1>9 DEF Next, RecoverStep

(* The executor of a slot does not touch the scan and brings the slot to a *)
(* later place: a terminal slot does not become non-terminal again.        *)
LEMMA AdvanceScan ==
  ASSUME TypeOK, NEW s \in Slots, Advance(s), SlotInv(s)
  PROVE  /\ scan' = scan /\ Live(s)
         /\ frame[s].at \in {"unwind", "over"} => frame'[s].at \in {"unwind", "over"}
         /\ status[s] \in NonTerminal
         /\ \A r \in Slots \ {s} : frame'[r] = frame[r] /\ status'[r] = status[r]
<1> USE DEF SlotInv, PlaceInv, Running, NonTerminal, Live, TypeOK, slotVars, Frames
<1>1. CASE RunBegin(s)
  BY Zenon, <1>1 DEF RunBegin, EnterStep
<1>2. CASE StepReturnsOk(s)
  BY <1>2 DEF StepReturnsOk
<1>3. CASE RecordStep(s)
  BY <1>3 DEF RecordStep
<1>4. CASE CountStep(s)
  BY <1>4 DEF CountStep, EnterStep
<1>5. CASE StepFails(s)
  BY Zenon, <1>5 DEF StepFails, EnterUnwind
<1>6. CASE UndoSkip(s)
  BY <1>6 DEF UndoSkip
<1>7. CASE \E ok \in BOOLEAN : UndoReturns(s, ok)
  BY <1>7 DEF UndoReturns
<1>8. CASE UnwindEnds(s)
  BY <1>8 DEF UnwindEnds
<1> QED
  BY ZenonT(60), <1>1, <1>2, <1>3, <1>4, <1>5, <1>6, <1>7, <1>8 DEF Advance

(* While the scan runs, only its own slot is executed, and the slots it    *)
(* has passed stay settled.                                                *)
LEMMA ScansStep == ASSUME IInv, [Next]_vars PROVE ScansInv'
<1>1. /\ TypeOK /\ TypeOK' /\ ScanInv /\ RecoverySettles
      /\ \A s \in Slots : SlotInv(s)
  BY IInvBySlot, TypeStep DEF ScansInv
<1>2. Slots \subseteq Nat /\ MaxActive \in Nat /\ Idle \notin Slots /\ scan \in Nat
      /\ Idle \in Nat /\ \A s \in Slots : s # Idle /\ s + 1 # Idle /\ s < MaxActive
  BY <1>1, SizeAssumption DEF Slots, Idle, TypeOK, ScanPos
<1>3. ASSUME NEW s \in Slots, NEW n \in 1 .. MaxSteps, NEW U \in SUBSET (0 .. n - 1),
             workflow_begin(s, n, U)
      PROVE  ScansInv'
  BY <1>3 DEF workflow_begin, ScansInv, ScanInv, RecoverySettles, Idle
<1>4. ASSUME NEW s \in Slots, Advance(s) PROVE ScansInv'
  <2>1. /\ scan' = scan /\ Live(s)
        /\ frame[s].at \in {"unwind", "over"} => frame'[s].at \in {"unwind", "over"}
        /\ \A r \in Slots \ {s} : frame'[r] = frame[r] /\ status'[r] = status[r]
    BY Zenon, <1>1, <1>4, AdvanceScan
  <2> QED
    BY <1>1, <1>2, <2>1 DEF ScansInv, ScanInv, RecoverySettles, Live, Idle
<1>5. ASSUME NEW s \in Slots, Dispose(s) PROVE ScansInv'
  <2>1. scan = Idle /\ scan' = scan
    BY <1>1, <1>5 DEF Dispose, workflow_release, KeepEvidence, ScanInv, Live
  <2> QED
    BY Zenon, <2>1 DEF ScansInv, ScanInv, RecoverySettles, Idle
<1>6. CASE RecoverBegin
  BY <1>2, <1>6 DEF RecoverBegin, ScansInv, ScanInv, RecoverySettles, Live, slotVars
<1>7. CASE RecoverEnd
  BY <1>7 DEF RecoverEnd, ScansInv, ScanInv, RecoverySettles, Idle
<1>8. ASSUME NEW s \in Slots, RecoverSkip(s) PROVE ScansInv'
  <2>1. \A r \in Slots : ~Live(r)
    BY <1>1, <1>2, <1>8 DEF RecoverSkip, ScanInv
  <2>2. ScanInv'
    BY <1>8, <2>1 DEF RecoverSkip, ScanInv, Live
  <2>3. status[s] \in Terminal \union {"IDLE"}
    BY Zenon, <1>1, <1>8 DEF RecoverSkip, TypeOK, Status, NonTerminal, Terminal
  <2>4. RecoverySettles'
    BY SMTT(40), <1>1, <1>2, <1>8, <2>3 DEF RecoverSkip, RecoverySettles, slotVars
  <2> QED
    BY <2>2, <2>4 DEF ScansInv
<1>9. ASSUME NEW s \in Slots, RecoverUnwind(s) PROVE ScansInv'
  <2>1. /\ scan = s /\ scan' = s /\ frame'[s].at = "unwind"
        /\ \A r \in Slots \ {s} : frame'[r] = frame[r] /\ status'[r] = status[r]
    BY Zenon, <1>1, <1>9 DEF RecoverUnwind, EnterUnwind, TypeOK
  <2>2. ScanInv'
    BY <1>1, <1>2, <2>1, Zenon DEF ScanInv, Live
  <2>3. ~(s < s)
    BY <1>2
  <2>4. RecoverySettles'
    BY <1>1, <1>2, <2>1, <2>3, Zenon DEF RecoverySettles
  <2> QED
    BY <2>2, <2>4 DEF ScansInv
<1>10. ASSUME NEW s \in Slots, RecoverKeep(s) \/ RecoverRelease(s) PROVE ScansInv'
  <2>1. /\ scan = s /\ scan' = s + 1 /\ frame'[s].at = "none"
        /\ \A r \in Slots \ {s} : frame'[r] = frame[r] /\ status'[r] = status[r]
    BY <1>1, <1>10 DEF RecoverKeep, RecoverRelease, Cleared, slotVars, TypeOK, NoFrame, At
  <2>2. status'[s] \in Terminal \union {"IDLE"}
    BY Zenon, <1>1, <1>10 DEF RecoverKeep, RecoverRelease, Cleared, slotVars, TypeOK, Terminal
  <2>3. ScanInv'
    BY <1>1, <1>2, <2>1, Zenon DEF ScanInv, Live
  <2>4. \A r \in Slots \ {s} : r < s + 1 => r < s
    BY <1>2
  <2>5. RecoverySettles'
    BY <1>1, <1>2, <2>1, <2>2, <2>4, Zenon DEF RecoverySettles
  <2> QED
    BY <2>3, <2>5 DEF ScansInv
<1>11. ASSUME NEW s \in Slots, Fault(s) PROVE ScansInv'
  <2>1. scan' = Idle
    BY <1>1, <1>11 DEF Fault, ScanInv
  <2> QED
    BY <2>1 DEF ScansInv, ScanInv, RecoverySettles, Idle
<1>12. CASE UNCHANGED vars
  <2>1. UNCHANGED <<scan, status, frame>>
    BY <1>12 DEF vars, slotVars
  <2> QED
    BY <1>1, <2>1, Zenon DEF ScansInv, ScanInv, RecoverySettles, Live
<1> QED
  BY <1>3, <1>4, <1>5, <1>6, <1>7, <1>8, <1>9, <1>10, <1>11, <1>12
     DEF Next, RecoverStep

(* IInv is inductive.                                                      *)
LEMMA StepIInv == IInv /\ [Next]_vars => IInv'
<1> SUFFICES ASSUME IInv, [Next]_vars PROVE IInv'
  OBVIOUS
<1>1. TypeOK' /\ (\A s \in Slots : SlotInv(s)') /\ ScansInv'
  BY TypeStep, SlotsStep, ScansStep
<1> QED
  BY Zenon, <1>1 DEF IInv, SlotInv, OutcomeInv, ScansInv, CommitComplete, Residue, WriteAhead

-----------------------------------------------------------------------------
(* The theorems.                                                           *)

(* The inductive invariant holds throughout.                               *)
THEOREM Invariance == Spec => []IInv
<1>1. Init => IInv
  BY InitIInv
<1>2. IInv /\ [Next]_vars => IInv'
  BY StepIInv
<1> QED
  BY <1>1, <1>2, PTL DEF Spec

(* Type correctness of the slot table, the activations and the scan.       *)
THEOREM TypeCorrect == Spec => []TypeOK
<1>1. IInv => TypeOK
  BY DEF IInv
<1> QED
  BY <1>1, Invariance, PTL

(* COMMITTED means every step ran, was counted, and has its effect.        *)
THEOREM CommitIsComplete == Spec => []CommitComplete
<1>1. IInv => CommitComplete
  BY DEF IInv
<1> QED
  BY <1>1, Invariance, PTL

(* The only effect a reversal can leave unreported is that of one step     *)
(* that a fault interrupted before done_count++.                           *)
THEOREM ResidueIsBounded == Spec => []Residue
<1>1. IInv => Residue
  BY DEF IInv
<1> QED
  BY <1>1, Invariance, PTL

(* Every effect in the world has its intent record, at all times.          *)
THEOREM IntentIsWrittenAhead == Spec => []WriteAhead
<1>1. IInv => WriteAhead
  BY DEF IInv
<1> QED
  BY <1>1, Invariance, PTL

(* A recovery leaves no non-terminal slot behind it.                       *)
THEOREM RecoveryIsThorough == Spec => []RecoverySettles
<1>1. IInv => RecoverySettles
  BY DEF IInv
<1> QED
  BY <1>1, Invariance, PTL

(* No step of anybody reverses or reopens a committed workflow.            *)
THEOREM CommittedStays == Spec => CommitIsFinal
<1> DEFINE Final == \A s \in Slots : status[s] = "COMMITTED" =>
                      \/ status'[s] = "IDLE"
                      \/ status'[s] = "COMMITTED" /\ effects'[s] = effects[s]
<1>1. IInv /\ [Next]_vars => Final
  <2> SUFFICES ASSUME IInv, [Next]_vars, NEW r \in Slots, status[r] = "COMMITTED"
               PROVE  \/ status'[r] = "IDLE"
                      \/ status'[r] = "COMMITTED" /\ effects'[r] = effects[r]
    BY Zenon
  <2>1. TypeOK /\ SlotInv(r) /\ frame[r].at \in {"none", "over"}
    BY Zenon, IInvBySlot DEF SlotInv, PlaceInv, TypeOK, Frames, Places, Running
  <2> USE <2>1 DEF TypeOK, slotVars
  <2>2. ASSUME NEW s \in Slots, NEW n \in 1 .. MaxSteps, NEW U \in SUBSET (0 .. n - 1),
               workflow_begin(s, n, U)
        PROVE  status'[r] = "COMMITTED" /\ effects'[r] = effects[r]
    BY Zenon, <2>2 DEF workflow_begin
  <2>3. ASSUME NEW s \in Slots, Advance(s)
        PROVE  status'[r] = "COMMITTED" /\ effects'[r] = effects[r]
    <3>1. r # s
      BY <2>3 DEF Advance, RunBegin, StepReturnsOk, RecordStep, CountStep, StepFails,
         UndoSkip, UndoReturns, UnwindEnds
    <3> QED
      BY Zenon, <2>3, <3>1 DEF Advance, RunBegin, StepReturnsOk, RecordStep, CountStep, EnterStep,
         StepFails, EnterUnwind, UndoSkip, UndoReturns, UnwindEnds
  <2>4. ASSUME NEW s \in Slots, Cleared(s)
        PROVE  \/ status'[r] = "IDLE"
               \/ status'[r] = "COMMITTED" /\ effects'[r] = effects[r]
    BY Zenon, <2>4 DEF Cleared
  <2>5. ASSUME NEW s \in Slots, Dispose(s)
        PROVE  \/ status'[r] = "IDLE"
               \/ status'[r] = "COMMITTED" /\ effects'[r] = effects[r]
    BY Zenon, <2>4, <2>5 DEF Dispose, workflow_release, KeepEvidence
  <2>6. CASE RecoverStep
    BY Zenon, <2>4, <2>6 DEF RecoverStep, RecoverSkip, RecoverUnwind, EnterUnwind, RecoverKeep,
       RecoverRelease, RecoverEnd, NonTerminal
  <2>7. ASSUME NEW s \in Slots, Fault(s)
        PROVE  status'[r] = "COMMITTED" /\ effects'[r] = effects[r]
    BY <2>7 DEF Fault
  <2> QED
    BY Zenon, <2>2, <2>3, <2>5, <2>6, <2>7 DEF Next, RecoverBegin, vars
<1> QED
  BY <1>1, Invariance, PTL DEF Spec, CommitIsFinal

-----------------------------------------------------------------------------
(* The order in which effects are taken back, and the proof that Workflow  *)
(* implements Saga: every step of the engine, of a recovery and of a fault *)
(* is a step of the saga or leaves its variables alone.                    *)

(* In wf_unwind the step at the cursor is the latest whose effect is still *)
(* there, torn and given-up steps aside.                                   *)
LEMMA CursorIsLatest ==
  ASSUME IInv, NEW s \in Slots, frame[s].at = "unwind", frame[s].remaining > 0,
         NEW j \in effects[s], j > frame[s].remaining - 1
  PROVE  j \in torn[s] \union failed[s]
<1>1. EffectInv(s)
  BY Zenon, IInvBySlot DEF SlotInv
<1>2. effects[s] \subseteq (0 .. frame[s].remaining - 1) \union torn[s] \union failed[s]
  BY Zenon, <1>1 DEF EffectInv
<1>3. frame[s] \in Frames
  BY DEF IInv, TypeOK
<1>4. frame[s].remaining \in Nat
  BY <1>3, SizeAssumption DEF Frames
<1> QED
  BY Zenon, <1>2, <1>4, Cursors

(* Effects disappear latest first, whoever runs wf_unwind and however      *)
(* often faults interrupt it.                                              *)
THEOREM EffectsLeaveInReverse == Spec => ReverseOrder
<1> DEFINE Ordered == \A s \in Slots : \A k \in effects[s] \ effects'[s] :
                        status'[s] # "IDLE" =>
                          \A j \in effects[s] : j > k => j \in torn[s] \union failed[s]
<1>1. IInv /\ [Next]_vars => Ordered
  <2> SUFFICES ASSUME IInv, [Next]_vars, NEW r \in Slots,
                      NEW k \in effects[r] \ effects'[r], status'[r] # "IDLE",
                      NEW j \in effects[r], j > k
               PROVE  j \in torn[r] \union failed[r]
    OBVIOUS
  <2>1. TypeOK
    BY DEF IInv
  <2>2. ASSUME NEW s \in Slots, NEW ok \in BOOLEAN, UndoReturns(s, ok)
        PROVE  j \in torn[r] \union failed[r]
    <3>1. r = s /\ k = frame[s].remaining - 1
      BY <2>1, <2>2 DEF UndoReturns, TypeOK
    <3> QED
      BY <2>2, <3>1, CursorIsLatest DEF UndoReturns
  <2>3. ASSUME NEW s \in Slots, Fault(s) PROVE j \in torn[r] \union failed[r]
    <3>1. r = s /\ frame[s].at = "unwind" /\ frame[s].remaining > 0
          /\ k = frame[s].remaining - 1
      BY <2>1, <2>3 DEF Fault, TypeOK, Effect
    <3> QED
      BY Zenon, <3>1, CursorIsLatest
  <2>4. ASSUME NEW s \in Slots, Cleared(s) PROVE FALSE
    BY Zenon, <2>1, <2>4 DEF Cleared, TypeOK
  <2>5. ASSUME NEW s \in Slots, StepReturnsOk(s) PROVE FALSE
    BY <2>1, <2>5 DEF StepReturnsOk, TypeOK
  <2>6. effects' # effects
    OBVIOUS
  <2> QED
    BY Zenon, <2>2, <2>3, <2>4, <2>5, <2>6 DEF Next, workflow_begin, Advance, RunBegin, RecordStep,
       CountStep, StepFails, UndoSkip, UnwindEnds, Dispose, workflow_release, KeepEvidence,
       RecoverBegin, RecoverStep, RecoverSkip, RecoverUnwind, RecoverKeep, RecoverRelease,
       RecoverEnd, vars
<1> QED
  BY <1>1, Invariance, PTL DEF Spec, ReverseOrder

-----------------------------------------------------------------------------
(* Refinement.                                                             *)

(* The initial states correspond.                                          *)
LEMMA InitSaga == Init => Promise!Init
BY DEF Init, Promise!Init, phases, held, Phase, InFlight, NoFrame, At

(* How the mapped variables follow those of one slot.                      *)
LEMMA MapSlot ==
  ASSUME NEW s \in Slots, \A r \in Slots \ {s} : Same(r)
  PROVE  /\ phases' = [phases EXCEPT ![s] = Phase(s)']
         /\ held' = [held EXCEPT ![s] = (effects[s] \ (torn[s] \union InFlight(s)))']
<1> DEFINE H(r) == effects[r] \ (torn[r] \union InFlight(r))
<1>1. ASSUME NEW r \in Slots, r # s PROVE Phase(r)' = Phase(r)
  BY Zenon, <1>1 DEF Same, Phase
<1>2. ASSUME NEW r \in Slots, r # s PROVE H(r)' = H(r)
  BY Zenon, <1>2 DEF Same, InFlight
<1>3. phases = [r \in Slots |-> Phase(r)] /\ phases' = [r \in Slots |-> Phase(r)']
  BY DEF phases
<1>4. held = [r \in Slots |-> H(r)] /\ held' = [r \in Slots |-> H(r)']
  BY Zenon DEF held
<1> HIDE DEF H
<1>5. phases' = [phases EXCEPT ![s] = Phase(s)']
  BY <1>1, <1>3
<1>6. held' = [held EXCEPT ![s] = H(s)']
  BY <1>2, <1>4
<1> QED
  BY Zenon, <1>5, <1>6 DEF H

(* The mapped variables are functions on the slots.                        *)
LEMMA MapValues ==
  ASSUME NEW s \in Slots
  PROVE  /\ phases[s] = Phase(s)
         /\ held[s] = effects[s] \ (torn[s] \union InFlight(s))
BY Zenon DEF phases, held

(* A step that changes neither phase nor held effects of its slot, nor     *)
(* undoable and failed, is invisible to the saga.                          *)
LEMMA Invisible ==
  ASSUME NEW s \in Slots, \A r \in Slots \ {s} : Same(r),
         status'[s] = status[s], held'[s] = held[s],
         UNCHANGED <<undoable, failed>>
  PROVE  UNCHANGED Promise!vars
<1>1. Phase(s)' = Phase(s)
  BY DEF Phase
<1>2. phases' = phases
  BY Zenon, <1>1, MapSlot, MapValues DEF phases
<1>3. held' = held
  BY ZenonT(60), MapSlot DEF held
<1> QED
  BY <1>2, <1>3 DEF Promise!vars

(* The effects the saga holds, in terms of the engine's cursor.            *)
LEMMA HeldForward ==
  ASSUME IInv, NEW s \in Slots, frame[s].at \in Running
  PROVE  held[s] = Counted(s) /\ frame[s].i = done_count[s] /\ torn[s] = {}
         /\ Phase(s) = "forward" /\ failed[s] = {}
<1>1. SlotInv(s) /\ TypeOK
  BY IInvBySlot
<1>2. /\ frame[s].i = done_count[s] /\ torn[s] = {} /\ status[s] = "RUNNING"
      /\ done_count[s] \in Nat /\ failed[s] = {}
  <2>1. done_count[s] \in Nat
    BY <1>1, SizeAssumption DEF TypeOK
  <2> QED
    BY Zenon, <1>1, <2>1 DEF SlotInv, PlaceInv, CursorInv, EffectInv, Running
<1>3. done_count[s] \notin Counted(s)
  BY Zenon, <1>2, Cursors DEF Counted
<1>4. held[s] = effects[s] \ InFlight(s)
  BY Zenon, <1>2, MapValues
<1>5. CASE frame[s].at \in {"claimed", "call"}
  <2>1. effects[s] = Counted(s) /\ InFlight(s) = {}
    BY Zenon, <1>1, <1>5 DEF SlotInv, EffectInv, InFlight
  <2> QED
    BY <1>2, <1>4, <2>1 DEF Phase
<1>6. CASE frame[s].at \in {"returned", "recorded"}
  <2>1. effects[s] = Counted(s) \union Effect(s, done_count[s]) /\ InFlight(s) = {done_count[s]}
    BY Zenon, <1>1, <1>2, <1>6 DEF SlotInv, EffectInv, InFlight
  <2>2. effects[s] \ InFlight(s) = Counted(s)
    BY Zenon, <1>3, <2>1 DEF Effect
  <2> QED
    BY <1>2, <1>4, <2>2 DEF Phase
<1> QED
  BY Zenon, <1>5, <1>6 DEF Running

(* CountStep performs the step's effect; the last one commits.             *)
LEMMA CountSaga ==
  ASSUME IInv, [Next]_vars, NEW s \in Slots, CountStep(s)
  PROVE  Promise!Perform(s, Effect(s, frame[s].i))
<1>1. SlotInv(s) /\ TypeOK /\ TypeOK' /\ IInv'
  BY IInvBySlot, TypeStep, StepIInv
<1>2. /\ held[s] = Counted(s) /\ frame[s].i = done_count[s] /\ torn[s] = {}
      /\ Phase(s) = "forward"
  BY HeldForward DEF CountStep, Running
<1>3. \A r \in Slots \ {s} : Same(r)
  BY <1>1, CountStepSlot
<1>4. effects[s] = Counted(s) \union Effect(s, frame[s].i) /\ done_count[s] \in Nat
      /\ undoable[s] \subseteq Nat
  BY <1>1, SizeAssumption DEF CountStep, SlotInv, EffectInv, TypeOK, Steps
<1>5. held' = [held EXCEPT ![s] = @ \union Effect(s, frame[s].i)]
  <2>1. frame'[s].at \in {"call", "over"} /\ effects'[s] = effects[s] /\ torn'[s] = {}
    BY <1>1, <1>2 DEF CountStep, EnterStep, At, TypeOK, Frames
  <2>2. (effects[s] \ (torn[s] \union InFlight(s)))' = held[s] \union Effect(s, frame[s].i)
    BY Zenon, <1>2, <1>4, <2>1 DEF InFlight
  <2> QED
    BY Zenon, <1>3, <2>2, MapSlot
<1>6. /\ Effect(s, frame[s].i) \subseteq undoable[s] \ held[s]
      /\ \A k \in Effect(s, frame[s].i), j \in undoable[s] : j < k => j \in held[s]
  BY <1>2, <1>4 DEF Effect, Counted
<1>7. \/ phases' = phases
      \/ held'[s] = undoable[s] /\ phases' = [phases EXCEPT ![s] = "committed"]
  <2>1. CASE UNCHANGED status
    <3>1. Phase(s)' = Phase(s)
      BY <2>1 DEF Phase
    <3> QED
      BY Zenon, <1>3, <3>1, MapSlot, MapValues DEF phases
  <2>2. CASE /\ status' = [status EXCEPT ![s] = "COMMITTED"]
             /\ frame' = [frame EXCEPT ![s].at = "over"]
    <3>1. status'[s] = "COMMITTED" /\ Phase(s)' = "committed"
      BY <1>1, <2>2 DEF TypeOK, Phase
    <3>2. effects'[s] = undoable'[s] /\ undoable' = undoable /\ effects' = effects
      BY <1>1, <3>1 DEF IInv, CommitComplete, CountStep
    <3>3. held[s] \union Effect(s, frame[s].i) = undoable[s]
      BY Zenon, <1>2, <1>4, <3>2
    <3>4. held'[s] = undoable[s]
      BY Zenon, <1>5, <3>3 DEF held
    <3> QED
      BY Zenon, <1>3, <3>1, <3>4, MapSlot
  <2> QED
    BY <2>1, <2>2 DEF CountStep
<1>8. phases[s] = "forward"
  BY Zenon, <1>2, MapValues
<1> QED
  BY <1>5, <1>6, <1>7, <1>8 DEF Promise!Perform, CountStep

(* Entering wf_unwind, from a failed step or from a recovery, turns back.  *)
LEMMA UnwindSaga ==
  ASSUME IInv, IInv', NEW s \in Slots, StepFails(s) \/ RecoverUnwind(s)
  PROVE  Promise!TurnBack(s)
<1>1. TypeOK /\ TypeOK' /\ SlotInv(s)
  BY IInvBySlot DEF IInv
<1>2. \A r \in Slots \ {s} : Same(r)
  BY <1>1, StepFailsSlot, RecoverUnwindSlot
<1>3. /\ status[s] \in NonTerminal /\ frame[s].at \in {"none", "call"}
      /\ status'[s] = "ROLLING_BACK" /\ frame'[s].at = "unwind"
      /\ UNCHANGED <<undoable, effects, torn>>
      /\ failed' = [failed EXCEPT ![s] = {}]
  <2>1. CASE StepFails(s)
    BY Zenon, <1>1, <2>1 DEF StepFails, EnterUnwind, SlotInv, PlaceInv, Running, NonTerminal, TypeOK
  <2>2. CASE RecoverUnwind(s)
    BY Zenon, <1>1, <2>2 DEF RecoverUnwind, EnterUnwind, NonTerminal, TypeOK, Live
  <2> QED
    BY Zenon, <2>1, <2>2
<1>4. phases[s] \in {"forward", "backward"} /\ Phase(s)' = "backward"
  BY <1>3, MapValues DEF Phase, NonTerminal
<1>5. phases' = [phases EXCEPT ![s] = "backward"]
  BY Zenon, <1>2, <1>4, MapSlot
<1>6. InFlight(s) = {} /\ InFlight(s)' = {}
  BY Zenon, <1>3 DEF InFlight
<1>7. held' = held
  BY ZenonT(60), <1>2, <1>3, <1>6, MapSlot, MapValues DEF held
<1> QED
  BY Zenon, <1>3, <1>4, <1>5, <1>7 DEF Promise!TurnBack

(* In wf_unwind, what the saga holds at or above the cursor is given up.   *)
LEMMA HeldBackward ==
  ASSUME IInv, NEW s \in Slots, frame[s].at = "unwind"
  PROVE  /\ phases[s] = "backward" /\ held[s] = effects[s] \ torn[s]
         /\ frame[s].remaining \in Nat
         /\ \A j \in held[s] : j \in 0 .. frame[s].remaining - 1 \/ j \in failed[s]
         /\ \A j \in torn[s] : frame[s].remaining <= j /\ j \in Nat
<1>1. TypeOK /\ SlotInv(s)
  BY IInvBySlot
<1>2. held[s] = effects[s] \ torn[s]
  BY Zenon, MapValues DEF InFlight
<1>3. phases[s] = "backward"
  BY <1>1, MapValues DEF Phase, SlotInv, PlaceInv
<1>4. frame[s].remaining \in Nat /\ done_count[s] \in Nat /\ torn[s] \subseteq Nat
      /\ frame[s].remaining <= done_count[s]
  BY <1>1, SizeAssumption DEF TypeOK, Frames, Steps, SlotInv, CursorInv
<1>5. \A j \in torn[s] : done_count[s] <= j
  BY Zenon, <1>1 DEF SlotInv, EffectInv
<1>6. effects[s] \subseteq (0 .. frame[s].remaining - 1) \union torn[s] \union failed[s]
  BY Zenon, <1>1 DEF SlotInv, EffectInv
<1>7. \A j \in held[s] : j \in 0 .. frame[s].remaining - 1 \/ j \in failed[s]
  BY Zenon, <1>2, <1>6
<1>8. \A j \in torn[s] : frame[s].remaining <= j /\ j \in Nat
  BY Zenon, <1>4, <1>5, Cursors
<1> QED
  BY Zenon, <1>2, <1>3, <1>4, <1>7, <1>8

(* Losing the effect at the cursor is a reversal, for an undo that         *)
(* returned and for one that a fault cut short.                            *)
LEMMA ReverseSaga ==
  ASSUME IInv, NEW s \in Slots, frame[s].at = "unwind", frame[s].remaining > 0,
         \A r \in Slots \ {s} : Same(r),
         status'[s] = status[s], torn'[s] = torn[s],
         frame'[s].at \in {"unwind", "none"}, undoable' = undoable,
         \/ effects'[s] = effects[s] \ {frame[s].remaining - 1} /\ failed' = failed
         \/ /\ effects'[s] \in {effects[s], effects[s] \ {frame[s].remaining - 1}}
            /\ failed' = [failed EXCEPT ![s] = @ \union {frame[s].remaining - 1}]
  PROVE  Promise!Reverse(s, frame[s].remaining - 1)
<1> DEFINE k == frame[s].remaining - 1
<1>1. /\ phases[s] = "backward" /\ held[s] = effects[s] \ torn[s]
      /\ frame[s].remaining \in Nat
      /\ \A j \in held[s] : j \in 0 .. frame[s].remaining - 1 \/ j \in failed[s]
  BY Zenon, HeldBackward
<1>2. Phase(s)' = Phase(s)
  BY DEF Phase
<1>3. phases' = phases
  BY ZenonT(60), <1>2, MapSlot, MapValues DEF phases
<1>4. held' = [held EXCEPT ![s] = effects'[s] \ torn'[s]]
  <2>1. InFlight(s)' = {}
    BY Zenon DEF InFlight
  <2> QED
    BY <2>1, MapSlot
<1>5. \A j \in held[s] \ (failed[s] \union {k}) : j < k
  BY Zenon, <1>1, Cursors
<1>6. CASE effects'[s] = effects[s] \ {k} /\ failed' = failed
  <2>1. held' = [held EXCEPT ![s] = @ \ {k}]
    BY Zenon, <1>1, <1>4, <1>6
  <2> QED
    BY Zenon, <1>1, <1>3, <1>5, <1>6, <2>1 DEF Promise!Reverse, Promise!Above
<1>7. CASE /\ effects'[s] \in {effects[s], effects[s] \ {k}}
           /\ failed' = [failed EXCEPT ![s] = @ \union {k}]
  <2>1. held' \in {held, [held EXCEPT ![s] = @ \ {k}]}
    <3>1. CASE effects'[s] = effects[s]
      BY ZenonT(60), <1>1, <1>4, <3>1 DEF held
    <3>2. CASE effects'[s] = effects[s] \ {k}
      BY Zenon, <1>1, <1>4, <3>2
    <3> QED
      BY Zenon, <1>7, <3>1, <3>2
  <2> QED
    BY Zenon, <1>1, <1>3, <1>5, <1>7, <2>1 DEF Promise!Reverse, Promise!Above
<1> QED
  BY Zenon, <1>6, <1>7

(* A fault changes nothing the saga sees, unless it cut short an undo that *)
(* had already had its effect.                                             *)
LEMMA FaultSaga ==
  ASSUME IInv, IInv', NEW s \in Slots, Fault(s)
  PROVE  \/ UNCHANGED Promise!vars
         \/ frame[s].remaining - 1 \in Steps /\ Promise!Reverse(s, frame[s].remaining - 1)
<1>1. TypeOK /\ TypeOK' /\ SlotInv(s)
  BY IInvBySlot DEF IInv
<1>2. \A r \in Slots \ {s} : Same(r)
  BY <1>1, FaultSlot
<1>3. /\ status' = status /\ undoable' = undoable /\ failed' = failed
      /\ frame'[s].at = "none" /\ InFlight(s)' = {} /\ done_count' = done_count
  BY <1>1 DEF Fault, slotVars, TypeOK, NoFrame, At, InFlight
<1>4. held'[s] = effects'[s] \ torn'[s]
  BY Zenon, <1>3 DEF held
<1>5. CASE frame[s].at \in Running
  <2>1. held[s] = Counted(s) /\ frame[s].i = done_count[s] /\ torn[s] = {}
        /\ status[s] = "RUNNING"
    BY Zenon, <1>1, <1>5, HeldForward DEF SlotInv, PlaceInv, Running
  <2>2. /\ effects'[s] = Counted(s) \union torn'[s]
        /\ torn'[s] \subseteq {done_count[s]}
    <3>1. SlotInv(s)'
      BY <1>1, FaultSlot
    <3> QED
      BY Zenon, <1>3, <2>1, <3>1 DEF SlotInv, EffectInv, Live, Counted
  <2>3. done_count[s] \notin Counted(s)
    <3>1. done_count[s] \in Nat
      BY <1>1, SizeAssumption DEF TypeOK
    <3> QED
      BY Zenon, <3>1, Cursors DEF Counted
  <2>4. held'[s] = held[s]
    BY <1>4, <2>1, <2>2, <2>3
  <2> QED
    BY Zenon, <1>2, <1>3, <2>4, Invisible
<1>6. CASE frame[s].at = "over" \/ (frame[s].at = "unwind" /\ effects'[s] = effects[s])
  <2>1. effects'[s] = effects[s] /\ torn'[s] = torn[s] /\ InFlight(s) = {}
    BY <1>1, <1>6 DEF Fault, TypeOK, InFlight
  <2>2. held'[s] = held[s]
    BY Zenon, <1>4, <2>1, MapValues
  <2> QED
    BY <1>2, <1>3, <2>2, Invisible
<1>7. CASE frame[s].at = "unwind" /\ effects'[s] # effects[s]
  <2>1. /\ frame[s].remaining > 0 /\ torn'[s] = torn[s]
        /\ effects'[s] = effects[s] \ {frame[s].remaining - 1}
    <3>1. effects' # effects /\ torn'[s] = torn[s]
      BY <1>1, <1>7 DEF Fault, TypeOK
    <3>2. /\ frame[s].remaining > 0
          /\ effects'[s] = effects[s] \ Effect(s, frame[s].remaining - 1)
      BY <1>1, <1>7, <3>1 DEF Fault, TypeOK
    <3>3. Effect(s, frame[s].remaining - 1) = {frame[s].remaining - 1}
      BY <1>7, <3>2 DEF Effect
    <3> QED
      BY Zenon, <3>1, <3>2, <3>3
  <2>2. frame[s].remaining - 1 \in Steps
    BY <1>1, <2>1, SizeAssumption DEF TypeOK, Frames, Steps
  <2> QED
    BY Zenon, <1>2, <1>3, <1>7, <2>1, <2>2, ReverseSaga
<1>8. frame[s].at \in Running \/ frame[s].at = "unwind" \/ frame[s].at = "over"
  BY <1>1 DEF Fault, Live, TypeOK, Frames, Places, Running
<1> QED
  BY Zenon, <1>5, <1>6, <1>7, <1>8

(* Releasing a slot forgets a workflow that has ended.                     *)
LEMMA ForgetSaga ==
  ASSUME IInv, NEW s \in Slots, frame[s].at = "over", Cleared(s)
  PROVE  Promise!Forget(s)
<1>1. TypeOK /\ status[s] \in Terminal
  BY Zenon, IInvBySlot DEF SlotInv, PlaceInv
<1>2. \A r \in Slots \ {s} : Same(r)
  BY Zenon, <1>1, ClearedSlot
<1>3. Phase(s)' = "free" /\ (effects[s] \ (torn[s] \union InFlight(s)))' = {}
  BY <1>1 DEF Cleared, TypeOK, Phase
<1>4. phases[s] \in {"committed", "reversed", "stuck"}
  BY <1>1, MapValues DEF Phase, Terminal
<1> QED
  BY Zenon, <1>2, <1>3, <1>4, MapSlot DEF Promise!Forget, Cleared

(* The end of wf_unwind finishes the reversal.                             *)
LEMMA FinishSaga ==
  ASSUME IInv, IInv', NEW s \in Slots, UnwindEnds(s)
  PROVE  Promise!Finish(s)
<1>1. TypeOK /\ TypeOK' /\ SlotInv(s)
  BY IInvBySlot DEF IInv
<1>2. \A r \in Slots \ {s} : Same(r)
  BY <1>1, UnwindEndsSlot
<1>3. phases[s] = "backward" /\ held[s] = effects[s] \ torn[s] /\ held[s] \subseteq failed[s]
  BY HeldBackward DEF UnwindEnds
<1>4. Phase(s)' = IF failed[s] = {} THEN "reversed" ELSE "stuck"
  BY <1>1 DEF UnwindEnds, TypeOK, Phase
<1>5. (effects[s] \ (torn[s] \union InFlight(s)))' = held[s]
  BY <1>1, <1>3 DEF UnwindEnds, TypeOK, Frames, InFlight
<1>6. held' = held
  BY ZenonT(60), <1>2, <1>5, MapSlot DEF held
<1> QED
  BY <1>2, <1>3, <1>4, <1>6, MapSlot DEF Promise!Finish, UnwindEnds

(* Every step maps to a step of the saga or to a stutter.                  *)
LEMMA StepSaga == IInv /\ IInv' /\ [Next]_vars => [Promise!Next]_(Promise!vars)
<1> SUFFICES ASSUME IInv, IInv', [Next]_vars PROVE Promise!Next \/ UNCHANGED Promise!vars
  BY DEF Promise!vars
<1>1. TypeOK /\ TypeOK' /\ \A s \in Slots : SlotInv(s)
  BY IInvBySlot DEF IInv
<1>2. ASSUME NEW s \in Slots, NEW n \in 1 .. MaxSteps, NEW U \in SUBSET (0 .. n - 1),
             workflow_begin(s, n, U)
      PROVE  Promise!Next
  <2>1. \A r \in Slots \ {s} : Same(r)
    BY <1>1, <1>2, workflow_beginSlot
  <2>2. Phase(s) = "free" /\ Phase(s)' = "forward"
    BY <1>1, <1>2 DEF workflow_begin, Phase, TypeOK
  <2>3. held' = held
    <3>1. (effects[s] \ (torn[s] \union InFlight(s)))' = {} /\ held[s] = {}
      <4>1. status[s] = "IDLE" /\ effects' = effects
        BY <1>2 DEF workflow_begin
      <4>2. effects[s] = {}
        BY Zenon, <1>1, <4>1 DEF SlotInv, EffectInv
      <4> QED
        BY Zenon, <4>1, <4>2, MapValues
    <3> QED
      BY ZenonT(60), <2>1, <3>1, MapSlot DEF held
  <2>4. Promise!Start(s, U)
    BY Zenon, <1>2, <2>1, <2>2, <2>3, MapSlot, MapValues DEF Promise!Start, workflow_begin
  <2>5. U \in SUBSET Steps
    BY <1>2, SizeAssumption DEF Steps
  <2> QED
    BY <2>4, <2>5 DEF Promise!Next, Promise!Steps, Steps
<1>3. ASSUME NEW s \in Slots, RunBegin(s) \/ StepReturnsOk(s) \/ RecordStep(s)
      PROVE  UNCHANGED Promise!vars
  <2>1. \A r \in Slots \ {s} : Same(r)
    BY Zenon, <1>1, <1>3, RunBeginSlot, StepReturnsOkSlot, RecordStepSlot
  <2>2. frame[s].at \in Running /\ frame'[s].at \in Running
    BY <1>1, <1>3 DEF RunBegin, EnterStep, At, StepReturnsOk, RecordStep, Running,
       TypeOK, Frames
  <2>3. UNCHANGED slotVars /\ failed' = failed
    BY <1>3 DEF RunBegin, StepReturnsOk, RecordStep
  <2>4. held'[s] = Counted(s)' /\ held[s] = Counted(s)
    <3>1. held[s] = Counted(s)
      BY Zenon, <2>2, HeldForward
    <3>2. (IInv /\ frame[s].at \in Running => held[s] = Counted(s))'
      BY HeldForward, PTL
    <3> QED
      BY Zenon, <2>2, <3>1, <3>2
  <2>5. held'[s] = held[s]
    BY Zenon, <2>3, <2>4 DEF Counted, slotVars
  <2> QED
    BY Zenon, <2>1, <2>3, <2>5, Invisible DEF slotVars
<1>4. ASSUME NEW s \in Slots, CountStep(s) PROVE Promise!Next
  <2>1. Promise!Perform(s, Effect(s, frame[s].i))
    BY <1>4, CountSaga
  <2>2. Effect(s, frame[s].i) \in SUBSET Steps
    BY Zenon, <1>1 DEF Effect, TypeOK
  <2> QED
    BY <2>1, <2>2 DEF Promise!Next, Promise!Steps, Steps
<1>5. ASSUME NEW s \in Slots, StepFails(s) \/ RecoverUnwind(s) PROVE Promise!Next
  BY <1>5, UnwindSaga DEF Promise!Next
<1>6. ASSUME NEW s \in Slots, UndoSkip(s) PROVE UNCHANGED Promise!vars
  <2>1. \A r \in Slots \ {s} : Same(r)
    BY <1>1, <1>6, UndoSkipSlot
  <2>2. frame'[s].at = "unwind" /\ frame[s].at = "unwind"
    BY <1>1, <1>6 DEF UndoSkip, TypeOK, Frames
  <2>3. UNCHANGED <<status, undoable, effects, torn, failed>>
    BY <1>6 DEF UndoSkip, slotVars
  <2>4. held'[s] = held[s]
    BY Zenon, <2>2, <2>3 DEF held, InFlight
  <2> QED
    BY Zenon, <2>1, <2>3, <2>4, Invisible
<1>7. ASSUME NEW s \in Slots, NEW ok \in BOOLEAN, UndoReturns(s, ok) PROVE Promise!Next
  <2> DEFINE k == frame[s].remaining - 1
  <2>1. \A r \in Slots \ {s} : Same(r)
    BY Zenon, <1>1, <1>7, UndoReturnsSlot
  <2>2. /\ frame[s].at = "unwind" /\ frame[s].remaining > 0 /\ frame'[s].at = "unwind"
        /\ UNCHANGED <<status, undoable, torn>>
    BY <1>1, <1>7 DEF UndoReturns, TypeOK, Frames, slotVars
  <2>3. \/ effects'[s] = effects[s] \ {k} /\ failed' = failed
        \/ /\ effects'[s] \in {effects[s], effects[s] \ {k}}
           /\ failed' = [failed EXCEPT ![s] = @ \union {k}]
    <3>1. CASE ok
      BY <1>1, <1>7, <3>1 DEF UndoReturns, TypeOK
    <3>2. CASE ~ok
      BY SMTT(40), <1>1, <1>7, <3>2 DEF UndoReturns, TypeOK
    <3> QED
      BY Zenon, <3>1, <3>2
  <2>4. Promise!Reverse(s, k)
    BY Zenon, <2>1, <2>2, <2>3, ReverseSaga
  <2>5. k \in Steps
    BY <1>1, <2>2, SizeAssumption DEF TypeOK, Frames, Steps
  <2> QED
    BY Zenon, <2>4, <2>5 DEF Promise!Next, Promise!Steps, Steps
<1>8. ASSUME NEW s \in Slots, UnwindEnds(s) PROVE Promise!Next
  BY Zenon, <1>8, FinishSaga DEF Promise!Next
<1>9. ASSUME NEW s \in Slots, KeepEvidence(s) \/ RecoverKeep(s) PROVE UNCHANGED Promise!vars
  <2>1. /\ frame[s].at = "over" /\ frame' = [frame EXCEPT ![s] = NoFrame]
        /\ UNCHANGED <<slotVars, effects, torn, failed, journal>>
    BY Zenon, <1>9 DEF KeepEvidence, RecoverKeep
  <2>2. \A r \in Slots \ {s} : Same(r)
    BY Zenon, <1>1, <2>1, LetGoSlot
  <2>3. held'[s] = held[s]
    BY Zenon, <1>1, <2>1 DEF held, InFlight, TypeOK, NoFrame, At
  <2> QED
    BY Zenon, <2>1, <2>2, <2>3, Invisible DEF slotVars
<1>10. ASSUME NEW s \in Slots, workflow_release(s) \/ RecoverRelease(s) PROVE Promise!Next
  BY Zenon, <1>10, ForgetSaga DEF workflow_release, RecoverRelease, Promise!Next
<1>11. ASSUME NEW s \in Slots, Fault(s) PROVE Promise!Next \/ UNCHANGED Promise!vars
  BY Zenon, <1>11, FaultSaga DEF Promise!Next, Promise!Steps, Steps
<1>12. ASSUME UNCHANGED <<slotVars, frame, effects, torn, failed>>
       PROVE  UNCHANGED Promise!vars
  <2>1. \A s \in Slots : Phase(s)' = Phase(s) /\ InFlight(s)' = InFlight(s)
    BY <1>12 DEF Phase, InFlight, slotVars
  <2> QED
    BY Zenon, <1>12, <2>1 DEF Promise!vars, phases, held, slotVars
<1>13. CASE \/ RecoverBegin \/ RecoverEnd \/ UNCHANGED vars
            \/ \E s \in Slots : RecoverSkip(s)
  BY Zenon, <1>12, <1>13 DEF RecoverBegin, RecoverEnd, RecoverSkip, vars, slotVars
<1> QED
  BY Zenon, <1>2, <1>3, <1>4, <1>5, <1>6, <1>7, <1>8, <1>9, <1>10, <1>11, <1>13
     DEF Next, Advance, Dispose, RecoverStep

(* The engine implements the saga, whatever faults and recoveries occur.   *)
THEOREM Refinement == Spec => ImplementsSaga
<1>1. Init => Promise!Init
  BY InitSaga
<1>2. IInv /\ IInv' /\ [Next]_vars => [Promise!Next]_(Promise!vars)
  BY StepSaga
<1> QED
  BY <1>1, <1>2, Invariance, PTL DEF Spec, ImplementsSaga, Promise!Spec

=============================================================================
