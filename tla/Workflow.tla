------------------------------ MODULE Workflow ------------------------------
(***************************************************************************)
(* The durable workflow engine, services/workflow/workflow.c.              *)
(*                                                                         *)
(* A workflow occupies one slot of the static table.  workflow_run calls   *)
(* the steps' run callbacks in order; when one fails, wf_unwind calls the  *)
(* undo callbacks of the completed steps in the opposite order.  The       *)
(* engine is straight-line C, so a slot that somebody is executing also    *)
(* has an activation, frame[s]: where that C code is and its locals.  A    *)
(* fault destroys the activation and leaves the slot as it was;            *)
(* workflow_recover later finds such slots and unwinds them.               *)
(*                                                                         *)
(* effects, torn and failed are observations, not kernel memory: which     *)
(* steps' effects exist in the world, which of them a fault left behind    *)
(* without the engine having counted it, and whose undo reported failure   *)
(* in the latest unwinding.  journal is the set of step records wf_emit    *)
(* sent to the transaction log and the auditor.                            *)
(***************************************************************************)
EXTENDS Naturals, FiniteSets

CONSTANTS
  MaxActive,     \* WORKFLOW_MAX_ACTIVE: slots in the table
  MaxSteps,      \* WORKFLOW_MAX_STEPS: longest step table
  MaxFaults      \* bound on the number of faults in a behaviour

ASSUME SizeAssumption ==
  /\ MaxActive \in Nat \ {0}
  /\ MaxSteps \in Nat \ {0}
  /\ MaxFaults \in Nat

VARIABLES
  status,        \* workflow_status_t of each slot
  step_count,    \* number of steps; 0 when steps == NULL
  undoable,      \* indices of the steps whose undo is not NULL
  done_count,    \* the undo cursor
  frame,         \* the activation executing the slot, at = "none" if there is none
  scan,          \* slot index of a running workflow_recover, Idle otherwise
  effects, torn, failed, journal,
  faults

slotVars == <<status, step_count, undoable, done_count>>
vars == <<status, step_count, undoable, done_count, frame, scan,
          effects, torn, failed, journal, faults>>

-----------------------------------------------------------------------------

Slots == 0 .. MaxActive - 1
Steps == 0 .. MaxSteps - 1

Status == {"IDLE", "RUNNING", "COMMITTED", "ROLLING_BACK", "ROLLED_BACK", "FAILED"}
Terminal == {"COMMITTED", "ROLLED_BACK", "FAILED"}

(* Mutant of NonTerminal: recovery overlooks an interrupted reversal.      *)
MutNonTerminal == {"RUNNING"}

(* The states workflow_recover looks for.                                  *)
NonTerminal == {"RUNNING", "ROLLING_BACK"}

Events == {"BEGIN", "STEP_OK", "STEP_FAIL", "UNDO_OK", "UNDO_FAIL"}

(* Where an activation can be: workflow_begin has returned; in the run     *)
(* callback of step i; the callback has returned 0; STEP_OK is recorded    *)
(* but not counted; in wf_unwind; workflow_run has returned.               *)
Places == {"none", "claimed", "call", "returned", "recorded", "unwind", "over"}

Idle == MaxActive + 1
ScanPos == 0 .. MaxActive + 1

Frames == [at : Places, i : 0 .. MaxSteps, remaining : 0 .. MaxSteps]
At(place, i) == [at |-> place, i |-> i, remaining |-> 0]
NoFrame == At("none", 0)

Live(s) == frame[s].at # "none"

TypeOK ==
  /\ status \in [Slots -> Status]
  /\ step_count \in [Slots -> 0 .. MaxSteps]
  /\ undoable \in [Slots -> SUBSET Steps]
  /\ done_count \in [Slots -> 0 .. MaxSteps]
  /\ frame \in [Slots -> Frames]
  /\ scan \in ScanPos
  /\ effects \in [Slots -> SUBSET Steps]
  /\ torn \in [Slots -> SUBSET Steps]
  /\ failed \in [Slots -> SUBSET Steps]
  /\ journal \in [Slots -> SUBSET (Events \X Steps)]
  /\ faults \in 0 .. MaxFaults

Init ==
  /\ status = [s \in Slots |-> "IDLE"]
  /\ step_count = [s \in Slots |-> 0]
  /\ undoable = [s \in Slots |-> {}]
  /\ done_count = [s \in Slots |-> 0]
  /\ frame = [s \in Slots |-> NoFrame]
  /\ scan = Idle
  /\ effects = [s \in Slots |-> {}]
  /\ torn = [s \in Slots |-> {}]
  /\ failed = [s \in Slots |-> {}]
  /\ journal = [s \in Slots |-> {}]
  /\ faults = 0

-----------------------------------------------------------------------------
(* Slot lifecycle.                                                         *)

(* The first idle slot is claimed for n steps, those in U with an undo.    *)
(* The refusals of workflow_begin (bad count, table full) change nothing.  *)
workflow_begin(s, n, U) ==
  /\ scan = Idle
  /\ status[s] = "IDLE"
  /\ \A r \in Slots : r < s => status[r] # "IDLE"
  /\ status' = [status EXCEPT ![s] = "RUNNING"]
  /\ step_count' = [step_count EXCEPT ![s] = n]
  /\ undoable' = [undoable EXCEPT ![s] = U]
  /\ done_count' = [done_count EXCEPT ![s] = 0]
  /\ frame' = [frame EXCEPT ![s] = At("claimed", 0)]
  /\ UNCHANGED <<scan, effects, torn, failed, journal, faults>>

(* What workflow_release does to the slot.  The observations about the     *)
(* workflow end with it.                                                   *)
Cleared(s) ==
  /\ status' = [status EXCEPT ![s] = "IDLE"]
  /\ step_count' = [step_count EXCEPT ![s] = 0]
  /\ undoable' = [undoable EXCEPT ![s] = {}]
  /\ done_count' = [done_count EXCEPT ![s] = 0]
  /\ frame' = [frame EXCEPT ![s] = NoFrame]
  /\ effects' = [effects EXCEPT ![s] = {}]
  /\ torn' = [torn EXCEPT ![s] = {}]
  /\ failed' = [failed EXCEPT ![s] = {}]
  /\ journal' = [journal EXCEPT ![s] = {}]

workflow_release(s) ==
  /\ frame[s].at = "over"
  /\ Cleared(s)
  /\ UNCHANGED <<scan, faults>>

(* apply_update returns without releasing a slot whose undo chain failed.  *)
KeepEvidence(s) ==
  /\ frame[s].at = "over"
  /\ status[s] = "FAILED"
  /\ frame' = [frame EXCEPT ![s] = NoFrame]
  /\ UNCHANGED <<slotVars, scan, effects, torn, failed, journal, faults>>

-----------------------------------------------------------------------------
(* workflow_run.                                                           *)

Emit(s, event, k) == journal' = [journal EXCEPT ![s] = @ \union {<<event, k>>}]

(* Mutant of EnterStep: the intent record is not written.                  *)
MutEnterStep(s, i) ==
  /\ frame' = [frame EXCEPT ![s] = At("call", i)]
  /\ UNCHANGED journal

(* Enter the loop body for step i: the intent record precedes the call.    *)
EnterStep(s, i) ==
  /\ Emit(s, "BEGIN", i)
  /\ frame' = [frame EXCEPT ![s] = At("call", i)]

RunBegin(s) ==
  /\ frame[s].at = "claimed"
  /\ EnterStep(s, 0)
  /\ UNCHANGED <<slotVars, scan, effects, torn, failed, faults>>

(* The effect step i owns once its run has returned 0: none if the step    *)
(* declares no undo (include/workflow.h, workflow_step_t).                 *)
Effect(s, i) == {i} \intersect undoable[s]

StepReturnsOk(s) ==
  /\ frame[s].at = "call"
  /\ effects' = [effects EXCEPT ![s] = @ \union Effect(s, frame[s].i)]
  /\ frame' = [frame EXCEPT ![s].at = "returned"]
  /\ UNCHANGED <<slotVars, scan, torn, failed, journal, faults>>

RecordStep(s) ==
  /\ frame[s].at = "returned"
  /\ Emit(s, "STEP_OK", frame[s].i)
  /\ frame' = [frame EXCEPT ![s].at = "recorded"]
  /\ UNCHANGED <<slotVars, scan, effects, torn, failed, faults>>

(* done_count++, then the next iteration or the commit.                    *)
CountStep(s) ==
  /\ frame[s].at = "recorded"
  /\ done_count' = [done_count EXCEPT ![s] = @ + 1]
  /\ \/ /\ frame[s].i + 1 < step_count[s]
        /\ EnterStep(s, frame[s].i + 1)
        /\ UNCHANGED status
     \/ /\ frame[s].i + 1 = step_count[s]
        /\ status' = [status EXCEPT ![s] = "COMMITTED"]
        /\ frame' = [frame EXCEPT ![s].at = "over"]
        /\ UNCHANGED journal
  /\ UNCHANGED <<step_count, undoable, scan, effects, torn, failed, faults>>

-----------------------------------------------------------------------------
(* wf_unwind.                                                              *)

(* Mutant of EnterUnwind: the cursor misses the last completed step.       *)
MutEnterUnwind(s) ==
  /\ status' = [status EXCEPT ![s] = "ROLLING_BACK"]
  /\ frame' = [frame EXCEPT ![s] =
       [at |-> "unwind", i |-> 0,
        remaining |-> IF done_count[s] = 0 THEN 0 ELSE done_count[s] - 1]]
  /\ failed' = [failed EXCEPT ![s] = {}]

EnterUnwind(s) ==
  /\ status' = [status EXCEPT ![s] = "ROLLING_BACK"]
  /\ frame' = [frame EXCEPT ![s] = [at |-> "unwind", i |-> 0,
                                    remaining |-> done_count[s]]]
  /\ failed' = [failed EXCEPT ![s] = {}]

(* Mutant of StepFails: the failure is recorded, then ignored.             *)
MutStepFails(s) ==
  /\ frame[s].at = "call"
  /\ Emit(s, "STEP_FAIL", frame[s].i)
  /\ frame' = [frame EXCEPT ![s].at = "recorded"]
  /\ UNCHANGED <<slotVars, scan, effects, torn, failed, faults>>

(* A step whose run fails owns no completed effect.                        *)
StepFails(s) ==
  /\ frame[s].at = "call"
  /\ Emit(s, "STEP_FAIL", frame[s].i)
  /\ EnterUnwind(s)
  /\ UNCHANGED <<step_count, undoable, done_count, scan, effects, torn, faults>>

(* Mutant of UndoSkip: "continue" before the cursor moves.                 *)
MutUndoSkip(s) ==
  /\ frame[s].at = "unwind"
  /\ frame[s].remaining > 0
  /\ frame[s].remaining - 1 \notin undoable[s]
  /\ UNCHANGED vars

(* One iteration of the undo loop: skip a NULL undo, or call it and record *)
(* what it returned.  A failing undo may or may not have removed the       *)
(* effect; the loop goes on either way.  Its fixed bound on iterations is  *)
(* no guard of its own: remaining starts at most at MaxSteps.              *)
UndoSkip(s) ==
  /\ frame[s].at = "unwind"
  /\ frame[s].remaining > 0
  /\ frame[s].remaining - 1 \notin undoable[s]
  /\ frame' = [frame EXCEPT ![s].remaining = @ - 1]
  /\ UNCHANGED <<slotVars, scan, effects, torn, failed, journal, faults>>

(* Mutant of UndoReturns: the undo chain runs in step order.               *)
MutUndoReturns(s, ok) ==
  LET k == done_count[s] - frame[s].remaining IN
  /\ frame[s].at = "unwind"
  /\ frame[s].remaining > 0
  /\ k \in undoable[s]
  /\ frame' = [frame EXCEPT ![s].remaining = @ - 1]
  /\ Emit(s, IF ok THEN "UNDO_OK" ELSE "UNDO_FAIL", k)
  /\ effects' = [effects EXCEPT ![s] = @ \ {k}]
  /\ failed' = [failed EXCEPT ![s] = @ \union (IF ok THEN {} ELSE {k})]
  /\ UNCHANGED <<slotVars, scan, torn, faults>>

UndoReturns(s, ok) ==
  LET k == frame[s].remaining - 1 IN
  /\ frame[s].at = "unwind"
  /\ frame[s].remaining > 0
  /\ k \in undoable[s]
  /\ frame' = [frame EXCEPT ![s].remaining = k]
  /\ Emit(s, IF ok THEN "UNDO_OK" ELSE "UNDO_FAIL", k)
  /\ effects' \in {[effects EXCEPT ![s] = @ \ {k}]} \union (IF ok THEN {} ELSE {effects})
  /\ failed' = [failed EXCEPT ![s] = @ \union (IF ok THEN {} ELSE {k})]
  /\ UNCHANGED <<slotVars, scan, torn, faults>>

(* Mutant of UnwindEnds: undo_failed is not looked at.                     *)
MutUnwindEnds(s) ==
  /\ frame[s].at = "unwind"
  /\ frame[s].remaining = 0
  /\ done_count' = [done_count EXCEPT ![s] = 0]
  /\ status' = [status EXCEPT ![s] = "ROLLED_BACK"]
  /\ frame' = [frame EXCEPT ![s].at = "over"]
  /\ UNCHANGED <<step_count, undoable, scan, effects, torn, failed, journal, faults>>

UnwindEnds(s) ==
  /\ frame[s].at = "unwind"
  /\ frame[s].remaining = 0
  /\ done_count' = [done_count EXCEPT ![s] = 0]
  /\ status' = [status EXCEPT ![s] = IF failed[s] # {} THEN "FAILED" ELSE "ROLLED_BACK"]
  /\ frame' = [frame EXCEPT ![s].at = "over"]
  /\ UNCHANGED <<step_count, undoable, scan, effects, torn, failed, journal, faults>>

-----------------------------------------------------------------------------
(* workflow_recover.  It cannot tell an abandoned slot from one whose      *)
(* owner is still alive, so its callers run it while no workflow executes: *)
(* kmain before any subsystem starts one, test_workflow between them.      *)

RecoverBegin ==
  /\ scan = Idle
  /\ \A s \in Slots : ~Live(s)
  /\ scan' = 0
  /\ UNCHANGED <<slotVars, frame, effects, torn, failed, journal, faults>>

RecoverSkip(s) ==
  /\ scan = s
  /\ status[s] \notin NonTerminal
  /\ ~Live(s)
  /\ scan' = s + 1
  /\ UNCHANGED <<slotVars, frame, effects, torn, failed, journal, faults>>

(* A running slot without a step table would be marked FAILED;             *)
(* workflow_begin leaves none.                                             *)
RecoverUnwind(s) ==
  /\ scan = s
  /\ status[s] \in NonTerminal
  /\ ~Live(s)
  /\ EnterUnwind(s)
  /\ UNCHANGED <<step_count, undoable, done_count, scan, effects, torn,
                 journal, faults>>

(* wf_unwind has returned to the scan: keep a FAILED slot, release a clean *)
(* one.                                                                    *)
RecoverKeep(s) ==
  /\ scan = s
  /\ frame[s].at = "over"
  /\ status[s] = "FAILED"
  /\ frame' = [frame EXCEPT ![s] = NoFrame]
  /\ scan' = s + 1
  /\ UNCHANGED <<slotVars, effects, torn, failed, journal, faults>>

RecoverRelease(s) ==
  /\ scan = s
  /\ frame[s].at = "over"
  /\ status[s] = "ROLLED_BACK"
  /\ Cleared(s)
  /\ scan' = s + 1
  /\ UNCHANGED faults

RecoverEnd ==
  /\ scan = MaxActive
  /\ scan' = Idle
  /\ UNCHANGED <<slotVars, frame, effects, torn, failed, journal, faults>>

-----------------------------------------------------------------------------
(* A fault kills whoever executes slot s, in code the engine calls or that *)
(* calls it: in wf_emit, in the owner, or in a callback that has or has    *)
(* not yet had its effect.  Assignments with no call between them are one  *)
(* step.  If the victim was workflow_recover, the scan dies too.           *)
Fault(s) ==
  LET f == frame[s] IN
  /\ Live(s)
  /\ faults < MaxFaults
  /\ faults' = faults + 1
  /\ effects' \in {effects} \union
       (CASE f.at = "call" -> {[effects EXCEPT ![s] = @ \union Effect(s, f.i)]}
          [] f.at = "unwind" /\ f.remaining > 0 ->
               {[effects EXCEPT ![s] = @ \ Effect(s, f.remaining - 1)]}
          [] OTHER -> {})
  /\ torn' = [torn EXCEPT ![s] = @ \union
       (IF f.at \in {"call", "returned", "recorded"}
        THEN {f.i} \intersect effects'[s] ELSE {})]
  /\ frame' = [frame EXCEPT ![s] = NoFrame]
  /\ scan' = IF scan = s THEN Idle ELSE scan
  /\ UNCHANGED <<slotVars, failed, journal>>

-----------------------------------------------------------------------------

(* What the activation of slot s does next, whoever runs it.               *)
Advance(s) ==
  \/ RunBegin(s)
  \/ StepReturnsOk(s)
  \/ RecordStep(s)
  \/ CountStep(s)
  \/ StepFails(s)
  \/ UndoSkip(s)
  \/ \E ok \in BOOLEAN : UndoReturns(s, ok)
  \/ UnwindEnds(s)

(* The owner is the one who gives the slot back; during a recovery it is   *)
(* the scan.                                                               *)
Dispose(s) == scan # s /\ (workflow_release(s) \/ KeepEvidence(s))

RecoverStep ==
  \/ \E s \in Slots : \/ RecoverSkip(s)
                      \/ RecoverUnwind(s)
                      \/ RecoverKeep(s)
                      \/ RecoverRelease(s)
  \/ RecoverEnd

Next ==
  \/ \E s \in Slots, n \in 1 .. MaxSteps :
       \E U \in SUBSET (0 .. n - 1) : workflow_begin(s, n, U)
  \/ \E s \in Slots : Advance(s) \/ Dispose(s)
  \/ RecoverBegin
  \/ RecoverStep
  \/ \E s \in Slots : Fault(s)

Spec == Init /\ [][Next]_vars

(* Callbacks return, and the engine's C code runs to its end once entered. *)
(* Nothing schedules a recovery or a fault.                                *)
Fairness ==
  /\ \A s \in Slots : WF_vars(Advance(s))
  /\ WF_vars(RecoverStep)

FairSpec == Spec /\ Fairness

-----------------------------------------------------------------------------
(* Safety.                                                                 *)

Recorded(s, event) == {k \in Steps : <<event, k>> \in journal[s]}

(* workflow_run reports COMMITTED only when every step has been counted    *)
(* and the effect of every reversible step is in place.                    *)
CommitComplete ==
  \A s \in Slots : status[s] = "COMMITTED" =>
    /\ done_count[s] = step_count[s]
    /\ effects[s] = undoable[s]

(* What wf_unwind may leave behind.  ROLLED_BACK leaves nothing but the    *)
(* effect of the one step that a fault interrupted before done_count++;    *)
(* FAILED leaves, besides, only effects whose undo reported failure, and   *)
(* there is at least one such report.                                      *)
Residue ==
  \A s \in Slots :
    /\ status[s] = "ROLLED_BACK" => effects[s] \subseteq torn[s]
    /\ status[s] = "FAILED" =>
         /\ effects[s] \subseteq torn[s] \union failed[s]
         /\ failed[s] # {} /\ failed[s] \subseteq Recorded(s, "UNDO_FAIL")
    /\ \A j, k \in torn[s] : j = k

(* The intent record is written ahead: at every moment, also after a       *)
(* fault, each effect in the world has its BEGIN record, and a forward     *)
(* workflow's STEP_OK records name only effects that exist.                *)
WriteAhead ==
  \A s \in Slots :
    /\ effects[s] \subseteq Recorded(s, "BEGIN")
    /\ status[s] = "RUNNING" =>
         Recorded(s, "STEP_OK") \intersect undoable[s] \subseteq effects[s]

(* workflow_recover leaves no slot it has passed in a non-terminal state,  *)
(* so none is left when it returns.                                        *)
RecoverySettles ==
  scan # Idle =>
    \A s \in Slots : s < scan => status[s] \in Terminal \union {"IDLE"}

-----------------------------------------------------------------------------
(* The inductive invariant.                                                *)

Counted(s) == undoable[s] \intersect (0 .. done_count[s] - 1)
Running == {"claimed", "call", "returned", "recorded"}

(* Which activations a status admits.                                      *)
PlaceInv(s) ==
  /\ frame[s].at \in Running => status[s] = "RUNNING"
  /\ frame[s].at = "unwind" => status[s] = "ROLLING_BACK"
  /\ frame[s].at = "over" => status[s] \in Terminal
  /\ status[s] = "IDLE" <=> step_count[s] = 0

CursorInv(s) ==
  /\ undoable[s] \subseteq 0 .. step_count[s] - 1
  /\ done_count[s] <= step_count[s]
  /\ status[s] = "RUNNING" => done_count[s] < step_count[s]
  /\ frame[s].at \in Running => frame[s].i = done_count[s]
  /\ frame[s].at = "claimed" => done_count[s] = 0
  /\ frame[s].at = "unwind" => frame[s].remaining <= done_count[s]

(* Which effects exist: exactly the counted ones and the one in flight     *)
(* while the workflow goes forward; while it goes back, those the cursor   *)
(* has not reached, torn ones, and those whose undo failed.                *)
EffectInv(s) ==
  /\ status[s] = "IDLE" => effects[s] = {} /\ torn[s] = {}
  /\ status[s] \notin {"ROLLING_BACK", "ROLLED_BACK", "FAILED"} => failed[s] = {}
  /\ frame[s].at \in {"claimed", "call"} =>
       effects[s] = Counted(s) /\ torn[s] = {}
  /\ frame[s].at \in {"returned", "recorded"} =>
       effects[s] = Counted(s) \union Effect(s, frame[s].i) /\ torn[s] = {}
  /\ status[s] = "RUNNING" /\ ~Live(s) =>
       /\ effects[s] = Counted(s) \union torn[s]
       /\ torn[s] \subseteq {done_count[s]}
  /\ status[s] = "ROLLING_BACK" =>
       effects[s] \subseteq Counted(s) \union torn[s]
  /\ frame[s].at = "unwind" =>
       effects[s] \subseteq (0 .. frame[s].remaining - 1) \union torn[s] \union failed[s]
  /\ \A j \in torn[s] : done_count[s] <= j
  /\ status[s] = "COMMITTED" => torn[s] = {}

JournalInv(s) ==
  /\ frame[s].at \in {"call", "returned", "recorded"} =>
       <<"BEGIN", frame[s].i>> \in journal[s]
  /\ failed[s] \subseteq Recorded(s, "UNDO_FAIL")
  /\ status[s] = "IDLE" => journal[s] = {}

(* While workflow_recover runs, nothing else does, and it has settled the  *)
(* slots it has passed.                                                    *)
ScanInv ==
  scan # Idle => \A s \in Slots : Live(s) =>
    scan = s /\ frame[s].at \in {"unwind", "over"}

(* Together with the safety properties: preserved by every step.           *)
IInv ==
  /\ TypeOK
  /\ \A s \in Slots : PlaceInv(s) /\ CursorInv(s) /\ EffectInv(s) /\ JournalInv(s)
  /\ ScanInv
  /\ CommitComplete /\ Residue /\ WriteAhead /\ RecoverySettles

-----------------------------------------------------------------------------
(* Action properties.                                                      *)

(* Effects are taken back latest first: when one disappears, every later   *)
(* one that remains is a torn step's or one whose undo failed.             *)
ReverseOrder ==
  [][\A s \in Slots : \A k \in effects[s] \ effects'[s] :
       status'[s] # "IDLE" =>
         \A j \in effects[s] : j > k => j \in torn[s] \union failed[s]]_vars

(* A committed workflow is never reversed, by its owner or by a recovery:  *)
(* it stays as it is until its slot is released.                           *)
CommitIsFinal ==
  [][\A s \in Slots : status[s] = "COMMITTED" =>
       \/ status'[s] = "IDLE"
       \/ status'[s] = "COMMITTED" /\ effects'[s] = effects[s]]_vars

-----------------------------------------------------------------------------
(* Liveness.                                                               *)

(* A workflow somebody executes reaches a terminal status, and a recovery  *)
(* returns, unless a fault takes the executor away: neither the undo chain *)
(* nor the scan ever spins on a slot.                                      *)
RunsToAnEnd ==
  /\ \A s \in Slots : Live(s) ~> (status[s] \in Terminal \/ ~Live(s))
  /\ (scan # Idle) ~> (scan = Idle)

-----------------------------------------------------------------------------
(* The engine implements the saga.  An effect is held once done_count      *)
(* counts its step; the step in flight and a torn step are not.            *)

InFlight(s) ==
  IF frame[s].at \in {"returned", "recorded"} THEN {frame[s].i} ELSE {}

Phase(s) ==
  CASE status[s] = "IDLE" -> "free"
    [] status[s] = "RUNNING" -> "forward"
    [] status[s] = "ROLLING_BACK" -> "backward"
    [] status[s] = "COMMITTED" -> "committed"
    [] status[s] = "ROLLED_BACK" -> "reversed"
    [] status[s] = "FAILED" -> "stuck"

phases == [s \in Slots |-> Phase(s)]
held == [s \in Slots |-> effects[s] \ (torn[s] \union InFlight(s))]

Promise == INSTANCE Saga WITH
  Workflows <- Slots,
  phase <- phases,
  owed <- undoable,
  held <- held,
  given <- failed

(* Every step of the engine, of a recovery and of a fault is a step the    *)
(* saga allows, for the effects the engine has counted.                    *)
ImplementsSaga == Promise!Spec

=============================================================================
