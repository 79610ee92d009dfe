---------------------------- MODULE UpdateProofs ----------------------------
(***************************************************************************)
(* Proofs about the update pipeline, for any number of updates, workflow   *)
(* slots, checkpoint slots and faults, while updates do not overlap.       *)
(*                                                                         *)
(* All updates share one name buffer, so everything rests on there being   *)
(* one update at a time that the name in it is for: the one that is set    *)
(* up, or the slot that is bound to the name.                              *)
(***************************************************************************)
EXTENDS Update, WorkflowProofs

Active(s) == status[s] \in NonTerminal \/ Live(s)
InStep(s) == frame[s].at \in {"call", "returned", "recorded"}
Bound(s) == InStep(s) \/ (Active(s) /\ made[s] # NoName)
IsInit(u) == state[u].status = "INIT"

Stages == {"CHECKPOINT", "VERIFY", "SANDBOX", "TEST", "COMMIT"}
Statuses == {"none", "INIT", "COMPLETE", "ROLLBACK", "ERROR"} \union Stages

StateFits ==
  state \in [Updates -> [status : Statuses, path : Paths \union {NoPath}, named : BOOLEAN]]

StoreFits ==
  /\ DOMAIN store \subseteq Names \union OwnKeys
  /\ checkpoint \in Names \union {NoName}
  /\ made \in [Slots -> Names \union {NoName}] /\ DOMAIN base = Slots
  /\ ctx \in [Slots -> Updates \union {NoUpdate}]
  /\ StateFits

(* Every workflow is an update, and its name buffer has been filled.       *)
Shape(s) ==
  /\ status[s] # "IDLE" => /\ step_count[s] = UpdateSteps /\ undoable[s] = Undoable
                           /\ ctx[s] \in Updates /\ checkpoint # NoName
  /\ status[s] = "IDLE" => ctx[s] = NoUpdate
  /\ status[s] = "ROLLING_BACK" => done_count[s] < UpdateSteps

(* Whom the name is for.                                                   *)
OneAtATime ==
  /\ \A u, v \in Updates : IsInit(u) /\ IsInit(v) => u = v
  /\ \A u \in Updates : IsInit(u) => /\ checkpoint # NoName /\ state[u].named
                                     /\ \A s \in Slots : ~Bound(s)
  /\ \A s \in Slots : frame[s].at = "claimed" => ctx[s] \in Updates /\ IsInit(ctx[s])
  /\ \A s, r \in Slots : Bound(s) /\ Bound(r) => s = r
  /\ \A s, r \in Slots : Live(s) /\ Live(r) => s = r
  /\ \A s, r \in Slots : Live(r) /\ scan # r /\ Bound(s) => r = s

Counting(s) == done_count[s] > 0 \/ frame[s].at \in {"returned", "recorded"}

(* What the name a slot has made says of it.                               *)
MadeInv(s) ==
  /\ Active(s) /\ made[s] # NoName => made[s] = checkpoint
  /\ made[s] # NoName => backend # "NULL"
  /\ Counting(s) => made[s] # NoName
  /\ status[s] \in NonTerminal /\ ~Counting(s) /\ 0 \notin torn[s] => made[s] = NoName
  /\ InStep(s) \/ (status[s] \in NonTerminal /\ made[s] # NoName) =>
       state[ctx[s]].named /\ state[ctx[s]].status \in Stages
  /\ Live(s) /\ status[s] \in {"RUNNING", "COMMITTED"} => state[ctx[s]].named

(* Going forward, the snapshot is there.                                   *)
HeldInv(s) ==
  status[s] = "RUNNING" /\ Counting(s) =>
    made[s] \in DOMAIN store /\ store[made[s]] = base[s]

(* Once the undo chain is through, it is not, unless the step that makes   *)
(* it was torn.                                                            *)
GoneInv(s) ==
  (/\ 0 \notin torn[s]
   /\ \/ frame[s].at = "unwind" /\ frame[s].remaining = 0
      \/ frame[s].at = "over" /\ status[s] # "COMMITTED")
    => made[s] \notin DOMAIN store

PipelineInv(s) == Shape(s) /\ MadeInv(s) /\ HeldInv(s) /\ GoneInv(s)

(* Before the first fault.                                                 *)
UnharmedInv(s) ==
  faults = 0 =>
    /\ failed[s] = {} /\ status[s] # "FAILED"
    /\ ~Live(s) => status[s] \notin NonTerminal
    /\ frame[s].at = "unwind" /\ frame[s].remaining > 0 => made[s] \in DOMAIN store

(* The snapshots that are lost, or will be: those of slots that nobody     *)
(* will reverse, and those whose making was torn.                          *)
Keepers == {r \in Slots : Active(r) /\ 0 \notin torn[r]}
Debt == (DOMAIN store \intersect Names) \ {made[s] : s \in Keepers}
DebtInv == \E cost \in [1 .. faults -> Names \union {NoName}] : Debt \subseteq Range(cost)

UpdateInv ==
  /\ IInv /\ StoreFits /\ OneAtATime /\ DebtInv
  /\ \A s \in Slots : PipelineInv(s) /\ UnharmedInv(s)

-----------------------------------------------------------------------------
(* What the invariant says of the states.                                  *)

LEMMA UpdateStates ==
  UpdateInv => SnapshotHeld /\ CleanReversal /\ LeaksNeedFaults /\ NoFaultNoFailure
<1>. SUFFICES ASSUME UpdateInv
              PROVE  SnapshotHeld /\ CleanReversal /\ LeaksNeedFaults /\ NoFaultNoFailure
  OBVIOUS
<1>1. SnapshotHeld
  BY DEF UpdateInv, PipelineInv, HeldInv, Counting, SnapshotHeld
<1>2. CleanReversal
  BY DEF UpdateInv, PipelineInv, GoneInv, CleanReversal
<1>3. NoFaultNoFailure
  BY DEF UpdateInv, UnharmedInv, NoFaultNoFailure
<1>4. LeaksNeedFaults
  <2>. DEFINE owned == {made[s] : s \in {r \in Slots : status[r] \in NonTerminal \/ Live(r)}}
              Lost == (DOMAIN store \intersect Names) \ owned
  <2>1. Lost \subseteq Debt
    BY DEF Debt, Keepers, Active
  <2>. QED  BY <2>1 DEF UpdateInv, DebtInv, LeaksNeedFaults
<1>. QED  BY <1>1, <1>2, <1>3, <1>4

LEMMA Positive ==
  ~(0 > 0) /\ \A n \in Nat : n + 1 > 0 /\ n + 1 # 0 /\ (n > 0 \/ n = 0) /\ (1 <= n => n > 0)
  OBVIOUS

LEMMA FaultsCount == ASSUME UpdateInv PROVE faults \in Nat
<1>1. faults \in 0 .. MaxFaults
  BY Zenon DEF UpdateInv, IInv, TypeOK
<1>. QED  BY <1>1, SizeAssumption

LEMMA UpdateInits == UpdateInit => UpdateInv
<1>. SUFFICES ASSUME UpdateInit  PROVE UpdateInv
  OBVIOUS
<1>1. IInv
  BY InitIInv DEF UpdateInit
<1>2. DOMAIN store = {} /\ Debt = {}
  BY DEF UpdateInit, Debt
<1>3. DebtInv
  <2>1. [i \in 1 .. faults |-> NoName] \in [1 .. faults -> Names \union {NoName}]
    OBVIOUS
  <2>. QED  BY Zenon, <1>2, <2>1 DEF DebtInv
<1>4. StoreFits
  BY <1>2 DEF UpdateInit, StoreFits, StateFits, Statuses
<1>5. \A s \in Slots : /\ status[s] = "IDLE" /\ frame[s].at = "none" /\ done_count[s] = 0
                       /\ made[s] = NoName /\ failed[s] = {}
  BY DEF UpdateInit, Init, NoFrame, At
<1>6. \A s \in Slots : ~Live(s) /\ ~Active(s) /\ ~Bound(s) /\ ~Counting(s)
  BY <1>5 DEF Live, Active, Bound, InStep, NonTerminal, Counting
<1>7. OneAtATime
  <2>1. \A u \in Updates : ~IsInit(u)
    BY DEF UpdateInit, IsInit
  <2>. QED  BY <1>5, <1>6, <2>1 DEF OneAtATime
<1>8. \A s \in Slots : PipelineInv(s) /\ UnharmedInv(s)
  <2>1. \A s \in Slots : ctx[s] = NoUpdate
    BY DEF UpdateInit
  <2>. QED  BY <1>5, <1>6, <2>1 DEF PipelineInv, Shape, MadeInv, HeldInv, GoneInv, UnharmedInv,
            NonTerminal, InStep
<1>. QED  BY <1>1, <1>3, <1>4, <1>7, <1>8 DEF UpdateInv

-----------------------------------------------------------------------------
(* A step of slot s, and what it means for the others.                     *)

Others(s) ==
  \A r \in Slots : r # s => /\ Same(r) /\ made'[r] = made[r] /\ base'[r] = base[r]
                            /\ ctx'[r] = ctx[r]

(* The store changes at the name the slot is bound to, if at all.          *)
StoreStep(s) ==
  \/ UNCHANGED store
  \/ /\ Live(s) /\ Bound(s)
     /\ \A k : k # checkpoint => /\ k \in DOMAIN store' <=> k \in DOMAIN store
                                 /\ k \in DOMAIN store => store'[k] = store[k]

(* An update_state changes at the hands of its owner.                      *)
StateStep(s) ==
  /\ \A u \in Updates : /\ state'[u].named = state[u].named
                        /\ state'[u].status = "INIT" => state[u].status = "INIT"
  /\ UNCHANGED state \/ (Live(s) /\ scan # s)

LEMMA OthersKeep ==
  ASSUME UpdateInv, NEW s \in Slots, NEW r \in Slots, r # s, Others(s), StoreStep(s),
         StateStep(s), UNCHANGED <<checkpoint, backend>>, faults' = 0 => faults = 0
  PROVE  PipelineInv(r)' /\ UnharmedInv(r)'
<1>1. Same(r) /\ made'[r] = made[r] /\ base'[r] = base[r] /\ ctx'[r] = ctx[r]
  BY DEF Others
<1>2. PipelineInv(r) /\ UnharmedInv(r) /\ OneAtATime /\ StoreFits
  BY DEF UpdateInv
<1>3. Shape(r)'
  BY <1>1, <1>2 DEF PipelineInv, Shape, Same
<1>4. MadeInv(r)'
  <2>1. InStep(r) \/ (status[r] \in NonTerminal /\ made[r] # NoName) =>
          state'[ctx[r]].named /\ state'[ctx[r]].status \in Stages
    <3>. SUFFICES ASSUME InStep(r) \/ (status[r] \in NonTerminal /\ made[r] # NoName)
                  PROVE  state'[ctx[r]].named /\ state'[ctx[r]].status \in Stages
      OBVIOUS
    <3>1. Bound(r)
      BY DEF Bound, Active
    <3>2. UNCHANGED state
      BY <1>2, <3>1 DEF StateStep, OneAtATime
    <3>. QED  BY Zenon, <1>2, <3>2 DEF PipelineInv, MadeInv
  <2>2. Live(r) /\ status[r] \in {"RUNNING", "COMMITTED"} => state'[ctx[r]].named
    <3>. SUFFICES ASSUME Live(r), status[r] \in {"RUNNING", "COMMITTED"}
                  PROVE  state'[ctx[r]].named
      OBVIOUS
    <3>1. ctx[r] \in Updates /\ state[ctx[r]].named
      BY Zenon, <1>2 DEF PipelineInv, MadeInv, Shape
    <3>2. state'[ctx[r]].named = state[ctx[r]].named
      BY <3>1, Zenon DEF StateStep
    <3>. QED  BY <3>1, <3>2, Zenon
  <2>3. /\ Active(r)' <=> Active(r)
        /\ Counting(r)' <=> Counting(r)
        /\ Live(r)' <=> Live(r)
        /\ InStep(r)' <=> InStep(r)
    BY Zenon, <1>1 DEF Same, Active, Counting, Live, InStep
  <2>. QED  BY Zenon, <1>1, <1>2, <2>1, <2>2, <2>3 DEF PipelineInv, MadeInv, Same
<1>5. HeldInv(r)'
  <2>. SUFFICES ASSUME status[r] = "RUNNING", Counting(r)
                PROVE  made[r] \in DOMAIN store' /\ store'[made[r]] = base[r]
    BY Zenon, <1>1 DEF HeldInv, Same, Counting
  <2>1. Bound(r) /\ made[r] \in DOMAIN store /\ store[made[r]] = base[r]
    BY Zenon, <1>2 DEF PipelineInv, HeldInv, MadeInv, Bound, Active, NonTerminal
  <2>2. UNCHANGED store
    BY <1>2, <2>1 DEF StoreStep, OneAtATime
  <2>. QED  BY <2>1, <2>2
<1>6. Live(r) => UNCHANGED store
  BY <1>2 DEF StoreStep, OneAtATime
<1>7. GoneInv(r)'
  BY Zenon, <1>1, <1>2, <1>6 DEF PipelineInv, GoneInv, Same, Live
<1>8. UnharmedInv(r)'
  BY <1>1, <1>2, <1>6 DEF UnharmedInv, Same, Live
<1>. QED  BY <1>3, <1>4, <1>5, <1>7, <1>8 DEF PipelineInv

(* The executor of slot s takes a step.                                    *)
LEMMA OneKeeps ==
  ASSUME UpdateInv, NEW s \in Slots, Live(s), Others(s), StateStep(s), UNCHANGED checkpoint,
         frame'[s].at # "claimed",
         Bound(s)' => Bound(s) \/ (frame[s].at = "claimed" /\ state'[ctx[s]].status # "INIT"),
         scan' = scan \/ (scan = s /\ ~Live(s)')
  PROVE  OneAtATime'
<1>1. OneAtATime
  BY DEF UpdateInv
<1>2. ASSUME NEW r \in Slots, r # s
      PROVE  /\ Bound(r)' <=> Bound(r)
             /\ ~Live(r) /\ ~Live(r)'
             /\ frame'[r].at # "claimed"
  <2>1. Same(r) /\ made'[r] = made[r]
    BY <1>2 DEF Others
  <2>2. ~Live(r)
    BY <1>1, <1>2 DEF OneAtATime
  <2>. QED  BY Zenon, <2>1, <2>2 DEF Same, Bound, InStep, Active, Live
<1>3. ASSUME NEW u \in Updates, IsInit(u)'
      PROVE  IsInit(u) /\ state'[u].named /\ checkpoint' # NoName
             /\ \A r \in Slots : ~Bound(r)
  <2>1. state'[u].named = state[u].named /\ IsInit(u)
    BY <1>3, Zenon DEF StateStep, IsInit
  <2>2. checkpoint # NoName /\ state[u].named /\ \A r \in Slots : ~Bound(r)
    BY <1>1, <2>1, Zenon DEF OneAtATime
  <2>. QED  BY <2>1, <2>2, Zenon
<1>4. ASSUME NEW u \in Updates, IsInit(u)', NEW r \in Slots  PROVE ~Bound(r)'
  <2>1. CASE r # s
    BY <1>2, <1>3, <1>4, <2>1
  <2>2. CASE r = s
    <3>. SUFFICES ASSUME Bound(s)'  PROVE FALSE
      BY <2>2
    <3>1. frame[s].at = "claimed" /\ state'[ctx[s]].status # "INIT"
      BY <1>3, <1>4
    <3>2. IsInit(ctx[s]) /\ ctx[s] \in Updates
      BY <1>1, <3>1 DEF OneAtATime
    <3>3. u = ctx[s]
      BY <1>1, <1>3, <1>4, <3>2 DEF OneAtATime
    <3>. QED  BY <1>4, <3>1, <3>3 DEF IsInit
  <2>. QED  BY <2>1, <2>2
<1>5. ASSUME NEW u \in Updates, NEW v \in Updates, IsInit(u)', IsInit(v)'  PROVE u = v
  BY Zenon, <1>1, <1>3, <1>5 DEF OneAtATime
<1>6. ASSUME NEW r \in Slots, r # s, Bound(r)', Bound(s)'  PROVE FALSE
  <2>1. Bound(r)
    BY <1>2, <1>6
  <2>2. frame[s].at = "claimed"
    BY Zenon, <1>1, <1>6, <2>1 DEF OneAtATime
  <2>. QED  BY Zenon, <1>1, <2>1, <2>2 DEF OneAtATime
<1>7. ASSUME NEW r \in Slots, NEW t \in Slots, Bound(r)', Bound(t)'  PROVE r = t
  <2>1. CASE r # s /\ t # s
    BY Zenon, <1>1, <1>2, <1>7, <2>1 DEF OneAtATime
  <2>. QED  BY <1>6, <1>7, <2>1
<1>8. ASSUME NEW r \in Slots, NEW t \in Slots, Live(r)', scan' # r, Bound(t)'  PROVE r = t
  <2>1. r = s
    BY <1>2, <1>8
  <2>2. CASE t # s
    <3>1. Bound(t) /\ scan # s
      BY Zenon, <1>2, <1>8, <2>1, <2>2
    <3>. QED  BY Zenon, <1>1, <2>1, <3>1 DEF OneAtATime
  <2>. QED  BY <2>1, <2>2
<1>9. \A r \in Slots : frame'[r].at # "claimed"
  BY Zenon, <1>2
<1>10. \A r, t \in Slots : Live(r)' /\ Live(t)' => r = t
  BY Zenon, <1>2
<1>. QED  BY Zenon, <1>3, <1>4, <1>5, <1>7, <1>8, <1>9, <1>10 DEF OneAtATime

(* No snapshot is lost.                                                    *)
LEMMA DebtKeeps ==
  ASSUME UpdateInv, StoreFits', NEW s \in Slots, Others(s), faults' = faults,
         \A k \in Names : k \in DOMAIN store' =>
            k \in DOMAIN store \/ (s \in Keepers' /\ made'[s] = k),
         (/\ s \in Keepers /\ made[s] \in DOMAIN store' /\ made[s] # NoName)
            => s \in Keepers' /\ made'[s] = made[s]
  PROVE  DebtInv'
<1>1. \A r \in Slots : r # s => /\ r \in Keepers' <=> r \in Keepers
                                /\ made'[r] = made[r]
  BY ZenonT(60) DEF Others, Same, Keepers, Active, Live
<1>2. NoName \notin Names
  BY DEF NoName, Names
<1>3. Debt' \subseteq Debt
  <2>. SUFFICES ASSUME NEW k \in Debt'  PROVE k \in Debt
    OBVIOUS
  <2>1. k \in Names /\ k \in DOMAIN store' /\ \A r \in Keepers' : made'[r] # k
    BY DEF Debt
  <2>2. k \in DOMAIN store
    BY Zenon, <2>1
  <2>3. ASSUME NEW r \in Keepers, made[r] = k  PROVE FALSE
    <3>1. r \in Slots
      BY Zenon DEF Keepers
    <3>2. CASE r = s
      BY <1>2, <2>1, <2>3, <3>2
    <3>3. CASE r # s
      BY Zenon, <1>1, <2>1, <2>3, <3>1, <3>3
    <3>. QED  BY Zenon, <3>2, <3>3
  <2>. QED  BY Zenon, <2>1, <2>2, <2>3 DEF Debt
<1>. QED  BY <1>3 DEF UpdateInv, DebtInv

LEMMA TogetherKeep ==
  ASSUME UpdateInv, IInv', StoreFits', OneAtATime', DebtInv', NEW s \in Slots, Others(s),
         StoreStep(s), StateStep(s), UNCHANGED <<checkpoint, backend>>,
         faults' = 0 => faults = 0, PipelineInv(s)', UnharmedInv(s)'
  PROVE  UpdateInv'
<1>1. ASSUME NEW r \in Slots  PROVE PipelineInv(r)' /\ UnharmedInv(r)'
  <2>1. CASE r = s
    BY <2>1
  <2>2. CASE r # s
    BY <2>2, OthersKeep
  <2>. QED  BY <2>1, <2>2
<1>. QED  BY <1>1 DEF UpdateInv

-----------------------------------------------------------------------------
(* The operators on the storage and on update_state.                       *)

LEMMA StoredIs ==
  ASSUME StoreFits, NEW k \in Names \union OwnKeys, NEW data, store' = Stored(k, data)
  PROVE  /\ DOMAIN store' = DOMAIN store \union {k} /\ store'[k] = data
         /\ \A x : x # k => /\ x \in DOMAIN store' <=> x \in DOMAIN store
                            /\ x \in DOMAIN store => store'[x] = store[x]
         /\ DOMAIN store' \subseteq Names \union OwnKeys
<1>1. /\ DOMAIN store' = DOMAIN store \union {k} /\ store'[k] = data
      /\ \A x : x # k => /\ x \in DOMAIN store' <=> x \in DOMAIN store
                         /\ x \in DOMAIN store => store'[x] = store[x]
  BY DEF Stored
<1>. QED  BY Zenon, <1>1 DEF StoreFits

LEMMA WithoutIs ==
  ASSUME StoreFits, NEW k, store' = Without(k)
  PROVE  /\ DOMAIN store' = DOMAIN store \ {k}
         /\ \A x : x # k => /\ x \in DOMAIN store' <=> x \in DOMAIN store
                            /\ x \in DOMAIN store => store'[x] = store[x]
         /\ DOMAIN store' \subseteq Names \union OwnKeys
<1>1. /\ DOMAIN store' = DOMAIN store \ {k}
      /\ \A x : x # k => /\ x \in DOMAIN store' <=> x \in DOMAIN store
                         /\ x \in DOMAIN store => store'[x] = store[x]
  BY DEF Without, Restrict
<1>. QED  BY <1>1 DEF StoreFits

LEMMA ReportsIs ==
  ASSUME StoreFits, NEW u \in Updates, NEW st \in Statuses, Reports(u, st)
  PROVE  /\ StateFits'
         /\ \A v \in Updates : /\ state'[v].named = state[v].named
                               /\ state'[v].status = IF v = u THEN st ELSE state[v].status
BY DEF StoreFits, StateFits, Reports

-----------------------------------------------------------------------------
(* Every step is a step of the engine or leaves the engine alone.          *)

LEMMA BookkeepingUsesEngine ==
  ASSUME NEW s \in Slots, UpdateBookkeeping(s)
  PROVE  Advance(s)
BY DEF UpdateBookkeeping, Advance

LEMMA CallbacksUseEngine ==
  ASSUME NEW s \in Slots, step_checkpoint(s) \/ OtherSteps(s) \/ Undo(s)
  PROVE  Advance(s)
<1>1. CASE step_checkpoint(s)
  BY Zenon, <1>1 DEF step_checkpoint, Advance
<1>2. CASE OtherSteps(s)
  BY Zenon, <1>2 DEF OtherSteps, Advance
<1>3. CASE Undo(s)
  <2>1. PICK ok \in BOOLEAN : UndoReturns(s, ok)
    BY Zenon, <1>3 DEF Undo, RemoveWorks, RestoreWorks
  <2>. QED  BY <2>1 DEF Advance
<1>. QED  BY <1>1, <1>2, <1>3

LEMMA UpdateUsesEngine == [UpdateNext]_allVars => [Next]_vars
<1>. SUFFICES ASSUME [UpdateNext]_allVars  PROVE [Next]_vars
  OBVIOUS
<1>1. CASE UNCHANGED allVars
  BY <1>1 DEF allVars
<1>2. ASSUME NEW u \in Updates, NEW s \in Slots, apply_update(u, s)  PROVE Next
  <2>1. 5 \in 1 .. MaxSteps /\ {0, 4} \in SUBSET (0 .. 5 - 1)
    BY StepsAssumption, SizeAssumption DEF UpdateSteps
  <2>2. workflow_begin(s, 5, {0, 4})
    BY Zenon, <1>2 DEF apply_update, UpdateSteps, Undoable
  <2>. QED  BY <2>1, <2>2, Zenon DEF Next
<1>3. ASSUME NEW s \in Slots, UpdateEnds(s)  PROVE Next
  BY <1>3 DEF UpdateEnds, Next, Dispose
<1>4. ASSUME NEW s \in Slots, UpdateFault(s)  PROVE Next
  BY Zenon, <1>4 DEF UpdateFault, Next
<1>5. ASSUME NEW s \in Slots,
             UpdateBookkeeping(s) \/ step_checkpoint(s) \/ OtherSteps(s) \/ Undo(s)
      PROVE  Next
  BY <1>5, BookkeepingUsesEngine, CallbacksUseEngine DEF Next
<1>6. CASE UpdateRecovers
  BY Zenon, <1>6 DEF UpdateRecovers, Next
<1>7. CASE \/ \E b \in Backends \ {"NULL"} : storage_set_backend(b)
           \/ \E p \in Paths :
                \/ \E data \in Contents : storage_register_buffer(p, data)
                \/ \E k \in OwnKeys : DirectCreate(p, k) \/ DirectRestore(k, p)
                \/ \E u \in Updates : init_update_transaction(u, p)
           \/ \E k \in OwnKeys : DirectRemove(k)
           \/ \E u \in Updates : cleanup_update_transaction(u) \/ UpdateRefused(u)
  BY Zenon, <1>7 DEF storage_set_backend, storage_register_buffer, DirectCreate, DirectRestore,
     init_update_transaction, DirectRemove, cleanup_update_transaction, UpdateRefused
<1>. QED  BY Zenon, <1>1, <1>2, <1>3, <1>4, <1>5, <1>6, <1>7 DEF UpdateNext

-----------------------------------------------------------------------------
(* What the executor of slot s does next.                                  *)

LEMMA AdvanceFacts ==
  ASSUME IInv, IInv', NEW s \in Slots, Advance(s)
  PROVE  /\ \A r \in Slots : r # s => Same(r)
         /\ Live(s) /\ Live(s)' /\ scan' = scan /\ faults' = faults /\ torn' = torn
         /\ frame'[s].at # "claimed" /\ status[s] \in NonTerminal
<1>1. /\ TypeOK /\ TypeOK' /\ SlotInv(s)
  BY Zenon, IInvBySlot DEF IInv
<1>2. \A r \in Slots \ {s} : Same(r)
  BY Zenon, <1>1, RunBeginSlot, StepReturnsOkSlot, RecordStepSlot, CountStepSlot, StepFailsSlot,
     UndoSkipSlot, UndoReturnsSlot, UnwindEndsSlot DEF Advance
<1>3. scan' = scan /\ Live(s) /\ status[s] \in NonTerminal
  BY Zenon, <1>1, AdvanceScan
<1>4. faults' = faults /\ torn' = torn
  BY Zenon DEF Advance, RunBegin, StepReturnsOk, RecordStep, CountStep, StepFails, UndoSkip,
     UndoReturns, UnwindEnds
<1>5. frame'[s].at \in {"call", "returned", "recorded", "unwind", "over"}
  <2>. USE <1>1 DEF TypeOK, At, Frames
  <2>1. CASE RunBegin(s)
    BY Zenon, <2>1 DEF RunBegin, EnterStep
  <2>2. CASE StepReturnsOk(s)
    BY <2>2 DEF StepReturnsOk
  <2>3. CASE RecordStep(s)
    BY <2>3 DEF RecordStep
  <2>4. CASE CountStep(s)
    BY <2>4 DEF CountStep, EnterStep
  <2>5. CASE StepFails(s)
    BY Zenon, <2>5 DEF StepFails, EnterUnwind
  <2>6. CASE UndoSkip(s)
    BY <2>6 DEF UndoSkip
  <2>7. CASE \E ok \in BOOLEAN : UndoReturns(s, ok)
    BY <2>7 DEF UndoReturns
  <2>8. CASE UnwindEnds(s)
    BY <2>8 DEF UnwindEnds
  <2>. QED  BY Zenon, <2>1, <2>2, <2>3, <2>4, <2>5, <2>6, <2>7, <2>8 DEF Advance
<1>6. Live(s)' /\ frame'[s].at # "claimed"
  BY <1>5 DEF Live
<1>. QED  BY <1>2, <1>3, <1>4, <1>6

LEMMA AdvanceKeeps ==
  ASSUME UpdateInv, IInv', NEW s \in Slots, Advance(s), StoreStep(s), StateStep(s), StoreFits',
         UNCHANGED <<checkpoint, backend, ctx>>,
         \A r \in Slots : r # s => made'[r] = made[r] /\ base'[r] = base[r],
         \A k \in Names : k \in DOMAIN store' =>
            k \in DOMAIN store \/ (0 \notin torn[s] /\ made'[s] = k),
         made'[s] = made[s] \/ made[s] = NoName,
         Bound(s)' => Bound(s) \/ (frame[s].at = "claimed" /\ state'[ctx[s]].status # "INIT"),
         PipelineInv(s)', UnharmedInv(s)'
  PROVE  UpdateInv'
<1>1. /\ \A r \in Slots : r # s => Same(r)
      /\ Live(s) /\ Live(s)' /\ scan' = scan /\ faults' = faults /\ torn' = torn
      /\ frame'[s].at # "claimed"
  BY Zenon, AdvanceFacts DEF UpdateInv
<1>2. Others(s)
  BY Zenon, <1>1 DEF Others
<1>3. OneAtATime'
  BY Zenon, <1>1, <1>2, OneKeeps
<1>4. s \in Keepers' <=> 0 \notin torn[s]
  BY Zenon, <1>1 DEF Keepers, Active
<1>5. s \in Keepers => 0 \notin torn[s]
  BY Zenon DEF Keepers
<1>6. DebtInv'
  BY Zenon, <1>1, <1>2, <1>4, <1>5, DebtKeeps
<1>. QED  BY Zenon, <1>1, <1>2, <1>3, <1>6, TogetherKeep

(* A step that leaves the storage alone.                                   *)
LEMMA CalmKeeps ==
  ASSUME UpdateInv, IInv', NEW s \in Slots, Advance(s), StateStep(s),
         StateFits',
         UNCHANGED <<store, checkpoint, backend, ctx, made, base>>,
         Bound(s)' => Bound(s) \/ (frame[s].at = "claimed" /\ state'[ctx[s]].status # "INIT"),
         PipelineInv(s)', UnharmedInv(s)'
  PROVE  UpdateInv'
<1>1. StoreFits'
  BY Zenon DEF UpdateInv, StoreFits
<1>2. StoreStep(s)
  BY Zenon DEF StoreStep
<1>. QED  BY Zenon, <1>1, <1>2, AdvanceKeeps

LEMMA StillState == ASSUME NEW s \in Slots, UNCHANGED state, StoreFits
  PROVE  /\ StateStep(s)
         /\ StateFits'
BY DEF StateStep, StoreFits, StateFits

(* A report of a running update.                                           *)
LEMMA ReportStep ==
  ASSUME UpdateInv, NEW s \in Slots, Live(s), scan # s, ctx[s] \in Updates,
         NEW st \in Statuses, st # "INIT", Reports(ctx[s], st)
  PROVE  /\ StateStep(s)
         /\ StateFits'
         /\ state'[ctx[s]].named = state[ctx[s]].named /\ state'[ctx[s]].status = st
<1>1. /\ StateFits'
      /\ \A v \in Updates : /\ state'[v].named = state[v].named
                            /\ state'[v].status = IF v = ctx[s] THEN st ELSE state[v].status
  BY Zenon, ReportsIs DEF UpdateInv
<1>2. StateStep(s)
  BY Zenon, <1>1 DEF StateStep
<1>. QED  BY Zenon, <1>1, <1>2

(* What the invariant says of one slot.                                    *)
LEMMA SlotKnows ==
  ASSUME UpdateInv, NEW s \in Slots
  PROVE  /\ TypeOK /\ StoreFits /\ OneAtATime /\ ScanInv
         /\ PlaceInv(s) /\ CursorInv(s) /\ EffectInv(s)
         /\ Shape(s) /\ MadeInv(s) /\ HeldInv(s) /\ GoneInv(s) /\ UnharmedInv(s)
         /\ frame[s] \in Frames /\ done_count[s] \in Nat /\ torn[s] \subseteq Steps
         /\ s \in Nat /\ s # Idle
         /\ frame[s].at \in Running => scan # s
<1>1. TypeOK /\ ScanInv /\ PlaceInv(s) /\ CursorInv(s) /\ EffectInv(s)
  BY DEF UpdateInv, IInv
<1>2. frame[s] \in Frames /\ done_count[s] \in Nat /\ torn[s] \subseteq Steps
  BY <1>1, SizeAssumption DEF TypeOK
<1>3. s \in Nat /\ s # Idle
  BY SizeAssumption DEF Slots, Idle
<1>4. frame[s].at \in Running => scan # s
  BY Zenon, <1>1, <1>3 DEF ScanInv, Running, Live
<1>. QED  BY Zenon, <1>1, <1>2, <1>3, <1>4 DEF UpdateInv, PipelineInv

LEMMA NoNameNotStored == ASSUME StoreFits PROVE NoName \notin DOMAIN store /\ NoName \notin Names
<1>1. NoName \notin Names
  BY DEF NoName, Names
<1>. QED  BY <1>1, KeysAssumption DEF StoreFits

(* workflow_run enters its loop: the first callback reports its stage.     *)
LEMMA RunBeginKeeps ==
  ASSUME UpdateInv, IInv', NEW s \in Slots, RunBegin(s), Entering(s),
         UNCHANGED <<storageVars, checkpoint, ctx, inits, made, base>>
  PROVE  UpdateInv'
<1>0. Advance(s)
  BY DEF Advance
<1>1. /\ frame[s].at = "claimed" /\ frame'[s].at = "call" /\ frame'[s].i = 0
      /\ UNCHANGED <<status, step_count, undoable, done_count, torn, failed, faults>>
  BY Zenon DEF RunBegin, EnterStep, slotVars, UpdateInv, IInv, TypeOK, At
<1>2. /\ status[s] = "RUNNING" /\ done_count[s] = 0 /\ torn[s] = {} /\ scan # s /\ Live(s)
  BY Zenon, <1>1, SlotKnows DEF PlaceInv, CursorInv, EffectInv, Running, Live
<1>3. ctx[s] \in Updates /\ state[ctx[s]].named
  BY Zenon, <1>1, SlotKnows DEF OneAtATime
<1>4. Stage[1] = "CHECKPOINT" /\ "CHECKPOINT" \in Statuses
  BY DEF Stage, Statuses, Stages
<1>5. Reports(ctx[s], "CHECKPOINT")
  BY <1>1, <1>4 DEF Entering
<1>6. /\ StateStep(s)
      /\ StateFits'
      /\ state'[ctx[s]].named = state[ctx[s]].named /\ state'[ctx[s]].status = "CHECKPOINT"
  BY Zenon, <1>2, <1>3, <1>4, <1>5, ReportStep
<1>7. UNCHANGED <<store, checkpoint, backend, ctx, made, base>>
  BY DEF storageVars
<1>8. made[s] = NoName
  <2>1. MadeInv(s)
    BY Zenon, SlotKnows
  <2>2. ~Counting(s)
    BY <1>1, <1>2 DEF Counting
  <2>. QED  BY Zenon, <1>2, <2>1, <2>2 DEF MadeInv, NonTerminal
<1>9. Shape(s)' /\ HeldInv(s)' /\ GoneInv(s)' /\ UnharmedInv(s)'
  BY Zenon, <1>1, <1>2, <1>7, SlotKnows DEF Shape, HeldInv, GoneInv, UnharmedInv, Counting, Live
<1>10. MadeInv(s)'
  <2>1. ~Counting(s)'
    BY <1>1, <1>2 DEF Counting
  <2>2. made'[s] = NoName /\ state'[ctx'[s]].named /\ state'[ctx'[s]].status \in Stages
    BY Zenon, <1>3, <1>6, <1>7, <1>8 DEF Stages
  <2>. QED  BY Zenon, <2>1, <2>2 DEF MadeInv
<1>. QED  BY Zenon, <1>0, <1>1, <1>6, <1>7, <1>9, <1>10, CalmKeeps DEF PipelineInv

LEMMA CountStepKeeps ==
  ASSUME UpdateInv, IInv', NEW s \in Slots, CountStep(s), Entering(s),
         UNCHANGED <<storageVars, checkpoint, ctx, inits, made, base>>
  PROVE  UpdateInv'
<1>0. Advance(s)
  BY DEF Advance
<1>1. /\ frame[s].at = "recorded" /\ done_count'[s] = done_count[s] + 1
      /\ UNCHANGED <<step_count, undoable, torn, failed, faults>>
  BY ZenonT(60) DEF CountStep, UpdateInv, IInv, TypeOK
<1>2. /\ status[s] = "RUNNING" /\ frame[s].i = done_count[s] /\ torn[s] = {} /\ scan # s
      /\ Live(s) /\ step_count[s] = 5 /\ Bound(s) /\ Counting(s)
  BY Zenon, <1>1, SlotKnows DEF PlaceInv, CursorInv, EffectInv, Running, Live, Shape, UpdateSteps,
     Bound, InStep, Counting
<1>3. /\ ctx[s] \in Updates /\ state[ctx[s]].named /\ state[ctx[s]].status \in Stages
      /\ made[s] # NoName /\ made[s] = checkpoint /\ backend # "NULL"
  BY Zenon, <1>1, <1>2, SlotKnows DEF MadeInv, Shape, InStep, Active
<1>4. /\ made[s] \in DOMAIN store /\ store[made[s]] = base[s]
  BY Zenon, <1>2, SlotKnows DEF HeldInv
<1>7. UNCHANGED <<store, checkpoint, backend, ctx, made, base>>
  BY DEF storageVars
<1>a. done_count[s] \in Nat
  BY Zenon, SlotKnows
<1>8. CASE /\ frame[s].i + 1 < step_count[s] /\ EnterStep(s, frame[s].i + 1)
           /\ UNCHANGED status
  <2>1. frame'[s].at = "call" /\ frame'[s].i = done_count[s] + 1
    BY Zenon, <1>2, <1>8 DEF EnterStep, UpdateInv, IInv, TypeOK, At
  <2>2. done_count[s] + 2 \in 1 .. 5
    BY <1>2, <1>8, <1>a
  <2>3. \A n \in 1 .. 5 : Stage[n] \in Stages
    BY DEF Stage, Stages
  <2>4. PICK st \in Stages : st = Stage[frame'[s].i + 1]
    <3>1. frame'[s].i + 1 = done_count[s] + 2
      BY <2>1, <1>a
    <3>. QED  BY Zenon, <2>2, <2>3, <3>1
  <2>5. Reports(ctx[s], st) /\ st \in Statuses /\ st # "INIT"
    BY Zenon, <2>1, <2>4 DEF Entering, Statuses, Stages
  <2>6. /\ StateStep(s)
        /\ StateFits'
        /\ state'[ctx[s]].named = state[ctx[s]].named /\ state'[ctx[s]].status = st
    BY Zenon, <1>2, <1>3, <2>5, ReportStep
  <2>7. Shape(s)' /\ HeldInv(s)' /\ GoneInv(s)' /\ UnharmedInv(s)'
    BY Zenon, <1>1, <1>2, <1>4, <1>7, <1>8, <2>1, SlotKnows
    DEF Shape, HeldInv, GoneInv, UnharmedInv, Live
  <2>8. MadeInv(s)'
    <3>1. Counting(s)'
      BY Zenon, <1>1, <1>a, Positive DEF Counting
    <3>. QED  BY Zenon, <1>1, <1>2, <1>3, <1>7, <2>6, <3>1 DEF MadeInv
  <2>. QED  BY Zenon, <1>0, <1>2, <1>7, <2>6, <2>7, <2>8, CalmKeeps DEF PipelineInv
<1>9. CASE /\ frame[s].i + 1 = step_count[s]
           /\ status' = [status EXCEPT ![s] = "COMMITTED"]
           /\ frame' = [frame EXCEPT ![s].at = "over"]
  <2>1. frame'[s].at = "over" /\ status'[s] = "COMMITTED"
    BY <1>9, SlotKnows DEF TypeOK, Frames
  <2>2. UNCHANGED state
    BY Zenon, <2>1 DEF Entering
  <2>7. Shape(s)' /\ HeldInv(s)' /\ GoneInv(s)' /\ UnharmedInv(s)'
    BY Zenon, <1>1, <1>2, <1>3, <1>7, <2>1, SlotKnows
    DEF Shape, HeldInv, GoneInv, UnharmedInv, Live, NonTerminal
  <2>8. MadeInv(s)'
    BY Zenon, <1>1, <1>2, <1>3, <1>7, <2>1, <2>2, SlotKnows DEF MadeInv, NonTerminal, InStep
  <2>9. StateStep(s)
        /\ StateFits'
    BY Zenon, <2>2, StillState, SlotKnows
  <2>. QED  BY Zenon, <1>0, <1>2, <1>7, <2>7, <2>8, <2>9, CalmKeeps DEF PipelineInv
<1>. QED  BY <1>8, <1>9 DEF CountStep

(* STEP_OK is recorded, or the callback of a later step returns 0.         *)
LEMMA GoingOnKeeps ==
  ASSUME UpdateInv, IInv', NEW s \in Slots, Advance(s),
         frame[s].at = "returned" \/ (frame[s].at = "call" /\ frame[s].i > 0),
         frame'[s].at \in {"returned", "recorded"},
         UNCHANGED <<status, step_count, undoable, done_count, failed, torn, faults>>,
         UNCHANGED <<store, checkpoint, backend, ctx, made, base, state>>
  PROVE  UpdateInv'
<1>1. /\ status[s] = "RUNNING" /\ frame[s].i = done_count[s] /\ Live(s) /\ Bound(s)
      /\ InStep(s) /\ Active(s)
  BY Zenon, SlotKnows DEF PlaceInv, CursorInv, Running, Live, Bound, InStep, Active
<1>2. Counting(s)
  BY Zenon, <1>1 DEF Counting
<1>3. Shape(s)' /\ HeldInv(s)' /\ GoneInv(s)' /\ UnharmedInv(s)'
  BY Zenon, <1>1, <1>2, SlotKnows DEF Shape, HeldInv, GoneInv, UnharmedInv, Live
<1>4. MadeInv(s)'
  BY Zenon, <1>1, <1>2, SlotKnows DEF MadeInv, Counting, Active, InStep, Live
<1>5. StateStep(s)
      /\ StateFits'
  BY Zenon, StillState, SlotKnows
<1>. QED  BY Zenon, <1>1, <1>3, <1>4, <1>5, CalmKeeps DEF PipelineInv

LEMMA RecordStepKeeps ==
  ASSUME UpdateInv, IInv', NEW s \in Slots, RecordStep(s),
         UNCHANGED <<storageVars, checkpoint, ctx, inits, made, base, state>>
  PROVE  UpdateInv'
<1>1. Advance(s)
  BY Zenon DEF Advance
<1>2. /\ frame[s].at = "returned" /\ frame'[s].at = "recorded"
      /\ UNCHANGED <<status, step_count, undoable, done_count, failed, torn, faults>>
      /\ UNCHANGED <<store, checkpoint, backend, ctx, made, base, state>>
  BY SlotKnows DEF RecordStep, slotVars, storageVars, TypeOK, Frames
<1>. QED  BY Zenon, <1>1, <1>2, GoingOnKeeps

(* Step 0 has an undo, so the cursor never skips to the end.               *)
LEMMA UndoSkipKeeps ==
  ASSUME UpdateInv, IInv', NEW s \in Slots, UndoSkip(s),
         UNCHANGED <<storageVars, checkpoint, ctx, inits, made, base, state>>
  PROVE  UpdateInv'
<1>1. Advance(s)
  BY DEF Advance
<1>2. /\ frame[s].at = "unwind" /\ frame[s].remaining > 0
      /\ frame[s].remaining - 1 \notin undoable[s]
      /\ frame'[s].at = "unwind" /\ frame'[s].remaining = frame[s].remaining - 1
      /\ UNCHANGED <<status, step_count, undoable, done_count, failed, torn, faults>>
      /\ UNCHANGED <<store, checkpoint, backend, ctx, made, base, state>>
  BY Zenon, SlotKnows DEF UndoSkip, slotVars, storageVars, TypeOK, Frames
<1>3. /\ status[s] = "ROLLING_BACK" /\ Live(s) /\ Active(s) /\ undoable[s] = {0, 4}
  BY Zenon, <1>2, SlotKnows DEF PlaceInv, Live, Active, Shape, Undoable
<1>4. frame[s].remaining \in Nat
  BY SlotKnows, SizeAssumption DEF Frames
<1>5. frame'[s].remaining > 0
  <2>1. frame[s].remaining - 1 # 0
    BY Zenon, <1>2, <1>3
  <2>. QED  BY <1>2, <1>4, <2>1
<1>6. Shape(s)' /\ HeldInv(s)' /\ GoneInv(s)' /\ UnharmedInv(s)'
  BY Zenon, <1>2, <1>3, <1>4, <1>5, SlotKnows
  DEF Shape, HeldInv, GoneInv, UnharmedInv, Live, NonTerminal
<1>7. MadeInv(s)'
  BY Zenon, <1>2, <1>3, SlotKnows DEF MadeInv, Counting, Active, InStep, Live
<1>8. StateStep(s)
      /\ StateFits'
  BY Zenon, <1>2, StillState, SlotKnows
<1>9. Bound(s)' => Bound(s)
  BY Zenon, <1>2, <1>3 DEF Bound, InStep
<1>. QED  BY Zenon, <1>1, <1>2, <1>6, <1>7, <1>8, <1>9, CalmKeeps DEF PipelineInv

LEMMA UnwindEndsKeeps ==
  ASSUME UpdateInv, IInv', NEW s \in Slots, UnwindEnds(s),
         UNCHANGED <<storageVars, checkpoint, ctx, inits, made, base, state>>
  PROVE  UpdateInv'
<1>1. Advance(s)
  BY Zenon DEF Advance
<1>2. /\ frame[s].at = "unwind" /\ frame[s].remaining = 0
      /\ frame'[s].at = "over" /\ done_count'[s] = 0
      /\ status'[s] = IF failed[s] # {} THEN "FAILED" ELSE "ROLLED_BACK"
      /\ UNCHANGED <<step_count, undoable, failed, torn, faults>>
      /\ UNCHANGED <<store, checkpoint, backend, ctx, made, base, state>>
  BY Zenon, SlotKnows DEF UnwindEnds, storageVars, TypeOK, Frames
<1>3. /\ status[s] = "ROLLING_BACK" /\ Live(s) /\ Active(s)
  BY Zenon, <1>2, SlotKnows DEF PlaceInv, Live, Active
<1>4. status'[s] \in {"FAILED", "ROLLED_BACK"}
  BY Zenon, <1>2
<1>6. Shape(s)' /\ HeldInv(s)' /\ GoneInv(s)' /\ UnharmedInv(s)'
  BY Zenon, <1>2, <1>3, <1>4, SlotKnows
  DEF Shape, HeldInv, GoneInv, UnharmedInv, Live, NonTerminal
<1>5. made[s] # NoName => made[s] = checkpoint /\ backend # "NULL"
  BY Zenon, <1>3, SlotKnows DEF MadeInv
<1>7. MadeInv(s)'
  <2>1. ~Counting(s)'
    BY Zenon, <1>2, Positive DEF Counting
  <2>. QED  BY Zenon, <1>2, <1>4, <1>5, <2>1 DEF MadeInv, InStep, NonTerminal
<1>8. StateStep(s)
      /\ StateFits'
  BY Zenon, <1>2, StillState, SlotKnows
<1>9. Bound(s)' => Bound(s)
  BY Zenon, <1>2, <1>3 DEF Bound, InStep
<1>. QED  BY Zenon, <1>1, <1>2, <1>6, <1>7, <1>8, <1>9, CalmKeeps DEF PipelineInv

(* A callback fails: nothing is owed if it was the first.                  *)
LEMMA StepFailsKeeps ==
  ASSUME UpdateInv, IInv', NEW s \in Slots, StepFails(s),
         UNCHANGED <<store, checkpoint, backend, ctx, made, base, state>>
  PROVE  UpdateInv'
<1>1. Advance(s)
  BY Zenon DEF Advance
<1>2. /\ frame[s].at = "call" /\ frame'[s].at = "unwind"
      /\ frame'[s].remaining = done_count[s]
      /\ status'[s] = "ROLLING_BACK" /\ failed'[s] = {}
      /\ UNCHANGED <<step_count, undoable, done_count, torn, faults>>
  BY Zenon, SlotKnows DEF StepFails, EnterUnwind, TypeOK
<1>3. /\ status[s] = "RUNNING" /\ Live(s) /\ Active(s) /\ torn[s] = {} /\ Bound(s)
      /\ done_count[s] < UpdateSteps
  BY Zenon, <1>2, SlotKnows DEF PlaceInv, CursorInv, EffectInv, Running, Live, Active, Shape, Bound,
     InStep
<1>4. done_count[s] \in Nat
  BY Zenon, SlotKnows
<1>5. MadeInv(s) /\ Shape(s) /\ HeldInv(s) /\ StoreFits
  BY Zenon, SlotKnows
<1>6. /\ made[s] # NoName => made[s] = checkpoint /\ backend # "NULL"
      /\ state[ctx[s]].named /\ state[ctx[s]].status \in Stages
  BY Zenon, <1>2, <1>3, <1>5 DEF MadeInv, InStep
<1>7. done_count[s] = 0 => made[s] = NoName /\ made[s] \notin DOMAIN store
  <2>1. ~Counting(s) <=> done_count[s] = 0
    BY Zenon, <1>2, <1>4, Positive DEF Counting
  <2>. QED  BY Zenon, <1>3, <1>5, <2>1, NoNameNotStored DEF MadeInv, NonTerminal
<1>8. done_count[s] > 0 => made[s] # NoName /\ made[s] \in DOMAIN store
  BY Zenon, <1>3, <1>5 DEF MadeInv, HeldInv, Counting
<1>9. Shape(s)' /\ HeldInv(s)'
  BY Zenon, <1>2, <1>3, <1>5 DEF Shape, HeldInv
<1>10. GoneInv(s)' /\ UnharmedInv(s)'
  BY Zenon, <1>2, <1>4, <1>7, <1>8 DEF GoneInv, UnharmedInv, Live
<1>11. Counting(s)' <=> done_count[s] > 0
  BY Zenon, <1>2 DEF Counting
<1>12. MadeInv(s)'
  BY Zenon, <1>2, <1>4, <1>6, <1>7, <1>8, <1>11, Positive DEF MadeInv
<1>13. StateStep(s)
      /\ StateFits'
  BY Zenon, <1>5, StillState
<1>. QED  BY Zenon, <1>1, <1>3, <1>9, <1>10, <1>12, <1>13, CalmKeeps DEF PipelineInv

LEMMA step_checkpointKeeps ==
  ASSUME UpdateInv, IInv', NEW s \in Slots, step_checkpoint(s)
  PROVE  UpdateInv'
<1>1. CASE StepFails(s) /\ UNCHANGED <<store, made, base>>
  BY Zenon, <1>1, StepFailsKeeps DEF step_checkpoint
<1>2. CASE /\ CheckpointWorks(s) /\ StepReturnsOk(s)
           /\ create_checkpoint(Path(s), checkpoint)
           /\ made' = [made EXCEPT ![s] = checkpoint]
           /\ base' = [base EXCEPT ![s] = target[Path(s)]]
  <2>0. Advance(s) /\ UNCHANGED <<backend, checkpoint, state, ctx>>
    BY Zenon, <1>2 DEF Advance, step_checkpoint
  <2>1. /\ frame[s].at = "call" /\ frame[s].i = 0 /\ frame'[s].at = "returned"
        /\ UNCHANGED <<status, step_count, undoable, done_count, failed, torn, faults>>
    BY ZenonT(60), <1>2, SlotKnows DEF step_checkpoint, StepReturnsOk, slotVars, TypeOK, Frames
  <2>2. /\ status[s] = "RUNNING" /\ done_count[s] = 0 /\ Live(s) /\ Bound(s) /\ InStep(s)
        /\ torn[s] = {} /\ checkpoint # NoName /\ backend = "memory" /\ ~Counting(s)
    <3>1. PlaceInv(s) /\ CursorInv(s) /\ EffectInv(s) /\ Shape(s) /\ done_count[s] \in Nat
      BY Zenon, SlotKnows
    <3>2. status[s] = "RUNNING" /\ done_count[s] = 0 /\ Live(s) /\ torn[s] = {}
      BY Zenon, <2>1, <3>1 DEF PlaceInv, CursorInv, EffectInv, Running, Live
    <3>3. Bound(s) /\ InStep(s) /\ ~Counting(s)
      BY <2>1, <3>2 DEF Bound, InStep, Counting
    <3>4. checkpoint # NoName /\ backend = "memory"
      BY Zenon, <1>2, <3>1, <3>2 DEF Shape, CheckpointWorks
    <3>. QED  BY Zenon, <3>2, <3>3, <3>4
  <2>3. /\ made[s] = NoName /\ state[ctx[s]].named /\ state[ctx[s]].status \in Stages
    <3>1. MadeInv(s)
      BY Zenon, SlotKnows
    <3>. QED  BY Zenon, <2>1, <2>2, <3>1 DEF MadeInv, NonTerminal
  <2>4. made'[s] = checkpoint /\ base'[s] = target[Path(s)]
        /\ \A r \in Slots : r # s => made'[r] = made[r] /\ base'[r] = base[r]
    BY Zenon, <1>2, SlotKnows DEF StoreFits
  <2>5. checkpoint \in Names \union OwnKeys
    BY Zenon, <2>2, SlotKnows DEF StoreFits
  <2>6. store' = Stored(checkpoint, target[Path(s)])
    BY <1>2 DEF create_checkpoint
  <2>7. /\ DOMAIN store' = DOMAIN store \union {checkpoint}
        /\ store'[checkpoint] = target[Path(s)]
        /\ \A x : x # checkpoint => /\ x \in DOMAIN store' <=> x \in DOMAIN store
                                    /\ x \in DOMAIN store => store'[x] = store[x]
        /\ DOMAIN store' \subseteq Names \union OwnKeys
    BY Zenon, <2>5, <2>6, StoredIs, SlotKnows
  <2>8. StoreFits'
    <3>1. StoreFits
      BY Zenon, SlotKnows
    <3>. QED  BY Zenon, <1>2, <2>0, <2>7, <3>1 DEF StoreFits, StateFits
  <2>9. StoreStep(s) /\ StateStep(s)
    BY Zenon, <2>0, <2>2, <2>7, StillState, SlotKnows DEF StoreStep
  <2>10. Shape(s)' /\ HeldInv(s)' /\ GoneInv(s)' /\ UnharmedInv(s)'
    BY Zenon, <2>0, <2>1, <2>2, <2>4, <2>7, SlotKnows
    DEF Shape, HeldInv, GoneInv, UnharmedInv, Live
  <2>11. MadeInv(s)'
    BY Zenon, <2>0, <2>1, <2>2, <2>3, <2>4 DEF MadeInv, Counting
  <2>12. \A k \in Names : k \in DOMAIN store' =>
           k \in DOMAIN store \/ (0 \notin torn[s] /\ made'[s] = k)
    BY Zenon, <2>2, <2>4, <2>7
  <2>. QED  BY Zenon, <2>0, <2>2, <2>3, <2>4, <2>8, <2>9, <2>10, <2>11, <2>12, AdvanceKeeps
       DEF PipelineInv
<1>. QED  BY Zenon, <1>1, <1>2 DEF step_checkpoint

LEMMA OtherStepsKeep ==
  ASSUME UpdateInv, IInv', NEW s \in Slots, OtherSteps(s)
  PROVE  UpdateInv'
<1>1. frame[s].i > 0 /\ UNCHANGED <<store, checkpoint, backend, ctx, made, base, state>>
  BY Zenon DEF OtherSteps, storageVars
<1>2. CASE StepReturnsOk(s)
  <2>1. Advance(s)
    BY <1>2 DEF Advance
  <2>2. /\ frame[s].at = "call" /\ frame'[s].at = "returned"
        /\ UNCHANGED <<status, step_count, undoable, done_count, failed, torn, faults>>
    BY <1>2, SlotKnows DEF StepReturnsOk, slotVars, TypeOK, Frames
  <2>. QED  BY Zenon, <1>1, <2>1, <2>2, GoingOnKeeps
<1>3. CASE StepFails(s)
  BY Zenon, <1>1, <1>3, StepFailsKeeps
<1>. QED  BY Zenon, <1>2, <1>3 DEF OtherSteps

(* Only undo_remove_checkpoint is ever called: an update whose last step   *)
(* has been counted is committed.                                          *)
LEMMA UndoKeeps ==
  ASSUME UpdateInv, IInv', NEW s \in Slots, Undo(s)
  PROVE  UpdateInv'
<1>1. /\ frame[s].at = "unwind" /\ frame[s].remaining > 0
      /\ frame[s].remaining - 1 \in {0, 4}
      /\ UNCHANGED <<backend, checkpoint, state, ctx, made, base>>
  BY DEF Undo, Undoable, UndoReturns
<1>2. frame[s].remaining \in Nat /\ done_count[s] \in Nat
  BY SlotKnows, SizeAssumption DEF Frames
<1>3. /\ status[s] = "ROLLING_BACK" /\ Live(s) /\ Active(s) /\ done_count[s] < 5
      /\ frame[s].remaining <= done_count[s]
  BY Zenon, <1>1, SlotKnows DEF PlaceInv, CursorInv, Shape, Live, Active, UpdateSteps
<1>4. frame[s].remaining = 1 /\ frame[s].remaining - 1 = 0 /\ done_count[s] > 0
  BY <1>1, <1>2, <1>3
<1>5. /\ made[s] # NoName /\ made[s] = checkpoint /\ backend # "NULL" /\ Bound(s)
      /\ state[ctx[s]].named /\ state[ctx[s]].status \in Stages
  <2>1. MadeInv(s)
    BY Zenon, SlotKnows
  <2>. QED  BY Zenon, <1>3, <1>4, <2>1 DEF MadeInv, Counting, Bound, NonTerminal
<1>6. RemoveWorks(s) <=> checkpoint \in DOMAIN store
  BY Zenon, <1>5 DEF RemoveWorks, Named
<1>7. /\ UndoReturns(s, RemoveWorks(s)) /\ RemoveWorks(s) \in BOOLEAN
      /\ store' = IF RemoveWorks(s) THEN Without(checkpoint) ELSE store
  BY Zenon, <1>4 DEF Undo, RemoveWorks
<1>8. Advance(s)
  BY Zenon, <1>7 DEF Advance
<1>9. /\ frame'[s].at = "unwind" /\ frame'[s].remaining = 0
      /\ UNCHANGED <<status, step_count, undoable, done_count, torn, faults>>
      /\ RemoveWorks(s) => failed'[s] = failed[s]
  BY ZenonT(60), <1>4, <1>7, SlotKnows DEF UndoReturns, slotVars, TypeOK, Frames
<1>10. /\ checkpoint \notin DOMAIN store' /\ DOMAIN store' \subseteq DOMAIN store
       /\ \A x : x # checkpoint => /\ x \in DOMAIN store' <=> x \in DOMAIN store
                                   /\ x \in DOMAIN store => store'[x] = store[x]
       /\ DOMAIN store' \subseteq Names \union OwnKeys
  <2>1. CASE RemoveWorks(s)
    BY ZenonT(60), <1>7, <2>1, WithoutIs, SlotKnows
  <2>2. CASE ~RemoveWorks(s)
    BY Zenon, <1>6, <1>7, <2>2, SlotKnows DEF StoreFits
  <2>. QED  BY Zenon, <2>1, <2>2
<1>11. StoreFits'
  <2>1. StoreFits
    BY Zenon, SlotKnows
  <2>. QED  BY Zenon, <1>1, <1>10, <2>1 DEF StoreFits, StateFits
<1>12. StoreStep(s) /\ StateStep(s)
  BY Zenon, <1>1, <1>3, <1>5, <1>10, StillState, SlotKnows DEF StoreStep
<1>13. Shape(s)' /\ HeldInv(s)' /\ GoneInv(s)'
  BY Zenon, <1>1, <1>3, <1>5, <1>9, <1>10, SlotKnows DEF Shape, HeldInv, GoneInv
<1>14. UnharmedInv(s)'
  <2>1. UnharmedInv(s)
    BY Zenon, SlotKnows
  <2>2. faults = 0 => failed[s] = {} /\ checkpoint \in DOMAIN store
    BY Zenon, <1>1, <1>4, <1>5, <2>1 DEF UnharmedInv
  <2>3. faults = 0 => failed'[s] = {}
    BY Zenon, <1>6, <1>9, <2>2
  <2>. QED  BY Zenon, <1>3, <1>9, <2>3, Positive DEF UnharmedInv, Live
<1>15. MadeInv(s)'
  BY Zenon, <1>1, <1>3, <1>4, <1>5, <1>9 DEF MadeInv, Counting
<1>16. /\ \A k \in Names : k \in DOMAIN store' =>
            k \in DOMAIN store \/ (0 \notin torn[s] /\ made'[s] = k)
       /\ \A r \in Slots : r # s => made'[r] = made[r] /\ base'[r] = base[r]
  BY Zenon, <1>1, <1>10
<1>. QED  BY Zenon, <1>1, <1>5, <1>8, <1>11, <1>12, <1>13, <1>14, <1>15, <1>16, AdvanceKeeps
     DEF PipelineInv

LEMMA BookkeepingKeeps ==
  ASSUME UpdateInv, IInv', NEW s \in Slots, UpdateBookkeeping(s)
  PROVE  UpdateInv'
BY Zenon, RunBeginKeeps, CountStepKeeps, RecordStepKeeps, UndoSkipKeeps, UnwindEndsKeeps
DEF UpdateBookkeeping

-----------------------------------------------------------------------------
(* The slot is given back, or stays claimed as evidence.                   *)

LEMMA GivenBackKeeps ==
  ASSUME UpdateInv, IInv', NEW s \in Slots, frame[s].at = "over",
         \/ Cleared(s) /\ ctx'[s] = NoUpdate
         \/ /\ frame' = [frame EXCEPT ![s] = NoFrame] /\ status[s] = "FAILED"
            /\ UNCHANGED <<slotVars, effects, torn, failed, journal>> /\ ctx'[s] = ctx[s],
         \A r \in Slots : r # s => ctx'[r] = ctx[r],
         StoreFits', StoreStep(s), StateStep(s), DOMAIN store' \subseteq DOMAIN store,
         0 \notin torn[s] => made[s] \notin DOMAIN store',
         scan' = scan \/ scan = s,
         UNCHANGED <<checkpoint, backend, made, base, faults>>
  PROVE  UpdateInv'
<1>1. TypeOK /\ SlotInv(s) /\ Live(s)
  BY Zenon, IInvBySlot DEF UpdateInv, Live
<1>2. \A r \in Slots \ {s} : Same(r)
  BY Zenon, <1>1, ClearedSlot, LetGoSlot
<1>3. Others(s)
  BY Zenon, <1>2 DEF Others
<1>4. /\ frame'[s].at = "none" /\ status'[s] \in {"IDLE", "FAILED"} /\ ~Live(s)'
      /\ status'[s] = "FAILED" => /\ status[s] = "FAILED" /\ ctx'[s] = ctx[s]
                                  /\ step_count'[s] = step_count[s]
                                  /\ undoable'[s] = undoable[s]
                                  /\ done_count'[s] = done_count[s]
                                  /\ failed'[s] = failed[s]
      /\ status'[s] = "IDLE" => ctx'[s] = NoUpdate /\ done_count'[s] = 0 /\ failed'[s] = {}
  <2>1. CASE Cleared(s) /\ ctx'[s] = NoUpdate
    <3>1. frame'[s].at = "none" /\ status'[s] = "IDLE" /\ done_count'[s] = 0 /\ failed'[s] = {}
      BY ZenonT(60), <1>1, <2>1 DEF Cleared, TypeOK, NoFrame, At
    <3>. QED  BY Zenon, <2>1, <3>1 DEF Live
  <2>2. CASE /\ frame' = [frame EXCEPT ![s] = NoFrame] /\ status[s] = "FAILED"
             /\ UNCHANGED <<slotVars, effects, torn, failed, journal>> /\ ctx'[s] = ctx[s]
    <3>1. frame'[s].at = "none"
      BY Zenon, <1>1, <2>2 DEF TypeOK, NoFrame, At
    <3>. QED  BY Zenon, <2>2, <3>1 DEF slotVars, Live
  <2>. QED  BY Zenon, <2>1, <2>2
<1>5. ~Active(s)' /\ ~Bound(s)'
  BY Zenon, <1>4 DEF Active, Bound, InStep, NonTerminal
<1>6. OneAtATime'
  BY Zenon, <1>1, <1>3, <1>4, <1>5, OneKeeps
<1>7. DebtInv'
  <2>1. s \in Keepers => made[s] \notin DOMAIN store'
    BY Zenon DEF Keepers
  <2>. QED  BY Zenon, <1>3, <2>1, DebtKeeps
<1>8. Shape(s)' /\ HeldInv(s)' /\ GoneInv(s)' /\ UnharmedInv(s)'
  BY Zenon, <1>4, SlotKnows DEF Shape, HeldInv, GoneInv, UnharmedInv, NonTerminal
<1>9. MadeInv(s)'
  <2>1. MadeInv(s)
    BY Zenon, SlotKnows
  <2>2. Counting(s)' => Counting(s)
    <3>1. CASE status'[s] = "IDLE"
      BY Zenon, <1>4, <3>1, Positive DEF Counting
    <3>2. CASE status'[s] = "FAILED"
      BY Zenon, <1>4, <3>2 DEF Counting
    <3>. QED  BY Zenon, <1>4, <3>1, <3>2
  <2>. QED  BY Zenon, <1>4, <1>5, <2>1, <2>2 DEF MadeInv, InStep, NonTerminal
<1>. QED  BY Zenon, <1>3, <1>6, <1>7, <1>8, <1>9, TogetherKeep DEF PipelineInv

(* A committed update still has the name of its snapshot.                  *)
LEMMA CommittedKnows ==
  ASSUME UpdateInv, NEW s \in Slots, frame[s].at = "over", status[s] = "COMMITTED"
  PROVE  /\ Live(s) /\ Bound(s) /\ made[s] = checkpoint /\ checkpoint # NoName
         /\ RemoveWorks(s) <=> checkpoint \in DOMAIN store
<1>1. Live(s) /\ Active(s) /\ MadeInv(s)
  BY Zenon, SlotKnows DEF Live, Active
<1>2. Counting(s)
  <2>1. done_count[s] = 5
    BY Zenon, SlotKnows DEF UpdateInv, IInv, CommitComplete, Shape, UpdateSteps
  <2>. QED  BY <2>1 DEF Counting
<1>3. made[s] # NoName /\ made[s] = checkpoint /\ backend # "NULL" /\ state[ctx[s]].named
  BY Zenon, <1>1, <1>2 DEF MadeInv
<1>. QED  BY Zenon, <1>1, <1>3 DEF Bound, RemoveWorks, Named

LEMMA DiscardedIs ==
  ASSUME UpdateInv, NEW s \in Slots, frame[s].at = "over", status[s] = "COMMITTED",
         store' = Discarded(s)
  PROVE  /\ StoreStep(s) /\ DOMAIN store' \subseteq DOMAIN store
         /\ checkpoint \notin DOMAIN store'
         /\ DOMAIN store' \subseteq Names \union OwnKeys
<1>1. /\ Live(s) /\ Bound(s) /\ made[s] = checkpoint
      /\ RemoveWorks(s) <=> checkpoint \in DOMAIN store
  BY Zenon, CommittedKnows
<1>2. StoreFits
  BY Zenon, SlotKnows
<1>3. CASE RemoveWorks(s)
  BY ZenonT(60), <1>1, <1>2, <1>3, WithoutIs DEF Discarded, StoreStep
<1>4. CASE ~RemoveWorks(s)
  BY Zenon, <1>1, <1>2, <1>4 DEF Discarded, StoreStep, StoreFits
<1>. QED  BY Zenon, <1>3, <1>4

LEMMA UpdateEndsKeeps ==
  ASSUME UpdateInv, IInv', NEW s \in Slots, UpdateEnds(s)
  PROVE  UpdateInv'
<1>1. /\ frame[s].at = "over" /\ scan # s
      /\ UNCHANGED <<checkpoint, backend, made, base, faults, scan, inits>>
  BY Zenon DEF UpdateEnds, workflow_release, KeepEvidence
<1>2. Live(s) /\ ctx[s] \in Updates /\ StoreFits /\ GoneInv(s)
  BY Zenon, <1>1, SlotKnows DEF Live, PlaceInv, Terminal, Shape
<1>3. /\ "COMPLETE" \in Statuses /\ "ROLLBACK" \in Statuses /\ "ERROR" \in Statuses
  BY DEF Statuses
<1>4. /\ StateStep(s)
      /\ StateFits'
  BY Zenon, <1>1, <1>2, <1>3, ReportStep DEF UpdateEnds
<1>5. CASE /\ status[s] = "COMMITTED" /\ Cleared(s) /\ store' = Discarded(s)
           /\ ctx' = [ctx EXCEPT ![s] = NoUpdate]
  <2>1. /\ StoreStep(s) /\ DOMAIN store' \subseteq DOMAIN store
        /\ checkpoint \notin DOMAIN store' /\ made[s] = checkpoint
        /\ DOMAIN store' \subseteq Names \union OwnKeys
    BY Zenon, <1>1, <1>5, DiscardedIs, CommittedKnows
  <2>2. ctx'[s] = NoUpdate /\ \A r \in Slots : r # s => ctx'[r] = ctx[r]
    BY Zenon, <1>2, <1>5 DEF StoreFits
  <2>3. StoreFits'
    BY Zenon, <1>1, <1>2, <1>4, <1>5, <2>1 DEF StoreFits
  <2>. QED  BY Zenon, <1>1, <1>4, <1>5, <2>1, <2>2, <2>3, GivenBackKeeps
<1>6. CASE /\ status[s] = "ROLLED_BACK" /\ Cleared(s)
           /\ ctx' = [ctx EXCEPT ![s] = NoUpdate] /\ UNCHANGED store
  <2>1. StoreStep(s) /\ (0 \notin torn[s] => made[s] \notin DOMAIN store')
    BY Zenon, <1>1, <1>2, <1>6 DEF StoreStep, GoneInv
  <2>2. ctx'[s] = NoUpdate /\ \A r \in Slots : r # s => ctx'[r] = ctx[r]
    BY Zenon, <1>2, <1>6 DEF StoreFits
  <2>3. StoreFits'
    BY Zenon, <1>1, <1>2, <1>4, <1>6 DEF StoreFits
  <2>. QED  BY Zenon, <1>1, <1>4, <1>6, <2>1, <2>2, <2>3, GivenBackKeeps
<1>7. CASE KeepEvidence(s) /\ UNCHANGED <<store, ctx>>
  <2>1. StoreStep(s) /\ (0 \notin torn[s] => made[s] \notin DOMAIN store')
    BY Zenon, <1>1, <1>2, <1>7 DEF StoreStep, GoneInv, KeepEvidence
  <2>2. /\ frame' = [frame EXCEPT ![s] = NoFrame] /\ status[s] = "FAILED"
        /\ UNCHANGED <<slotVars, effects, torn, failed, journal>>
    BY Zenon, <1>7 DEF KeepEvidence
  <2>3. StoreFits'
    BY Zenon, <1>1, <1>2, <1>4, <1>7 DEF StoreFits
  <2>. QED  BY Zenon, <1>1, <1>4, <1>7, <2>1, <2>2, <2>3, GivenBackKeeps
<1>. QED  BY Zenon, <1>5, <1>6, <1>7 DEF UpdateEnds, workflow_release

-----------------------------------------------------------------------------
(* workflow_recover.                                                       *)

(* Nothing changes but, perhaps, the scan.                                 *)
LEMMA StillKeeps ==
  ASSUME UpdateInv, IInv', OneAtATime',
         UNCHANGED <<slotVars, frame, effects, torn, failed, journal, faults>>,
         UNCHANGED <<backend, store, checkpoint, state, ctx, made, base>>
  PROVE  UpdateInv'
<1>1. UNCHANGED <<status, step_count, undoable, done_count>>
  BY Zenon DEF slotVars
<1>2. StoreFits'
  BY Zenon DEF UpdateInv, StoreFits, StateFits
<1>3. DebtInv'
  BY Zenon, <1>1 DEF UpdateInv, DebtInv, Debt, Keepers, Active, Live
<1>4. ASSUME NEW s \in Slots  PROVE PipelineInv(s)' /\ UnharmedInv(s)'
  BY Zenon, <1>1 DEF UpdateInv, PipelineInv, Shape, MadeInv, HeldInv, GoneInv, UnharmedInv, Counting,
     InStep, Active, Live
<1>. QED  BY Zenon, <1>2, <1>3, <1>4 DEF UpdateInv

(* The scan moves on, past slots nobody executes.                          *)
LEMMA ScanOnlyKeeps ==
  ASSUME UpdateInv, IInv', \A s \in Slots : ~Live(s),
         UNCHANGED <<slotVars, frame, effects, torn, failed, journal, faults>>,
         UNCHANGED <<backend, store, checkpoint, state, ctx, made, base>>
  PROVE  UpdateInv'
<1>1. UNCHANGED <<status, step_count, undoable, done_count>>
  BY DEF slotVars
<1>2. OneAtATime'
  BY Zenon, <1>1 DEF UpdateInv, OneAtATime, IsInit, Bound, InStep, Active, Live
<1>. QED  BY Zenon, <1>2, StillKeeps

LEMMA RecoverUnwindKeeps ==
  ASSUME UpdateInv, IInv', NEW s \in Slots, RecoverUnwind(s),
         UNCHANGED <<backend, store, checkpoint, state, ctx, made, base>>
  PROVE  UpdateInv'
<1>1. TypeOK /\ TypeOK' /\ SlotInv(s) /\ ScanInv
  BY Zenon, IInvBySlot DEF UpdateInv, IInv
<1>2. \A r \in Slots \ {s} : Same(r)
  BY Zenon, <1>1, RecoverUnwindSlot
<1>3. Others(s)
  BY Zenon, <1>2 DEF Others
<1>4. /\ scan = s /\ scan' = s /\ status[s] \in NonTerminal /\ ~Live(s) /\ frame[s].at = "none"
      /\ status'[s] = "ROLLING_BACK" /\ failed'[s] = {} /\ Live(s)'
      /\ frame'[s].at = "unwind" /\ frame'[s].remaining = done_count[s]
      /\ UNCHANGED <<step_count, undoable, done_count, torn, faults>>
  BY Zenon, <1>1 DEF RecoverUnwind, EnterUnwind, TypeOK, Live
<1>5. /\ Shape(s) /\ MadeInv(s) /\ UnharmedInv(s) /\ StoreFits /\ CursorInv(s) /\ OneAtATime
      /\ done_count[s] \in Nat /\ s # Idle
  BY Zenon, SlotKnows
<1>6. \A r \in Slots : ~Live(r)
  BY Zenon, <1>1, <1>4, <1>5 DEF ScanInv
<1>7. \A r \in Slots : r # s => (Live(r)' <=> Live(r)) /\ (Bound(r)' <=> Bound(r))
                                /\ frame'[r].at # "claimed"
  <2>. SUFFICES ASSUME NEW r \in Slots, r # s
                PROVE  (Live(r)' <=> Live(r)) /\ (Bound(r)' <=> Bound(r))
                       /\ frame'[r].at # "claimed"
    BY Zenon
  <2>1. Same(r) /\ made'[r] = made[r] /\ ~Live(r)
    BY Zenon, <1>3, <1>6 DEF Others
  <2>. QED  BY Zenon, <2>1 DEF Same, Bound, InStep, Active, Live
<1>8. Bound(s)' <=> Bound(s)
  BY Zenon, <1>4 DEF Bound, InStep, Active, NonTerminal
<1>9. OneAtATime'
  <2>1. \A u \in Updates : IsInit(u)' <=> IsInit(u)
    BY Zenon DEF IsInit
  <2>2. \A r \in Slots : Bound(r)' <=> Bound(r)
    BY Zenon, <1>7, <1>8
  <2>3. \A r \in Slots : /\ Live(r)' <=> r = s
                         /\ frame'[r].at # "claimed"
    BY Zenon, <1>4, <1>6, <1>7
  <2>. QED  BY Zenon, <1>4, <1>5, <2>1, <2>2, <2>3 DEF OneAtATime
<1>10. s \in Keepers' <=> s \in Keepers
  BY Zenon, <1>4 DEF Keepers, Active
<1>11. DebtInv' /\ StoreFits'
  <2>1. StoreFits'
    BY Zenon, <1>5 DEF StoreFits, StateFits
  <2>. QED  BY Zenon, <1>3, <1>4, <1>10, <2>1, DebtKeeps
<1>12. faults # 0
  BY Zenon, <1>4, <1>5 DEF UnharmedInv
<1>13. Counting(s)' <=> Counting(s)
  BY Zenon, <1>4 DEF Counting
<1>14. Shape(s)' /\ HeldInv(s)' /\ UnharmedInv(s)'
  BY Zenon, <1>4, <1>5, <1>12 DEF Shape, HeldInv, UnharmedInv, CursorInv, NonTerminal
<1>15. MadeInv(s)'
  BY Zenon, <1>4, <1>5, <1>13 DEF MadeInv, InStep, Active, NonTerminal
<1>16. GoneInv(s)'
  <2>1. done_count[s] = 0 => ~Counting(s)
    BY Zenon, <1>4, Positive DEF Counting
  <2>2. done_count[s] = 0 /\ 0 \notin torn[s] => made[s] = NoName
    BY Zenon, <1>4, <1>5, <2>1 DEF MadeInv
  <2>. QED  BY Zenon, <1>4, <1>5, <2>2, NoNameNotStored DEF GoneInv
<1>17. StoreStep(s) /\ StateStep(s)
  BY Zenon, <1>5, StillState DEF StoreStep
<1>. QED  BY Zenon, <1>3, <1>4, <1>9, <1>11, <1>14, <1>15, <1>16, <1>17, TogetherKeep DEF PipelineInv

LEMMA UpdateRecoversKeeps ==
  ASSUME UpdateInv, IInv', UpdateRecovers
  PROVE  UpdateInv'
<1>1. /\ UNCHANGED <<backend, store, checkpoint, state, made, base>>
      /\ ctx' = [s \in Slots |-> IF status'[s] = "IDLE" THEN NoUpdate ELSE ctx[s]]
  BY Zenon DEF UpdateRecovers, storageVars
<1>2. TypeOK /\ ScanInv /\ StoreFits /\ \A s \in Slots : Shape(s)
  BY Zenon DEF UpdateInv, IInv, PipelineInv
<1>3. ASSUME NEW r \in Slots, status'[r] = "IDLE" <=> status[r] = "IDLE"
      PROVE  ctx'[r] = ctx[r]
  BY Zenon, <1>1, <1>2, <1>3 DEF Shape
<1>4. ASSUME \A r \in Slots : status'[r] = "IDLE" <=> status[r] = "IDLE"
      PROVE  ctx' = ctx
  <2>1. \A r \in Slots : ctx'[r] = ctx[r]
    BY Zenon, <1>3, <1>4
  <2>. QED  BY Zenon, <1>1, <1>2, <2>1 DEF StoreFits
<1>5. ASSUME \A s \in Slots : ~Live(s),
             UNCHANGED <<slotVars, frame, effects, torn, failed, journal, faults>>
      PROVE  UpdateInv'
  <2>1. ctx' = ctx
    BY Zenon, <1>4, <1>5 DEF slotVars
  <2>. QED  BY Zenon, <1>1, <1>5, <2>1, ScanOnlyKeeps
<1>6. CASE RecoverBegin
  BY Zenon, <1>5, <1>6 DEF RecoverBegin
<1>7. CASE RecoverEnd
  <2>1. \A s \in Slots : ~Live(s)
    BY <1>2, <1>7, SizeAssumption DEF RecoverEnd, ScanInv, Slots, Idle
  <2>. QED  BY Zenon, <1>5, <1>7, <2>1 DEF RecoverEnd
<1>8. ASSUME NEW s \in Slots, RecoverSkip(s)  PROVE UpdateInv'
  <2>1. s # Idle
    BY SizeAssumption DEF Slots, Idle
  <2>2. \A r \in Slots : ~Live(r)
    BY Zenon, <1>2, <1>8, <2>1 DEF RecoverSkip, ScanInv
  <2>. QED  BY Zenon, <1>5, <1>8, <2>2 DEF RecoverSkip
<1>9. ASSUME NEW s \in Slots, RecoverUnwind(s)  PROVE UpdateInv'
  <2>1. status' = [status EXCEPT ![s] = "ROLLING_BACK"] /\ status[s] # "IDLE"
    BY Zenon, <1>9 DEF RecoverUnwind, EnterUnwind, NonTerminal
  <2>2. ctx' = ctx
    BY Zenon, <1>2, <1>4, <2>1 DEF TypeOK
  <2>. QED  BY Zenon, <1>1, <1>9, <2>2, RecoverUnwindKeeps
<1>10. ASSUME NEW s \in Slots, RecoverKeep(s) \/ RecoverRelease(s)  PROVE UpdateInv'
  <2>1. /\ frame[s].at = "over" /\ scan = s /\ faults' = faults
        /\ status[s] \in {"FAILED", "ROLLED_BACK"}
    BY Zenon, <1>10 DEF RecoverKeep, RecoverRelease
  <2>2. \/ Cleared(s) /\ ctx'[s] = NoUpdate
        \/ /\ frame' = [frame EXCEPT ![s] = NoFrame] /\ status[s] = "FAILED"
           /\ UNCHANGED <<slotVars, effects, torn, failed, journal>> /\ ctx'[s] = ctx[s]
    <3>1. CASE RecoverKeep(s)
      BY Zenon, <1>3, <3>1 DEF RecoverKeep, slotVars
    <3>2. CASE RecoverRelease(s)
      BY Zenon, <1>1, <1>2, <3>2 DEF RecoverRelease, Cleared, TypeOK
    <3>. QED  BY Zenon, <1>10, <3>1, <3>2
  <2>3. \A r \in Slots : r # s => ctx'[r] = ctx[r]
    <3>1. \A r \in Slots : r # s => status'[r] = status[r]
      BY Zenon, <1>2, <2>2 DEF Cleared, slotVars, TypeOK
    <3>. QED  BY Zenon, <1>3, <3>1
  <2>4. StoreFits'
    <3>1. ctx' \in [Slots -> Updates \union {NoUpdate}]
      BY Zenon, <1>1, <1>2 DEF StoreFits
    <3>. QED  BY Zenon, <1>1, <1>2, <3>1 DEF StoreFits, StateFits
  <2>5. StoreStep(s) /\ StateStep(s)
    BY Zenon, <1>1, <1>2, StillState DEF StoreStep
  <2>6. 0 \notin torn[s] => made[s] \notin DOMAIN store'
    BY Zenon, <1>1, <2>1, SlotKnows DEF GoneInv
  <2>. QED  BY Zenon, <1>1, <2>1, <2>2, <2>3, <2>4, <2>5, <2>6, GivenBackKeeps
<1>. QED  BY Zenon, <1>6, <1>7, <1>8, <1>9, <1>10 DEF UpdateRecovers, RecoverStep

-----------------------------------------------------------------------------
(* A fault.  It may add one snapshot to the debt: that of its slot.        *)

LEMMA FaultDebt ==
  ASSUME UpdateInv, StoreFits', NEW s \in Slots, Others(s), faults' = faults + 1,
         \A k \in Names : k \in DOMAIN store' => k \in DOMAIN store \/ made'[s] = k,
         made'[s] = made[s] \/ made[s] = NoName
  PROVE  DebtInv'
<1>1. \A r \in Slots : r # s => /\ r \in Keepers' <=> r \in Keepers
                                /\ made'[r] = made[r]
  BY ZenonT(60) DEF Others, Same, Keepers, Active, Live
<1>2. NoName \notin Names
  BY DEF NoName, Names
<1>3. Debt' \subseteq Debt \union {made'[s]}
  <2>. SUFFICES ASSUME NEW k \in Debt', k # made'[s]  PROVE k \in Debt
    BY Zenon
  <2>1. k \in Names /\ k \in DOMAIN store' /\ \A r \in Keepers' : made'[r] # k
    BY Zenon DEF Debt
  <2>2. k \in DOMAIN store
    BY Zenon, <2>1
  <2>3. ASSUME NEW r \in Keepers, made[r] = k  PROVE FALSE
    <3>1. r \in Slots
      BY Zenon DEF Keepers
    <3>2. r # s
      BY Zenon, <1>2, <2>1, <2>3
    <3>. QED  BY Zenon, <1>1, <2>1, <2>3, <3>1, <3>2
  <2>. QED  BY Zenon, <2>1, <2>2, <2>3 DEF Debt
<1>4. PICK cost \in [1 .. faults -> Names \union {NoName}] : Debt \subseteq Range(cost)
  BY Zenon DEF UpdateInv, DebtInv
<1>5. faults \in Nat /\ made'[s] \in Names \union {NoName}
  BY Zenon, FaultsCount DEF StoreFits
<1>. DEFINE charged == [i \in 1 .. faults + 1 |-> IF i = faults + 1 THEN made'[s] ELSE cost[i]]
<1>6. charged \in [1 .. faults + 1 -> Names \union {NoName}]
  BY <1>5
<1>7. Range(cost) \union {made'[s]} \subseteq Range(charged)
  <2>1. \A i \in 1 .. faults : i \in 1 .. faults + 1 /\ i # faults + 1
    BY <1>5
  <2>2. faults + 1 \in 1 .. faults + 1
    BY <1>5
  <2>. QED  BY Zenon, <2>1, <2>2 DEF Range
<1>8. Debt' \subseteq Range(charged)
  BY Zenon, <1>3, <1>4, <1>7
<1>. QED  BY Zenon, <1>6, <1>8 DEF DebtInv

LEMMA FaultKeeps ==
  ASSUME UpdateInv, IInv', NEW s \in Slots, Fault(s), StoreFits', StoreStep(s),
         UNCHANGED <<checkpoint, backend, state, ctx>>,
         \A r \in Slots : r # s => made'[r] = made[r] /\ base'[r] = base[r],
         \A k \in Names : k \in DOMAIN store' => k \in DOMAIN store \/ made'[s] = k,
         made'[s] = made[s] \/ (made[s] = NoName /\ InStep(s)),
         MadeInv(s)', HeldInv(s)'
  PROVE  UpdateInv'
<1>1. TypeOK /\ TypeOK' /\ SlotInv(s) /\ OneAtATime
  BY Zenon, IInvBySlot DEF UpdateInv, IInv
<1>2. \A r \in Slots \ {s} : Same(r)
  BY Zenon, <1>1, FaultSlot
<1>3. Others(s)
  BY Zenon, <1>2 DEF Others
<1>4. /\ Live(s) /\ faults' = faults + 1 /\ frame'[s].at = "none"
      /\ UNCHANGED <<status, step_count, undoable, done_count>>
      /\ scan' = IF scan = s THEN Idle ELSE scan
  BY Zenon, <1>1 DEF Fault, slotVars, TypeOK, NoFrame, At
<1>5. faults' # 0
  BY Zenon, <1>4, FaultsCount, Positive
<1>6. Bound(s)' => Bound(s)
  BY Zenon, <1>4 DEF Bound, Active, InStep, Live
<1>7. StateStep(s) /\ Shape(s)
  BY Zenon, StillState, SlotKnows
<1>8. ~Live(s)'
  BY Zenon, <1>4 DEF Live
<1>9. OneAtATime'
  BY Zenon, <1>3, <1>4, <1>6, <1>7, <1>8, OneKeeps
<1>10. DebtInv'
  BY Zenon, <1>3, <1>4, FaultDebt
<1>11. Shape(s)' /\ GoneInv(s)' /\ UnharmedInv(s)'
  BY Zenon, <1>4, <1>5, <1>7 DEF Shape, GoneInv, UnharmedInv
<1>. QED  BY Zenon, <1>3, <1>5, <1>7, <1>9, <1>10, <1>11, TogetherKeep DEF PipelineInv

(* A fault in a step that had its effect leaves the slot torn.             *)
LEMMA FaultKnows ==
  ASSUME UpdateInv, NEW s \in Slots, Fault(s), effects'[s] \subseteq Steps
  PROVE  /\ Live(s) /\ frame'[s].at = "none" /\ UNCHANGED <<status, done_count>>
         /\ torn[s] \subseteq torn'[s]
         /\ InStep(s) /\ frame[s].i = 0 /\ 0 \in effects'[s] => 0 \in torn'[s]
         /\ frame[s].at \in {"returned", "recorded"} => effects' = effects
<1>1. TypeOK /\ frame[s] \in Frames
  BY Zenon, SlotKnows
<1>2. Live(s) /\ frame'[s].at = "none" /\ UNCHANGED <<status, done_count>>
  BY <1>1 DEF Fault, slotVars, TypeOK, NoFrame, At
<1>3. torn'[s] = torn[s] \union (IF frame[s].at \in {"call", "returned", "recorded"}
                                 THEN {frame[s].i} \intersect effects'[s] ELSE {})
  BY Zenon, <1>1 DEF Fault, TypeOK
<1>4. frame[s].at \in {"returned", "recorded"} => effects' = effects
  BY Zenon DEF Fault
<1>. QED  BY Zenon, <1>2, <1>3, <1>4 DEF InStep

LEMMA UpdateFaultKeeps ==
  ASSUME UpdateInv, IInv', NEW s \in Slots, UpdateFault(s)
  PROVE  UpdateInv'
<1>1. Fault(s) /\ UNCHANGED <<checkpoint, backend, state, ctx>>
  BY Zenon DEF UpdateFault
<1>2. effects'[s] \subseteq Steps
  BY Zenon DEF IInv, TypeOK
<1>3. /\ Live(s) /\ frame'[s].at = "none" /\ UNCHANGED <<status, done_count>>
      /\ torn[s] \subseteq torn'[s]
      /\ InStep(s) /\ frame[s].i = 0 /\ 0 \in effects'[s] => 0 \in torn'[s]
      /\ frame[s].at \in {"returned", "recorded"} => effects' = effects
  BY Zenon, <1>1, <1>2, FaultKnows
<1>4. /\ StoreFits /\ MadeInv(s) /\ HeldInv(s) /\ PlaceInv(s) /\ CursorInv(s) /\ EffectInv(s)
      /\ Shape(s) /\ done_count[s] \in Nat /\ frame[s] \in Frames
  BY Zenon, SlotKnows
<1>5. /\ Counting(s)' <=> done_count[s] > 0
      /\ ~InStep(s)' /\ ~Live(s)'
      /\ Active(s)' <=> status[s] \in NonTerminal
  BY Zenon, <1>3 DEF Counting, InStep, Live, Active
<1>6. ASSUME UNCHANGED <<made, base>>, UNCHANGED store \/ status[s] # "RUNNING",
             StoreFits', StoreStep(s), DOMAIN store' \subseteq DOMAIN store
      PROVE  UpdateInv'
  <2>1. HeldInv(s)'
    BY Zenon, <1>3, <1>4, <1>5, <1>6 DEF HeldInv, Counting
  <2>2. status[s] \in NonTerminal /\ done_count[s] = 0 /\ 0 \notin torn'[s] => made[s] = NoName
    <3>. SUFFICES ASSUME status[s] \in NonTerminal, done_count[s] = 0, 0 \notin torn'[s]
                  PROVE  made[s] = NoName
      BY Zenon
    <3>1. 0 \notin torn[s]
      BY Zenon, <1>3
    <3>2. frame[s].at \notin {"returned", "recorded"}
      <4>. SUFFICES ASSUME frame[s].at \in {"returned", "recorded"}  PROVE FALSE
        BY Zenon
      <4>1. frame[s].i = 0 /\ status[s] = "RUNNING" /\ effects' = effects /\ InStep(s)
        BY Zenon, <1>3, <1>4 DEF CursorInv, PlaceInv, Running, InStep
      <4>2. 0 \in undoable[s]
        BY Zenon, <1>4, <4>1 DEF Shape, Undoable
      <4>3. 0 \in effects[s]
        BY Zenon, <1>4, <4>1, <4>2 DEF EffectInv, Effect
      <4>. QED  BY Zenon, <1>3, <4>1, <4>3
    <3>3. ~Counting(s)
      BY Zenon, <3>2, Positive DEF Counting
    <3>. QED  BY Zenon, <1>4, <3>1, <3>3 DEF MadeInv
  <2>3. MadeInv(s)'
    <3>1. done_count[s] > 0 => Counting(s)
      BY Zenon DEF Counting
    <3>2. status[s] \in NonTerminal => Active(s)
      BY DEF Active
    <3>3. ~(done_count[s] > 0) <=> done_count[s] = 0
      BY Zenon, <1>4, Positive
    <3>. QED  BY Zenon, <1>1, <1>3, <1>4, <1>5, <1>6, <2>2, <3>1, <3>2, <3>3 DEF MadeInv
  <2>. QED  BY Zenon, <1>1, <1>6, <2>1, <2>3, FaultKeeps
<1>7. CASE UNCHANGED <<store, made, base>>
  <2>1. StoreFits' /\ StoreStep(s)
    BY Zenon, <1>1, <1>4, <1>7 DEF StoreFits, StateFits, StoreStep
  <2>. QED  BY Zenon, <1>6, <1>7, <2>1
<1>8. CASE /\ frame[s].at = "call" /\ frame[s].i = 0 /\ CheckpointWorks(s)
           /\ 0 \in effects'[s]
           /\ \E data \in {target[Path(s)], Stale} : store' = Stored(checkpoint, data)
           /\ made' = [made EXCEPT ![s] = checkpoint]
           /\ base' = [base EXCEPT ![s] = target[Path(s)]]
  <2>1. /\ InStep(s) /\ Bound(s) /\ status[s] = "RUNNING" /\ done_count[s] = 0
        /\ torn[s] = {} /\ ~Counting(s) /\ backend = "memory" /\ checkpoint # NoName
    <3>1. InStep(s) /\ Bound(s) /\ status[s] = "RUNNING" /\ done_count[s] = 0
      BY Zenon, <1>4, <1>8 DEF InStep, Bound, PlaceInv, CursorInv, Running
    <3>2. torn[s] = {} /\ backend = "memory" /\ checkpoint # NoName
      BY Zenon, <1>4, <1>8, <3>1 DEF EffectInv, CheckpointWorks, Shape
    <3>3. ~Counting(s)
      BY Zenon, <1>8, <3>1, Positive DEF Counting
    <3>. QED  BY Zenon, <3>1, <3>2, <3>3
  <2>2. /\ made[s] = NoName /\ state[ctx[s]].named /\ state[ctx[s]].status \in Stages
    BY Zenon, <1>4, <2>1 DEF MadeInv, NonTerminal
  <2>3. /\ made'[s] = checkpoint
        /\ \A r \in Slots : r # s => made'[r] = made[r] /\ base'[r] = base[r]
    BY Zenon, <1>4, <1>8 DEF StoreFits
  <2>4. checkpoint \in Names \union OwnKeys /\ checkpoint \in Names
    BY Zenon, <1>4, <2>1 DEF StoreFits
  <2>5. PICK data : store' = Stored(checkpoint, data)
    BY Zenon, <1>8
  <2>6. /\ DOMAIN store' = DOMAIN store \union {checkpoint}
        /\ \A x : x # checkpoint => /\ x \in DOMAIN store' <=> x \in DOMAIN store
                                    /\ x \in DOMAIN store => store'[x] = store[x]
        /\ DOMAIN store' \subseteq Names \union OwnKeys
    BY Zenon, <1>4, <2>4, <2>5, StoredIs
  <2>7. StoreFits'
    BY Zenon, <1>1, <1>4, <1>8, <2>4, <2>6 DEF StoreFits, StateFits
  <2>8. StoreStep(s)
    BY Zenon, <1>3, <2>1, <2>6 DEF StoreStep
  <2>9. 0 \in torn'[s]
    BY Zenon, <1>3, <1>8, <2>1
  <2>10. HeldInv(s)'
    <3>1. ~Counting(s)'
      BY Zenon, <1>5, <2>1, Positive
    <3>. QED  BY Zenon, <3>1 DEF HeldInv
  <2>11. MadeInv(s)'
    BY Zenon, <1>1, <1>3, <1>5, <2>1, <2>2, <2>3, <2>9 DEF MadeInv
  <2>. QED  BY Zenon, <1>1, <2>1, <2>2, <2>3, <2>6, <2>7, <2>8, <2>10, <2>11, FaultKeeps
<1>9. CASE /\ frame[s].at = "unwind" /\ frame[s].remaining = 1
           /\ store' = Without(checkpoint) /\ UNCHANGED <<made, base>>
  <2>1. status[s] = "ROLLING_BACK" /\ done_count[s] > 0
    <3>1. status[s] = "ROLLING_BACK" /\ frame[s].remaining <= done_count[s]
      BY Zenon, <1>4, <1>9 DEF PlaceInv, CursorInv
    <3>2. done_count[s] \in Nat /\ 1 <= done_count[s]
      BY Zenon, <1>4, <1>9, <3>1
    <3>. QED  BY Zenon, <3>1, <3>2, Positive
  <2>2. made[s] # NoName /\ Bound(s)
    BY Zenon, <1>3, <1>4, <2>1 DEF MadeInv, Counting, Bound, Active
  <2>3. /\ DOMAIN store' = DOMAIN store \ {checkpoint}
        /\ \A x : x # checkpoint => /\ x \in DOMAIN store' <=> x \in DOMAIN store
                                    /\ x \in DOMAIN store => store'[x] = store[x]
        /\ DOMAIN store' \subseteq Names \union OwnKeys
    BY Zenon, <1>4, <1>9, WithoutIs
  <2>4. StoreFits'
    BY Zenon, <1>1, <1>4, <1>9, <2>3 DEF StoreFits, StateFits
  <2>5. StoreStep(s)
    BY Zenon, <1>3, <2>2, <2>3 DEF StoreStep
  <2>. QED  BY Zenon, <1>6, <1>9, <2>1, <2>3, <2>4, <2>5
<1>10. CASE /\ frame[s].at = "over" /\ status[s] = "COMMITTED" /\ store' = Discarded(s)
            /\ UNCHANGED <<made, base>>
  <2>1. /\ StoreStep(s) /\ DOMAIN store' \subseteq DOMAIN store
        /\ DOMAIN store' \subseteq Names \union OwnKeys
    BY Zenon, <1>10, DiscardedIs
  <2>2. StoreFits'
    BY Zenon, <1>1, <1>4, <1>10, <2>1 DEF StoreFits, StateFits
  <2>. QED  BY Zenon, <1>6, <1>10, <2>1, <2>2
<1>. QED  BY Zenon, <1>7, <1>8, <1>9, <1>10 DEF UpdateFault

-----------------------------------------------------------------------------
(* While no code of the engine is on the stack.                            *)

LEMMA apply_updateKeeps ==
  ASSUME UpdateInv, IInv', NEW u \in Updates, NEW s \in Slots, apply_update(u, s)
  PROVE  UpdateInv'
<1>1. /\ IsInit(u) /\ \A r \in Slots : ~Live(r)
      /\ UNCHANGED <<backend, store, checkpoint, state, scan, torn, failed, faults>>
  BY Zenon DEF apply_update, Quiet, IsInit, workflow_begin, storageVars
<1>2. /\ TypeOK /\ StoreFits /\ OneAtATime /\ UnharmedInv(s) /\ EffectInv(s)
  BY Zenon, SlotKnows
<1>3. /\ status[s] = "IDLE" /\ status'[s] = "RUNNING" /\ step_count'[s] = UpdateSteps
      /\ undoable'[s] = Undoable /\ done_count'[s] = 0 /\ frame'[s].at = "claimed"
      /\ ctx'[s] = u /\ made'[s] = NoName
  BY Zenon, <1>2 DEF apply_update, workflow_begin, TypeOK, StoreFits, At
<1>4. \A r \in Slots : r # s => /\ Same(r) /\ made'[r] = made[r] /\ base'[r] = base[r]
                                /\ ctx'[r] = ctx[r]
  BY Zenon, <1>2 DEF apply_update, workflow_begin, TypeOK, StoreFits, Same
<1>5. Others(s) /\ StoreStep(s) /\ StateStep(s)
  BY Zenon, <1>1, <1>2, <1>4, StillState DEF Others, StoreStep
<1>6. StoreFits'
  BY Zenon, <1>1, <1>2 DEF apply_update, StoreFits, StateFits
<1>7. checkpoint # NoName /\ state[u].named /\ \A r \in Slots : ~Bound(r)
  BY Zenon, <1>1, <1>2 DEF OneAtATime
<1>8. \A r \in Slots : /\ ~Bound(r)'
                       /\ Live(r)' <=> r = s
                       /\ frame'[r].at = "claimed" => r = s
  <2>. SUFFICES ASSUME NEW r \in Slots
                PROVE  /\ ~Bound(r)'
                       /\ Live(r)' <=> r = s
                       /\ frame'[r].at = "claimed" => r = s
    BY Zenon
  <2>1. CASE r = s
    BY Zenon, <1>3, <2>1 DEF Bound, InStep, Live
  <2>2. CASE r # s
    <3>1. Same(r) /\ made'[r] = made[r] /\ ~Live(r) /\ ~Bound(r)
      BY Zenon, <1>1, <1>4, <1>7, <2>2
    <3>. QED  BY Zenon, <2>2, <3>1 DEF Same, Bound, InStep, Live, Active
  <2>. QED  BY Zenon, <2>1, <2>2
<1>9. OneAtATime'
  <2>1. \A v \in Updates : (IsInit(v)' <=> IsInit(v)) /\ state'[v] = state[v]
    BY Zenon, <1>1 DEF IsInit
  <2>2. \A v \in Updates : IsInit(v)' => /\ checkpoint' # NoName /\ state'[v].named
                                         /\ \A r \in Slots : ~Bound(r)'
    BY Zenon, <1>1, <1>2, <1>7, <1>8, <2>1 DEF OneAtATime
  <2>3. \A v, w \in Updates : IsInit(v)' /\ IsInit(w)' => v = w
    BY Zenon, <1>2, <2>1 DEF OneAtATime
  <2>4. \A r \in Slots : frame'[r].at = "claimed" => ctx'[r] \in Updates /\ IsInit(ctx[r])'
    BY Zenon, <1>1, <1>3, <1>8, <2>1
  <2>. QED  BY Zenon, <1>8, <2>2, <2>3, <2>4 DEF OneAtATime
<1>10. s \notin Keepers
  BY Zenon, <1>1, <1>3 DEF Keepers, Active, NonTerminal
<1>11. DebtInv'
  BY Zenon, <1>1, <1>5, <1>6, <1>10, DebtKeeps
<1>a. ~Counting(s)'
  BY Zenon, <1>3, Positive DEF Counting
<1>12. Shape(s)' /\ HeldInv(s)' /\ GoneInv(s)' /\ UnharmedInv(s)'
  BY Zenon, <1>1, <1>2, <1>3, <1>7, <1>8, <1>a DEF Shape, HeldInv, GoneInv, UnharmedInv
<1>13. MadeInv(s)'
  BY Zenon, <1>1, <1>3, <1>7, <1>a DEF MadeInv, InStep
<1>. QED  BY Zenon, <1>1, <1>5, <1>6, <1>9, <1>11, <1>12, <1>13, TogetherKeep DEF PipelineInv

(* Steps that leave the engine alone: what they may do to the rest.        *)
LEMMA QuietKeeps ==
  ASSUME UpdateInv, Quiet, UNCHANGED <<vars, ctx, made, base>>, StoreFits', OneAtATime',
         backend' = backend \/ backend' # "NULL",
         checkpoint # NoName => checkpoint' # NoName,
         \A k \in Names \union {NoName} : /\ k \in DOMAIN store' <=> k \in DOMAIN store
                                          /\ k \in DOMAIN store => store'[k] = store[k],
         \A s \in Slots : status[s] \in NonTerminal /\ made[s] # NoName =>
           checkpoint' = checkpoint /\ state'[ctx[s]].named /\ state'[ctx[s]].status \in Stages
  PROVE  UpdateInv'
<1>1. UNCHANGED <<status, step_count, undoable, done_count, frame, torn, failed, faults>>
  BY Zenon DEF vars
<1>2. IInv'
  BY Zenon, StepIInv DEF UpdateInv
<1>3. \A s \in Slots : made[s] \in Names \union {NoName}
  BY Zenon DEF UpdateInv, StoreFits
<1>4. DebtInv'
  <2>1. Debt' = Debt
    BY Zenon, <1>1 DEF Debt, Keepers, Active, Live
  <2>. QED  BY Zenon, <1>1, <2>1 DEF UpdateInv, DebtInv
<1>5. ASSUME NEW s \in Slots  PROVE PipelineInv(s)' /\ UnharmedInv(s)'
  <2>1. ~Live(s) /\ frame[s].at = "none" /\ PipelineInv(s) /\ UnharmedInv(s)
    BY Zenon DEF Quiet, Live, UpdateInv
  <2>2. /\ made[s] \in DOMAIN store' <=> made[s] \in DOMAIN store
        /\ made[s] \in DOMAIN store => store'[made[s]] = store[made[s]]
    BY Zenon, <1>3
  <2>3. Shape(s)' /\ HeldInv(s)' /\ GoneInv(s)' /\ UnharmedInv(s)'
    BY Zenon, <1>1, <2>1, <2>2 DEF PipelineInv, Shape, HeldInv, GoneInv, UnharmedInv, Counting, Live
  <2>4. MadeInv(s)'
    BY Zenon, <1>1, <2>1 DEF PipelineInv, MadeInv, Counting, Live, Active, InStep
  <2>. QED  BY Zenon, <2>3, <2>4 DEF PipelineInv
<1>. QED  BY Zenon, <1>2, <1>4, <1>5 DEF UpdateInv

LEMMA QuietOne ==
  ASSUME UpdateInv, UNCHANGED <<vars, ctx, made>>, UNCHANGED <<state, checkpoint>>
  PROVE  OneAtATime'
BY ZenonT(60) DEF UpdateInv, OneAtATime, IsInit, Bound, InStep, Active, Live, vars

LEMMA StorageKeeps ==
  ASSUME UpdateInv,
         \/ \E b \in Backends \ {"NULL"} : storage_set_backend(b)
         \/ \E p \in Paths :
              \/ \E data \in Contents : storage_register_buffer(p, data)
              \/ \E k \in OwnKeys : DirectCreate(p, k) \/ DirectRestore(k, p)
         \/ \E k \in OwnKeys : DirectRemove(k)
  PROVE  UpdateInv'
<1>1. Quiet /\ UNCHANGED <<vars, ctx, made, base, state, checkpoint>>
  BY Zenon DEF storage_set_backend, storage_register_buffer, DirectCreate, DirectRestore, DirectRemove
<1>2. OneAtATime' /\ StoreFits
  BY Zenon, <1>1, QuietOne DEF UpdateInv
<1>3. backend' = backend \/ backend' # "NULL"
  BY Zenon DEF storage_set_backend, storage_register_buffer, DirectCreate, DirectRestore, DirectRemove
<1>4. \/ UNCHANGED store
      \/ \E k \in OwnKeys : \E data : store' = Stored(k, data)
      \/ \E k \in OwnKeys : store' = Without(k)
  BY Zenon DEF storage_set_backend, storage_register_buffer, DirectCreate, DirectRestore, DirectRemove,
     create_checkpoint, remove_checkpoint
<1>5. \/ UNCHANGED store
      \/ /\ DOMAIN store' \subseteq Names \union OwnKeys
         /\ \E k \in OwnKeys : \A x : x # k =>
              /\ x \in DOMAIN store' <=> x \in DOMAIN store
              /\ x \in DOMAIN store => store'[x] = store[x]
  <2>1. CASE \E k \in OwnKeys : \E data : store' = Stored(k, data)
    <3>1. PICK k \in OwnKeys : \E data : store' = Stored(k, data)
      BY Zenon, <2>1
    <3>2. PICK data : store' = Stored(k, data)
      BY Zenon, <3>1
    <3>3. k \in Names \union OwnKeys
      OBVIOUS
    <3>. QED  BY Zenon, <1>2, <3>2, <3>3, StoredIs
  <2>2. CASE \E k \in OwnKeys : store' = Without(k)
    BY Zenon, <1>2, <2>2, WithoutIs
  <2>. QED  BY Zenon, <1>4, <2>1, <2>2
<1>6. /\ DOMAIN store' \subseteq Names \union OwnKeys
      /\ \A k \in Names \union {NoName} : /\ k \in DOMAIN store' <=> k \in DOMAIN store
                                          /\ k \in DOMAIN store => store'[k] = store[k]
  BY Zenon, <1>2, <1>5, KeysAssumption DEF StoreFits
<1>7. StoreFits'
  BY Zenon, <1>1, <1>2, <1>6 DEF StoreFits, StateFits
<1>8. \A s \in Slots : status[s] \in NonTerminal /\ made[s] # NoName =>
        checkpoint' = checkpoint /\ state'[ctx[s]].named /\ state'[ctx[s]].status \in Stages
  BY Zenon, <1>1 DEF UpdateInv, PipelineInv, MadeInv
<1>. QED  BY Zenon, <1>1, <1>2, <1>3, <1>6, <1>7, <1>8, QuietKeeps

(* With no update unfinished, the name buffer is nobody's.                 *)
LEMMA init_updateKeeps ==
  ASSUME Overlap = FALSE, inits \in 0 .. MaxInits, UpdateInv,
         NEW u \in Updates, NEW p \in Paths, init_update_transaction(u, p)
  PROVE  UpdateInv'
<1>1. /\ Quiet /\ Unfinished = {} /\ inits < MaxInits /\ checkpoint' = <<p, inits + 1>>
      /\ state' = [state EXCEPT ![u] = [status |-> "INIT", path |-> p, named |-> TRUE]]
      /\ UNCHANGED <<vars, ctx, made, base, backend, store>>
  BY Zenon DEF init_update_transaction, storageVars
<1>2. StoreFits
  BY DEF UpdateInv
<1>3. /\ \A v \in Updates : ~IsInit(v)
      /\ \A s \in Slots : status[s] \notin NonTerminal
  BY Zenon, <1>1 DEF Unfinished, IsInit
<1>4. \A s \in Slots : ~Live(s) /\ ~Bound(s)
  BY Zenon, <1>1, <1>3 DEF Quiet, Bound, InStep, Active, Live
<1>5. \A s \in Slots : ~Live(s)' /\ ~Bound(s)' /\ frame'[s].at # "claimed"
  BY Zenon, <1>1, <1>4 DEF vars, Bound, InStep, Active, Live
<1>6. checkpoint' \in Names /\ checkpoint' # NoName
  <2>1. inits + 1 \in 1 .. MaxInits
    BY <1>1, UpdateAssumption
  <2>2. checkpoint' \in Names
    BY Zenon, <1>1, <2>1 DEF Names
  <2>. QED  BY Zenon, <1>2, <2>2, NoNameNotStored
<1>7. \A v \in Updates : (IsInit(v)' <=> v = u) /\ (v = u => state'[v].named)
  BY Zenon, <1>1, <1>2, <1>3 DEF StoreFits, StateFits, IsInit
<1>8. OneAtATime'
  BY Zenon, <1>5, <1>6, <1>7 DEF OneAtATime
<1>9. StoreFits'
  <2>1. "INIT" \in Statuses
    BY Zenon DEF Statuses
  <2>. QED  BY Zenon, <1>1, <1>2, <1>6, <2>1 DEF StoreFits, StateFits
<1>. QED  BY Zenon, <1>1, <1>3, <1>6, <1>8, <1>9, QuietKeeps

(* An update_state changes outside of a workflow: no slot depends on it.   *)
LEMMA StateKeeps ==
  ASSUME UpdateInv, NEW u \in Updates, cleanup_update_transaction(u) \/ UpdateRefused(u)
  PROVE  UpdateInv'
<1>1. Quiet /\ UNCHANGED <<vars, ctx, made, base, backend, store, checkpoint>>
  BY DEF cleanup_update_transaction, UpdateRefused, storageVars
<1>2. StoreFits /\ OneAtATime
  BY DEF UpdateInv
<1>3. /\ StateFits'
      /\ \A v \in Updates : v # u => state'[v] = state[v]
      /\ state'[u].status # "INIT"
  <2>1. CASE cleanup_update_transaction(u)
    BY ZenonT(60), <1>2, <2>1 DEF cleanup_update_transaction, StoreFits, StateFits
  <2>2. CASE UpdateRefused(u)
    <3>1. "ERROR" \in Statuses
      BY DEF Statuses
    <3>. QED  BY ZenonT(60), <1>2, <2>2, <3>1 DEF UpdateRefused, Reports, StoreFits, StateFits
  <2>. QED  BY Zenon, <2>1, <2>2
<1>4. StoreFits'
  BY Zenon, <1>1, <1>2, <1>3 DEF StoreFits
<1>5. \A s \in Slots : /\ Bound(s)' <=> Bound(s)
                       /\ ~Live(s) /\ ~Live(s)' /\ frame'[s].at # "claimed"
  BY Zenon, <1>1 DEF vars, Bound, InStep, Active, Live, Quiet
<1>6. \A v \in Updates : IsInit(v)' => v # u /\ IsInit(v) /\ state'[v] = state[v]
  BY Zenon, <1>3 DEF IsInit
<1>7. OneAtATime'
  <2>1. UNCHANGED checkpoint
    BY Zenon, <1>1
  <2>. QED  BY Zenon, <1>2, <1>5, <1>6, <2>1 DEF OneAtATime
<1>8. ASSUME NEW s \in Slots, status[s] \in NonTerminal, made[s] # NoName
      PROVE  state'[ctx[s]].named /\ state'[ctx[s]].status \in Stages
  <2>1. /\ state[ctx[s]].named /\ state[ctx[s]].status \in Stages /\ ctx[s] \in Updates
        /\ Bound(s)
    BY Zenon, <1>8 DEF UpdateInv, PipelineInv, MadeInv, Shape, Bound, Active, NonTerminal
  <2>2. state[u].status \notin Stages
    <3>1. CASE cleanup_update_transaction(u)
      BY Zenon, <3>1 DEF cleanup_update_transaction, Stages
    <3>2. CASE UpdateRefused(u)
      BY Zenon, <3>2 DEF UpdateRefused, Stages
    <3>. QED  BY Zenon, <3>1, <3>2
  <2>3. state'[ctx[s]] = state[ctx[s]]
    BY Zenon, <1>3, <2>1, <2>2
  <2>. QED  BY Zenon, <2>1, <2>3
<1>. QED  BY Zenon, <1>1, <1>4, <1>7, <1>8, QuietKeeps

-----------------------------------------------------------------------------

LEMMA InitsStep == inits \in 0 .. MaxInits /\ [UpdateNext]_allVars => inits' \in 0 .. MaxInits
<1>. SUFFICES ASSUME inits \in 0 .. MaxInits, [UpdateNext]_allVars
              PROVE  inits' \in 0 .. MaxInits
  BY Zenon
<1>1. inits' = inits \/ (inits < MaxInits /\ inits' = inits + 1)
  BY ZenonT(60) DEF UpdateNext, allVars, updateVars, storage_set_backend, storage_register_buffer,
     DirectCreate, DirectRestore, DirectRemove, init_update_transaction,
     cleanup_update_transaction, UpdateRefused, apply_update, UpdateBookkeeping,
     step_checkpoint, OtherSteps, Undo, UpdateEnds, UpdateFault, UpdateRecovers
<1>. QED  BY <1>1, UpdateAssumption

LEMMA UpdateStep ==
  ASSUME Overlap = FALSE
  PROVE  UpdateInv /\ inits \in 0 .. MaxInits /\ [UpdateNext]_allVars => UpdateInv'
<1>. SUFFICES ASSUME UpdateInv, inits \in 0 .. MaxInits, [UpdateNext]_allVars
              PROVE  UpdateInv'
  OBVIOUS
<1>1. IInv'
  BY Zenon, UpdateUsesEngine, StepIInv DEF UpdateInv
<1>2. CASE UNCHANGED allVars
  <2>1. /\ UNCHANGED vars /\ UNCHANGED <<backend, store, checkpoint, state, ctx, made, base>>
        /\ UNCHANGED <<slotVars, frame, effects, torn, failed, journal, faults>>
    BY Zenon, <1>2 DEF allVars, updateVars, vars, slotVars
  <2>. QED  BY Zenon, <1>1, <2>1, QuietOne, StillKeeps
<1>3. ASSUME NEW s \in Slots,
             \/ UpdateBookkeeping(s) \/ step_checkpoint(s) \/ OtherSteps(s) \/ Undo(s)
             \/ UpdateEnds(s) \/ UpdateFault(s)
      PROVE  UpdateInv'
  BY Zenon, <1>1, <1>3, BookkeepingKeeps, step_checkpointKeeps, OtherStepsKeep, UndoKeeps,
     UpdateEndsKeeps, UpdateFaultKeeps
<1>4. CASE UpdateRecovers
  BY Zenon, <1>1, <1>4, UpdateRecoversKeeps
<1>5. ASSUME NEW u \in Updates, NEW s \in Slots, apply_update(u, s)  PROVE UpdateInv'
  BY Zenon, <1>1, <1>5, apply_updateKeeps
<1>6. ASSUME NEW u \in Updates, NEW p \in Paths, init_update_transaction(u, p)
      PROVE  UpdateInv'
  BY Zenon, <1>6, init_updateKeeps
<1>7. ASSUME NEW u \in Updates, cleanup_update_transaction(u) \/ UpdateRefused(u)
      PROVE  UpdateInv'
  BY Zenon, <1>7, StateKeeps
<1>8. CASE \/ \E b \in Backends \ {"NULL"} : storage_set_backend(b)
           \/ \E p \in Paths :
                \/ \E data \in Contents : storage_register_buffer(p, data)
                \/ \E k \in OwnKeys : DirectCreate(p, k) \/ DirectRestore(k, p)
           \/ \E k \in OwnKeys : DirectRemove(k)
  BY Zenon, <1>8, StorageKeeps
<1>. QED  BY Zenon, <1>2, <1>3, <1>4, <1>5, <1>6, <1>7, <1>8 DEF UpdateNext

(* The invariant holds in every state of every behaviour.                  *)
THEOREM UpdateInvariance == ASSUME Overlap = FALSE PROVE UpdateSpec => []UpdateInv
<1>1. UpdateInit => UpdateInv /\ inits \in 0 .. MaxInits
  BY UpdateInits, UpdateAssumption DEF UpdateInit
<1>2. (UpdateInv /\ inits \in 0 .. MaxInits) /\ [UpdateNext]_allVars
        => (UpdateInv /\ inits \in 0 .. MaxInits)'
  BY Zenon, UpdateStep, InitsStep
<1>. QED  BY <1>1, <1>2, PTL DEF UpdateSpec

(* An update that has passed its checkpoint step can fall back to the      *)
(* contents its target had then, also after a fault and until a recovery   *)
(* has taken it back (workflow_run, step_checkpoint, storage.c).           *)
THEOREM SnapshotsAreHeld == ASSUME Overlap = FALSE PROVE UpdateSpec => []SnapshotHeld
<1>1. UpdateInv => SnapshotHeld
  BY UpdateStates
<1>. QED  BY <1>1, UpdateInvariance, PTL

(* A reversal that reports success has removed the snapshot (wf_unwind,    *)
(* undo_remove_checkpoint).                                                *)
THEOREM ReversalsAreClean == ASSUME Overlap = FALSE PROVE UpdateSpec => []CleanReversal
<1>1. UpdateInv => CleanReversal
  BY UpdateStates
<1>. QED  BY <1>1, UpdateInvariance, PTL

(* Every fault costs at most one checkpoint slot (apply_update,            *)
(* workflow_recover, acquire_slot).                                        *)
THEOREM LeaksAreFaults == ASSUME Overlap = FALSE PROVE UpdateSpec => []LeaksNeedFaults
<1>1. UpdateInv => LeaksNeedFaults
  BY UpdateStates
<1>. QED  BY <1>1, UpdateInvariance, PTL

(* Without faults no update ends in FAILED (wf_unwind,                     *)
(* undo_remove_checkpoint).                                                *)
THEOREM FailuresNeedFaults == ASSUME Overlap = FALSE PROVE UpdateSpec => []NoFaultNoFailure
<1>1. UpdateInv => NoFaultNoFailure
  BY UpdateStates
<1>. QED  BY <1>1, UpdateInvariance, PTL
=============================================================================
