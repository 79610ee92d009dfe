------------------------------- MODULE Update -------------------------------
(***************************************************************************)
(* The update pipeline (services/update/sandbox.c, update.c) as a workflow *)
(* over the checkpoint storage (services/storage/transactions.c,           *)
(* storage.c).                                                             *)
(*                                                                         *)
(* An update is a workflow of five steps: checkpoint, verify, sandbox,     *)
(* test, install.  Only checkpoint and install have an undo.  Every step   *)
(* of this module is a step of the engine (Workflow) together with what    *)
(* the callback does to the storage, or a call that leaves the engine      *)
(* alone.  The kernel is cooperative and no callback yields: from          *)
(* apply_update to its return, or to the fault that ends it, nothing else  *)
(* runs.                                                                   *)
(*                                                                         *)
(* tx.checkpoint of every update_state points at the one static buffer of  *)
(* init_update_transaction, so the name an update uses is what that buffer *)
(* holds at the time.  made and base observe, per workflow slot, under     *)
(* which name the checkpoint step made its snapshot and what was in it.    *)
(***************************************************************************)
EXTENDS Workflow, Functions

CONSTANTS
  Updates,         \* update_state structures
  Paths,           \* target paths
  LongPaths,       \* those whose checkpoint name does not fit key[64]
  OwnKeys,         \* checkpoint names of kernel code that is not an update
  MaxCheckpoints,  \* MAX_CHECKPOINTS: snapshots, and registered buffers
  MaxInits,        \* bound on init_update_transaction
  Overlap          \* may an update be set up while another is unfinished?

ASSUME UpdateAssumption ==
  /\ LongPaths \subseteq Paths
  /\ MaxCheckpoints \in Nat \ {0} /\ MaxInits \in Nat /\ Overlap \in BOOLEAN

VARIABLES
  backend,         \* active_backend
  target,          \* contents of the registered buffers
  store,           \* the checkpoint slots in use: name -> snapshot
  checkpoint,      \* the static name buffer
  state,           \* update_state: status, path, and whether tx.checkpoint # NULL
  ctx,             \* the context pointer of each workflow slot
  inits,
  made, base

storageVars == <<backend, target, store>>
updateVars == <<backend, target, store, checkpoint, state, ctx, inits, made, base>>
allVars == <<vars, updateVars>>

-----------------------------------------------------------------------------

(* "fake": the backend test_storage_backend installs, whose                *)
(* create_checkpoint refuses; its other methods are the memory backend's.  *)
Backends == {"NULL", "memory", "fake"}

(* A buffer's contents, told apart as far as one overwrite.                *)
Contents == {0, 1}
NotRegistered == 2

(* A snapshot slot that was claimed and not filled yet holds what it held  *)
(* before.                                                                 *)
Stale == 3

Names == Paths \X (1 .. MaxInits)
NoName == <<>>
NoPath == "NoPath"
NoUpdate == "NoUpdate"

(* The other users of the storage do not use the names of updates.         *)
ASSUME KeysAssumption == OwnKeys \intersect (Names \union {NoName}) = {}

Stage == <<"CHECKPOINT", "VERIFY", "SANDBOX", "TEST", "COMMIT">>
UpdateStatus == {"none", "INIT", "COMPLETE", "ROLLBACK", "ERROR"} \union Range(Stage)

UpdateTypeOK ==
  /\ TypeOK
  /\ backend \in Backends
  /\ target \in [Paths -> Contents \union {NotRegistered}]
  /\ DOMAIN store \subseteq Names \union OwnKeys
  /\ Cardinality(DOMAIN store) <= MaxCheckpoints
  /\ \A k \in DOMAIN store : store[k] \in Contents \union {Stale}
  /\ checkpoint \in Names \union {NoName}
  /\ state \in [Updates ->
       [status : UpdateStatus, path : Paths \union {NoPath}, named : BOOLEAN]]
  /\ ctx \in [Slots -> Updates \union {NoUpdate}]
  /\ inits \in 0 .. MaxInits
  /\ made \in [Slots -> Names \union {NoName}]
  /\ base \in [Slots -> Contents \union {NotRegistered}]

UpdateInit ==
  /\ Init
  /\ backend = "NULL"
  /\ target = [p \in Paths |-> NotRegistered]
  /\ store = [k \in {} |-> 0]
  /\ checkpoint = NoName
  /\ state = [u \in Updates |-> [status |-> "none", path |-> NoPath, named |-> FALSE]]
  /\ ctx = [s \in Slots |-> NoUpdate]
  /\ inits = 0
  /\ made = [s \in Slots |-> NoName]
  /\ base = [s \in Slots |-> NotRegistered]

(* No C code of the engine is on the stack.                                *)
Quiet == scan = Idle /\ \A s \in Slots : ~Live(s)

-----------------------------------------------------------------------------
(* Checkpoint storage.                                                     *)

find_registered(p) == target[p] # NotRegistered

acquire_slot(k) ==
  \/ k \in DOMAIN store
  \/ /\ Cardinality(DOMAIN store) < MaxCheckpoints
     /\ k \in Names => k[1] \notin LongPaths

CanCreate(p, k) == find_registered(p) /\ acquire_slot(k)

(* Mutant: the new snapshot takes the first slot, whoever uses it.         *)
MutStored(k, data) == [x \in {k} |-> data]

Stored(k, data) ==
  [x \in DOMAIN store \union {k} |-> IF x = k THEN data ELSE store[x]]

create_checkpoint(p, k) == CanCreate(p, k) /\ store' = Stored(k, target[p])

(* Mutant: the slot is found and stays in use.                             *)
MutWithout(k) == store

Without(k) == Restrict(store, DOMAIN store \ {k})

remove_checkpoint(k) == k \in DOMAIN store /\ store' = Without(k)

(* Restored(k, p) is target after a successful restore.  A snapshot larger *)
(* than the buffer is refused too, which takes a registration of the same  *)
(* key with a smaller buffer in between: here a key keeps its size.        *)
CanRestore(k, p) == k \in DOMAIN store /\ find_registered(p)
Restored(k, p) == [target EXCEPT ![p] = store[k]]

(* storage_set_backend, which refuses NULL; storage_init at boot.          *)
storage_set_backend(b) ==
  /\ Quiet
  /\ backend' = b
  /\ UNCHANGED <<vars, target, store, checkpoint, state, ctx, inits, made, base>>

(* Registering a key again binds it to another buffer; its owner may also  *)
(* just write to the buffer.                                               *)
storage_register_buffer(p, data) ==
  /\ Quiet
  /\ \/ find_registered(p)
     \/ Cardinality({q \in Paths : find_registered(q)}) < MaxCheckpoints
  /\ target' = [target EXCEPT ![p] = data]
  /\ UNCHANGED <<vars, backend, store, checkpoint, state, ctx, inits, made, base>>

(* Other kernel code uses the storage under keys of its own (test_storage, *)
(* test_storage_backend); a refused call changes nothing.                  *)
DirectCreate(p, k) ==
  /\ Quiet
  /\ create_checkpoint(p, k)
  /\ UNCHANGED <<vars, backend, target, checkpoint, state, ctx, inits, made, base>>

DirectRestore(k, p) ==
  /\ Quiet
  /\ CanRestore(k, p) /\ store[k] \in Contents
  /\ target' = Restored(k, p)
  /\ UNCHANGED <<vars, backend, store, checkpoint, state, ctx, inits, made, base>>

DirectRemove(k) ==
  /\ Quiet
  /\ remove_checkpoint(k)
  /\ UNCHANGED <<vars, backend, target, checkpoint, state, ctx, inits, made, base>>

-----------------------------------------------------------------------------
(* update.c.                                                               *)

(* Updates between their init and their end: set up and not executed, or   *)
(* the context of a workflow that is not over.                             *)
Unfinished ==
  {u \in Updates : state[u].status = "INIT"}
    \union {ctx[s] : s \in {r \in Slots : status[r] \in NonTerminal}}

(* The transaction id is fresh, and so is the name: inits counts the ids   *)
(* that went into names.  A name is truncated to 32 bits of the id, which  *)
(* MaxInits keeps out of reach.                                            *)
init_update_transaction(u, p) ==
  /\ Quiet
  /\ u \notin Unfinished
  /\ Overlap \/ Unfinished = {}
  /\ inits < MaxInits
  /\ inits' = inits + 1
  /\ checkpoint' = <<p, inits + 1>>
  /\ state' = [state EXCEPT ![u] = [status |-> "INIT", path |-> p, named |-> TRUE]]
  /\ UNCHANGED <<vars, storageVars, ctx, made, base>>

(* Called once execute_update has returned, whatever it returned.          *)
cleanup_update_transaction(u) ==
  /\ Quiet
  /\ state[u].status \in {"COMPLETE", "ROLLBACK", "ERROR"} /\ state[u].named
  /\ state' = [state EXCEPT ![u].named = FALSE]
  /\ UNCHANGED <<vars, storageVars, checkpoint, ctx, inits, made, base>>

-----------------------------------------------------------------------------
(* apply_update, called by execute_update.                                 *)

UpdateSteps == 5
Undoable == {0, 4}

ASSUME StepsAssumption == UpdateSteps <= MaxSteps

Reports(u, st) == state' = [state EXCEPT ![u].status = st]

(* The image is too large, or the workflow table is full.                  *)
UpdateRefused(u) ==
  /\ Quiet
  /\ state[u].status = "INIT"
  /\ Reports(u, "ERROR")
  /\ UNCHANGED <<vars, storageVars, checkpoint, ctx, inits, made, base>>

apply_update(u, s) ==
  /\ Quiet
  /\ state[u].status = "INIT"
  /\ workflow_begin(s, UpdateSteps, Undoable)
  /\ ctx' = [ctx EXCEPT ![s] = u]
  /\ made' = [made EXCEPT ![s] = NoName]
  /\ base' = [base EXCEPT ![s] = NotRegistered]
  /\ UNCHANGED <<storageVars, checkpoint, state, inits>>

(* What the callbacks see.                                                 *)
Path(s) == state[ctx[s]].path
Named(s) == backend # "NULL" /\ state[ctx[s]].named

(* A callback's first statement is st->status = the stage.                 *)
Entering(s) ==
  IF frame'[s].at = "call"
  THEN Reports(ctx[s], Stage[frame'[s].i + 1])
  ELSE UNCHANGED state

UpdateBookkeeping(s) ==
  /\ \/ RunBegin(s) /\ Entering(s)
     \/ CountStep(s) /\ Entering(s)
     \/ (RecordStep(s) \/ UndoSkip(s) \/ UnwindEnds(s)) /\ UNCHANGED state
  /\ UNCHANGED <<storageVars, checkpoint, ctx, inits, made, base>>

(* Does step_checkpoint succeed?                                           *)
CheckpointWorks(s) == backend = "memory" /\ CanCreate(Path(s), checkpoint)

step_checkpoint(s) ==
  /\ frame[s].at = "call" /\ frame[s].i = 0
  /\ \/ /\ CheckpointWorks(s)
        /\ StepReturnsOk(s)
        /\ create_checkpoint(Path(s), checkpoint)
        /\ made' = [made EXCEPT ![s] = checkpoint]
        /\ base' = [base EXCEPT ![s] = target[Path(s)]]
     \/ /\ ~CheckpointWorks(s)
        /\ StepFails(s)
        /\ UNCHANGED <<store, made, base>>
  /\ UNCHANGED <<backend, target, checkpoint, state, ctx, inits>>

(* sandbox_apply stages an image of the right size and format; run_tests   *)
(* passes every path that is not NULL.                                     *)
StagingWorks == BOOLEAN
TestsPass == {TRUE}

(* What a step after the first may return.  Whether the signature is good  *)
(* is up to the image; install_update only writes a log message.           *)
Outcomes == <<BOOLEAN, StagingWorks, TestsPass, {TRUE}>>

(* verify, sandbox, test and install leave the storage alone.              *)
OtherSteps(s) ==
  /\ frame[s].at = "call" /\ frame[s].i > 0
  /\ \/ TRUE \in Outcomes[frame[s].i] /\ StepReturnsOk(s)
     \/ FALSE \in Outcomes[frame[s].i] /\ StepFails(s)
  /\ UNCHANGED <<storageVars, checkpoint, state, ctx, inits, made, base>>

(* Mutant: the undo names the snapshot without its transaction id.         *)
MutRemoveWorks(s) == FALSE

RemoveWorks(s) == Named(s) /\ checkpoint \in DOMAIN store
RestoreWorks(s) == Named(s) /\ CanRestore(checkpoint, Path(s))

(* undo_remove_checkpoint for step 0, undo_restore_checkpoint for step 4.  *)
Undo(s) ==
  LET k == frame[s].remaining - 1
      ok == IF k = 0 THEN RemoveWorks(s) ELSE RestoreWorks(s)
  IN  /\ frame[s].at = "unwind" /\ k \in Undoable
      /\ UndoReturns(s, ok)
      /\ ok \/ effects' = effects
      /\ store' = IF k = 0 /\ ok THEN Without(checkpoint) ELSE store
      /\ target' = IF k # 0 /\ ok THEN Restored(checkpoint, Path(s)) ELSE target
      /\ UNCHANGED <<backend, checkpoint, state, ctx, inits, made, base>>

(* Mutant: the snapshot of a committed update stays in the table.          *)
MutDiscarded(s) == store

Discarded(s) == IF RemoveWorks(s) THEN Without(checkpoint) ELSE store

(* workflow_run has returned to apply_update.  A committed update's        *)
(* checkpoint is discarded, whatever remove_checkpoint says.               *)
UpdateEnds(s) ==
  /\ scan # s
  /\ \/ /\ status[s] = "COMMITTED"
        /\ workflow_release(s)
        /\ Reports(ctx[s], "COMPLETE")
        /\ store' = Discarded(s)
        /\ ctx' = [ctx EXCEPT ![s] = NoUpdate]
     \/ /\ status[s] = "ROLLED_BACK"
        /\ workflow_release(s)
        /\ Reports(ctx[s], "ROLLBACK")
        /\ ctx' = [ctx EXCEPT ![s] = NoUpdate]
        /\ UNCHANGED store
     \/ /\ KeepEvidence(s)
        /\ Reports(ctx[s], "ERROR")
        /\ UNCHANGED <<store, ctx>>
  /\ UNCHANGED <<backend, target, checkpoint, inits, made, base>>

(* workflow_recover.  It does not touch the update_state.                  *)
UpdateRecovers ==
  /\ RecoverBegin \/ RecoverStep
  /\ ctx' = [s \in Slots |-> IF status'[s] = "IDLE" THEN NoUpdate ELSE ctx[s]]
  /\ UNCHANGED <<storageVars, checkpoint, state, inits, made, base>>

(* A fault inside a callback: before or after it had its effect on the     *)
(* store or the target, or, in create_checkpoint, between claiming the     *)
(* slot and filling it.  After the commit it may hit before or after the   *)
(* discard.                                                                *)
UpdateFault(s) ==
  LET f == frame[s]
      creating == f.at = "call" /\ f.i = 0 /\ CheckpointWorks(s)
      removing == f.at = "unwind" /\ f.remaining = 1 /\ RemoveWorks(s)
      restoring == f.at = "unwind" /\ f.remaining = UpdateSteps /\ RestoreWorks(s)
  IN  /\ Fault(s)
      /\ \/ effects' = effects /\ UNCHANGED <<target, store, made, base>>
         \/ /\ creating
            /\ 0 \in effects'[s]
            /\ \E data \in {target[Path(s)], Stale} : store' = Stored(checkpoint, data)
            /\ made' = [made EXCEPT ![s] = checkpoint]
            /\ base' = [base EXCEPT ![s] = target[Path(s)]]
            /\ UNCHANGED target
         \/ /\ removing
            /\ 0 \notin effects'[s]
            /\ store' = Without(checkpoint)
            /\ UNCHANGED <<target, made, base>>
         \/ /\ restoring
            /\ UpdateSteps - 1 \notin effects'[s]
            /\ target' = Restored(checkpoint, Path(s))
            /\ UNCHANGED <<store, made, base>>
         \/ /\ f.at = "over" /\ status[s] = "COMMITTED"
            /\ store' = Discarded(s)
            /\ UNCHANGED <<target, made, base>>
      /\ UNCHANGED <<backend, checkpoint, state, ctx, inits>>

UpdateNext ==
  \/ \E b \in Backends \ {"NULL"} : storage_set_backend(b)
  \/ \E p \in Paths :
       \/ \E data \in Contents : storage_register_buffer(p, data)
       \/ \E k \in OwnKeys : DirectCreate(p, k) \/ DirectRestore(k, p)
       \/ \E u \in Updates : init_update_transaction(u, p)
  \/ \E k \in OwnKeys : DirectRemove(k)
  \/ \E u \in Updates :
       \/ cleanup_update_transaction(u)
       \/ UpdateRefused(u)
       \/ \E s \in Slots : apply_update(u, s)
  \/ \E s \in Slots :
       \/ UpdateBookkeeping(s)
       \/ step_checkpoint(s)
       \/ OtherSteps(s)
       \/ Undo(s)
       \/ UpdateEnds(s)
       \/ UpdateFault(s)
  \/ UpdateRecovers

UpdateSpec == UpdateInit /\ [][UpdateNext]_allVars

-----------------------------------------------------------------------------
(* Properties.                                                             *)

(* From the checkpoint step to the commit there is a snapshot to fall back *)
(* to, with the contents the target had when the update began, whatever    *)
(* the owner of the target and the other users of the storage do, and also *)
(* while a workflow that a fault interrupted waits for its recovery.       *)
SnapshotHeld ==
  \A s \in Slots : status[s] = "RUNNING" /\ done_count[s] > 0 =>
    /\ made[s] \in DOMAIN store
    /\ store[made[s]] = base[s]

(* workflow.c:251 "A clean reversal proves the workflow left nothing       *)
(* behind": when the undo chain of an update that was not torn inside a    *)
(* step reports success, the update's snapshot is gone from the store.     *)
CleanReversal ==
  \A s \in Slots :
    frame[s].at = "over" /\ status[s] = "ROLLED_BACK" /\ torn[s] = {} =>
      made[s] \notin DOMAIN store

(* Snapshots leak through faults only, at most one per fault: every name   *)
(* of an update in the store belongs to a workflow somebody will still     *)
(* reverse or commit, or is put down to a fault that no other name is put  *)
(* down to.                                                                *)
LeaksNeedFaults ==
  LET owned == {made[s] : s \in {r \in Slots : status[r] \in NonTerminal \/ Live(r)}}
      leaked == (DOMAIN store \intersect Names) \ owned
  IN  \E cost \in [1 .. faults -> Names \union {NoName}] : leaked \subseteq Range(cost)

(* Without a fault the undo chain never fails, so no slot stays claimed as *)
(* evidence and every started update ends in COMPLETE or ROLLBACK, also on *)
(* a backend that refuses checkpoints and with a full checkpoint table.    *)
NoFaultNoFailure ==
  faults = 0 => \A s \in Slots : status[s] # "FAILED"
=============================================================================
