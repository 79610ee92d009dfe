----------------------------- MODULE Telemetry ------------------------------
(***************************************************************************)
(* How events leave the kernel: the message ring (kernel/ring_buffer.c),   *)
(* the transaction log (kernel/fs/storage.c), and the auditor that drains  *)
(* the ring to the telemetry port (services/auditor/exporter.c).  The ring *)
(* drops the newest message when it is full, the log the oldest entry; the *)
(* two share one overflow counter, which the next auditor_tick reports and *)
(* clears.                                                                 *)
(*                                                                         *)
(* A message is the number of its acceptance by the ring, a log entry the  *)
(* number of the log_transaction call: what the properties are about is    *)
(* which ones survive, and in what order.  The last group of variables     *)
(* counts what has happened; no code reads it.                             *)
(***************************************************************************)
EXTENDS Naturals

CONSTANTS
  Capacity,        \* IPC_RING_CAPACITY
  DrainBatch,      \* DRAIN_BATCH
  HeartbeatEvery,  \* 100 in auditor_tick
  LogEntries,      \* TXN_LOG_ENTRIES
  CounterRange,    \* 2^32: txn_log_head and txn_log_tail are uint32_t
  MaxPushes,       \* bound on ring_push calls
  MaxLogged        \* bound on log_transaction calls

ASSUME TelemetryAssumption ==
  /\ Capacity \in Nat \ {0, 1} /\ DrainBatch \in Nat \ {0}
  /\ HeartbeatEvery \in Nat \ {0}
  /\ LogEntries \in Nat \ {0} /\ CounterRange \in Nat
  /\ CounterRange > LogEntries /\ CounterRange % LogEntries = 0
  /\ MaxPushes \in Nat /\ MaxLogged \in Nat

VARIABLES
  head, tail, buf, overflow,              \* ipc_ring
  txn_log, txn_log_head, txn_log_tail, txn_log_overflow,
  heartbeat_counter,
  drained,                                \* of the auditor_tick in progress
  pushes, accepted, sent,                 \* ring_push calls, those not dropped, records out
  reported,                               \* the sum of all OVERFLOW records
  logged                                  \* log_transaction calls

ring == <<head, tail, buf, overflow>>
log == <<txn_log, txn_log_head, txn_log_tail, txn_log_overflow>>
vars == <<head, tail, buf, overflow, txn_log, txn_log_head, txn_log_tail,
          txn_log_overflow, heartbeat_counter, drained, pushes, accepted, sent,
          reported, logged>>

-----------------------------------------------------------------------------

NotTicking == DrainBatch + 1

TypeOK ==
  /\ head \in 0 .. Capacity - 1 /\ tail \in 0 .. Capacity - 1
  /\ buf \in [0 .. Capacity - 1 -> 0 .. MaxPushes]
  /\ overflow \in 0 .. MaxPushes + MaxLogged
  /\ txn_log \in [0 .. LogEntries - 1 -> 0 .. MaxLogged]
  /\ txn_log_head \in 0 .. CounterRange - 1
  /\ txn_log_tail \in 0 .. CounterRange - 1
  /\ txn_log_overflow \in 0 .. MaxLogged
  /\ heartbeat_counter \in 0 .. HeartbeatEvery - 1
  /\ drained \in 0 .. NotTicking
  /\ pushes \in 0 .. MaxPushes /\ accepted \in 0 .. pushes /\ sent \in 0 .. accepted
  /\ reported \in 0 .. MaxPushes + MaxLogged
  /\ logged \in 0 .. MaxLogged

(* ring_init, called by auditor_init.                                      *)
Init ==
  /\ head = 0 /\ tail = 0 /\ overflow = 0
  /\ buf = [i \in 0 .. Capacity - 1 |-> 0]
  /\ txn_log = [i \in 0 .. LogEntries - 1 |-> 0]
  /\ txn_log_head = 0 /\ txn_log_tail = 0 /\ txn_log_overflow = 0
  /\ heartbeat_counter = 0 /\ drained = NotTicking
  /\ pushes = 0 /\ accepted = 0 /\ sent = 0 /\ reported = 0 /\ logged = 0

-----------------------------------------------------------------------------
(* The ring.  One slot stays empty, to tell a full ring from an empty one. *)

(* Mutant: the ring is taken to be full one slot too late.                 *)
MutFull == FALSE

Full == (head + 1) % Capacity = tail

ring_len == (head + Capacity - tail) % Capacity

(* Mutant: a full ring drops the message and does not say so.              *)
MutDrop == UNCHANGED <<head, tail, buf, overflow, accepted>>

Drop ==
  /\ overflow' = overflow + 1
  /\ UNCHANGED <<head, tail, buf, accepted>>

ring_push ==
  /\ drained = NotTicking
  /\ pushes < MaxPushes
  /\ pushes' = pushes + 1
  /\ \/ Full /\ Drop
     \/ /\ ~Full
        /\ accepted' = accepted + 1
        /\ buf' = [buf EXCEPT ![head] = accepted + 1]
        /\ head' = (head + 1) % Capacity
        /\ UNCHANGED <<tail, overflow>>
  /\ UNCHANGED <<log, heartbeat_counter, drained, sent, reported, logged>>

-----------------------------------------------------------------------------
(* The transaction log.                                                    *)

depth == (txn_log_head + CounterRange - txn_log_tail) % CounterRange

(* Mutant: full one entry too late.                                        *)
MutLogFull == depth > LogEntries

LogFull == depth >= LogEntries

log_transaction ==
  /\ drained = NotTicking
  /\ logged < MaxLogged
  /\ logged' = logged + 1
  /\ \/ /\ LogFull
        /\ txn_log_tail' = (txn_log_tail + 1) % CounterRange
        /\ txn_log_overflow' = txn_log_overflow + 1
        /\ overflow' = overflow + 1
     \/ /\ ~LogFull
        /\ UNCHANGED <<txn_log_tail, txn_log_overflow, overflow>>
  /\ txn_log' = [txn_log EXCEPT ![txn_log_head % LogEntries] = logged + 1]
  /\ txn_log_head' = (txn_log_head + 1) % CounterRange
  /\ UNCHANGED <<head, tail, buf, heartbeat_counter, drained, pushes, accepted,
                 sent, reported>>

-----------------------------------------------------------------------------
(* auditor_tick: report the drops, drain at most a batch, count towards    *)
(* the heartbeat.  It runs to its end before anything else does.           *)

TickBegin ==
  /\ drained = NotTicking
  /\ drained' = 0
  /\ reported' = reported + overflow
  /\ overflow' = 0
  /\ UNCHANGED <<head, tail, buf, log, heartbeat_counter, pushes, accepted, sent,
                 logged>>

(* Mutant: the ring is taken to be empty one message early.                *)
MutPending == ring_len > 1

(* Not empty, so that ring_pop returns a message.                          *)
Pending == head # tail

(* Mutant: the tail is advanced before the slot is read.                   *)
MutPopped == buf[(tail + 1) % Capacity]

(* The message ring_pop copies out.                                        *)
Popped == buf[tail]

(* ring_pop and emit_msg_record.                                           *)
TickDrain ==
  /\ drained < DrainBatch
  /\ Pending
  /\ drained' = drained + 1
  /\ tail' = (tail + 1) % Capacity
  /\ sent' = Popped
  /\ UNCHANGED <<head, buf, overflow, log, heartbeat_counter, pushes, accepted,
                 reported, logged>>

TickEnd ==
  /\ drained # NotTicking
  /\ (drained = DrainBatch \/ ~Pending)
  /\ drained' = NotTicking
  /\ heartbeat_counter' = (heartbeat_counter + 1) % HeartbeatEvery
  /\ UNCHANGED <<ring, log, pushes, accepted, sent, reported, logged>>

auditor_tick == TickBegin \/ TickDrain \/ TickEnd

Next == ring_push \/ log_transaction \/ auditor_tick

Spec == Init /\ [][Next]_vars

(* The idle loop calls process_events, which ticks, over and over.         *)
FairSpec == Spec /\ WF_vars(auditor_tick)

-----------------------------------------------------------------------------
(* Properties.                                                             *)

(* The ring holds exactly the accepted messages that have not been sent,   *)
(* in the order of acceptance, across every wrap of head and tail.         *)
RingHolds ==
  /\ accepted = sent + ring_len
  /\ \A i \in 0 .. ring_len - 1 : buf[(tail + i) % Capacity] = sent + i + 1

(* The telemetry stream carries accepted messages one by one, in order,    *)
(* none twice and none left out.                                           *)
SentInOrder == [][TickDrain => sent' = sent + 1]_vars

(* Nothing is lost silently: every message given to the ring and every     *)
(* entry pushed out of the log has been sent, is still in the ring, was    *)
(* reported in an OVERFLOW record, or is in the counter awaiting the next. *)
Accounted ==
  pushes + txn_log_overflow = sent + ring_len + reported + overflow

(* The log is the last entries logged, oldest at the tail, also when the   *)
(* 32-bit counters wrap; all older ones are counted as dropped.            *)
LogKeepsNewest ==
  /\ depth <= LogEntries
  /\ logged = txn_log_overflow + depth
  /\ \A i \in 0 .. depth - 1 :
       txn_log[(txn_log_tail + i) % LogEntries] = txn_log_overflow + i + 1

(* The invariant the proofs use; it is inductive as it stands.             *)
IInv == TypeOK /\ RingHolds /\ Accounted /\ LogKeepsNewest

(* Every accepted message is sent at last, whatever the ratio of pushes to *)
(* the batch size.                                                         *)
EventuallySent == \A k \in 1 .. MaxPushes : accepted >= k ~> sent >= k
=============================================================================
