------------------------------- MODULE Records ------------------------------
(***************************************************************************)
(* The telemetry records of the auditor: how services/auditor/exporter.c   *)
(* packs what happened into one fixed layout, and how the readers          *)
(* (scripts/read_telemetry.py, scripts/reconstruct_graph.py) unpack it.    *)
(* The layout is used again for every type of record: operation and        *)
(* checksum are words, four fields are bytes, and payload_hash is sixteen  *)
(* bytes into which up to four words are written low byte first.           *)
(*                                                                         *)
(* A byte has Byte values and a nibble Nibble; the code's are 256 and 16.  *)
(* The digests of a payload are words like others here.  Magic, version    *)
(* and time stamp are the same for all types and are left out.             *)
(***************************************************************************)
EXTENDS Integers, Sequences

CONSTANTS Byte, Nibble

ASSUME RecordsAssumption ==
  /\ Nibble \in Nat \ {0, 1}
  /\ Byte = Nibble * Nibble

Word == Byte * Byte * Byte * Byte
TASK_PARENT_NONE == Word - 1

(* The low byte, and byte i from the bottom, of a word.                    *)
Low(v) == v % Byte
Weights == <<1, Byte, Byte * Byte, Byte * Byte * Byte>>
ByteOf(v, i) == (v \div Weights[i + 1]) % Byte

-----------------------------------------------------------------------------
(* Packing.                                                                *)

(* The loop that writes four words into payload_hash.                      *)
Packed(vals) == [i \in 0 .. 15 |-> ByteOf(vals[(i \div 4) + 1], i % 4)]

(* A record: the four bytes, the two words and the sixteen bytes.          *)
Record(type, priority, domain, proto, channel, op, sum, vals) ==
  [type |-> type, priority |-> Low(priority), src_domain |-> Low(domain),
   protocol |-> Low(proto), channel_id |-> Low(channel),
   operation |-> op % Word, checksum |-> sum % Word, payload_hash |-> Packed(vals)]

Zeros == <<0, 0, 0, 0>>

(* The word ipc_send leaves in a message: channel, domain and protocol.    *)
Stamp(channel, domain, proto) ==
  Low(channel) + Byte * Low(domain) + Byte * Byte * Low(proto)

emit_msg_record(stamp, priority, op, sum, digests) ==
  Record("MSG", priority, ByteOf(stamp, 1), ByteOf(stamp, 2), ByteOf(stamp, 0),
         op, sum, digests)

emit_overflow_record(dropped) == Record("OVERFLOW", 0, 0, 0, 0, dropped, 0, Zeros)

emit_heartbeat_record == Record("HEARTBEAT", 0, 0, 0, 0, 0, 0, Zeros)

emit_chan_create_record(channel, owner, caps, domain, level, proto) ==
  Record("CHAN_CREATE", 0, domain, proto, channel, caps, owner,
         <<domain, level, 0, 0>>)

emit_chan_connect_record(src, src_domain, src_caps, proto, dst, dst_domain, dst_caps) ==
  Record("CHAN_CONNECT", 0, src_domain, proto, src, dst, dst_domain,
         <<src_caps, dst_caps, 0, 0>>)

emit_domain_edge_record(src, dst, added) ==
  Record("DOMAIN_EDGE", 0, src, 0, dst, src, dst, <<added, 0, 0, 0>>)

(* A priority that does not fit a byte is cut off at either end.           *)
Clamped(p) == IF p < 0 THEN 0 ELSE IF p > Byte - 1 THEN Byte - 1 ELSE p

emit_task_create_record(id, parent, caps, domain, priority, stack_top) ==
  Record("TASK_CREATE", Clamped(priority), domain, 0, 0, id, parent,
         <<caps, domain, stack_top, 0>>)

emit_task_exit_record(id, exit_code) ==
  Record("TASK_EXIT", 0, 0, 0, 0, id, exit_code, Zeros)

(* task is current_task, or NoTask.                                        *)
NoTask == [task_id |-> 0, domain |-> 0]

emit_fault_record(task, pc, dfar, dfsr, spsr, fault_type) ==
  Record("FAULT", 0, task.domain, fault_type, 0, pc, dfar,
         <<dfsr, spsr, task.task_id, 0>>)

(* A workflow id is two words.                                             *)
emit_workflow_record(task, id, owner, step, status, done, rv, event) ==
  Record("WORKFLOW", 0, task.domain, event, step, id % Word, id \div Word,
         <<owner, status, done, rv>>)

(* Three bytes of the parent's id, and two nibbles in the last byte.  A    *)
(* destination of Byte - 1 means that there is none.                       *)
auditor_deny(info) ==
  LET dst == IF info.dst_channel = Byte - 1 THEN Word - 1 ELSE info.dst_channel
      last == (info.parent_task_id % (Byte * Byte * Byte))
                + Byte * Byte * Byte * ((info.lineage_depth % Nibble) * Nibble
                                          + (info.sibling_count % Nibble))
  IN  Record("DENY", info.priority, info.src_domain, info.protocol, info.src_channel,
             info.operation,
             info.reason + Byte * info.dst_domain + Byte * Byte * info.dst_channel,
             <<info.granted_caps, info.required_caps, dst, last>>)

-----------------------------------------------------------------------------
(* The readers.                                                            *)

unpack_le32(hash, i) ==
  hash[i] + Byte * hash[i + 1] + Byte * Byte * hash[i + 2]
          + Byte * Byte * Byte * hash[i + 3]

(* A word read as a signed number.                                         *)
Signed(v) == IF v >= Word \div 2 THEN v - Word ELSE v

ReadChannel(r) ==
  [channel |-> r.channel_id, owner |-> r.checksum, cap_mask |-> r.operation,
   domain |-> unpack_le32(r.payload_hash, 0)]

ReadConnect(r) ==
  [src |-> r.channel_id, dst |-> r.operation, dst_domain |-> r.checksum,
   src_caps |-> unpack_le32(r.payload_hash, 0),
   dst_caps |-> unpack_le32(r.payload_hash, 4)]

ReadEdge(r) == <<r.operation, r.checksum>>

ReadTask(r) ==
  [task_id |-> r.operation, parent |-> r.checksum,
   cap_mask |-> unpack_le32(r.payload_hash, 0), domain |-> unpack_le32(r.payload_hash, 4)]

ReadExit(r) == [task_id |-> r.operation, exit_code |-> Signed(r.checksum)]

ReadWorkflow(r) ==
  [id |-> r.checksum * Word + r.operation, step |-> r.channel_id, event |-> r.protocol,
   owner |-> unpack_le32(r.payload_hash, 0), status |-> unpack_le32(r.payload_hash, 4),
   done |-> unpack_le32(r.payload_hash, 8),
   rv |-> Signed(unpack_le32(r.payload_hash, 12))]

ReadDeny(r) ==
  LET parent == r.payload_hash[12] + Byte * r.payload_hash[13]
                  + Byte * Byte * r.payload_hash[14]
  IN  [reason |-> r.checksum % Byte,
       dst_domain |-> ByteOf(r.checksum, 1), dst_channel |-> ByteOf(r.checksum, 2),
       granted |-> unpack_le32(r.payload_hash, 0),
       required |-> unpack_le32(r.payload_hash, 4),
       dst_ch32 |-> unpack_le32(r.payload_hash, 8),
       parent |-> IF parent = Byte * Byte * Byte - 1 THEN TASK_PARENT_NONE ELSE parent,
       depth |-> r.payload_hash[15] \div Nibble, sibs |-> r.payload_hash[15] % Nibble]
=============================================================================
