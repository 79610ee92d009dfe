-------------------------------- MODULE Audit -------------------------------
(***************************************************************************)
(* The channels of kernel/ipc/ipc.c and what the auditor's stream says of  *)
(* them.                                                                   *)
(*                                                                         *)
(* Structural records (CHAN_CREATE, CHAN_CONNECT, DOMAIN_EDGE, DENY) are   *)
(* written to the port within the call they describe.  A MSG record waits  *)
(* in the ring for an auditor_tick, while channels are closed and their    *)
(* ids used again.  There is no record of a close.  The reader of          *)
(* scripts/reconstruct_graph.py replays the structural records; the port   *)
(* loses nothing, so its state is kept up to date here with every record   *)
(* that is written.  The script keeps a link as a pair of ids and never    *)
(* takes one away.  live_edges is what the same records say to a reader    *)
(* that forgets an id's pairs when a CHAN_CREATE gives the id out again.   *)
(*                                                                         *)
(* Sockets, pipes and queues are those of Ipc, where each channel is shown *)
(* to own one socket.  Here a channel has a serial number, a link is a     *)
(* pair of them, and nng_socket_create, nng_connect and nng_send may fail. *)
(***************************************************************************)
EXTENDS Records, FiniteSets

CONSTANTS
  MaxChannels,  \* MAX_IPC_CHANNELS
  CapSets,      \* the capability sets of tasks and channels
  Domains,      \* security domains, in and out of the matrix
  Matrix,       \* those below MAX_DOMAINS
  MaxPipes,     \* MAX_PIPES
  RingRoom,     \* IPC_RING_CAPACITY - 1
  DrainBatch,   \* DRAIN_BATCH
  Protocols,    \* numbers of protocols
  Callers,      \* the tasks that may be current_task, with their lineage
  MaxCreated    \* bound on the channels created

ASSUME AuditAssumption ==
  /\ {MaxChannels, MaxPipes, RingRoom, DrainBatch} \subseteq Nat \ {0} /\ MaxCreated \in Nat
  /\ Domains \subseteq 0 .. Word - 1 /\ Matrix \subseteq Domains
  /\ Protocols \subseteq Nat
  /\ MaxChannels < Byte

(* Ids are given out in order, so a parent's fits the three bytes a DENY   *)
(* record has for it (Tasks).                                              *)
ASSUME CallersAssumption ==
  \A task \in Callers :
    /\ task.task_id \in 0 .. Word - 1
    /\ task.parent_task_id \in 0 .. Byte * Byte * Byte - 2 \/ task.parent_task_id = TASK_PARENT_NONE
    /\ task.lineage_depth \in 0 .. Nibble - 1 /\ task.sibling_count \in 0 .. Nibble - 1

VARIABLES
  channels,        \* per id, Free or the fields set at creation
  created,         \* channels created so far
  links,           \* pipes between channels in use
  domain_edges, edges_sealed,
  ring,            \* ipc_ring: _padding1 and operation, and who sent it
  seen,            \* GraphState.channels of the reader, and who it is about
  chan_edges,      \* GraphState.chan_edges
  edges_seen,      \* GraphState.domain_edges
  live_edges       \* the pairs recorded since both ids were last given out

reader == <<seen, chan_edges, edges_seen, live_edges>>
matrix == <<domain_edges, edges_sealed>>
vars == <<channels, created, links, matrix, ring, reader>>

-----------------------------------------------------------------------------

Channels == 0 .. MaxChannels - 1
Nobody == 0
Free == [serial |-> Nobody]
Unseen == [channel |-> Byte - 1]

in_use(c) == channels[c] # Free
Who(c) == channels[c].serial

(* After domain_edges_init, init_ipc and auditor_init.                     *)
Init ==
  /\ channels = [c \in Channels |-> Free] /\ created = 0 /\ links = {}
  /\ domain_edges = {<<d, d>> : d \in Matrix} /\ edges_sealed = FALSE
  /\ ring = <<>>
  /\ seen = [c \in Channels |-> [who |-> Nobody, is |-> Unseen]]
  /\ chan_edges = {} /\ edges_seen = {} /\ live_edges = {}

(* The bits of a mask.                                                     *)
Caps == <<"SEND", "RECV", "CROSS", "PRIVILEGED">>
Masks == SUBSET {"SEND", "RECV", "CROSS", "PRIVILEGED"}

(* Capability sets have no other bits, and a byte holds the reasons.       *)
ASSUME MasksAssumption ==
  /\ CapSets \subseteq Masks /\ \A task \in Callers : task.cap_mask \in Masks
  /\ 6 < Byte
Bits == <<1, 2, 4, 8>>
Bit(caps, i) == IF Caps[i] \in caps THEN Bits[i] ELSE 0
CapWord(caps) == Bit(caps, 1) + Bit(caps, 2) + Bit(caps, 3) + Bit(caps, 4)
CapsIn(word) == {Caps[i] : i \in {i \in 1 .. 4 : (word \div Bits[i]) % 2 = 1}}

-----------------------------------------------------------------------------
(* The matrix.                                                             *)

domain_edge_allowed(a, b) == a \in Matrix /\ b \in Matrix /\ <<a, b>> \in domain_edges
MayReach(caps, a, b) == a = b \/ domain_edge_allowed(a, b) \/ "CROSS" \in caps

domain_edge_set(a, b) ==
  /\ ~edges_sealed
  /\ domain_edges' = domain_edges \cup {<<a, b>>}
  /\ edges_seen' = edges_seen \cup {ReadEdge(emit_domain_edge_record(a, b, 1))}
  /\ UNCHANGED <<channels, created, links, edges_sealed, ring, seen, chan_edges,
                 live_edges>>

domain_edges_seal ==
  /\ ~edges_sealed /\ edges_sealed' = TRUE
  /\ UNCHANGED <<channels, created, links, domain_edges, ring, reader>>

-----------------------------------------------------------------------------
(* Channels.                                                               *)

FirstFree(c) == ~in_use(c) /\ \A b \in Channels : b < c => in_use(b)

Created(c, task, dom, caps, p) ==
  emit_chan_create_record(c, task.task_id, CapWord(caps), dom, 0, p)

(* task is current_task.  The call that is refused, or finds no free       *)
(* channel or socket, changes nothing.                                     *)
ipc_create_channel(task, dom, caps, p) ==
  /\ caps \subseteq task.cap_mask
  /\ MayReach(task.cap_mask, task.domain, dom)
  /\ created < MaxCreated /\ created' = created + 1
  /\ \E c \in Channels :
       LET is == ReadChannel(Created(c, task, dom, caps, p)) IN
       /\ FirstFree(c)
       /\ channels' = [channels EXCEPT ![c] =
            [serial |-> created + 1, domain |-> dom, cap_mask |-> caps, protocol |-> p,
             owner_task_id |-> task.task_id]]
       /\ seen' = [seen EXCEPT ![is.channel] = [who |-> created + 1, is |-> is]]
       /\ live_edges' = {e \in live_edges : is.channel \notin {e[1], e[2]}}
  /\ UNCHANGED <<links, matrix, ring, chan_edges, edges_seen>>

(* The pipes of the socket go with it; the reader is not told.             *)
ipc_close_channel(c) ==
  /\ in_use(c)
  /\ channels' = [channels EXCEPT ![c] = Free]
  /\ links' = {l \in links : Who(c) \notin {l[1], l[2]}}
  /\ UNCHANGED <<created, matrix, ring, reader>>

MayConnect(c, d) == MayReach(channels[c].cap_mask, channels[c].domain, channels[d].domain)

(* Mutant: source and destination exchanged in the record.                 *)
MutConnected(c, d) ==
  emit_chan_connect_record(d, channels[d].domain, CapWord(channels[d].cap_mask),
    channels[d].protocol, c, channels[c].domain, CapWord(channels[c].cap_mask))

Connected(c, d) ==
  emit_chan_connect_record(c, channels[c].domain, CapWord(channels[c].cap_mask),
    channels[c].protocol, d, channels[d].domain, CapWord(channels[d].cap_mask))

(* A channel may be connected to itself.                                   *)
ipc_connect(c, d) ==
  LET link == ReadConnect(Connected(c, d)) IN
  /\ in_use(c) /\ in_use(d)
  /\ MayConnect(c, d)
  /\ Cardinality(links) < MaxPipes
  /\ links' = links \cup {<<Who(c), Who(d)>>}
  /\ chan_edges' = chan_edges \cup {<<link.src, link.dst>>}
  /\ live_edges' = live_edges \cup {<<link.src, link.dst>>}
  /\ UNCHANGED <<channels, created, matrix, ring, seen, edges_seen>>

(* 1 is OP_UPDATE, 0 an operation that needs no privilege.                 *)
required_caps_for_op(op) == IF op = 1 THEN {"SEND", "PRIVILEGED"} ELSE {"SEND"}

(* Mutant: the message is pushed before the capabilities are looked at.    *)
MutMaySend(c, op) == in_use(c)

MaySend(c, op) == in_use(c) /\ required_caps_for_op(op) \subseteq channels[c].cap_mask

Stamped(c, op) ==
  [who |-> Who(c), operation |-> op,
   padding |-> Stamp(c, channels[c].domain, channels[c].protocol)]

Pushed(c, op) == IF Len(ring) = RingRoom THEN ring ELSE Append(ring, Stamped(c, op))
Drained(queue) == SubSeq(queue, DrainBatch + 1, Len(queue))

(* The ring has the message before nng_send is tried; a full ring drops it *)
(* and counts it (Telemetry).  What nng_send then does is no concern of    *)
(* the auditor.                                                            *)
ipc_send(c, op) ==
  /\ MaySend(c, op)
  /\ ring' = Pushed(c, op)
  /\ UNCHANGED <<channels, created, links, matrix, reader>>

(* ipc_send and then a tick, in one system call.                           *)
SYS_IPC_SEND(c, op) ==
  /\ MaySend(c, op)
  /\ ring' = Drained(Pushed(c, op))
  /\ UNCHANGED <<channels, created, links, matrix, reader>>

auditor_tick ==
  /\ ring' = Drained(ring)
  /\ UNCHANGED <<channels, created, links, matrix, reader>>

Next ==
  \/ \E a, b \in Matrix : domain_edge_set(a, b)
  \/ domain_edges_seal
  \/ \E task \in Callers, dom \in Domains, caps \in CapSets, p \in Protocols :
       ipc_create_channel(task, dom, caps, p)
  \/ \E c \in Channels :
       \/ ipc_close_channel(c)
       \/ \E d \in Channels : ipc_connect(c, d)
       \/ \E op \in {0, 1} : ipc_send(c, op) \/ SYS_IPC_SEND(c, op)
  \/ auditor_tick

Spec == Init /\ [][Next]_vars

-----------------------------------------------------------------------------
(* Refusals.  A refused call writes one DENY record and changes nothing.   *)

NoChannel == MaxChannels

Lineage(task) == [parent |-> task.parent_task_id, depth |-> task.lineage_depth,
                  sibs |-> task.sibling_count]

(* reason is the number of the DENY_ macro.                                *)
emit_create_deny(task, caps, dom, reason, p) ==
  auditor_deny([src_domain |-> task.domain, dst_domain |-> Low(dom),
    src_channel |-> Byte - 1, dst_channel |-> Byte - 1,
    protocol |-> p, reason |-> reason, priority |-> 0, operation |-> 0,
    granted_caps |-> CapWord(task.cap_mask), required_caps |-> CapWord(caps),
    parent_task_id |-> task.parent_task_id, lineage_depth |-> task.lineage_depth,
    sibling_count |-> task.sibling_count])

(* Mutant: the capabilities granted are read from the calling task.        *)
Mut_emit_deny(task, c, d, op, reason) ==
  auditor_deny([src_domain |-> Low(channels[c].domain),
    dst_domain |-> IF d \in Channels THEN Low(channels[d].domain) ELSE Byte - 1,
    src_channel |-> c, dst_channel |-> IF d \in Channels THEN d ELSE Byte - 1,
    protocol |-> channels[c].protocol, reason |-> reason,
    priority |-> 0, operation |-> op, granted_caps |-> CapWord(task.cap_mask),
    required_caps |-> CapWord(required_caps_for_op(op)),
    parent_task_id |-> task.parent_task_id, lineage_depth |-> task.lineage_depth,
    sibling_count |-> task.sibling_count])

(* d is NoChannel where there is no second one.                            *)
emit_deny(task, c, d, op, reason) ==
  auditor_deny([src_domain |-> Low(channels[c].domain),
    dst_domain |-> IF d \in Channels THEN Low(channels[d].domain) ELSE Byte - 1,
    src_channel |-> c, dst_channel |-> IF d \in Channels THEN d ELSE Byte - 1,
    protocol |-> channels[c].protocol, reason |-> reason,
    priority |-> 0, operation |-> op, granted_caps |-> CapWord(channels[c].cap_mask),
    required_caps |-> CapWord(required_caps_for_op(op)),
    parent_task_id |-> task.parent_task_id, lineage_depth |-> task.lineage_depth,
    sibling_count |-> task.sibling_count])

(* The DENY record of a call made by task in this state; the set is empty  *)
(* when the call is not refused for want of authority.                     *)
CreateDenials(task, dom, caps, p) ==
  IF ~(caps \subseteq task.cap_mask) THEN {emit_create_deny(task, caps, dom, 5, p)}
  ELSE IF ~MayReach(task.cap_mask, task.domain, dom) THEN {emit_create_deny(task, caps, dom, 6, p)}
  ELSE {}

ConnectDenials(task, c, d) ==
  IF MayConnect(c, d) THEN {} ELSE {emit_deny(task, c, d, 0, 4)}

SendDenials(task, c, op) ==
  IF required_caps_for_op(op) \subseteq channels[c].cap_mask THEN {}
  ELSE {emit_deny(task, c, NoChannel, op, IF op = 1 THEN 3 ELSE 1)}

RecvDenials(task, c) ==
  IF "RECV" \in channels[c].cap_mask THEN {} ELSE {emit_deny(task, c, NoChannel, 0, 2)}

-----------------------------------------------------------------------------
(* Properties.                                                             *)

(* The records say what the graph is, although none tells of a close: for  *)
(* every channel in use the reader has the owner, capabilities and full    *)
(* domain; two channels in use are linked exactly when a CHAN_CONNECT came *)
(* after the last CHAN_CREATE of both ids; and the matrix is the identity  *)
(* and the edges it was told of.  The script draws each of these links.    *)
(* It also draws the links of earlier channels with the same ids.          *)
GraphIsCurrent ==
  /\ \A c \in Channels : in_use(c) =>
       seen[c] = [who |-> Who(c),
                  is |-> [channel |-> c, owner |-> channels[c].owner_task_id,
                          cap_mask |-> CapWord(channels[c].cap_mask),
                          domain |-> channels[c].domain]]
  /\ \A c, d \in {c \in Channels : in_use(c)} :
       <<Who(c), Who(d)>> \in links <=> <<c, d>> \in live_edges
  /\ live_edges \subseteq chan_edges
  /\ domain_edges = {<<a, a>> : a \in Matrix} \cup edges_seen

(* A MSG record names a channel the reader has been told of, however long  *)
(* it waited in the ring.  Unless a CHAN_CREATE for the same id overtook   *)
(* it, which takes a close, that channel is the sender, its domain is the  *)
(* one known (cut to a byte), and its capabilities cover the operation.    *)
MsgNamesSender ==
  \A i \in DOMAIN ring :
    LET r == emit_msg_record(ring[i].padding, 0, ring[i].operation, 0, Zeros)
        known == seen[r.channel_id]
    IN  /\ known.is # Unseen
        /\ \/ /\ known.who = ring[i].who
              /\ r.src_domain = Low(known.is.domain)
              /\ required_caps_for_op(r.operation) \subseteq CapsIn(known.is.cap_mask)
           \/ \A c \in Channels : Who(c) # ring[i].who

(* What the reader of a DENY record takes to be missing.  It has to go by  *)
(* the reason: emit_deny fills in required_caps from the operation, which  *)
(* ipc_recv and ipc_connect give as 0.                                     *)
Missing(d) ==
  LET wanted == CASE d.reason = 2 -> {"RECV"}
                  [] d.reason \in {4, 6} -> {"CROSS"}
                  [] OTHER -> CapsIn(d.required)
  IN  wanted \ CapsIn(d.granted)

(* The record has the caller's lineage and the mask the call was judged    *)
(* by; the missing capabilities would have let it pass, and no fewer.      *)
Explains(r, task, mask, required, Passes(_)) ==
  LET d == ReadDeny(r) IN
  /\ Lineage(task) = [parent |-> d.parent, depth |-> d.depth, sibs |-> d.sibs]
  /\ CapsIn(d.granted) = mask /\ CapsIn(d.required) = required
  /\ Passes(mask \cup Missing(d))
  /\ \A fewer \in (SUBSET Missing(d)) \ {Missing(d)} : ~Passes(mask \cup fewer)

CreateExplained(task, dom, caps, p) ==
  \A r \in CreateDenials(task, dom, caps, p) :
    LET d == ReadDeny(r)
        Holds(mask) == caps \subseteq mask
        Reaches(mask) == MayReach(mask, task.domain, dom)
    IN  /\ d.reason \in {5, 6} /\ d.dst_ch32 = Word - 1
        /\ d.reason = 5 => Explains(r, task, task.cap_mask, caps, Holds)
        /\ d.reason = 6 => Holds(task.cap_mask) /\ Explains(r, task, task.cap_mask, caps, Reaches)

ConnectExplained(task, c, e) ==
  \A r \in ConnectDenials(task, c, e) :
    LET d == ReadDeny(r)
        Reaches(mask) == MayReach(mask, channels[c].domain, channels[e].domain)
    IN  /\ d.reason = 4 /\ r.channel_id = c /\ d.dst_channel = e /\ d.dst_ch32 = e
        /\ Explains(r, task, channels[c].cap_mask, {"SEND"}, Reaches)

SendExplained(task, c, op) ==
  \A r \in SendDenials(task, c, op) :
    LET d == ReadDeny(r)
        Covers(mask) == required_caps_for_op(op) \subseteq mask
    IN  /\ d.reason \in {1, 3} /\ r.channel_id = c /\ d.dst_ch32 = Word - 1
        /\ d.reason = 1 => Missing(d) = {"SEND"}
        /\ Explains(r, task, channels[c].cap_mask, required_caps_for_op(op), Covers)

RecvExplained(task, c) ==
  \A r \in RecvDenials(task, c) :
    LET d == ReadDeny(r)
        Receives(mask) == "RECV" \in mask
    IN  /\ d.reason = 2 /\ r.channel_id = c /\ d.dst_ch32 = Word - 1
        /\ Explains(r, task, channels[c].cap_mask, {"SEND"}, Receives)

(* A DENY record explains the refusal to its reader.  The reason tells     *)
(* which call was refused and by which check; the capabilities it shows to *)
(* be missing are the fewest with which the check would have passed; the   *)
(* channels are named, and the caller's lineage survives the narrow        *)
(* fields, the root's missing parent included.  Reason 3 by itself does    *)
(* not say that CAP_PRIVILEGED_OP was missing: a channel that has it and   *)
(* lacks CAP_IPC_SEND is refused a privileged operation with it too.       *)
RefusalsExplained ==
  \A task \in Callers :
    /\ \A dom \in Domains, caps \in CapSets, p \in Protocols : CreateExplained(task, dom, caps, p)
    /\ \A c \in {c \in Channels : in_use(c)} :
         /\ \A e \in {e \in Channels : in_use(e)} : ConnectExplained(task, c, e)
         /\ \A op \in {0, 1} : SendExplained(task, c, op)
         /\ RecvExplained(task, c)

(* RefusalsExplained, looked at where nothing is sent and nothing linked:  *)
(* refusals depend on channels and matrix only, and every state of these   *)
(* can be reached there.                                                   *)
DenyExplains == ring = <<>> /\ chan_edges = {} => RefusalsExplained
=============================================================================
