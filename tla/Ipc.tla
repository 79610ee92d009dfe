-------------------------------- MODULE Ipc ---------------------------------
(***************************************************************************)
(* Channels (kernel/ipc/ipc.c) over the sockets of Nng, the capabilities   *)
(* that gate them (include/capabilities.h) and the domain transition       *)
(* matrix (kernel/security/domain_graph.c).                                *)
(*                                                                         *)
(* A channel is a slot of channels[] that owns one socket.  Channel ids,   *)
(* socket ids and pipes are all used again after a close, each from a      *)
(* table of its own.  The kernel also opens sockets directly, beside the   *)
(* channels.  A call is one step, under the identity of current_task: a    *)
(* capability set and a domain.  A call that is refused changes nothing    *)
(* but the auditor's output.  The auditor is enabled: kmain starts it      *)
(* right after init_ipc.                                                   *)
(***************************************************************************)
EXTENDS Nng

CONSTANTS
  MaxChannels,  \* MAX_IPC_CHANNELS
  CapSets,      \* the capability sets of tasks and channels
  Domains,      \* security domains, in and out of the matrix
  Matrix,       \* those below MAX_DOMAINS
  RingRoom,     \* IPC_RING_CAPACITY - 1
  DrainBatch    \* DRAIN_BATCH

ASSUME IpcAssumption ==
  /\ {MaxChannels, RingRoom, DrainBatch} \subseteq Nat \ {0}
  /\ \A caps \in CapSets : caps \subseteq {"SEND", "RECV", "CROSS", "PRIVILEGED"}
  /\ Matrix \subseteq Domains

VARIABLES
  channels,              \* per id, Free or the fields set at creation
  domain_edges, edges_sealed,
  ring_len,              \* entries of ipc_ring
  overflow,              \* ipc_ring.overflow is not 0
  at_seal,               \* the edges there were when the matrix was sealed
  refused                \* ipc_recv has refused a message that was intact

graph == <<domain_edges, edges_sealed, at_seal>>
ring == <<ring_len, overflow>>
ipc_vars == <<vars, channels, graph, ring, refused>>

-----------------------------------------------------------------------------

Channels == 0 .. MaxChannels - 1
\* opening tells apart the sockets that have had this id.
Free == [socket |-> None, opening |-> 0, domain |-> None, cap_mask |-> {}]
Edges == Matrix \X Matrix

(* domain_edges_init, init_ipc and ring_init.                              *)
IpcInit ==
  /\ Init
  /\ channels = [c \in Channels |-> Free]
  /\ domain_edges = {<<d, d>> : d \in Matrix} /\ at_seal = {}
  /\ edges_sealed = FALSE /\ overflow = FALSE /\ refused = FALSE
  /\ ring_len = 0

in_use(c) == channels[c] # Free
Owned == {channels[c].socket : c \in {c \in Channels : in_use(c)}}

-----------------------------------------------------------------------------
(* The domain transition matrix.                                           *)

domain_edge_allowed(a, b) == a \in Matrix /\ b \in Matrix /\ <<a, b>> \in domain_edges

(* Mutant: the seal is not looked at.                                      *)
Mut_domain_edge_set(a, b) ==
  /\ domain_edges' = domain_edges \cup {<<a, b>>}
  /\ UNCHANGED <<vars, channels, edges_sealed, at_seal, ring, refused>>

domain_edge_set(a, b) ==
  /\ ~edges_sealed
  /\ domain_edges' = domain_edges \cup {<<a, b>>}
  /\ UNCHANGED <<vars, channels, edges_sealed, at_seal, ring, refused>>

domain_edges_seal ==
  /\ ~edges_sealed
  /\ edges_sealed' = TRUE /\ at_seal' = domain_edges
  /\ UNCHANGED <<vars, channels, domain_edges, ring, refused>>

(* Somebody who acts in domain a with these capabilities may reach b.      *)
MayReach(caps, a, b) == a = b \/ domain_edge_allowed(a, b) \/ "CROSS" \in caps

-----------------------------------------------------------------------------
(* Channels.                                                               *)

FirstFree(c) == ~in_use(c) /\ \A b \in Channels : b < c => in_use(b)

(* task is current_task.  Without a free channel, or a free socket, the    *)
(* call fails and has changed nothing.                                     *)
ipc_create_channel(task, dom, caps, p) ==
  /\ caps \subseteq task.cap_mask
  /\ MayReach(task.cap_mask, task.domain, dom)
  /\ nng_socket_create(p)
  /\ \E c \in Channels, s \in Sockets :
       /\ FirstFree(c)
       /\ protocol[s] = "none" /\ protocol'[s] = p
       /\ channels' = [channels EXCEPT ![c] = [socket |-> s, opening |-> born'[s],
                                               domain |-> dom, cap_mask |-> caps]]
  /\ UNCHANGED <<graph, ring, refused>>

(* Mutant: the channel is not marked free.                                 *)
Mut_ipc_close_channel(c) ==
  /\ in_use(c)
  /\ nng_socket_close(channels[c].socket)
  /\ UNCHANGED <<channels, graph, ring, refused>>

(* If the socket could not be closed the channel would stay in use.        *)
ipc_close_channel(c) ==
  /\ in_use(c)
  /\ nng_socket_close(channels[c].socket)
  /\ channels' = [channels EXCEPT ![c] = Free]
  /\ UNCHANGED <<graph, ring, refused>>

(* The domains of the channels decide, not that of the caller.             *)
MayConnect(c, d) ==
  MayReach(channels[c].cap_mask, channels[c].domain, channels[d].domain)

ipc_connect(c, d) ==
  /\ in_use(c) /\ in_use(d)
  /\ MayConnect(c, d)
  /\ nng_connect(channels[c].socket, channels[d].socket)
  /\ UNCHANGED <<channels, graph, ring, refused>>

required_caps_for_op(privileged) ==
  IF privileged THEN {"SEND", "PRIVILEGED"} ELSE {"SEND"}

(* A full ring drops the newest; see Telemetry.                            *)
ring_push ==
  IF ring_len = RingRoom THEN overflow' = TRUE /\ UNCHANGED ring_len
  ELSE ring_len' = ring_len + 1 /\ UNCHANGED overflow

(* nng_send refuses a socket whose protocol only receives, and frees the   *)
(* message.                                                                *)
CannotSend(s) ==
  /\ protocol[s] \in {"SUB", "PULL"} /\ allocated < MaxMessages
  /\ UNCHANGED vars

(* What ipc_send does after its check of the capabilities, but for the     *)
(* ring: the event is there before nng_send is tried, whatever comes of it. *)
Sends(c, privileged) ==
  /\ in_use(c)
  /\ required_caps_for_op(privileged) \subseteq channels[c].cap_mask
  /\ nng_send(channels[c].socket) \/ CannotSend(channels[c].socket)
  /\ UNCHANGED <<channels, graph, refused>>

ipc_send(c, privileged) == Sends(c, privileged) /\ ring_push

(* One tick takes up to a batch of n entries off the ring.                 *)
Drained(n) == IF n > DrainBatch THEN n - DrainBatch ELSE 0

(* The system call sends on the channel kmain made for it and then ticks;  *)
(* if ipc_send refuses, the tick is all that happens.                      *)
SYS_IPC_SEND(c, privileged) ==
  /\ Sends(c, privileged)
  /\ ring_len' = Drained(IF ring_len = RingRoom THEN RingRoom ELSE ring_len + 1)
  /\ overflow' = FALSE

(* The checksum is compared with the one in the caller's message_t, which  *)
(* the conversion from the message received leaves as it was: matches says *)
(* whether it happens to be right.  The message is gone in either case.    *)
ipc_recv(c, matches) ==
  LET s == channels[c].socket IN
  /\ in_use(c)
  /\ "RECV" \in channels[c].cap_mask
  /\ nng_recv(s)
  /\ refused' = (refused \/ (recv_queues[s] # <<>> /\ ~matches))
  /\ UNCHANGED <<channels, graph, ring>>

-----------------------------------------------------------------------------

(* Kernel code that has sockets of its own.                                *)
Direct(s) ==
  /\ s \notin Owned
  /\ \/ nng_socket_close(s) \/ nng_send(s) \/ nng_recv(s)
     \/ \E d \in Sockets \ Owned : nng_connect(s, d)
  /\ UNCHANGED <<channels, graph, ring, refused>>

DirectCreate(p) == nng_socket_create(p) /\ UNCHANGED <<channels, graph, ring, refused>>

auditor_tick ==
  /\ overflow' = FALSE
  /\ ring_len' = Drained(ring_len)
  /\ UNCHANGED <<vars, channels, graph, refused>>

IpcNext ==
  \/ \E a, b \in Matrix : domain_edge_set(a, b)
  \/ domain_edges_seal
  \/ \E task \in [cap_mask : CapSets, domain : Domains], dom \in Domains,
        caps \in CapSets, p \in Protocols : ipc_create_channel(task, dom, caps, p)
  \/ \E c \in Channels :
       \/ ipc_close_channel(c)
       \/ \E d \in Channels : ipc_connect(c, d)
       \/ \E privileged \in BOOLEAN : ipc_send(c, privileged)
       \/ \E privileged \in BOOLEAN : SYS_IPC_SEND(c, privileged)
       \/ \E matches \in BOOLEAN : ipc_recv(c, matches)
  \/ \E s \in Sockets : Direct(s)
  \/ \E p \in Protocols : DirectCreate(p)
  \/ auditor_tick

IpcSpec == IpcInit /\ [][IpcNext]_ipc_vars

-----------------------------------------------------------------------------
(* Properties.                                                             *)

(* A channel in use owns an open socket, the very one opened for it and    *)
(* nobody else's, although ids of both kinds are used again and other code *)
(* opens sockets too.  So ipc_close_channel never fails half way.          *)
ChannelsOwnSockets ==
  \A c \in Channels : in_use(c) =>
    LET s == channels[c].socket
    IN  /\ protocol[s] # "none" /\ born[s] = channels[c].opening
        /\ \A d \in Channels \ {c} : channels[d].socket # s

(* Whatever was closed and opened again in between, a pipe from a channel  *)
(* leads to a channel it may reach: in its own domain, over an edge of the *)
(* matrix (as it was sealed, once it is), or by its own CAP_CROSS_DOMAIN;  *)
(* and no pipe joins a channel with a socket opened beside the channels.   *)
LinksAuthorized ==
  \A i \in Pipes :
    /\ pipes[i].src \in Owned <=> pipes[i].dst \in Owned
    /\ \A c, d \in Channels :
         /\ in_use(c) /\ in_use(d)
         /\ pipes[i] = [src |-> channels[c].socket, dst |-> channels[d].socket]
         => \/ channels[c].domain = channels[d].domain
            \/ "CROSS" \in channels[c].cap_mask
            \/ <<channels[c].domain, channels[d].domain>>
                 \in IF edges_sealed THEN at_seal ELSE domain_edges

(* The checksum of a message is its "integrity check": ipc_recv accepts a  *)
(* message that arrives as it was sent.                                    *)
IntactIsAccepted == ~refused
=============================================================================
