-------------------------------- MODULE Nng ---------------------------------
(***************************************************************************)
(* The in-kernel message layer (kernel/nngcompat.c): a pool of messages, a *)
(* pool of sockets that each speak one of ten protocols, the pipes that    *)
(* connect them, and one bounded incoming queue per socket.  A socket id   *)
(* is an index into the pool and is used again after a close.              *)
(*                                                                         *)
(* The kernel does not preempt, so a send is one step: the caller builds a *)
(* message, nng_send routes copies of it by the protocol of the socket and *)
(* frees it.  A receive takes a message off the queue and the caller frees *)
(* it.  The last two variables record what the code does not: how often a  *)
(* socket id was opened, and whose turn has passed.  A queued message is   *)
(* the opening of the socket it was sent to.                               *)
(***************************************************************************)
EXTENDS Integers, Sequences, Functions, FiniteSets

CONSTANTS
  MaxSockets,   \* MAX_SOCKETS
  MaxPipes,     \* MAX_PIPES
  MaxQueued,    \* MAX_QUEUED_MSGS
  MaxMessages,  \* messages alloc_memory and msg_slots can hold at a time
  MaxSubs,      \* MAX_SUBS
  Timeout,      \* SURVEYOR_TIMEOUT_TICKS
  Protocols,    \* the protocols of the sockets that are opened
  Topics,       \* topic prefixes other than the empty one
  MaxJiffies,   \* bound on the clock
  MaxOpens      \* bound on how often a socket id is opened

Known == {"PAIR", "PUB", "SUB", "REQ", "REP", "PUSH", "PULL", "BUS",
          "SURVEYOR", "RESPONDENT"}

ASSUME NngAssumption ==
  /\ {MaxSockets, MaxPipes, MaxQueued, MaxMessages, MaxSubs} \subseteq Nat \ {0}
  /\ {Timeout, MaxJiffies, MaxOpens} \subseteq Nat
  /\ Protocols \subseteq Known

VARIABLES
  protocol,                          \* socket_pool, "none" for id = -1
  pipes, recv_queues,
  allocated,                         \* msg_slots in use
  rr_idx, reply_src, respondent_src, survey_active, survey_deadline, topics,
  jiffies,
  born,                              \* how often the id has been opened
  served                             \* pipes that had their turn in this round

sockets == <<protocol, pipes, topics, born>>
surveying == <<respondent_src, survey_active, survey_deadline>>
requesting == <<rr_idx, reply_src, served>>
vars == <<sockets, recv_queues, allocated, surveying, requesting, jiffies>>

-----------------------------------------------------------------------------

None == -1
Sockets == 0 .. MaxSockets - 1
Pipes == 1 .. MaxPipes
NoPipe == [src |-> None, dst |-> None]
Wildcard == "any"

(* nng_init.                                                               *)
Init ==
  /\ protocol = [s \in Sockets |-> "none"]
  /\ pipes = [i \in Pipes |-> NoPipe]
  /\ recv_queues = [s \in Sockets |-> <<>>]
  /\ topics = [s \in Sockets |-> <<>>]
  /\ allocated = 0 /\ jiffies = 0
  /\ rr_idx = [s \in Sockets |-> 0]
  /\ reply_src = [s \in Sockets |-> None]
  /\ respondent_src = [s \in Sockets |-> None]
  /\ survey_active = [s \in Sockets |-> FALSE]
  /\ survey_deadline = [s \in Sockets |-> 0]
  /\ born = [s \in Sockets |-> 0]
  /\ served = {}

socket_valid(s) == s \in Sockets /\ protocol[s] # "none"

-----------------------------------------------------------------------------
(* Sockets and pipes.                                                      *)

(* The first closed id is opened; with none, the call fails.               *)
nng_socket_create(p) ==
  \E s \in Sockets :
    /\ protocol[s] = "none"
    /\ \A r \in Sockets : r < s => protocol[r] # "none"
    /\ born[s] < MaxOpens
    /\ protocol' = [protocol EXCEPT ![s] = p]
    /\ born' = [born EXCEPT ![s] = @ + 1]
    /\ rr_idx' = [rr_idx EXCEPT ![s] = 0]
    /\ reply_src' = [reply_src EXCEPT ![s] = None]
    /\ respondent_src' = [respondent_src EXCEPT ![s] = None]
    /\ survey_active' = [survey_active EXCEPT ![s] = FALSE]
    /\ topics' = [topics EXCEPT ![s] = <<>>]
    /\ UNCHANGED <<pipes, recv_queues, allocated, survey_deadline, jiffies, served>>

(* Mutant: the pipes into the socket are left in place.                    *)
MutTouches(i, s) == pipes[i].src = s

Touches(i, s) == s \in {pipes[i].src, pipes[i].dst}

(* The queue is emptied and its messages are freed.                        *)
Flush(s) ==
  /\ recv_queues' = [recv_queues EXCEPT ![s] = <<>>]
  /\ allocated' = allocated - Len(recv_queues[s])

nng_socket_close(s) ==
  /\ socket_valid(s)
  /\ Flush(s)
  /\ pipes' = [i \in Pipes |-> IF Touches(i, s) THEN NoPipe ELSE pipes[i]]
  /\ protocol' = [protocol EXCEPT ![s] = "none"]
  /\ served' = {}
  /\ UNCHANGED <<topics, born, surveying, rr_idx, reply_src, jiffies>>

(* The first unused pipe is taken; with none, the call fails.              *)
nng_connect(s, d) ==
  /\ socket_valid(s) /\ socket_valid(d)
  /\ \E i \in Pipes :
       /\ pipes[i] = NoPipe
       /\ \A j \in Pipes : j < i => pipes[j] # NoPipe
       /\ pipes' = [pipes EXCEPT ![i] = [src |-> s, dst |-> d]]
  /\ served' = {}
  /\ UNCHANGED <<protocol, topics, born, recv_queues, allocated, surveying, rr_idx,
                 reply_src, jiffies>>

nng_sub_subscribe(s, t) ==
  /\ protocol[s] = "SUB"
  /\ Len(topics[s]) < MaxSubs
  /\ topics' = [topics EXCEPT ![s] = Append(@, t)]
  /\ UNCHANGED <<protocol, pipes, born, recv_queues, allocated, surveying,
                 requesting, jiffies>>

(* Entry i is overwritten by the last one.                                 *)
Compact(list, i) ==
  SubSeq([list EXCEPT ![i] = list[Len(list)]], 1, Len(list) - 1)

nng_sub_unsubscribe(s, t) ==
  /\ protocol[s] = "SUB"
  /\ \E i \in DOMAIN topics[s] :
       /\ topics[s][i] = t
       /\ \A j \in 1 .. i - 1 : topics[s][j] # t
       /\ topics' = [topics EXCEPT ![s] = Compact(@, i)]
  /\ UNCHANGED <<protocol, pipes, born, recv_queues, allocated, surveying,
                 requesting, jiffies>>

-----------------------------------------------------------------------------
(* Routing.                                                                *)

(* The socket at the other end of pipe i, for a sender s.                  *)
PeerOf(i, s, filter) ==
  IF pipes[i].src = s THEN pipes[i].dst
  ELSE IF filter = "BUS" /\ pipes[i].dst = s THEN pipes[i].src
  ELSE None

(* The pipes from s to sockets of the wanted protocol.                     *)
Leading(s, filter) ==
  {i \in Pipes : LET p == PeerOf(i, s, filter)
                 IN  socket_valid(p) /\ protocol[p] = filter}

(* The loop that finds them: in table order, and no more than there are    *)
(* sockets.                                                                *)
InTableOrder(wanted) ==
  LET found[i \in 0 .. MaxPipes] ==
        IF i = 0 THEN <<>>
        ELSE IF i \in wanted /\ Len(found[i - 1]) < MaxSockets
               THEN Append(found[i - 1], i) ELSE found[i - 1]
  IN  found[MaxPipes]

collect_peers(s, filter) == InTableOrder(Leading(s, filter))

sub_accepts(s, t) == \E i \in DOMAIN topics[s] : topics[s][i] \in {t, Wildcard}

(* The state of a delivery: the queues, the messages allocated, and the    *)
(* sockets that were given a copy.  The message being sent is allocated.   *)
Start == [queues |-> recv_queues, used |-> allocated + 1, got |-> {}]

(* Mutant: a copy that meets a full queue is not freed.                    *)
Mut_deliver_copy(d, p) ==
  IF d.used >= MaxMessages THEN d
  ELSE IF Len(d.queues[p]) >= MaxQueued THEN [d EXCEPT !.used = @ + 1]
  ELSE [queues |-> [d.queues EXCEPT ![p] = Append(@, born[p])],
        used |-> d.used + 1, got |-> d.got \cup {p}]

(* A copy is allocated and queued at p, or freed again if the queue is     *)
(* full.                                                                   *)
deliver_copy(d, p) ==
  IF d.used >= MaxMessages \/ Len(d.queues[p]) >= MaxQueued THEN d
  ELSE [queues |-> [d.queues EXCEPT ![p] = Append(@, born[p])],
        used |-> d.used + 1, got |-> d.got \cup {p}]

(* nng_send frees the message it was given, whatever its routing returns.  *)
(* The early NNG_EINVAL return does not: CanSend has only valid sockets.   *)
Deliver(d) ==
  /\ recv_queues' = d.queues
  /\ allocated' = d.used - 1

(* The loop over the peers: each that wants the message is given a copy.   *)
Broadcast(peers, wanting) ==
  LET sent[i \in 0 .. Len(peers)] ==
        IF i = 0 THEN Start
        ELSE IF peers[i] \in wanting THEN deliver_copy(sent[i - 1], peers[i])
             ELSE sent[i - 1]
  IN  sent[Len(peers)]

(* lugh_message_to_nng: without a free message there is nothing to send.   *)
CanSend(s, p) == protocol[s] = p /\ allocated < MaxMessages

NotSent == UNCHANGED <<recv_queues, allocated>>

SendPub(s, t) ==
  LET ends == collect_peers(s, "SUB")
      peers == [i \in DOMAIN ends |-> PeerOf(ends[i], s, "SUB")]
      wanting == {p \in Sockets : sub_accepts(p, t)}
  IN  /\ CanSend(s, "PUB")
      /\ Deliver(Broadcast(peers, wanting))
      /\ UNCHANGED <<surveying, requesting>>

SendBus(s) ==
  LET ends == collect_peers(s, "BUS")
  IN  /\ CanSend(s, "BUS")
      /\ Deliver(Broadcast([i \in DOMAIN ends |-> PeerOf(ends[i], s, "BUS")], Sockets))
      /\ UNCHANGED <<surveying, requesting>>

SendPair(s) ==
  LET ends == collect_peers(s, "PAIR")
  IN  /\ CanSend(s, "PAIR")
      /\ \/ ends = <<>> /\ NotSent
         \/ ends # <<>> /\ Deliver(deliver_copy(Start, pipes[ends[1]].dst))
      /\ UNCHANGED <<surveying, requesting>>

(* The cursor, as a position in the n peers of the moment.                 *)
Cursor(s, n) == IF rr_idx[s] >= n THEN 1 ELSE rr_idx[s] + 1

(* Mutant: the cursor stops short of the last peer.                        *)
MutAdvance(c, n) == IF c + 1 >= n THEN 0 ELSE c

Advance(c, n) == IF c >= n THEN 0 ELSE c

(* A pipe has had its turn; once all of ends have, a new round begins.     *)
Serve(ends, c) ==
  served' = IF Range(ends) \subseteq served \cup {ends[c]}
              THEN served \ Range(ends) ELSE served \cup {ends[c]}

(* PUSH moves its cursor on whether or not the peer could take the copy.   *)
SendPush(s) ==
  LET ends == collect_peers(s, "PULL")
      c == Cursor(s, Len(ends))
  IN  /\ CanSend(s, "PUSH")
      /\ \/ ends = <<>> /\ NotSent /\ UNCHANGED requesting
         \/ /\ ends # <<>>
            /\ Deliver(deliver_copy(Start, pipes[ends[c]].dst))
            /\ rr_idx' = [rr_idx EXCEPT ![s] = Advance(c, Len(ends))]
            /\ Serve(ends, c)
            /\ UNCHANGED reply_src
      /\ UNCHANGED surveying

SendReq(s) ==
  LET ends == collect_peers(s, "REP")
      c == Cursor(s, Len(ends))
      rep == pipes[ends[c]].dst
      d == deliver_copy(Start, rep)
  IN  /\ CanSend(s, "REQ")
      /\ \/ ends = <<>> /\ NotSent /\ UNCHANGED requesting
         \/ /\ ends # <<>>
            /\ Deliver(d)
            /\ IF rep \in d.got
                 THEN /\ reply_src' = [reply_src EXCEPT ![rep] = s]
                      /\ rr_idx' = [rr_idx EXCEPT ![s] = Advance(c, Len(ends))]
                      /\ Serve(ends, c)
                 ELSE UNCHANGED requesting
      /\ UNCHANGED surveying

SendRep(s) ==
  /\ CanSend(s, "REP")
  /\ \/ ~socket_valid(reply_src[s]) /\ NotSent /\ UNCHANGED reply_src
     \/ /\ socket_valid(reply_src[s])
        /\ Deliver(deliver_copy(Start, reply_src[s]))
        /\ reply_src' = [reply_src EXCEPT ![s] = None]
  /\ UNCHANGED <<surveying, rr_idx, served>>

SendSurvey(s) ==
  LET ends == collect_peers(s, "RESPONDENT")
      d == Broadcast([i \in DOMAIN ends |-> pipes[ends[i]].dst], Sockets)
  IN  /\ CanSend(s, "SURVEYOR")
      /\ \/ ends = <<>> /\ NotSent /\ UNCHANGED surveying
         \/ /\ ends # <<>>
            /\ Deliver(d)
            /\ respondent_src' = [r \in Sockets |-> IF r \in d.got THEN s
                                                    ELSE respondent_src[r]]
            /\ survey_active' = [survey_active EXCEPT ![s] = TRUE]
            /\ survey_deadline' = [survey_deadline EXCEPT ![s] = jiffies + Timeout]
      /\ UNCHANGED requesting

(* The survey of surveyor v is still open.                                 *)
Open(v) == survey_active[v] /\ jiffies <= survey_deadline[v]

SendResponse(s) ==
  LET v == respondent_src[s]
  IN  /\ CanSend(s, "RESPONDENT")
      /\ \/ ~socket_valid(v) /\ NotSent /\ UNCHANGED respondent_src
         \/ /\ socket_valid(v)
            /\ respondent_src' = [respondent_src EXCEPT ![s] = None]
            /\ \/ ~Open(v) /\ NotSent
               \/ Open(v) /\ Deliver(deliver_copy(Start, v))
      /\ UNCHANGED <<survey_active, survey_deadline, requesting>>

nng_send(s) ==
  /\ \/ \E t \in Topics : SendPub(s, t)
     \/ SendBus(s) \/ SendPair(s) \/ SendPush(s) \/ SendReq(s) \/ SendRep(s)
     \/ SendSurvey(s) \/ SendResponse(s)
  /\ UNCHANGED <<sockets, jiffies>>

nng_recv(s) ==
  /\ socket_valid(s)
  /\ survey_active' = [survey_active EXCEPT
                         ![s] = IF protocol[s] = "SURVEYOR" THEN Open(s) ELSE @]
  /\ \/ recv_queues[s] = <<>> /\ NotSent
     \/ /\ recv_queues[s] # <<>>
        /\ recv_queues' = [recv_queues EXCEPT ![s] = Tail(@)]
        /\ allocated' = allocated - 1
  /\ UNCHANGED <<sockets, requesting, respondent_src, survey_deadline, jiffies>>

(* The timer interrupt.                                                    *)
timer_tick ==
  /\ jiffies < MaxJiffies
  /\ jiffies' = jiffies + 1
  /\ UNCHANGED <<sockets, recv_queues, allocated, surveying, requesting>>

Next ==
  \/ \E p \in Protocols : nng_socket_create(p)
  \/ \E s, d \in Sockets : nng_connect(s, d)
  \/ \E s \in Sockets :
       \/ nng_socket_close(s) \/ nng_send(s) \/ nng_recv(s)
       \/ \E t \in Topics \cup {Wildcard} : nng_sub_subscribe(s, t)
       \/ \E t \in Topics \cup {Wildcard} : nng_sub_unsubscribe(s, t)
  \/ timer_tick

Spec == Init /\ [][Next]_vars

-----------------------------------------------------------------------------
(* Properties.                                                             *)

(* Every allocated message is in exactly one queue: no path through        *)
(* nng_send, nng_recv or nng_socket_close leaks one or frees one twice.    *)
PoolConserved ==
  allocated = Cardinality({x \in Sockets \X (1 .. MaxQueued) :
                             x[2] \in DOMAIN recv_queues[x[1]]})

(* An id that is opened again starts clean: nothing sent to an earlier     *)
(* socket of that id is queued, and a closed id has no queue and no pipes. *)
StartsClean ==
  \A s \in Sockets :
    /\ \A i \in DOMAIN recv_queues[s] : recv_queues[s][i] = born[s]
    /\ protocol[s] = "none" => /\ recv_queues[s] = <<>>
                               /\ \A i \in Pipes : ~(s \in {pipes[i].src, pipes[i].dst})

(* While the pipes stay as they are, the next peer of a REQ or PUSH socket *)
(* is one that has not had its turn in this round.                         *)
RoundRobin ==
  \A s \in Sockets :
    LET ends == collect_peers(s, IF protocol[s] = "REQ" THEN "REP" ELSE "PULL")
    IN  protocol[s] \in {"REQ", "PUSH"} /\ ends # <<>>
          => ends[Cursor(s, Len(ends))] \notin served

=============================================================================
