------------------------------- MODULE MCNng --------------------------------
(***************************************************************************)
(* Nng for TLC.  Sockets of different families do not exchange messages,   *)
(* so a behaviour opens sockets of one family only, and each family gets   *)
(* the resources its protocols need to meet their limits.                  *)
(***************************************************************************)
EXTENDS Nng

Speaking(family) == \A s \in Sockets : protocol[s] \in family \cup {"none"}

Opened == Cardinality({<<s, k>> \in Sockets \X (1 .. MaxOpens) : k <= born[s]})

(* Up to three openings, each id opened at most `times' times; the clock   *)
(* matters to surveys only.                                                *)
Bounds(times, ticks, links) ==
  /\ Opened <= 3
  /\ \A s \in Sockets : born[s] <= times
  /\ jiffies <= ticks
  /\ Cardinality({i \in Pipes : pipes[i] # NoPipe}) <= links

Small ==
  \/ Speaking({"REQ", "REP"}) /\ Bounds(2, 0, 2)
  \/ Speaking({"PUSH", "PULL"}) /\ Bounds(1, 0, 3)
  \/ Speaking({"BUS", "PAIR"}) /\ Bounds(1, 0, 3)
  \/ Speaking({"SURVEYOR", "RESPONDENT"}) /\ Bounds(1, MaxJiffies, 2)
  \/ Speaking({"PUB", "SUB"}) /\ Bounds(2, 0, 1)
=============================================================================
