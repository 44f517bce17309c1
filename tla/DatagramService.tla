--------------------------- MODULE DatagramService ---------------------------
(***************************************************************************)
(* What the media path may promise its user about the datagrams of one     *)
(* direction: each is sent once and delivered at most once, in any order,  *)
(* or never.  deliveries counts how often each message was delivered.      *)
(***************************************************************************)
EXTENDS Naturals

CONSTANT Messages

VARIABLES sent, deliveries

serviceVars == <<sent, deliveries>>

ServiceInit ==
  /\ sent = {}
  /\ deliveries = [m \in Messages |-> 0]

Send(m) ==
  /\ m \notin sent
  /\ sent' = sent \cup {m}
  /\ UNCHANGED deliveries

Deliver(m) ==
  /\ m \in sent
  /\ deliveries[m] = 0
  /\ deliveries' = [deliveries EXCEPT ![m] = 1]
  /\ UNCHANGED sent

ServiceNext == \E m \in Messages : Send(m) \/ Deliver(m)

ServiceSpec == ServiceInit /\ [][ServiceNext]_serviceVars
==============================================================================
