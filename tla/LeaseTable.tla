----------------------------- MODULE LeaseTable -----------------------------
(***************************************************************************)
(* What the server's lease list promises, without the list: a table that   *)
(* gives each address at most one owner and the time of its last grant.    *)
(* An address gets an owner only while it has none, keeps that owner for   *)
(* as long as it is bound, and its time stamp only moves to the present.   *)
(***************************************************************************)
EXTENDS Integers

CONSTANTS
  Mac,
  Addr,
  Nobody        \* the owner of an unbound address

VARIABLES
  owner,        \* owner[a] is the client address a is bound to
  stamp,        \* stamp[a] is when a bound address was last granted
  clock

tableVars == <<owner, stamp, clock>>

Init ==
  /\ owner = [a \in Addr |-> Nobody]
  /\ stamp = [a \in Addr |-> 0]
  /\ clock = 0

Bind(a, mac) ==
  /\ owner[a] = Nobody
  /\ owner' = [owner EXCEPT ![a] = mac]
  /\ stamp' = [stamp EXCEPT ![a] = clock]
  /\ UNCHANGED clock

Refresh(a) ==
  /\ owner[a] # Nobody
  /\ stamp' = [stamp EXCEPT ![a] = clock]
  /\ UNCHANGED <<owner, clock>>

\* An unbound address has no time stamp to speak of: it reads 0.
Unbind(a) ==
  /\ owner[a] # Nobody
  /\ owner' = [owner EXCEPT ![a] = Nobody]
  /\ stamp' = [stamp EXCEPT ![a] = 0]
  /\ UNCHANGED clock

Advance ==
  /\ clock' = clock + 1
  /\ UNCHANGED <<owner, stamp>>

Next ==
  \/ \E a \in Addr :
       Refresh(a) \/ Unbind(a) \/ \E mac \in Mac : Bind(a, mac)
  \/ Advance

Spec == Init /\ [][Next]_tableVars
=============================================================================
