----------------------------- MODULE MCChannels -----------------------------
(* Model of Channels for TLC: two channels and two workers.  One channel   *)
(* is there from the start, may be banned and has a working upstream; the  *)
(* other is still to be added, has a weight, is never banned by the relay  *)
(* and fails every check.                                                  *)
EXTENDS Channels, TLC

CONSTANTS c1, c2, w1, w2

OneWeighs == [c \in Channels |-> IF c = c2 THEN 1 ELSE 0]

\* One active channel, another to come.
OneActive == {c1 :> [status |-> "active", prio |-> 1] @@ c2 :> NoRow}
=============================================================================
