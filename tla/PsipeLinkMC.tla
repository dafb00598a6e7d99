----------------------------- MODULE PsipeLinkMC -----------------------------
(* Instances of PsipeLink for TLC: messages of less than a page, and of a   *)
(* page and a part of one.                                                  *)
EXTENDS PsipeLink

Ops == [mode : {"SEND", "RECV"}, len : {1, 3}]

Opposite(op) == [op EXCEPT !.mode = IF @ = "SEND" THEN "RECV" ELSE "SEND"]

\* Every pair of programs of two operations, and programs of three that agree.
MCScripts ==
  [Sides -> [1 .. 2 -> Ops]] \cup
  {[s \in Sides |-> IF s = Server THEN p ELSE [k \in 1 .. 3 |-> Opposite(p[k])]] :
     p \in [1 .. 3 -> Ops]}

\* One message, from the client to the server.
MCOneMessage ==
  {[s \in Sides |-> IF s = Server THEN <<[mode |-> "RECV", len |-> 4]>>
                                  ELSE <<[mode |-> "SEND", len |-> 4]>>]}

MCNobody == {}
MCAnybody == Sides
=============================================================================
