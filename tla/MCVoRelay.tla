----------------------------- MODULE MCVoRelay -----------------------------
(* Instances of VoRelay for TLC.  All consoles ask for one name and come   *)
(* from one address, so nothing tells them apart but the order they come.  *)
EXTENDS VoRelay, TLC

CONSTANTS Asked, Home
OneAsked   == [c \in Conn |-> Asked]
AllVary    == [n \in Name |-> Name \ {Asked}]
OneAddress == [c \in Conn |-> Home]
Alike      == Permutations(Conn) \cup Permutations(Name \ {Asked})

(* Bound: what the ROM never says, one console says once, while few have   *)
(* come.                                                                   *)
CONSTANT FewCame
AskedEarly ==
  \A c \in Conn : asked'[c] > 0 =>
    Cardinality(came') <= FewCame /\ \A d \in Conn \ {c} : asked'[d] = 0

(* Bound: one record each, but two of one console, while few have come and *)
(* none has left.                                                          *)
SaidEarly ==
  \A c \in Conn : told'[c] > 1 =>
    /\ \A d \in Conn \ {c} : told'[d] = 0
    /\ told'[c] = told[c] \/ (Cardinality(came) <= FewCame /\ clients = came)
=============================================================================
