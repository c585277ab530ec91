---------------------------- MODULE MCVoLockstep ----------------------------
(* Instances of VoLockstep for TLC.                                        *)
EXTENDS VoLockstepInv, TLC

(* Nothing in the specification tells the two roles apart.                 *)
Roles == Permutations(Console)

(* Bound: a run has a disturbance or RESETs pressed by the players, not    *)
(* both, and ends at PressTick once a player has pressed.                  *)
CONSTANT PressTick
Pressing(c) == taken[c] # taken'[c] /\ taken'[c][Len(taken'[c])].rst /\ ~rsy[c]
AnyPressed  == \E c \in Console : Presses(c) # {}
OneTrouble ==
  /\ upsets > 0 => \A c \in Console : ~Pressing(c)
  /\ upsets' # upsets => ~AnyPressed
  /\ upsets = 0 /\ AnyPressed => \A c \in Console : tick'[c] <= PressTick

(* Bound: two records are on their way to one console at once only until   *)
(* PairTick.                                                               *)
CONSTANT PairTick
EarlyPairs == \A c \in Console : Len(net'[c]) > 1 => tick'[Peer(c)] <= PairTick

(* Bound: of the two connections the guest's may end, at any moment.  The  *)
(* host's would be the same with the roles exchanged, and once both have   *)
(* ended nobody is left to tell.                                           *)
LeaveNext == (\E c \in Console : Frame(c) \/ NetStep(c)) \/ Drop(Guest)
LeaveSpec == Init /\ [][LeaveNext]_vars /\ Fairness
=============================================================================
