------------------------------ MODULE MCVoServer ------------------------------
(* What the relay does beside forwarding, in one run: its lobby publisher   *)
(* and its checksum log.  They share no variable and no lock; a behaviour   *)
(* exercises the one or the other.                                          *)
EXTENDS VoLobby, VoCrcLog

VARIABLE job
MCvars == <<job, lobbyvars, logvars>>

MCInit ==
  /\ LobbyInit /\ LogInit
  /\ \/ job = "publish" /\ odd = [match |-> 1, tick |-> CHOOSE t \in OddTicks : TRUE]
     \/ job = "compare" /\ port = "py"

MCNext ==
  \/ job = "publish" /\ LobbyNext /\ UNCHANGED <<job, logvars>>
  \/ job = "compare" /\ LogNext /\ UNCHANGED <<job, lobbyvars>>

MCSpec == MCInit /\ [][MCNext]_MCvars /\ (job = "publish" => LobbyFairness)

(* The invariants the proofs of both parts rest on.                         *)
ServerInv == LobbyInv /\ LogInv /\ ArrayInv
=============================================================================
