------------------------------ MODULE VoOneGame ------------------------------
(***************************************************************************)
(* What the lockstep promises its players: one game.  There is one script, *)
(* the pair of inputs of every tick that has run; each console plays it    *)
(* from its beginning, tick by tick, and none gets more than Lead ticks    *)
(* past another.  The console that gets to a tick first decides what the   *)
(* script says there, and what it says never changes.                      *)
(***************************************************************************)
EXTENDS Integers, Sequences

CONSTANTS
  Console,      \* the consoles
  Inputs,       \* what a tick may run on
  Lead          \* how many ticks one console may get past another

VARIABLES
  script,       \* the inputs of every tick so far
  log           \* what each console has run

Init ==
  /\ script = <<>>
  /\ log    = [c \in Console |-> <<>>]

(* A tick nobody has run before enters the script.                         *)
Decide ==
  /\ Len(script') = Len(script) + 1
  /\ script' = Append(script, script'[Len(script) + 1])
  /\ script'[Len(script) + 1] \in Inputs

Play(c) ==
  /\ \A p \in Console : Len(log[c]) < Len(log[p]) + Lead
  /\ \/ Len(log[c]) < Len(script) /\ UNCHANGED script
     \/ Len(log[c]) = Len(script) /\ Decide
  /\ log' = [log EXCEPT ![c] = Append(@, script'[Len(@) + 1])]

Next == \E c \in Console : Play(c)

Spec == Init /\ [][Next]_<<script, log>>

=============================================================================
