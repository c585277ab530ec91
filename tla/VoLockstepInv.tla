---------------------------- MODULE VoLockstepInv ----------------------------
(***************************************************************************)
(* The inductive invariant of VoLockstep: why the two consoles agree.      *)
(* Agreement by itself is not inductive; what keeps it true is the chain   *)
(* capture -> local ring -> record -> remote ring -> gate, one part of the *)
(* invariant for each link, and the distance the gate keeps the two ticks  *)
(* within, without which the rings would be too short and the signed       *)
(* compare would turn over.                                                *)
(***************************************************************************)
EXTENDS VoLockstep

IsInput(r) == r.kind = "INPUT"

(* One capture a tick, from tick 0 on.                                     *)
Captured ==
  \A c \in Console : /\ tick[c] >= -1
                     /\ Len(taken[c]) = tick[c] + 1
                     /\ tick[c] = -1 => ran[c]

(* The own ring still holds every tick it will be read for.                *)
LocalHeld ==
  \A c \in Console : \A x \in tick[c] .. tick[c] + Delay :
    local[c][LocalSlot(x)] = Genuine(c, x)

(* No tick has run before its record came.                                 *)
Gated ==
  \A c \in Console : /\ wm[c] >= -2
                     /\ Due(c) = 0 \/ Due(c) <= wm[c] + 1

(* Nothing is known, nor on its way, that its sender has not captured.     *)
NotAhead ==
  \A c \in Console :
    /\ sent[c] \in Delay - 1 .. tick[c] + Delay
    /\ wm[c] <= sent[Peer(c)]
    /\ \A i \in DOMAIN net[c] :
         IsInput(net[c][i]) => net[c][i].stamp \in Delay .. sent[Peer(c)]
    /\ \A i \in DOMAIN batch[c] :
         IsInput(batch[c][i]) => batch[c][i].stamp \in Delay .. sent[Peer(c)]

(* The records of one console stay in the order they were written in.      *)
InOrder ==
  \A c \in Console :
    /\ \A i \in DOMAIN net[c] : IsInput(net[c][i]) => wm[c] <= net[c][i].stamp
    /\ \A i, j \in DOMAIN net[c] :
         i <= j /\ IsInput(net[c][i]) /\ IsInput(net[c][j]) =>
           net[c][i].stamp <= net[c][j].stamp
    /\ \A i \in DOMAIN batch[c], j \in DOMAIN net[c] :
         IsInput(batch[c][i]) /\ IsInput(net[c][j]) =>
           batch[c][i].stamp <= net[c][j].stamp

(* The records of one READ lie within a window of each other and of the    *)
(* watermark, on either side of it.                                        *)
Contiguous ==
  \A c \in Console : \A i \in DOMAIN batch[c] : IsInput(batch[c][i]) =>
    /\ batch[c][i].stamp <= Known(c) + Window
    /\ wm[c] <= batch[c][i].stamp + Window
    /\ \A j \in DOMAIN batch[c] :
         IsInput(batch[c][j]) => batch[c][j].stamp <= batch[c][i].stamp + Window

(* Every window on its way is what its sender captured.                    *)
TrueWindow(c, r) ==
  IsInput(r) => \A i \in 0 .. Window - 1 : r.win[i] = Genuine(Peer(c), r.stamp - i)
RecordsTrue ==
  \A c \in Console : /\ \A i \in DOMAIN net[c]   : TrueWindow(c, net[c][i])
                     /\ \A i \in DOMAIN batch[c] : TrueWindow(c, batch[c][i])

(* The remote ring holds every tick that is known and still due.           *)
RingHeld ==
  \A c \in Console : \A x \in Due(c) .. Known(c) :
    remote[c][RemoteSlot(x)] = Genuine(Peer(c), x)

(* Every tick ran on the two captures that belong to it.                   *)
LogTrue ==
  \A c \in Console :
    /\ Len(log[c]) = Due(c)
    /\ \A i \in 1 .. Len(log[c]) : \A q \in Console : log[c][i][q] = Genuine(q, i - 1)

IInv ==
  /\ TypeOK   /\ Captured /\ LocalHeld  /\ Gated       /\ NotAhead
  /\ InOrder  /\ Contiguous /\ RecordsTrue /\ RingHeld /\ LogTrue

-----------------------------------------------------------------------------
(* What repair and progress need beside it.                                *)

(* Unless it is disturbed, the state a console is in after n ticks is told *)
(* by its log: the ticks since the last RESET, or all of them.  With that, *)
(* two consoles whose logs agree have one state they can be in.            *)
StateAfter(l, n, g) ==
  g.by = {} =>
    /\ Len(g.ran) <= n
    /\ \A i \in 1 .. Len(g.ran) : g.ran[i] = l[n - Len(g.ran) + i]
    /\ \A i \in 2 .. Len(g.ran) : ~Pressed(g.ran[i])
    /\ Len(g.ran) = n \/ (Len(g.ran) > 0 /\ Pressed(g.ran[1]))

(* A checksum is of the state at the boundary of its tick.                 *)
Ticks(c) == IF tick[c] < 0 THEN 0 ELSE tick[c]
StatesTrue ==
  \A c \in Console :
    /\ StateAfter(log[c], Len(log[c]), game[c])
    /\ StateAfter(log[c], Ticks(c), crcv[c])
    /\ \A r \in InFlight(c) :
         IsInput(r) => StateAfter(log[Peer(c)], r.stamp - Delay, r.crc)

(* Without a disturbance every state, and every checksum, is clean.        *)
Undisturbed ==
  upsets = 0 => \A c \in Console :
    /\ ~rsy[c] /\ game[c].by = {} /\ crcv[c].by = {}
    /\ \A r \in InFlight(c) : IsInput(r) => r.crc.by = {}

(* The newest record of a console is on its way or has moved the peer's    *)
(* watermark; what a READ brought is consumed before the next.             *)
Delivered ==
  \A c \in Console :
    /\ ns[c] # "CONSUME" => batch[c] = <<>>
    /\ Playing(c) => \/ sent[Peer(c)] = Delay - 1
                     \/ wm[c] = sent[Peer(c)]
                     \/ \E r \in InFlight(c) : IsInput(r) /\ r.stamp = sent[Peer(c)]

RepairInv == StatesTrue /\ Undisturbed /\ Delivered

LockstepInv == IInv /\ RepairInv

=============================================================================
