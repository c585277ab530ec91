----------------------------- MODULE VoLockstep -----------------------------
(***************************************************************************)
(* The delay-based lockstep of Video Olympics: two consoles, each running  *)
(* the same game on the same pair of inputs, tick by tick.  Every FRAMES   *)
(* frames a console reaches a tick boundary.  There it captures its own    *)
(* input for the tick Delay ahead (VOCAP), and runs the tick only if the   *)
(* peer's input for it has arrived (the gate of voinput.inc); otherwise    *)
(* the frame stalls.  Between frames the network machine of vonet.inc      *)
(* writes records, each a window of the last Window captures, and reads    *)
(* the peer's into a ring of slots indexed by tick.  The relay between     *)
(* them is a FIFO in each direction.                                       *)
(*                                                                         *)
(* Ticks are kept here as integers.  The console holds only their residues *)
(* modulo TickMod, so every index and every comparison the code makes goes *)
(* through Byte and Signed.                                                *)
(*                                                                         *)
(* Inputs are abstract: a capture is known by its console and its number n *)
(* among the captures that console has made, so two captures of one tick   *)
(* are two different values even if a player moved nothing between them.   *)
(***************************************************************************)
EXTENDS Integers, Sequences, FiniteSets

CONSTANTS
  Host, Guest,      \* the two consoles, by the role START gives them
  Delay,            \* VOD: ticks between a capture and its use
  Window,           \* VOWIN: ticks a record carries
  FramesPerTick,    \* VOK
  StallLimit,       \* 15: what the stall counter saturates at
  MaxBatch,         \* 15: records one READ can bring
  UserReset,        \* {FALSE} or BOOLEAN: may a player press RESET
  MaxUpsets,        \* how often a console's game state is disturbed
  MayDrop,          \* may a console's connection end
  MaxTick,          \* bound: ticks a run lasts
  MaxNet,           \* bound: records in flight to one console
  CycleTicks,       \* timing bound: ticks between two records of a console
  BurstTicks        \* timing bound: new ticks one READ may bring

Console == {Host, Guest}
Peer(c) == IF c = Host THEN Guest ELSE Host

TickMod     == 256    \* the tick is one byte
LocalSlots  == 4      \* VOLM + 1: slots of a console's ring of its own input
RemoteSlots == 8      \* VORM + 1: slots of its ring of the peer's input

ASSUME RolesAssumption == Host # Guest
ASSUME SizesAssumption ==
  /\ Delay \in 1 .. LocalSlots - 1
  /\ 2 * Delay + 1 < RemoteSlots
  /\ Window \in 1 .. Delay + 1
ASSUME BoundsAssumption ==
  /\ FramesPerTick \in Nat \ {0}
  /\ StallLimit \in Nat
  /\ MaxBatch \in Nat \ {0}
  /\ UserReset \in {{FALSE}, BOOLEAN}
  /\ MaxUpsets \in Nat
  /\ MayDrop \in BOOLEAN
  /\ MaxTick \in Nat
  /\ MaxNet \in Nat
  /\ CycleTicks \in Nat
  /\ BurstTicks \in Nat

VARIABLES
  tick,     \* VOTICK: the tick being simulated, -1 before the first boundary
  ran,      \* VOE_RAN: that tick has run
  phase,    \* VOE_PH: the frame within the tick
  stall,    \* VOERR's high nibble: frames stalled in a row
  left,     \* VOE_LEFT: the console is back in the boot bank
  gone,     \* its connection has ended
  local,    \* VOLOC: own captures, by tick
  remote,   \* VORING: the peer's, by tick
  wm,       \* VORWAT: the newest remote tick received
  ns,       \* VONST: what the network machine does next
  batch,    \* the records of the last READ still to be consumed
  rsy,      \* VOE_RSY: a repair is armed
  crcv,     \* VOCRCV: the checksum at the last tick boundary
  net,      \* records on their way to each console
  game,     \* the game's state, as the inputs and disturbances that made it
  upsets,   \* history: disturbances so far
  sent,     \* history: the newest tick each console has written
  taken,    \* history: every capture each console made, in order
  log       \* history: the inputs each console ran, tick by tick

sim  == <<tick, ran, phase, stall, left, gone, local, crcv, taken, log>>
vars == <<tick, ran, phase, stall, left, gone, local, remote, wm, ns, batch,
          rsy, crcv, net, game, upsets, sent, taken, log>>

-----------------------------------------------------------------------------
(* Bytes, slots and tokens.                                                *)

Byte(x) == x % TickMod

(* Slip: the difference of two ticks is read as an unsigned byte.          *)
SignedSlip(b) == b
Signed(b)     == IF 2 * b < TickMod THEN b ELSE b - TickMod

(* Slip: the remote ring is given the own ring's mask.                     *)
RemoteSlotSlip(x) == Byte(x) % LocalSlots
RemoteSlot(x)     == Byte(x) % RemoteSlots
LocalSlot(x)      == Byte(x) % LocalSlots

Idle  == [rst |-> FALSE]
Token == [by: Console, n: Nat, rst: BOOLEAN] \cup {Idle}

Inputs == [Console -> Token]         \* what one tick runs on
Pressed(i) == \E c \in Console : i[c].rst

(* The game's state is what it ran since the last RESET and whether it was *)
(* disturbed since; the checksum tells any two such states apart.  A RESET *)
(* builds the state from nothing.                                          *)
Fresh        == [ran |-> <<>>, by |-> {}]
PlayOn(g, i) == IF Pressed(i) THEN [ran |-> <<i>>, by |-> {}]
                ELSE [g EXCEPT !.ran = Append(@, i)]

Input(stamp, win, crc) ==
  [kind |-> "INPUT", stamp |-> stamp, win |-> win, crc |-> crc]
PeerLeft == [kind |-> "PEER_LEFT"]

-----------------------------------------------------------------------------
(* The hand-over from the boot bank, after both consoles have their START. *)

Init ==
  /\ tick   = [c \in Console |-> -1]
  /\ ran    = [c \in Console |-> TRUE]
  /\ phase  = [c \in Console |-> 0]
  /\ stall  = [c \in Console |-> 0]
  /\ left   = [c \in Console |-> FALSE]
  /\ gone   = [c \in Console |-> FALSE]
  /\ local  = [c \in Console |-> [s \in 0 .. LocalSlots - 1 |-> Idle]]
  /\ remote = [c \in Console |-> [s \in 0 .. RemoteSlots - 1 |-> Idle]]
  /\ wm     = [c \in Console |-> -2]
  /\ ns     = [c \in Console |-> "WRITE"]
  /\ batch  = [c \in Console |-> <<>>]
  /\ rsy    = [c \in Console |-> FALSE]
  /\ crcv   = [c \in Console |-> Fresh]
  /\ net    = [c \in Console |-> <<>>]
  /\ game   = [c \in Console |-> Fresh]
  /\ upsets = 0
  /\ sent   = [c \in Console |-> Delay - 1]
  /\ taken  = [c \in Console |-> <<>>]
  /\ log    = [c \in Console |-> <<>>]

-----------------------------------------------------------------------------
(* The simulation: one action per kind of frame.                           *)

Playing(c) == ~left[c] /\ ~gone[c]

(* A frame inside a tick: the game runs on the inputs already mixed.       *)
MidTick(c) ==
  /\ Playing(c) /\ phase[c] # 0
  /\ phase' = [phase EXCEPT ![c] = (@ + 1) % FramesPerTick]
  /\ UNCHANGED <<tick, ran, stall, left, gone, local, remote, wm, ns, batch,
                 rsy, crcv, net, game, upsets, sent, taken, log>>

(* The tick the gate decides about at this boundary.                       *)
Due(c)  == IF ran[c] THEN tick[c] + 1 ELSE tick[c]

(* Slips: the gate lets a tick through one early, or a Delay late.         *)
OpenEarlySlip(c) == Signed(Byte(Byte(wm[c]) - Byte(Due(c)))) >= -1
OpenLateSlip(c)  == Signed(Byte(Byte(wm[c]) - Byte(Due(c)))) >= Delay
Open(c) == Signed(Byte(Byte(wm[c]) - Byte(Due(c)))) >= 0

(* Timing: a console writes at least once every CycleTicks ticks.          *)
Timely(c) == ran[c] => Due(c) + Delay - sent[c] <= CycleTicks

(* Slip: the capture is made again at every boundary that stalls.          *)
CommitSlip(c) ==
  /\ tick' = [tick EXCEPT ![c] = Due(c)]
  /\ crcv' = [crcv EXCEPT ![c] = game[c]]
  /\ LET token == [by |-> c, n |-> Len(taken[c]) + 1, rst |-> rsy[c]]
     IN  /\ taken' = IF ran[c] THEN [taken EXCEPT ![c] = Append(@, token)] ELSE taken
         /\ local' = [local EXCEPT ![c][LocalSlot(Due(c) + Delay)] = token]
  /\ rsy' = [rsy EXCEPT ![c] = FALSE]

(* A boundary whose tick ran advances the tick, samples the checksum and   *)
(* captures, as one act; a boundary that stalled before does none of them. *)
Commit(c) ==
  \/ /\ ran[c]
     /\ tick' = [tick EXCEPT ![c] = @ + 1]
     /\ crcv' = [crcv EXCEPT ![c] = game[c]]
     /\ \E press \in UserReset :
          LET token == [by |-> c, n |-> Len(taken[c]) + 1, rst |-> press \/ rsy[c]]
          IN  /\ taken' = [taken EXCEPT ![c] = Append(@, token)]
              /\ local' = [local EXCEPT
                             ![c][LocalSlot(Due(c) + Delay)] = token]
     /\ rsy' = [rsy EXCEPT ![c] = FALSE]
  \/ /\ ~ran[c]
     /\ UNCHANGED <<tick, crcv, taken, local, rsy>>

Boundary(c) ==
  /\ Playing(c) /\ phase[c] = 0
  /\ Due(c) <= MaxTick /\ Timely(c)
  /\ Commit(c)
  /\ UNCHANGED <<gone, remote, wm, ns, batch, net, upsets, sent>>

(* Slips: each console puts its own input first, whatever its role; a      *)
(* RESET takes effect on its own console when it is captured.              *)
MixRoleSlip(c, x, own) ==
  [p \in Console |-> IF p = Host THEN own[LocalSlot(x)]
                              ELSE remote[c][RemoteSlot(x)]]
MixEagerSlip(c, x, own) ==
  [p \in Console |->
     IF p = c THEN [own[LocalSlot(x)] EXCEPT
                      !.rst = @ \/ own[LocalSlot(x + Delay)].rst]
              ELSE remote[c][RemoteSlot(x)]]

(* What tick x runs on: the own ring's slot and the remote ring's, each    *)
(* put where its console's role says.                                      *)
Mix(c, x, own) ==
  [p \in Console |-> IF p = c THEN own[LocalSlot(x)]
                              ELSE remote[c][RemoteSlot(x)]]

RunTick(c) ==
  /\ Boundary(c)
  /\ Open(c)
  /\ stall' = [stall EXCEPT ![c] = 0]
  /\ LET in == Mix(c, Due(c), local'[c])
     IN  /\ log'  = [log EXCEPT ![c] = Append(@, in)]
         /\ game' = [game EXCEPT ![c] = PlayOn(@, in)]
  /\ ran'   = [ran EXCEPT ![c] = TRUE]
  /\ phase' = [phase EXCEPT ![c] = (@ + 1) % FramesPerTick]
  /\ UNCHANGED left

(* Slip: a stalled frame is not counted.                                   *)
StallSlip(c) ==
  /\ Boundary(c)
  /\ ~Open(c)
  /\ stall[c] < StallLimit
  /\ ran' = [ran EXCEPT ![c] = FALSE]
  /\ UNCHANGED <<stall, phase, left, log, game>>

Stall(c) ==
  /\ Boundary(c)
  /\ ~Open(c)
  /\ stall[c] < StallLimit
  /\ stall' = [stall EXCEPT ![c] = @ + 1]
  /\ ran'   = [ran EXCEPT ![c] = FALSE]
  /\ UNCHANGED <<phase, left, log, game>>

(* The stall counter is full: hand back to the boot bank.                  *)
GiveUp(c) ==
  /\ Boundary(c)
  /\ ~Open(c)
  /\ stall[c] = StallLimit
  /\ left' = [left EXCEPT ![c] = TRUE]
  /\ ran'  = [ran EXCEPT ![c] = FALSE]
  /\ UNCHANGED <<phase, stall, log, game>>

-----------------------------------------------------------------------------
(* The network machine, between frames.                                    *)

InPlay(c) == Playing(c) /\ tick[c] >= 0

(* WRITE: the record for tick + Delay, as the own ring stands now.  Nobody *)
(* reads what is written to a console that plays no more.                  *)
Write(c) ==
  /\ InPlay(c) /\ ns[c] = "WRITE"
  /\ LET stamp == tick[c] + Delay
         win   == [i \in 0 .. Window - 1 |-> local[c][LocalSlot(stamp - i)]]
     IN  /\ \/ /\ Playing(Peer(c)) /\ Len(net[Peer(c)]) < MaxNet
               /\ net' = [net EXCEPT ![Peer(c)] =
                            Append(@, Input(stamp, win, crcv[c]))]
            \/ ~Playing(Peer(c)) /\ UNCHANGED net
         /\ sent' = [sent EXCEPT ![c] = stamp]
  /\ ns' = [ns EXCEPT ![c] = "POLL"]
  /\ UNCHANGED <<sim, remote, wm, batch, rsy, game, upsets>>

(* Timing: the records r of one READ reach at most BurstTicks past the     *)
(* newest tick received; ticks below Delay are never sent.                 *)
Known(c) == IF wm[c] < Delay - 1 THEN Delay - 1 ELSE wm[c]
Smooth(c, r) ==
  \A i \in 1 .. Len(r) : r[i].kind = "INPUT" => r[i].stamp - Known(c) <= BurstTicks

(* STATUS and READ: whole records only, as many as had arrived.            *)
Poll(c) ==
  /\ InPlay(c) /\ ns[c] = "POLL"
  /\ \E n \in 0 .. Len(net[c]) :
       /\ n <= MaxBatch
       /\ Smooth(c, SubSeq(net[c], 1, n))
       /\ batch' = [batch EXCEPT ![c] = SubSeq(net[c], 1, n)]
       /\ net'   = [net EXCEPT ![c] = SubSeq(@, n + 1, Len(@))]
       /\ ns'    = [ns EXCEPT ![c] = IF n = 0 THEN "WRITE" ELSE "CONSUME"]
  /\ UNCHANGED <<sim, remote, wm, rsy, game, upsets, sent>>

(* The record CONSUME takes next: the newest first.                        *)
Newest(c) == batch[c][Len(batch[c])]
Unread(c) == SubSeq(batch[c], 1, Len(batch[c]) - 1)

(* Each tick of a record's window goes to its own slot.                    *)
Store(c, r) ==
  [s \in 0 .. RemoteSlots - 1 |->
     IF \E i \in 0 .. Window - 1 : RemoteSlot(r.stamp - i) = s
     THEN r.win[CHOOSE i \in 0 .. Window - 1 : RemoteSlot(r.stamp - i) = s]
     ELSE remote[c][s]]

(* Slip: the checksums are compared whatever ticks they belong to.         *)
DisagreesSlip(c, r) == r.crc # crcv[c]

(* A record sampled at the boundary this console is on, with another       *)
(* checksum than its own.                                                  *)
Disagrees(c, r) ==
  Byte(Byte(r.stamp) - Delay) = Byte(tick[c]) /\ r.crc # crcv[c]

ConsumeInput(c) ==
  /\ InPlay(c) /\ ns[c] = "CONSUME" /\ batch[c] # <<>>
  /\ Newest(c).kind = "INPUT"
  /\ LET r == Newest(c)
     IN  /\ remote' = [remote EXCEPT ![c] = Store(c, r)]
         /\ rsy' = [rsy EXCEPT ![c] = @ \/ Disagrees(c, r)]
         /\ wm'  = IF Signed(Byte(Byte(r.stamp) - Byte(wm[c]))) >= 0
                   THEN [wm EXCEPT ![c] = r.stamp] ELSE wm
  /\ batch' = [batch EXCEPT ![c] = Unread(c)]
  /\ UNCHANGED <<sim, ns, net, game, upsets, sent>>

(* PEER_LEFT fills the stall counter.                                      *)
ConsumeLeft(c) ==
  /\ InPlay(c) /\ ns[c] = "CONSUME" /\ batch[c] # <<>>
  /\ Newest(c).kind = "PEER_LEFT"
  /\ stall' = [stall EXCEPT ![c] = StallLimit]
  /\ batch' = [batch EXCEPT ![c] = Unread(c)]
  /\ UNCHANGED <<tick, ran, phase, left, gone, local, remote, wm, ns, rsy,
                 crcv, net, game, upsets, sent, taken, log>>

ConsumeDone(c) ==
  /\ InPlay(c) /\ ns[c] = "CONSUME" /\ batch[c] = <<>>
  /\ ns' = [ns EXCEPT ![c] = "WRITE"]
  /\ UNCHANGED <<sim, remote, wm, batch, rsy, net, game, upsets, sent>>

(* A transaction answered with an error: start the cycle again.            *)
Fail(c) ==
  /\ InPlay(c) /\ ns[c] = "POLL"
  /\ ns' = [ns EXCEPT ![c] = "WRITE"]
  /\ UNCHANGED <<sim, remote, wm, batch, rsy, net, game, upsets, sent>>

-----------------------------------------------------------------------------
(* The surroundings.                                                       *)

(* A cell of the running game changes on one console only.                 *)
Upset(c) ==
  /\ InPlay(c) /\ upsets < MaxUpsets
  /\ game[c].by = {}
  /\ game' = [game EXCEPT ![c] = [ran |-> @.ran, by |-> {<<c, Len(log[c])>>}]]
  /\ upsets' = upsets + 1
  /\ UNCHANGED <<sim, remote, wm, ns, batch, rsy, net, sent>>

(* The connection of a console ends; the relay tells the peer, behind the  *)
(* records it has already forwarded.                                       *)
Drop(c) ==
  /\ MayDrop /\ InPlay(c)
  /\ gone' = [gone EXCEPT ![c] = TRUE]
  /\ net'  = [net EXCEPT ![Peer(c)] = Append(@, PeerLeft)]
  /\ UNCHANGED <<tick, ran, phase, stall, left, local, remote, wm, ns, batch, rsy,
                 crcv, game, upsets, sent, taken, log>>

Frame(c)   == MidTick(c) \/ RunTick(c) \/ Stall(c) \/ GiveUp(c)
NetStep(c) == \/ Write(c) \/ Poll(c) \/ Fail(c)
              \/ ConsumeInput(c) \/ ConsumeLeft(c) \/ ConsumeDone(c)

Next == \E c \in Console : Frame(c) \/ NetStep(c) \/ Upset(c) \/ Drop(c)

Spec == Init /\ [][Next]_vars

(* The video frame comes round sixty times a second and ends with steps of *)
(* the network machine, which go on once FujiNet answers, whatever it says. *)
Fairness == \A c \in Console : WF_vars(Frame(c)) /\ WF_vars(NetStep(c))
FairSpec == Spec /\ Fairness

-----------------------------------------------------------------------------
(* Properties.                                                             *)

Game   == [ran: Seq(Inputs), by: SUBSET (Console \X Nat)]
Record == [kind: {"INPUT"}, stamp: Nat, win: [0 .. Window - 1 -> Token], crc: Game]
            \cup {PeerLeft}

(* Every variable keeps its type, with the bounds the code's bytes give.   *)
TypeOK ==
  /\ tick   \in [Console -> Int]
  /\ ran    \in [Console -> BOOLEAN]
  /\ phase  \in [Console -> 0 .. FramesPerTick - 1]
  /\ stall  \in [Console -> 0 .. StallLimit]
  /\ left   \in [Console -> BOOLEAN]
  /\ gone   \in [Console -> BOOLEAN]
  /\ local  \in [Console -> [0 .. LocalSlots - 1 -> Token]]
  /\ remote \in [Console -> [0 .. RemoteSlots - 1 -> Token]]
  /\ wm     \in [Console -> Int]
  /\ ns     \in [Console -> {"WRITE", "POLL", "CONSUME"}]
  /\ batch  \in [Console -> Seq(Record)]
  /\ rsy    \in [Console -> BOOLEAN]
  /\ crcv   \in [Console -> Game]
  /\ net    \in [Console -> Seq(Record)]
  /\ game   \in [Console -> Game]
  /\ upsets \in 0 .. MaxUpsets
  /\ sent   \in [Console -> Int]
  /\ taken  \in [Console -> Seq(Token)]
  /\ log    \in [Console -> Seq(Inputs)]

(* The one capture that tick x of console c is played with everywhere:     *)
(* Idle for the ticks nobody sends, then the captures in order.            *)
Genuine(c, x) == IF x < Delay THEN Idle ELSE taken[c][x - Delay + 1]

(* Both consoles have run every tick they have both reached on the same    *)
(* pair of inputs.                                                         *)
Agreement ==
  \A i \in 1 .. Len(log[Host]) : i <= Len(log[Guest]) => log[Host][i] = log[Guest][i]

(* A record, once sent, is immutable (voinput.inc): what any record on its *)
(* way says about a tick is what its sender itself plays that tick with.   *)
InFlight(c) == {net[c][i] : i \in DOMAIN net[c]} \cup {batch[c][i] : i \in DOMAIN batch[c]}
RecordsImmutable ==
  \A c \in Console : \A r \in InFlight(c) :
    r.kind = "INPUT" =>
      \A i \in 0 .. Window - 1 : r.win[i] = Genuine(Peer(c), r.stamp - i)

(* Neither console gets more than Delay ticks past the other's last tick.  *)
SkewBounded ==
  \A c \in Console : Due(c) <= tick[Peer(c)] + Delay + 1

(* A repair is armed only after a disturbance: a false positive is         *)
(* impossible (vonet.inc).                                                 *)
NoFalseAlarm == upsets = 0 => \A c \in Console : ~rsy[c]

(* A hole in the windows received never reaches the gate (vonet.inc): the  *)
(* tick a console is about to run is the peer's own capture for it.        *)
NoHoleAtGate ==
  \A c \in Console :
    Playing(c) /\ phase[c] = 0 /\ Open(c) =>
      remote[c][RemoteSlot(Due(c))] = Genuine(Peer(c), Due(c))

(* A clean leave is instant (vonet.inc): once PEER_LEFT has been read, the *)
(* survivor's next stalled frame is its last.                              *)
CleanLeaveInstant ==
  \A c \in Console :
    gone[Peer(c)] /\ PeerLeft \notin InFlight(c) => stall[c] = StallLimit

(* One desync is repaired by one press: records from before the repair do  *)
(* not arm it again (vonet.inc).                                           *)
Presses(c) == {i \in DOMAIN taken[c] : taken[c][i].rst}
OnePressPerDesync == \A c \in Console : Cardinality(Presses(c)) <= upsets

(* The gates never wait for each other: with everything written and        *)
(* everything read, at least one of the two consoles may run its tick.     *)
Settled(c) == /\ sent[c] = tick[c] + Delay
              /\ net[c] = <<>> /\ batch[c] = <<>>
NoMutualStall ==
  (\A c \in Console : InPlay(c) /\ Settled(c)) => \E c \in Console : Open(c)

(* A RESET makes the consoles equal again: whenever both have run the same *)
(* ticks and neither carries a disturbance, they are in the same state.    *)
RepairedTogether ==
  (Len(log[Host]) = Len(log[Guest]) /\ \A c \in Console : game[c].by = {})
    => game[Host] = game[Guest]

(* A repair is armed only by a disturbance no RESET has cleared yet, on    *)
(* one of the two sides of the boundary compared (vonet.inc).              *)
ArmedByDisturbance ==
  [][\A c \in Console : ~rsy[c] /\ rsy'[c] =>
       crcv[c].by # {} \/ Newest(c).crc.by # {}]_vars

(* A console whose peer plays no more is back in the boot bank in the end, *)
(* however late PEER_LEFT comes and whatever was still on its way.         *)
EndsAlone ==
  \A c \in Console :
    ~Playing(Peer(c)) ~> ~Playing(c) \/ Due(c) > MaxTick

(* The watermark never goes back, however a burst is ordered.              *)
WatermarkMonotone == [][\A c \in Console : wm'[c] >= wm[c]]_vars

(* Both consoles play one script: the lockstep implements VoOneGame.       *)
script  == IF Len(log[Host]) >= Len(log[Guest]) THEN log[Host] ELSE log[Guest]
One     == INSTANCE VoOneGame WITH Lead <- Delay + 1
OneGame == One!Spec

=============================================================================
