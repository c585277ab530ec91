------------------------------- MODULE VoFrame -------------------------------
(***************************************************************************)
(* The frame of the patched game (tools/patches.py, STRUCTURAL and INPUTS) *)
(* on two consoles in lockstep, and what the rig's judges make of it.      *)
(*                                                                         *)
(* Each console goes around its banks: the boot bank's cold start, the     *)
(* game bank's entry, the audio block, the gate, and the kernel bank,      *)
(* which leads back to the entry.  Any frame may find the gate closed: the *)
(* consoles stall at different moments by design.  A frame that runs plays *)
(* the inputs of its tick, which both consoles have (VoLockstep).          *)
(*                                                                         *)
(* play.lua prints a line for every frame that ran and, for the repair     *)
(* run, breaks the first console; ramdiff.py and playdiff.py judge the     *)
(* lines of the two consoles.                                              *)
(***************************************************************************)
EXTENDS Integers, Sequences, FiniteSets

CONSTANTS
    Low, High, Mask, Beeps, Hands,   \* as in VoStock
    MaxTicks,       \* bound: frames that run, per console
    MaxSkew,        \* how far one console may be ahead: VOD in the ROM
    MaxStalls,      \* bound: stalled frames, together
    MaxBroken,      \* bound: how often console 1 is broken: once by the harness,
                    \* and then by a fault nobody planned
    RECOVER_TAIL, REPAIR_BOUND, GAP, MinFrames

ASSUME FrameAssumption ==
    /\ Low \in Nat \ {0, 1} /\ High \in Nat \ {0} /\ Mask \in Nat \ {0}
    /\ Beeps \subseteq 0 .. Mask /\ Mask \in Beeps /\ \E b \in Beeps : b % Mask # 0
    /\ MaxStalls \in Nat /\ MinFrames \in Nat

\* The score is counted modulo three here, so that two breaks in a row can be
\* told from none, and three could not.
ASSUME JudgeAssumption ==
    /\ MaxBroken \in 0 .. 2
    /\ RECOVER_TAIL \in Nat \ {0} /\ REPAIR_BOUND \in Nat /\ GAP \in Nat \ {0}

Consoles == {1, 2}

VARIABLES
    bank,    \* where a console is in its frame
    ram,     \* its simulation cells
    dump,    \* the lines it has printed: the cells after each frame that ran
    played,  \* the inputs of the ticks, the same on both consoles
    stalls,  \* bound on stalled frames
    broken   \* the ticks on which console 1 was broken

fvars == <<bank, ram, dump, played, stalls, broken>>

\* VOSCLR, the relocated clear: the cells of the game, and not the netcode's.
VOSCLR == [snd |-> 0, lo |-> 0, mid |-> 0, hi |-> 0, score |-> 0]

\* The game as the guest plays it: until the cold start has run, what is in RAM
\* is the boot bank's business.
Game == INSTANCE VoStock
        WITH cells <- IF bank[2] = "boot" THEN VOSCLR ELSE ram[2],
             frames <- Len(dump[2]) + (IF bank[2] = "kernel" THEN 1 ELSE 0)

Judges == INSTANCE VoJudges

Go(c, to) == bank' = [bank EXCEPT ![c] = to]
Sees(c, cells) == ram' = [ram EXCEPT ![c] = cells]
Ran(c) == Len(dump[c]) + (IF bank[c] = "kernel" THEN 1 ELSE 0)

-----------------------------------------------------------------------------
(* VOSTART, in the boot bank: the RAM clear that START used to be.         *)
ColdStart(c) ==
    /\ bank[c] = "boot"
    /\ Sees(c, VOSCLR) /\ Go(c, "entry")
    /\ UNCHANGED <<dump, played, stalls, broken>>

\* $F000: every arrival is a warm one, and the dispatcher is a single jump.
Dispatched(cells) == cells
Dispatch(c) ==
    /\ bank[c] = "entry"
    /\ Sees(c, Dispatched(ram[c])) /\ Go(c, "audio")
    /\ UNCHANGED <<dump, played, stalls, broken>>

\* $F06D: two bytes and five cycles that change nothing the game reads.
Sounded(cells) == cells
AudioBlock(c) ==
    /\ bank[c] = "audio"
    /\ Sees(c, Sounded(ram[c])) /\ Go(c, "gate")
    /\ UNCHANGED <<dump, played, stalls, broken>>

\* VOFCNT, in the dead bytes behind the switch: the countdown on stock's own
\* condition, then the frame counter.  A slip: the obvious condition.
CountdownAtZero(cells) == IF cells.snd = 0 THEN cells ELSE [cells EXCEPT !.snd = @ - 1]
Countdown(cells) == IF cells.snd % Mask = 0 THEN cells ELSE [cells EXCEPT !.snd = @ - 1]
VOFCNT(cells) ==
    LET d == Countdown(cells)
        carry == IF d.lo = Low - 1 THEN 1 ELSE 0
    IN  [d EXCEPT !.lo = (@ + 1) % Low, !.mid = (@ + carry) % High, !.hi = (@ + carry) % High]

\* The seven input sites read the shadows, which hold the inputs of the tick,
\* and not what this console's own player does.  A slip: a site not patched.
InputOwnHand(tick, hand) == hand
Input(tick, hand) == tick

\* $F0D0, the gate.  VOADV is set: the frame runs the next tick.
GateRuns(c) ==
    /\ bank[c] = "gate" /\ Ran(c) < MaxTicks /\ Ran(c) < Ran(3 - c) + MaxSkew
    /\ \E tick, hand \in Hands :
        /\ Ran(c) < Len(played) => tick = played[Ran(c) + 1]
        /\ played' = IF Ran(c) < Len(played) THEN played ELSE Append(played, tick)
        /\ Sees(c, Game!Logic(VOFCNT(ram[c]), Input(tick, hand)))
    /\ Go(c, "kernel")
    /\ UNCHANGED <<dump, stalls, broken>>

\* VOADV is clear: JMP VOSPIN, over the logic, to the switch.
GateStalls(c) ==
    /\ bank[c] = "gate" /\ stalls < MaxStalls
    /\ stalls' = stalls + 1 /\ Go(c, "blank")
    /\ UNCHANGED <<ram, dump, played, broken>>

\* $F21F: the kernel bank takes the spin, the strobes and the picture, and goes
\* back to the entry.  play.lua taps the strobe: on the first console it may
\* add one to a score (PLAY_INJECT), and it prints a line for a frame that ran
\* (the tick of a pair is one frame here).
Nudged(cells) == [cells EXCEPT !.score = (@ + 1) % 3]
KernelBank(c) ==
    /\ bank[c] = "kernel"
    /\ \E breaks \in IF c = 1 /\ Len(broken) < MaxBroken THEN BOOLEAN ELSE {FALSE} :
        LET cells == IF breaks THEN Nudged(ram[c]) ELSE ram[c]
        IN  /\ Sees(c, cells) /\ dump' = [dump EXCEPT ![c] = Append(@, cells)]
            /\ broken' = IF breaks THEN Append(broken, Ran(c)) ELSE broken
    /\ Go(c, "entry")
    /\ UNCHANGED <<played, stalls>>

KernelBankStalled(c) ==
    /\ bank[c] = "blank" /\ Go(c, "entry")
    /\ UNCHANGED <<ram, dump, played, stalls, broken>>

FrameInit ==
    /\ bank = [c \in Consoles |-> "boot"]
    /\ ram \in [Consoles -> {VOSCLR, [VOSCLR EXCEPT !.lo = 1, !.snd = 1]}]
    /\ dump = [c \in Consoles |-> <<>>] /\ played = <<>> /\ stalls = 0 /\ broken = <<>>

FrameNext ==
    \E c \in Consoles :
        \/ ColdStart(c) \/ Dispatch(c) \/ AudioBlock(c)
        \/ GateRuns(c) \/ GateStalls(c) \/ KernelBank(c) \/ KernelBankStalled(c)

FrameSpec == FrameInit /\ [][FrameNext]_fvars

-----------------------------------------------------------------------------
(* Properties                                                              *)

\* Every variable keeps its type.
FrameTypeOK ==
    /\ bank \in [Consoles -> {"boot", "entry", "audio", "gate", "kernel", "blank"}]
    /\ ram \in [Consoles -> Game!Cells] /\ dump \in [Consoles -> Seq(Game!Cells)]
    /\ stalls \in 0 .. MaxStalls /\ played \in Seq(Hands) /\ broken \in Seq(Nat)

\* The inductive invariant behind the properties that follow.  A console has run
\* no tick but those played, and one of them has run all; what it printed is
\* what stock makes of the line before and the input of the tick, but for the
\* ticks it was broken on, one after the other; and between two frames that is
\* what it has in RAM.
Broken == {broken[i] : i \in DOMAIN broken}
Before(c, n) == IF n = 1 THEN VOSCLR ELSE dump[c][n - 1]
AsStock(c, n) == Game!StockFrame(Before(c, n), played[n])
Ticks ==
    /\ \A c \in Consoles : Ran(c) <= Len(played) /\ (bank[c] = "boot" => dump[c] = <<>>)
    /\ \E c \in Consoles : Ran(c) = Len(played)
Lines ==
    /\ \A c \in Consoles : \A n \in DOMAIN dump[c] :
         dump[c][n] = IF c = 1 /\ n \in Broken THEN Nudged(AsStock(c, n)) ELSE AsStock(c, n)
    /\ \A i \in DOMAIN broken : broken[i] \in DOMAIN dump[1]
Breaks ==
    /\ Len(broken) <= MaxBroken
    /\ \A i, j \in DOMAIN broken : i < j => broken[i] < broken[j]
InRam == \A c \in Consoles : LET n == Len(dump[c]) + 1 IN
    /\ bank[c] = "kernel" => ram[c] = AsStock(c, n)
    /\ bank[c] \notin {"boot", "kernel"} => ram[c] = Before(c, n)
FrameInv == FrameTypeOK /\ Ticks /\ Lines /\ Breaks /\ InRam

\* patches.py, "a split build must play EXACTLY like stock": whatever frames
\* stall, the guest's cells go through the states of the 1977 game's frames, one
\* for each frame that ran, and change at no other moment.
FollowsStock == Game!Spec

\* The stream stock would print for the inputs the pair played.
StockRun ==
    LET f[n \in 0 .. Len(played)] ==
          IF n = 0 THEN Game!Cleared ELSE Game!StockFrame(f[n - 1], played[n])
    IN  [n \in 1 .. Len(played) |-> f[n]]

\* "make det" and "make rig-play" do not cry wolf: two consoles that stalled at
\* different moments and whose players did different things pass both judges as
\* soon as there is enough to judge and the game has moved.
CorrectPairPasses ==
    broken = <<>> =>
        /\ (\A c \in Consoles : dump[c] # <<>>) => Judges!PlayVerdict(dump[1], dump[2]) = 0
        /\ \A c \in Consoles :
             /\ Len(dump[c]) >= MinFrames
             /\ \E t, u \in DOMAIN dump[c] : StockRun[t] # StockRun[u]
             => Judges!RamVerdict(StockRun, dump[c]) = 0

\* The tick whose input starts both consoles over after tick t, if there is one.
RepairAfter(t) == {r \in t + 1 .. Len(played) : played[r] = "reset"}

\* playdiff.py --repair, "a real bound": a run passes only if the consoles were
\* broken, a restart both played brought them together within the bound, and
\* every later break was repaired in the same way before the tail.
PassMeansRepaired ==
    Judges!RepairVerdict(dump[1], dump[2]) = 0 =>
        /\ broken # <<>>
        /\ \E r \in RepairAfter(broken[1]) : r <= broken[1] + REPAIR_BOUND
        /\ \A i \in DOMAIN broken : broken[i] <= Len(dump[2]) =>
             \E r \in RepairAfter(broken[i]) :
                r + RECOVER_TAIL <= Cardinality(Judges!Common(dump[1], dump[2])) + 1

\* "EPISODES, NOT A SPAN": a repair within the bound, followed by enough agreeing
\* ticks, passes, also when a break far behind it was repaired as well.
QuickRepairPasses ==
    LET last == Cardinality(Judges!Common(dump[1], dump[2]))
        Repaired(t, within) == \E r \in RepairAfter(t) : r <= t + within /\ r + RECOVER_TAIL - 1 <= last
    IN  /\ broken # <<>> /\ Repaired(broken[1], REPAIR_BOUND)
        /\ \A i \in DOMAIN broken : Repaired(broken[i], last)
        /\ \A i \in 2 .. Len(broken) : broken[i] > broken[1] + REPAIR_BOUND + GAP
        => Judges!RepairVerdict(dump[1], dump[2]) = 0
=============================================================================
