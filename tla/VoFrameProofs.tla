---------------------------- MODULE VoFrameProofs ----------------------------
(***************************************************************************)
(* Proofs about VoFrame: a counter and a sound of any width, any stalls,   *)
(* any inputs and the breaks JudgeAssumption allows.                       *)
(***************************************************************************)
EXTENDS VoFrame, FiniteSetTheorems, WellFoundedInduction, TLAPS

(* Some duration counts down and some does not.                            *)
LEMMA SomeBeep ==
  ASSUME NEW silent \in BOOLEAN
  PROVE  (CHOOSE b \in Beeps : (b % Mask = 0) = silent) \in 0 .. Mask
<1>1. \E b \in Beeps : (b % Mask = 0) = silent
  <2>1. Mask % Mask = 0
    BY FrameAssumption
  <2>2. CASE silent
    BY <2>1, <2>2, FrameAssumption
  <2>3. CASE ~silent
    BY <2>3, FrameAssumption
  <2> QED
    BY <2>2, <2>3
<1> QED
  BY <1>1, FrameAssumption

(* A stock frame makes cells of cells.                                     *)
LEMMA StockCells ==
  ASSUME NEW s \in Game!Cells, NEW hand
  PROVE  Game!StockFrame(s, hand) \in Game!Cells
<1> USE FrameAssumption
<1>1. Game!SoundDown(s) \in Game!Cells
  <2>1. CASE s.snd % Mask = 0
    BY <2>1 DEF Game!SoundDown, Game!Cells
  <2>2. CASE s.snd % Mask # 0
    <3>1. s.snd # 0
      BY <2>2 DEF Game!Cells
    <3>2. s.snd - 1 \in 0 .. Mask
      BY <3>1 DEF Game!Cells
    <3> QED
      BY <2>2, <3>2 DEF Game!SoundDown, Game!Cells
  <2> QED
    BY <2>1, <2>2
<1>2. ASSUME NEW t \in Game!Cells PROVE Game!CountUp(t) \in Game!Cells
  <2>1. (t.lo + 1) % Low \in 0 .. Low - 1
    BY DEF Game!Cells
  <2>2. (t.mid + 1) % High \in 0 .. High - 1 /\ (t.hi + 1) % High \in 0 .. High - 1
    BY DEF Game!Cells
  <2> QED
    BY <2>1, <2>2 DEF Game!CountUp, Game!Cells
<1>3. ASSUME NEW t \in Game!Cells PROVE Game!Logic(t, hand) \in Game!Cells
  <2>1. Game!Cleared \in Game!Cells
    BY DEF Game!Cleared, Game!Cells
  <2>2. (t.score + 1) % 3 \in 0 .. 2
    BY DEF Game!Cells
  <2>3. (CHOOSE b \in Beeps : (b % Mask = 0) = (t.score = 1)) \in 0 .. Mask
    BY SomeBeep
  <2>4. [t EXCEPT !.score = (@ + 1) % 3,
                  !.snd = CHOOSE b \in Beeps : (b % Mask = 0) = (t.score = 1)] \in Game!Cells
    BY <2>2, <2>3 DEF Game!Cells
  <2> QED
    BY <2>1, <2>4 DEF Game!Logic
<1> QED
  BY <1>1, <1>2, <1>3 DEF Game!StockFrame

(* VOFCNT counts the sound and the frame as stock does.                    *)
LEMMA CountsAsStock ==
  ASSUME NEW s \in Game!Cells
  PROVE  VOFCNT(s) = Game!CountUp(Game!SoundDown(s))
<1> USE FrameAssumption
<1> DEFINE d == Countdown(s)
<1>1. d = Game!SoundDown(s)
  BY DEF Countdown, Game!SoundDown
<1>2. d.lo = s.lo /\ d.mid \in 0 .. High - 1 /\ d.hi \in 0 .. High - 1
  BY DEF Countdown, Game!Cells
<1>3. (d.mid + 0) % High = d.mid /\ (d.hi + 0) % High = d.hi
  BY <1>2
<1> HIDE DEF d
<1>4. CASE d.lo = Low - 1
  BY <1>1, <1>4 DEF VOFCNT, Game!CountUp, d
<1>5. CASE d.lo # Low - 1
  BY <1>1, <1>3, <1>5 DEF VOFCNT, Game!CountUp, d
<1> QED
  BY <1>4, <1>5

LEMMA ClearedCells == VOSCLR \in Game!Cells /\ VOSCLR = Game!Cleared
BY FrameAssumption DEF VOSCLR, Game!Cleared, Game!Cells

LEMMA NudgedCells == \A s \in Game!Cells : Nudged(s) \in Game!Cells
<1> TAKE s \in Game!Cells
<1>1. (s.score + 1) % 3 \in 0 .. 2
  BY DEF Game!Cells
<1> QED
  BY <1>1 DEF Nudged, Game!Cells

LEMMA FrameInitInv == FrameInit => FrameInv
<1> SUFFICES ASSUME FrameInit PROVE FrameInv
  OBVIOUS
<1> USE FrameAssumption
<1>1. [VOSCLR EXCEPT !.lo = 1, !.snd = 1] \in Game!Cells
  <2>1. 1 \in 0 .. Mask /\ 1 \in 0 .. Low - 1 /\ 0 \in 0 .. High - 1
    OBVIOUS
  <2>2. [VOSCLR EXCEPT !.lo = 1] \in Game!Cells
    BY <2>1, ClearedCells DEF Game!Cells
  <2> QED
    BY <2>1, <2>2 DEF Game!Cells
<1>2. FrameTypeOK
  <2>1. ram \in [Consoles -> Game!Cells]
    BY <1>1, ClearedCells DEF FrameInit
  <2>2. <<>> \in Seq(Game!Cells) /\ <<>> \in Seq(Hands) /\ <<>> \in Seq(Nat)
    OBVIOUS
  <2> QED
    BY <2>1, <2>2 DEF FrameInit, FrameTypeOK
<1>3. Len(<<>>) = 0 /\ DOMAIN <<>> = {}
  OBVIOUS
<1>4. \A c \in Consoles : Len(dump[c]) = 0 /\ DOMAIN dump[c] = {} /\ Ran(c) = 0
  BY <1>3 DEF FrameInit, Ran
<1>5. Ticks
  <2>1. 1 \in Consoles
    BY DEF Consoles
  <2> QED
    BY <1>3, <1>4, <2>1 DEF FrameInit, Ticks
<1>6. Lines
  BY <1>3, <1>4 DEF FrameInit, Lines
<1>7. InRam
  BY DEF FrameInit, InRam
<1>8. Breaks
  <2>1. Len(broken) = 0 /\ DOMAIN broken = {}
    BY <1>3 DEF FrameInit
  <2> QED
    BY <2>1, JudgeAssumption DEF Breaks
<1> QED
  BY <1>2, <1>5, <1>6, <1>7, <1>8 DEF FrameInv

(* Steps that run no frame: what is in RAM stays, or is cleared behind the *)
(* boot bank.                                                              *)
LEMMA QuietStep ==
  ASSUME FrameInv, NEW c \in Consoles,
         ColdStart(c) \/ Dispatch(c) \/ AudioBlock(c) \/ GateStalls(c) \/ KernelBankStalled(c)
  PROVE  FrameInv'
<1> USE FrameAssumption DEF FrameInv
<1>1. /\ UNCHANGED <<dump, played, broken>> /\ bank[c] # "kernel"
      /\ bank'[c] \in {"entry", "audio", "gate", "blank"}
      /\ bank' \in [Consoles -> {"boot", "entry", "audio", "gate", "kernel", "blank"}]
      /\ \A d \in Consoles \ {c} : bank'[d] = bank[d]
  BY DEF ColdStart, Dispatch, AudioBlock, GateStalls, KernelBankStalled, Go, FrameTypeOK
<1>2. /\ ram' \in [Consoles -> Game!Cells]
      /\ \A d \in Consoles \ {c} : ram'[d] = ram[d]
      /\ ram'[c] = IF bank[c] = "boot" THEN VOSCLR ELSE ram[c]
  BY ClearedCells DEF ColdStart, Dispatch, AudioBlock, GateStalls, KernelBankStalled, Go, Sees,
     Dispatched, Sounded, FrameTypeOK
<1>3. stalls' \in 0 .. MaxStalls
  BY DEF ColdStart, Dispatch, AudioBlock, GateStalls, KernelBankStalled, FrameTypeOK
<1>4. FrameTypeOK'
  BY <1>1, <1>2, <1>3 DEF FrameTypeOK
<1>5. \A d \in Consoles : Ran(d)' = Ran(d) /\ Len(dump[d])' = Len(dump[d])
  BY <1>1 DEF Ran
<1>6. Ticks'
  <2>1. \A d \in Consoles : bank'[d] = "boot" => bank[d] = "boot"
    BY <1>1
  <2> QED
    BY <1>1, <1>5, <2>1 DEF Ticks
<1>7. \A d \in Consoles : \A n : AsStock(d, n)' = AsStock(d, n) /\ Before(d, n)' = Before(d, n)
  BY <1>1 DEF AsStock, Before
<1>8. Lines'
  BY <1>1, <1>7 DEF Lines, Broken
<1>9. InRam'
  <2> SUFFICES ASSUME NEW d \in Consoles
               PROVE  /\ bank'[d] = "kernel" => ram'[d] = AsStock(d, Len(dump[d]) + 1)
                      /\ bank'[d] \notin {"boot", "kernel"} => ram'[d] = Before(d, Len(dump[d]) + 1)
    BY <1>1, <1>7 DEF InRam
  <2>1. CASE d = c /\ bank[c] = "boot"
    <3>1. Len(dump[c]) + 1 = 1
      BY <2>1 DEF Ticks
    <3> QED
      BY <1>1, <1>2, <2>1, <3>1 DEF Before
  <2>2. CASE d = c /\ bank[c] # "boot"
    BY <1>1, <1>2, <2>2 DEF InRam
  <2>3. CASE d # c
    BY <1>1, <1>2, <2>3 DEF InRam
  <2> QED
    BY <2>1, <2>2, <2>3
<1>10. Breaks'
  BY <1>1 DEF Breaks
<1> QED
  BY <1>4, <1>6, <1>8, <1>9, <1>10

LEMMA RanIsNat ==
  ASSUME NEW c \in Consoles, Len(dump[c]) \in Nat
  PROVE  Ran(c) = (IF bank[c] = "kernel" THEN Len(dump[c]) + 1 ELSE Len(dump[c])) /\ Ran(c) \in Nat
<1>1. CASE bank[c] = "kernel"
  BY <1>1 DEF Ran
<1>2. CASE bank[c] # "kernel"
  BY <1>2 DEF Ran
<1> QED
  BY <1>1, <1>2

(* A frame that runs is the stock frame of the tick's input.               *)
LEMMA RunStep ==
  ASSUME FrameInv, NEW c \in Consoles, GateRuns(c)
  PROVE  FrameInv'
<1> USE FrameAssumption DEF FrameInv
<1> DEFINE n == Len(dump[c]) + 1
<1>1. Ran(c) = Len(dump[c]) /\ n \in Nat /\ bank[c] = "gate" /\ dump[c] \in Seq(Game!Cells)
  BY DEF GateRuns, Ran, FrameTypeOK
<1>2. PICK tick \in Hands :
        /\ Ran(c) < Len(played) => tick = played[Ran(c) + 1]
        /\ played' = IF Ran(c) < Len(played) THEN played ELSE Append(played, tick)
        /\ Sees(c, Game!Logic(VOFCNT(ram[c]), tick))
  BY DEF GateRuns, Input
<1>3. /\ bank' = [bank EXCEPT ![c] = "kernel"]
      /\ UNCHANGED <<dump, stalls, broken>>
  BY DEF GateRuns, Go
<1>4. played \in Seq(Hands) /\ Len(played) \in Nat /\ Ran(c) <= Len(played)
  BY DEF FrameTypeOK, Ticks
<1>5. /\ played' \in Seq(Hands) /\ n <= Len(played') /\ played'[n] = tick
      /\ Len(played) <= Len(played')
      /\ \A i \in 1 .. Len(played) : played'[i] = played[i]
      /\ IF Ran(c) < Len(played) THEN played' = played ELSE Len(played') = n
  BY <1>1, <1>2, <1>4
<1>6. ram' = [ram EXCEPT ![c] = Game!StockFrame(ram[c], tick)]
  <2>1. ram[c] \in Game!Cells
    BY DEF FrameTypeOK
  <2> QED
    BY <1>2, <2>1, CountsAsStock DEF Sees, Game!StockFrame
<1>7. FrameTypeOK'
  <2>1. Game!StockFrame(ram[c], tick) \in Game!Cells
    BY StockCells DEF FrameTypeOK
  <2> QED
    BY <1>3, <1>5, <1>6, <2>1 DEF FrameTypeOK
<1>8. Ran(c)' = n /\ \A d \in Consoles \ {c} : Ran(d)' = Ran(d) /\ Ran(d) \in Nat
  <2>1. bank'[c] = "kernel" /\ dump' = dump /\ \A d \in Consoles \ {c} : bank'[d] = bank[d]
    BY <1>3 DEF FrameTypeOK
  <2>2. \A d \in Consoles : Len(dump[d]) \in Nat
    BY DEF FrameTypeOK
  <2>3. Ran(c)' = n
    BY <2>1 DEF Ran
  <2>4. ASSUME NEW d \in Consoles \ {c} PROVE Ran(d)' = Ran(d) /\ Ran(d) \in Nat
    <3>1. bank'[d] = bank[d] /\ dump'[d] = dump[d] /\ Len(dump[d]) \in Nat
      BY <2>1, <2>2
    <3>2. Ran(d)' = Len(dump'[d]) + (IF bank'[d] = "kernel" THEN 1 ELSE 0)
      BY DEF Ran
    <3>3. Ran(d)' = Ran(d)
      BY <3>1, <3>2 DEF Ran
    <3>4. Ran(d) \in Nat
      BY <3>1, RanIsNat
    <3> QED
      BY <3>3, <3>4
  <2> QED
    BY <2>3, <2>4
<1>9. Ticks'
  <2>1. \A d \in Consoles : Ran(d)' <= Len(played')
    BY <1>1, <1>4, <1>5, <1>8 DEF Ticks
  <2>2. \A d \in Consoles : bank'[d] = "boot" => dump'[d] = <<>>
    BY <1>3 DEF Ticks, FrameTypeOK
  <2>3. \E d \in Consoles : Ran(d)' = Len(played')
    <3>1. CASE Ran(c) < Len(played)
      <4>1. PICK d \in Consoles : Ran(d) = Len(played)
        BY DEF Ticks
      <4> QED
        BY <1>1, <1>4, <1>5, <1>8, <3>1, <4>1
    <3>2. CASE ~(Ran(c) < Len(played))
      BY <1>5, <1>8, <3>2
    <3> QED
      BY <3>1, <3>2
  <2> QED
    BY <2>1, <2>2, <2>3 DEF Ticks
<1>10. \A d \in Consoles, i \in Nat : Before(d, i)' = Before(d, i)
  BY <1>3 DEF Before
<1>n. n' = n /\ \A d \in Consoles : Len(dump[d])' = Len(dump[d])
  BY <1>3
<1>11. \A d \in Consoles, i \in 1 .. Len(played) : AsStock(d, i)' = AsStock(d, i)
  BY <1>5, <1>10, <1>4 DEF AsStock
<1>12. \A d \in Consoles : Len(dump[d]) \in Nat /\ Len(dump[d]) <= Len(played)
                          /\ DOMAIN dump[d] = 1 .. Len(dump[d])
  BY <1>4 DEF Ticks, Ran, FrameTypeOK
<1>13. Lines'
  <2>1. \A d \in Consoles : \A i \in DOMAIN dump[d] : AsStock(d, i)' = AsStock(d, i)
    BY <1>4, <1>11, <1>12
  <2> QED
    BY <1>3, <2>1 DEF Lines, Broken
<1>14. InRam'
  <2> SUFFICES ASSUME NEW d \in Consoles
               PROVE  /\ bank'[d] = "kernel" => ram'[d] = AsStock(d, Len(dump[d]) + 1)'
                      /\ bank'[d] \notin {"boot", "kernel"} => ram'[d] = Before(d, Len(dump[d]) + 1)'
    BY DEF InRam
  <2>1. CASE d = c
    <3>1. ram[c] = Before(c, n)
      BY <1>1 DEF InRam
    <3>2. AsStock(c, n)' = Game!StockFrame(Before(c, n), tick)
      <4>1. n \in Nat /\ played'[n] = tick /\ n' = n
        BY <1>1, <1>5, <1>n
      <4> HIDE DEF n
      <4>2. Before(c, n)' = Before(c, n)
        BY <1>10, <4>1 DEF Before
      <4> QED
        BY <4>1, <4>2 DEF AsStock
    <3>3. ram'[c] = Game!StockFrame(ram[c], tick) /\ bank'[c] = "kernel"
      BY <1>3, <1>6 DEF FrameTypeOK
    <3>4. AsStock(c, Len(dump[c]) + 1)' = AsStock(c, n)'
      BY <1>3
    <3> QED
      BY <2>1, <3>1, <3>2, <3>3, <3>4
  <2>2. CASE d # c
    <3>1. ram'[d] = ram[d] /\ bank'[d] = bank[d]
      BY <1>3, <1>6, <2>2 DEF FrameTypeOK
    <3>2. bank[d] = "kernel" => Len(dump[d]) + 1 \in 1 .. Len(played)
      <4>1. ASSUME bank[d] = "kernel" PROVE Ran(d) = Len(dump[d]) + 1
        BY <4>1 DEF Ran
      <4>2. Ran(d) <= Len(played)
        BY DEF Ticks
      <4> QED
        BY <1>4, <1>12, <4>1, <4>2
    <3>3. Before(d, Len(dump[d]) + 1)' = Before(d, Len(dump[d]) + 1)
      BY <1>3 DEF Before
    <3>4. bank[d] = "kernel" => AsStock(d, Len(dump[d]) + 1)' = AsStock(d, Len(dump[d]) + 1)
      <4> DEFINE m == Len(dump[d]) + 1
      <4>1. m' = m
        BY <1>3
      <4>2. bank[d] = "kernel" => played'[m] = played[m]
        BY <1>5, <3>2
      <4> QED
        BY <3>3, <4>1, <4>2 DEF AsStock
    <3> QED
      BY <3>1, <3>3, <3>4 DEF InRam
  <2> QED
    BY <2>1, <2>2
<1>15. Breaks'
  BY <1>3 DEF Breaks
<1> QED
  BY <1>7, <1>9, <1>13, <1>14, <1>15

(* The kernel bank prints what is in RAM, broken or not.                   *)
LEMMA PrintStep ==
  ASSUME FrameInv, NEW c \in Consoles, KernelBank(c)
  PROVE  FrameInv'
<1> USE FrameAssumption DEF FrameInv
<1> DEFINE n == Len(dump[c]) + 1
<1>1. /\ bank[c] = "kernel" /\ dump[c] \in Seq(Game!Cells) /\ ram[c] \in Game!Cells
      /\ bank' = [bank EXCEPT ![c] = "entry"] /\ UNCHANGED <<played, stalls>>
  BY DEF KernelBank, Go, FrameTypeOK
<1>2. PICK breaks \in (IF c = 1 /\ Len(broken) < MaxBroken THEN BOOLEAN ELSE {FALSE}) :
        LET cells == IF breaks THEN Nudged(ram[c]) ELSE ram[c]
        IN  /\ Sees(c, cells) /\ dump' = [dump EXCEPT ![c] = Append(@, cells)]
            /\ broken' = IF breaks THEN Append(broken, Ran(c)) ELSE broken
  BY DEF KernelBank
<1>3. breaks \in BOOLEAN /\ (breaks => c = 1)
  OBVIOUS
<1> DEFINE cells == IF breaks THEN Nudged(ram[c]) ELSE ram[c]
<1>4. Len(dump[c]) \in Nat /\ n \in Nat /\ Ran(c) = n /\ n <= Len(played)
  BY <1>1, RanIsNat DEF Ticks
<1>5. cells \in Game!Cells
  BY <1>1, NudgedCells
<1>6. /\ ram' = [ram EXCEPT ![c] = cells]
      /\ dump' = [dump EXCEPT ![c] = Append(dump[c], cells)]
      /\ broken' = IF breaks THEN Append(broken, n) ELSE broken
  BY <1>2, <1>4 DEF Sees
<1> HIDE DEF cells, n
<1>7. FrameTypeOK'
  <2>1. Append(dump[c], cells) \in Seq(Game!Cells) /\ broken' \in Seq(Nat)
    BY <1>1, <1>4, <1>5, <1>6 DEF FrameTypeOK
  <2> QED
    BY <1>1, <1>5, <1>6, <2>1 DEF FrameTypeOK
<1>8. /\ dump'[c] \in Seq(Game!Cells) /\ Len(dump'[c]) = n /\ dump'[c][n] = cells
      /\ DOMAIN dump'[c] = 1 .. n
      /\ \A i \in 1 .. Len(dump[c]) : dump'[c][i] = dump[c][i]
  <2>1. dump'[c] = Append(dump[c], cells)
    BY <1>6 DEF FrameTypeOK
  <2> QED
    BY <1>1, <1>5, <2>1 DEF n
<1>9. \A d \in Consoles \ {c} : dump'[d] = dump[d] /\ ram'[d] = ram[d] /\ bank'[d] = bank[d]
  BY <1>1, <1>6 DEF FrameTypeOK
<1>10. \A d \in Consoles : Ran(d)' = Ran(d)
  <2>1. Ran(c)' = n
    BY <1>1, <1>8 DEF Ran, FrameTypeOK
  <2>2. ASSUME NEW d \in Consoles \ {c} PROVE Ran(d)' = Ran(d)
    BY <1>9 DEF Ran
  <2> QED
    BY <1>4, <2>1, <2>2
<1>11. Ticks'
  <2>1. \A d \in Consoles : bank'[d] = "boot" => dump'[d] = <<>>
    BY <1>1, <1>9 DEF Ticks, FrameTypeOK
  <2> QED
    BY <1>1, <1>10, <2>1 DEF Ticks
<1>12. \A i \in 1 .. n : Before(c, i)' = Before(c, i) /\ AsStock(c, i)' = AsStock(c, i)
  <2> SUFFICES ASSUME NEW i \in 1 .. n PROVE Before(c, i)' = Before(c, i) /\ AsStock(c, i)' = AsStock(c, i)
    OBVIOUS
  <2>1. Before(c, i)' = Before(c, i)
    BY <1>4, <1>8 DEF Before, n
  <2> QED
    BY <1>1, <2>1 DEF AsStock
<1>13. \A d \in Consoles \ {c} : \A i \in Nat :
         Before(d, i)' = Before(d, i) /\ AsStock(d, i)' = AsStock(d, i)
  BY <1>1, <1>9 DEF Before, AsStock
<1>14. ram[c] = AsStock(c, n)
  BY <1>1 DEF InRam, n
<1>15. Broken' = (IF breaks THEN Broken \cup {n} ELSE Broken)
  <2>1. CASE breaks
    <3>1. broken \in Seq(Nat) /\ broken' = Append(broken, n)
      BY <1>6, <2>1 DEF FrameTypeOK
    <3>2. /\ DOMAIN broken' = 1 .. Len(broken) + 1 /\ broken'[Len(broken) + 1] = n
          /\ DOMAIN broken = 1 .. Len(broken) /\ Len(broken) \in Nat
          /\ \A i \in 1 .. Len(broken) : broken'[i] = broken[i]
      BY <1>4, <3>1
    <3>3. \A x : x \in Broken' <=> x \in Broken \cup {n}
      BY <3>2 DEF Broken
    <3> QED
      BY <2>1, <3>3
  <2>2. CASE ~breaks
    BY <1>6, <2>2 DEF Broken
  <2> QED
    BY <2>1, <2>2
<1>16. \A d \in Consoles : DOMAIN dump[d] = 1 .. Len(dump[d]) /\ Len(dump[d]) \in Nat
  BY DEF FrameTypeOK
<1>17. Broken \subseteq DOMAIN dump[1]
  BY DEF Lines, Broken
<1>18. Lines'
  <2>1. ASSUME NEW d \in Consoles, NEW i \in DOMAIN dump'[d]
        PROVE  dump'[d][i] = IF d = 1 /\ i \in Broken' THEN Nudged(AsStock(d, i)') ELSE AsStock(d, i)'
    <3>1. CASE d = c /\ i = n
      <4>1. AsStock(d, i)' = ram[c] /\ dump'[d][i] = cells
        BY <1>4, <1>8, <1>12, <1>14, <3>1
      <4>2. c = 1 => n \notin Broken
        BY <1>4, <1>16, <1>17 DEF n
      <4>3. (d = 1 /\ i \in Broken') <=> breaks
        BY <1>3, <1>15, <3>1, <4>2
      <4> QED
        BY <4>1, <4>3 DEF cells
    <3>2. CASE d = c /\ i # n
      <4>1. i \in 1 .. Len(dump[c]) /\ i \in 1 .. n
        BY <1>4, <1>8, <3>2 DEF n
      <4>2. dump'[d][i] = dump[d][i] /\ AsStock(d, i)' = AsStock(d, i)
        BY <1>8, <1>12, <3>2, <4>1
      <4>3. i \in Broken' <=> i \in Broken
        BY <1>15, <3>2
      <4>4. i \in DOMAIN dump[d]
        BY <1>16, <3>2, <4>1
      <4> QED
        BY <4>2, <4>3, <4>4 DEF Lines
    <3>3. CASE d # c
      <4>1. i \in Nat /\ dump'[d] = dump[d]
        BY <1>9, <1>16, <3>3
      <4>2. AsStock(d, i)' = AsStock(d, i)
        BY <1>13, <3>3, <4>1
      <4>3. d = 1 => Broken' = Broken
        BY <1>3, <1>15, <3>3
      <4> QED
        BY <4>1, <4>2, <4>3 DEF Lines
    <3> QED
      BY <3>1, <3>2, <3>3
  <2>2. Broken' \subseteq DOMAIN dump'[1]
    <3>1. 1 \in Consoles
      BY DEF Consoles
    <3>2. CASE c = 1
      BY <1>4, <1>8, <1>15, <1>16, <1>17, <3>1, <3>2 DEF n
    <3>3. CASE c # 1
      BY <1>3, <1>9, <1>15, <1>17, <3>1, <3>3
    <3> QED
      BY <3>2, <3>3
  <2>3. \A i \in DOMAIN broken' : broken'[i] \in DOMAIN dump'[1]
    BY <2>2 DEF Broken
  <2> QED
    BY <2>1, <2>3 DEF Lines
<1>19. InRam'
  <2> SUFFICES ASSUME NEW d \in Consoles
               PROVE  /\ bank'[d] = "kernel" => ram'[d] = AsStock(d, Len(dump[d]) + 1)'
                      /\ bank'[d] \notin {"boot", "kernel"} => ram'[d] = Before(d, Len(dump[d]) + 1)'
    BY DEF InRam
  <2>1. CASE d = c
    <3>1. bank'[c] = "entry" /\ ram'[c] = cells
      BY <1>1, <1>6 DEF FrameTypeOK
    <3>2. n + 1 # 1 /\ (n + 1) - 1 = n
      BY <1>4 DEF n
    <3>3. Before(c, Len(dump[c]) + 1)' = dump'[c][n]
      BY <1>8, <3>2 DEF Before
    <3> QED
      BY <1>8, <2>1, <3>1, <3>3
  <2>2. CASE d # c
    <3>1. Len(dump[d])' = Len(dump[d]) /\ Len(dump[d]) + 1 \in Nat
      BY <1>9, <1>16, <2>2
    <3>2. dump'[d] = dump[d] /\ ram'[d] = ram[d] /\ bank'[d] = bank[d] /\ played' = played
      BY <1>1, <1>9, <2>2
    <3>3. /\ AsStock(d, Len(dump[d]) + 1)' = AsStock(d, Len(dump[d]) + 1)
          /\ Before(d, Len(dump[d]) + 1)' = Before(d, Len(dump[d]) + 1)
      BY <3>2 DEF AsStock, Before
    <3> QED
      BY <3>2, <3>3 DEF InRam
  <2> QED
    BY <2>1, <2>2
<1>20. Breaks'
  <2>1. CASE breaks
    <3>1. broken \in Seq(Nat) /\ Len(broken) < MaxBroken /\ broken' = Append(broken, n)
      BY <1>2, <1>3, <1>6, <2>1 DEF FrameTypeOK
    <3>2. /\ DOMAIN broken' = 1 .. Len(broken) + 1 /\ broken'[Len(broken) + 1] = n
          /\ DOMAIN broken = 1 .. Len(broken) /\ Len(broken) \in Nat
          /\ Len(broken') = Len(broken) + 1
          /\ \A i \in 1 .. Len(broken) : broken'[i] = broken[i]
      BY <1>4, <3>1
    <3>3. \A i \in DOMAIN broken : broken[i] < n
      <4>1. c = 1
        BY <1>3, <2>1
      <4>2. DOMAIN dump[1] = 1 .. Len(dump[1]) /\ n = Len(dump[1]) + 1 /\ Len(dump[1]) \in Nat
        BY <1>4, <1>16, <4>1 DEF n
      <4>3. \A i \in DOMAIN broken : broken[i] \in DOMAIN dump[1]
        BY <1>17, Zenon DEF Broken
      <4> QED
        BY <4>2, <4>3
    <3>4. ASSUME NEW i \in DOMAIN broken', NEW j \in DOMAIN broken', i < j
          PROVE  broken'[i] < broken'[j]
      <4>1. i \in 1 .. Len(broken) /\ (j \in 1 .. Len(broken) \/ j = Len(broken) + 1)
        BY <3>2, <3>4
      <4> QED
        BY <3>2, <3>3, <3>4, <4>1 DEF Breaks
    <3>5. Len(broken') <= MaxBroken
      BY <3>1, <3>2, JudgeAssumption
    <3> QED
      BY <3>4, <3>5 DEF Breaks
  <2>2. CASE ~breaks
    BY <1>6, <2>2 DEF Breaks
  <2> QED
    BY <2>1, <2>2
<1> QED
  BY <1>7, <1>11, <1>18, <1>19, <1>20

LEMMA FrameInductive == FrameInv /\ [FrameNext]_fvars => FrameInv'
<1> SUFFICES ASSUME FrameInv, [FrameNext]_fvars PROVE FrameInv'
  OBVIOUS
<1>1. CASE FrameNext
  BY <1>1, QuietStep, RunStep, PrintStep DEF FrameNext
<1>2. CASE UNCHANGED fvars
  <2>1. FrameTypeOK' /\ Ticks'
    BY <1>2 DEF fvars, FrameInv, FrameTypeOK, Ticks, Ran
  <2>2. Broken' = Broken /\ dump' = dump /\ ram' = ram /\ bank' = bank /\ broken' = broken
    BY <1>2 DEF fvars, Broken
  <2>3. \A c, n : AsStock(c, n)' = AsStock(c, n) /\ Before(c, n)' = Before(c, n)
    BY <1>2 DEF fvars, AsStock, Before
  <2>4. Lines'
    BY <2>2, <2>3 DEF FrameInv, Lines
  <2>5. InRam'
    BY <2>2, <2>3 DEF FrameInv, InRam
  <2>6. Breaks'
    BY <2>2 DEF FrameInv, Breaks
  <2> QED
    BY <2>1, <2>4, <2>5, <2>6 DEF FrameInv
<1> QED
  BY <1>1, <1>2

(* The inductive invariant of the frame.                                   *)
THEOREM FrameInvariance == FrameSpec => []FrameInv
BY FrameInductive, FrameInitInv, PTL DEF FrameSpec

(* FollowsStock: whatever frames stall, the second console, which nobody   *)
(* breaks, goes through the frames of the 1977 game, and its cells change  *)
(* at no other moment.                                                     *)
THEOREM PlaysAsStock == FrameSpec => FollowsStock
<1> DEFINE cells == IF bank[2] = "boot" THEN VOSCLR ELSE ram[2]
           frames == Len(dump[2]) + (IF bank[2] = "kernel" THEN 1 ELSE 0)
<1>0. 2 \in Consoles
  BY DEF Consoles
<1>1. FrameInit => Game!Init
  BY <1>0, ClearedCells DEF FrameInit, Game!Init
<1>2. FrameInv /\ [FrameNext]_fvars => [Game!Next]_(Game!svars)
  <2> SUFFICES ASSUME FrameInv, [FrameNext]_fvars
               PROVE  Game!Next \/ (cells' = cells /\ frames' = frames)
    BY DEF Game!svars
  <2>1. ASSUME NEW c \in Consoles, c # 2,
               \/ ColdStart(c) \/ Dispatch(c) \/ AudioBlock(c)
               \/ GateRuns(c) \/ GateStalls(c) \/ KernelBank(c) \/ KernelBankStalled(c)
        PROVE  cells' = cells /\ frames' = frames
    <3>1. bank'[2] = bank[2]
      BY <1>0, <2>1 DEF ColdStart, Dispatch, AudioBlock, GateRuns, GateStalls, KernelBank, KernelBankStalled, Go,
         FrameInv, FrameTypeOK
    <3>2. ram'[2] = ram[2]
      BY <1>0, <2>1 DEF ColdStart, Dispatch, AudioBlock, GateRuns, GateStalls, KernelBank, KernelBankStalled, Sees,
         FrameInv, FrameTypeOK
    <3>3. dump'[2] = dump[2]
      BY <1>0, <2>1 DEF ColdStart, Dispatch, AudioBlock, GateRuns, GateStalls, KernelBank, KernelBankStalled,
         FrameInv, FrameTypeOK
    <3> QED
      BY <3>1, <3>2, <3>3
  <2>2. ASSUME ColdStart(2) \/ Dispatch(2) \/ AudioBlock(2) \/ GateStalls(2) \/ KernelBankStalled(2)
        PROVE  cells' = cells /\ frames' = frames
    <3>1. dump' = dump /\ bank[2] # "kernel" /\ bank'[2] \notin {"boot", "kernel"}
      BY <1>0, <2>2 DEF ColdStart, Dispatch, AudioBlock, GateStalls, KernelBankStalled, Go, FrameInv, FrameTypeOK
    <3>2. ram'[2] = cells
      BY <1>0, <2>2 DEF ColdStart, Dispatch, AudioBlock, GateStalls, KernelBankStalled, Sees, Dispatched, Sounded,
         FrameInv, FrameTypeOK
    <3> QED
      BY <3>1, <3>2
  <2>3. ASSUME GateRuns(2) PROVE Game!Next
    <3>1. PICK tick \in Hands : Sees(2, Game!Logic(VOFCNT(ram[2]), tick))
      BY <2>3 DEF GateRuns, Input
    <3>2. ram[2] \in Game!Cells /\ Len(dump[2]) \in Nat
      BY <1>0 DEF FrameInv, FrameTypeOK
    <3>3. ram'[2] = Game!StockFrame(ram[2], tick)
      BY <1>0, <3>1, <3>2, CountsAsStock DEF Sees, Game!StockFrame, FrameInv, FrameTypeOK
    <3>4. bank[2] = "gate" /\ bank'[2] = "kernel" /\ dump' = dump
      BY <1>0, <2>3 DEF GateRuns, Go, FrameInv, FrameTypeOK
    <3>5. cells' = Game!StockFrame(cells, tick) /\ frames' = frames + 1
      BY <3>2, <3>3, <3>4
    <3> QED
      BY <3>5 DEF Game!Next, Game!Frame
  <2>4. ASSUME KernelBank(2) PROVE cells' = cells /\ frames' = frames
    <3>1. /\ bank[2] = "kernel" /\ bank'[2] = "entry" /\ ram'[2] = ram[2]
          /\ dump'[2] = Append(dump[2], ram[2])
      BY <1>0, <2>4 DEF KernelBank, Go, Sees, FrameInv, FrameTypeOK
    <3>2. dump[2] \in Seq(Game!Cells) /\ ram[2] \in Game!Cells
      BY <1>0 DEF FrameInv, FrameTypeOK
    <3>3. Len(dump'[2]) = Len(dump[2]) + 1 /\ Len(dump[2]) \in Nat
      BY <3>1, <3>2
    <3> QED
      BY <3>1, <3>3
  <2>5. CASE UNCHANGED fvars
    BY <2>5 DEF fvars
  <2> QED
    BY <2>1, <2>2, <2>3, <2>4, <2>5 DEF FrameNext
<1> QED
  BY <1>1, <1>2, FrameInvariance, PTL DEF FrameSpec, FollowsStock, Game!Spec

(* The recursive function of StockRun, once there is one.                  *)
LEMMA StockRunIs ==
  ASSUME NEW w, w = [n \in 0 .. Len(played) |->
                       IF n = 0 THEN Game!Cleared ELSE Game!StockFrame(w[n - 1], played[n])]
  PROVE  \E f : /\ f = [n \in 0 .. Len(played) |->
                        IF n = 0 THEN Game!Cleared ELSE Game!StockFrame(f[n - 1], played[n])]
                /\ StockRun = [n \in 1 .. Len(played) |-> f[n]]
<1> DEFINE f == CHOOSE g : g = [n \in 0 .. Len(played) |->
                 IF n = 0 THEN Game!Cleared ELSE Game!StockFrame(g[n - 1], played[n])]
<1>1. f = [n \in 0 .. Len(played) |->
                 IF n = 0 THEN Game!Cleared ELSE Game!StockFrame(f[n - 1], played[n])]
  OBVIOUS
<1>2. StockRun = [n \in 1 .. Len(played) |-> f[n]]
  BY DEF StockRun
<1> QED
  BY <1>1, <1>2

LEMMA Smallest ==
  ASSUME NEW S, S \subseteq Nat, S # {}
  PROVE  \E n \in S : \A m \in S : n <= m
<1>1. PICK n \in S : \A m \in S : <<m, n>> \notin OpToRel(<, Nat)
  BY WFMin, NatLessThanWellFounded, Zenon
<1>2. \A x, y \in Nat : x < y => <<x, y>> \in OpToRel(<, Nat)
  BY Zenon DEF OpToRel
<1>3. \A m \in S : ~(m < n)
  BY <1>1, <1>2, Zenon
<1>4. n \in Nat /\ \A m \in S : m \in Nat
  BY Zenon
<1>5. \A m \in S : n <= m
  BY <1>3, <1>4
<1> QED
  BY <1>1, <1>5, Zenon

(* The first N frames of a run over the inputs.                            *)
IsRun(g, N) == \A n \in 1 .. N :
  g[n] = Game!StockFrame(IF n = 1 THEN VOSCLR ELSE g[n - 1], played[n])

(* Two runs over the same inputs are the same: there is no first frame     *)
(* after which they differ.                                                *)
LEMMA SameRun ==
  ASSUME NEW g, NEW h, NEW N \in Nat, IsRun(g, N), IsRun(h, N)
  PROVE  \A n \in 1 .. N : g[n] = h[n]
<1> DEFINE S == {n \in 1 .. N : g[n] # h[n]}
<1>1. SUFFICES ASSUME S # {} PROVE FALSE
  OBVIOUS
<1>2. S \subseteq Nat /\ S # {}
  BY <1>1
<1>3. PICK n \in S : \A m \in S : n <= m
  <2> HIDE DEF S
  <2> QED
    BY <1>2, Smallest, Zenon
<1>n. n \in 1 .. N /\ g[n] # h[n]
  BY <1>3
<1>4. CASE n = 1
  BY <1>n, <1>4 DEF IsRun
<1>5. CASE n # 1
  <2>1. n - 1 \in 1 .. N /\ ~(n <= n - 1)
    BY <1>n, <1>5
  <2>2. g[n - 1] = h[n - 1]
    BY <1>3, <2>1
  <2> QED
    BY <1>n, <1>5, <2>2 DEF IsRun
<1> QED
  BY <1>4, <1>5

(* With nothing broken, what a console printed is a run over the inputs,   *)
(* and so is what stock would have printed.                                *)
LEMMA PrintsTheRun ==
  ASSUME FrameInv, broken = <<>>
  PROVE  \A c \in Consoles :
           /\ Len(dump[c]) \in 0 .. Len(played) /\ DOMAIN dump[c] = 1 .. Len(dump[c])
           /\ IsRun(dump[c], Len(dump[c]))
<1> TAKE c \in Consoles
<1>1. Len(dump[c]) \in Nat /\ DOMAIN dump[c] = 1 .. Len(dump[c]) /\ Len(played) \in Nat
  BY DEF FrameInv, FrameTypeOK
<1>2. Len(dump[c]) <= Len(played)
  BY <1>1, RanIsNat DEF FrameInv, Ticks
<1>3. Broken = {}
  BY DEF Broken
<1> QED
  BY <1>1, <1>2, <1>3 DEF FrameInv, Lines, AsStock, Before, IsRun

LEMMA StockPrintsTheRun ==
  ASSUME FrameInv, broken = <<>>
  PROVE  DOMAIN StockRun = 1 .. Len(played) /\ IsRun(StockRun, Len(played))
<1>1. PICK c \in Consoles : Ran(c) = Len(played)
  BY DEF FrameInv, Ticks
<1> DEFINE N == Len(dump[c])
           L == [n \in 1 .. Len(played) |-> IF n <= N THEN dump[c][n] ELSE ram[c]]
           w == [n \in 0 .. Len(played) |-> IF n = 0 THEN Game!Cleared ELSE L[n]]
<1>2. /\ N \in Nat /\ Len(played) \in Nat
      /\ Len(played) = IF bank[c] = "kernel" THEN N + 1 ELSE N
  BY <1>1, RanIsNat DEF FrameInv, FrameTypeOK
<1>3. \A n \in 1 .. Len(played) :
        L[n] = Game!StockFrame(IF n = 1 THEN VOSCLR ELSE L[n - 1], played[n])
  <2> SUFFICES ASSUME NEW n \in 1 .. Len(played)
               PROVE  L[n] = Game!StockFrame(IF n = 1 THEN VOSCLR ELSE L[n - 1], played[n])
    OBVIOUS
  <2>1. (IF n = 1 THEN VOSCLR ELSE L[n - 1]) = Before(c, n)
    BY <1>2 DEF Before
  <2>2. CASE n <= N
    <3>1. n \in 1 .. N
      BY <1>2, <2>2
    <3> QED
      BY <2>1, <2>2, <3>1, PrintsTheRun DEF Before, IsRun
  <2>3. CASE ~(n <= N)
    <3>1. n = N + 1 /\ bank[c] = "kernel"
      BY <1>2, <2>3
    <3>2. ram[c] = AsStock(c, n)
      BY <3>1 DEF FrameInv, InRam
    <3> QED
      BY <2>1, <2>3, <3>2 DEF AsStock
  <2> QED
    BY <2>2, <2>3
<1>4. w = [n \in 0 .. Len(played) |->
             IF n = 0 THEN Game!Cleared ELSE Game!StockFrame(w[n - 1], played[n])]
  <2>1. \A n \in 0 .. Len(played) :
          w[n] = IF n = 0 THEN Game!Cleared ELSE Game!StockFrame(w[n - 1], played[n])
    <3>1. ASSUME NEW n \in 1 .. Len(played) PROVE w[n] = Game!StockFrame(w[n - 1], played[n])
      <4>1. n \in 0 .. Len(played) /\ n - 1 \in 0 .. Len(played) /\ n # 0
        BY <1>2
      <4>2. w[n - 1] = (IF n = 1 THEN VOSCLR ELSE L[n - 1]) /\ w[n] = L[n]
        BY <1>2, <4>1, ClearedCells
      <4> QED
        BY <1>3, <4>2
    <3>2. 0 \in 0 .. Len(played) /\ w[0] = Game!Cleared
      BY <1>2
    <3>3. \A n \in 0 .. Len(played) : n # 0 => n \in 1 .. Len(played)
      BY <1>2
    <3> HIDE DEF w
    <3> QED
      BY <3>1, <3>2, <3>3
  <2>2. w = [n \in 0 .. Len(played) |-> w[n]]
    OBVIOUS
  <2> HIDE DEF w
  <2> QED
    BY <2>1, <2>2
<1>5. PICK f : /\ f = [n \in 0 .. Len(played) |->
                      IF n = 0 THEN Game!Cleared ELSE Game!StockFrame(f[n - 1], played[n])]
               /\ StockRun = [n \in 1 .. Len(played) |-> f[n]]
  BY <1>4, StockRunIs
<1>6. DOMAIN StockRun = 1 .. Len(played)
  BY <1>5
<1>7. ASSUME NEW n \in 1 .. Len(played)
      PROVE  StockRun[n] = Game!StockFrame(IF n = 1 THEN VOSCLR ELSE StockRun[n - 1], played[n])
  <2>1. n \in 0 .. Len(played) /\ n # 0 /\ StockRun[n] = f[n]
    BY <1>2, <1>5
  <2>2. f[n] = Game!StockFrame(f[n - 1], played[n])
    BY <1>5, <2>1
  <2>3. f[n - 1] = IF n = 1 THEN VOSCLR ELSE StockRun[n - 1]
    BY <1>2, <1>5, ClearedCells
  <2> QED
    BY <2>1, <2>2, <2>3
<1> QED
  BY <1>6, <1>7 DEF IsRun

LEMMA TwoDiffer ==
  ASSUME NEW a, NEW b, a # b
  PROVE  Cardinality({a} \cup {b}) = 2
<1>1. IsFiniteSet({a}) /\ Cardinality({a}) = 1
  BY FS_Singleton
<1>2. Cardinality({a} \cup {b}) = IF b \in {a} THEN Cardinality({a}) ELSE Cardinality({a}) + 1
  BY <1>1, FS_AddElement
<1> QED
  BY <1>1, <1>2

(* CorrectPairPasses: the judges of "make det" and "make rig-play" pass a  *)
(* pair nobody broke, whatever the two consoles stalled on.                *)
THEOREM JudgesPassThePair == FrameSpec => []CorrectPairPasses
<1>1. FrameInv => CorrectPairPasses
  <2> SUFFICES ASSUME FrameInv, broken = <<>>
               PROVE  /\ (\A c \in Consoles : dump[c] # <<>>) => Judges!PlayVerdict(dump[1], dump[2]) = 0
                      /\ \A c \in Consoles :
                           /\ Len(dump[c]) >= MinFrames
                           /\ \E t, u \in DOMAIN dump[c] : StockRun[t] # StockRun[u]
                           => Judges!RamVerdict(StockRun, dump[c]) = 0
    BY DEF CorrectPairPasses
  <2>1. ASSUME \A c \in Consoles : dump[c] # <<>>
        PROVE  Judges!PlayVerdict(dump[1], dump[2]) = 0
    <3> DEFINE N == IF Len(dump[1]) < Len(dump[2]) THEN Len(dump[1]) ELSE Len(dump[2])
    <3>1. 1 \in Consoles /\ 2 \in Consoles /\ Len(played) \in Nat
      BY DEF Consoles, FrameInv, FrameTypeOK
    <3>2. \A c \in Consoles : Len(dump[c]) \in Nat /\ DOMAIN dump[c] = 1 .. Len(dump[c]) /\ Len(dump[c]) # 0
      BY <2>1, <3>1, PrintsTheRun DEF FrameInv, FrameTypeOK
    <3>3. N \in Nat /\ DOMAIN dump[1] \cap DOMAIN dump[2] = 1 .. N
      BY <3>1, <3>2
    <3>4. IsRun(dump[1], N) /\ IsRun(dump[2], N)
      BY <3>1, <3>2, <3>3, PrintsTheRun DEF IsRun
    <3>5. \A n \in 1 .. N : dump[1][n] = dump[2][n]
      <4> HIDE DEF N
      <4> QED
        BY <3>3, <3>4, SameRun
    <3>6. Judges!Bad(dump[1], dump[2]) = {}
      BY <3>3, <3>5 DEF Judges!Bad, Judges!Common
    <3>7. DOMAIN dump[1] # {} /\ DOMAIN dump[2] # {}
      <4>1. \A m \in Nat : m # 0 => 1 \in 1 .. m
        OBVIOUS
      <4> QED
        BY <3>1, <3>2, <4>1
    <3> QED
      BY <3>6, <3>7 DEF Judges!PlayVerdict
  <2>2. ASSUME NEW c \in Consoles, Len(dump[c]) >= MinFrames,
               \E t, u \in DOMAIN dump[c] : StockRun[t] # StockRun[u]
        PROVE  Judges!RamVerdict(StockRun, dump[c]) = 0
    <3> DEFINE N == Len(dump[c])
               C == Judges!Common(StockRun, dump[c])
               T == {StockRun[t] : t \in C}
    <3>1. N \in Nat /\ DOMAIN dump[c] = 1 .. N /\ N <= Len(played) /\ Len(played) \in Nat
      BY PrintsTheRun DEF FrameInv, FrameTypeOK
    <3>2. C = 1 .. N
      BY <3>1, StockPrintsTheRun DEF Judges!Common
    <3>3. IsFiniteSet(C) /\ Cardinality(C) = N
      <4> HIDE DEF N, C
      <4>1. 1 \in Int /\ N \in Int /\ (IF 1 > N THEN 0 ELSE N - 1 + 1) = N
        BY <3>1
      <4> QED
        BY <3>2, <4>1, FS_Interval
    <3>4. \A n \in 1 .. N : StockRun[n] = dump[c][n]
      <4>1. N \in Nat /\ IsRun(StockRun, N) /\ IsRun(dump[c], N)
        BY <3>1, StockPrintsTheRun, PrintsTheRun DEF IsRun
      <4> HIDE DEF N
      <4> QED
        BY <4>1, SameRun
    <3>5. Judges!Bad(StockRun, dump[c]) = {}
      BY <3>2, <3>4 DEF Judges!Bad
    <3>6. Cardinality(T) \in Nat /\ Cardinality(T) >= 2
      <4>1. IsFiniteSet(T)
        <5> DEFINE f == [t \in C |-> StockRun[t]]
        <5>1. f \in Surjection(C, T)
          BY DEF Surjection
        <5> QED
          BY <3>3, <5>1, FS_Surjection
      <4>2. PICK t, u \in C : StockRun[t] # StockRun[u]
        BY <2>2, <3>1, <3>2
      <4>3. {StockRun[t]} \cup {StockRun[u]} \in SUBSET T
        BY <4>2
      <4>4. Cardinality({StockRun[t]} \cup {StockRun[u]}) = 2
        BY <4>2, TwoDiffer
      <4> HIDE DEF T
      <4> QED
        BY <4>1, <4>3, <4>4, FS_Subset, FS_CardinalityType
    <3>7. ~(Cardinality(C) < MinFrames) /\ ~(Cardinality(T) < 2)
      BY <2>2, <3>1, <3>3, <3>6, FrameAssumption
    <3>8. Judges!RamVerdict(StockRun, dump[c]) =
            IF \/ Cardinality(C) < MinFrames \/ Cardinality(T) < 2
               \/ Judges!Bad(StockRun, dump[c]) # {} THEN 1 ELSE 0
      BY DEF Judges!RamVerdict, Judges!Cardinality, Cardinality
    <3> HIDE DEF C, T
    <3> QED
      BY <3>5, <3>7, <3>8
  <2> QED
    BY <2>1, <2>2
<1> QED
  BY <1>1, FrameInvariance, PTL
-----------------------------------------------------------------------------
(* The repair judge.  Two states that are k breaks apart: the score tells  *)
(* them, and nothing the game decides by does.                             *)
Apart(k, s, t) == s.lo = t.lo /\ s.score = (t.score + k) % 3 /\ (k = 0 => s = t)

(* A restart brings them together, and no other frame does.                *)
LEMMA FrameKeepsApart ==
  ASSUME NEW s \in Game!Cells, NEW t \in Game!Cells, NEW k \in 0 .. 2, Apart(k, s, t), NEW hand
  PROVE  Apart(IF hand = "reset" THEN 0 ELSE k, Game!StockFrame(s, hand), Game!StockFrame(t, hand))
<1> USE FrameAssumption
<1> DEFINE u == Game!CountUp(Game!SoundDown(s))
           v == Game!CountUp(Game!SoundDown(t))
<1>1. /\ u.lo = v.lo /\ u.score = s.score /\ v.score = t.score /\ (k = 0 => u = v)
      /\ u \in [snd : {u.snd}, lo : {u.lo}, mid : {u.mid}, hi : {u.hi}, score : 0 .. 2]
      /\ v \in [snd : {v.snd}, lo : {v.lo}, mid : {v.mid}, hi : {v.hi}, score : 0 .. 2]
  BY DEF Apart, Game!CountUp, Game!SoundDown, Game!Cells
<1>2. Game!StockFrame(s, hand) = Game!Logic(u, hand) /\ Game!StockFrame(t, hand) = Game!Logic(v, hand)
  BY DEF Game!StockFrame
<1>3. u.score = (v.score + k) % 3
  BY <1>1 DEF Apart
<1> HIDE DEF u, v
<1>4. CASE hand = "reset"
  <2>1. Game!Logic(u, hand) = Game!Cleared /\ Game!Logic(v, hand) = Game!Cleared
    BY <1>4 DEF Game!Logic
  <2>2. Apart(0, Game!Cleared, Game!Cleared)
    BY DEF Apart, Game!Cleared
  <2> QED
    BY <1>2, <1>4, <2>1, <2>2
<1>5. CASE hand # "reset" /\ hand = "hit" /\ u.lo % 2 = 0
  <2> DEFINE Scored(x) == [x EXCEPT !.score = (@ + 1) % 3,
                             !.snd = CHOOSE b \in Beeps : (b % Mask = 0) = (x.score = 1)]
  <2>1. Game!Logic(u, hand) = Scored(u) /\ Game!Logic(v, hand) = Scored(v)
    BY <1>1, <1>5 DEF Game!Logic
  <2>2. \A x : /\ Scored(u).lo = u.lo /\ Scored(u).score = (u.score + 1) % 3
               /\ Scored(v).lo = v.lo /\ Scored(v).score = (v.score + 1) % 3
    BY <1>1
  <2>3. \A x, d \in 0 .. 2 : (((x + d) % 3) + 1) % 3 = (((x + 1) % 3) + d) % 3
    OBVIOUS
  <2>4. (u.score + 1) % 3 = (((v.score + 1) % 3) + k) % 3
    BY <1>1, <1>3, <2>3
  <2>5. k = 0 => Scored(u) = Scored(v)
    BY <1>1
  <2> HIDE DEF Scored
  <2> QED
    BY <1>1, <1>2, <1>5, <2>1, <2>2, <2>4, <2>5 DEF Apart
<1>6. CASE hand # "reset" /\ ~(hand = "hit" /\ u.lo % 2 = 0)
  <2>1. Game!Logic(u, hand) = u /\ Game!Logic(v, hand) = v
    BY <1>1, <1>6 DEF Game!Logic
  <2> QED
    BY <1>1, <1>2, <1>3, <1>6, <2>1 DEF Apart
<1> QED
  BY <1>4, <1>5, <1>6

(* A break takes them one further.                                         *)
LEMMA NudgeApart ==
  ASSUME NEW s \in Game!Cells, NEW t \in Game!Cells, NEW k \in 0 .. 1, Apart(k, s, t)
  PROVE  Apart(k + 1, Nudged(s), t)
<1>1. Nudged(s).lo = s.lo /\ Nudged(s).score = (s.score + 1) % 3
  BY DEF Nudged, Game!Cells
<1>2. \A x \in 0 .. 2, d \in 0 .. 1 : (((x + d) % 3) + 1) % 3 = (x + (d + 1)) % 3
  OBVIOUS
<1>3. t.score \in 0 .. 2
  BY DEF Game!Cells
<1>4. k + 1 # 0
  OBVIOUS
<1> QED
  BY <1>1, <1>2, <1>3, <1>4 DEF Apart

(* The i-th break has not been repaired at tick n; and how many have not.  *)
Live(i, n) ==
  i \in DOMAIN broken /\ broken[i] <= n /\ \A r \in broken[i] + 1 .. n : played[r] # "reset"
Off(n) == (IF Live(1, n) THEN 1 ELSE 0) + (IF Live(2, n) THEN 1 ELSE 0)

LEMMA BrokenFacts ==
  ASSUME FrameInv
  PROVE  /\ Len(broken) \in 0 .. 2 /\ DOMAIN broken = 1 .. Len(broken)
         /\ \A i \in DOMAIN broken : broken[i] \in Nat \ {0} /\ broken[i] \in DOMAIN dump[1]
         /\ \A i, j \in DOMAIN broken : i < j => broken[i] < broken[j]
<1>1. 1 \in Consoles
  BY DEF Consoles
<1>2. Len(broken) \in Nat /\ DOMAIN broken = 1 .. Len(broken) /\ \A i \in DOMAIN broken : broken[i] \in Nat
  BY DEF FrameInv, FrameTypeOK
<1>3. DOMAIN dump[1] = 1 .. Len(dump[1]) /\ Len(dump[1]) \in Nat
  BY <1>1 DEF FrameInv, FrameTypeOK
<1>4. \A i \in DOMAIN broken : broken[i] \in DOMAIN dump[1]
  BY DEF FrameInv, Lines
<1>5. \A i \in DOMAIN broken : broken[i] # 0
  BY <1>3, <1>4
<1> QED
  BY <1>2, <1>4, <1>5, JudgeAssumption DEF FrameInv, Breaks

LEMMA LiveStep ==
  ASSUME FrameInv, NEW i, NEW n \in Nat \ {0}
  PROVE  Live(i, n) <=> /\ i \in DOMAIN broken
                        /\ broken[i] = n \/ (Live(i, n - 1) /\ played[n] # "reset")
<1> SUFFICES ASSUME i \in DOMAIN broken
             PROVE  Live(i, n) <=> (broken[i] = n \/ (Live(i, n - 1) /\ played[n] # "reset"))
  BY DEF Live
<1>1. broken[i] \in Nat
  BY BrokenFacts
<1>2. CASE broken[i] >= n
  BY <1>1, <1>2 DEF Live
<1>3. CASE broken[i] < n
  <2>1. broken[i] + 1 .. n = (broken[i] + 1 .. n - 1) \cup {n}
    BY <1>1, <1>3
  <2> QED
    BY <1>1, <1>3, <2>1 DEF Live
<1> QED
  BY <1>1, <1>2, <1>3

LEMMA OffStep ==
  ASSUME FrameInv, NEW n \in Nat \ {0}
  PROVE  /\ Off(n) \in 0 .. 2 /\ Off(n - 1) \in 0 .. 2
         /\ Off(n) = (IF played[n] = "reset" THEN 0 ELSE Off(n - 1)) + (IF n \in Broken THEN 1 ELSE 0)
<1>1. \A i : i \in DOMAIN broken /\ broken[i] = n => ~Live(i, n - 1)
  BY BrokenFacts DEF Live
<1>2. \A i : i \in DOMAIN broken => i = 1 \/ i = 2
  BY BrokenFacts
<1>3. 1 \in DOMAIN broken /\ 2 \in DOMAIN broken => broken[1] # broken[2]
  BY BrokenFacts
<1>4. n \in Broken <=> \/ 1 \in DOMAIN broken /\ broken[1] = n
                       \/ 2 \in DOMAIN broken /\ broken[2] = n
  BY <1>2 DEF Broken
<1>5. \A i : Live(i, n) <=> /\ i \in DOMAIN broken
                            /\ broken[i] = n \/ (Live(i, n - 1) /\ played[n] # "reset")
  BY LiveStep
<1>6. \A i : Live(i, n - 1) => i \in DOMAIN broken
  BY DEF Live
<1> DEFINE L(i) == Live(i, n)
           P(i) == Live(i, n - 1)
<1>7. Off(n) = (IF L(1) THEN 1 ELSE 0) + (IF L(2) THEN 1 ELSE 0)
  BY DEF Off
<1>8. Off(n - 1) = (IF P(1) THEN 1 ELSE 0) + (IF P(2) THEN 1 ELSE 0)
  BY DEF Off
<1>9. /\ L(1) <=> 1 \in DOMAIN broken /\ (broken[1] = n \/ (P(1) /\ played[n] # "reset"))
      /\ L(2) <=> 2 \in DOMAIN broken /\ (broken[2] = n \/ (P(2) /\ played[n] # "reset"))
      /\ 1 \in DOMAIN broken /\ broken[1] = n => ~P(1)
      /\ 2 \in DOMAIN broken /\ broken[2] = n => ~P(2)
      /\ P(1) => 1 \in DOMAIN broken
      /\ P(2) => 2 \in DOMAIN broken
  BY <1>1, <1>5, <1>6
<1> HIDE DEF L, P
<1> QED
  BY <1>3, <1>4, <1>7, <1>8, <1>9

(* What the two consoles printed for a tick is as far apart as breaks have *)
(* not been repaired: there is no first tick of which that is not true.    *)
LEMMA DumpsApart ==
  ASSUME FrameInv, NEW N \in Nat, N <= Len(dump[1]), N <= Len(dump[2])
  PROVE  \A n \in 1 .. N : Apart(Off(n), dump[1][n], dump[2][n])
<1> DEFINE S == {n \in 1 .. N : ~Apart(Off(n), dump[1][n], dump[2][n])}
<1>1. SUFFICES ASSUME S # {} PROVE FALSE
  OBVIOUS
<1>2. S \subseteq Nat /\ S # {}
  BY <1>1
<1>3. PICK n \in S : \A m \in S : n <= m
  <2> HIDE DEF S
  <2> QED
    BY <1>2, Smallest, Zenon
<1>4. n \in 1 .. N /\ ~Apart(Off(n), dump[1][n], dump[2][n])
  BY <1>3
<1>5. /\ 1 \in Consoles /\ 2 \in Consoles
      /\ \A c \in Consoles : /\ dump[c] \in Seq(Game!Cells) /\ Len(dump[c]) \in Nat
                             /\ DOMAIN dump[c] = 1 .. Len(dump[c])
  BY DEF Consoles, FrameInv, FrameTypeOK
<1>6. n \in Nat \ {0} /\ n \in DOMAIN dump[1] /\ n \in DOMAIN dump[2]
  BY <1>4, <1>5
<1>7. Before(1, n) \in Game!Cells /\ Before(2, n) \in Game!Cells /\ Apart(Off(n - 1), Before(1, n), Before(2, n))
  <2>1. CASE n = 1
    <3>1. Before(1, n) = VOSCLR /\ Before(2, n) = VOSCLR
      BY <2>1 DEF Before
    <3>2. \A i : ~Live(i, 0)
      BY BrokenFacts DEF Live
    <3>3. Off(n - 1) = 0
      BY <2>1, <3>2 DEF Off
    <3>4. Apart(0, VOSCLR, VOSCLR)
      BY DEF Apart, VOSCLR
    <3> QED
      BY <3>1, <3>3, <3>4, ClearedCells
  <2>2. CASE n # 1
    <3>1. n - 1 \in 1 .. N /\ ~(n <= n - 1) /\ n - 1 \in 1 .. Len(dump[1]) /\ n - 1 \in 1 .. Len(dump[2])
      BY <1>4, <1>5, <2>2
    <3>2. Apart(Off(n - 1), dump[1][n - 1], dump[2][n - 1])
      BY <1>3, <3>1
    <3>3. dump[1][n - 1] \in Game!Cells /\ dump[2][n - 1] \in Game!Cells
      BY <1>5, <3>1
    <3> QED
      BY <2>2, <3>2, <3>3 DEF Before
  <2> QED
    BY <2>1, <2>2
<1> DEFINE k == IF played[n] = "reset" THEN 0 ELSE Off(n - 1)
<1>8. /\ Off(n) \in 0 .. 2 /\ Off(n - 1) \in 0 .. 2 /\ k \in 0 .. 2
      /\ Off(n) = k + (IF n \in Broken THEN 1 ELSE 0)
  <2>1. /\ Off(n) \in 0 .. 2 /\ Off(n - 1) \in 0 .. 2
        /\ Off(n) = k + (IF n \in Broken THEN 1 ELSE 0)
    BY <1>6, OffStep
  <2>2. k \in 0 .. 2
    BY <2>1
  <2> QED
    BY <2>1, <2>2
<1>9. AsStock(1, n) \in Game!Cells /\ AsStock(2, n) \in Game!Cells /\ Apart(k, AsStock(1, n), AsStock(2, n))
  BY <1>7, <1>8, StockCells, FrameKeepsApart DEF AsStock
<1>10. dump[2][n] = AsStock(2, n)
  BY <1>5, <1>6 DEF FrameInv, Lines
<1> HIDE DEF k
<1>11. CASE n \in Broken
  <2>1. dump[1][n] = Nudged(AsStock(1, n))
    BY <1>5, <1>6, <1>11 DEF FrameInv, Lines
  <2>2. k \in 0 .. 1 /\ Off(n) = k + 1
    BY <1>8, <1>11
  <2> QED
    BY <1>4, <1>9, <1>10, <2>1, <2>2, NudgeApart
<1>12. CASE n \notin Broken
  <2>1. dump[1][n] = AsStock(1, n)
    BY <1>5, <1>6, <1>12 DEF FrameInv, Lines
  <2>2. Off(n) = k
    BY <1>8, <1>12
  <2> QED
    BY <1>4, <1>9, <1>10, <2>1, <2>2
<1> QED
  BY <1>11, <1>12

(* What the judge sees of a pair: the common ticks, those that differ, and *)
(* the tail.                                                               *)
LEMMA JudgeSees ==
  ASSUME FrameInv
  PROVE  \E N \in Nat :
           /\ N <= Len(dump[1]) /\ N <= Len(dump[2])
           /\ N = Len(dump[1]) \/ N = Len(dump[2])
           /\ Judges!Common(dump[1], dump[2]) = 1 .. N
           /\ Cardinality(Judges!Common(dump[1], dump[2])) = N
           /\ Judges!Bad(dump[1], dump[2]) = {n \in 1 .. N : \E i \in DOMAIN broken : Live(i, n)}
           /\ Judges!Settled(dump[1], dump[2]) = {n \in 1 .. N : N - n < RECOVER_TAIL}
<1> DEFINE N == IF Len(dump[1]) < Len(dump[2]) THEN Len(dump[1]) ELSE Len(dump[2])
           C == Judges!Common(dump[1], dump[2])
<1>1. /\ 1 \in Consoles /\ 2 \in Consoles
      /\ \A c \in Consoles : /\ dump[c] \in Seq(Game!Cells) /\ Len(dump[c]) \in Nat
                             /\ DOMAIN dump[c] = 1 .. Len(dump[c])
  BY DEF Consoles, FrameInv, FrameTypeOK
<1>2. N \in Nat /\ N <= Len(dump[1]) /\ N <= Len(dump[2]) /\ (N = Len(dump[1]) \/ N = Len(dump[2]))
  BY <1>1
<1>3. C = 1 .. N
  BY <1>1 DEF Judges!Common
<1> HIDE DEF N, C
<1>4. Cardinality(C) = N
  <2>1. 1 \in Int /\ N \in Int /\ (IF 1 > N THEN 0 ELSE N - 1 + 1) = N
    BY <1>2
  <2> QED
    BY <1>3, <2>1, FS_Interval
<1>5. ASSUME NEW n \in 1 .. N
      PROVE  dump[1][n] # dump[2][n] <=> \E i \in DOMAIN broken : Live(i, n)
  <2>1. Apart(Off(n), dump[1][n], dump[2][n])
    BY <1>2, DumpsApart
  <2>2. Off(n) \in 0 .. 2 /\ (Off(n) = 0 <=> ~Live(1, n) /\ ~Live(2, n))
    BY DEF Off
  <2>3. (\E i \in DOMAIN broken : Live(i, n)) <=> Live(1, n) \/ Live(2, n)
    <3>1. \A i \in DOMAIN broken : i = 1 \/ i = 2
      BY BrokenFacts
    <3>2. \A i : Live(i, n) => i \in DOMAIN broken
      BY DEF Live
    <3> QED
      BY <3>1, <3>2
  <2>4. dump[1][n] = dump[2][n] <=> Off(n) = 0
    <3>1. dump[2][n].score \in 0 .. 2
      <4>1. n \in 1 .. Len(dump[2])
        BY <1>1, <1>2
      <4>2. dump[2][n] \in Game!Cells
        BY <1>1, <4>1
      <4> QED
        BY <4>2 DEF Game!Cells
    <3>2. \A x \in 0 .. 2, d \in 1 .. 2 : (x + d) % 3 # x
      OBVIOUS
    <3>3. Off(n) # 0 => dump[1][n].score # dump[2][n].score
      BY <2>1, <2>2, <3>1, <3>2 DEF Apart
    <3> QED
      BY <2>1, <3>3 DEF Apart
  <2> QED
    BY <2>2, <2>3, <2>4
<1>6. Judges!Bad(dump[1], dump[2]) = {n \in 1 .. N : \E i \in DOMAIN broken : Live(i, n)}
  BY <1>3, <1>5 DEF Judges!Bad, C
<1>7. Judges!Settled(dump[1], dump[2]) = {n \in 1 .. N : N - n < RECOVER_TAIL}
  <2>1. ASSUME NEW n \in 1 .. N
        PROVE  Cardinality({u \in C : u > n}) = N - n
    <3>1. {u \in C : u > n} = n + 1 .. N
      BY <1>2, <1>3
    <3>2. n + 1 \in Int /\ N \in Int /\ (IF n + 1 > N THEN 0 ELSE N - (n + 1) + 1) = N - n
      BY <1>2
    <3> QED
      BY <3>1, <3>2, FS_Interval
  <2>2. Judges!Settled(dump[1], dump[2]) = {n \in C : Cardinality({u \in C : u > n}) < RECOVER_TAIL}
    BY DEF Judges!Settled, C, Judges!Cardinality, Cardinality
  <2> QED
    BY <1>3, <2>1, <2>2
<1> QED
  BY <1>2, <1>3, <1>4, <1>6, <1>7 DEF C

(* The episode of the first divergent tick is there, it is the one the     *)
(* judge measures, and it is what it is taken for.                         *)
LEMMA FirstEpisode ==
  ASSUME NEW N \in Nat, NEW bad \in SUBSET (1 .. N), NEW lo \in bad, \A t \in bad : lo <= t
  PROVE  LET e == Judges!Earliest(Judges!Episodes(bad))
         IN  /\ e.lo = lo /\ e.hi \in bad /\ lo <= e.hi
             /\ \A t \in bad : t > e.hi => t - e.hi > GAP
             /\ \A t \in bad : t < e.hi => \E u \in bad : t < u /\ u - t <= GAP
<1> USE JudgeAssumption
<1>0. lo \in Nat /\ \A u \in bad : u \in Nat
  OBVIOUS
<1> DEFINE Tops == {m \in Nat : \A t \in bad : t <= m}
<1>1. PICK top \in Tops : \A m \in Tops : top <= m
  <2>1. Tops \subseteq Nat /\ N \in Tops
    OBVIOUS
  <2> HIDE DEF Tops
  <2> QED
    BY <2>1, Smallest, Zenon
<1>2. top \in bad
  <2> SUFFICES ASSUME top \notin bad PROVE FALSE
    OBVIOUS
  <2>1. top \in Nat /\ \A t \in bad : t < top /\ t \in Nat
    BY <1>1
  <2>2. top - 1 \in Tops
    BY <2>1
  <2> QED
    BY <1>1, <2>1, <2>2
<1> DEFINE Ends == {t \in bad : \A u \in bad : u > t => u - t > GAP}
<1>3. PICK hi \in Ends : \A t \in Ends : hi <= t
  <2>1. Ends \subseteq Nat /\ \A u \in bad : u <= top
    <3>1. \A u \in bad : u <= top
      BY <1>1
    <3>2. Ends \subseteq bad
      OBVIOUS
    <3> QED
      BY <1>0, <3>1, <3>2
  <2>2. top \in Ends
    <3>1. \A u \in bad : ~(u > top)
      BY <1>0, <1>2, <2>1
    <3> QED
      BY <1>2, <3>1
  <2> HIDE DEF Ends, Tops
  <2> QED
    BY <2>1, <2>2, Smallest, Zenon
<1>4. hi \in bad /\ lo <= hi /\ \A t \in bad : t > hi => t - hi > GAP
  BY <1>3
<1>5. ASSUME NEW t \in bad, t < hi PROVE \E u \in bad : t < u /\ u - t <= GAP
  <2>1. t \notin Ends
    BY <1>3, <1>5
  <2> QED
    BY <2>1
<1> DEFINE E == Judges!Episodes(bad)
           e0 == [lo |-> lo, hi |-> hi]
<1>6. e0 \in E
  BY <1>4, <1>5 DEF Judges!Episodes
<1>7. \A f \in E : f.lo \in bad /\ f.hi \in bad /\ lo <= f.lo
  BY DEF Judges!Episodes
<1>8. PICK e \in E : e = Judges!Earliest(E) /\ \A f \in E : e.lo <= f.lo
  <2>1. e0 \in E /\ \A f \in E : e0.lo <= f.lo
    BY <1>6, <1>7
  <2> HIDE DEF E, e0
  <2> QED
    BY <2>1 DEF Judges!Earliest
<1>9. e.lo = lo
  <2>1. e.lo <= lo /\ lo <= e.lo /\ e.lo \in bad
    BY <1>6, <1>7, <1>8
  <2>2. e.lo \in Nat
    BY <1>0, <2>1
  <2> HIDE DEF E, e0
  <2> QED
    BY <1>0, <2>1, <2>2
<1>10. /\ e.hi \in bad /\ lo <= e.hi
       /\ \A t \in bad : t > e.hi => t - e.hi > GAP
       /\ \A t \in bad : t < e.hi => \E u \in bad : t < u /\ u - t <= GAP
  BY <1>8, <1>9 DEF Judges!Episodes
<1> QED
  BY <1>8, <1>9, <1>10

(* PassMeansRepaired: a run the repair judge passes was broken, a restart  *)
(* brought the consoles together within the bound, and every later break   *)
(* was repaired in the same way before the tail.                           *)
THEOREM PassTellsOfRepair == FrameSpec => []PassMeansRepaired
<1>1. FrameInv => PassMeansRepaired
  <2> SUFFICES ASSUME FrameInv, Judges!RepairVerdict(dump[1], dump[2]) = 0
               PROVE  /\ broken # <<>>
                      /\ \E r \in RepairAfter(broken[1]) : r <= broken[1] + REPAIR_BOUND
                      /\ \A i \in DOMAIN broken : broken[i] <= Len(dump[2]) =>
                           \E r \in RepairAfter(broken[i]) :
                              r + RECOVER_TAIL <= Cardinality(Judges!Common(dump[1], dump[2])) + 1
    BY DEF PassMeansRepaired
  <2> USE JudgeAssumption
  <2> DEFINE bad == Judges!Bad(dump[1], dump[2])
             e == Judges!Earliest(Judges!Episodes(bad))
  <2>1. /\ bad # {}
        /\ \A t \in Judges!Settled(dump[1], dump[2]) : dump[1][t] = dump[2][t]
        /\ ~(e.hi - e.lo + 1 > REPAIR_BOUND)
    BY DEF Judges!RepairVerdict
  <2>2. PICK N \in Nat :
           /\ N <= Len(dump[1]) /\ N <= Len(dump[2])
           /\ N = Len(dump[1]) \/ N = Len(dump[2])
           /\ Judges!Common(dump[1], dump[2]) = 1 .. N
           /\ Cardinality(Judges!Common(dump[1], dump[2])) = N
           /\ bad = {n \in 1 .. N : \E i \in DOMAIN broken : Live(i, n)}
           /\ Judges!Settled(dump[1], dump[2]) = {n \in 1 .. N : N - n < RECOVER_TAIL}
    BY JudgeSees
  <2>3. \A n \in bad : N - n >= RECOVER_TAIL
    BY <2>1, <2>2 DEF Judges!Bad, Judges!Common
  <2>4. Len(played) \in Nat /\ N <= Len(played)
    <3>1. 1 \in Consoles /\ 2 \in Consoles /\ Len(dump[1]) \in Nat /\ Len(dump[2]) \in Nat
      BY DEF Consoles, FrameInv, FrameTypeOK
    <3>2. Len(played) \in Nat /\ Len(dump[1]) <= Ran(1) /\ Ran(1) <= Len(played) /\ Ran(1) \in Nat
      BY <3>1, RanIsNat DEF FrameInv, FrameTypeOK, Ticks
    <3> QED
      BY <2>2, <3>1, <3>2
  <2> HIDE DEF bad, e
  <2>5. 1 \in DOMAIN broken /\ broken # <<>>
    <3>1. PICK i \in DOMAIN broken : TRUE
      BY <2>1, <2>2
    <3>2. DOMAIN broken # {} /\ DOMAIN broken = 1 .. Len(broken) /\ Len(broken) \in Nat
      BY <3>1, BrokenFacts
    <3> QED
      BY <3>2
  <2> DEFINE lo == broken[1]
  <2>6. lo \in Nat \ {0} /\ \A i \in DOMAIN broken : broken[i] \in Nat \ {0} /\ lo <= broken[i]
    <3>1. \A i \in DOMAIN broken : i = 1 \/ 1 < i
      BY BrokenFacts
    <3> QED
      BY <2>5, <3>1, BrokenFacts
  <2>7. lo \in bad /\ \A t \in bad : lo <= t /\ t \in Nat
    <3>1. ASSUME NEW t \in bad PROVE t \in 1 .. N /\ lo <= t
      <4>1. PICK i \in DOMAIN broken : Live(i, t)
        BY <2>2
      <4> QED
        BY <2>2, <2>6, <4>1 DEF Live
    <3>2. PICK t \in bad : TRUE
      BY <2>1
    <3>3. lo \in 1 .. N
      BY <2>6, <3>1
    <3>4. Live(1, lo)
      BY <2>5, <2>6 DEF Live
    <3> QED
      BY <2>2, <2>5, <3>1, <3>3, <3>4
  <2>8. /\ e.lo = lo /\ e.hi \in bad /\ lo <= e.hi
        /\ \A t \in bad : t > e.hi => t - e.hi > GAP
    <3>1. bad \in SUBSET (1 .. N)
      BY <2>2
    <3> QED
      BY <2>7, <3>1, FirstEpisode DEF e
  <2>9. \E r \in RepairAfter(lo) : r <= lo + REPAIR_BOUND
    <3> DEFINE r == e.hi + 1
    <3>1. e.hi \in Nat \ {0} /\ N - e.hi >= RECOVER_TAIL /\ e.hi \in 1 .. N
      BY <2>2, <2>3, <2>8
    <3>2. r \in 1 .. N /\ r \notin bad
      <4>1. r > e.hi /\ ~(r - e.hi > GAP) /\ r \in 1 .. N
        BY <3>1
      <4> QED
        BY <2>8, <4>1
    <3>3. PICK i \in DOMAIN broken : Live(i, e.hi)
      BY <2>2, <2>8
    <3>4. ~Live(i, r)
      BY <2>2, <3>2
    <3>5. played[r] = "reset"
      <4>1. r \in Nat \ {0} /\ r - 1 = e.hi
        BY <3>1
      <4> QED
        BY <3>3, <3>4, <4>1, LiveStep
    <3>6. r \in lo + 1 .. Len(played) /\ r <= lo + REPAIR_BOUND
      <4>1. /\ lo \in Nat /\ e.hi \in Nat /\ lo <= e.hi /\ N \in Nat /\ REPAIR_BOUND \in Nat
            /\ e.hi - lo + 1 <= REPAIR_BOUND /\ r <= N /\ N <= Len(played) /\ Len(played) \in Nat
        <5>1. e.hi \in Nat /\ r <= N
          BY <3>1, <3>2
        <5>2. ~(e.hi - lo + 1 > REPAIR_BOUND) /\ lo <= e.hi /\ lo \in Nat
          BY <2>1, <2>6, <2>8
        <5>3. REPAIR_BOUND \in Nat
          BY JudgeAssumption
        <5>4. e.hi - lo + 1 <= REPAIR_BOUND
          BY <5>1, <5>2, <5>3
        <5> QED
          BY <2>4, <5>1, <5>2, <5>3, <5>4
      <4> QED
        BY <4>1
    <3> QED
      BY <3>5, <3>6 DEF RepairAfter
  <2>10. ASSUME NEW i \in DOMAIN broken, broken[i] <= Len(dump[2])
         PROVE  \E r \in RepairAfter(broken[i]) : r + RECOVER_TAIL <= N + 1
    <3>1. broken[i] \in 1 .. N
      <4>1. 1 \in Consoles /\ DOMAIN dump[1] = 1 .. Len(dump[1]) /\ Len(dump[1]) \in Nat
        BY DEF Consoles, FrameInv, FrameTypeOK
      <4> QED
        BY <2>2, <2>10, <4>1, BrokenFacts
    <3> DEFINE n == N - RECOVER_TAIL + 1
    <3>2. Live(i, broken[i])
      BY <3>1 DEF Live
    <3>3. broken[i] \in bad
      BY <2>2, <3>1, <3>2
    <3>4. n \in 1 .. N /\ broken[i] < n
      BY <2>3, <3>1, <3>3
    <3>5. ~Live(i, n)
      <4>1. ~(N - n >= RECOVER_TAIL)
        BY <3>4
      <4> QED
        BY <2>2, <2>3, <3>4, <4>1
    <3>6. PICK r \in broken[i] + 1 .. n : played[r] = "reset"
      BY <3>1, <3>4, <3>5 DEF Live
    <3>7. r \in broken[i] + 1 .. Len(played) /\ r + RECOVER_TAIL <= N + 1
      BY <2>4, <3>1, <3>4
    <3> QED
      BY <3>6, <3>7 DEF RepairAfter
  <2> QED
    BY <2>2, <2>5, <2>9, <2>10
<1> QED
  BY <1>1, FrameInvariance, PTL

(* QuickRepairPasses: a repair within the bound, followed by enough ticks  *)
(* that agree, passes, also when a break far behind it was repaired too.   *)
THEOREM QuickRepairIsPassed == FrameSpec => []QuickRepairPasses
<1>1. FrameInv => QuickRepairPasses
  <2> DEFINE last == Cardinality(Judges!Common(dump[1], dump[2]))
             Repaired(t, within) ==
               \E r \in RepairAfter(t) : r <= t + within /\ r + RECOVER_TAIL - 1 <= last
  <2> SUFFICES ASSUME FrameInv, broken # <<>>, Repaired(broken[1], REPAIR_BOUND),
                      \A i \in DOMAIN broken : Repaired(broken[i], last),
                      \A i \in 2 .. Len(broken) : broken[i] > broken[1] + REPAIR_BOUND + GAP
               PROVE  Judges!RepairVerdict(dump[1], dump[2]) = 0
    BY DEF QuickRepairPasses
  <2> USE JudgeAssumption
  <2> DEFINE bad == Judges!Bad(dump[1], dump[2])
             e == Judges!Earliest(Judges!Episodes(bad))
  <2>1. PICK N \in Nat :
           /\ N <= Len(dump[1]) /\ N <= Len(dump[2])
           /\ N = Len(dump[1]) \/ N = Len(dump[2])
           /\ Judges!Common(dump[1], dump[2]) = 1 .. N
           /\ last = N
           /\ bad = {n \in 1 .. N : \E i \in DOMAIN broken : Live(i, n)}
           /\ Judges!Settled(dump[1], dump[2]) = {n \in 1 .. N : N - n < RECOVER_TAIL}
    BY JudgeSees
  <2>2. 1 \in DOMAIN broken /\ Len(broken) \in Nat /\ DOMAIN broken = 1 .. Len(broken)
    <3>1. broken \in Seq(Nat) /\ Len(broken) \in Nat /\ DOMAIN broken = 1 .. Len(broken)
      BY DEF FrameInv, FrameTypeOK
    <3>2. Len(broken) # 0
      BY <3>1
    <3> QED
      BY <3>1, <3>2
  <2> DEFINE lo == broken[1]
  <2>3. lo \in Nat \ {0} /\ \A i \in DOMAIN broken : broken[i] \in Nat \ {0} /\ lo <= broken[i]
    <3>1. \A i \in DOMAIN broken : i = 1 \/ 1 < i
      BY <2>2
    <3> QED
      BY <2>2, <3>1, BrokenFacts
  <2>4. PICK r1 \in lo + 1 .. Len(played) :
           played[r1] = "reset" /\ r1 <= lo + REPAIR_BOUND /\ r1 + RECOVER_TAIL - 1 <= N
    BY <2>1 DEF RepairAfter
  <2>5. \A i \in DOMAIN broken : \E r \in broken[i] + 1 .. Len(played) :
           played[r] = "reset" /\ r + RECOVER_TAIL - 1 <= N
    BY <2>1 DEF RepairAfter
  <2>6. \A i \in DOMAIN broken : i # 1 => broken[i] > lo + REPAIR_BOUND + GAP
    <3>1. \A i \in DOMAIN broken : i # 1 => i \in 2 .. Len(broken)
      BY <2>2
    <3> QED
      BY <3>1
  <2> HIDE DEF bad, e, last, Repaired
  <2>7. r1 \in 1 .. N /\ lo \in 1 .. N /\ lo < r1
    BY <2>3, <2>4
  <2>8. lo \in bad /\ \A t \in bad : lo <= t /\ t \in 1 .. N
    <3>1. ASSUME NEW t \in bad PROVE t \in 1 .. N /\ lo <= t
      <4>1. PICK i \in DOMAIN broken : Live(i, t)
        BY <2>1
      <4> QED
        BY <2>1, <2>3, <4>1 DEF Live
    <3>2. Live(1, lo)
      BY <2>2, <2>3 DEF Live
    <3> QED
      BY <2>1, <2>2, <2>7, <3>1, <3>2
  <2>9. /\ e.lo = lo /\ e.hi \in bad /\ lo <= e.hi
        /\ \A t \in bad : t < e.hi => \E u \in bad : t < u /\ u - t <= GAP
    <3>1. bad \in SUBSET (1 .. N)
      BY <2>8
    <3> QED
      BY <2>8, <3>1, FirstEpisode DEF e
  <2>10. \A t \in bad : t < r1 \/ t > lo + REPAIR_BOUND + GAP
    <3> SUFFICES ASSUME NEW t \in bad, t >= r1 PROVE t > lo + REPAIR_BOUND + GAP
      BY <2>7, <2>8
    <3>1. PICK i \in DOMAIN broken : Live(i, t)
      BY <2>1
    <3>2. t \in Nat /\ broken[i] <= t /\ \A r \in broken[i] + 1 .. t : played[r] # "reset"
      BY <2>8, <3>1 DEF Live
    <3>3. i # 1
      <4>1. r1 \in lo + 1 .. t
        BY <2>4, <2>7, <3>2
      <4> QED
        BY <2>4, <3>2, <4>1
    <3> QED
      BY <2>3, <2>6, <3>2, <3>3
  <2>11. e.hi < r1
    <3> DEFINE Early == {x \in Nat : N - x \in bad /\ N - x < r1}
    <3>1. SUFFICES ASSUME e.hi >= r1 PROVE FALSE
      BY <2>7, <2>8, <2>9
    <3>2. Early \subseteq Nat /\ N - lo \in Early
      BY <2>7, <2>8
    <3>3. PICK x \in Early : \A y \in Early : x <= y
      <4> HIDE DEF Early
      <4> QED
        BY <3>2, Smallest, Zenon
    <3> DEFINE t == N - x
    <3>4. t \in bad /\ t < r1 /\ t < e.hi /\ x \in Nat
      BY <2>7, <2>8, <2>9, <3>1, <3>3
    <3>5. PICK u \in bad : t < u /\ u - t <= GAP
      BY <2>9, <3>4
    <3>6. u \in 1 .. N /\ N - (N - u) = u
      BY <2>8
    <3>7. CASE u < r1
      <4>1. N - u \in Early /\ ~(x <= N - u)
        BY <3>4, <3>5, <3>6, <3>7
      <4> QED
        BY <3>3, <4>1
    <3>8. CASE ~(u < r1)
      BY <2>3, <2>4, <2>7, <2>10, <3>4, <3>5, <3>6, <3>8
    <3> QED
      BY <3>7, <3>8
  <2>12. ~(e.hi - e.lo + 1 > REPAIR_BOUND)
    BY <2>3, <2>4, <2>7, <2>8, <2>9, <2>11
  <2>13. ASSUME NEW t \in Judges!Settled(dump[1], dump[2])
         PROVE  dump[1][t] = dump[2][t]
    <3>1. t \in 1 .. N /\ N - t < RECOVER_TAIL
      BY <2>1
    <3>2. ASSUME NEW i \in DOMAIN broken, Live(i, t) PROVE FALSE
      <4>1. PICK r \in broken[i] + 1 .. Len(played) : played[r] = "reset" /\ r + RECOVER_TAIL - 1 <= N
        BY <2>5
      <4>2. r \in broken[i] + 1 .. t
        BY <2>3, <3>1, <4>1
      <4> QED
        BY <3>2, <4>1, <4>2 DEF Live
    <3>3. t \notin bad
      BY <2>1, <3>2
    <3> QED
      BY <2>1, <3>1, <3>3 DEF bad, Judges!Bad
  <2>14. DOMAIN dump[1] # {} /\ DOMAIN dump[2] # {}
    <3>1. lo \in Judges!Common(dump[1], dump[2])
      BY <2>1, <2>7
    <3> QED
      BY <3>1 DEF Judges!Common
  <2> QED
    BY <2>8, <2>12, <2>13, <2>14 DEF Judges!RepairVerdict, bad, e
<1> QED
  BY <1>1, FrameInvariance, PTL
=============================================================================
