------------------------------- MODULE VoStock -------------------------------
(***************************************************************************)
(* The 1977 game as the declared patches leave it to be known: what        *)
(* tools/patches.py quotes of it ("old") and says of it.  A frame counts   *)
(* the sound down, counts itself, and runs the game logic on the inputs it *)
(* reads.  The logic itself is not in the repository: here it is any       *)
(* function of the state and the input that reads the frame counter (the   *)
(* SELECT debounce, the serve) and sets the sound.                         *)
(***************************************************************************)
EXTENDS Naturals

CONSTANTS
    Low,     \* values of the low byte of the frame counter: 256 in the ROM
    High,    \* values of a byte above it
    Mask,    \* the sound counts while its value modulo this is not zero: $40
    Beeps,   \* the values the game sets the sound duration to, Mask among them
    Hands    \* what the players can do in a frame

VARIABLES cells, frames

svars == <<cells, frames>>

Cells == [snd : 0 .. Mask, lo : 0 .. Low - 1, mid : 0 .. High - 1,
          hi : 0 .. High - 1, score : 0 .. 2]

\* START's loop: all of RAM, whatever was in it.
Cleared == [snd |-> 0, lo |-> 0, mid |-> 0, hi |-> 0, score |-> 0]

\* $F04E BIT $8C with A = $3F, BEQ, DEC $8C: the guard looks at six bits.
SoundDown(c) == IF c.snd % Mask = 0 THEN c ELSE [c EXCEPT !.snd = @ - 1]

\* INC $88, BNE, INC $89, INC $8A: the two high bytes go up together.
CountUp(c) ==
    LET wraps == c.lo = Low - 1
    IN  [c EXCEPT !.lo = (@ + 1) % Low,
                  !.mid = IF wraps THEN (@ + 1) % High ELSE @,
                  !.hi = IF wraps THEN (@ + 1) % High ELSE @]

\* RESET leaves the state the game builds from nothing.  A hit scores on the
\* frames the counter allows and beeps.
Logic(c, hand) ==
    CASE hand = "reset" -> Cleared
      [] hand = "hit" /\ c.lo % 2 = 0 ->
           [c EXCEPT !.score = (@ + 1) % 3,
                     !.snd = CHOOSE b \in Beeps : (b % Mask = 0) = (c.score = 1)]
      [] OTHER -> c

StockFrame(c, hand) == Logic(CountUp(SoundDown(c)), hand)

Init == cells = Cleared /\ frames = 0

Frame(hand) == cells' = StockFrame(cells, hand) /\ frames' = frames + 1

Next == \E hand \in Hands : Frame(hand)

Spec == Init /\ [][Next]_svars
=============================================================================
