------------------------------ MODULE VoJudges ------------------------------
(***************************************************************************)
(* The judges of the ladder: tools/ramdiff.py over two streams of per-     *)
(* frame states (make det), tools/playdiff.py over the lines two consoles  *)
(* printed (make rig-play, make rig-repair).  A dump is a function from    *)
(* the numbers a harness gave its lines to the states on them.             *)
(***************************************************************************)
EXTENDS Integers, FiniteSets

CONSTANTS
    MinFrames,      \* ramdiff --min-frames
    RECOVER_TAIL,   \* how many lines at the end must agree for a repair
    REPAIR_BOUND,   \* how many ticks a repair may take
    GAP             \* divergent ticks this far apart are one episode

Common(a, b) == DOMAIN a \cap DOMAIN b
Bad(a, b) == {t \in Common(a, b) : a[t] # b[t]}

-----------------------------------------------------------------------------
(* ramdiff.py: enough frames, a stream that moves, and no difference.      *)
RamVerdict(a, b) ==
    IF \/ Cardinality(Common(a, b)) < MinFrames
       \/ Cardinality({a[t] : t \in Common(a, b)}) < 2
       \/ Bad(a, b) # {}
      THEN 1 ELSE 0

-----------------------------------------------------------------------------
(* playdiff.py *)

\* One console printed nothing, or any common tick differs.
PlayVerdict(a, b) ==
    IF DOMAIN a = {} \/ DOMAIN b = {} \/ Bad(a, b) # {} THEN 1 ELSE 0

\* Contiguous runs of divergent ticks, a gap of up to GAP tolerated inside one:
\* a repair in progress can agree for a tick and then differ again.  A run is
\* known by its ends: no divergent tick within GAP of it outside, and from each
\* one inside the next is not further.
\* A slip, and what the tool once did: from the first divergence to the last.
EpisodesSpan(bad) ==
    {e \in [lo : bad, hi : bad] : \A t \in bad : e.lo <= t /\ t <= e.hi}
Episodes(bad) ==
    {e \in [lo : bad, hi : bad] :
        /\ e.lo <= e.hi
        /\ \A t \in bad : /\ t < e.lo => e.lo - t > GAP
                          /\ t > e.hi => t - e.hi > GAP
                          /\ e.lo <= t /\ t < e.hi =>
                               \E u \in bad : t < u /\ u - t <= GAP}

\* eps[0]: "THE REPAIR took", the others are separate divergences.
Earliest(eps) == CHOOSE e \in eps : \A f \in eps : e.lo <= f.lo

\* The last RECOVER_TAIL common ticks, or all of them when there are fewer.
\* A slip: only the very last one.
SettledOne(a, b) == {t \in Common(a, b) : \A u \in Common(a, b) : u <= t}
Settled(a, b) == {t \in Common(a, b) : Cardinality({u \in Common(a, b) : u > t}) < RECOVER_TAIL}

RepairVerdict(a, b) ==
    LET repair == Earliest(Episodes(Bad(a, b)))
    IN  IF \/ DOMAIN a = {} \/ DOMAIN b = {}
           \/ Bad(a, b) = {}
           \/ \E t \in Settled(a, b) : a[t] # b[t]
           \/ repair.hi - repair.lo + 1 > REPAIR_BOUND
          THEN 1 ELSE 0
=============================================================================
