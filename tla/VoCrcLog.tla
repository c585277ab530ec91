------------------------------- MODULE VoCrcLog -------------------------------
(***************************************************************************)
(* The checksum log of the relay (log_crc): two consoles put a checksum in *)
(* every record, and the relay compares the two of one tick.  The wire     *)
(* tick is a byte, so the relay counts laps; a checksum whose partner has  *)
(* not come is kept, in a map in order of insertion.  The C port keeps the *)
(* same map in an array of slots: both are here, fed the same records.     *)
(*                                                                         *)
(* A side is a place in a match.  The console on one side may go and a new *)
(* one may take its place; the one that stays keeps its connection and,    *)
(* until it has read the new START, goes on with the old match.  Checksums *)
(* tell any two ticks and any two matches apart: what is checked is which  *)
(* of them are compared.                                                   *)
(***************************************************************************)
EXTENDS Naturals, Sequences, FiniteSets

CONSTANTS
  TickMod,     \* 256: the tick is one byte
  Keep,        \* 8: checksums kept for a partner that may still send his
  Slots,       \* CRC_SLOTS, 16: the array of the C port
  First,       \* VOD, 2: the tick of a match's first record
  Lead,        \* how far the records of one console may be ahead
  Gap,         \* how many ticks a console may go on between two records
  MaxTick,     \* bound: ticks of a match
  MaxMatches,  \* bound: matches
  MaxAgain,    \* bound: records said again
  OddTicks     \* ticks on which the consoles may disagree

ASSUME LogAssumption ==
  /\ TickMod \in Nat \ {0} /\ First \in 1 .. TickMod - 1
  /\ Lead \in Nat /\ Gap \in Nat /\ 2 * Gap < TickMod
  /\ Keep \in Nat \ {0} /\ Slots \in Nat /\ Keep < Slots
  /\ MaxTick \in Nat /\ MaxMatches \in Nat \ {0} /\ MaxAgain \in Nat
  /\ OddTicks \subseteq Nat

(* The first record of a match comes before its ticks wrap, and a console   *)
(* is never more records ahead than the relay keeps checksums.              *)
ASSUME ReachAssumption == First + Gap <= TickMod /\ Lead <= Keep

Side == {"old", "new"}      \* the consoles of the first match: "old" stays
Other(s) == CHOOSE o \in Side : o # s

VARIABLES
  play,       \* the match each console is in, and the tick of its last record
  upto,       \* the last tick the other console lets it come to
  again,      \* how many records were said again
  match,      \* matches the relay has made
  paired,     \* c.partner is not None, on both sides
  lap, lastTick,  \* c.lap, c.last_tick (TickMod for None)
  py, c,      \* each port's maps (c.crc), stats crc_ok and stats crc_bad
  mixed,      \* history: a record of the match before was logged in this one
  odd,        \* the match and tick on which the consoles disagree
  gave,       \* history: the sides that reported that tick in that match
  said,       \* history: the relay compared the two, and logged it
  round       \* history: what was compared last

consoles == <<play, upto, again>>
ports   == <<lap, lastTick, py, c>>
history  == <<mixed, gave, said, round>>
logvars  == <<consoles, match, paired, ports, odd, history>>

-----------------------------------------------------------------------------
(* The map: a sequence of entries, the oldest first, one for each key.     *)

Entries(m)      == {m[i] : i \in DOMAIN m}
At(m, key)      == {i \in DOMAIN m : m[i].key = key}
Without(m, key) == LET i == CHOOSE j \in At(m, key) : TRUE
                   IN  SubSeq(m, 1, i - 1) \o SubSeq(m, i + 1, Len(m))
Put(m, e) == IF At(m, e.key) = {} THEN Append(m, e)
             ELSE [i \in DOMAIN m |-> IF i \in At(m, e.key) THEN e ELSE m[i]]

(* Mutant: room is not made.                                               *)
PutSlotLongSlip(m, e) == Put(m, e)

(* Mutant: with no slot left the new entry is not kept.                    *)
PutSlotLostSlip(m, e) ==
  IF At(m, e.key) # {} \/ Len(m) < Slots THEN Put(m, e) ELSE m

(* crc_set: with no slot left the newest entry makes room.                 *)
PutSlot(m, e) ==
  IF At(m, e.key) # {} THEN Put(m, e)
  ELSE Append(SubSeq(m, 1, IF Len(m) < Slots THEN Len(m) ELSE Slots - 1), e)

(* Mutant: it is the newest that go.                                       *)
YoungestOutSlip(m) == SubSeq(m, 1, IF Len(m) > Keep THEN Keep ELSE Len(m))

(* Evict by age: the Keep newest stay.                                     *)
OldestOut(m) == IF Len(m) > Keep THEN SubSeq(m, Len(m) - Keep + 1, Len(m)) ELSE m

(* An entry of side s, put in its map as mine: with the partner's entry of *)
(* that key it is compared, and the partner's is taken out.                *)
Theirs(l, s, key) == {x \in Entries(l.map[Other(s)]) : paired /\ x.key = key}
Logged(l, s, e, mine) ==
  LET other == Theirs(l, s, e.key)
  IN  IF other = {} THEN [l EXCEPT !.map[s] = OldestOut(mine)]
      ELSE [map |-> [l.map EXCEPT ![s] = mine, ![Other(s)] = Without(@, e.key)],
            ok  |-> l.ok  + Cardinality({x \in other : x.crc = e.crc}),
            bad |-> l.bad + Cardinality({x \in other : x.crc # e.crc})]

-----------------------------------------------------------------------------
Empty == [s \in Side |-> <<>>]

LogInit ==
  /\ play = [s \in Side |-> [match |-> 1, tick |-> First - 1]]
  /\ upto = [s \in Side |-> First - 1 + Lead]
  /\ again = 0 /\ match = 1 /\ paired = TRUE
  /\ lap = [s \in Side |-> 0] /\ lastTick = [s \in Side |-> TickMod]
  /\ py = [map |-> Empty, ok |-> 0, bad |-> 0] /\ c = py
  /\ odd \in [match: 1 .. MaxMatches, tick: OddTicks]
  /\ mixed = FALSE /\ gave = {} /\ said = FALSE /\ round = {}

(* The checksum of a console: its match and tick, and, on the odd one,     *)
(* whose it is.                                                            *)
Sum(s, p) == [match |-> p.match, tick |-> p.tick, of |-> IF p = odd THEN s ELSE "both"]

(* Mutant: laps are not counted.                                           *)
LapSlip(s, wire) == lap[s]

(* A tick that jumps backwards by more than half the range is a wrap.      *)
Lap(s, wire) ==
  LET delta == (wire + TickMod - lastTick[s]) % TickMod
  IN  IF lastTick[s] # TickMod /\ 0 < delta /\ 2 * delta < TickMod /\ wire < lastTick[s]
      THEN lap[s] + 1 ELSE lap[s]

(* log_crc, of both ports.                                                 *)
LogCrc(s, p) ==
  LET wire == p.tick % TickMod
      e    == [key |-> Lap(s, wire) * TickMod + wire, crc |-> Sum(s, p)]
      met  == {x.crc : x \in Theirs(py, s, e.key)}
  IN  /\ lap'  = [lap EXCEPT ![s] = Lap(s, wire)]
      /\ lastTick' = [lastTick EXCEPT ![s] = wire]
      /\ py' = Logged(py, s, e, Put(py.map[s], e))
      /\ c'  = Logged(c, s, e, PutSlot(c.map[s], e))
      /\ mixed' = (mixed \/ (paired /\ p.match < match))
      /\ gave'  = gave \cup {x \in {s} : p = odd /\ paired /\ match = odd.match}
      /\ said'  = (said \/ \E x \in met : x = Sum(Other(s), odd) /\ e.crc = Sum(s, odd))
      /\ round' = IF met = {} THEN round ELSE met \cup {e.crc}

-----------------------------------------------------------------------------
(* The consoles.  A record may be said again while its tick stalls.        *)
Report(s) ==
  /\ \E d \in 0 .. Gap :
       LET p == [play[s] EXCEPT !.tick = @ + d]
       IN  /\ First <= p.tick /\ p.tick <= upto[s] /\ p.tick <= MaxTick
           /\ d = 0 => again < MaxAgain
           /\ again' = IF d = 0 THEN again + 1 ELSE again
           /\ play' = [play EXCEPT ![s] = p]
           /\ upto' = IF p.match = play[Other(s)].match
                      THEN [upto EXCEPT ![Other(s)] = p.tick + Lead] ELSE upto
           /\ LogCrc(s, p)
  /\ UNCHANGED <<match, paired, odd>>

(* drop(): the new side's console goes.                                    *)
Leave ==
  /\ paired /\ match < MaxMatches
  /\ paired' = FALSE
  /\ UNCHANGED <<consoles, match, ports, odd, history>>

(* accept, HELLO, try_pair: another console takes its side.  Its client is *)
(* a new one, both maps are cleared, and nothing else of the old client is. *)
Meet ==
  /\ ~paired
  /\ paired' = TRUE /\ match' = match + 1
  /\ play' = [play EXCEPT !["new"] = [match |-> match + 1, tick |-> First - 1]]
  /\ upto' = [upto EXCEPT !["new"] = First - 1 + Lead]
  /\ lap'  = [lap EXCEPT !["new"] = 0] /\ lastTick' = [lastTick EXCEPT !["new"] = TickMod]
  /\ py' = [py EXCEPT !.map = Empty] /\ c' = [c EXCEPT !.map = Empty]
  /\ UNCHANGED <<again, odd, history>>

(* The console that stayed reads the new START.                            *)
Restart ==
  /\ play["old"].match < match
  /\ play' = [play EXCEPT !["old"] = [match |-> match, tick |-> First - 1]]
  /\ upto' = [upto EXCEPT !["old"] = (IF play["new"].tick < First THEN First - 1
                                      ELSE play["new"].tick) + Lead]
  /\ UNCHANGED <<again, match, paired, ports, odd, history>>

LogNext == (\E s \in Side : Report(s)) \/ Leave \/ Meet \/ Restart
LogSpec == LogInit /\ [][LogNext]_logvars

-----------------------------------------------------------------------------
(* Properties.                                                             *)

Crc   == [match: 1 .. MaxMatches, tick: Nat, of: Side \cup {"both"}]
Entry == [key: Nat, crc: Crc]
Log   == [map: [Side -> Seq(Entry)], ok: Nat, bad: Nat]

(* Every variable keeps its type, and the array of the C port its size.    *)
LogTypeOK ==
  /\ play \in [Side -> [match: 1 .. MaxMatches, tick: Nat]] /\ upto \in [Side -> Nat]
  /\ match \in 1 .. MaxMatches /\ again \in 0 .. MaxAgain /\ {paired, mixed, said} \subseteq BOOLEAN
  /\ lap \in [Side -> Nat] /\ lastTick \in [Side -> 0 .. TickMod]
  /\ {py, c} \subseteq Log /\ \A s \in Side : Len(c.map[s]) <= Slots
  /\ odd \in [match: 1 .. MaxMatches, tick: OddTicks]
  /\ gave \subseteq Side /\ round \subseteq Crc

(* The wrap is seen from either side of it, whatever ticks a console skips *)
(* or says again: in the first match only checksums of one tick meet, so   *)
(* every mismatch logged is a real one.                                    *)
OneTick ==
  match = 1 => /\ Cardinality({x.tick : x \in round}) <= 1
               /\ py.bad > 0 => gave = Side

(* A tick both consoles reported, and disagreed on, is logged: whoever is  *)
(* first, however far, and whatever is in the maps; as long as the laps    *)
(* the relay counted are those of the match, and no record of the match    *)
(* before is among its own.                                                *)
LapsRight == \A s \in Side :
  \/ lastTick[s] = TickMod
  \/ lap[s] * TickMod <= play[s].tick /\ play[s].tick < (lap[s] + 1) * TickMod
DisagreementSaid == gave = Side /\ LapsRight /\ ~mixed => said

(* Whatever its array has no room for, the C port comes to the verdict of  *)
(* the Python: a mismatch or none; again with no record of the match       *)
(* before.                                                                 *)
SameVerdict == ~mixed => (py.bad > 0 <=> c.bad > 0)
-----------------------------------------------------------------------------
(* The inductive invariant behind OneTick and DisagreementSaid.            *)

(* A map has one entry for a key.                                          *)
KeysOnce ==
  \A s \in Side : \A m \in {py.map[s], c.map[s]} :
    \A i, j \in DOMAIN m : m[i].key = m[j].key => i = j

(* A console is in the match, or, the one that stayed, still in an earlier  *)
(* one; and it is no further than what it knows of the other lets it be.   *)
Playing ==
  /\ play["new"].match = match /\ play["old"].match <= match
  /\ ~paired => match < MaxMatches
  /\ \A s \in Side : First - 1 <= play[s].tick
  /\ \A s \in Side : play[s].match = match =>
       upto[s] <= Lead + (IF play[Other(s)].match = match THEN play[Other(s)].tick
                          ELSE First - 1)

(* The relay never counts too few laps of a tick; on a side whose client   *)
(* is new it counts them right.  On the other, a count that was carried on *)
(* into a match stays too high for good.                                   *)
Straight(s) == lap[s] * TickMod <= play[s].tick
Placed(s)   == /\ lastTick[s] < TickMod
               /\ \E q \in 0 .. lap[s] : play[s].tick = q * TickMod + lastTick[s]
Counted ==
  /\ \A s \in Side : /\ Placed(s) \/ play[s].tick = First - 1
                     /\ lastTick[s] = TickMod => lap[s] = 0
  /\ \A s \in Side : s = "new" \/ match = 1 =>
       /\ Straight(s)
       /\ play[s].tick = First - 1 => lastTick[s] = TickMod

(* As long as the laps are right and no record of the match before was     *)
(* logged, a key is the tick of its checksum, and the keys of a map rise.  *)
Sound == paired /\ ~mixed /\ Straight("old")
Keyed(m, s) == \A x \in Entries(m) :
  /\ play[s].match = match /\ x.key <= play[s].tick
  /\ x.crc = Sum(s, [match |-> match, tick |-> x.key])
  /\ [match |-> match, tick |-> x.key] = odd => s \in gave
Rising(m) == \A i, j \in DOMAIN m : i < j => m[i].key < m[j].key
Filed == Sound => \A s \in Side : Keyed(py.map[s], s) /\ Rising(py.map[s])

(* The first of the two disagreeing checksums is kept until the other      *)
(* console's comes, or cannot come any more.                               *)
Passed(s) == play[s].match = match /\ odd.tick < play[s].tick
Awaited ==
  /\ gave # {} => odd.match <= match /\ First <= odd.tick
  /\ Sound /\ match = odd.match =>
       /\ \A s \in Side : First <= odd.tick /\ play[s] = odd => s \in gave
       /\ gave # {} /\ ~said => \E s \in Side :
            /\ gave = {s}
            /\ Passed(Other(s)) \/ \E x \in Entries(py.map[s]) : x.key = odd.tick
  /\ gave = Side /\ ~mixed /\ Straight("old") => said

(* In the first match nothing was carried on.                              *)
FirstMatch ==
  match = 1 => /\ ~mixed
               /\ \A x, y \in round : x.tick = y.tick
               /\ py.bad > 0 => gave = Side

LogInv == LogTypeOK /\ KeysOnce /\ Playing /\ Counted /\ Filed /\ Awaited /\ FirstMatch

(* And behind SameVerdict.  The array of the C port is filed in the same    *)
(* way; it holds more than Keep entries only while what it has beyond them *)
(* met its partner when it came, so what has no slot is not missed.        *)
Beyond(m) == {m[i] : i \in {j \in DOMAIN m : Keep < j}}
Stored ==
  Sound => \A s \in Side :
    /\ Keyed(c.map[s], s) /\ Rising(c.map[s])
    /\ \A x \in Beyond(c.map[s]) :
         [match |-> match, tick |-> x.key] = odd => Other(s) \in gave

(* So the disagreement waits in the array as it does in the map.           *)
Settled ==
  /\ said => py.bad > 0
  /\ Sound /\ match = odd.match /\ gave # {} /\ c.bad = 0 => \E s \in Side :
       /\ gave = {s}
       /\ Passed(Other(s)) \/ \E x \in Entries(c.map[s]) : x.key = odd.tick
  /\ gave = Side /\ ~mixed /\ Straight("old") => c.bad > 0

(* As long as the one that stayed has reported nothing in its new match, or *)
(* its laps are too high, the ports hold the same: nobody meets, and who   *)
(* does is a mismatch to both.                                             *)
Unheard == play["old"].match < match \/ play["old"].tick = First - 1
Alike ==
  paired /\ ~mixed /\ (Unheard \/ ~Straight("old")) =>
    \/ py.bad > 0 /\ c.bad > 0 /\ ~Unheard
    \/ /\ py.map = c.map /\ \A s \in Side : Len(c.map[s]) <= Keep
       /\ Unheard => c.map["old"] = <<>>
       /\ \A x \in Entries(c.map["new"]) : x.crc.tick = x.key
       /\ \A x \in Entries(c.map["old"]) : x.crc.tick # x.key

ArrayInv == Stored /\ Settled /\ Alike /\ SameVerdict
=============================================================================
