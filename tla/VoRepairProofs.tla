--------------------------- MODULE VoRepairProofs ----------------------------
(***************************************************************************)
(* Proofs about the repair and the progress of VoLockstep: a checksum is   *)
(* right about the state it was taken of, and the gates never wait for     *)
(* each other.  They stand on the invariance of IInv (VoLockstepProofs).   *)
(***************************************************************************)
EXTENDS VoLockstepProofs

-----------------------------------------------------------------------------
(* The state of the game and the log that leads to it.                     *)

LEMMA GameType ==
  ASSUME NEW g \in Game
  PROVE  /\ g = [ran |-> g.ran, by |-> g.by]
         /\ g.ran \in Seq(Inputs) /\ Len(g.ran) \in Nat
  BY DEF Game

(* What a state says of the first n ticks stays said of a longer log.      *)
LEMMA LongerLog ==
  ASSUME NEW l, NEW m, NEW n \in Nat, NEW g \in Game,
         StateAfter(l, n, g), \A i \in 1 .. n : m[i] = l[i]
  PROVE  StateAfter(m, n, g)
<1>1. Len(g.ran) \in Nat
  BY GameType
<1>2. ASSUME Len(g.ran) <= n, NEW i \in 1 .. Len(g.ran)
      PROVE  n - Len(g.ran) + i \in 1 .. n
  BY <1>1, <1>2
<1> QED
  BY <1>1, <1>2 DEF StateAfter

(* Playing a tick on: a RESET starts the state anew, anything else adds to *)
(* it.                                                                     *)
LEMMA PlayedOn ==
  ASSUME NEW l \in Seq(Inputs), NEW in \in Inputs, NEW g \in Game,
         StateAfter(l, Len(l), g)
  PROVE  StateAfter(Append(l, in), Len(l) + 1, PlayOn(g, in))
<1> DEFINE m == Append(l, in)
           n == Len(l)
           k == Len(g.ran)
<1>1. n \in Nat /\ m[n + 1] = in /\ \A i \in 1 .. n : m[i] = l[i]
  OBVIOUS
<1>2. g.ran \in Seq(Inputs) /\ k \in Nat
  BY GameType
<1>3. CASE Pressed(in)
  <2>1. PlayOn(g, in) = [ran |-> <<in>>, by |-> {}]
    BY <1>3 DEF PlayOn
  <2>2. Len(<<in>>) = 1 /\ <<in>>[1] = in
    OBVIOUS
  <2>3. \A i \in 1 .. 1 : <<in>>[i] = m[n + 1 - 1 + i]
    BY <1>1, <2>2
  <2> HIDE DEF m, n
  <2> QED
    BY <1>1, <1>3, <2>1, <2>2, <2>3 DEF StateAfter
<1>4. CASE ~Pressed(in)
  <2> DEFINE h == PlayOn(g, in)
  <2>1. h.ran = Append(g.ran, in) /\ h.by = g.by
    BY <1>4, GameType DEF PlayOn
  <2>2. Len(h.ran) = k + 1 /\ h.ran[k + 1] = in /\ \A i \in 1 .. k : h.ran[i] = g.ran[i]
    BY <1>2, <2>1
  <2> SUFFICES ASSUME g.by = {}
               PROVE  StateAfter(m, n + 1, h)
    BY <2>1 DEF StateAfter
  <2> HIDE DEF h
  <2>3. /\ k <= n
        /\ \A i \in 1 .. k : g.ran[i] = l[n - k + i]
        /\ \A i \in 2 .. k : ~Pressed(g.ran[i])
        /\ k = n \/ (k > 0 /\ Pressed(g.ran[1]))
    BY DEF StateAfter
  <2> HIDE DEF m, n, k
  <2>4. ASSUME NEW i \in 1 .. k + 1
        PROVE  h.ran[i] = m[(n + 1) - (k + 1) + i]
    <3>1. CASE i = k + 1
      BY <1>1, <1>2, <2>2, <3>1
    <3>2. CASE i \in 1 .. k
      <4>1. n - k + i \in 1 .. n /\ (n + 1) - (k + 1) + i = n - k + i
        BY <1>1, <1>2, <2>3, <3>2
      <4> QED
        BY <1>1, <2>2, <2>3, <3>2, <4>1
    <3> QED
      BY <1>2, <3>1, <3>2
  <2>5. ASSUME NEW i \in 2 .. k + 1
        PROVE  ~Pressed(h.ran[i])
    <3>1. i = k + 1 \/ i \in 2 .. k
      BY <1>2
    <3> QED
      BY <1>2, <1>4, <2>2, <2>3, <3>1
  <2>6. k + 1 = n + 1 \/ (k + 1 > 0 /\ Pressed(h.ran[1]))
    BY <1>1, <1>2, <2>2, <2>3
  <2>7. k + 1 <= n + 1
    BY <1>1, <1>2, <2>3
  <2> QED
    BY <2>2, <2>4, <2>5, <2>6, <2>7 DEF StateAfter
<1> QED
  BY <1>3, <1>4

(* After the same ticks there is one undisturbed state.                    *)
LEMMA OneState ==
  ASSUME NEW l, NEW m, NEW n \in Nat, NEW g \in Game, NEW h \in Game,
         StateAfter(l, n, g), StateAfter(m, n, h), \A i \in 1 .. n : l[i] = m[i],
         g.by = {}, h.by = {}
  PROVE  g = h
<1>1. /\ g.ran \in Seq(Inputs) /\ Len(g.ran) \in Nat
      /\ h.ran \in Seq(Inputs) /\ Len(h.ran) \in Nat
  BY GameType
<1>2. ASSUME NEW a \in Seq(Inputs), NEW b \in Seq(Inputs), Len(a) < Len(b), Len(b) <= n,
             \A i \in 1 .. Len(a) : a[i] = l[n - Len(a) + i],
             \A i \in 1 .. Len(b) : b[i] = l[n - Len(b) + i],
             \A i \in 2 .. Len(b) : ~Pressed(b[i]),
             Len(a) = n \/ (Len(a) > 0 /\ Pressed(a[1]))
      PROVE  FALSE
  <2> DEFINE j == Len(b) - Len(a) + 1
  <2>1. Len(a) \in Nat /\ Len(b) \in Nat
    OBVIOUS
  <2>2. Len(a) > 0 /\ Pressed(a[1])
    BY <1>2, <2>1
  <2>3. j \in 2 .. Len(b) /\ n - Len(b) + j = n - Len(a) + 1 /\ 1 \in 1 .. Len(a)
    BY <1>2, <2>1, <2>2
  <2>4. a[1] = b[j]
    BY <1>2, <2>3
  <2> QED
    BY <1>2, <2>2, <2>3, <2>4
<1>3. /\ Len(g.ran) <= n /\ Len(h.ran) <= n
      /\ \A i \in 1 .. Len(g.ran) : g.ran[i] = l[n - Len(g.ran) + i]
      /\ \A i \in 1 .. Len(h.ran) : h.ran[i] = m[n - Len(h.ran) + i]
      /\ \A i \in 2 .. Len(g.ran) : ~Pressed(g.ran[i])
      /\ \A i \in 2 .. Len(h.ran) : ~Pressed(h.ran[i])
      /\ Len(g.ran) = n \/ (Len(g.ran) > 0 /\ Pressed(g.ran[1]))
      /\ Len(h.ran) = n \/ (Len(h.ran) > 0 /\ Pressed(h.ran[1]))
  BY DEF StateAfter
<1>4. \A i \in 1 .. Len(h.ran) : h.ran[i] = l[n - Len(h.ran) + i]
  <2> SUFFICES ASSUME NEW i \in 1 .. Len(h.ran)
               PROVE  h.ran[i] = l[n - Len(h.ran) + i]
    OBVIOUS
  <2>1. n - Len(h.ran) + i \in 1 .. n
    BY <1>1, <1>3
  <2> QED
    BY <1>3, <2>1
<1>5. ~(Len(g.ran) < Len(h.ran))
  BY <1>1, <1>2, <1>3, <1>4
<1>6. ~(Len(h.ran) < Len(g.ran))
  BY <1>1, <1>2, <1>3, <1>4
<1>7. Len(g.ran) = Len(h.ran)
  BY <1>1, <1>5, <1>6
<1>8. \A i \in 1 .. Len(g.ran) : g.ran[i] = h.ran[i]
  <2> SUFFICES ASSUME NEW i \in 1 .. Len(g.ran)
               PROVE  g.ran[i] = h.ran[i]
    OBVIOUS
  <2>1. g.ran[i] = l[n - Len(g.ran) + i] /\ h.ran[i] = l[n - Len(h.ran) + i]
    BY <1>3, <1>4, <1>7
  <2> QED
    BY <1>7, <2>1
<1>9. g.ran = h.ran
  BY <1>1, <1>7, <1>8
<1> QED
  BY <1>9, GameType

-----------------------------------------------------------------------------
(* What is on its way.                                                     *)

(* A step that leaves the records of a console alone.                      *)
LEMMA FlightSame ==
  ASSUME NEW c \in Console, net'[c] = net[c], batch'[c] = batch[c]
  PROVE  InFlight(c)' = InFlight(c)
  BY DEF InFlight

LEMMA FlightAppended ==
  ASSUME TypeOK, NEW c \in Console, NEW r, net'[c] = Append(net[c], r), batch'[c] = batch[c]
  PROVE  InFlight(c)' = InFlight(c) \cup {r}
<1>1. net[c] \in Seq(Record)
  BY DEF TypeOK
<1>2. /\ DOMAIN net'[c] = DOMAIN net[c] \cup {Len(net[c]) + 1}
      /\ net'[c][Len(net[c]) + 1] = r
      /\ \A i \in DOMAIN net[c] : net'[c][i] = net[c][i]
  BY <1>1
<1>3. {net'[c][i] : i \in DOMAIN net'[c]} = {net[c][i] : i \in DOMAIN net[c]} \cup {r}
  BY <1>2
<1> QED
  BY <1>3 DEF InFlight

(* A READ moves records from the way into the batch.                       *)
LEMMA FlightRead ==
  ASSUME TypeOK, NEW c \in Console, Poll(c), batch[c] = <<>>
  PROVE  \A q \in Console : InFlight(q)' = InFlight(q)
<1>1. PICK n \in 0 .. Len(net[c]) :
        /\ batch' = [batch EXCEPT ![c] = SubSeq(net[c], 1, n)]
        /\ net'   = [net EXCEPT ![c] = SubSeq(net[c], n + 1, Len(net[c]))]
  BY DEF Poll, TypeOK
<1>2. \A q \in Console : q # c => InFlight(q)' = InFlight(q)
  BY <1>1, FlightSame DEF TypeOK
<1>3. net[c] \in Seq(Record) /\ Len(net[c]) \in Nat /\ DOMAIN net[c] = 1 .. Len(net[c])
  BY DEF TypeOK
<1> DEFINE u == SubSeq(net[c], 1, n)
           v == SubSeq(net[c], n + 1, Len(net[c]))
<1>4. DOMAIN u = 1 .. n /\ \A i \in 1 .. n : u[i] = net[c][i]
  BY <1>3, Prefix
<1>5. DOMAIN v = 1 .. Len(net[c]) - n /\ \A i \in 1 .. Len(net[c]) - n : v[i] = net[c][n + i]
  <2>1. /\ v \in Seq(Record) /\ Len(v) = Len(net[c]) - n
        /\ \A i \in 1 .. Len(net[c]) - n : v[i] = net[c][n + i]
    BY <1>3, Suffix
  <2> HIDE DEF v
  <2> QED
    BY <2>1
<1>6. batch'[c] = u /\ net'[c] = v
  BY <1>1 DEF TypeOK
<1> HIDE DEF u, v
<1>7. ASSUME NEW r
      PROVE  (\E i \in DOMAIN net[c] : r = net[c][i])
               <=> (\E i \in DOMAIN u : r = u[i]) \/ (\E i \in DOMAIN v : r = v[i])
  <2>1. ASSUME NEW i \in DOMAIN net[c], r = net[c][i]
        PROVE  (\E k \in DOMAIN u : r = u[k]) \/ (\E k \in DOMAIN v : r = v[k])
    <3>1. i \in 1 .. n \/ (i - n \in 1 .. Len(net[c]) - n /\ n + (i - n) = i)
      BY <1>3
    <3> QED
      BY <1>4, <1>5, <2>1, <3>1
  <2>2. \A i \in DOMAIN u : i \in DOMAIN net[c]
    BY <1>3, <1>4
  <2>3. \A i \in DOMAIN v : n + i \in DOMAIN net[c]
    BY <1>3, <1>5
  <2> QED
    BY <1>4, <1>5, <2>1, <2>2, <2>3
<1>8. {batch[c][i] : i \in DOMAIN batch[c]} = {}
  OBVIOUS
<1>9. InFlight(c)' = {v[i] : i \in DOMAIN v} \cup {u[i] : i \in DOMAIN u}
  BY <1>6 DEF InFlight
<1>10. InFlight(c) = {net[c][i] : i \in DOMAIN net[c]}
  BY <1>8 DEF InFlight
<1>11. InFlight(c)' = InFlight(c)
  BY <1>7, <1>9, <1>10
<1> QED
  BY <1>2, <1>11

(* Consuming takes the newest record.                                      *)
LEMMA FlightConsumed ==
  ASSUME TypeOK, NEW c \in Console, ConsumeInput(c) \/ ConsumeLeft(c)
  PROVE  /\ InFlight(c)' \cup {Newest(c)} = InFlight(c)
         /\ \A q \in Console : q # c => InFlight(q)' = InFlight(q)
<1>1. batch[c] # <<>> /\ net' = net /\ batch' = [batch EXCEPT ![c] = Unread(c)]
  BY DEF ConsumeInput, ConsumeLeft
<1>2. \A q \in Console : q # c => InFlight(q)' = InFlight(q)
  BY <1>1, FlightSame DEF TypeOK
<1>3. batch[c] \in Seq(Record) /\ batch'[c] = Unread(c) /\ net'[c] = net[c]
  BY <1>1 DEF TypeOK
<1>4. /\ Len(batch[c]) \in Nat \ {0} /\ DOMAIN batch[c] = 1 .. Len(batch[c])
      /\ DOMAIN Unread(c) = 1 .. Len(batch[c]) - 1
      /\ \A i \in 1 .. Len(batch[c]) - 1 : Unread(c)[i] = batch[c][i]
      /\ Newest(c) = batch[c][Len(batch[c])]
  <2>1. Unread(c) \in Seq(Record)
    BY <1>1, NewestRecord
  <2> QED
    BY <1>1, <1>3, <2>1, NewestRecord DEF Newest
<1>5. ASSUME NEW r
      PROVE  (\E i \in DOMAIN batch[c] : r = batch[c][i])
               <=> (\E i \in DOMAIN Unread(c) : r = Unread(c)[i]) \/ r = Newest(c)
  <2>1. \A i \in DOMAIN batch[c] : i \in DOMAIN Unread(c) \/ i = Len(batch[c])
    BY <1>4
  <2>2. Len(batch[c]) \in DOMAIN batch[c] /\ \A i \in DOMAIN Unread(c) : i \in DOMAIN batch[c]
    BY <1>4
  <2> QED
    BY <1>4, <2>1, <2>2
<1>6. {batch[c][i] : i \in DOMAIN batch[c]} = {Unread(c)[i] : i \in DOMAIN Unread(c)} \cup {Newest(c)}
  BY <1>5
<1>7. InFlight(c)' = {net[c][i] : i \in DOMAIN net[c]} \cup {Unread(c)[i] : i \in DOMAIN Unread(c)}
  BY <1>3 DEF InFlight
<1>8. InFlight(c)' \cup {Newest(c)} = InFlight(c)
  BY <1>6, <1>7 DEF InFlight
<1> QED
  BY <1>2, <1>8

(* What a written record says, and where it goes.                          *)
LEMMA Written ==
  ASSUME TypeOK, NEW c \in Console, Write(c)
  PROVE  \E r : /\ IsInput(r) /\ r.stamp = tick[c] + Delay /\ r.crc = crcv[c]
                /\ sent'[c] = tick[c] + Delay /\ batch' = batch
                /\ \A q \in Console : q # c => sent'[q] = sent[q]
                /\ \A q \in Console : q # Peer(c) => net'[q] = net[q]
                /\ \/ net'[Peer(c)] = Append(net[Peer(c)], r)
                   \/ net'[Peer(c)] = net[Peer(c)] /\ ~Playing(Peer(c))
<1> USE PeerFacts
<1> DEFINE stamp == tick[c] + Delay
           win   == [i \in 0 .. Window - 1 |-> local[c][LocalSlot(stamp - i)]]
           w     == Input(stamp, win, crcv[c])
<1>1. IsInput(w) /\ w.stamp = tick[c] + Delay /\ w.crc = crcv[c]
  BY DEF Input, IsInput
<1>2. sent' = [sent EXCEPT ![c] = tick[c] + Delay] /\ batch' = batch
  BY DEF Write
<1>3. \/ net' = [net EXCEPT ![Peer(c)] = Append(net[Peer(c)], w)]
      \/ net' = net /\ ~Playing(Peer(c))
  BY DEF Write, TypeOK, sim
<1> HIDE DEF w
<1>4. /\ \A q \in Console : q # Peer(c) => net'[q] = net[q]
      /\ \/ net'[Peer(c)] = Append(net[Peer(c)], w)
         \/ net'[Peer(c)] = net[Peer(c)] /\ ~Playing(Peer(c))
  BY <1>3 DEF TypeOK
<1>5. sent'[c] = tick[c] + Delay /\ \A q \in Console : q # c => sent'[q] = sent[q]
  BY <1>2 DEF TypeOK
<1> QED
  BY <1>1, <1>2, <1>4, <1>5

(* What only some steps change.                                            *)
LEMMA Untouched ==
  ASSUME TypeOK, NEW c \in Console, Frame(c) \/ NetStep(c) \/ Upset(c) \/ Drop(c)
  PROVE  /\ ~Write(c) => sent' = sent
         /\ ~ConsumeInput(c) => wm' = wm
         /\ ~Write(c) /\ ~Poll(c) /\ ~Drop(c) => net' = net
         /\ ~Poll(c) /\ ~ConsumeInput(c) /\ ~ConsumeLeft(c) => batch' = batch
         /\ \A q \in Console : q # c => batch'[q] = batch[q] /\ ns'[q] = ns[q] /\ wm'[q] = wm[q]
         /\ \A q \in Console : Playing(q)' => Playing(q)
<1>1. CASE Frame(c)
  <2>1. UNCHANGED <<sent, wm, net, batch, ns, gone>>
    BY <1>1 DEF Frame, MidTick, RunTick, Stall, GiveUp, Boundary
  <2>2. left' = left \/ left' = [left EXCEPT ![c] = TRUE]
    BY <1>1 DEF Frame, MidTick, RunTick, Stall, GiveUp
  <2> QED
    BY <2>1, <2>2 DEF Playing, TypeOK
<1>2. CASE Write(c)
  BY <1>2 DEF Write, sim, Playing, TypeOK
<1>3. CASE Poll(c)
  BY <1>3 DEF Poll, sim, Playing, TypeOK
<1>4. CASE ConsumeInput(c)
  <2>1. UNCHANGED <<sent, net, ns, left, gone>>
    BY <1>4 DEF ConsumeInput, sim
  <2>2. \A q \in Console : q # c => batch'[q] = batch[q] /\ wm'[q] = wm[q]
    BY <1>4 DEF ConsumeInput, TypeOK
  <2> QED
    BY <1>4, <2>1, <2>2 DEF Playing
<1>5. CASE ConsumeLeft(c)
  BY <1>5 DEF ConsumeLeft, Playing, TypeOK
<1>6. CASE ConsumeDone(c) \/ Fail(c)
  BY <1>6 DEF ConsumeDone, Fail, sim, Playing, TypeOK
<1>7. CASE Upset(c)
  BY <1>7 DEF Upset, sim, Playing
<1>8. CASE Drop(c)
  BY <1>8 DEF Drop, Playing, TypeOK
<1> QED
  BY <1>1, <1>2, <1>3, <1>4, <1>5, <1>6, <1>7, <1>8 DEF NetStep

-----------------------------------------------------------------------------
(* The states and checksums are right about the logs.                      *)

(* Arithmetic: a record is captured Delay ticks ahead of a tick that ran.  *)
LEMMA StampRan ==
  ASSUME NEW d \in Nat, NEW s \in Nat, NEW n \in Int, NEW t \in Int, NEW l \in Int,
         s \in d .. n, n \in d - 1 .. t + d, t <= l
  PROVE  s - d \in 0 .. l
OBVIOUS

(* The ticks a checksum speaks of have run on the console it is of.        *)
LEMMA Spoken ==
  ASSUME IInv, NEW c \in Console
  PROVE  /\ log[c] \in Seq(Inputs) /\ Len(log[c]) = Due(c) /\ Len(log[c]) \in Nat
         /\ Ticks(c) \in 0 .. Len(log[c])
         /\ game[c] \in Game /\ crcv[c] \in Game
         /\ \A r \in InFlight(c) : IsInput(r) =>
              /\ r \in Record /\ r.crc \in Game /\ r.stamp \in Nat
              /\ r.stamp - Delay \in 0 .. Len(log[Peer(c)])
<1> USE Sizes, PeerFacts
<1>1. TypeOK /\ LogTrue /\ Captured
  BY DEF IInv
<1>2. \A q \in Console : /\ log[q] \in Seq(Inputs) /\ Len(log[q]) = Due(q) /\ Len(log[q]) \in Nat
                         /\ tick[q] \in Int /\ Due(q) \in Int /\ tick[q] <= Due(q) /\ Due(q) >= 0
  BY <1>1, Reach DEF TypeOK, LogTrue
<1>3. Ticks(c) \in 0 .. Len(log[c])
  BY <1>2 DEF Ticks
<1>4. game[c] \in Game /\ crcv[c] \in Game
  BY <1>1 DEF TypeOK
<1>5. ASSUME NEW r \in InFlight(c), IsInput(r)
      PROVE  /\ r \in Record /\ r.crc \in Game /\ r.stamp \in Nat
             /\ r.stamp - Delay \in 0 .. Len(log[Peer(c)])
  <2>1. r \in Record
    BY <1>1, <1>5, InFlightType DEF InFlight
  <2>2. r.crc \in Game /\ r.stamp \in Nat
    BY <1>5, <2>1, InputRecord DEF IsInput
  <2>3. r.stamp \in Delay .. sent[Peer(c)] /\ sent[Peer(c)] \in Delay - 1 .. tick[Peer(c)] + Delay
    BY <1>5 DEF IInv, NotAhead, InFlight
  <2>4. r.stamp - Delay \in 0 .. Len(log[Peer(c)])
    <3>1. /\ Len(log[Peer(c)]) \in Int /\ tick[Peer(c)] \in Int /\ sent[Peer(c)] \in Int
          /\ tick[Peer(c)] <= Len(log[Peer(c)])
      BY <1>1, <1>2 DEF TypeOK
    <3>2. Delay \in Nat
      OBVIOUS
    <3> HIDE Sizes, PeerFacts
    <3> QED
      BY <2>2, <2>3, <3>1, <3>2, StampRan
  <2> QED
    BY <2>1, <2>2, <2>4
<1> QED
  BY <1>2, <1>3, <1>4, <1>5

(* As logs grow, what was right stays right.                               *)
LEMMA StatesKept ==
  ASSUME IInv, StatesTrue,
         \A q \in Console : \A i \in 1 .. Len(log[q]) : log'[q][i] = log[q][i]
  PROVE  \A q \in Console :
           /\ StateAfter(log'[q], Len(log[q]), game[q])
           /\ StateAfter(log'[q], Ticks(q), crcv[q])
           /\ \A r \in InFlight(q) :
                IsInput(r) => StateAfter(log'[Peer(q)], r.stamp - Delay, r.crc)
<1> SUFFICES ASSUME NEW q \in Console
             PROVE  /\ StateAfter(log'[q], Len(log[q]), game[q])
                    /\ StateAfter(log'[q], Ticks(q), crcv[q])
                    /\ \A r \in InFlight(q) :
                         IsInput(r) => StateAfter(log'[Peer(q)], r.stamp - Delay, r.crc)
  OBVIOUS
<1>1. /\ Len(log[q]) \in Nat /\ Ticks(q) \in 0 .. Len(log[q])
      /\ game[q] \in Game /\ crcv[q] \in Game
  BY Spoken
<1>2. StateAfter(log[q], Len(log[q]), game[q]) /\ StateAfter(log[q], Ticks(q), crcv[q])
  BY DEF StatesTrue
<1>3. StateAfter(log'[q], Len(log[q]), game[q])
  BY <1>1, <1>2, LongerLog
<1>4. StateAfter(log'[q], Ticks(q), crcv[q])
  <2>1. Ticks(q) \in Nat /\ \A i \in 1 .. Ticks(q) : log'[q][i] = log[q][i]
    BY <1>1
  <2> QED
    BY <1>1, <1>2, <2>1, LongerLog
<1>5. ASSUME NEW r \in InFlight(q), IsInput(r)
      PROVE  StateAfter(log'[Peer(q)], r.stamp - Delay, r.crc)
  <2>1. Peer(q) \in Console /\ Len(log[Peer(q)]) \in Nat
    BY PeerFacts, Spoken
  <2>2. r.crc \in Game /\ r.stamp - Delay \in 0 .. Len(log[Peer(q)])
    BY <1>5, Spoken
  <2>3. StateAfter(log[Peer(q)], r.stamp - Delay, r.crc)
    BY <1>5 DEF StatesTrue
  <2>4. r.stamp - Delay \in Nat /\ \A i \in 1 .. r.stamp - Delay : log'[Peer(q)][i] = log[Peer(q)][i]
    BY <2>1, <2>2
  <2> QED
    BY <2>2, <2>3, <2>4, LongerLog
<1> QED
  BY <1>3, <1>4, <1>5

LEMMA FrameStates ==
  ASSUME IInv, StatesTrue, NEW c \in Console, Frame(c)
  PROVE  StatesTrue'
<1>t. TypeOK
  BY DEF IInv
<1>1. UNCHANGED <<net, batch>>
  BY DEF Frame, MidTick, RunTick, Stall, GiveUp, Boundary
<1>2. \A q \in Console : InFlight(q)' = InFlight(q)
  BY <1>1, FlightSame
<1>3. \A r : IsInput(r)' = IsInput(r)
  BY DEF IsInput
<1>4. CASE MidTick(c)
  <2>1. UNCHANGED <<log, game, crcv, tick>>
    BY <1>4 DEF MidTick
  <2> QED
    BY <1>2, <2>1 DEF StatesTrue, Ticks
<1>5. CASE Boundary(c)
  <2>1. log[c] \in Seq(Inputs) /\ Len(log[c]) = Due(c) /\ Len(log[c]) \in Nat /\ game[c] \in Game
    BY Spoken
  <2>2. /\ \A q \in Console : q # c => log'[q] = log[q] /\ game'[q] = game[q]
        /\ \/ log'[c] = log[c] /\ game'[c] = game[c]
           \/ \E in \in Inputs : log'[c] = Append(log[c], in) /\ game'[c] = PlayOn(game[c], in)
    <3>1. CASE RunTick(c)
      <4> DEFINE in == Mix(c, Due(c), local'[c])
      <4>1. TypeOK'
        BY <1>t, TypeStep DEF Next
      <4>2. log'[c] = Append(log[c], in) /\ game'[c] = PlayOn(game[c], in)
            /\ \A q \in Console : q # c => log'[q] = log[q] /\ game'[q] = game[q]
        BY <1>t, <3>1 DEF RunTick, TypeOK
      <4> HIDE DEF in
      <4>3. in \in Inputs
        <5>1. log'[c] \in Seq(Inputs)
          BY <4>1 DEF TypeOK
        <5>2. Len(log'[c]) = Len(log[c]) + 1 /\ log'[c][Len(log[c]) + 1] = in
          BY <2>1, <4>2
        <5> QED
          BY <2>1, <5>1, <5>2
      <4> QED
        BY <4>2, <4>3
    <3>2. CASE Stall(c) \/ GiveUp(c)
      BY <3>2 DEF Stall, GiveUp
    <3>3. ~MidTick(c)
      BY <1>5 DEF Boundary, MidTick
    <3> QED
      BY <3>1, <3>2, <3>3 DEF Frame
  <2>3. \A q \in Console : \A i \in 1 .. Len(log[q]) : log'[q][i] = log[q][i]
    BY <2>1, <2>2
  <2>4. \A q \in Console :
           /\ StateAfter(log'[q], Len(log[q]), game[q])
           /\ StateAfter(log'[q], Ticks(q), crcv[q])
           /\ \A r \in InFlight(q) :
                IsInput(r) => StateAfter(log'[Peer(q)], r.stamp - Delay, r.crc)
    BY <2>3, StatesKept
  <2>5. StateAfter(log'[c], Len(log'[c]), game'[c])
    <3>1. CASE log'[c] = log[c] /\ game'[c] = game[c]
      BY <2>4, <3>1
    <3>2. ASSUME NEW in \in Inputs, log'[c] = Append(log[c], in), game'[c] = PlayOn(game[c], in)
          PROVE  StateAfter(log'[c], Len(log'[c]), game'[c])
      <4>1. Len(log'[c]) = Len(log[c]) + 1
        BY <2>1, <3>2
      <4>2. StateAfter(log[c], Len(log[c]), game[c])
        BY DEF StatesTrue
      <4> QED
        BY <2>1, <3>2, <4>1, <4>2, PlayedOn
    <3> QED
      BY <2>2, <3>1, <3>2
  <2>6. StateAfter(log'[c], Ticks(c)', crcv'[c])
    <3>1. CASE ran[c] /\ tick' = [tick EXCEPT ![c] = @ + 1] /\ crcv' = [crcv EXCEPT ![c] = game[c]]
      <4>1. crcv'[c] = game[c] /\ tick'[c] = tick[c] + 1 /\ tick[c] \in Int
        BY <1>t, <3>1 DEF TypeOK
      <4>2. Ticks(c)' = Len(log[c])
        BY <2>1, <3>1, <4>1 DEF Ticks, Due
      <4> QED
        BY <2>4, <4>1, <4>2
    <3>2. CASE UNCHANGED <<tick, crcv>>
      <4>1. Ticks(c)' = Ticks(c) /\ crcv'[c] = crcv[c]
        BY <3>2 DEF Ticks
      <4> QED
        BY <2>4, <4>1
    <3> QED
      BY <1>5, <3>1, <3>2 DEF Boundary, Commit
  <2>7. \A q \in Console : q # c => Ticks(q)' = Ticks(q) /\ crcv'[q] = crcv[q]
    <3>1. \/ tick' = tick /\ crcv' = crcv
          \/ /\ tick' = [tick EXCEPT ![c] = @ + 1]
             /\ crcv' = [crcv EXCEPT ![c] = game[c]]
      BY <1>5 DEF Boundary, Commit
    <3>2. tick \in [Console -> Int] /\ crcv \in [Console -> Game]
      BY <1>t DEF TypeOK
    <3>3. \A q \in Console : q # c => tick'[q] = tick[q] /\ crcv'[q] = crcv[q]
      BY <3>1, <3>2
    <3> QED
      BY <3>3 DEF Ticks
  <2>8. ASSUME NEW q \in Console, q # c
        PROVE  StateAfter(log'[q], Len(log'[q]), game'[q]) /\ StateAfter(log'[q], Ticks(q)', crcv'[q])
    BY <2>2, <2>4, <2>7, <2>8
  <2> QED
    BY <1>2, <2>4, <2>5, <2>6, <2>8 DEF StatesTrue, IsInput
<1> QED
  BY <1>4, <1>5 DEF Frame, RunTick, Stall, GiveUp

LEMMA OtherStates ==
  ASSUME IInv, StatesTrue, Delivered, NEW c \in Console, NetStep(c) \/ Upset(c) \/ Drop(c)
  PROVE  StatesTrue'
<1> USE PeerFacts
<1>t. TypeOK
  BY DEF IInv
<1>1. UNCHANGED <<log, tick, crcv>>
  BY DEF NetStep, Write, Poll, Fail, ConsumeInput, ConsumeLeft, ConsumeDone, Upset, Drop, sim
<1>2. \A q \in Console : Ticks(q)' = Ticks(q)
  BY <1>1 DEF Ticks
<1>3. \A q \in Console : StateAfter(log[q], Len(log[q]), game'[q])
  <2>1. CASE Upset(c)
    <3>1. game'[c].by = {<<c, Len(log[c])>>} /\ \A q \in Console : q # c => game'[q] = game[q]
      BY <1>t, <2>1 DEF Upset, TypeOK
    <3>2. StateAfter(log[c], Len(log[c]), game'[c])
      BY <3>1 DEF StateAfter
    <3> QED
      BY <3>1, <3>2 DEF StatesTrue
  <2>2. CASE ~Upset(c)
    <3>1. game' = game
      BY <2>2 DEF NetStep, Write, Poll, Fail, ConsumeInput, ConsumeLeft, ConsumeDone, Drop
    <3> QED
      BY <3>1 DEF StatesTrue
  <2> QED
    BY <2>1, <2>2
<1>4. ASSUME NEW q \in Console, NEW r \in InFlight(q)', IsInput(r)
      PROVE  StateAfter(log[Peer(q)], r.stamp - Delay, r.crc)
  <2>0. r \in InFlight(q) => StateAfter(log[Peer(q)], r.stamp - Delay, r.crc)
    BY <1>4 DEF StatesTrue
  <2>1. CASE Write(c)
    <3>1. PICK w : /\ w.stamp = tick[c] + Delay /\ w.crc = crcv[c] /\ batch' = batch
                   /\ \A k \in Console : k # Peer(c) => net'[k] = net[k]
                   /\ \/ net'[Peer(c)] = Append(net[Peer(c)], w)
                      \/ net'[Peer(c)] = net[Peer(c)]
      BY <1>t, <2>1, Written
    <3>2. CASE q = Peer(c) /\ net'[q] = Append(net[q], w)
      <4>1. InFlight(q)' = InFlight(q) \cup {w}
        BY <1>t, <3>1, <3>2, FlightAppended
      <4>2. ASSUME r = w
            PROVE  StateAfter(log[Peer(q)], r.stamp - Delay, r.crc)
        <5>1. tick[c] \in Int /\ tick[c] >= 0
          BY <1>t, <2>1 DEF Write, InPlay, TypeOK
        <5>2. r.stamp - Delay = Ticks(c) /\ Peer(q) = c
          BY <3>1, <3>2, <4>2, <5>1, Sizes DEF Ticks
        <5>3. StateAfter(log[c], Ticks(c), crcv[c])
          BY DEF StatesTrue
        <5> QED
          BY <3>1, <4>2, <5>2, <5>3
      <4> QED
        BY <2>0, <4>1, <4>2
    <3>3. CASE net'[q] = net[q]
      BY <2>0, <3>1, <3>3, FlightSame
    <3>4. net'[q] = net[q] \/ (q = Peer(c) /\ net'[q] = Append(net[q], w))
      BY <3>1
    <3> QED
      BY <3>2, <3>3, <3>4
  <2>2. CASE Poll(c)
    <3>1. batch[c] = <<>>
      BY <2>2 DEF Delivered, Poll
    <3> QED
      BY <1>t, <2>0, <2>2, <3>1, FlightRead
  <2>3. CASE ConsumeInput(c) \/ ConsumeLeft(c)
    <3>1. r \in InFlight(q)
      BY <1>t, <2>3, FlightConsumed
    <3> QED
      BY <2>0, <3>1
  <2>4. CASE Drop(c)
    <3>1. CASE q = Peer(c)
      <4>1. InFlight(q)' = InFlight(q) \cup {PeerLeft}
        <5>1. net'[q] = Append(net[q], PeerLeft) /\ batch'[q] = batch[q]
          BY <1>t, <2>4, <3>1 DEF TypeOK, Drop
        <5> QED
          BY <1>t, <5>1, FlightAppended
      <4> QED
        BY <1>4, <2>0, <4>1 DEF IsInput, PeerLeft
    <3>2. CASE q # Peer(c)
      <4>1. net'[q] = net[q] /\ batch'[q] = batch[q]
        BY <1>t, <2>4, <3>2 DEF TypeOK, Drop
      <4> QED
        BY <2>0, <4>1, FlightSame
    <3> QED
      BY <3>1, <3>2
  <2>5. CASE Fail(c) \/ ConsumeDone(c) \/ Upset(c)
    <3>1. net'[q] = net[q] /\ batch'[q] = batch[q]
      BY <2>5 DEF Fail, ConsumeDone, Upset
    <3> QED
      BY <2>0, <3>1, FlightSame
  <2> QED
    BY <2>1, <2>2, <2>3, <2>4, <2>5 DEF NetStep
<1> QED
  <2>1. \A q \in Console : StateAfter(log[q], Ticks(q), crcv[q])
    BY DEF StatesTrue
  <2> QED
    BY <1>1, <1>2, <1>3, <1>4, <2>1 DEF StatesTrue, IsInput

-----------------------------------------------------------------------------
(* Delivery.                                                               *)

LEMMA DeliveredStep ==
  ASSUME IInv, Delivered, Next
  PROVE  Delivered'
<1> USE PeerFacts
<1>t. TypeOK
  BY DEF IInv
<1>1. PICK c \in Console : Frame(c) \/ NetStep(c) \/ Upset(c) \/ Drop(c)
  BY DEF Next
<1>p. \A q \in Console : Playing(q)' => Playing(q)
  BY <1>1, <1>t, Untouched
<1>2. \A q \in Console : ns'[q] # "CONSUME" => batch'[q] = <<>>
  <2>1. CASE Poll(c)
    <3>1. PICK n \in 0 .. Len(net[c]) :
            /\ batch' = [batch EXCEPT ![c] = SubSeq(net[c], 1, n)]
            /\ ns'    = [ns EXCEPT ![c] = IF n = 0 THEN "WRITE" ELSE "CONSUME"]
      BY <2>1 DEF Poll
    <3>2. n = 0 => SubSeq(net[c], 1, n) = <<>>
      OBVIOUS
    <3>3. ns \in [Console -> {"WRITE", "POLL", "CONSUME"}] /\ batch \in [Console -> Seq(Record)]
      BY <1>t DEF TypeOK
    <3>4. \A q \in Console : q # c => ns'[q] = ns[q] /\ batch'[q] = batch[q]
      BY <3>1, <3>3
    <3>5. ns'[c] # "CONSUME" => batch'[c] = <<>>
      BY <3>1, <3>2, <3>3
    <3>6. \A q \in Console : ns[q] # "CONSUME" => batch[q] = <<>>
      BY DEF Delivered
    <3> QED
      BY <3>4, <3>5, <3>6
  <2>2. CASE ConsumeInput(c) \/ ConsumeLeft(c)
    <3>1. ns' = ns /\ ns[c] = "CONSUME"
      BY <2>2 DEF ConsumeInput, ConsumeLeft
    <3>2. \A q \in Console : q # c => batch'[q] = batch[q]
      BY <1>t, <1>1, Untouched
    <3> QED
      BY <3>1, <3>2 DEF Delivered
  <2>3. CASE ~Poll(c) /\ ~ConsumeInput(c) /\ ~ConsumeLeft(c)
    <3>1. batch' = batch /\ \A q \in Console : q # c => ns'[q] = ns[q]
      BY <1>1, <1>t, <2>3, Untouched
    <3>2. CASE Write(c) \/ Fail(c)
      BY <3>1, <3>2 DEF Write, Fail, Delivered
    <3>3. CASE ConsumeDone(c)
      BY <3>1, <3>3 DEF ConsumeDone, Delivered
    <3>4. CASE Frame(c) \/ Upset(c) \/ Drop(c)
      <4>1. ns' = ns
        BY <3>4 DEF Frame, MidTick, RunTick, Stall, GiveUp, Boundary, Upset, Drop
      <4> QED
        BY <3>1, <4>1 DEF Delivered
    <3> QED
      BY <1>1, <2>3, <3>2, <3>3, <3>4 DEF NetStep
  <2> QED
    BY <2>1, <2>2, <2>3
<1>3. ASSUME NEW q \in Console, Playing(q)'
      PROVE  \/ sent'[Peer(q)] = Delay - 1
             \/ wm'[q] = sent'[Peer(q)]
             \/ \E r \in InFlight(q)' : IsInput(r) /\ r.stamp = sent'[Peer(q)]
  <2>0. Playing(q) /\ \/ sent[Peer(q)] = Delay - 1
                      \/ wm[q] = sent[Peer(q)]
                      \/ \E r \in InFlight(q) : IsInput(r) /\ r.stamp = sent[Peer(q)]
    BY <1>3, <1>p DEF Delivered
  <2>1. CASE Write(c) /\ q = Peer(c)
    <3>1. PICK w : /\ IsInput(w) /\ w.stamp = tick[c] + Delay
                   /\ sent'[c] = tick[c] + Delay /\ batch' = batch
                   /\ \/ net'[Peer(c)] = Append(net[Peer(c)], w)
                      \/ ~Playing(Peer(c))
      BY <1>t, <2>1, Written
    <3>2. net'[Peer(c)] = Append(net[Peer(c)], w)
      BY <2>0, <2>1, <3>1
    <3>3. InFlight(q)' = InFlight(q) \cup {w}
      <4>1. net'[q] = Append(net[q], w) /\ batch'[q] = batch[q]
        BY <2>1, <3>1, <3>2
      <4> QED
        BY <1>t, <4>1, FlightAppended
    <3>4. sent'[Peer(q)] = tick[c] + Delay
      BY <2>1, <3>1
    <3> QED
      BY <3>1, <3>3, <3>4
  <2>2. CASE ~(Write(c) /\ q = Peer(c))
    <3>1. sent'[Peer(q)] = sent[Peer(q)]
      <4>1. CASE Write(c)
        <5>1. Peer(q) # c
          BY <2>2, <4>1
        <5> QED
          BY <1>t, <4>1, <5>1, Written
      <4>2. CASE ~Write(c)
        BY <1>1, <1>t, <4>2, Untouched
      <4> QED
        BY <4>1, <4>2
    <3>2. CASE ConsumeInput(c) /\ q = c
      <4>1. /\ Newest(c).stamp \in Nat /\ Newest(c).stamp <= sent[Peer(c)]
            /\ wm[c] \in Int /\ sent[Peer(c)] \in Int /\ wm[c] <= sent[Peer(c)]
            /\ wm'[c] = IF Newest(c).stamp >= wm[c] THEN Newest(c).stamp ELSE wm[c]
        BY <1>t, <3>2, WatermarkMoves DEF TypeOK, IInv, NotAhead
      <4>2. wm[c] = sent[Peer(c)] \/ Newest(c).stamp = sent[Peer(c)] => wm'[c] = sent[Peer(c)]
        BY <4>1
      <4>3. InFlight(c)' \cup {Newest(c)} = InFlight(c)
        BY <1>t, <3>2, FlightConsumed
      <4> QED
        BY <2>0, <3>1, <3>2, <4>2, <4>3
    <3>3. CASE ConsumeLeft(c) /\ q = c
      <4>1. InFlight(c)' \cup {Newest(c)} = InFlight(c) /\ ~IsInput(Newest(c)) /\ wm' = wm
        BY <1>t, <3>3, FlightConsumed DEF ConsumeLeft, IsInput
      <4> QED
        BY <2>0, <3>1, <3>3, <4>1
    <3>4. CASE ~((ConsumeInput(c) \/ ConsumeLeft(c)) /\ q = c)
      <4>1. wm'[q] = wm[q]
        BY <1>1, <1>t, <3>4, Untouched
      <4>2. InFlight(q) \subseteq InFlight(q)'
        <5>1. CASE Poll(c)
          <6>1. batch[c] = <<>>
            BY <5>1 DEF Delivered, Poll
          <6> QED
            BY <1>t, <5>1, <6>1, FlightRead
        <5>2. CASE Drop(c) /\ q = Peer(c)
          <6>1. net'[q] = Append(net[q], PeerLeft) /\ batch'[q] = batch[q]
            BY <1>t, <5>2 DEF TypeOK, Drop
          <6> QED
            BY <1>t, <6>1, FlightAppended
        <5>3. CASE ~Poll(c) /\ ~(Drop(c) /\ q = Peer(c))
          <6>1. net'[q] = net[q] /\ batch'[q] = batch[q]
            <7>1. batch'[q] = batch[q]
              BY <1>1, <1>t, <3>4, <5>3, Untouched
            <7>2. CASE Write(c)
              <8>1. q # Peer(c)
                BY <2>2, <7>2
              <8> QED
                BY <1>t, <7>1, <7>2, <8>1, Written
            <7>3. CASE Drop(c)
              BY <1>t, <5>3, <7>1, <7>3 DEF Drop, TypeOK
            <7>4. CASE ~Write(c) /\ ~Drop(c)
              BY <1>1, <1>t, <5>3, <7>1, <7>4, Untouched
            <7> QED
              BY <7>2, <7>3, <7>4
          <6> QED
            BY <6>1, FlightSame
        <5> QED
          BY <5>1, <5>2, <5>3
      <4> QED
        BY <2>0, <3>1, <4>1, <4>2
    <3> QED
      BY <3>2, <3>3, <3>4
  <2> QED
    BY <2>1, <2>2
<1> QED
  BY <1>2, <1>3 DEF Delivered, IsInput

-----------------------------------------------------------------------------
(* What arms a repair.                                                     *)

(* Two checksums that are compared are of the same tick; if neither is of  *)
(* a disturbed state, they are equal.                                      *)
LEMMA ComparedAlike ==
  ASSUME IInv, StatesTrue, NEW c \in Console, ConsumeInput(c), Disagrees(c, Newest(c))
  PROVE  crcv[c].by # {} \/ Newest(c).crc.by # {}
<1> USE PeerFacts, Sizes
<1> DEFINE p == Peer(c)
<1>t. TypeOK
  BY DEF IInv
<1>1. PICK r \in Record : r = Newest(c)
  BY WatermarkMoves
<1>2. /\ IsInput(r) /\ r.stamp \in Nat /\ r \in InFlight(c)
      /\ wm[c] \in Int /\ wm[c] >= -2 /\ wm[c] <= r.stamp + Window
      /\ Delay <= r.stamp /\ r.stamp <= sent[p]
  BY <1>1, WatermarkMoves DEF InFlight
<1>3. /\ Due(c) \in Int /\ Due(c) >= 0 /\ Due(c) >= tick[c] /\ tick[c] \in Int
      /\ sent[p] <= Due(c) + 2 * Delay + 1 /\ sent[p] \in Int
  BY <1>t, Reach DEF TypeOK
<1>4. tick[c] >= 0 /\ Due(c) <= tick[c] + 1 /\ (Due(c) = 0 \/ Due(c) <= wm[c] + 1)
  BY <1>3 DEF ConsumeInput, InPlay, IInv, Gated, Due
<1>5. r.stamp - Delay = tick[c]
  <2>1. Byte(Byte(r.stamp) - Delay) = Byte(tick[c]) /\ r.crc # crcv[c]
    BY <1>1 DEF Disagrees
  <2>2. r.stamp - Delay - tick[c] \in -128 .. 127
    BY <1>2, <1>3, <1>4
  <2> DEFINE s == r.stamp
             t == tick[c]
  <2>3. s \in Int /\ t \in Int /\ Delay \in 1 .. 3 /\ s - Delay - t \in -128 .. 127
        /\ ((s % 256) - Delay) % 256 = t % 256
    BY <1>2, <1>3, <2>1, <2>2 DEF Byte, TickMod
  <2> HIDE DEF s, t
  <2>4. s - Delay = t
    BY <2>3, SMT
  <2> QED
    BY <2>4 DEF s, t
<1>6. /\ Len(log[c]) \in Nat /\ Ticks(c) \in 0 .. Len(log[c]) /\ crcv[c] \in Game
      /\ r.crc \in Game /\ r.stamp - Delay \in 0 .. Len(log[p])
      /\ log[c] \in Seq(Inputs) /\ log[p] \in Seq(Inputs)
  BY <1>2, Spoken
<1>7. Ticks(c) = tick[c] /\ tick[c] \in Nat
  BY <1>3, <1>4 DEF Ticks
<1>8. StateAfter(log[c], tick[c], crcv[c]) /\ StateAfter(log[p], tick[c], r.crc)
  BY <1>2, <1>5, <1>7 DEF StatesTrue
<1>9. \A i \in 1 .. tick[c] : log[c][i] = log[p][i]
  <2> SUFFICES ASSUME NEW i \in 1 .. tick[c]
               PROVE  log[c][i] = log[p][i]
    OBVIOUS
  <2>1. i \in 1 .. Len(log[c]) /\ i \in 1 .. Len(log[p])
    BY <1>5, <1>6, <1>7
  <2>2. \A q \in Console : log[c][i][q] = Genuine(q, i - 1) /\ log[p][i][q] = Genuine(q, i - 1)
    BY <2>1 DEF IInv, LogTrue
  <2>3. log[c][i] \in Inputs /\ log[p][i] \in Inputs
    BY <1>6, <2>1
  <2> QED
    BY <2>2, <2>3 DEF Inputs
<1>10. r.crc # crcv[c]
  BY <1>1 DEF Disagrees
<1> HIDE DEF p
<1>11. ASSUME crcv[c].by = {}, r.crc.by = {}
       PROVE  r.crc = crcv[c]
  <2>1. crcv[c] \in Game /\ r.crc \in Game /\ tick[c] \in Nat
    BY <1>6, <1>7
  <2>2. \A g, h \in Game, n \in Nat :
          /\ StateAfter(log[c], n, g) /\ StateAfter(log[p], n, h)
          /\ \A i \in 1 .. n : log[c][i] = log[p][i]
          /\ g.by = {} /\ h.by = {}
          => g = h
    BY OneState
  <2> QED
    BY <2>1, <2>2, <1>8, <1>9, <1>11
<1> QED
  BY <1>1, <1>10, <1>11

LEMMA UndisturbedStep ==
  ASSUME IInv, StatesTrue, Delivered, Undisturbed, Next
  PROVE  Undisturbed'
<1> USE PeerFacts
<1>t. TypeOK
  BY DEF IInv
<1>1. PICK c \in Console : Frame(c) \/ NetStep(c) \/ Upset(c) \/ Drop(c)
  BY DEF Next
<1>2. CASE Upset(c)
  <2>1. upsets' = upsets + 1 /\ upsets \in Nat
    BY <1>t, <1>2, BoundsAssumption DEF Upset, TypeOK
  <2> QED
    BY <2>1 DEF Undisturbed
<1>3. CASE ~Upset(c)
  <2>1. upsets' = upsets
    BY <1>1, <1>3 DEF Frame, MidTick, RunTick, Stall, GiveUp, Boundary, NetStep, Write, Poll, Fail,
       ConsumeInput, ConsumeLeft, ConsumeDone, Drop
  <2> SUFFICES ASSUME upsets = 0, NEW q \in Console
               PROVE  /\ ~rsy'[q] /\ game'[q].by = {} /\ crcv'[q].by = {}
                      /\ \A r \in InFlight(q)' : IsInput(r) => r.crc.by = {}
    BY <2>1 DEF Undisturbed, IsInput
  <2>2. \A k \in Console : /\ ~rsy[k] /\ game[k].by = {} /\ crcv[k].by = {}
                           /\ \A r \in InFlight(k) : IsInput(r) => r.crc.by = {}
    BY DEF Undisturbed
  <2>3. game'[q].by = {}
    <3>1. CASE RunTick(c)
      <4>1. PICK in : game' = [game EXCEPT ![c] = PlayOn(game[c], in)]
        BY <3>1 DEF RunTick
      <4>2. PlayOn(game[c], in).by = {}
        <5>1. game[c] = [ran |-> game[c].ran, by |-> game[c].by]
          BY <1>t, GameType DEF TypeOK
        <5> QED
          BY <2>2, <5>1 DEF PlayOn
      <4> QED
        BY <1>t, <2>2, <4>1, <4>2 DEF TypeOK
    <3>2. CASE ~RunTick(c)
      <4>1. game' = game
        BY <1>1, <1>3, <3>2 DEF Frame, MidTick, Stall, GiveUp, NetStep, Write, Poll, Fail,
           ConsumeInput, ConsumeLeft, ConsumeDone, Drop
      <4> QED
        BY <2>2, <4>1
    <3> QED
      BY <3>1, <3>2
  <2>4. crcv'[q].by = {}
    <3>1. CASE Boundary(c)
      <4>1. crcv' = crcv \/ crcv' = [crcv EXCEPT ![c] = game[c]]
        BY <3>1 DEF Boundary, Commit
      <4>t. crcv \in [Console -> Game]
        BY <1>t DEF TypeOK
      <4>2. crcv'[q] \in {crcv[q], game[q]}
        BY <4>t, <4>1
      <4> QED
        BY <2>2, <4>2
    <3>2. CASE ~Boundary(c)
      <4>1. crcv' = crcv
        BY <1>1, <1>3, <3>2 DEF Frame, MidTick, RunTick, Stall, GiveUp, NetStep, Write, Poll, Fail,
           ConsumeInput, ConsumeLeft, ConsumeDone, Drop, sim
      <4> QED
        BY <2>2, <4>1
    <3> QED
      BY <3>1, <3>2
  <2>5. ~rsy'[q]
    <3>1. CASE ConsumeInput(c)
      <4>1. ~Disagrees(c, Newest(c))
        <5>1. Newest(c) \in InFlight(c) /\ IsInput(Newest(c))
          BY <1>t, <3>1, FlightConsumed DEF ConsumeInput, IsInput
        <5> QED
          BY <2>2, <3>1, <5>1, ComparedAlike
      <4>2. rsy' = [rsy EXCEPT ![c] = rsy[c] \/ Disagrees(c, Newest(c))]
        BY <3>1 DEF ConsumeInput
      <4> QED
        BY <1>t, <2>2, <4>1, <4>2 DEF TypeOK
    <3>2. CASE Boundary(c)
      <4>1. rsy' = rsy \/ rsy' = [rsy EXCEPT ![c] = FALSE]
        BY <3>2 DEF Boundary, Commit
      <4> QED
        BY <1>t, <2>2, <4>1 DEF TypeOK
    <3>3. CASE ~ConsumeInput(c) /\ ~Boundary(c)
      <4>1. rsy' = rsy
        BY <1>1, <1>3, <3>3 DEF Frame, MidTick, RunTick, Stall, GiveUp, NetStep, Write, Poll, Fail,
           ConsumeLeft, ConsumeDone, Drop
      <4> QED
        BY <2>2, <4>1
    <3> QED
      BY <3>1, <3>2, <3>3
  <2>6. ASSUME NEW r \in InFlight(q)', IsInput(r)
        PROVE  r.crc.by = {}
    <3>1. r \in InFlight(q) => r.crc.by = {}
      BY <2>2, <2>6
    <3>2. CASE Write(c)
      <4>1. PICK w : /\ w.crc = crcv[c] /\ batch' = batch
                     /\ \A k \in Console : k # Peer(c) => net'[k] = net[k]
                     /\ \/ net'[Peer(c)] = Append(net[Peer(c)], w)
                        \/ net'[Peer(c)] = net[Peer(c)]
        BY <1>t, <3>2, Written
      <4>2. net'[q] = net[q] \/ net'[q] = Append(net[q], w)
        BY <4>1
      <4>3. InFlight(q)' \in {InFlight(q), InFlight(q) \cup {w}}
        <5>1. CASE net'[q] = net[q]
          BY <4>1, <5>1, FlightSame
        <5>2. CASE net'[q] = Append(net[q], w)
          BY <1>t, <4>1, <5>2, FlightAppended
        <5> QED
          BY <4>2, <5>1, <5>2
      <4> QED
        BY <2>2, <2>6, <3>1, <4>1, <4>3
    <3>3. CASE Poll(c)
      <4>1. batch[c] = <<>>
        BY <3>3 DEF Delivered, Poll
      <4> QED
        BY <1>t, <2>6, <3>1, <3>3, <4>1, FlightRead
    <3>4. CASE ConsumeInput(c) \/ ConsumeLeft(c)
      BY <1>t, <2>6, <3>1, <3>4, FlightConsumed
    <3>5. CASE Drop(c)
      <4>1. batch' = batch /\ (net'[q] = net[q] \/ net'[q] = Append(net[q], PeerLeft))
        BY <1>t, <3>5 DEF Drop, TypeOK
      <4>2. InFlight(q)' \in {InFlight(q), InFlight(q) \cup {PeerLeft}}
        <5>1. CASE net'[q] = net[q]
          BY <4>1, <5>1, FlightSame
        <5>2. CASE net'[q] = Append(net[q], PeerLeft)
          BY <1>t, <4>1, <5>2, FlightAppended
        <5> QED
          BY <4>1, <5>1, <5>2
      <4> QED
        BY <2>6, <3>1, <4>2 DEF IsInput, PeerLeft
    <3>6. CASE ~Write(c) /\ ~Poll(c) /\ ~ConsumeInput(c) /\ ~ConsumeLeft(c) /\ ~Drop(c)
      <4>1. net' = net /\ batch' = batch
        BY <1>1, <1>t, <3>6, Untouched
      <4> QED
        BY <2>6, <3>1, <4>1, FlightSame
    <3> QED
      BY <3>2, <3>3, <3>4, <3>5, <3>6
  <2> QED
    BY <2>3, <2>4, <2>5, <2>6
<1> QED
  BY <1>2, <1>3

-----------------------------------------------------------------------------
(* States, checksums and deliveries stay what RepairInv says, as long as   *)
(* no READ brings more new ticks than a window spans.                      *)
THEOREM RepairInvariance ==
  ASSUME SmoothArrivals
  PROVE  Spec => []RepairInv
<1>1. Init => RepairInv
  <2> SUFFICES ASSUME Init
               PROVE  RepairInv
    OBVIOUS
  <2> USE PeerFacts
  <2>1. \A c \in Console : InFlight(c) = {}
    BY DEF Init, InFlight
  <2>2. StateAfter(<<>>, 0, Fresh)
    BY DEF StateAfter, Fresh
  <2>3. StatesTrue
    BY <2>1, <2>2 DEF Init, StatesTrue, Ticks
  <2>4. Undisturbed
    BY <2>1 DEF Init, Undisturbed, Fresh
  <2>5. Delivered
    BY DEF Init, Delivered
  <2> QED
    BY <2>3, <2>4, <2>5 DEF RepairInv
<1>2. IInv /\ RepairInv /\ [Next]_vars => RepairInv'
  <2> SUFFICES ASSUME IInv, RepairInv, [Next]_vars
               PROVE  RepairInv'
    OBVIOUS
  <2>1. CASE Next
    <3>1. PICK c \in Console : Frame(c) \/ NetStep(c) \/ Upset(c) \/ Drop(c)
      BY <2>1 DEF Next
    <3>2. StatesTrue'
      BY <3>1, FrameStates, OtherStates DEF RepairInv
    <3> QED
      BY <2>1, <3>2, UndisturbedStep, DeliveredStep DEF RepairInv
  <2>2. CASE UNCHANGED vars
    <3>1. \A c \in Console : InFlight(c)' = InFlight(c) /\ Ticks(c)' = Ticks(c) /\ Playing(c)' = Playing(c)
      BY <2>2 DEF vars, InFlight, Ticks, Playing
    <3>2. StatesTrue'
      BY <2>2, <3>1 DEF vars, RepairInv, StatesTrue, IsInput
    <3>3. Undisturbed'
      BY <2>2, <3>1 DEF vars, RepairInv, Undisturbed, IsInput
    <3>4. Delivered'
      BY <2>2, <3>1 DEF vars, RepairInv, Delivered, IsInput
    <3> QED
      BY <3>2, <3>3, <3>4 DEF RepairInv
  <2> QED
    BY <2>1, <2>2
<1> QED
  BY <1>1, <1>2, Invariance, PTL DEF Spec

(* The two parts together are what the model checker is given.             *)
THEOREM LockstepInvariance ==
  ASSUME SmoothArrivals
  PROVE  Spec => []LockstepInv
<1>1. IInv /\ RepairInv => LockstepInv
  BY DEF LockstepInv
<1> QED
  BY <1>1, Invariance, RepairInvariance, PTL

(* "A false positive is impossible" (vonet.inc): without a disturbance no  *)
(* console arms a repair.                                                  *)
THEOREM NeverFalselyArmed ==
  ASSUME SmoothArrivals
  PROVE  Spec => []NoFalseAlarm
<1>1. RepairInv => NoFalseAlarm
  BY DEF RepairInv, Undisturbed, NoFalseAlarm
<1> QED
  BY <1>1, RepairInvariance, PTL

(* Whatever arms a repair, one of the two checksums that were compared is  *)
(* of a disturbed state: comparing records of one tick only is enough.     *)
THEOREM ArmedByCause ==
  ASSUME SmoothArrivals
  PROVE  Spec => ArmedByDisturbance
<1>1. IInv /\ RepairInv /\ [Next]_vars
        => [\A c \in Console : ~rsy[c] /\ rsy'[c] =>
              crcv[c].by # {} \/ Newest(c).crc.by # {}]_vars
  <2> SUFFICES ASSUME IInv, RepairInv, Next, NEW q \in Console, ~rsy[q], rsy'[q]
               PROVE  crcv[q].by # {} \/ Newest(q).crc.by # {}
    OBVIOUS
  <2>t. TypeOK
    BY DEF IInv
  <2>1. PICK c \in Console : Frame(c) \/ NetStep(c) \/ Upset(c) \/ Drop(c)
    BY DEF Next
  <2>2. CASE ConsumeInput(c)
    <3>1. rsy' = [rsy EXCEPT ![c] = rsy[c] \/ Disagrees(c, Newest(c))]
      BY <2>2 DEF ConsumeInput
    <3>2. q = c /\ Disagrees(c, Newest(c))
      BY <2>t, <3>1 DEF TypeOK
    <3> QED
      BY <2>2, <3>2, ComparedAlike DEF RepairInv
  <2>3. CASE ~ConsumeInput(c)
    <3>1. rsy' = rsy \/ rsy' = [rsy EXCEPT ![c] = FALSE]
      BY <2>1, <2>3 DEF Frame, MidTick, RunTick, Stall, GiveUp, Boundary, Commit, NetStep, Write, Poll,
         Fail, ConsumeLeft, ConsumeDone, Upset, Drop
    <3> QED
      BY <2>t, <3>1 DEF TypeOK
  <2> QED
    BY <2>2, <2>3
<1> QED
  BY <1>1, Invariance, RepairInvariance, PTL DEF Spec, ArmedByDisturbance

(* A RESET makes the consoles equal again: with the same ticks run and no  *)
(* disturbance left, both are in the one state their common log leads to.  *)
THEOREM RepairedAlike ==
  ASSUME SmoothArrivals
  PROVE  Spec => []RepairedTogether
<1>1. IInv /\ RepairInv /\ Agreement => RepairedTogether
  <2> SUFFICES ASSUME IInv, RepairInv, Agreement, Len(log[Host]) = Len(log[Guest]),
                      \A c \in Console : game[c].by = {}
               PROVE  game[Host] = game[Guest]
    BY DEF RepairedTogether
  <2>1. Host \in Console /\ Guest \in Console
    BY DEF Console
  <2>2. game[Host] \in Game /\ game[Guest] \in Game /\ Len(log[Host]) \in Nat
    BY <2>1, Spoken
  <2>3. StateAfter(log[Host], Len(log[Host]), game[Host])
        /\ StateAfter(log[Guest], Len(log[Host]), game[Guest])
    BY <2>1 DEF RepairInv, StatesTrue
  <2>4. \A i \in 1 .. Len(log[Host]) : log[Host][i] = log[Guest][i]
    BY <2>2 DEF Agreement
  <2>5. game[Host].by = {} /\ game[Guest].by = {}
    BY <2>1
  <2>6. \A g, h \in Game, n \in Nat :
          /\ StateAfter(log[Host], n, g) /\ StateAfter(log[Guest], n, h)
          /\ \A i \in 1 .. n : log[Host][i] = log[Guest][i]
          /\ g.by = {} /\ h.by = {}
          => g = h
    BY OneState
  <2> QED
    BY <2>2, <2>3, <2>4, <2>5, <2>6
<1> QED
  BY <1>1, Invariance, RepairInvariance, ConsolesAgree, PTL

-----------------------------------------------------------------------------
(* The gates never wait for each other: with everything written and read,  *)
(* the console that is not ahead has the record of its next tick.          *)
THEOREM GatesNeverLock ==
  ASSUME SmoothArrivals
  PROVE  Spec => []NoMutualStall
<1>1. IInv /\ RepairInv => NoMutualStall
  <2> SUFFICES ASSUME IInv, RepairInv, \A c \in Console : InPlay(c) /\ Settled(c)
               PROVE  \E c \in Console : Open(c)
    BY DEF NoMutualStall
  <2> USE PeerFacts, Sizes
  <2>1. ASSUME NEW c \in Console
        PROVE  tick[c] \in Int /\ tick[c] >= 0 /\ wm[c] = tick[Peer(c)] + Delay
               /\ Due(c) \in Int /\ Due(c) <= tick[c] + 1
    <3>1. tick[c] \in Int /\ tick[Peer(c)] \in Int /\ Due(c) \in Int
      BY Reach
    <3>2. tick[c] >= 0 /\ tick[Peer(c)] >= 0 /\ Playing(c)
      BY DEF InPlay
    <3>3. sent[Peer(c)] = tick[Peer(c)] + Delay /\ InFlight(c) = {}
      BY DEF Settled, InFlight
    <3>4. wm[c] = sent[Peer(c)]
      BY <3>1, <3>2, <3>3 DEF RepairInv, Delivered
    <3>5. Due(c) <= tick[c] + 1
      BY <3>1 DEF Due
    <3> QED
      BY <3>1, <3>2, <3>3, <3>4, <3>5
  <2>2. PICK c \in Console : tick[c] <= tick[Peer(c)]
    <3>1. Host \in Console
      BY DEF Console
    <3> QED
      BY <2>1, <3>1
  <2>3. wm[c] >= Due(c)
    BY <2>1, <2>2
  <2> QED
    BY <2>3, OpenMeans
<1> QED
  BY <1>1, Invariance, RepairInvariance, PTL
=============================================================================
