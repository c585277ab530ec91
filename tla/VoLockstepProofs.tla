-------------------------- MODULE VoLockstepProofs --------------------------
(***************************************************************************)
(* Proofs about VoLockstep, for every value of its constants.              *)
(***************************************************************************)
EXTENDS VoLockstepInv, SequenceTheorems, TLAPS

(* The two roles are each other's peer.                                    *)
LEMMA PeerFacts ==
  \A c \in Console :
    /\ Peer(c) \in Console /\ Peer(c) # c /\ Peer(Peer(c)) = c
    /\ \A q \in Console : q = c \/ q = Peer(c)
  BY RolesAssumption DEF Console, Peer

LEMMA InFlightType ==
  ASSUME TypeOK, NEW c \in Console
  PROVE  /\ net[c] \in Seq(Record) /\ batch[c] \in Seq(Record)
         /\ \A i \in DOMAIN net[c]   : net[c][i] \in Record
         /\ \A i \in DOMAIN batch[c] : batch[c][i] \in Record
<1>1. net[c] \in Seq(Record) /\ batch[c] \in Seq(Record)
  BY DEF TypeOK
<1> QED
  BY <1>1

(* Slots and bytes stay in their ranges.                                   *)
LEMMA SlotRange ==
  \A x \in Int : /\ Byte(x) \in 0 .. 255
                 /\ LocalSlot(x) \in 0 .. LocalSlots - 1
                 /\ RemoteSlot(x) \in 0 .. RemoteSlots - 1
  BY DEF Byte, LocalSlot, RemoteSlot, TickMod, LocalSlots, RemoteSlots

(* Two ticks nearer to each other than a ring is long have different slots.*)
LEMMA LocalSlotsDiffer ==
  \A x, y \in Int : x # y /\ x - y < LocalSlots /\ y - x < LocalSlots
    => LocalSlot(x) # LocalSlot(y)
  BY SMT DEF Byte, LocalSlot, TickMod, LocalSlots

LEMMA RemoteSlotsDiffer ==
  \A x, y \in Int : x # y /\ x - y < RemoteSlots /\ y - x < RemoteSlots
    => RemoteSlot(x) # RemoteSlot(y)
  BY SMT DEF Byte, RemoteSlot, TickMod, RemoteSlots

(* The signed compare of two bytes is the difference of the ticks they     *)
(* stand for, as long as those are less than half a lap apart.             *)
LEMMA SignedDifference ==
  \A x, y \in Int : x - y \in -128 .. 127
    => Signed(Byte(Byte(x) - Byte(y))) = x - y
  BY SMT DEF Byte, Signed, TickMod

(* The first n elements of a sequence, and the others.                     *)
LEMMA Prefix ==
  ASSUME NEW S, NEW s \in Seq(S), NEW n \in 0 .. Len(s)
  PROVE  /\ SubSeq(s, 1, n) \in Seq(S)
         /\ Len(SubSeq(s, 1, n)) = n
         /\ \A i \in 1 .. n : SubSeq(s, 1, n)[i] = s[i]
<1>1. \A i \in 1 .. n : s[i] \in S
  OBVIOUS
<1>2. SubSeq(s, 1, n) \in Seq(S)
  BY <1>1, SubSeqProperties
<1>3. Len(SubSeq(s, 1, n)) = IF 1 <= n THEN n - 1 + 1 ELSE 0
  BY <1>1, SubSeqProperties
<1>4. \A i \in 1 .. n - 1 + 1 : SubSeq(s, 1, n)[i] = s[1 + i - 1]
  BY <1>1, SubSeqProperties
<1> QED
  BY <1>2, <1>3, <1>4

LEMMA Suffix ==
  ASSUME NEW S, NEW s \in Seq(S), NEW n \in 0 .. Len(s)
  PROVE  /\ SubSeq(s, n + 1, Len(s)) \in Seq(S)
         /\ Len(SubSeq(s, n + 1, Len(s))) = Len(s) - n
         /\ \A i \in 1 .. Len(s) - n : SubSeq(s, n + 1, Len(s))[i] = s[n + i]
<1>1. \A i \in n + 1 .. Len(s) : s[i] \in S
  OBVIOUS
<1>2. SubSeq(s, n + 1, Len(s)) \in Seq(S)
  BY <1>1, SubSeqProperties
<1>3. Len(SubSeq(s, n + 1, Len(s)))
        = IF n + 1 <= Len(s) THEN Len(s) - (n + 1) + 1 ELSE 0
  BY <1>1, SubSeqProperties
<1>4. \A i \in 1 .. Len(s) - (n + 1) + 1 :
        SubSeq(s, n + 1, Len(s))[i] = s[n + 1 + i - 1]
  BY <1>1, SubSeqProperties
<1> QED
  BY <1>2, <1>3, <1>4

LEMMA InputRecord ==
  \A r \in Record : r.kind = "INPUT" =>
    /\ r \in [kind: {"INPUT"}, stamp: Nat, win: [0 .. Window - 1 -> Token], crc: Game]
    /\ r.stamp \in Nat /\ r.win \in [0 .. Window - 1 -> Token] /\ r.crc \in Game
  BY DEF Record, PeerLeft

-----------------------------------------------------------------------------
(* Type correctness.                                                       *)

LEMMA TypeInit == Init => TypeOK
<1> SUFFICES ASSUME Init PROVE TypeOK
  OBVIOUS
<1>1. Idle \in Token /\ Fresh \in Game
  BY DEF Idle, Token, Fresh, Game
<1> QED
  BY <1>1, BoundsAssumption, SizesAssumption DEF Init, TypeOK

(* What a boundary does to the captures.                                   *)
LEMMA CommitType ==
  ASSUME TypeOK, NEW c \in Console, Commit(c)
  PROVE  /\ tick' \in [Console -> Int]
         /\ crcv' \in [Console -> Game]
         /\ taken' \in [Console -> Seq(Token)]
         /\ local' \in [Console -> [0 .. LocalSlots - 1 -> Token]]
         /\ rsy' \in [Console -> BOOLEAN]
<1>1. CASE ran[c]
  <2>1. PICK press \in UserReset :
          LET token == [by |-> c, n |-> Len(taken[c]) + 1, rst |-> press \/ rsy[c]]
          IN  /\ taken' = [taken EXCEPT ![c] = Append(@, token)]
              /\ local' = [local EXCEPT ![c][LocalSlot(Due(c) + Delay)] = token]
    BY <1>1 DEF Commit
  <2> DEFINE token == [by |-> c, n |-> Len(taken[c]) + 1, rst |-> press \/ rsy[c]]
  <2>2. token \in Token
    <3>1. Len(taken[c]) + 1 \in Nat
      BY DEF TypeOK
    <3>2. (press \/ rsy[c]) \in BOOLEAN
      OBVIOUS
    <3>3. token \in [by: Console, n: Nat, rst: BOOLEAN]
      BY <3>1, <3>2, Zenon
    <3> QED
      BY <3>3 DEF Token
  <2>3. LocalSlot(Due(c) + Delay) \in 0 .. LocalSlots - 1
    <3>1. Due(c) \in Int /\ Delay \in Int
      BY SizesAssumption DEF TypeOK, Due, LocalSlots
    <3> QED
      BY <3>1, SlotRange
  <2> HIDE DEF token
  <2>4. taken' = [taken EXCEPT ![c] = Append(@, token)]
        /\ local' = [local EXCEPT ![c][LocalSlot(Due(c) + Delay)] = token]
    BY <2>1 DEF token
  <2>5. taken' \in [Console -> Seq(Token)]
    BY <2>2, <2>4 DEF TypeOK
  <2>6. local' \in [Console -> [0 .. LocalSlots - 1 -> Token]]
    BY <2>2, <2>3, <2>4 DEF TypeOK
  <2>7. /\ tick' = [tick EXCEPT ![c] = @ + 1]
        /\ crcv' = [crcv EXCEPT ![c] = game[c]]
        /\ rsy' = [rsy EXCEPT ![c] = FALSE]
    BY <1>1 DEF Commit
  <2> QED
    BY <2>5, <2>6, <2>7 DEF TypeOK
<1>2. CASE ~ran[c]
  BY <1>2 DEF TypeOK, Commit
<1> QED
  BY <1>1, <1>2

LEMMA MixType ==
  ASSUME TypeOK, NEW c \in Console, NEW x \in Int,
         NEW own \in [0 .. LocalSlots - 1 -> Token]
  PROVE  Mix(c, x, own) \in Inputs
<1>1. remote[c] \in [0 .. RemoteSlots - 1 -> Token]
  BY DEF TypeOK
<1>2. LocalSlot(x) \in 0 .. LocalSlots - 1 /\ RemoteSlot(x) \in 0 .. RemoteSlots - 1
  BY SlotRange
<1>3. own[LocalSlot(x)] \in Token /\ remote[c][RemoteSlot(x)] \in Token
  BY <1>1, <1>2
<1> QED
  BY <1>3 DEF Mix, Inputs

LEMMA PlayOnType ==
  ASSUME NEW g \in Game, NEW i \in Inputs
  PROVE  PlayOn(g, i) \in Game
<1>1. CASE Pressed(i)
  BY <1>1 DEF PlayOn, Game
<1>2. CASE ~Pressed(i)
  <2>1. Append(g.ran, i) \in Seq(Inputs)
    BY DEF Game
  <2> QED
    BY <1>2, <2>1 DEF PlayOn, Game
<1> QED
  BY <1>1, <1>2

LEMMA FrameType ==
  ASSUME TypeOK, NEW c \in Console, Frame(c)
  PROVE  TypeOK'
<1>0. phase' = [phase EXCEPT ![c] = (@ + 1) % FramesPerTick]
        => phase' \in [Console -> 0 .. FramesPerTick - 1]
  <2>1. FramesPerTick \in Nat \ {0} /\ phase \in [Console -> 0 .. FramesPerTick - 1]
    BY BoundsAssumption DEF TypeOK
  <2>2. (phase[c] + 1) % FramesPerTick \in 0 .. FramesPerTick - 1
    BY <2>1
  <2> QED
    BY <2>1, <2>2
<1>1. CASE MidTick(c)
  <2>1. phase' \in [Console -> 0 .. FramesPerTick - 1]
    BY <1>0, <1>1 DEF MidTick
  <2> QED
    BY <1>1, <2>1 DEF MidTick, TypeOK
<1>2. CASE RunTick(c)
  <2>1. phase' \in [Console -> 0 .. FramesPerTick - 1]
    BY <1>0, <1>2 DEF RunTick
  <2>2. Commit(c)
    BY <1>2 DEF RunTick, Boundary
  <2> DEFINE in == Mix(c, Due(c), local'[c])
  <2>3. Due(c) \in Int
    BY DEF TypeOK, Due
  <2>4. in \in Inputs
    BY <2>2, <2>3, CommitType, MixType
  <2>5. game[c] \in Game /\ log[c] \in Seq(Inputs)
    BY DEF TypeOK
  <2>6. PlayOn(game[c], in) \in Game
    BY <2>4, <2>5, PlayOnType
  <2>7. Append(log[c], in) \in Seq(Inputs)
    BY <2>4, <2>5
  <2>8. /\ log' = [log EXCEPT ![c] = Append(log[c], in)]
        /\ game' = [game EXCEPT ![c] = PlayOn(game[c], in)]
    BY <1>2 DEF RunTick, TypeOK
  <2> HIDE DEF in
  <2>9. log' \in [Console -> Seq(Inputs)] /\ game' \in [Console -> Game]
    BY <2>6, <2>7, <2>8 DEF TypeOK
  <2>10. stall' \in [Console -> 0 .. StallLimit] /\ ran' \in [Console -> BOOLEAN]
    <3>1. stall' = [stall EXCEPT ![c] = 0] /\ ran' = [ran EXCEPT ![c] = TRUE]
      BY <1>2 DEF RunTick
    <3> QED
      BY <3>1, BoundsAssumption DEF TypeOK
  <2>11. UNCHANGED <<left, gone, remote, wm, ns, batch, net, upsets, sent>>
    BY <1>2 DEF RunTick, Boundary
  <2> QED
    BY <2>1, <2>2, <2>9, <2>10, <2>11, CommitType DEF TypeOK
<1>3. CASE Stall(c)
  <2>1. Commit(c)
    BY <1>3 DEF Stall, Boundary
  <2>2. stall' \in [Console -> 0 .. StallLimit] /\ ran' \in [Console -> BOOLEAN]
    <3>1. /\ stall[c] < StallLimit /\ stall' = [stall EXCEPT ![c] = stall[c] + 1]
          /\ ran' = [ran EXCEPT ![c] = FALSE]
      BY <1>3 DEF Stall, TypeOK
    <3>2. stall \in [Console -> 0 .. StallLimit] /\ StallLimit \in Nat
      BY BoundsAssumption DEF TypeOK
    <3>3. stall' \in [Console -> 0 .. StallLimit]
      BY <3>1, <3>2
    <3> QED
      BY <3>1, <3>3 DEF TypeOK
  <2>3. UNCHANGED <<phase, left, gone, remote, wm, ns, batch, net, game, upsets,
                    sent, log>>
    BY <1>3 DEF Stall, Boundary
  <2> QED
    BY <2>1, <2>2, <2>3, CommitType DEF TypeOK
<1>4. CASE GiveUp(c)
  <2>1. Commit(c)
    BY <1>4 DEF GiveUp, Boundary
  <2>2. left' \in [Console -> BOOLEAN] /\ ran' \in [Console -> BOOLEAN]
    BY <1>4 DEF GiveUp, TypeOK
  <2>3. UNCHANGED <<phase, stall, gone, remote, wm, ns, batch, net, game, upsets,
                    sent, log>>
    BY <1>4 DEF GiveUp, Boundary
  <2> QED
    BY <2>1, <2>2, <2>3, CommitType DEF TypeOK
<1> QED
  BY <1>1, <1>2, <1>3, <1>4 DEF Frame

(* The record a console writes, and the ring as CONSUME leaves it.         *)
LEMMA WrittenRecord ==
  ASSUME TypeOK, NEW c \in Console, InPlay(c)
  PROVE  LET stamp == tick[c] + Delay
             win   == [i \in 0 .. Window - 1 |-> local[c][LocalSlot(stamp - i)]]
         IN  /\ stamp \in Nat
             /\ Input(stamp, win, crcv[c]) \in Record
<1> DEFINE stamp == tick[c] + Delay
           win   == [i \in 0 .. Window - 1 |-> local[c][LocalSlot(stamp - i)]]
<1>1. stamp \in Nat
  <2>1. tick[c] \in Int /\ tick[c] >= 0 /\ Delay \in Nat
    BY SizesAssumption DEF TypeOK, InPlay, LocalSlots
  <2> QED
    BY <2>1
<1>2. \A i \in 0 .. Window - 1 : local[c][LocalSlot(stamp - i)] \in Token
  <2>1. \A i \in 0 .. Window - 1 : stamp - i \in Int
    BY <1>1, SizesAssumption DEF LocalSlots
  <2>2. local[c] \in [0 .. LocalSlots - 1 -> Token]
    BY DEF TypeOK
  <2> QED
    BY <2>1, <2>2, SlotRange
<1>3. win \in [0 .. Window - 1 -> Token]
  BY <1>2
<1> HIDE DEF stamp, win
<1>4. Input(stamp, win, crcv[c]) \in Record
  BY <1>1, <1>3 DEF Input, Record, TypeOK
<1> QED
  BY <1>1, <1>4 DEF stamp, win

LEMMA StoreType ==
  ASSUME TypeOK, NEW c \in Console, NEW r \in Record, r.kind = "INPUT"
  PROVE  Store(c, r) \in [0 .. RemoteSlots - 1 -> Token]
<1>1. r.win \in [0 .. Window - 1 -> Token]
  BY InputRecord
<1>2. ASSUME NEW s \in 0 .. RemoteSlots - 1
      PROVE  Store(c, r)[s] \in Token
  <2>1. remote[c][s] \in Token
    <3>1. remote[c] \in [0 .. RemoteSlots - 1 -> Token]
      BY DEF TypeOK
    <3> QED
      BY <3>1
  <2>2. CASE \E i \in 0 .. Window - 1 : RemoteSlot(r.stamp - i) = s
    <3>1. (CHOOSE i \in 0 .. Window - 1 : RemoteSlot(r.stamp - i) = s)
            \in 0 .. Window - 1
      BY <2>2
    <3> QED
      BY <1>1, <2>2, <3>1 DEF Store
  <2>3. CASE ~ \E i \in 0 .. Window - 1 : RemoteSlot(r.stamp - i) = s
    BY <2>1, <2>3 DEF Store
  <2> QED
    BY <2>2, <2>3
<1> QED
  BY <1>2 DEF Store

LEMMA NewestRecord ==
  ASSUME TypeOK, NEW c \in Console, batch[c] # <<>>
  PROVE  /\ Len(batch[c]) \in Nat \ {0}
         /\ Newest(c) \in Record
         /\ Unread(c) \in Seq(Record)
         /\ Len(Unread(c)) = Len(batch[c]) - 1
         /\ \A i \in 1 .. Len(batch[c]) - 1 : Unread(c)[i] = batch[c][i]
<1> DEFINE b == batch[c]
<1>1. b \in Seq(Record) /\ b # <<>>
  BY DEF TypeOK
<1>2. /\ Newest(c) = b[Len(b)]
      /\ Unread(c) = SubSeq(b, 1, Len(b) - 1)
  BY DEF Newest, Unread
<1> HIDE DEF b
<1>3. Len(b) \in Nat \ {0} /\ b[Len(b)] \in Record
  BY <1>1
<1>4. /\ SubSeq(b, 1, Len(b) - 1) \in Seq(Record)
      /\ Len(SubSeq(b, 1, Len(b) - 1)) = Len(b) - 1
      /\ \A i \in 1 .. Len(b) - 1 : SubSeq(b, 1, Len(b) - 1)[i] = b[i]
  <2>1. Len(b) - 1 \in 0 .. Len(b)
    BY <1>3
  <2> QED
    BY <1>1, <2>1, Prefix
<1> QED
  BY <1>2, <1>3, <1>4 DEF b

LEMMA NetType ==
  ASSUME TypeOK, NEW c \in Console, NetStep(c)
  PROVE  TypeOK'
<1>1. CASE Write(c)
  <2> DEFINE stamp == tick[c] + Delay
             win   == [i \in 0 .. Window - 1 |-> local[c][LocalSlot(stamp - i)]]
             r     == Input(stamp, win, crcv[c])
  <2>1. stamp \in Int /\ r \in Record
    BY <1>1, WrittenRecord DEF Write
  <2>2. /\ \/ net' = [net EXCEPT ![Peer(c)] = Append(net[Peer(c)], r)]
           \/ net' = net
        /\ sent' = [sent EXCEPT ![c] = stamp]
    BY <1>1, PeerFacts DEF Write, TypeOK
  <2>3. /\ ns' = [ns EXCEPT ![c] = "POLL"]
        /\ UNCHANGED <<sim, remote, wm, batch, rsy, game, upsets>>
    BY <1>1 DEF Write
  <2> HIDE DEF r, stamp
  <2>4. Append(net[Peer(c)], r) \in Seq(Record)
    BY <2>1, PeerFacts DEF TypeOK
  <2>5. net' \in [Console -> Seq(Record)] /\ sent' \in [Console -> Int]
    <3>1. net \in [Console -> Seq(Record)] /\ sent \in [Console -> Int]
      BY DEF TypeOK
    <3>2. net' \in [Console -> Seq(Record)]
      BY <2>2, <2>4, <3>1
    <3>3. sent' \in [Console -> Int]
      BY <2>1, <2>2, <3>1
    <3> QED
      BY <3>2, <3>3
  <2> QED
    BY <2>3, <2>5 DEF sim, TypeOK
<1>2. CASE Poll(c)
  <2>1. PICK n \in 0 .. Len(net[c]) :
          /\ batch' = [batch EXCEPT ![c] = SubSeq(net[c], 1, n)]
          /\ net'   = [net EXCEPT ![c] = SubSeq(net[c], n + 1, Len(net[c]))]
          /\ ns'    = [ns EXCEPT ![c] = IF n = 0 THEN "WRITE" ELSE "CONSUME"]
    BY <1>2 DEF Poll, TypeOK
  <2>2. net[c] \in Seq(Record) /\ Len(net[c]) \in Nat
    BY DEF TypeOK
  <2>3. SubSeq(net[c], 1, n) \in Seq(Record)
    BY <2>2, Prefix
  <2>4. SubSeq(net[c], n + 1, Len(net[c])) \in Seq(Record)
    BY <2>2, Suffix
  <2>5. UNCHANGED <<sim, remote, wm, rsy, game, upsets, sent>>
    BY <1>2 DEF Poll
  <2> QED
    BY <2>1, <2>3, <2>4, <2>5 DEF sim, TypeOK
<1>3. CASE ConsumeInput(c)
  <2>1. Newest(c) \in Record /\ Unread(c) \in Seq(Record)
    BY <1>3, NewestRecord DEF ConsumeInput
  <2>2. /\ Newest(c).stamp \in Int
        /\ Store(c, Newest(c)) \in [0 .. RemoteSlots - 1 -> Token]
    BY <1>3, <2>1, StoreType, InputRecord DEF ConsumeInput
  <2>3. /\ remote' = [remote EXCEPT ![c] = Store(c, Newest(c))]
        /\ rsy' = [rsy EXCEPT ![c] = rsy[c] \/ Disagrees(c, Newest(c))]
        /\ \/ wm' = [wm EXCEPT ![c] = Newest(c).stamp]
           \/ wm' = wm
        /\ batch' = [batch EXCEPT ![c] = Unread(c)]
        /\ UNCHANGED <<sim, ns, net, game, upsets, sent>>
    BY <1>3 DEF ConsumeInput, TypeOK
  <2>4. rsy' \in [Console -> BOOLEAN]
    BY <2>3 DEF TypeOK, Disagrees
  <2> QED
    BY <2>1, <2>2, <2>3, <2>4 DEF sim, TypeOK
<1>4. CASE ConsumeLeft(c)
  <2>1. Unread(c) \in Seq(Record)
    BY <1>4, NewestRecord DEF ConsumeLeft
  <2>2. batch' \in [Console -> Seq(Record)] /\ stall' \in [Console -> 0 .. StallLimit]
    <3>1. batch' = [batch EXCEPT ![c] = Unread(c)] /\ stall' = [stall EXCEPT ![c] = StallLimit]
      BY <1>4 DEF ConsumeLeft
    <3>2. StallLimit \in 0 .. StallLimit
      BY BoundsAssumption
    <3> QED
      BY <2>1, <3>1, <3>2 DEF TypeOK
  <2> QED
    BY <1>4, <2>2 DEF ConsumeLeft, TypeOK
<1>5. CASE ConsumeDone(c) \/ Fail(c)
  BY <1>5 DEF ConsumeDone, Fail, sim, TypeOK
<1> QED
  BY <1>1, <1>2, <1>3, <1>4, <1>5 DEF NetStep

LEMMA UpsetType ==
  ASSUME TypeOK, NEW c \in Console, Upset(c)
  PROVE  TypeOK'
<1>1. Len(log[c]) \in Nat /\ game[c] \in Game
  BY DEF TypeOK
<1>2. [ran |-> game[c].ran, by |-> {<<c, Len(log[c])>>}] \in Game
  <2>1. {<<c, Len(log[c])>>} \in SUBSET (Console \X Nat)
    <3>1. <<c, Len(log[c])>> \in Console \X Nat
      BY <1>1
    <3> QED
      BY <3>1
  <2>2. game[c].ran \in Seq(Inputs)
    BY <1>1 DEF Game
  <2> QED
    BY <2>1, <2>2 DEF Game
<1>3. game' = [game EXCEPT
                   ![c] = [ran |-> game[c].ran, by |-> {<<c, Len(log[c])>>}]]
  BY DEF Upset, TypeOK
<1>4. upsets' \in 0 .. MaxUpsets
  <2>1. upsets \in 0 .. MaxUpsets
    BY DEF TypeOK
  <2>2. upsets < MaxUpsets /\ upsets' = upsets + 1
    BY DEF Upset
  <2> QED
    BY <2>1, <2>2, BoundsAssumption
<1>5. game' \in [Console -> Game]
  BY <1>2, <1>3 DEF TypeOK
<1> QED
  BY <1>4, <1>5 DEF Upset, sim, TypeOK

LEMMA DropType ==
  ASSUME TypeOK, NEW c \in Console, Drop(c)
  PROVE  TypeOK'
<1>1. Append(net[Peer(c)], PeerLeft) \in Seq(Record)
  <2>1. PeerLeft \in Record /\ net[Peer(c)] \in Seq(Record)
    BY PeerFacts DEF TypeOK, Record
  <2> QED
    BY <2>1
<1>2. net' = [net EXCEPT ![Peer(c)] = Append(net[Peer(c)], PeerLeft)]
  BY PeerFacts DEF Drop, TypeOK
<1>3. net' \in [Console -> Seq(Record)]
  BY <1>1, <1>2 DEF TypeOK
<1> QED
  BY <1>3 DEF Drop, TypeOK

LEMMA TypeStep == TypeOK /\ [Next]_vars => TypeOK'
<1>1. ASSUME TypeOK, UNCHANGED vars PROVE TypeOK'
  BY <1>1 DEF vars, TypeOK
<1> QED
  BY <1>1, FrameType, NetType, UpsetType, DropType DEF Next

(* Every reachable state is well typed.                                    *)
THEOREM TypeCorrect == Spec => []TypeOK
  BY TypeInit, TypeStep, PTL DEF Spec

-----------------------------------------------------------------------------
(* The inductive invariant.                                                *)

(* The timing assumption of the theorems: one READ never brings more new   *)
(* ticks than a record's window spans.                                     *)
SmoothArrivals == BurstTicks <= Window

LEMMA Sizes ==
  /\ Delay \in 1 .. 3 /\ Window \in 1 .. 4 /\ Window <= Delay + 1
  /\ 2 * Delay + 1 < RemoteSlots /\ RemoteSlots = 8 /\ LocalSlots = 4
  BY SizesAssumption DEF LocalSlots, RemoteSlots

LEMMA InvInit == Init => IInv
<1> SUFFICES ASSUME Init PROVE IInv
  OBVIOUS
<1> USE Sizes
<1>1. TypeOK
  BY TypeInit
<1>2. Captured /\ Gated /\ LogTrue
  BY DEF Init, Captured, Gated, LogTrue, Due
<1>3. LocalHeld
  <2> SUFFICES ASSUME NEW c \in Console, NEW x \in tick[c] .. tick[c] + Delay
               PROVE  local[c][LocalSlot(x)] = Genuine(c, x)
    BY DEF LocalHeld
  <2>1. tick[c] = -1
    BY DEF Init
  <2>2. x \in Int /\ x < Delay
    BY <2>1
  <2>3. LocalSlot(x) \in 0 .. LocalSlots - 1
    BY <2>2, SlotRange
  <2> QED
    BY <2>2, <2>3 DEF Init, Genuine
<1>4. NotAhead /\ InOrder /\ Contiguous /\ RecordsTrue
  BY PeerFacts DEF Init, NotAhead, InOrder, Contiguous, RecordsTrue
<1>5. RingHeld
  <2> SUFFICES ASSUME NEW c \in Console, NEW x \in Due(c) .. Known(c)
               PROVE  remote[c][RemoteSlot(x)] = Genuine(Peer(c), x)
    BY DEF RingHeld
  <2>1. Due(c) = 0 /\ Known(c) = Delay - 1
    BY DEF Init, Due, Known
  <2>2. x \in Int /\ x < Delay
    BY <2>1
  <2>3. RemoteSlot(x) \in 0 .. RemoteSlots - 1
    BY <2>2, SlotRange
  <2> QED
    BY <2>2, <2>3 DEF Init, Genuine
<1> QED
  BY <1>1, <1>2, <1>3, <1>4, <1>5 DEF IInv

(* A boundary never changes the capture a tick already has.                *)
LEMMA CommitFacts ==
  ASSUME TypeOK, Captured, LocalHeld, NEW c \in Console, Commit(c)
  PROVE  /\ tick'[c] = Due(c) /\ Due(c) >= 0 /\ Due(c) >= tick[c]
         /\ \A q \in Console : q # c => tick'[q] = tick[q]
         /\ \A q \in Console : Len(taken'[q]) = tick'[q] + 1
         /\ \A q \in Console, x \in Int :
              x <= tick[q] + Delay => Genuine(q, x)' = Genuine(q, x)
         /\ LocalHeld'
<1> USE Sizes
<1>1. CASE ran[c]
  <2>1. PICK press \in UserReset :
          LET token == [by |-> c, n |-> Len(taken[c]) + 1, rst |-> press \/ rsy[c]]
          IN  /\ taken' = [taken EXCEPT ![c] = Append(@, token)]
              /\ local' = [local EXCEPT ![c][LocalSlot(Due(c) + Delay)] = token]
    BY <1>1 DEF Commit
  <2> DEFINE token == [by |-> c, n |-> Len(taken[c]) + 1, rst |-> press \/ rsy[c]]
  <2>2. token \in Token
    <3>1. Len(taken[c]) + 1 \in Nat
      BY DEF TypeOK
    <3>2. (press \/ rsy[c]) \in BOOLEAN
      OBVIOUS
    <3>3. token \in [by: Console, n: Nat, rst: BOOLEAN]
      BY <3>1, <3>2, Zenon
    <3> QED
      BY <3>3 DEF Token
  <2> HIDE DEF token
  <2>3. /\ taken' = [taken EXCEPT ![c] = Append(taken[c], token)]
        /\ local' = [local EXCEPT ![c] =
                       [local[c] EXCEPT ![LocalSlot(Due(c) + Delay)] = token]]
        /\ tick' = [tick EXCEPT ![c] = tick[c] + 1]
    BY <1>1, <2>1 DEF token, TypeOK, Commit
  <2>4. tick[c] \in Int /\ tick[c] >= -1 /\ Due(c) = tick[c] + 1
        /\ \A q \in Console : tick[q] \in Int
    BY <1>1 DEF TypeOK, Captured, Due
  <2>5. /\ taken[c] \in Seq(Token) /\ Len(taken[c]) = tick[c] + 1
        /\ taken'[c] = Append(taken[c], token)
        /\ \A q \in Console : q # c => taken'[q] = taken[q]
    BY <2>3 DEF TypeOK, Captured
  <2>6. /\ Len(taken'[c]) = tick[c] + 2
        /\ taken'[c][tick[c] + 2] = token
        /\ \A i \in 1 .. tick[c] + 1 : taken'[c][i] = taken[c][i]
    <3>1. \A s \in Seq(Token) : /\ Len(Append(s, token)) = Len(s) + 1
                               /\ Append(s, token)[Len(s) + 1] = token
                               /\ \A i \in 1 .. Len(s) : Append(s, token)[i] = s[i]
      BY <2>2
    <3>2. tick[c] + 1 + 1 = tick[c] + 2
      BY <2>4
    <3> QED
      BY <2>5, <3>1, <3>2
  <2>7. /\ tick'[c] = tick[c] + 1
        /\ \A q \in Console : q # c => tick'[q] = tick[q]
    BY <2>3 DEF TypeOK
  <2>8. \A q \in Console : Len(taken'[q]) = tick'[q] + 1
    BY <2>4, <2>5, <2>6, <2>7 DEF Captured
  <2>9. ASSUME NEW q \in Console, NEW x \in Int, x <= tick[q] + Delay
        PROVE  Genuine(q, x)' = Genuine(q, x)
    <3>1. CASE q = c /\ x >= Delay
      <4>1. x - Delay + 1 \in 1 .. tick[c] + 1
        BY <2>4, <2>9, <3>1
      <4> QED
        BY <2>6, <3>1, <4>1 DEF Genuine
    <3>2. CASE q # c \/ x < Delay
      BY <2>5, <3>2 DEF Genuine
    <3> QED
      BY <3>1, <3>2
  <2>10. ASSUME NEW q \in Console, NEW x \in tick'[q] .. tick'[q] + Delay
         PROVE  local'[q][LocalSlot(x)] = Genuine(q, x)'
    <3>1. CASE q # c
      <4>1. x \in tick[q] .. tick[q] + Delay /\ x \in Int
        BY <2>4, <2>7, <2>10, <3>1
      <4>2. local'[q] = local[q]
        BY <2>3, <3>1 DEF TypeOK
      <4> QED
        BY <2>4, <2>9, <4>1, <4>2 DEF LocalHeld
    <3>2. CASE q = c /\ x = Due(c) + Delay
      <4>1. LocalSlot(x) \in 0 .. LocalSlots - 1
        BY <2>4, <3>2, SlotRange
      <4>2. local'[c][LocalSlot(x)] = token
        BY <2>3, <3>2, <4>1 DEF TypeOK
      <4>3. ~(x < Delay) /\ x - Delay + 1 = tick[c] + 2
        BY <2>4, <3>2
      <4>4. Genuine(c, x)' = taken'[c][x - Delay + 1]
        BY <4>3 DEF Genuine
      <4>5. Genuine(c, x)' = token
        BY <2>6, <4>3, <4>4
      <4> QED
        BY <3>2, <4>2, <4>5
    <3>3. CASE q = c /\ x # Due(c) + Delay
      <4>1. /\ x \in tick[c] .. tick[c] + Delay /\ x \in Int
            /\ Due(c) + Delay \in Int
            /\ x - (Due(c) + Delay) < LocalSlots /\ (Due(c) + Delay) - x < LocalSlots
        BY <2>4, <2>7, <2>10, <3>3
      <4>2. LocalSlot(x) # LocalSlot(Due(c) + Delay)
        BY <3>3, <4>1, LocalSlotsDiffer
      <4>3. LocalSlot(x) \in 0 .. LocalSlots - 1
        BY <4>1, SlotRange
      <4>4. local'[c][LocalSlot(x)] = local[c][LocalSlot(x)]
        BY <2>3, <4>2, <4>3 DEF TypeOK
      <4> QED
        BY <2>4, <2>9, <3>3, <4>1, <4>4 DEF LocalHeld
    <3> QED
      BY <3>1, <3>2, <3>3
  <2>11. LocalHeld'
    BY <2>10 DEF LocalHeld
  <2> QED
    BY <2>4, <2>7, <2>8, <2>9, <2>11
<1>2. CASE ~ran[c]
  <2>1. Due(c) = tick[c] /\ tick[c] \in Int /\ tick[c] >= 0
    <3>1. tick[c] # -1
      BY <1>2 DEF Captured
    <3>2. tick[c] \in Int /\ tick[c] >= -1
      BY DEF TypeOK, Captured
    <3> QED
      BY <1>2, <3>1, <3>2 DEF Due
  <2>2. UNCHANGED <<tick, taken, local>>
    BY <1>2 DEF Commit
  <2>3. \A q \in Console, x \in Int : Genuine(q, x)' = Genuine(q, x)
    BY <2>2 DEF Genuine
  <2>4. LocalHeld'
    BY <2>2 DEF LocalHeld, Genuine
  <2>5. \A q \in Console : Len(taken'[q]) = tick'[q] + 1
    BY <2>2 DEF Captured
  <2> QED
    BY <2>1, <2>2, <2>3, <2>4, <2>5
<1> QED
  BY <1>1, <1>2

(* The gate's compare, and the one that moves the watermark, never turn    *)
(* over: what they compare is less than half a lap apart.                  *)
LEMMA Reach ==
  ASSUME IInv, NEW c \in Console
  PROVE  /\ wm[c] \in Int /\ Due(c) \in Int /\ Known(c) \in Int
         /\ Due(c) >= 0 /\ Due(c) >= tick[c] /\ tick[c] \in Int
         /\ Known(c) <= tick[Peer(c)] + Delay
         /\ Due(c) <= tick[Peer(c)] + Delay + 1
         /\ sent[Peer(c)] <= Due(c) + 2 * Delay + 1
         /\ wm[c] - Due(c) \in -128 .. 127
<1> USE Sizes, PeerFacts
<1> DEFINE p == Peer(c)
<1>1. p \in Console /\ Peer(p) = c
  OBVIOUS
<1> HIDE DEF p
<1>2. /\ tick[c] \in Int /\ tick[c] >= -1 /\ tick[p] \in Int /\ tick[p] >= -1
      /\ wm[c] \in Int /\ wm[p] \in Int /\ wm[c] >= -2
      /\ (tick[c] = -1 => ran[c]) /\ (tick[p] = -1 => ran[p])
  BY <1>1 DEF IInv, TypeOK, Captured, Gated
<1>3. /\ Due(c) \in Int /\ Due(c) >= 0 /\ tick[c] <= Due(c)
      /\ Due(p) \in Int /\ Due(p) >= 0 /\ tick[p] <= Due(p)
  BY <1>1, <1>2 DEF Due
<1>4. /\ wm[c] <= sent[p] /\ sent[p] \in Int
      /\ sent[p] >= Delay - 1 /\ sent[p] <= tick[p] + Delay
      /\ wm[p] <= sent[c] /\ sent[c] \in Int /\ sent[c] <= tick[c] + Delay
  BY <1>1, <1>2 DEF IInv, TypeOK, NotAhead, p
<1>5. /\ Due(c) = 0 \/ Due(c) <= wm[c] + 1
      /\ Due(p) = 0 \/ Due(p) <= wm[p] + 1
  BY <1>1 DEF IInv, Gated
<1>6. Known(c) \in Int /\ Known(c) <= sent[p]
  BY <1>2, <1>4 DEF Known
<1>7. Due(c) <= tick[p] + Delay + 1 /\ Due(p) <= tick[c] + Delay + 1
  BY <1>2, <1>3, <1>4, <1>5
<1>8. sent[p] <= Due(c) + 2 * Delay + 1
  BY <1>2, <1>3, <1>4, <1>7
<1>9. wm[c] - Due(c) \in -128 .. 127
  BY <1>2, <1>3, <1>4, <1>5, <1>8
<1> QED
  BY <1>2, <1>3, <1>4, <1>6, <1>7, <1>8, <1>9 DEF p

(* The gate opens exactly when the tick's record has come.                 *)
LEMMA OpenMeans ==
  ASSUME IInv, NEW c \in Console
  PROVE  Open(c) <=> wm[c] >= Due(c)
<1>1. /\ wm[c] \in Int /\ Due(c) \in Int /\ wm[c] - Due(c) \in -128 .. 127
  BY Reach
<1>2. Signed(Byte(Byte(wm[c]) - Byte(Due(c)))) = wm[c] - Due(c)
  BY <1>1, SignedDifference
<1> QED
  BY <1>1, <1>2 DEF Open

(* What every boundary leaves true, whether its tick runs or stalls.       *)
LEMMA BoundaryInv ==
  ASSUME IInv, NEW c \in Console, Boundary(c),
         ran' \in [Console -> BOOLEAN],
         \A q \in Console : q # c => ran'[q] = ran[q],
         ran'[c] => wm[c] >= Due(c)
  PROVE  /\ Captured' /\ LocalHeld' /\ Gated' /\ NotAhead' /\ InOrder'
         /\ Contiguous' /\ RecordsTrue' /\ RingHeld'
<1> USE Sizes, PeerFacts
<1>1. TypeOK /\ Captured /\ LocalHeld /\ Commit(c)
  BY DEF IInv, Boundary
<1>2. /\ tick'[c] = Due(c) /\ Due(c) >= 0 /\ Due(c) >= tick[c]
      /\ \A q \in Console : q # c => tick'[q] = tick[q]
      /\ \A q \in Console : Len(taken'[q]) = tick'[q] + 1
      /\ \A q \in Console, x \in Int :
           x <= tick[q] + Delay => Genuine(q, x)' = Genuine(q, x)
      /\ LocalHeld'
  BY <1>1, CommitFacts
<1>3. UNCHANGED <<remote, wm, batch, net, sent>>
  BY DEF Boundary
<1>4. \A q \in Console : tick[q] \in Int /\ tick'[q] \in Int /\ tick'[q] >= tick[q]
                         /\ tick[q] >= -1
  <2>1. \A q \in Console : tick[q] \in Int /\ tick[q] >= -1
    BY <1>1 DEF TypeOK, Captured
  <2>2. Due(c) \in Int /\ tick'[c] = Due(c) /\ Due(c) >= tick[c]
    BY <1>2, Reach
  <2>3. \A q \in Console : q # c => tick'[q] = tick[q]
    BY <1>2
  <2> QED
    BY <2>1, <2>2, <2>3
<1>5. Captured'
  <2>1. \A q \in Console : tick'[q] = -1 => tick[q] = -1 /\ q # c
    BY <1>2, <1>4
  <2>2. \A q \in Console : tick'[q] = -1 => ran'[q]
    BY <1>1, <2>1 DEF Captured
  <2> QED
    BY <1>2, <1>4, <2>2 DEF Captured
<1>6. Due(c)' >= Due(c) /\ Due(c)' \in Int /\ (ran'[c] => Due(c)' = Due(c) + 1)
      /\ (~ran'[c] => Due(c)' = Due(c))
      /\ \A q \in Console : q # c => Due(q)' = Due(q)
  <2>1. Due(c)' = IF ran'[c] THEN Due(c) + 1 ELSE Due(c)
    BY <1>2 DEF Due
  <2>2. \A q \in Console : q # c => Due(q)' = Due(q)
    BY <1>2 DEF Due
  <2>3. Due(c) \in Int
    BY Reach
  <2> QED
    BY <2>1, <2>2, <2>3
<1>7. \A q \in Console : Known(q)' = Known(q)
  BY <1>3 DEF Known
<1>8. Gated'
  <2> SUFFICES ASSUME NEW q \in Console
               PROVE  wm'[q] >= -2 /\ (Due(q)' = 0 \/ Due(q)' <= wm'[q] + 1)
    BY DEF Gated
  <2>1. wm'[q] = wm[q] /\ wm[q] \in Int /\ Due(q) \in Int
        /\ wm[q] >= -2 /\ (Due(q) = 0 \/ Due(q) <= wm[q] + 1)
    BY <1>3, Reach DEF IInv, Gated
  <2> QED
    BY <1>6, <2>1
<1>9. NotAhead'
  <2>1. \A q \in Console : sent'[q] \in Delay - 1 .. tick'[q] + Delay
    <3>1. \A q \in Console : sent[q] \in Delay - 1 .. tick[q] + Delay
      BY DEF IInv, NotAhead
    <3> QED
      BY <1>3, <1>4, <3>1
  <2> QED
    BY <1>3, <2>1 DEF IInv, NotAhead
<1>10. InOrder' /\ Contiguous'
  BY <1>3, <1>7 DEF IInv, InOrder, Contiguous
<1>11. RecordsTrue'
  <2>1. ASSUME NEW q \in Console, NEW r \in Record, TrueWindow(q, r),
               IsInput(r) => r.stamp \in Delay .. sent[Peer(q)]
        PROVE  TrueWindow(q, r)'
    <3> SUFFICES ASSUME IsInput(r), NEW i \in 0 .. Window - 1
                 PROVE  r.win[i] = Genuine(Peer(q), r.stamp - i)'
      BY DEF TrueWindow, IsInput
    <3>1. /\ r.stamp \in Int /\ r.stamp <= sent[Peer(q)]
          /\ sent[Peer(q)] \in Int /\ sent[Peer(q)] <= tick[Peer(q)] + Delay
      <4>1. sent[Peer(q)] \in Delay - 1 .. tick[Peer(q)] + Delay
        BY DEF IInv, NotAhead
      <4> QED
        BY <1>4, <2>1, <4>1
    <3>2. r.stamp - i \in Int /\ r.stamp - i <= tick[Peer(q)] + Delay
      BY <1>4, <3>1
    <3> QED
      BY <1>2, <2>1, <3>2 DEF TrueWindow
  <2>2. ASSUME NEW q \in Console, NEW i \in DOMAIN net[q]
        PROVE  TrueWindow(q, net[q][i])'
    <3>1. net[q][i] \in Record
      BY <1>1, InFlightType
    <3>2. TrueWindow(q, net[q][i])
          /\ (IsInput(net[q][i]) => net[q][i].stamp \in Delay .. sent[Peer(q)])
      BY DEF IInv, RecordsTrue, NotAhead
    <3>3. net'[q][i] = net[q][i]
      BY <1>3
    <3>4. TrueWindow(q, net[q][i])
      BY <3>2
    <3> QED
      BY <1>3, <2>1, <3>1, <3>2 DEF TrueWindow, IsInput
  <2>3. ASSUME NEW q \in Console, NEW i \in DOMAIN batch[q]
        PROVE  TrueWindow(q, batch[q][i])'
    <3>1. batch[q][i] \in Record
      BY <1>1, InFlightType
    <3>2. TrueWindow(q, batch[q][i])
          /\ (IsInput(batch[q][i]) => batch[q][i].stamp \in Delay .. sent[Peer(q)])
      BY DEF IInv, RecordsTrue, NotAhead
    <3> QED
      BY <1>3, <2>1, <3>1, <3>2 DEF TrueWindow, IsInput
  <2> QED
    BY <1>3, <2>2, <2>3 DEF RecordsTrue
<1>12. RingHeld'
  <2> SUFFICES ASSUME NEW q \in Console, NEW x \in Due(q)' .. Known(q)'
               PROVE  remote'[q][RemoteSlot(x)] = Genuine(Peer(q), x)'
    BY DEF RingHeld
  <2>1. x \in Due(q) .. Known(q) /\ x \in Int
    BY <1>6, <1>7, Reach
  <2>2. x <= tick[Peer(q)] + Delay
    BY <1>4, <2>1, Reach
  <2> QED
    BY <1>2, <1>3, <2>1, <2>2 DEF IInv, RingHeld
<1> QED
  BY <1>2, <1>5, <1>8, <1>9, <1>10, <1>11, <1>12

(* What already ran stays true of the captures a boundary adds to.         *)
LEMMA LogStable ==
  ASSUME IInv,
         \A q \in Console, x \in Int :
           x <= tick[q] + Delay => Genuine(q, x)' = Genuine(q, x),
         NEW c \in Console, NEW i \in 1 .. Len(log[c]), NEW q \in Console
  PROVE  log[c][i][q] = Genuine(q, i - 1)'
<1>1. log[c][i][q] = Genuine(q, i - 1) /\ Len(log[c]) = Due(c)
  BY DEF IInv, LogTrue
<1>2. Due(c) \in Int /\ Due(c) <= tick[Peer(c)] + Delay + 1
  BY Reach
<1>3. Due(c) <= tick[c] + 1 /\ tick[c] \in Int /\ tick[Peer(c)] \in Int
  <2>1. tick[c] \in Int /\ tick[Peer(c)] \in Int
    BY PeerFacts DEF IInv, TypeOK
  <2> QED
    BY <2>1 DEF Due
<1>4. i - 1 \in Int /\ i - 1 <= tick[q] + Delay
  <2>1. i - 1 \in Int /\ i - 1 <= Due(c) - 1
    BY <1>1, <1>2
  <2>2. CASE q = c
    <3>1. Due(c) - 1 <= tick[c] + Delay /\ Due(c) \in Int /\ tick[c] \in Int
      BY <1>2, <1>3, Sizes
    <3> QED
      BY <2>1, <2>2, <3>1, Sizes
  <2>3. CASE q = Peer(c)
    BY <1>2, <1>3, <2>1, <2>3, Sizes
  <2> QED
    BY <2>2, <2>3, PeerFacts
<1> QED
  BY <1>1, <1>4

LEMMA RunTickInv ==
  ASSUME IInv, NEW c \in Console, RunTick(c)
  PROVE  IInv'
<1> USE Sizes, PeerFacts
<1>1. /\ TypeOK /\ Captured /\ LocalHeld /\ RingHeld /\ TypeOK'
      /\ Boundary(c) /\ Commit(c) /\ Open(c)
  BY FrameType DEF IInv, RunTick, Boundary, Frame
<1>2. /\ tick'[c] = Due(c) /\ Due(c) >= 0
      /\ \A q \in Console, x \in Int :
           x <= tick[q] + Delay => Genuine(q, x)' = Genuine(q, x)
      /\ LocalHeld'
  BY <1>1, CommitFacts
<1>3. ran' = [ran EXCEPT ![c] = TRUE]
  BY DEF RunTick
<1>4. /\ ran' \in [Console -> BOOLEAN] /\ ran'[c]
      /\ \A q \in Console : q # c => ran'[q] = ran[q]
  BY <1>1, <1>3 DEF TypeOK
<1>5. wm[c] >= Due(c) /\ wm[c] \in Int /\ Due(c) \in Int
  BY <1>1, OpenMeans, Reach
<1>6. /\ Captured' /\ LocalHeld' /\ Gated' /\ NotAhead' /\ InOrder'
      /\ Contiguous' /\ RecordsTrue' /\ RingHeld'
  BY <1>1, <1>4, <1>5, BoundaryInv
<1> DEFINE in == Mix(c, Due(c), local'[c])
<1>d. PICK d \in Int : d = Due(c)
  BY <1>5
<1>7. \A q \in Console : in[q] = Genuine(q, d)'
  <2>1. in[c] = local'[c][LocalSlot(d)]
    BY <1>d DEF Mix
  <2>2. d \in tick'[c] .. tick'[c] + Delay
    BY <1>2, <1>5, <1>d
  <2>3. local'[c][LocalSlot(d)] = Genuine(c, d)'
    BY <1>2, <2>2 DEF LocalHeld
  <2>4. in[Peer(c)] = remote[c][RemoteSlot(d)]
    BY <1>d DEF Mix
  <2>5. Known(c) >= wm[c] /\ Known(c) \in Int /\ Known(c) <= tick[Peer(c)] + Delay
        /\ tick[Peer(c)] \in Int
    <3>1. Known(c) \in Int /\ Known(c) <= tick[Peer(c)] + Delay
      BY Reach
    <3>2. tick[Peer(c)] \in Int
      BY <1>1 DEF TypeOK
    <3> QED
      BY <1>5, <3>1, <3>2 DEF Known
  <2>6. d \in Due(c) .. Known(c) /\ d <= tick[Peer(c)] + Delay
    BY <1>5, <1>d, <2>5
  <2>7. remote[c][RemoteSlot(d)] = Genuine(Peer(c), d)
    BY <1>1, <1>d, <2>6 DEF RingHeld
  <2>8. Genuine(Peer(c), d)' = Genuine(Peer(c), d)
    BY <1>2, <1>5, <2>6
  <2> QED
    BY <2>1, <2>3, <2>4, <2>7, <2>8
<1>8. log' = [log EXCEPT ![c] = Append(log[c], in)]
  BY <1>1 DEF RunTick, TypeOK
<1> HIDE DEF in
<1>9. LogTrue'
  <2> SUFFICES ASSUME NEW q \in Console
               PROVE  /\ Len(log'[q]) = Due(q)'
                      /\ \A i \in 1 .. Len(log'[q]) : \A p \in Console :
                           log'[q][i][p] = Genuine(p, i - 1)'
    BY DEF LogTrue
  <2>1. log[q] \in Seq(Inputs) /\ Len(log[q]) = Due(q)
    BY <1>1 DEF IInv, TypeOK, LogTrue
  <2>2. CASE q # c
    <3>1. log'[q] = log[q]
      BY <1>1, <1>8, <2>2 DEF TypeOK
    <3>2. tick'[q] = tick[q] /\ ran'[q] = ran[q]
      BY <1>1, <1>4, <2>2, CommitFacts
    <3>3. Due(q)' = Due(q)
      BY <3>2 DEF Due
    <3>4. \A i \in 1 .. Len(log[q]) : \A p \in Console :
            log[q][i][p] = Genuine(p, i - 1)'
      BY <1>2, LogStable
    <3> QED
      BY <2>1, <3>1, <3>3, <3>4
  <2>3. CASE q = c
    <3>1. log'[c] = Append(log[c], in)
      BY <1>1, <1>8 DEF TypeOK
    <3>2. /\ Len(log'[c]) = Due(c) + 1
          /\ log'[c][Due(c) + 1] = in
          /\ \A i \in 1 .. Due(c) : log'[c][i] = log[c][i]
      BY <1>2, <1>5, <2>1, <2>3, <3>1
    <3>3. Due(c)' = Due(c) + 1
      BY <1>2, <1>4, <1>5 DEF Due
    <3>4. ASSUME NEW i \in 1 .. Due(c) + 1, NEW p \in Console
          PROVE  log'[c][i][p] = Genuine(p, i - 1)'
      <4>1. CASE i \in 1 .. Due(c)
        <5>1. i \in 1 .. Len(log[c])
          BY <2>1, <2>3, <4>1
        <5>2. log[c][i][p] = Genuine(p, i - 1)'
          BY <1>2, <5>1, LogStable
        <5> QED
          BY <3>2, <4>1, <5>2
      <4>2. CASE i = Due(c) + 1
        <5>1. i - 1 = d
          BY <1>5, <1>d, <4>2
        <5> QED
          BY <1>7, <3>2, <4>2, <5>1
      <4> QED
        BY <1>5, <4>1, <4>2
    <3> QED
      BY <2>3, <3>2, <3>3, <3>4
  <2> QED
    BY <2>2, <2>3
<1> QED
  BY <1>1, <1>6, <1>9 DEF IInv

LEMMA StalledInv ==
  ASSUME IInv, NEW c \in Console, Stall(c) \/ GiveUp(c)
  PROVE  IInv'
<1>1. /\ TypeOK /\ Captured /\ LocalHeld /\ TypeOK' /\ Boundary(c) /\ Commit(c)
  BY FrameType DEF IInv, Stall, GiveUp, Boundary, Frame
<1>2. ran' = [ran EXCEPT ![c] = FALSE] /\ log' = log
  BY DEF Stall, GiveUp
<1>3. /\ ran' \in [Console -> BOOLEAN] /\ ~ran'[c]
      /\ \A q \in Console : q # c => ran'[q] = ran[q]
  BY <1>1, <1>2 DEF TypeOK
<1>4. /\ Captured' /\ LocalHeld' /\ Gated' /\ NotAhead' /\ InOrder'
      /\ Contiguous' /\ RecordsTrue' /\ RingHeld'
  BY <1>1, <1>3, BoundaryInv
<1>5. /\ tick'[c] = Due(c)
      /\ \A q \in Console : q # c => tick'[q] = tick[q]
      /\ \A q \in Console, x \in Int :
           x <= tick[q] + Delay => Genuine(q, x)' = Genuine(q, x)
  BY <1>1, CommitFacts
<1>6. \A q \in Console : Due(q)' = Due(q)
  BY <1>3, <1>5 DEF Due
<1>7. LogTrue'
  <2>1. \A q \in Console : Len(log[q]) = Due(q)
    BY DEF IInv, LogTrue
  <2> QED
    BY <1>2, <1>5, <1>6, <2>1, LogStable DEF LogTrue
<1> QED
  BY <1>1, <1>4, <1>7 DEF IInv

-----------------------------------------------------------------------------
(* The steps outside a boundary.                                           *)

(* They leave what was captured and what ran alone.                        *)
LEMMA Between ==
  ASSUME IInv, UNCHANGED <<tick, ran, local, taken, log>>
  PROVE  /\ Captured' /\ LocalHeld' /\ LogTrue'
         /\ \A c \in Console : Due(c)' = Due(c)
         /\ \A c \in Console, x \in Int : Genuine(c, x)' = Genuine(c, x)
<1>1. Captured'
  BY DEF IInv, Captured
<1>2. LocalHeld'
  BY DEF IInv, LocalHeld, Genuine
<1>3. LogTrue'
  BY DEF IInv, LogTrue, Genuine, Due
<1> QED
  BY <1>1, <1>2, <1>3 DEF Due, Genuine

(* A step that touches neither the network, the rings nor the captures.    *)
LEMMA Aside ==
  ASSUME IInv, TypeOK',
         UNCHANGED <<tick, ran, local, taken, log, remote, wm, batch, net, sent>>
  PROVE  IInv'
<1>1. Captured' /\ LocalHeld' /\ LogTrue'
  BY Between
<1>2. Gated' /\ NotAhead' /\ InOrder'
  BY DEF IInv, Gated, NotAhead, InOrder, Due
<1>3. Contiguous'
  BY DEF IInv, Contiguous, Known
<1>4. RecordsTrue'
  BY DEF IInv, RecordsTrue, TrueWindow, Genuine
<1>5. RingHeld'
  BY DEF IInv, RingHeld, Due, Known, Genuine
<1> QED
  BY <1>1, <1>2, <1>3, <1>4, <1>5 DEF IInv

(* A record put behind the others on their way to p.                       *)
LEMMA Behind ==
  ASSUME IInv, TypeOK', NEW p \in Console, NEW r \in Record,
         net' = [net EXCEPT ![p] = Append(net[p], r)],
         UNCHANGED <<tick, ran, local, taken, log, remote, wm, batch>>,
         \A q \in Console : /\ sent'[q] \in Delay - 1 .. tick[q] + Delay
                            /\ sent[q] <= sent'[q],
         IsInput(r) => /\ r.stamp \in Delay .. sent'[Peer(p)]
                       /\ sent[Peer(p)] <= r.stamp
                       /\ TrueWindow(p, r)
  PROVE  IInv'
<1> USE PeerFacts, Sizes
<1>1. /\ Captured' /\ LocalHeld' /\ LogTrue'
      /\ \A c \in Console, x \in Int : Genuine(c, x)' = Genuine(c, x)
  BY Between
<1>2. /\ net[p] \in Seq(Record) /\ Len(net[p]) \in Nat
      /\ net'[p] = Append(net[p], r)
      /\ \A q \in Console : q # p => net'[q] = net[q]
  <2>1. net \in [Console -> Seq(Record)]
    BY DEF IInv, TypeOK
  <2> QED
    BY <2>1
<1>3. /\ DOMAIN net'[p] = 1 .. Len(net[p]) + 1 /\ DOMAIN net[p] = 1 .. Len(net[p])
      /\ net'[p][Len(net[p]) + 1] = r
      /\ \A i \in 1 .. Len(net[p]) : net'[p][i] = net[p][i]
  BY <1>2
<1>4. \A q \in Console : /\ sent[q] \in Int /\ sent'[q] \in Int /\ wm[q] \in Int
                         /\ \A i \in DOMAIN net[q] :
                              IsInput(net[q][i]) => net[q][i].stamp \in Nat
                         /\ \A i \in DOMAIN batch[q] :
                              IsInput(batch[q][i]) => batch[q][i].stamp \in Nat
  <2>1. TypeOK /\ \A q \in Console : sent[q] \in Int /\ sent'[q] \in Int /\ wm[q] \in Int
    BY DEF IInv, TypeOK
  <2>2. \A s \in Record : IsInput(s) => s.stamp \in Nat
    BY InputRecord DEF IsInput
  <2>3. ASSUME NEW q \in Console
        PROVE  /\ \A i \in DOMAIN net[q] : net[q][i] \in Record
               /\ \A i \in DOMAIN batch[q] : batch[q][i] \in Record
    BY <2>1, InFlightType
  <2> QED
    BY <2>1, <2>2, <2>3
<1>5. Gated'
  BY DEF IInv, Gated, Due
<1>6. NotAhead'
  <2> SUFFICES ASSUME NEW c \in Console
               PROVE  /\ sent'[c] \in Delay - 1 .. tick[c] + Delay
                      /\ wm[c] <= sent'[Peer(c)]
                      /\ \A i \in DOMAIN net'[c] : IsInput(net'[c][i]) =>
                           net'[c][i].stamp \in Delay .. sent'[Peer(c)]
                      /\ \A i \in DOMAIN batch[c] : IsInput(batch[c][i]) =>
                           batch[c][i].stamp \in Delay .. sent'[Peer(c)]
    BY DEF NotAhead, IsInput
  <2>1. wm[c] <= sent[Peer(c)] /\ sent[Peer(c)] <= sent'[Peer(c)]
    BY DEF IInv, NotAhead
  <2>2. ASSUME NEW i \in DOMAIN batch[c], IsInput(batch[c][i])
        PROVE  batch[c][i].stamp \in Delay .. sent'[Peer(c)]
    <3>1. batch[c][i].stamp \in Delay .. sent[Peer(c)]
      BY <2>2 DEF IInv, NotAhead
    <3> QED
      BY <1>4, <2>1, <3>1
  <2>3. ASSUME NEW i \in DOMAIN net[c], IsInput(net[c][i])
        PROVE  net[c][i].stamp \in Delay .. sent'[Peer(c)]
    <3>1. net[c][i].stamp \in Delay .. sent[Peer(c)]
      BY <2>3 DEF IInv, NotAhead
    <3> QED
      BY <1>4, <2>1, <3>1
  <2>4. ASSUME NEW i \in DOMAIN net'[c], IsInput(net'[c][i])
        PROVE  net'[c][i].stamp \in Delay .. sent'[Peer(c)]
    <3>1. CASE c # p \/ i \in 1 .. Len(net[p])
      <4>1. net'[c][i] = net[c][i] /\ i \in DOMAIN net[c]
        BY <1>2, <1>3, <2>4, <3>1
      <4> QED
        BY <2>3, <2>4, <4>1
    <3>2. CASE c = p /\ i = Len(net[p]) + 1
      BY <1>3, <2>4, <3>2
    <3> QED
      BY <1>2, <1>3, <2>4, <3>1, <3>2
  <2>5. wm[c] <= sent'[Peer(c)]
    BY <1>4, <2>1
  <2> QED
    BY <2>2, <2>4, <2>5
<1>7. InOrder'
  <2> SUFFICES ASSUME NEW c \in Console
               PROVE  /\ \A i \in DOMAIN net'[c] :
                           IsInput(net'[c][i]) => wm[c] <= net'[c][i].stamp
                      /\ \A i, j \in DOMAIN net'[c] :
                           i <= j /\ IsInput(net'[c][i]) /\ IsInput(net'[c][j]) =>
                             net'[c][i].stamp <= net'[c][j].stamp
                      /\ \A i \in DOMAIN batch[c], j \in DOMAIN net'[c] :
                           IsInput(batch[c][i]) /\ IsInput(net'[c][j]) =>
                             batch[c][i].stamp <= net'[c][j].stamp
    BY DEF InOrder, IsInput
  <2>1. CASE c # p
    BY <1>2, <2>1 DEF IInv, InOrder
  <2>2. CASE c = p
    <3>1. IsInput(r) =>
            /\ r.stamp \in Int /\ wm[p] <= r.stamp
            /\ \A i \in DOMAIN net[p] : IsInput(net[p][i]) => net[p][i].stamp <= r.stamp
            /\ \A i \in DOMAIN batch[p] :
                 IsInput(batch[p][i]) => batch[p][i].stamp <= r.stamp
      <4>1. /\ wm[p] <= sent[Peer(p)]
            /\ \A i \in DOMAIN net[p] :
                 IsInput(net[p][i]) => net[p][i].stamp <= sent[Peer(p)]
            /\ \A i \in DOMAIN batch[p] :
                 IsInput(batch[p][i]) => batch[p][i].stamp <= sent[Peer(p)]
        BY DEF IInv, NotAhead
      <4>2. IsInput(r) => r.stamp \in Int /\ sent[Peer(p)] <= r.stamp
        BY InputRecord DEF IsInput
      <4> QED
        BY <1>4, <4>1, <4>2
    <3>2. ASSUME NEW i \in DOMAIN net'[p], IsInput(net'[p][i])
          PROVE  wm[p] <= net'[p][i].stamp
      BY <1>3, <3>1, <3>2 DEF IInv, InOrder
    <3>3. ASSUME NEW i \in DOMAIN net'[p], NEW j \in DOMAIN net'[p], i <= j,
                 IsInput(net'[p][i]), IsInput(net'[p][j])
          PROVE  net'[p][i].stamp <= net'[p][j].stamp
      <4>1. CASE j \in 1 .. Len(net[p])
        <5>1. i \in 1 .. Len(net[p])
          BY <1>3, <3>3, <4>1
        <5> QED
          BY <1>3, <3>3, <4>1, <5>1 DEF IInv, InOrder
      <4>2. CASE j = Len(net[p]) + 1 /\ i \in 1 .. Len(net[p])
        <5>1. /\ net'[p][j] = r /\ IsInput(r)
              /\ net'[p][i] = net[p][i] /\ IsInput(net[p][i])
          BY <1>3, <3>3, <4>2
        <5>2. net[p][i].stamp <= r.stamp
          BY <1>3, <3>1, <4>2, <5>1
        <5> QED
          BY <5>1, <5>2
      <4>3. CASE j = Len(net[p]) + 1 /\ i = Len(net[p]) + 1
        <5>1. net'[p][j] = r /\ net'[p][i] = r /\ r.stamp \in Int
          BY <1>3, <3>1, <3>3, <4>3
        <5> QED
          BY <5>1
      <4> QED
        BY <1>2, <1>3, <3>3, <4>1, <4>2, <4>3
    <3>4. ASSUME NEW i \in DOMAIN batch[p], NEW j \in DOMAIN net'[p],
                 IsInput(batch[p][i]), IsInput(net'[p][j])
          PROVE  batch[p][i].stamp <= net'[p][j].stamp
      <4>1. CASE j \in 1 .. Len(net[p])
        <5>1. net'[p][j] = net[p][j] /\ j \in DOMAIN net[p]
          BY <1>3, <4>1
        <5> QED
          BY <3>4, <5>1 DEF IInv, InOrder
      <4>2. CASE j = Len(net[p]) + 1
        <5>1. net'[p][j] = r
          BY <1>3, <4>2
        <5> QED
          BY <3>1, <3>4, <5>1
      <4> QED
        BY <1>2, <1>3, <3>4, <4>1, <4>2
    <3> QED
      BY <2>2, <3>2, <3>3, <3>4
  <2> QED
    BY <2>1, <2>2
<1>8. Contiguous'
  BY DEF IInv, Contiguous, Known
<1>9. RecordsTrue'
  <2>1. \A c \in Console : \A i \in DOMAIN batch[c] : TrueWindow(c, batch[c][i])'
    BY DEF IInv, RecordsTrue, TrueWindow, Genuine
  <2>2. ASSUME NEW c \in Console, NEW i \in DOMAIN net'[c]
        PROVE  TrueWindow(c, net'[c][i])
    <3>1. CASE c # p \/ i \in 1 .. Len(net[p])
      <4>1. net'[c][i] = net[c][i] /\ i \in DOMAIN net[c]
        BY <1>2, <1>3, <2>2, <3>1
      <4>2. TrueWindow(c, net[c][i])
        BY <4>1 DEF IInv, RecordsTrue
      <4> QED
        BY <4>1, <4>2
    <3>2. CASE c = p /\ i = Len(net[p]) + 1
      BY <1>3, <3>2 DEF TrueWindow
    <3> QED
      BY <1>2, <1>3, <2>2, <3>1, <3>2
  <2>3. \A c \in Console : \A i \in DOMAIN net'[c] : TrueWindow(c, net[c][i])'
    BY <2>2 DEF TrueWindow, Genuine
  <2> QED
    BY <2>1, <2>3 DEF RecordsTrue
<1>10. RingHeld'
  BY DEF IInv, RingHeld, Due, Known, Genuine
<1> QED
  BY <1>1, <1>5, <1>6, <1>7, <1>8, <1>9, <1>10 DEF IInv

LEMMA WriteInv ==
  ASSUME IInv, NEW c \in Console, Write(c)
  PROVE  IInv'
<1> USE PeerFacts, Sizes
<1> DEFINE p     == Peer(c)
           stamp == tick[c] + Delay
           win   == [i \in 0 .. Window - 1 |-> local[c][LocalSlot(stamp - i)]]
           r     == Input(stamp, win, crcv[c])
<1>1. TypeOK /\ TypeOK' /\ InPlay(c)
  BY NetType DEF IInv, NetStep, Write
<1>2. r \in Record /\ stamp \in Nat
  BY <1>1, WrittenRecord
<1>3. /\ net' = [net EXCEPT ![p] = Append(net[p], r)] \/ net' = net
      /\ sent' = [sent EXCEPT ![c] = stamp]
      /\ UNCHANGED <<tick, ran, local, taken, log, remote, wm, batch>>
  BY <1>1 DEF Write, TypeOK, sim
<1>4. tick[c] \in Int /\ tick[c] >= 0
  BY <1>1 DEF TypeOK, InPlay
<1>5. TrueWindow(p, r)
  <2> SUFFICES ASSUME NEW i \in 0 .. Window - 1
               PROVE  r.win[i] = Genuine(c, r.stamp - i)
    BY DEF TrueWindow
  <2>1. r.win[i] = local[c][LocalSlot(stamp - i)] /\ r.stamp = stamp
    BY DEF Input
  <2>2. stamp - i \in tick[c] .. tick[c] + Delay
    BY <1>4
  <2>3. local[c][LocalSlot(stamp - i)] = Genuine(c, stamp - i)
    BY <2>2 DEF IInv, LocalHeld
  <2> QED
    BY <2>1, <2>3
<1>6. r.stamp = stamp /\ Peer(p) = c /\ p \in Console
  BY DEF Input
<1>7. \A q \in Console : sent[q] \in Delay - 1 .. tick[q] + Delay
  BY DEF IInv, NotAhead
<1>8. sent \in [Console -> Int] /\ sent'[c] = stamp
      /\ \A q \in Console : q # c => sent'[q] = sent[q]
  BY <1>1, <1>3 DEF TypeOK
<1> HIDE DEF r
<1>9. \A q \in Console : /\ sent'[q] \in Delay - 1 .. tick[q] + Delay
                         /\ sent[q] <= sent'[q]
  <2> SUFFICES ASSUME NEW q \in Console
               PROVE  /\ sent'[q] \in Delay - 1 .. tick[q] + Delay
                      /\ sent[q] <= sent'[q]
    OBVIOUS
  <2>1. sent[q] \in Int /\ sent[q] \in Delay - 1 .. tick[q] + Delay
    BY <1>7, <1>8
  <2>2. CASE q = c
    BY <1>4, <1>8, <2>1, <2>2
  <2>3. CASE q # c
    BY <1>8, <2>1, <2>3
  <2> QED
    BY <2>2, <2>3
<1>10. IsInput(r) => /\ r.stamp \in Delay .. sent'[Peer(p)]
                     /\ sent[Peer(p)] <= r.stamp
                     /\ TrueWindow(p, r)
  <2>1. sent[c] <= stamp /\ stamp \in Delay .. stamp
    BY <1>4, <1>7, <1>8
  <2> QED
    BY <1>5, <1>6, <1>8, <2>1
<1>11. CASE net' = [net EXCEPT ![p] = Append(net[p], r)]
  BY <1>1, <1>2, <1>3, <1>6, <1>9, <1>10, <1>11, Behind
<1>12. CASE net' = net
  <2>1. NotAhead'
    <3>1. \A q \in Console : /\ wm[q] <= sent[Peer(q)] /\ wm[q] \in Int
                             /\ sent[Peer(q)] \in Int /\ sent'[Peer(q)] \in Int
      BY <1>1 DEF IInv, NotAhead, TypeOK
    <3>2. ASSUME NEW q \in Console, NEW s \in Int, s \in Delay .. sent[Peer(q)]
          PROVE  s \in Delay .. sent'[Peer(q)]
      BY <1>9, <3>1, <3>2
    <3>3. \A q \in Console : wm[q] <= sent'[Peer(q)]
      BY <1>9, <3>1
    <3>4. \A q \in Console : \A i \in DOMAIN net[q] : IsInput(net[q][i]) =>
            net[q][i].stamp \in Delay .. sent'[Peer(q)]
      BY <3>1, <3>2 DEF IInv, NotAhead
    <3>5. \A q \in Console : \A i \in DOMAIN batch[q] : IsInput(batch[q][i]) =>
            batch[q][i].stamp \in Delay .. sent'[Peer(q)]
      BY <3>1, <3>2 DEF IInv, NotAhead
    <3> QED
      BY <1>3, <1>9, <1>12, <3>3, <3>4, <3>5 DEF NotAhead, IsInput
  <2>2. Captured' /\ LocalHeld' /\ LogTrue'
    BY <1>3, Between
  <2>3. Gated' /\ InOrder' /\ RingHeld'
    BY <1>3, <1>12 DEF IInv, Gated, InOrder, RingHeld, Due, Known, Genuine
  <2>4. Contiguous'
    BY <1>3, <1>12 DEF IInv, Contiguous, Known
  <2>5. RecordsTrue'
    BY <1>3, <1>12 DEF IInv, RecordsTrue, TrueWindow, Genuine
  <2> QED
    BY <1>1, <2>1, <2>2, <2>3, <2>4, <2>5 DEF IInv
<1> QED
  BY <1>3, <1>11, <1>12

LEMMA DropInv ==
  ASSUME IInv, NEW c \in Console, Drop(c)
  PROVE  IInv'
<1>1. TypeOK /\ TypeOK'
  BY DropType DEF IInv
<1>2. PeerLeft \in Record /\ ~IsInput(PeerLeft) /\ Peer(c) \in Console
  BY PeerFacts DEF Record, PeerLeft, IsInput
<1>3. /\ net' = [net EXCEPT ![Peer(c)] = Append(net[Peer(c)], PeerLeft)]
      /\ UNCHANGED <<tick, ran, local, taken, log, remote, wm, batch, sent>>
  BY <1>1, <1>2 DEF Drop, TypeOK
<1>4. \A q \in Console : /\ sent'[q] \in Delay - 1 .. tick[q] + Delay
                         /\ sent[q] <= sent'[q]
  <2>1. \A q \in Console : sent[q] \in Delay - 1 .. tick[q] + Delay
    BY DEF IInv, NotAhead
  <2>2. \A q \in Console : sent[q] \in Int
    BY <1>1 DEF TypeOK
  <2> QED
    BY <1>3, <2>1, <2>2
<1> QED
  BY <1>1, <1>2, <1>3, <1>4, Behind

(* What CONSUME leaves of the batch is a part of it.                       *)
LEMMA Shorter ==
  ASSUME TypeOK, NEW c \in Console, batch[c] # <<>>,
         batch' = [batch EXCEPT ![c] = Unread(c)]
  PROVE  \A q \in Console : \A i \in DOMAIN batch'[q] :
           i \in DOMAIN batch[q] /\ batch'[q][i] = batch[q][i]
<1>1. /\ batch[c] \in Seq(Record) /\ Len(batch[c]) \in Nat \ {0}
      /\ Unread(c) \in Seq(Record) /\ Len(Unread(c)) = Len(batch[c]) - 1
      /\ \A i \in 1 .. Len(batch[c]) - 1 : Unread(c)[i] = batch[c][i]
  BY NewestRecord DEF TypeOK
<1>2. /\ batch'[c] = Unread(c)
      /\ \A q \in Console : q # c => batch'[q] = batch[q]
  BY DEF TypeOK
<1>3. DOMAIN batch'[c] = 1 .. Len(batch[c]) - 1 /\ DOMAIN batch[c] = 1 .. Len(batch[c])
  BY <1>1, <1>2
<1>4. \A i \in DOMAIN batch'[c] : i \in DOMAIN batch[c] /\ batch'[c][i] = batch[c][i]
  BY <1>1, <1>2, <1>3
<1> QED
  BY <1>2, <1>4

LEMMA ConsumeLeftInv ==
  ASSUME IInv, NEW c \in Console, ConsumeLeft(c)
  PROVE  IInv'
<1>1. TypeOK /\ TypeOK'
  BY NetType DEF IInv, NetStep
<1>2. /\ batch[c] # <<>> /\ batch' = [batch EXCEPT ![c] = Unread(c)]
      /\ UNCHANGED <<tick, ran, local, taken, log, remote, wm, net, sent>>
  BY DEF ConsumeLeft
<1>3. \A q \in Console : \A i \in DOMAIN batch'[q] :
        i \in DOMAIN batch[q] /\ batch'[q][i] = batch[q][i]
  BY <1>1, <1>2, Shorter
<1>4. Captured' /\ LocalHeld' /\ LogTrue'
  BY <1>2, Between
<1>5. Gated' /\ RingHeld'
  BY <1>2 DEF IInv, Gated, RingHeld, Due, Known, Genuine
<1>6. NotAhead'
  BY <1>2, <1>3 DEF IInv, NotAhead
<1>7. InOrder'
  BY <1>2, <1>3 DEF IInv, InOrder
<1>8. Contiguous'
  BY <1>2, <1>3 DEF IInv, Contiguous, Known
<1>9. RecordsTrue'
  <2>1. \A q \in Console : \A i \in DOMAIN batch'[q] : TrueWindow(q, batch'[q][i])
    BY <1>3 DEF IInv, RecordsTrue
  <2>2. \A q \in Console : \A i \in DOMAIN net'[q] : TrueWindow(q, net'[q][i])
    BY <1>2 DEF IInv, RecordsTrue
  <2> QED
    BY <1>2, <2>1, <2>2 DEF RecordsTrue, TrueWindow, Genuine, IsInput
<1> QED
  BY <1>1, <1>4, <1>5, <1>6, <1>7, <1>8, <1>9 DEF IInv

(* A record's ticks lie in slots of their own, so each is found again.     *)
LEMMA StoredTick ==
  ASSUME NEW c \in Console, NEW r, r.stamp \in Int, NEW j \in 0 .. Window - 1
  PROVE  Store(c, r)[RemoteSlot(r.stamp - j)] = r.win[j]
<1> USE Sizes
<1> DEFINE s == RemoteSlot(r.stamp - j)
           k == CHOOSE i \in 0 .. Window - 1 : RemoteSlot(r.stamp - i) = s
<1>1. r.stamp - j \in Int /\ s \in 0 .. RemoteSlots - 1
  BY SlotRange
<1>2. \E i \in 0 .. Window - 1 : RemoteSlot(r.stamp - i) = s
  OBVIOUS
<1>3. k \in 0 .. Window - 1 /\ RemoteSlot(r.stamp - k) = s
  BY <1>2
<1>4. Store(c, r)[s] = r.win[k]
  BY <1>1, <1>2 DEF Store
<1> HIDE DEF k
<1>5. k = j
  <2> SUFFICES ASSUME k # j PROVE FALSE
    OBVIOUS
  <2>1. /\ r.stamp - k \in Int /\ r.stamp - k # r.stamp - j
        /\ (r.stamp - k) - (r.stamp - j) < RemoteSlots
        /\ (r.stamp - j) - (r.stamp - k) < RemoteSlots
    BY <1>3
  <2> QED
    BY <1>1, <1>3, <2>1, RemoteSlotsDiffer
<1> QED
  BY <1>4, <1>5

(* A tick outside the record's window keeps its slot.                      *)
LEMMA KeptTick ==
  ASSUME TypeOK, NEW c \in Console, NEW r, r.stamp \in Int, NEW x \in Int,
         x < r.stamp - (Window - 1) \/ x > r.stamp,
         x - r.stamp <= RemoteSlots - Window, r.stamp - x < RemoteSlots
  PROVE  Store(c, r)[RemoteSlot(x)] = remote[c][RemoteSlot(x)]
<1> USE Sizes
<1>1. RemoteSlot(x) \in 0 .. RemoteSlots - 1
  BY SlotRange
<1>2. ASSUME NEW i \in 0 .. Window - 1
      PROVE  RemoteSlot(r.stamp - i) # RemoteSlot(x)
  <2>1. /\ r.stamp - i \in Int /\ r.stamp - i # x
        /\ (r.stamp - i) - x < RemoteSlots /\ x - (r.stamp - i) < RemoteSlots
    OBVIOUS
  <2> QED
    BY <2>1, RemoteSlotsDiffer
<1> QED
  BY <1>1, <1>2 DEF Store

(* What consuming a record does to the watermark.                          *)
LEMMA WatermarkMoves ==
  ASSUME IInv, NEW c \in Console, ConsumeInput(c)
  PROVE  LET r == Newest(c)
         IN  /\ r \in Record /\ IsInput(r) /\ r.stamp \in Nat
             /\ \E last \in DOMAIN batch[c] : batch[c][last] = r
             /\ r.stamp <= Known(c) + Window /\ wm[c] <= r.stamp + Window
             /\ Delay <= r.stamp /\ r.stamp <= sent[Peer(c)]
             /\ wm[c] \in Int /\ wm[c] >= -2
             /\ wm'[c] = IF r.stamp >= wm[c] THEN r.stamp ELSE wm[c]
             /\ wm'[c] \in Int /\ wm'[c] >= wm[c]
             /\ \A q \in Console : q # c => wm'[q] = wm[q]
<1> USE PeerFacts, Sizes
<1> DEFINE p == Peer(c)
<1>1. TypeOK
  BY DEF IInv
<1>2. PICK r \in Record : r = Newest(c)
  BY <1>1, NewestRecord DEF ConsumeInput
<1>3. IsInput(r) /\ r.stamp \in Nat
  BY <1>2, InputRecord DEF ConsumeInput, IsInput
<1>4. PICK last \in DOMAIN batch[c] : batch[c][last] = r
  <2>1. batch[c] \in Seq(Record) /\ Len(batch[c]) \in Nat \ {0}
    BY <1>1, NewestRecord DEF ConsumeInput, TypeOK
  <2> QED
    BY <1>2, <2>1 DEF Newest
<1>5. wm' = IF Signed(Byte(Byte(r.stamp) - Byte(wm[c]))) >= 0
            THEN [wm EXCEPT ![c] = r.stamp] ELSE wm
  BY <1>2 DEF ConsumeInput
<1>6. /\ wm[c] \in Int /\ Due(c) \in Int /\ Due(c) >= 0 /\ Known(c) \in Int
      /\ sent[p] \in Int /\ sent[p] <= Due(c) + 2 * Delay + 1
  BY <1>1, Reach DEF TypeOK
<1>7. /\ r.stamp <= Known(c) + Window /\ wm[c] <= r.stamp + Window
      /\ Delay <= r.stamp /\ r.stamp <= sent[p] /\ wm[c] >= -2
  <2>1. r.stamp <= Known(c) + Window /\ wm[c] <= r.stamp + Window
    BY <1>3, <1>4 DEF IInv, Contiguous
  <2>2. r.stamp \in Delay .. sent[p]
    BY <1>3, <1>4 DEF IInv, NotAhead
  <2>3. wm[c] >= -2
    BY DEF IInv, Gated
  <2> QED
    BY <1>6, <2>1, <2>2, <2>3
<1>8. Signed(Byte(Byte(r.stamp) - Byte(wm[c]))) = r.stamp - wm[c]
  <2>1. r.stamp - wm[c] \in -128 .. 127
    <3>1. Known(c) <= 2 \/ Known(c) = wm[c]
      BY DEF Known
    <3>2. r.stamp \in Int /\ wm[c] \in Int /\ Known(c) \in Int
      BY <1>3, <1>6
    <3>3. r.stamp <= Known(c) + 4 /\ wm[c] <= r.stamp + 4 /\ wm[c] >= -2
      BY <1>6, <1>7, <3>2
    <3> QED
      BY <3>1, <3>2, <3>3
  <2>2. r.stamp \in Int /\ wm[c] \in Int
    BY <1>3, <1>6
  <2> QED
    BY <2>1, <2>2, SignedDifference
<1>9. /\ wm'[c] = IF r.stamp >= wm[c] THEN r.stamp ELSE wm[c]
      /\ wm'[c] \in Int /\ wm'[c] >= wm[c]
      /\ \A q \in Console : q # c => wm'[q] = wm[q]
  <2>1. wm' = IF r.stamp >= wm[c] THEN [wm EXCEPT ![c] = r.stamp] ELSE wm
    BY <1>3, <1>5, <1>6, <1>8
  <2>2. wm \in [Console -> Int]
    BY <1>1 DEF TypeOK
  <2>3. CASE r.stamp >= wm[c]
    BY <1>3, <1>6, <2>1, <2>2, <2>3
  <2>4. CASE ~(r.stamp >= wm[c])
    <3>1. wm' = wm
      BY <2>1, <2>4
    <3> QED
      BY <1>6, <2>4, <3>1
  <2> QED
    BY <2>3, <2>4
<1>10. wm[c] \in Int /\ r \in Record /\ \E i \in DOMAIN batch[c] : batch[c][i] = r
  BY <1>4, <1>6
<1> QED
  BY <1>2, <1>3, <1>7, <1>9, <1>10

LEMMA ConsumeInputInv ==
  ASSUME IInv, NEW c \in Console, ConsumeInput(c)
  PROVE  IInv'
<1> USE PeerFacts, Sizes
<1> DEFINE p == Peer(c)
<1>1. TypeOK /\ TypeOK'
  BY NetType DEF IInv, NetStep
<1>2. PICK r \in Record : r = Newest(c)
  BY WatermarkMoves
<1>3. IsInput(r) /\ r.stamp \in Nat
  BY <1>2, WatermarkMoves
<1>4. PICK last \in DOMAIN batch[c] : batch[c][last] = r
  BY <1>2, WatermarkMoves
<1>5. /\ batch[c] # <<>> /\ batch' = [batch EXCEPT ![c] = Unread(c)]
      /\ remote' = [remote EXCEPT ![c] = Store(c, r)]
      /\ UNCHANGED <<tick, ran, local, taken, log, net, sent>>
  BY <1>2 DEF ConsumeInput, sim
<1>6. \A q \in Console : \A i \in DOMAIN batch'[q] :
        i \in DOMAIN batch[q] /\ batch'[q][i] = batch[q][i]
  BY <1>1, <1>5, Shorter
<1>7. Captured' /\ LocalHeld' /\ LogTrue' /\ (\A q \in Console : Due(q)' = Due(q))
  BY <1>5, Between
<1>8. /\ wm[c] \in Int /\ Due(c) \in Int /\ Due(c) >= 0 /\ Known(c) \in Int
      /\ sent[p] \in Int /\ sent[p] <= Due(c) + 2 * Delay + 1
  BY <1>1, Reach DEF TypeOK
<1>9. /\ r.stamp <= Known(c) + Window /\ wm[c] <= r.stamp + Window
      /\ Delay <= r.stamp /\ r.stamp <= sent[p] /\ wm[c] >= -2
  BY <1>2, WatermarkMoves
<1>10. /\ wm'[c] = IF r.stamp >= wm[c] THEN r.stamp ELSE wm[c]
       /\ wm'[c] \in Int /\ wm'[c] >= wm[c]
       /\ \A q \in Console : q # c => wm'[q] = wm[q]
  BY <1>2, WatermarkMoves
<1>11. /\ Known(c)' \in Int /\ Known(c)' >= Known(c)
       /\ Known(c)' = IF r.stamp >= wm[c] THEN r.stamp ELSE Known(c)
       /\ \A q \in Console : q # c => Known(q)' = Known(q)
  <2>1. \A q \in Console : q # c => Known(q)' = Known(q)
    BY <1>10 DEF Known
  <2>2. Known(c)' = IF wm'[c] < Delay - 1 THEN Delay - 1 ELSE wm'[c]
    BY DEF Known
  <2> QED
    BY <1>3, <1>8, <1>9, <1>10, <2>1, <2>2 DEF Known
<1>12. Gated'
  <2> SUFFICES ASSUME NEW q \in Console
               PROVE  wm'[q] >= -2 /\ (Due(q) = 0 \/ Due(q) <= wm'[q] + 1)
    BY <1>7 DEF Gated
  <2>1. wm[q] >= -2 /\ (Due(q) = 0 \/ Due(q) <= wm[q] + 1)
    BY DEF IInv, Gated
  <2>2. wm[q] \in Int /\ wm'[q] \in Int /\ Due(q) \in Int /\ wm'[q] >= wm[q]
    <3>1. wm[q] \in Int /\ Due(q) \in Int
      BY Reach
    <3> QED
      BY <1>10, <3>1
  <2> QED
    BY <2>1, <2>2
<1>13. NotAhead'
  <2>1. \A q \in Console : wm'[q] <= sent[Peer(q)]
    <3>1. \A q \in Console : wm[q] <= sent[Peer(q)]
      BY DEF IInv, NotAhead
    <3>2. wm'[c] <= sent[p]
      BY <1>9, <1>10, <3>1
    <3> QED
      BY <1>10, <3>1, <3>2
  <2> QED
    BY <1>5, <1>6, <2>1 DEF IInv, NotAhead
<1>14. InOrder'
  <2>1. ASSUME NEW q \in Console, NEW i \in DOMAIN net[q], IsInput(net[q][i])
        PROVE  wm'[q] <= net[q][i].stamp
    <3>1. wm[q] <= net[q][i].stamp
      BY <2>1 DEF IInv, InOrder
    <3>2. CASE q = c
      <4>1. r.stamp <= net[c][i].stamp
        BY <1>3, <1>4, <2>1, <3>2 DEF IInv, InOrder
      <4> QED
        BY <1>10, <3>1, <3>2, <4>1
    <3>3. CASE q # c
      BY <1>10, <3>1, <3>3
    <3> QED
      BY <3>2, <3>3
  <2>2. ASSUME NEW q \in Console, NEW i \in DOMAIN batch'[q], NEW j \in DOMAIN net[q],
               IsInput(batch'[q][i]), IsInput(net[q][j])
        PROVE  batch'[q][i].stamp <= net[q][j].stamp
    <3>1. i \in DOMAIN batch[q] /\ batch'[q][i] = batch[q][i]
      BY <1>6
    <3> QED
      BY <2>2, <3>1 DEF IInv, InOrder
  <2>3. \A q \in Console : \A i, j \in DOMAIN net[q] :
          i <= j /\ IsInput(net[q][i]) /\ IsInput(net[q][j]) =>
            net[q][i].stamp <= net[q][j].stamp
    BY DEF IInv, InOrder
  <2> QED
    BY <1>5, <2>1, <2>2, <2>3 DEF InOrder, IsInput
<1>15. Contiguous'
  <2> SUFFICES ASSUME NEW q \in Console, NEW i \in DOMAIN batch'[q],
                      IsInput(batch'[q][i])
               PROVE  /\ batch'[q][i].stamp <= Known(q)' + Window
                      /\ wm'[q] <= batch'[q][i].stamp + Window
                      /\ \A j \in DOMAIN batch'[q] : IsInput(batch'[q][j]) =>
                           batch'[q][j].stamp <= batch'[q][i].stamp + Window
    BY DEF Contiguous, IsInput
  <2>1. i \in DOMAIN batch[q] /\ batch'[q][i] = batch[q][i] /\ IsInput(batch[q][i])
    BY <1>6
  <2>2. /\ batch[q][i].stamp <= Known(q) + Window
        /\ wm[q] <= batch[q][i].stamp + Window
        /\ \A j \in DOMAIN batch[q] : IsInput(batch[q][j]) =>
             batch[q][j].stamp <= batch[q][i].stamp + Window
    BY <2>1 DEF IInv, Contiguous
  <2>3. batch[q][i].stamp \in Nat /\ Known(q) \in Int
    <3>1. batch[q][i] \in Record
      BY <1>1, <2>1, InFlightType
    <3> QED
      BY <2>1, <3>1, InputRecord, Reach DEF IsInput
  <2>4. batch[q][i].stamp <= Known(q)' + Window
    <3>1. Known(q)' \in Int /\ Known(q)' >= Known(q)
      BY <1>11, <2>3
    <3> QED
      BY <2>2, <2>3, <3>1
  <2>5. wm'[q] <= batch[q][i].stamp + Window
    <3>1. CASE q = c
      <4>1. r.stamp <= batch[c][i].stamp + Window
        BY <1>3, <1>4, <2>2, <3>1
      <4> QED
        BY <1>10, <2>2, <3>1, <4>1
    <3>2. CASE q # c
      BY <1>10, <2>2, <3>2
    <3> QED
      BY <3>1, <3>2
  <2> QED
    BY <1>6, <2>1, <2>2, <2>4, <2>5
<1>16. RecordsTrue'
  <2>1. \A q \in Console : \A i \in DOMAIN batch'[q] : TrueWindow(q, batch'[q][i])
    BY <1>6 DEF IInv, RecordsTrue
  <2>2. \A q \in Console : \A i \in DOMAIN net'[q] : TrueWindow(q, net'[q][i])
    BY <1>5 DEF IInv, RecordsTrue
  <2> QED
    BY <1>5, <2>1, <2>2 DEF RecordsTrue, TrueWindow, Genuine, IsInput
<1>17. RingHeld'
  <2> SUFFICES ASSUME NEW q \in Console, NEW x \in Due(q) .. Known(q)'
               PROVE  remote'[q][RemoteSlot(x)] = Genuine(Peer(q), x)
    BY <1>5, <1>7 DEF RingHeld, Genuine
  <2>1. remote \in [Console -> [0 .. RemoteSlots - 1 -> Token]]
    BY <1>1 DEF TypeOK
  <2>2. CASE q # c
    <3>1. remote'[q] = remote[q] /\ x \in Due(q) .. Known(q)
      BY <1>5, <1>11, <2>1, <2>2
    <3> QED
      BY <3>1 DEF IInv, RingHeld
  <2>3. CASE q = c
    <3>1. remote'[c] = Store(c, r) /\ x \in Int /\ Due(c) <= x /\ x <= Known(c)'
      BY <1>5, <1>8, <1>11, <2>1, <2>3
    <3>2. CASE x \in r.stamp - (Window - 1) .. r.stamp
      <4>1. PICK j \in 0 .. Window - 1 : x = r.stamp - j
        <5>1. r.stamp - x \in 0 .. Window - 1 /\ x = r.stamp - (r.stamp - x)
          BY <1>3, <3>1, <3>2
        <5> QED
          BY <5>1
      <4>2. Store(c, r)[RemoteSlot(x)] = r.win[j]
        BY <1>3, <4>1, StoredTick
      <4>3. TrueWindow(c, r)
        BY <1>4 DEF IInv, RecordsTrue
      <4>4. r.win[j] = Genuine(p, x)
        BY <1>3, <4>1, <4>3 DEF TrueWindow
      <4> QED
        BY <2>3, <3>1, <4>2, <4>4
    <3>3. CASE ~(x \in r.stamp - (Window - 1) .. r.stamp)
      <4>1. x < r.stamp - (Window - 1) \/ x > r.stamp
        BY <1>3, <3>1, <3>3
      <4>2. x <= Known(c)
        BY <1>3, <1>8, <1>9, <1>11, <3>1, <4>1
      <4>3. r.stamp - x < RemoteSlots
        BY <1>3, <1>8, <1>9, <3>1
      <4>4. x - r.stamp <= RemoteSlots - Window
        <5>1. Known(c) <= r.stamp + Window
          BY <1>3, <1>8, <1>9 DEF Known
        <5> QED
          BY <1>3, <1>8, <3>1, <4>2, <5>1
      <4>5. Store(c, r)[RemoteSlot(x)] = remote[c][RemoteSlot(x)]
        BY <1>1, <1>3, <3>1, <4>1, <4>3, <4>4, KeptTick
      <4>6. x \in Due(c) .. Known(c)
        BY <1>8, <3>1, <4>2
      <4>7. remote[c][RemoteSlot(x)] = Genuine(p, x)
        BY <4>6 DEF IInv, RingHeld
      <4> QED
        BY <2>3, <3>1, <4>5, <4>7
    <3> QED
      BY <3>2, <3>3
  <2> QED
    BY <2>2, <2>3
<1> QED
  BY <1>1, <1>7, <1>12, <1>13, <1>14, <1>15, <1>16, <1>17 DEF IInv

(* One READ: its records are the first of those on their way, so all of    *)
(* them are newer than the watermark and, by SmoothArrivals, near it.      *)
LEMMA PollInv ==
  ASSUME IInv, SmoothArrivals, NEW c \in Console, Poll(c)
  PROVE  IInv'
<1> USE PeerFacts, Sizes
<1>1. TypeOK /\ TypeOK'
  BY NetType DEF IInv, NetStep
<1>2. PICK n \in 0 .. Len(net[c]) :
        /\ Smooth(c, SubSeq(net[c], 1, n))
        /\ batch' = [batch EXCEPT ![c] = SubSeq(net[c], 1, n)]
        /\ net'   = [net EXCEPT ![c] = SubSeq(net[c], n + 1, Len(net[c]))]
  BY <1>1 DEF Poll, TypeOK
<1>3. UNCHANGED <<tick, ran, local, taken, log, remote, wm, sent>>
  BY DEF Poll, sim
<1>4. net[c] \in Seq(Record) /\ Len(net[c]) \in Nat /\ DOMAIN net[c] = 1 .. Len(net[c])
  BY <1>1 DEF TypeOK
<1>5. /\ DOMAIN batch'[c] = 1 .. n
      /\ \A i \in 1 .. n : batch'[c][i] = net[c][i] /\ i \in DOMAIN net[c]
      /\ \A q \in Console : q # c => batch'[q] = batch[q]
  <2>1. /\ SubSeq(net[c], 1, n) \in Seq(Record) /\ Len(SubSeq(net[c], 1, n)) = n
        /\ \A i \in 1 .. n : SubSeq(net[c], 1, n)[i] = net[c][i]
    BY <1>4, Prefix
  <2>2. batch'[c] = SubSeq(net[c], 1, n) /\ \A q \in Console : q # c => batch'[q] = batch[q]
    BY <1>1, <1>2 DEF TypeOK
  <2>3. \A i \in 1 .. n : i \in DOMAIN net[c]
    BY <1>4
  <2> QED
    BY <2>1, <2>2, <2>3
<1>6. /\ DOMAIN net'[c] = 1 .. Len(net[c]) - n
      /\ \A i \in 1 .. Len(net[c]) - n :
           net'[c][i] = net[c][n + i] /\ n + i \in DOMAIN net[c]
      /\ \A q \in Console : q # c => net'[q] = net[q]
  <2> DEFINE rest == SubSeq(net[c], n + 1, Len(net[c]))
  <2>1. /\ rest \in Seq(Record) /\ Len(rest) = Len(net[c]) - n
        /\ \A i \in 1 .. Len(net[c]) - n : rest[i] = net[c][n + i]
    <3>1. net[c] \in Seq(Record) /\ n \in 0 .. Len(net[c])
      BY <1>4
    <3> QED
      BY <3>1, Suffix
  <2>2. net'[c] = rest /\ \A q \in Console : q # c => net'[q] = net[q]
    BY <1>1, <1>2 DEF TypeOK
  <2>3. \A i \in 1 .. Len(net[c]) - n : n + i \in DOMAIN net[c]
    BY <1>4
  <2> HIDE DEF rest
  <2>4. DOMAIN rest = 1 .. Len(net[c]) - n
    BY <2>1
  <2> QED
    BY <2>1, <2>2, <2>3, <2>4
<1>7. Captured' /\ LocalHeld' /\ LogTrue'
  BY <1>3, Between
<1>8. Gated' /\ RingHeld'
  BY <1>3 DEF IInv, Gated, RingHeld, Due, Known, Genuine
<1>9. NotAhead'
  <2>1. \A i \in DOMAIN batch'[c] : IsInput(batch'[c][i]) =>
          batch'[c][i].stamp \in Delay .. sent[Peer(c)]
    BY <1>5 DEF IInv, NotAhead
  <2>2. \A i \in DOMAIN net'[c] : IsInput(net'[c][i]) =>
          net'[c][i].stamp \in Delay .. sent[Peer(c)]
    BY <1>6 DEF IInv, NotAhead
  <2>3. \A q \in Console : q # c =>
          /\ \A i \in DOMAIN batch'[q] : IsInput(batch'[q][i]) =>
               batch'[q][i].stamp \in Delay .. sent[Peer(q)]
          /\ \A i \in DOMAIN net'[q] : IsInput(net'[q][i]) =>
               net'[q][i].stamp \in Delay .. sent[Peer(q)]
    BY <1>5, <1>6 DEF IInv, NotAhead
  <2>4. \A q \in Console : /\ sent[q] \in Delay - 1 .. tick[q] + Delay
                           /\ wm[q] <= sent[Peer(q)]
    BY DEF IInv, NotAhead
  <2> QED
    BY <1>3, <2>1, <2>2, <2>3, <2>4 DEF NotAhead, IsInput
<1>10. \A i, j \in DOMAIN net[c] :
         i <= j /\ IsInput(net[c][i]) /\ IsInput(net[c][j]) =>
           net[c][i].stamp <= net[c][j].stamp
  BY DEF IInv, InOrder
<1>11. InOrder'
  <2>1. ASSUME NEW i \in DOMAIN net'[c], IsInput(net'[c][i])
        PROVE  wm[c] <= net'[c][i].stamp
    BY <1>6, <2>1 DEF IInv, InOrder
  <2>2. ASSUME NEW i \in DOMAIN net'[c], NEW j \in DOMAIN net'[c], i <= j,
               IsInput(net'[c][i]), IsInput(net'[c][j])
        PROVE  net'[c][i].stamp <= net'[c][j].stamp
    <3>1. n + i <= n + j
      BY <1>6, <2>2
    <3>2. /\ n + i \in DOMAIN net[c] /\ n + j \in DOMAIN net[c]
          /\ net'[c][i] = net[c][n + i] /\ net'[c][j] = net[c][n + j]
      BY <1>6, <2>2
    <3> QED
      BY <1>10, <2>2, <3>1, <3>2
  <2>3. ASSUME NEW i \in DOMAIN batch'[c], NEW j \in DOMAIN net'[c],
               IsInput(batch'[c][i]), IsInput(net'[c][j])
        PROVE  batch'[c][i].stamp <= net'[c][j].stamp
    <3>1. /\ i \in DOMAIN net[c] /\ n + j \in DOMAIN net[c]
          /\ batch'[c][i] = net[c][i] /\ net'[c][j] = net[c][n + j]
      BY <1>5, <1>6, <2>3
    <3>2. i <= n + j
      BY <1>5, <1>6, <2>3
    <3> QED
      BY <1>10, <2>3, <3>1, <3>2
  <2>4. ASSUME NEW q \in Console, q # c
        PROVE  /\ \A i \in DOMAIN net'[q] : IsInput(net'[q][i]) => wm[q] <= net'[q][i].stamp
               /\ \A i, j \in DOMAIN net'[q] :
                    i <= j /\ IsInput(net'[q][i]) /\ IsInput(net'[q][j]) =>
                      net'[q][i].stamp <= net'[q][j].stamp
               /\ \A i \in DOMAIN batch'[q], j \in DOMAIN net'[q] :
                    IsInput(batch'[q][i]) /\ IsInput(net'[q][j]) =>
                      batch'[q][i].stamp <= net'[q][j].stamp
    <3>1. batch'[q] = batch[q] /\ net'[q] = net[q]
      BY <1>5, <1>6, <2>4
    <3> QED
      BY <3>1 DEF IInv, InOrder
  <2> QED
    BY <1>3, <2>1, <2>2, <2>3, <2>4 DEF InOrder, IsInput
<1>12. Contiguous'
  <2>1. ASSUME NEW i \in DOMAIN batch'[c], IsInput(batch'[c][i])
        PROVE  /\ batch'[c][i].stamp \in Int
               /\ batch'[c][i].stamp <= Known(c) + Window
               /\ Delay <= batch'[c][i].stamp /\ wm[c] <= batch'[c][i].stamp
    <3>1. batch'[c][i] = net[c][i] /\ i \in DOMAIN net[c] /\ IsInput(net[c][i])
      BY <1>5, <2>1
    <3>2. wm[c] <= net[c][i].stamp
      BY <3>1 DEF IInv, InOrder
    <3>3. net[c][i].stamp \in Delay .. sent[Peer(c)]
      BY <3>1 DEF IInv, NotAhead
    <3>4. net[c][i].stamp \in Nat
      BY <1>1, <3>1, InFlightType, InputRecord DEF IsInput
    <3>5. net[c][i].stamp - Known(c) <= BurstTicks
      <4>1. SubSeq(net[c], 1, n) = batch'[c] /\ Len(batch'[c]) = n
        <5>1. Len(SubSeq(net[c], 1, n)) = n
          BY <1>4, Prefix
        <5>2. batch'[c] = SubSeq(net[c], 1, n)
          BY <1>1, <1>2 DEF TypeOK
        <5> QED
          BY <5>1, <5>2
      <4>2. i \in 1 .. Len(batch'[c])
        BY <1>5, <2>1, <4>1
      <4> QED
        <5>1. Smooth(c, SubSeq(net[c], 1, n))
          BY <1>2
        <5>2. \A k \in 1 .. Len(SubSeq(net[c], 1, n)) :
                SubSeq(net[c], 1, n)[k].kind = "INPUT" =>
                  SubSeq(net[c], 1, n)[k].stamp - Known(c) <= BurstTicks
          BY <5>1 DEF Smooth
        <5>3. i \in 1 .. Len(SubSeq(net[c], 1, n)) /\ SubSeq(net[c], 1, n)[i] = net[c][i]
          BY <3>1, <4>1, <4>2
        <5> QED
          BY <3>1, <5>2, <5>3 DEF IsInput
    <3>6. net[c][i].stamp <= Known(c) + Window
      <4>1. Known(c) \in Int /\ BurstTicks \in Nat /\ BurstTicks <= Window
        BY Reach, BoundsAssumption DEF SmoothArrivals
      <4>2. net[c][i].stamp \in Int /\ Window \in Int
        BY <3>4
      <4> QED
        BY <3>5, <4>1, <4>2
    <3>7. Delay <= net[c][i].stamp
      <4>1. sent[Peer(c)] \in Int
        BY <1>1 DEF TypeOK
      <4> QED
        BY <3>3, <4>1
    <3> QED
      BY <3>1, <3>2, <3>4, <3>6, <3>7
  <2>2. wm[c] \in Int /\ Known(c) \in Int
    BY Reach
  <2>3. ASSUME NEW i \in DOMAIN batch'[c], NEW j \in DOMAIN batch'[c],
               IsInput(batch'[c][i]), IsInput(batch'[c][j])
        PROVE  batch'[c][j].stamp <= batch'[c][i].stamp + Window
    <3>1. /\ batch'[c][j].stamp \in Int /\ batch'[c][j].stamp <= Known(c) + Window
          /\ batch'[c][i].stamp \in Int /\ Delay <= batch'[c][i].stamp
          /\ wm[c] <= batch'[c][i].stamp
      BY <2>1, <2>3
    <3> QED
      BY <2>2, <3>1 DEF Known
  <2>4. \A q \in Console : Known(q)' = Known(q)
    BY <1>3 DEF Known
  <2>5. ASSUME NEW i \in DOMAIN batch'[c], IsInput(batch'[c][i])
        PROVE  /\ batch'[c][i].stamp <= Known(c) + Window
               /\ wm[c] <= batch'[c][i].stamp + Window
    BY <2>1, <2>2, <2>5
  <2>6. ASSUME NEW q \in Console, q # c, NEW i \in DOMAIN batch'[q], IsInput(batch'[q][i])
        PROVE  /\ batch'[q][i].stamp <= Known(q) + Window
               /\ wm[q] <= batch'[q][i].stamp + Window
               /\ \A j \in DOMAIN batch'[q] :
                    IsInput(batch'[q][j]) => batch'[q][j].stamp <= batch'[q][i].stamp + Window
    BY <1>5, <2>6 DEF IInv, Contiguous
  <2> QED
    BY <1>3, <2>3, <2>4, <2>5, <2>6 DEF Contiguous, IsInput
<1>13. RecordsTrue'
  <2>1. \A i \in DOMAIN batch'[c] : TrueWindow(c, batch'[c][i])
    BY <1>5 DEF IInv, RecordsTrue
  <2>2. \A i \in DOMAIN net'[c] : TrueWindow(c, net'[c][i])
    BY <1>6 DEF IInv, RecordsTrue
  <2>3. \A q \in Console : q # c =>
          /\ \A i \in DOMAIN batch'[q] : TrueWindow(q, batch'[q][i])
          /\ \A i \in DOMAIN net'[q] : TrueWindow(q, net'[q][i])
    BY <1>5, <1>6 DEF IInv, RecordsTrue
  <2> QED
    BY <1>3, <2>1, <2>2, <2>3 DEF RecordsTrue, TrueWindow, Genuine, IsInput
<1> QED
  BY <1>1, <1>7, <1>8, <1>9, <1>11, <1>12, <1>13 DEF IInv

LEMMA InvStep ==
  ASSUME SmoothArrivals
  PROVE  IInv /\ [Next]_vars => IInv'
<1> SUFFICES ASSUME IInv, [Next]_vars PROVE IInv'
  OBVIOUS
<1>1. TypeOK'
  BY TypeStep DEF IInv
<1>2. CASE UNCHANGED vars
  BY <1>1, <1>2, Aside DEF vars
<1>3. ASSUME NEW c \in Console, Frame(c) PROVE IInv'
  <2>1. CASE MidTick(c)
    BY <1>1, <2>1, Aside DEF MidTick
  <2> QED
    BY <1>3, <2>1, RunTickInv, StalledInv DEF Frame
<1>4. ASSUME NEW c \in Console, NetStep(c) PROVE IInv'
  <2>1. CASE Fail(c) \/ ConsumeDone(c)
    BY <1>1, <2>1, Aside DEF Fail, ConsumeDone, sim
  <2> QED
    BY <1>4, <2>1, WriteInv, PollInv, ConsumeInputInv, ConsumeLeftInv DEF NetStep
<1>5. ASSUME NEW c \in Console, Upset(c) PROVE IInv'
  BY <1>1, <1>5, Aside DEF Upset, sim
<1> QED
  BY <1>2, <1>3, <1>4, <1>5, DropInv DEF Next

(* As long as no READ brings more new ticks than a window spans, the       *)
(* inductive invariant holds: rings, records and logs are what their       *)
(* consoles captured.                                                      *)
THEOREM Invariance ==
  ASSUME SmoothArrivals
  PROVE  Spec => []IInv
BY InvInit, InvStep, PTL DEF Spec

-----------------------------------------------------------------------------
(* What the consoles promise.                                              *)

(* Both consoles run every tick on the same two inputs, whatever the       *)
(* interleaving of frames, writes, reads, stalls, failures and drops.      *)
THEOREM ConsolesAgree ==
  ASSUME SmoothArrivals
  PROVE  Spec => []Agreement
<1>1. IInv => Agreement
  <2> SUFFICES ASSUME IInv, NEW i \in 1 .. Len(log[Host]), i <= Len(log[Guest])
               PROVE  log[Host][i] = log[Guest][i]
    BY DEF Agreement
  <2>1. log[Host] \in Seq(Inputs) /\ log[Guest] \in Seq(Inputs)
    BY DEF IInv, TypeOK, Console
  <2>2. i \in 1 .. Len(log[Guest])
    BY <2>1
  <2>3. \A q \in Console : log[Host][i][q] = Genuine(q, i - 1)
                           /\ log[Guest][i][q] = Genuine(q, i - 1)
    BY <2>2 DEF IInv, LogTrue, Console
  <2>4. log[Host][i] \in Inputs /\ log[Guest][i] \in Inputs
    BY <2>1, <2>2
  <2> QED
    BY <2>3, <2>4 DEF Inputs
<1> QED
  BY <1>1, Invariance, PTL

(* A tick the gate lets through finds the peer's own capture in its slot.  *)
THEOREM NoHole ==
  ASSUME SmoothArrivals
  PROVE  Spec => []NoHoleAtGate
<1>1. IInv => NoHoleAtGate
  <2> SUFFICES ASSUME IInv, NEW c \in Console, Open(c)
               PROVE  remote[c][RemoteSlot(Due(c))] = Genuine(Peer(c), Due(c))
    BY DEF NoHoleAtGate
  <2>1. Due(c) \in Due(c) .. Known(c)
    <3>1. wm[c] >= Due(c) /\ wm[c] \in Int /\ Due(c) \in Int /\ Known(c) \in Int
      BY OpenMeans, Reach
    <3> QED
      BY <3>1, Sizes DEF Known
  <2> QED
    BY <2>1 DEF IInv, RingHeld
<1> QED
  BY <1>1, Invariance, PTL

(* A record says of a tick what its sender plays that tick with.           *)
THEOREM RecordsNeverChange ==
  ASSUME SmoothArrivals
  PROVE  Spec => []RecordsImmutable
<1>1. IInv => RecordsImmutable
  BY DEF IInv, RecordsTrue, TrueWindow, IsInput, RecordsImmutable, InFlight
<1> QED
  BY <1>1, Invariance, PTL

(* The consoles stay within Delay ticks of each other: the gate of each    *)
(* waits for the other, so rings of eight slots and a signed compare of    *)
(* bytes are enough.                                                       *)
THEOREM ConsolesStayClose ==
  ASSUME SmoothArrivals
  PROVE  Spec => []SkewBounded
<1>1. IInv => SkewBounded
  BY Reach DEF SkewBounded
<1> QED
  BY <1>1, Invariance, PTL

(* The newest tick a console knows of never goes back, though the records  *)
(* of a burst are consumed from the newest to the oldest.                  *)
THEOREM WatermarkNeverBack ==
  ASSUME SmoothArrivals
  PROVE  Spec => WatermarkMonotone
<1>1. IInv /\ [Next]_vars => [\A c \in Console : wm'[c] >= wm[c]]_vars
  <2> SUFFICES ASSUME IInv, Next, NEW q \in Console PROVE wm'[q] >= wm[q]
    OBVIOUS
  <2>1. wm[q] \in Int
    BY Reach
  <2>2. PICK c \in Console : Frame(c) \/ NetStep(c) \/ Upset(c) \/ Drop(c)
    BY DEF Next
  <2>3. CASE ConsumeInput(c)
    BY <2>1, <2>3, WatermarkMoves
  <2>4. CASE ~ConsumeInput(c)
    <3>1. UNCHANGED wm
      BY <2>2, <2>4 DEF Frame, MidTick, RunTick, Stall, GiveUp, Boundary, NetStep,
         Write, Poll, Fail, ConsumeLeft, ConsumeDone, Upset, Drop, sim
    <3> QED
      BY <2>1, <3>1
  <2> QED
    BY <2>3, <2>4
<1> QED
  BY <1>1, Invariance, PTL DEF Spec, WatermarkMonotone

-----------------------------------------------------------------------------
(* The lockstep implements one game.                                       *)

(* Each log is the beginning of the script.                                *)
Parts ==
  /\ script \in Seq(Inputs)
  /\ \A c \in Console : /\ log[c] \in Seq(Inputs)
                        /\ Len(log[c]) \in Nat
                        /\ Len(log[c]) <= Len(script)
                        /\ \A i \in 1 .. Len(log[c]) : log[c][i] = script[i]
  /\ \E c \in Console : script = log[c]

LEMMA Scripted == IInv => Parts
<1> SUFFICES ASSUME IInv PROVE Parts
  OBVIOUS
<1>1. \A c \in Console : log[c] \in Seq(Inputs) /\ Len(log[c]) \in Nat
  <2>1. \A c \in Console : log[c] \in Seq(Inputs)
    BY DEF IInv, TypeOK
  <2> QED
    BY <2>1
<1>2. /\ Host \in Console /\ Guest \in Console
      /\ \A c \in Console : c = Host \/ c = Guest
  BY DEF Console
<1>3. PICK d \in Console : script = log[d] /\ \A c \in Console : Len(log[c]) <= Len(log[d])
  BY <1>1, <1>2 DEF script
<1>4. ASSUME NEW c \in Console, NEW i \in 1 .. Len(log[c])
      PROVE  log[c][i] = log[d][i]
  <2>1. i \in 1 .. Len(log[d])
    BY <1>1, <1>3, <1>4
  <2>2. \A q \in Console : log[c][i][q] = Genuine(q, i - 1) /\ log[d][i][q] = Genuine(q, i - 1)
    BY <2>1 DEF IInv, LogTrue
  <2>3. log[c][i] \in Inputs /\ log[d][i] \in Inputs
    BY <1>1, <2>1
  <2> QED
    BY <2>2, <2>3 DEF Inputs
<1> QED
  BY <1>1, <1>3, <1>4 DEF Parts

LEMMA ScriptedNext == IInv' => Parts'
  BY Scripted, PTL

LEMMA PlaysOn ==
  ASSUME IInv, IInv', NEW c \in Console, RunTick(c)
  PROVE  One!Play(c)
<1> USE Sizes, PeerFacts
<1> DEFINE n  == Len(log[c])
           in == Mix(c, Due(c), local'[c])
<1>1. /\ log[c] \in Seq(Inputs) /\ n \in Nat /\ log \in [Console -> Seq(Inputs)]
      /\ log'[c] \in Seq(Inputs)
  <2>1. log \in [Console -> Seq(Inputs)]
    BY DEF IInv, TypeOK
  <2>2. log' \in [Console -> Seq(Inputs)]
    BY DEF IInv, TypeOK
  <2> QED
    BY <2>1, <2>2
<1>2. log' = [log EXCEPT ![c] = Append(log[c], in)]
  BY <1>1 DEF RunTick
<1> HIDE DEF in
<1>3. /\ log'[c] = Append(log[c], in)
      /\ \A q \in Console : q # c => log'[q] = log[q]
  BY <1>1, <1>2
<1>4. Len(log'[c]) = n + 1 /\ log'[c][n + 1] = in /\ in \in Inputs
  <2>1. Len(Append(log[c], in)) = n + 1 /\ Append(log[c], in)[n + 1] = in
    BY <1>1
  <2>2. n + 1 \in 1 .. Len(log'[c])
    BY <1>1, <1>3, <2>1
  <2> QED
    BY <1>1, <1>3, <2>1, <2>2
<1>5. /\ script \in Seq(Inputs) /\ Len(script) \in Nat
      /\ n <= Len(script)
      /\ \A i \in 1 .. n : log[c][i] = script[i]
  BY Scripted DEF Parts
<1>6. /\ script' \in Seq(Inputs) /\ Len(script') \in Nat
      /\ n + 1 <= Len(script')
      /\ \A q \in Console : /\ Len(log'[q]) \in Nat /\ Len(log'[q]) <= Len(script')
                            /\ \A i \in 1 .. Len(log'[q]) : log'[q][i] = script'[i]
      /\ \E q \in Console : script' = log'[q]
  <2>1. /\ script' \in Seq(Inputs)
        /\ \A q \in Console : /\ Len(log'[q]) \in Nat /\ Len(log'[q]) <= Len(script')
                              /\ \A i \in 1 .. Len(log'[q]) : log'[q][i] = script'[i]
        /\ \E q \in Console : script' = log'[q]
    BY ScriptedNext DEF Parts
  <2> QED
    BY <1>4, <2>1
<1>7. script'[n + 1] = in
  <2>1. n + 1 \in 1 .. Len(log'[c])
    BY <1>1, <1>4
  <2> QED
    BY <1>4, <1>6, <2>1
<1>8. \A p \in Console : Len(log[c]) < Len(log[p]) + (Delay + 1)
  <2> SUFFICES ASSUME NEW p \in Console PROVE n < Len(log[p]) + (Delay + 1)
    OBVIOUS
  <2>1. n = Due(c) /\ Len(log[p]) = Due(p) /\ Due(p) \in Int /\ Due(c) \in Int
    BY Reach DEF IInv, LogTrue
  <2>2. CASE p = c
    BY <2>1, <2>2
  <2>3. CASE p = Peer(c)
    <3>1. Open(c)
      BY DEF RunTick
    <3>2. wm[c] >= Due(c) /\ wm[c] \in Int
      BY <3>1, OpenMeans, Reach
    <3>3. wm[c] <= sent[p] /\ sent[p] \in Int /\ sent[p] <= tick[p] + Delay
      <4>1. wm[c] <= sent[p] /\ sent[p] \in Delay - 1 .. tick[p] + Delay
        BY <2>3 DEF IInv, NotAhead
      <4>2. sent[p] \in Int /\ tick[p] \in Int
        BY DEF IInv, TypeOK
      <4> QED
        BY <4>1, <4>2
    <3>4. tick[p] <= Due(p) /\ tick[p] \in Int
      BY Reach
    <3> QED
      BY <2>1, <3>2, <3>3, <3>4
  <2> QED
    BY <2>2, <2>3
<1>9. CASE n < Len(script)
  <2>1. PICK d \in Console : script = log[d]
    BY Scripted DEF Parts
  <2>2. d # c /\ log'[d] = script
    BY <1>3, <1>9, <2>1
  <2>3. Len(script') = Len(script)
    <3>1. PICK q \in Console : script' = log'[q]
      BY <1>6
    <3>2. q = c \/ q = d
      BY <2>2
    <3>3. Len(script) <= Len(script')
      BY <1>6, <2>2
    <3>4. CASE q = c
      <4>1. Len(script') = n + 1
        BY <1>4, <3>1, <3>4
      <4> QED
        BY <1>1, <1>5, <1>9, <3>3, <4>1
    <3>5. CASE q = d
      BY <2>2, <3>1, <3>5
    <3> QED
      BY <3>2, <3>4, <3>5
  <2>4. \A i \in 1 .. Len(script) : script'[i] = script[i]
    BY <1>6, <2>2
  <2>5. script' = script
    BY <1>5, <1>6, <2>3, <2>4, SeqEqual
  <2> QED
    BY <1>2, <1>7, <1>8, <1>9, <2>5 DEF One!Play
<1>10. CASE n = Len(script)
  <2>1. Len(script') = n + 1
    <3>1. \A q \in Console : Len(log'[q]) <= n + 1
      <4>1. \A q \in Console : Len(log[q]) <= n /\ Len(log[q]) \in Nat
        BY <1>10, Scripted DEF Parts
      <4> QED
        BY <1>1, <1>3, <1>4, <4>1
    <3> QED
      BY <1>1, <1>6, <3>1
  <2>2. \A i \in 1 .. n : script'[i] = script[i]
    <3>1. \A i \in 1 .. n : log'[c][i] = log[c][i]
      BY <1>1, <1>3
    <3>2. \A i \in 1 .. n : i \in 1 .. Len(log'[c])
      BY <1>1, <1>4
    <3> QED
      BY <1>5, <1>6, <3>1, <3>2
  <2>3. script' = Append(script, in)
    <3> DEFINE t == Append(script, in)
    <3>1. t \in Seq(Inputs) /\ Len(t) = n + 1 /\ t[n + 1] = in
          /\ \A i \in 1 .. n : t[i] = script[i]
      BY <1>4, <1>5, <1>10
    <3> HIDE DEF t
    <3>2. \A i \in 1 .. n + 1 : script'[i] = t[i]
      <4>1. \A i \in 1 .. n + 1 : i \in 1 .. n \/ i = n + 1
        BY <1>1
      <4> QED
        BY <1>7, <2>2, <3>1, <4>1
    <3>3. script' = t
      BY <1>6, <2>1, <3>1, <3>2, SeqEqual
    <3> QED
      BY <3>3 DEF t
  <2>4. One!Decide
    BY <1>4, <1>7, <1>10, <2>1, <2>3 DEF One!Decide
  <2> QED
    BY <1>2, <1>7, <1>8, <1>10, <2>4 DEF One!Play
<1> QED
  BY <1>1, <1>5, <1>9, <1>10

(* Every behaviour of the lockstep is one of VoOneGame: both consoles play *)
(* one script, whose ticks never change once a console has run them.       *)
THEOREM ImplementsOneGame ==
  ASSUME SmoothArrivals
  PROVE  Spec => OneGame
<1>1. Init => One!Init
  <2> SUFFICES ASSUME Init PROVE One!Init
    OBVIOUS
  <2>1. log = [c \in Console |-> <<>>]
    BY DEF Init
  <2>2. script = <<>>
    BY <2>1 DEF script, Console
  <2> QED
    BY <2>1, <2>2 DEF One!Init
<1>2. IInv /\ IInv' /\ [Next]_vars => [One!Next]_<<script, log>>
  <2> SUFFICES ASSUME IInv, IInv', [Next]_vars, ~(UNCHANGED log)
               PROVE  One!Next
    BY DEF script
  <2>1. PICK c \in Console : Frame(c) \/ NetStep(c) \/ Upset(c) \/ Drop(c)
    BY DEF Next, vars
  <2>2. RunTick(c)
    BY <2>1 DEF Frame, MidTick, Stall, GiveUp, NetStep, Write, Poll, Fail,
       ConsumeInput, ConsumeLeft, ConsumeDone, Upset, Drop, sim
  <2> QED
    BY <2>2, PlaysOn DEF One!Next
<1> QED
  BY <1>1, <1>2, Invariance, PTL DEF Spec, OneGame, One!Spec

=============================================================================
