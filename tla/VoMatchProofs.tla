--------------------------- MODULE VoMatchProofs ---------------------------
(***************************************************************************)
(* The relay implements VoMatch: proofs for every value of the constants.  *)
(***************************************************************************)
EXTENDS VoRelayProofs

-----------------------------------------------------------------------------
(* Counting the frames of a kind in a sequence.                            *)

Places(s, i, kind) == {j \in DOMAIN s : i < j /\ s[j].kind = kind}

LEMMA CountIsLater ==
  ASSUME NEW S, NEW s \in Seq(S), NEW kind
  PROVE  Count(s, kind) = Later(s, 0, kind)
<1>1. \A j \in DOMAIN s : 0 < j
  <2>1. DOMAIN s = 1 .. Len(s) /\ Len(s) \in Nat
    OBVIOUS
  <2> QED
    BY <2>1
<1>2. {j \in DOMAIN s : s[j].kind = kind} = {j \in DOMAIN s : 0 < j /\ s[j].kind = kind}
  BY <1>1
<1> QED
  BY <1>2 DEF Count, Later

LEMMA LaterIsNat ==
  ASSUME NEW S, NEW s \in Seq(S), NEW i \in Nat, NEW kind
  PROVE  /\ IsFiniteSet(Places(s, i, kind))
         /\ Later(s, i, kind) = Cardinality(Places(s, i, kind))
         /\ Later(s, i, kind) \in Nat
<1>1. DOMAIN s = 1 .. Len(s) /\ Len(s) \in Nat
  OBVIOUS
<1>2. IsFiniteSet(1 .. Len(s))
  BY <1>1, FS_Interval
<1>3. Places(s, i, kind) \in SUBSET (1 .. Len(s))
  BY <1>1 DEF Places
<1>4. IsFiniteSet(Places(s, i, kind))
  BY <1>2, <1>3, FS_Subset
<1>5. Later(s, i, kind) = Cardinality(Places(s, i, kind))
  BY DEF Later, Places
<1> QED
  BY <1>4, <1>5, FS_CardinalityType

(* One more frame at the end.                                              *)
LEMMA LaterAppend ==
  ASSUME NEW S, NEW s \in Seq(S), NEW f \in S, NEW i \in 0 .. Len(s), NEW kind
  PROVE  Later(Append(s, f), i, kind) =
           Later(s, i, kind) + (IF f.kind = kind THEN 1 ELSE 0)
<1> DEFINE t == Append(s, f)
           A == Places(s, i, kind)
<1>0. Len(s) \in Nat /\ i \in Nat /\ i < Len(s) + 1
  OBVIOUS
<1>1. /\ t \in Seq(S) /\ DOMAIN s = 1 .. Len(s) /\ DOMAIN t = 1 .. Len(s) + 1
      /\ t[Len(s) + 1] = f /\ \A j \in 1 .. Len(s) : t[j] = s[j]
  BY AppendProperties
<1>2. /\ IsFiniteSet(A) /\ Later(s, i, kind) = Cardinality(A) /\ Cardinality(A) \in Nat
      /\ Later(t, i, kind) = Cardinality(Places(t, i, kind))
  BY <1>0, <1>1, LaterIsNat
<1>3. Len(s) + 1 \notin A
  BY <1>0, <1>1 DEF Places
<1>i. 1 .. Len(s) + 1 = (1 .. Len(s)) \cup {Len(s) + 1}
  BY <1>0
<1> HIDE DEF t
<1>4. CASE f.kind = kind
  <2>1. Places(t, i, kind) = A \cup {Len(s) + 1}
    BY <1>0, <1>1, <1>i, <1>4 DEF Places
  <2>2. Cardinality(Places(t, i, kind)) = Cardinality(A) + 1
    BY <1>2, <1>3, <2>1, FS_AddElement, Zenon
  <2> QED
    BY <1>2, <1>4, <2>2 DEF t
<1>5. CASE f.kind # kind
  <2>1. Places(t, i, kind) = A
    BY <1>0, <1>1, <1>i, <1>5 DEF Places
  <2> QED
    BY <1>2, <1>5, <2>1 DEF t
<1> QED
  BY <1>4, <1>5

(* One frame less at the beginning.                                        *)
LEMMA LaterTail ==
  ASSUME NEW S, NEW s \in Seq(S), s # <<>>, NEW i \in 0 .. Len(s) - 1, NEW kind
  PROVE  Later(Tail(s), i, kind) = Later(s, i + 1, kind)
<1> DEFINE t == Tail(s)
           A == Places(t, i, kind)
           B == Places(s, i + 1, kind)
           f == [j \in A |-> j + 1]
<1>1. /\ t \in Seq(S) /\ DOMAIN s = 1 .. Len(s) /\ Len(s) \in Nat /\ Len(s) > 0
      /\ DOMAIN t = 1 .. Len(s) - 1
      /\ \A j \in 1 .. Len(s) - 1 : t[j] = s[j + 1]
  <2>1. Len(s) > 0 /\ Len(s) \in Nat
    OBVIOUS
  <2> QED
    BY <2>1, HeadTailProperties
<1>2. i \in Nat /\ i + 1 \in Nat
  BY <1>1
<1>3. /\ IsFiniteSet(A) /\ Later(t, i, kind) = Cardinality(A)
      /\ IsFiniteSet(B) /\ Later(s, i + 1, kind) = Cardinality(B)
  BY <1>1, <1>2, LaterIsNat
<1> HIDE DEF t
<1>4. \A j : j \in A <=> j \in 1 .. Len(s) - 1 /\ i < j /\ s[j + 1].kind = kind
  BY <1>1 DEF Places
<1>5. \A j : j \in B <=> j \in 1 .. Len(s) /\ i + 1 < j /\ s[j].kind = kind
  BY <1>1 DEF Places
<1> HIDE DEF A, B
<1>6. \A j \in A : j \in Nat /\ j + 1 \in B
  BY <1>1, <1>2, <1>4, <1>5
<1>7. \A j \in B : j - 1 \in A /\ (j - 1) + 1 = j
  <2> SUFFICES ASSUME NEW j \in B PROVE j - 1 \in A /\ (j - 1) + 1 = j
    OBVIOUS
  <2>1. j \in 1 .. Len(s) /\ i + 1 < j /\ s[j].kind = kind
    BY <1>5
  <2>2. (j - 1) + 1 = j /\ j - 1 \in 1 .. Len(s) - 1 /\ i < j - 1
    BY <1>1, <1>2, <2>1
  <2>3. s[(j - 1) + 1].kind = kind
    BY <2>1, <2>2
  <2> QED
    BY <1>4, <2>2, <2>3
<1>8. f \in Bijection(A, B)
  <2>1. f \in [A -> B]
    BY <1>6
  <2>2. \A x, y \in A : f[x] = f[y] => x = y
    BY <1>6
  <2>3. \A y \in B : \E x \in A : f[x] = y
    BY <1>7
  <2> QED
    BY <2>1, <2>2, <2>3 DEF Bijection, Injection, IsInjective, Surjection
<1>9. Cardinality(B) = Cardinality(A)
  <2>1. ExistsBijection(A, B)
    BY <1>8 DEF ExistsBijection
  <2> QED
    BY <1>3, <2>1, FS_Bijection
<1> QED
  BY <1>3, <1>9 DEF t

(* The first frame counts if it is of the kind.                            *)
LEMMA LaterHead ==
  ASSUME NEW S, NEW s \in Seq(S), s # <<>>, NEW kind
  PROVE  Later(s, 0, kind) = Later(s, 1, kind) + (IF Head(s).kind = kind THEN 1 ELSE 0)
<1> DEFINE A == Places(s, 1, kind)
<1>1. DOMAIN s = 1 .. Len(s) /\ Len(s) \in Nat /\ Len(s) > 0 /\ Head(s) = s[1]
  OBVIOUS
<1>2. /\ IsFiniteSet(A) /\ Later(s, 1, kind) = Cardinality(A) /\ Cardinality(A) \in Nat
      /\ Later(s, 0, kind) = Cardinality(Places(s, 0, kind))
  BY LaterIsNat
<1>3. 1 \notin A
  BY DEF Places
<1>4. CASE Head(s).kind = kind
  <2>1. Places(s, 0, kind) = A \cup {1}
    BY <1>1, <1>4 DEF Places
  <2> QED
    BY <1>2, <1>3, <1>4, <2>1, FS_AddElement
<1>5. CASE Head(s).kind # kind
  <2>1. Places(s, 0, kind) = A
    BY <1>1, <1>5 DEF Places
  <2> QED
    BY <1>2, <1>5, <2>1
<1> QED
  BY <1>4, <1>5

-----------------------------------------------------------------------------
(* The numbers of the records in a queue.                                  *)

OwnNumbers(c, q, t) == \A i \in DOMAIN q : q[i].kind = "INPUT" =>
  q[i] = Record(c, t - Later(q, i, "INPUT"))

LEMMA NumbersAppend ==
  ASSUME NEW S, NEW q \in Seq(S), NEW f \in S, NEW c, NEW t \in Nat, NEW u \in Nat,
         OwnNumbers(c, q, t),
         \/ f.kind # "INPUT" /\ u = t
         \/ f.kind = "INPUT" /\ u = t + 1 /\ f = Record(c, u)
  PROVE  OwnNumbers(c, Append(q, f), u)
<1> DEFINE r == Append(q, f)
           more == IF f.kind = "INPUT" THEN 1 ELSE 0
<1>1. /\ r \in Seq(S) /\ DOMAIN q = 1 .. Len(q) /\ DOMAIN r = 1 .. Len(q) + 1
      /\ Len(q) \in Nat /\ r[Len(q) + 1] = f /\ \A i \in 1 .. Len(q) : r[i] = q[i]
  BY AppendProperties
<1>2. u = t + more
  OBVIOUS
<1> HIDE DEF r
<1> SUFFICES ASSUME NEW i \in 1 .. Len(q) + 1, r[i].kind = "INPUT"
             PROVE  r[i] = Record(c, u - Later(r, i, "INPUT"))
  BY <1>1 DEF OwnNumbers, r
<1>3. CASE i \in 1 .. Len(q)
  <2>1. i \in 0 .. Len(q) /\ i \in Nat
    BY <1>1, <1>3
  <2>2. Later(r, i, "INPUT") = Later(q, i, "INPUT") + more
    BY <2>1, LaterAppend DEF r
  <2>3. Later(q, i, "INPUT") \in Nat
    BY <2>1, LaterIsNat
  <2>4. u - Later(r, i, "INPUT") = t - Later(q, i, "INPUT")
    BY <1>2, <2>2, <2>3
  <2>5. r[i] = q[i] /\ i \in DOMAIN q
    BY <1>1, <1>3
  <2> QED
    BY <2>4, <2>5 DEF OwnNumbers
<1>4. CASE i = Len(q) + 1
  <2>1. Places(r, i, "INPUT") = {}
    BY <1>1, <1>4 DEF Places
  <2>2. Later(r, i, "INPUT") = 0
    BY <2>1, FS_EmptySet DEF Later, Places
  <2>3. f.kind = "INPUT" /\ r[i] = f
    BY <1>1, <1>4
  <2> QED
    BY <2>2, <2>3
<1> QED
  BY <1>1, <1>3, <1>4

LEMMA NumbersTail ==
  ASSUME NEW S, NEW q \in Seq(S), q # <<>>, NEW c, NEW t \in Nat, OwnNumbers(c, q, t)
  PROVE  /\ OwnNumbers(c, Tail(q), t)
         /\ Head(q).kind = "INPUT" => Head(q) = Record(c, t - Later(Tail(q), 0, "INPUT"))
<1> DEFINE r == Tail(q)
<1>0. Len(q) > 0 /\ Len(q) \in Nat /\ Head(q) = q[1] /\ DOMAIN q = 1 .. Len(q)
  OBVIOUS
<1>1. /\ r \in Seq(S) /\ DOMAIN r = 1 .. Len(q) - 1
      /\ \A i \in 1 .. Len(q) - 1 : r[i] = q[i + 1]
  BY <1>0, HeadTailProperties
<1>2. \A i \in 0 .. Len(q) - 1 : Later(r, i, "INPUT") = Later(q, i + 1, "INPUT")
  BY LaterTail
<1> HIDE DEF r
<1>3. OwnNumbers(c, r, t)
  <2> SUFFICES ASSUME NEW i \in 1 .. Len(q) - 1, r[i].kind = "INPUT"
               PROVE  r[i] = Record(c, t - Later(r, i, "INPUT"))
    BY <1>1 DEF OwnNumbers
  <2>1. i \in 0 .. Len(q) - 1 /\ i + 1 \in DOMAIN q /\ r[i] = q[i + 1]
    BY <1>0, <1>1
  <2>2. q[i + 1] = Record(c, t - Later(q, i + 1, "INPUT"))
    BY <2>1 DEF OwnNumbers
  <2> QED
    BY <1>2, <2>1, <2>2
<1>4. 0 \in 0 .. Len(q) - 1 /\ 1 \in DOMAIN q /\ 0 + 1 = 1
  BY <1>0
<1>5. Later(r, 0, "INPUT") = Later(q, 1, "INPUT")
  BY <1>2, <1>4
<1> QED
  BY <1>0, <1>3, <1>4, <1>5 DEF OwnNumbers, r

-----------------------------------------------------------------------------
(* What the relay has not handled yet, and what it has for a console.      *)

LEMMA QueueType ==
  ASSUME TypeOK
  PROVE  \A c \in Conn : Queue(c) \in Seq(FromConsole) /\ Stream(c) \in Seq(ToConsole)
<1> TAKE c \in Conn
<1>1. /\ rx[c] \in Seq(FromConsole) /\ wire[c] \in Seq(FromConsole)
      /\ got[c] \in Seq(ToConsole) /\ tx[c] \in Seq(ToConsole)
  BY DEF TypeOK
<1> QED
  BY <1>1, ConcatProperties DEF Queue, Stream

LEMMA AppendBehind ==
  ASSUME NEW S, NEW a \in Seq(S), NEW b \in Seq(S), NEW f \in S
  PROVE  a \o Append(b, f) = Append(a \o b, f)
<1>1. <<f>> \in Seq(S) /\ a \o b \in Seq(S)
  BY ConcatProperties
<1> QED
  BY <1>1, AppendIsConcat, ConcatAssociative

Regroups(T) == \A a, u, v \in T : (a \o u) \o v = a \o (u \o v)

LEMMA Regroup ==
  ASSUME NEW S
  PROVE  Regroups(Seq(S))
<1> SUFFICES ASSUME NEW a \in Seq(S), NEW u \in Seq(S), NEW v \in Seq(S)
             PROVE  (a \o u) \o v = a \o (u \o v)
  BY DEF Regroups
<1> DEFINE l == (a \o u) \o v
           r == a \o (u \o v)
<1>1. l \in Seq(S) /\ r \in Seq(S) /\ Len(l) = Len(r)
  OBVIOUS
<1>2. \A i \in 1 .. Len(l) : l[i] = r[i]
  OBVIOUS
<1> HIDE DEF l, r
<1>3. l = r
  BY <1>1, <1>2, SeqEqual
<1> QED
  BY <1>3 DEF l, r

LEMMA MoveFront ==
  ASSUME NEW S, NEW a \in Seq(S), NEW b \in Seq(S), NEW k \in 0 .. Len(b)
  PROVE  (a \o SubSeq(b, 1, k)) \o SubSeq(b, k + 1, Len(b)) = a \o b
<1>1. SubSeq(b, 1, k) \in Seq(S) /\ SubSeq(b, k + 1, Len(b)) \in Seq(S)
  <2>1. SubSeq(b, 1, k) \in Seq(S)
    BY FirstPart
  <2>2. SubSeq(b, k + 1, Len(b)) \in Seq(S)
    BY LaterPart
  <2> QED
    BY <2>1, <2>2
<1>2. SubSeq(b, 1, k) \o SubSeq(b, k + 1, Len(b)) = b
  <2>1. SubSeq(b, 1, Len(b)) = b
    OBVIOUS
  <2>2. Len(b) \in Nat /\ 1 \in 1 .. Len(b) + 1 /\ k \in 1 - 1 .. Len(b) /\ Len(b) \in k .. Len(b)
    OBVIOUS
  <2>3. SubSeq(b, 1, k) \o SubSeq(b, k + 1, Len(b)) = SubSeq(b, 1, Len(b))
    BY <2>2, ConcatAdjacentSubSeq, Zenon
  <2> QED
    BY <2>1, <2>3, Zenon
<1> DEFINE x == SubSeq(b, 1, k)
           y == SubSeq(b, k + 1, Len(b))
<1> HIDE DEF x, y
<1>3. x \in Seq(S) /\ y \in Seq(S) /\ x \o y = b
  BY <1>1, <1>2 DEF x, y
<1>4. (a \o x) \o y = a \o (x \o y)
  <2>1. Regroups(Seq(S))
    BY Regroup, Zenon
  <2>2. \A u, v \in Seq(S) : (a \o u) \o v = a \o (u \o v)
    BY <2>1, Zenon DEF Regroups
  <2> QED
    BY <1>3, <2>2, Zenon
<1>5. (a \o x) \o y = a \o b
  BY <1>3, <1>4
<1> QED
  BY <1>5 DEF x, y

LEMMA QueueRecv ==
  ASSUME TypeOK, NEW c \in Conn, Recv(c)
  PROVE  \A d \in Conn : Queue(d)' = Queue(d)
<1>1. rx \in [Conn -> Seq(FromConsole)] /\ wire \in [Conn -> Seq(FromConsole)]
  BY DEF TypeOK
<1>2. PICK k \in 1 .. Len(wire[c]) :
        /\ rx'   = [rx EXCEPT ![c] = @ \o SubSeq(wire[c], 1, k)]
        /\ wire' = [wire EXCEPT ![c] = SubSeq(@, k + 1, Len(@))]
  BY DEF Recv
<1> TAKE d \in Conn
<1>3. CASE d = c
  <2>1. k \in 0 .. Len(wire[c]) /\ rx[c] \in Seq(FromConsole) /\ wire[c] \in Seq(FromConsole)
    BY <1>1
  <2>2. rx'[c] = rx[c] \o SubSeq(wire[c], 1, k) /\ wire'[c] = SubSeq(wire[c], k + 1, Len(wire[c]))
    BY <1>1, <1>2
  <2>3. rx'[c] \o wire'[c] = rx[c] \o wire[c]
    BY <2>1, <2>2, MoveFront
  <2> QED
    BY <1>3, <2>3 DEF Queue
<1>4. CASE d # c
  BY <1>1, <1>2, <1>4 DEF Queue
<1> QED
  BY <1>3, <1>4

LEMMA QueueSpeak ==
  ASSUME TypeOK, NEW c \in Conn, NEW f \in FromConsole, Speak(c, f)
  PROVE  \A d \in Conn : Queue(d)' = IF d = c THEN Append(Queue(c), f) ELSE Queue(d)
<1>1. rx \in [Conn -> Seq(FromConsole)] /\ wire \in [Conn -> Seq(FromConsole)]
  BY DEF TypeOK
<1>2. rx' = rx /\ wire' = [wire EXCEPT ![c] = Append(@, f)]
  BY DEF Speak
<1> TAKE d \in Conn
<1>3. CASE d = c
  <2>1. rx[c] \in Seq(FromConsole) /\ wire[c] \in Seq(FromConsole)
    BY <1>1
  <2>2. rx'[c] \o wire'[c] = Append(rx[c] \o wire[c], f)
    BY <1>1, <1>2, <2>1, AppendBehind
  <2> QED
    BY <1>3, <2>2 DEF Queue
<1>4. CASE d # c
  BY <1>1, <1>2, <1>4 DEF Queue
<1> QED
  BY <1>3, <1>4

LEMMA QueueTake ==
  ASSUME TypeOK, NEW c \in Conn, NEW kind, Take(c, kind)
  PROVE  /\ Queue(c) # <<>> /\ Head(Queue(c)) = Head(rx[c]) /\ Head(rx[c]).kind = kind
         /\ \A d \in Conn : Queue(d)' = IF d = c THEN Tail(Queue(c)) ELSE Queue(d)
<1>1. rx \in [Conn -> Seq(FromConsole)] /\ wire \in [Conn -> Seq(FromConsole)]
  BY DEF TypeOK
<1>2. rx[c] # <<>> /\ rx' = [rx EXCEPT ![c] = Tail(@)] /\ wire' = wire
  BY DEF Take
<1>3. rx[c] \in Seq(FromConsole) /\ wire[c] \in Seq(FromConsole)
  BY <1>1
<1> DEFINE a == rx[c]
           b == wire[c]
<1>4. /\ Head(a) \in FromConsole /\ Tail(a) \in Seq(FromConsole) /\ Len(Tail(a)) = Len(a) - 1
      /\ \A i \in 1 .. Len(Tail(a)) : Tail(a)[i] = a[i + 1]
      /\ Len(a) \in Nat /\ Len(a) > 0 /\ Head(a) = a[1] /\ Len(b) \in Nat
  <2>1. Len(a) \in Nat /\ Len(a) > 0 /\ Head(a) = a[1] /\ Len(b) \in Nat
    BY <1>2, <1>3
  <2> QED
    BY <1>2, <1>3, <2>1, HeadTailProperties
<1>5. a \o b # <<>> /\ Head(a \o b) = Head(a) /\ Tail(a \o b) = Tail(a) \o b
  <2>1. /\ a \o b \in Seq(FromConsole) /\ Len(a \o b) = Len(a) + Len(b)
        /\ \A i \in 1 .. Len(a) + Len(b) : (a \o b)[i] = IF i <= Len(a) THEN a[i] ELSE b[i - Len(a)]
    BY <1>3, ConcatProperties
  <2>2. /\ Tail(a) \o b \in Seq(FromConsole) /\ Len(Tail(a) \o b) = Len(a) - 1 + Len(b)
        /\ \A i \in 1 .. Len(a) - 1 + Len(b) :
             (Tail(a) \o b)[i] = IF i <= Len(a) - 1 THEN Tail(a)[i] ELSE b[i - (Len(a) - 1)]
    <3>1. \A s \in Seq(FromConsole) :
            /\ s \o b \in Seq(FromConsole) /\ Len(s \o b) = Len(s) + Len(b)
            /\ \A i \in 1 .. Len(s) + Len(b) :
                 (s \o b)[i] = IF i <= Len(s) THEN s[i] ELSE b[i - Len(s)]
      BY <1>3, ConcatProperties
    <3> QED
      BY <1>4, <3>1
  <2> DEFINE ab == a \o b
             tb == Tail(a) \o b
  <2> HIDE DEF a, b, ab, tb
  <2>3. ab # <<>> /\ Len(ab) > 0
    BY <1>4, <2>1 DEF ab
  <2>4. Head(ab) = a[1]
    <3>1. Head(ab) = ab[1]
      BY <2>1, <2>3 DEF ab
    <3>2. ab[1] = a[1]
      BY <1>4, <2>1 DEF ab
    <3> QED
      BY <3>1, <3>2
  <2>5. /\ Tail(ab) \in Seq(FromConsole) /\ Len(Tail(ab)) = Len(a) + Len(b) - 1
        /\ \A i \in 1 .. Len(a) + Len(b) - 1 : Tail(ab)[i] = ab[i + 1]
    BY <2>1, <2>3, HeadTailProperties DEF ab
  <2>6. \A i \in 1 .. Len(a) + Len(b) - 1 : Tail(ab)[i] = tb[i]
    <3> SUFFICES ASSUME NEW i \in 1 .. Len(a) + Len(b) - 1 PROVE ab[i + 1] = tb[i]
      BY <2>5
    <3>1. i + 1 \in 1 .. Len(a) + Len(b) /\ i \in 1 .. Len(a) - 1 + Len(b) /\ i \in Nat
      BY <1>4
    <3>2. ab[i + 1] = IF i + 1 <= Len(a) THEN a[i + 1] ELSE b[(i + 1) - Len(a)]
      BY <2>1, <3>1 DEF ab
    <3>3. tb[i] = IF i <= Len(a) - 1 THEN Tail(a)[i] ELSE b[i - (Len(a) - 1)]
      BY <2>2, <3>1 DEF tb
    <3>4. CASE i <= Len(a) - 1
      <4>1. i \in 1 .. Len(Tail(a)) /\ i + 1 <= Len(a)
        BY <1>4, <3>1, <3>4
      <4> QED
        BY <1>4, <3>2, <3>3, <3>4, <4>1
    <3>5. CASE ~(i <= Len(a) - 1)
      <4>1. ~(i + 1 <= Len(a)) /\ (i + 1) - Len(a) = i - (Len(a) - 1)
        BY <1>4, <3>1, <3>5
      <4> QED
        BY <3>2, <3>3, <3>5, <4>1
    <3> QED
      BY <3>4, <3>5
  <2>7. Len(tb) = Len(Tail(ab)) /\ tb \in Seq(FromConsole)
    BY <1>4, <2>2, <2>5 DEF tb
  <2>8. Tail(ab) = tb
    BY <2>5, <2>6, <2>7, SeqEqual
  <2> QED
    BY <1>4, <2>3, <2>4, <2>8 DEF ab, tb
<1>6. Head(rx[c]).kind = kind
  BY DEF Take
<1>7. ASSUME NEW d \in Conn
      PROVE  Queue(d)' = IF d = c THEN Tail(Queue(c)) ELSE Queue(d)
  BY <1>1, <1>2, <1>5 DEF Queue
<1> QED
  BY <1>5, <1>6, <1>7 DEF Queue

-----------------------------------------------------------------------------
(* The records still to be handled are numbered.                           *)

LEMMA NumberedNow  == Numbered <=> \A c \in Conn : OwnNumbers(c, Queue(c), told[c])
BY DEF Numbered, OwnNumbers

LEMMA NumberedNext == Numbered' <=> \A c \in Conn : OwnNumbers(c, Queue(c)', told'[c])
BY DEF Numbered, OwnNumbers, Later

LEMMA SaidNow ==
  TypeOK => said = [c \in Conn |-> told[c] - Later(Queue(c), 0, "INPUT")]
<1> SUFFICES ASSUME TypeOK PROVE said = [c \in Conn |-> told[c] - Later(Queue(c), 0, "INPUT")]
  OBVIOUS
<1>1. \A c \in Conn : Count(Queue(c), "INPUT") = Later(Queue(c), 0, "INPUT")
  BY QueueType, CountIsLater
<1> QED
  BY <1>1 DEF said

LEMMA SaidNext ==
  TypeOK' => said' = [c \in Conn |-> told'[c] - Later(Queue(c)', 0, "INPUT")]
<1>1. (TypeOK => said = [c \in Conn |-> told[c] - Later(Queue(c), 0, "INPUT")])'
  BY SaidNow, PTL
<1> QED
  BY <1>1 DEF Later

(* Steps that move no frame out of a queue, or none that is a record.      *)
LEMMA SaidStill ==
  ASSUME TypeOK, TypeOK', Numbered, UNCHANGED told, \A d \in Conn : Queue(d)' = Queue(d)
  PROVE  Numbered' /\ said' = said
<1>1. Numbered'
  BY NumberedNow, NumberedNext
<1>2. said' = said
  BY SaidNow, SaidNext
<1> QED
  BY <1>1, <1>2

LEMMA SaidTake ==
  ASSUME TypeOK, TypeOK', Numbered, NEW c \in Conn, NEW kind, Take(c, kind)
  PROVE  /\ Numbered'
         /\ kind # "INPUT" => said' = said
         /\ kind = "INPUT" => /\ said' = [said EXCEPT ![c] = @ + 1]
                              /\ Head(rx[c]) = Record(c, said'[c])
<1> DEFINE q == Queue(c)
<1>1. /\ q # <<>> /\ Head(q) = Head(rx[c]) /\ Head(q).kind = kind
      /\ \A d \in Conn : Queue(d)' = IF d = c THEN Tail(q) ELSE Queue(d)
  BY QueueTake
<1>2. told' = told /\ told \in [Conn -> Nat]
  BY DEF Take, console, TypeOK
<1>3. q \in Seq(FromConsole)
  BY QueueType
<1>4. \A d \in Conn : OwnNumbers(d, Queue(d), told[d])
  BY NumberedNow
<1> HIDE DEF q
<1>5. /\ OwnNumbers(c, Tail(q), told[c])
      /\ Head(q).kind = "INPUT" => Head(q) = Record(c, told[c] - Later(Tail(q), 0, "INPUT"))
  <2>1. OwnNumbers(c, q, told[c]) /\ told[c] \in Nat
    BY <1>2, <1>4 DEF q
  <2> QED
    BY <1>1, <1>3, <2>1, NumbersTail
<1>6. Numbered'
  BY <1>1, <1>2, <1>4, <1>5, NumberedNext
<1>7. /\ Later(Tail(q), 0, "INPUT") = Later(q, 1, "INPUT")
      /\ Later(q, 0, "INPUT") = Later(q, 1, "INPUT") + (IF kind = "INPUT" THEN 1 ELSE 0)
      /\ Later(q, 1, "INPUT") \in Nat
  <2>1. 0 \in 0 .. Len(q) - 1 /\ 0 + 1 = 1
    BY <1>1, <1>3
  <2>2. Later(Tail(q), 0, "INPUT") = Later(q, 0 + 1, "INPUT")
    BY <1>1, <1>3, <2>1, LaterTail
  <2>3. Later(q, 1, "INPUT") \in Nat
    BY <1>3, LaterIsNat
  <2>4. Later(q, 0, "INPUT") = Later(q, 1, "INPUT") + (IF Head(q).kind = "INPUT" THEN 1 ELSE 0)
    BY <1>1, <1>3, LaterHead
  <2> QED
    BY <1>1, <2>1, <2>2, <2>3, <2>4
<1>8. /\ said = [d \in Conn |-> told[d] - Later(Queue(d), 0, "INPUT")]
      /\ said' = [d \in Conn |-> told[d] - Later(Queue(d)', 0, "INPUT")]
  BY <1>2, SaidNow, SaidNext
<1>9. said[c] = told[c] - Later(q, 0, "INPUT") /\ said'[c] = told[c] - Later(Tail(q), 0, "INPUT")
  BY <1>1, <1>8 DEF q
<1>10. \A d \in Conn \ {c} : said'[d] = said[d]
  BY <1>1, <1>8
<1>11. CASE kind # "INPUT"
  <2>1. said'[c] = said[c]
    BY <1>7, <1>9, <1>11
  <2>2. said' = said
    BY <1>8, <1>10, <2>1
  <2> QED
    BY <1>6, <1>11, <2>2
<1>12. CASE kind = "INPUT"
  <2>1. said'[c] = said[c] + 1
    BY <1>2, <1>7, <1>9, <1>12
  <2>2. said' = [said EXCEPT ![c] = @ + 1]
    BY <1>8, <1>10, <2>1
  <2>3. Head(q) = Record(c, said'[c])
    BY <1>1, <1>5, <1>9, <1>12
  <2> QED
    BY <1>1, <1>6, <1>12, <2>2, <2>3
<1> QED
  BY <1>11, <1>12

LEMMA SaidSpeak ==
  ASSUME TypeOK, TypeOK', Numbered, NEW c \in Conn, NEW f \in FromConsole, Speak(c, f),
         \/ f.kind # "INPUT" /\ UNCHANGED told
         \/ f.kind = "INPUT" /\ told' = [told EXCEPT ![c] = @ + 1] /\ f = Record(c, told'[c])
  PROVE  Numbered' /\ said' = said
<1> DEFINE q == Queue(c)
           more == IF f.kind = "INPUT" THEN 1 ELSE 0
<1>1. \A d \in Conn : Queue(d)' = IF d = c THEN Append(q, f) ELSE Queue(d)
  BY QueueSpeak
<1>2. told \in [Conn -> Nat] /\ told'[c] = told[c] + more /\ told'[c] \in Nat /\ told[c] \in Nat
      /\ \A d \in Conn \ {c} : told'[d] = told[d]
  <2>1. told \in [Conn -> Nat]
    BY DEF TypeOK
  <2>2. CASE f.kind # "INPUT" /\ UNCHANGED told
    BY <2>1, <2>2
  <2>3. CASE f.kind = "INPUT" /\ told' = [told EXCEPT ![c] = @ + 1]
    BY <2>1, <2>3
  <2> QED
    BY <2>2, <2>3
<1>3. q \in Seq(FromConsole) /\ Len(q) \in Nat /\ 0 \in 0 .. Len(q)
  BY QueueType
<1>4. \A d \in Conn : OwnNumbers(d, Queue(d), told[d])
  BY NumberedNow
<1>5. Later(Append(q, f), 0, "INPUT") = Later(q, 0, "INPUT") + more /\ Later(q, 0, "INPUT") \in Nat
  <2> HIDE DEF q
  <2> QED
    BY <1>3, LaterAppend, LaterIsNat
<1>6. OwnNumbers(c, Append(q, f), told'[c])
  <2>1. OwnNumbers(c, q, told[c])
    BY <1>4
  <2>2. \/ f.kind # "INPUT" /\ told'[c] = told[c]
        \/ f.kind = "INPUT" /\ told'[c] = told[c] + 1 /\ f = Record(c, told'[c])
    BY <1>2
  <2> HIDE DEF q
  <2> QED
    BY <1>2, <1>3, <2>1, <2>2, NumbersAppend
<1>7. Numbered'
  BY <1>1, <1>2, <1>4, <1>6, NumberedNext
<1>8. /\ said = [d \in Conn |-> told[d] - Later(Queue(d), 0, "INPUT")]
      /\ said' = [d \in Conn |-> told'[d] - Later(Queue(d)', 0, "INPUT")]
  BY SaidNow, SaidNext
<1>9. \A d \in Conn : said'[d] = said[d]
  <2> TAKE d \in Conn
  <2>1. CASE d = c
    <3>1. said[c] = told[c] - Later(q, 0, "INPUT")
          /\ said'[c] = told'[c] - Later(Append(q, f), 0, "INPUT")
      BY <1>1, <1>8
    <3> HIDE DEF q
    <3> QED
      BY <1>2, <1>5, <2>1, <3>1
  <2>2. CASE d # c
    BY <1>1, <1>2, <1>8, <2>2
  <2> QED
    BY <2>1, <2>2
<1> QED
  BY <1>7, <1>8, <1>9

(* Steps of the loop outside the frame loops handle no frame.              *)
LEMMA SaidLoop ==
  ASSUME TypeOK, TypeOK', Numbered, NEW c \in Conn,
         \/ Accept(c) \/ Sweep(c) \/ RecvEnd(c) \/ Flush(c) \/ FlushFail(c)
         \/ ServiceDone(c) \/ HangUp(c) \/ Recv(c)
  PROVE  Numbered' /\ said' = said
<1>1. told' = told
  BY DEF Accept, Sweep, RecvEnd, Flush, FlushFail, ServiceDone, HangUp, Recv, console
<1>2. \A d \in Conn : Queue(d)' = Queue(d)
  <2>1. CASE Recv(c)
    BY <2>1, QueueRecv
  <2>2. CASE UNCHANGED <<rx, wire>>
    BY <2>2 DEF Queue
  <2> QED
    BY <2>1, <2>2 DEF Accept, Sweep, RecvEnd, Flush, FlushFail, ServiceDone, HangUp
<1> QED
  BY <1>1, <1>2, SaidStill

(* A console that says something says it at the end of its queue.          *)
LEMMA SaidSay ==
  ASSUME TypeOK, TypeOK', Numbered, NEW c \in Conn, SayHello(c) \/ SayInput(c) \/ SayExtra(c)
  PROVE  Numbered' /\ said' = said
<1>1. CASE SayHello(c)
  <2> DEFINE f == [kind |-> "HELLO", name |-> Asks[c]]
  <2>1. f \in FromConsole
    BY NamesAssumption DEF FromConsole
  <2>2. Speak(c, f) /\ UNCHANGED told /\ f.kind # "INPUT"
    BY <1>1 DEF SayHello
  <2> HIDE DEF f
  <2> QED
    BY <2>1, <2>2, SaidSpeak
<1>2. CASE SayInput(c)
  <2> DEFINE f == Record(c, told'[c])
  <2>1. told' = [told EXCEPT ![c] = @ + 1] /\ Speak(c, f)
    BY <1>2 DEF SayInput
  <2>2. told'[c] \in Nat
    BY DEF TypeOK
  <2>3. f.kind = "INPUT" /\ f \in FromConsole
    BY <2>2 DEF Record, FromConsole
  <2>4. f = Record(c, told'[c])
    OBVIOUS
  <2> HIDE DEF f
  <2> QED
    BY <2>1, <2>3, <2>4, SaidSpeak
<1>3. CASE SayExtra(c)
  <2>1. PICK k \in Extra : Speak(c, [kind |-> k])
    BY <1>3 DEF SayExtra
  <2> DEFINE f == [kind |-> k]
  <2>2. k \in {"REFUSED", "BAD", "LIST", "JOIN", "PING", "BYE", "OTHER"}
    BY ExtraAssumption
  <2>3. f \in FromConsole /\ f.kind # "INPUT"
    BY <2>2 DEF FromConsole
  <2>4. Speak(c, f) /\ UNCHANGED told
    BY <1>3, <2>1 DEF SayExtra
  <2> HIDE DEF f
  <2> QED
    BY <2>3, <2>4, SaidSpeak
<1> QED
  BY <1>1, <1>2, <1>3

(* The invariant of the refinement is inductive.                           *)
LEMMA MatchInductive ==
  ASSUME MatchInv, "JOIN" \notin Extra, [Next]_vars
  PROVE  MatchInv'
<1>1. RelayInv /\ Numbered /\ TypeOK
  BY DEF MatchInv, RelayInv, IInv
<1>2. RelayInv'
  BY <1>1, RelayInductive
<1>3. TypeOK'
  BY <1>2 DEF RelayInv, IInv
<1>4. CASE UNCHANGED vars
  <2>1. UNCHANGED <<rx, wire, told>>
    BY <1>4 DEF vars, console
  <2>2. \A d \in Conn : Queue(d)' = Queue(d)
    BY <2>1 DEF Queue
  <2> QED
    BY <1>1, <1>2, <1>3, <2>1, <2>2, SaidStill DEF MatchInv
<1>5. CASE Next
  <2>1. PICK c \in Conn :
          Accept(c) \/ Sweep(c) \/ Receive(c) \/ Service(c) \/ Send(c) \/ User(c)
    BY <1>5 DEF Next
  <2>2. CASE \E kind : Take(c, kind)
    BY <1>1, <1>2, <1>3, <2>2, SaidTake DEF MatchInv
  <2>3. CASE SayHello(c) \/ SayInput(c) \/ SayExtra(c)
    BY <1>1, <1>2, <1>3, <2>3, SaidSay DEF MatchInv
  <2>4. CASE \/ Accept(c) \/ Sweep(c) \/ RecvEnd(c) \/ Flush(c) \/ FlushFail(c)
             \/ ServiceDone(c) \/ HangUp(c) \/ Recv(c)
    BY <1>1, <1>2, <1>3, <2>4, SaidLoop DEF MatchInv
  <2>5. CASE \/ BadLength(c) \/ Forward(c) \/ OnHello(c) \/ Refuse(c) \/ OnJoin(c)
             \/ SendLobby(c) \/ Ping(c) \/ Bye(c) \/ Unknown(c)
    BY <2>2, <2>5 DEF BadLength, Forward, OnHello, Refuse, OnJoin, SendLobby, Ping, Bye, Unknown
  <2> QED
    BY <2>1, <2>3, <2>4, <2>5 DEF Receive, Service, Send, User
<1> QED
  BY <1>4, <1>5

-----------------------------------------------------------------------------
(* What the relay has for each console.                                    *)

LEMMA StreamsStill ==
  ASSUME UNCHANGED <<got, tx>>
  PROVE  stream' = stream
BY DEF stream, Stream

(* With out for what is left in the buffers, nothing has got lost.         *)
LEMMA StreamAppend ==
  ASSUME TypeOK, NEW out \in [Conn -> Seq(ToConsole)],
         \A d \in Conn : got'[d] \in Seq(ToConsole) /\ got'[d] \o out[d] = Stream(d),
         NEW e \in Conn, NEW f \in ToConsole, tx' = [out EXCEPT ![e] = Append(@, f)]
  PROVE  stream' = [stream EXCEPT ![e] = Append(@, f)]
<1>1. \A d \in Conn : Stream(d)' = IF d = e THEN Append(Stream(e), f) ELSE Stream(d)
  <2> TAKE d \in Conn
  <2>1. CASE d = e
    <3>1. tx'[e] = Append(out[e], f) /\ got'[e] \in Seq(ToConsole) /\ out[e] \in Seq(ToConsole)
      OBVIOUS
    <3>2. \A a, b \in Seq(ToConsole) : a \o Append(b, f) = Append(a \o b, f)
      BY AppendBehind
    <3>3. got'[e] \o Append(out[e], f) = Append(got'[e] \o out[e], f)
      BY <3>1, <3>2, Zenon
    <3> QED
      BY <2>1, <3>1, <3>3 DEF Stream
  <2>2. CASE d # e
    BY <2>2 DEF Stream
  <2> QED
    BY <2>1, <2>2
<1> QED
  BY <1>1 DEF stream

LEMMA StreamsNow ==
  ASSUME TypeOK, UNCHANGED got
  PROVE  \A d \in Conn : got'[d] \in Seq(ToConsole) /\ got'[d] \o tx[d] = Stream(d)
BY DEF TypeOK, Stream

-----------------------------------------------------------------------------
(* The matches.                                                            *)

Paired == {d \in clients : partner[d] # None}

LEMMA PairsStill ==
  ASSUME UNCHANGED partner, {d \in clients' : partner[d] # None} = Paired
  PROVE  pairs' = pairs
BY DEF pairs, Paired

(* A client's match is that with its partner.                              *)
LEMMA PairsOf ==
  ASSUME TypeOK, Mutual, NEW c \in Conn
  PROVE  /\ c \notin clients \/ partner[c] = None => \A p \in pairs : c \notin p
         /\ c \in clients /\ partner[c] # None => /\ partner[c] \in clients \ {c}
                                                  /\ {c, partner[c]} \in pairs
<1>1. \A d \in Paired : partner[d] \in Paired /\ partner[partner[d]] = d
  <2> TAKE d \in Paired
  <2>1. partner[d] \in clients /\ partner[partner[d]] = d /\ d # None
    BY NoneAssumption DEF Paired, Mutual, TypeOK
  <2> QED
    BY <2>1 DEF Paired
<1>2. c \notin Paired => \A p \in pairs : c \notin p
  BY <1>1 DEF pairs, Paired
<1>3. c \in Paired => partner[c] \in clients \ {c} /\ {c, partner[c]} \in pairs
  BY DEF pairs, Paired, Mutual
<1> QED
  BY <1>2, <1>3 DEF Paired

LEMMA PairsDrop ==
  ASSUME TypeOK, Mutual, NEW c \in clients, NEW e \in clients, partner[c] = e,
         clients' = clients \ {c}, partner' = [partner EXCEPT ![e] = None]
  PROVE  pairs' = pairs \ {{c, e}}
<1>1. e # None /\ c # None /\ e # c /\ partner[e] = c /\ c \in Conn /\ e \in Conn
  BY NoneAssumption DEF Mutual, TypeOK
<1>2. partner'[e] = None /\ \A d \in Conn \ {e} : partner'[d] = partner[d]
  BY <1>1 DEF TypeOK
<1>3. \A d \in clients' : d # e => d \in Conn /\ d \in clients /\ partner'[d] = partner[d]
  BY <1>2 DEF TypeOK
<1>4. ASSUME NEW d \in clients, partner[d] # None PROVE {d, partner[d]} = {c, e} <=> d \in {c, e}
  <2>1. partner[partner[d]] = d
    BY <1>4 DEF Mutual
  <2> QED
    BY <1>1, <2>1
<1>5. ASSUME NEW p \in pairs' PROVE p \in pairs \ {{c, e}}
  <2>1. PICK d \in clients' : partner'[d] # None /\ p = {d, partner'[d]}
    BY <1>5 DEF pairs
  <2>2. d # e /\ d # c
    BY <1>2, <2>1
  <2> QED
    BY <1>3, <1>4, <2>1, <2>2 DEF pairs
<1>6. ASSUME NEW p \in pairs, p # {c, e} PROVE p \in pairs'
  <2>1. PICK d \in clients : partner[d] # None /\ p = {d, partner[d]}
    BY <1>6 DEF pairs
  <2>2. d # e /\ d # c
    BY <1>4, <1>6, <2>1
  <2>3. d \in clients' /\ partner'[d] = partner[d]
    BY <1>3, <2>2
  <2> QED
    BY <2>1, <2>3 DEF pairs
<1> QED
  BY <1>5, <1>6

LEMMA PairsMeet ==
  ASSUME TypeOK, Mutual, NEW c \in clients, NEW h \in clients \ {c},
         partner[c] = None, partner[h] = None,
         clients' = clients, partner' = [partner EXCEPT ![h] = c, ![c] = h]
  PROVE  pairs' = pairs \cup {{h, c}}
<1>1. c # None /\ h # None /\ c \in Conn /\ h \in Conn
  BY NoneAssumption DEF TypeOK
<1>2. partner'[h] = c /\ partner'[c] = h /\ \A d \in Conn \ {c, h} : partner'[d] = partner[d]
  BY <1>1 DEF TypeOK
<1>3. \A d \in clients : d \notin {c, h} => d \in Conn /\ partner'[d] = partner[d]
  BY <1>2 DEF TypeOK
<1>4. ASSUME NEW p \in pairs' PROVE p \in pairs \cup {{h, c}}
  <2>1. PICK d \in clients : partner'[d] # None /\ p = {d, partner'[d]}
    BY <1>4 DEF pairs
  <2>2. CASE d \in {c, h}
    BY <1>2, <2>1, <2>2
  <2>3. CASE d \notin {c, h}
    BY <1>3, <2>1, <2>3 DEF pairs
  <2> QED
    BY <2>2, <2>3
<1>5. ASSUME NEW p \in pairs PROVE p \in pairs'
  <2>1. PICK d \in clients : partner[d] # None /\ p = {d, partner[d]}
    BY <1>5 DEF pairs
  <2>2. d \in clients' /\ partner'[d] = partner[d]
    BY <1>3, <2>1
  <2> QED
    BY <2>1, <2>2 DEF pairs
<1>6. {h, c} \in pairs'
  BY <1>1, <1>2 DEF pairs
<1> QED
  BY <1>4, <1>5, <1>6

-----------------------------------------------------------------------------
(* The steps of VoMatch.                                                   *)

Gone == came \ clients

(* drop() is a Leave.                                                      *)
LEMMA DropLeaves ==
  ASSUME MatchInv, NEW c \in clients, NEW out \in [Conn -> Seq(ToConsole)], Drop(c, out),
         \A d \in Conn : got'[d] \in Seq(ToConsole) /\ got'[d] \o out[d] = Stream(d),
         came' = came, said' = said
  PROVE  Match!Leave(c)
<1>1. TypeOK /\ Mutual /\ c \in Conn /\ clients \subseteq came
  BY DEF MatchInv, RelayInv, IInv, TypeOK
<1>2. /\ clients' = clients \ {c} /\ name' = name
      /\ \/ partner[c] = None /\ tx' = out /\ partner' = partner
         \/ /\ partner[c] # None /\ partner' = [partner EXCEPT ![partner[c]] = None]
            /\ tx' = [out EXCEPT ![partner[c]] = Append(@, PeerLeft)]
  BY DEF Drop, Here
<1>3. c \notin Gone /\ Gone' = Gone \cup {c}
  BY <1>1, <1>2 DEF Gone
<1>4. CASE partner[c] = None
  <2>1. \A p \in pairs : c \notin p
    BY <1>1, <1>4, PairsOf
  <2>2. {d \in clients' : partner[d] # None} = Paired
    BY <1>2, <1>4 DEF Paired
  <2>3. pairs' = pairs
    BY <1>2, <1>4, <2>2, PairsStill
  <2>4. stream' = stream
    BY <1>2, <1>4 DEF stream, Stream
  <2> QED
    BY <1>2, <1>3, <2>1, <2>3, <2>4 DEF Match!Leave, Gone
<1>5. CASE partner[c] # None
  <2> DEFINE e == partner[c]
  <2>1. e \in clients \ {c} /\ {c, e} \in pairs /\ e \in Conn
    BY <1>1, <1>5, PairsOf DEF TypeOK
  <2>2. pairs' = pairs \ {{c, e}}
    BY <1>1, <1>2, <1>5, <2>1, PairsDrop
  <2>3. stream' = [stream EXCEPT ![e] = Append(@, PeerLeft)]
    <3>1. tx' = [out EXCEPT ![e] = Append(@, PeerLeft)]
      BY <1>2, <1>5
    <3> HIDE DEF e
    <3> QED
      BY <1>1, <2>1, <3>1, RelayFrames, StreamAppend
  <2>4. PeerLeft = Match!PeerLeft
    BY DEF PeerLeft, Match!PeerLeft
  <2> HIDE DEF e
  <2> QED
    BY <1>2, <1>3, <2>1, <2>2, <2>3, <2>4 DEF Match!Leave, Gone
<1> QED
  BY <1>4, <1>5

(* A frame that is put in somebody's buffer: a Say or an Ask.              *)
LEMMA ForwardSays ==
  ASSUME MatchInv, TypeOK', NEW c \in Conn, Forward(c)
  PROVE  Match!Say(c)
<1>1. TypeOK /\ Mutual /\ Numbered /\ Queues
  BY DEF MatchInv, RelayInv, IInv
<1>2. Take(c, "INPUT") /\ UNCHANGED <<came, clients, name, partner, got>>
  BY DEF Forward, Take, server
<1>3. /\ said' = [said EXCEPT ![c] = @ + 1]
      /\ Head(rx[c]) = Record(c, said'[c])
  BY <1>1, <1>2, SaidTake
<1>4. Head(rx[c]) \in ToConsole
  BY <1>1, <1>2, TakeType, RecordFrame
<1>5. c \in clients /\ c \notin Gone /\ Gone' = Gone
  BY <1>1, <1>2 DEF Queues, OnlyServed, Take, Gone
<1>6. pairs' = pairs
  BY <1>2, PairsStill DEF Paired
<1>7. CASE partner[c] = None
  <2>1. \A p \in pairs : c \notin p
    BY <1>1, <1>7, PairsOf
  <2>2. stream' = stream
    BY <1>2, <1>7, StreamsStill DEF Forward
  <2> QED
    BY <1>2, <1>3, <1>5, <1>6, <2>1, <2>2 DEF Match!Say, Gone
<1>8. CASE partner[c] # None
  <2> DEFINE e == partner[c]
  <2>1. e \in clients \ {c} /\ {c, e} \in pairs /\ e \in Conn
    BY <1>1, <1>5, <1>8, PairsOf DEF TypeOK
  <2>2. stream' = [stream EXCEPT ![e] = Append(@, Head(rx[c]))]
    <3>1. tx' = [tx EXCEPT ![e] = Append(@, Head(rx[c]))]
      BY <1>8 DEF Forward
    <3>2. tx \in [Conn -> Seq(ToConsole)]
      BY <1>1 DEF TypeOK
    <3>3. \A d \in Conn : got'[d] \in Seq(ToConsole) /\ got'[d] \o tx[d] = Stream(d)
      BY <1>1, <1>2, StreamsNow
    <3> HIDE DEF e
    <3> QED
      BY <1>1, <1>4, <2>1, <3>1, <3>2, <3>3, StreamAppend
  <2>3. Head(rx[c]) = Match!Record(c, said'[c])
    BY <1>3 DEF Record, Match!Record
  <2> HIDE DEF e
  <2> QED
    BY <1>2, <1>3, <1>5, <1>6, <2>1, <2>2, <2>3 DEF Match!Say, Gone
<1> QED
  BY <1>7, <1>8

LEMMA AnswerAsks ==
  ASSUME MatchInv, TypeOK', NEW c \in Conn, SendLobby(c) \/ Ping(c)
  PROVE  Match!Ask(c)
<1>1. TypeOK /\ Numbered /\ Queues
  BY DEF MatchInv, RelayInv, IInv
<1>2. /\ Take(c, "LIST") \/ Take(c, "PING")
      /\ UNCHANGED <<came, clients, name, partner, got>>
  BY DEF SendLobby, Ping, Take, server
<1>3. said' = said
  BY <1>1, <1>2, SaidTake
<1>4. c \in clients /\ c \notin Gone /\ Gone' = Gone
  BY <1>1, <1>2 DEF Queues, OnlyServed, Take, Gone
<1>5. pairs' = pairs
  BY <1>2, PairsStill DEF Paired
<1>6. PICK r \in Reply : tx' = [tx EXCEPT ![c] = Append(@, r)] /\ r \in ToConsole
  <2>1. Pong \in Reply /\ Pong \in ToConsole
    BY RelayFrames DEF Reply
  <2>2. Lobby \in Reply /\ Lobby \in ToConsole
    <3>1. Lobby \in ToConsole
      BY <1>1, LobbyFrame DEF TypeOK
    <3>2. Lobby.kind = "LOBBY"
      BY DEF Lobby
    <3> QED
      BY <3>1, <3>2 DEF ToConsole, Reply, PeerLeft
  <2> QED
    BY <2>1, <2>2 DEF SendLobby, Ping
<1>7. stream' = [stream EXCEPT ![c] = Append(@, r)]
  <2>1. tx \in [Conn -> Seq(ToConsole)]
    BY <1>1 DEF TypeOK
  <2>2. \A d \in Conn : got'[d] \in Seq(ToConsole) /\ got'[d] \o tx[d] = Stream(d)
    BY <1>1, <1>2, StreamsNow
  <2> QED
    BY <1>1, <1>6, <2>1, <2>2, StreamAppend
<1>8. stream' # stream
  <2>1. stream[c] \in Seq(ToConsole) /\ stream = [d \in Conn |-> stream[d]]
    BY <1>1, QueueType DEF stream
  <2>2. Append(stream[c], r) # stream[c]
    BY <2>1
  <2> HIDE DEF stream
  <2> QED
    BY <1>7, <2>1, <2>2
<1> QED
  BY <1>2, <1>3, <1>4, <1>5, <1>6, <1>7, <1>8 DEF Match!Ask, Gone

(* HELLO is an Enter, with a Meet when somebody waits.                     *)
LEMMA HelloEnters ==
  ASSUME MatchInv, TypeOK', NEW c \in Conn, OnHello(c)
  PROVE  Match!Enter(c)
<1>1. TypeOK /\ Mutual /\ Numbered /\ Queues /\ NamesTell
  BY DEF MatchInv, RelayInv, IInv
<1>2. Take(c, "HELLO") /\ TryPair(c, name') /\ UNCHANGED <<came, clients, got>>
  BY DEF OnHello, Take
<1>3. said' = said
  BY <1>1, <1>2, SaidTake
<1>4. Head(rx[c]) \in FromConsole /\ Head(rx[c]).kind = "HELLO" /\ rx[c] # <<>>
  BY <1>1, <1>2, TakeType
<1>5. c \in clients /\ name[c] = None
  <2>1. 1 \in DOMAIN rx[c] /\ rx[c][1].kind = "HELLO"
    <3>1. rx[c] \in Seq(FromConsole)
      BY <1>1 DEF TypeOK
    <3> QED
      BY <1>4, <3>1
  <2> QED
    BY <1>1, <1>4, <2>1 DEF Queues, HelloFirst, OnlyServed
<1>6. c \notin Gone /\ Gone' = Gone
  BY <1>2, <1>5 DEF Gone
<1>7. PICK n \in Name : /\ name' = [name EXCEPT ![c] = n]
                        /\ by_name[n] = None
  <2>1. PICK n \in Free(Head(rx[c]).name) : name' = [name EXCEPT ![c] = n]
    BY DEF OnHello
  <2>2. Head(rx[c]).name \in Name
    BY <1>4, HelloFrame
  <2>3. n \in Name /\ by_name[n] = None
    BY <2>2, NamesAssumption DEF Free
  <2> QED
    BY <2>1, <2>3
<1>8. \A d \in Conn \ Gone : name[d] # n
  <2> SUFFICES ASSUME NEW d \in Conn \ Gone PROVE name[d] # n
    OBVIOUS
  <2>1. CASE d \in clients
    BY <1>1, <1>7, <2>1 DEF NamesTell
  <2>2. CASE d \notin came
    <3>1. name[d] = None
      BY <1>1, <2>2 DEF Queues, Unborn, NewIsSilent
    <3> QED
      BY <3>1, NoneAssumption
  <2> QED
    BY <2>1, <2>2 DEF Gone
<1>9. partner[c] = None
  BY <1>1, <1>5 DEF Mutual
<1>10. CASE Idle(name', c) = {}
  <2>1. UNCHANGED <<partner, tx>>
    BY <1>2, <1>10 DEF TryPair
  <2>2. pairs' = pairs /\ stream' = stream
    BY <1>2, <2>1, PairsStill, StreamsStill DEF Paired
  <2> QED
    BY <1>3, <1>5, <1>6, <1>7, <1>8, <2>2 DEF Match!Enter, Gone
<1>11. CASE Idle(name', c) # {}
  <2> DEFINE h == Oldest(Idle(name', c))
  <2>1. h \in Idle(name', c)
    BY <1>1, <1>11, OldestIdle
  <2>2. /\ partner' = [partner EXCEPT ![h] = c, ![c] = h]
        /\ tx' = [tx EXCEPT ![h] = Append(@, Start("host", name'[c])),
                            ![c] = Append(@, Start("guest", name'[h]))]
    BY <1>2, <1>11 DEF TryPair
  <2> HIDE DEF h
  <2>3. h \in clients \ {c} /\ h \in Conn /\ name'[h] # None /\ partner[h] = None
    BY <1>1, <2>1 DEF Idle, TypeOK
  <2>4. pairs' = pairs \cup {{h, c}}
    BY <1>1, <1>2, <1>5, <1>9, <2>2, <2>3, PairsMeet
  <2>5. name'[c] \in Name /\ name'[h] \in Name
    <3>1. name'[c] = n /\ name'[h] \in Name \cup {None}
      BY <1>1, <1>7, <2>3 DEF TypeOK
    <3> QED
      BY <2>3, <3>1
  <2> DEFINE f == Start("host", name'[c])
             g == Start("guest", name'[h])
  <2>6. f \in ToConsole /\ g \in ToConsole
    BY <2>5, RelayFrames
  <2>7. stream' = [stream EXCEPT ![h] = Append(@, f), ![c] = Append(@, g)]
    <3>1. tx \in [Conn -> Seq(ToConsole)] /\ got \in [Conn -> Seq(ToConsole)]
      BY <1>1 DEF TypeOK
    <3>2. tx' = [tx EXCEPT ![h] = Append(@, f), ![c] = Append(@, g)]
      BY <2>2
    <3> HIDE DEF f, g
    <3>3. /\ tx'[h] = Append(tx[h], f) /\ tx'[c] = Append(tx[c], g)
          /\ \A d \in Conn \ {h, c} : tx'[d] = tx[d]
      BY <2>3, <3>1, <3>2
    <3>4. \A a, b \in Seq(ToConsole), x \in ToConsole : a \o Append(b, x) = Append(a \o b, x)
      BY AppendBehind
    <3>5. got[h] \o Append(tx[h], f) = Append(got[h] \o tx[h], f)
      <4>1. got[h] \in Seq(ToConsole) /\ tx[h] \in Seq(ToConsole)
        BY <2>3, <3>1
      <4> QED
        BY <2>6, <3>4, <4>1, Zenon
    <3>6. got[c] \o Append(tx[c], g) = Append(got[c] \o tx[c], g)
      <4>1. got[c] \in Seq(ToConsole) /\ tx[c] \in Seq(ToConsole)
        BY <3>1
      <4> QED
        BY <2>6, <3>4, <4>1, Zenon
    <3>7. stream' = [d \in Conn |-> got[d] \o tx'[d]] /\ stream = [d \in Conn |-> got[d] \o tx[d]]
      BY <1>2 DEF stream, Stream
    <3>8. stream'[h] = Append(stream[h], f)
      BY <2>3, <3>3, <3>5, <3>7
    <3>9. stream'[c] = Append(stream[c], g)
      BY <2>3, <3>3, <3>6, <3>7
    <3>10. \A d \in Conn \ {h, c} : stream'[d] = stream[d]
      BY <3>3, <3>7
    <3>11. DOMAIN stream' = Conn /\ DOMAIN stream = Conn
      BY <3>7
    <3> DEFINE x == Append(stream[h], f)
               y == Append(stream[c], g)
               new == [stream EXCEPT ![h] = x, ![c] = y]
    <3>12. /\ new[h] = x /\ new[c] = y /\ DOMAIN new = Conn
           /\ \A d \in Conn \ {h, c} : new[d] = stream[d]
           /\ new = [d \in Conn |-> new[d]] /\ stream' = [d \in Conn |-> stream'[d]]
      <4> HIDE DEF x, y
      <4> QED
        BY <2>3, <3>7, <3>11
    <3> HIDE DEF new
    <3>13. \A d \in Conn : stream'[d] = new[d]
      BY <3>8, <3>9, <3>10, <3>12
    <3>14. stream' = new
      BY <3>12, <3>13
    <3> QED
      BY <3>14 DEF new
  <2>8. f = Match!Start("host", name'[c]) /\ g = Match!Start("guest", name'[h])
    BY DEF Start, Match!Start
  <2> HIDE DEF f, g
  <2>9. Match!Single(h) /\ Match!Single(c)
    <3>1. (\A p \in pairs : h \notin p) /\ (\A p \in pairs : c \notin p)
      BY <1>1, <1>9, <2>3, PairsOf
    <3>2. h \notin Gone /\ name'[c] # None
      BY <2>3, <2>5, NoneAssumption DEF Gone
    <3> QED
      BY <1>6, <2>3, <3>1, <3>2 DEF Match!Single, Gone
  <2>10. Match!Meet(h, c)
    BY <2>3, <2>4, <2>7, <2>8, <2>9 DEF Match!Meet
  <2> QED
    BY <1>3, <1>5, <1>6, <1>7, <1>8, <2>3, <2>10 DEF Match!Enter, Gone
<1> QED
  BY <1>10, <1>11

(* What leaves the matches, the streams and the clients alone is a stutter. *)
LEMMA MatchStill ==
  ASSUME UNCHANGED <<came, clients, name, partner>>, said' = said, stream' = stream
  PROVE  UNCHANGED Match!vars
<1>1. pairs' = pairs
  BY PairsStill DEF Paired
<1> QED
  BY <1>1 DEF Match!vars

(* Somebody is turned away at once, or comes and has said nothing yet.     *)
LEMMA AcceptMaps ==
  ASSUME MatchInv, TypeOK', NEW c \in Conn, Accept(c)
  PROVE  Match!Leave(c) \/ UNCHANGED Match!vars
<1>1. TypeOK /\ Mutual /\ Numbered /\ Queues
  BY DEF MatchInv, RelayInv, IInv
<1>2. /\ c \notin came /\ came' = came \cup {c} /\ UNCHANGED <<name, partner, tx, got>>
      /\ clients' = clients \/ clients' = clients \cup {c}
  BY DEF Accept
<1>3. said' = said
  BY <1>1, SaidLoop
<1>4. stream' = stream
  BY <1>2, StreamsStill
<1>5. c \notin clients /\ partner[c] = None
  BY <1>1, <1>2 DEF TypeOK, Queues, Unborn
<1>6. pairs' = pairs
  <2>1. {d \in clients' : partner[d] # None} = Paired
    BY <1>2, <1>5 DEF Paired
  <2> QED
    BY <1>2, <2>1, PairsStill
<1>7. CASE clients' = clients
  <2>1. c \notin Gone /\ Gone' = Gone \cup {c}
    BY <1>2, <1>5, <1>7 DEF Gone
  <2>2. \A p \in pairs : c \notin p
    BY <1>1, <1>5, PairsOf
  <2> QED
    BY <1>2, <1>3, <1>4, <1>6, <2>1, <2>2 DEF Match!Leave, Gone
<1>8. CASE clients' = clients \cup {c}
  <2>1. Gone' = Gone
    BY <1>2, <1>5, <1>8 DEF Gone
  <2> QED
    BY <1>2, <1>3, <1>4, <1>6, <2>1 DEF Match!vars, Gone
<1> QED
  BY <1>2, <1>7, <1>8

(* What the socket takes moves from the buffer to the console; a client    *)
(* that leaves too much behind leaves.                                     *)
LEMMA FlushMaps ==
  ASSUME MatchInv, TypeOK', NEW c \in Conn, Flush(c)
  PROVE  Match!Leave(c) \/ UNCHANGED Match!vars
<1>1. TypeOK /\ Numbered
  BY DEF MatchInv, RelayInv, IInv
<1>2. said' = said
  BY <1>1, SaidLoop
<1>3. PICK k \in 0 .. Len(tx[c]) :
        LET out == [tx EXCEPT ![c] = SubSeq(@, k + 1, Len(@))]
        IN  /\ got' = [got EXCEPT ![c] = @ \o SubSeq(tx[c], 1, k)]
            /\ Drop(c, out) \/ (tx' = out /\ UNCHANGED server)
  BY DEF Flush
<1> DEFINE out == [tx EXCEPT ![c] = SubSeq(@, k + 1, Len(@))]
<1>4. /\ out = [tx EXCEPT ![c] = SubSeq(@, k + 1, Len(@))]
      /\ got' = [got EXCEPT ![c] = @ \o SubSeq(tx[c], 1, k)]
      /\ Drop(c, out) \/ (tx' = out /\ UNCHANGED server)
  BY <1>3
<1> HIDE DEF out
<1>5. /\ out \in [Conn -> Seq(ToConsole)]
      /\ \A d \in Conn : got'[d] \in Seq(ToConsole) /\ got'[d] \o out[d] = Stream(d)
  <2>1. tx \in [Conn -> Seq(ToConsole)] /\ got \in [Conn -> Seq(ToConsole)]
    BY <1>1 DEF TypeOK
  <2>2. tx[c] \in Seq(ToConsole) /\ got[c] \in Seq(ToConsole)
    BY <2>1
  <2> DEFINE x == SubSeq(tx[c], 1, k)
             y == SubSeq(tx[c], k + 1, Len(tx[c]))
  <2>3. x \in Seq(ToConsole) /\ y \in Seq(ToConsole)
    BY <2>2, FirstPart, LaterPart
  <2>4. (got[c] \o x) \o y = got[c] \o tx[c]
    BY <2>2, MoveFront
  <2>5. out[c] = y /\ got'[c] = got[c] \o x /\ \A d \in Conn \ {c} : out[d] = tx[d] /\ got'[d] = got[d]
    BY <1>4, <2>1
  <2> HIDE DEF x, y
  <2>6. got[c] \o x \in Seq(ToConsole)
    BY <2>2, <2>3, ConcatProperties
  <2>7. out \in [Conn -> Seq(ToConsole)]
    <3>1. out = [tx EXCEPT ![c] = y]
      BY <1>4 DEF y
    <3> QED
      BY <2>1, <2>3, <3>1
  <2>8. \A d \in Conn : got'[d] \in Seq(ToConsole) /\ got'[d] \o out[d] = Stream(d)
    <3> TAKE d \in Conn
    <3>1. CASE d = c
      BY <2>4, <2>5, <2>6, <3>1 DEF Stream
    <3>2. CASE d # c
      BY <2>1, <2>5, <3>2 DEF Stream
    <3> QED
      BY <3>1, <3>2
  <2> QED
    BY <2>7, <2>8
<1>6. c \in clients /\ came' = came
  BY DEF Flush, Here
<1>7. CASE Drop(c, out)
  BY <1>2, <1>5, <1>6, <1>7, DropLeaves
<1>8. CASE tx' = out /\ UNCHANGED server
  <2>1. stream' = stream
    BY <1>5, <1>8 DEF stream, Stream
  <2> QED
    BY <1>2, <1>6, <1>8, <2>1, MatchStill DEF server
<1> QED
  BY <1>4, <1>7, <1>8

(* A connection that ends without a flush.                                 *)
LEMMA EndMaps ==
  ASSUME MatchInv, TypeOK', NEW c \in Conn,
         Sweep(c) \/ RecvEnd(c) \/ FlushFail(c) \/ BadLength(c) \/ Refuse(c) \/ Bye(c)
  PROVE  Match!Leave(c)
<1>1. TypeOK /\ Numbered /\ Queues
  BY DEF MatchInv, RelayInv, IInv
<1>2. Drop(c, tx) /\ UNCHANGED <<came, got>>
  BY DEF Sweep, RecvEnd, FlushFail, BadLength, Refuse, Bye, Take
<1>3. said' = said /\ c \in clients
  <2>1. CASE Sweep(c) \/ RecvEnd(c) \/ FlushFail(c)
    <3>1. said' = said
      BY <1>1, <2>1, SaidLoop
    <3> QED
      BY <2>1, <3>1 DEF Sweep, RecvEnd, FlushFail, Here
  <2>2. CASE BadLength(c) \/ Refuse(c) \/ Bye(c)
    <3>1. Take(c, "BAD") \/ Take(c, "REFUSED") \/ Take(c, "BYE")
      BY <2>2 DEF BadLength, Refuse, Bye
    <3> QED
      BY <1>1, <3>1, SaidTake DEF Take, Queues, OnlyServed
  <2> QED
    BY <2>1, <2>2
<1>4. tx \in [Conn -> Seq(ToConsole)]
  BY <1>1 DEF TypeOK
<1>5. \A d \in Conn : got'[d] \in Seq(ToConsole) /\ got'[d] \o tx[d] = Stream(d)
  BY <1>1, <1>2, StreamsNow
<1> QED
  BY <1>2, <1>3, <1>4, <1>5, DropLeaves

LEMMA MatchInit ==
  Init => Match!Init
<1> SUFFICES ASSUME Init PROVE Match!Init
  OBVIOUS
<1>1. TypeOK
  BY TypeInit
<1>2. \A c \in Conn : Queue(c) = <<>> /\ Stream(c) = <<>> /\ told[c] = 0
  BY DEF Init, Queue, Stream
<1>3. \A c \in Conn : Later(Queue(c), 0, "INPUT") = 0
  <2>1. \A c \in Conn : Places(Queue(c), 0, "INPUT") = {}
    BY <1>2 DEF Places
  <2> QED
    BY <2>1, FS_EmptySet DEF Later, Places
<1>4. said = [c \in Conn |-> 0]
  BY <1>1, <1>2, <1>3, SaidNow
<1>5. stream = [c \in Conn |-> <<>>]
  BY <1>2 DEF stream
<1>6. pairs = {}
  BY DEF Init, pairs
<1> QED
  BY <1>4, <1>5, <1>6 DEF Init, Match!Init

LEMMA NumberedInit ==
  Init => MatchInv
<1> SUFFICES ASSUME Init PROVE MatchInv
  OBVIOUS
<1>1. \A c \in Conn : Queue(c) = <<>>
  BY DEF Init, Queue
<1> QED
  BY <1>1, RelayInitInv DEF MatchInv, Numbered

LEMMA MatchStep ==
  ASSUME MatchInv, "JOIN" \notin Extra, [Next]_vars
  PROVE  [Match!Next]_(Match!vars)
<1>1. RelayInv /\ TypeOK /\ Numbered /\ Queues
  BY DEF MatchInv, RelayInv, IInv
<1>2. TypeOK'
  BY MatchInductive DEF MatchInv, RelayInv, IInv
<1>3. CASE UNCHANGED vars
  <2>1. UNCHANGED <<came, clients, name, partner, rx, wire, told, got, tx>>
    BY <1>3 DEF vars, server, console
  <2>2. said' = said
    BY <1>1, <1>2, <2>1, SaidStill DEF Queue
  <2> QED
    BY <2>1, <2>2, StreamsStill, MatchStill
<1>4. CASE Next
  <2>1. PICK c \in Conn :
          Accept(c) \/ Sweep(c) \/ Receive(c) \/ Service(c) \/ Send(c) \/ User(c)
    BY <1>4 DEF Next
  <2>2. ~OnJoin(c)
    <3> SUFFICES ASSUME OnJoin(c) PROVE FALSE
      OBVIOUS
    <3>1. rx[c] # <<>> /\ Head(rx[c]).kind = "JOIN"
      BY DEF OnJoin, Take
    <3>2. 1 \in DOMAIN rx[c] /\ rx[c][1].kind = "JOIN"
      BY <1>1, <3>1 DEF TypeOK
    <3> QED
      BY <1>1, <3>2 DEF Queues, NoJoin
  <2>3. CASE Accept(c)
    BY <1>2, <2>3, AcceptMaps DEF Match!Next
  <2>4. CASE Flush(c)
    BY <1>2, <2>4, FlushMaps DEF Match!Next
  <2>5. CASE Sweep(c) \/ RecvEnd(c) \/ FlushFail(c) \/ BadLength(c) \/ Refuse(c) \/ Bye(c)
    BY <1>2, <2>5, EndMaps DEF Match!Next
  <2>6. CASE Forward(c)
    BY <1>2, <2>6, ForwardSays DEF Match!Next
  <2>7. CASE SendLobby(c) \/ Ping(c)
    BY <1>2, <2>7, AnswerAsks DEF Match!Next
  <2>8. CASE OnHello(c)
    BY <1>2, <2>8, HelloEnters DEF Match!Next
  <2>9. CASE \/ Recv(c) \/ Unknown(c) \/ ServiceDone(c)
             \/ SayHello(c) \/ SayInput(c) \/ SayExtra(c) \/ HangUp(c)
    <3>1. UNCHANGED <<came, clients, name, partner, got, tx>>
      BY <2>9 DEF Recv, Unknown, ServiceDone, SayHello, SayInput, SayExtra, HangUp, Speak, Take, server
    <3>2. said' = said
      <4>1. CASE Recv(c) \/ ServiceDone(c) \/ HangUp(c)
        BY <1>1, <1>2, <4>1, SaidLoop
      <4>2. CASE SayHello(c) \/ SayInput(c) \/ SayExtra(c)
        BY <1>1, <1>2, <4>2, SaidSay
      <4>3. CASE Unknown(c)
        <5>1. Take(c, "OTHER")
          BY <4>3 DEF Unknown
        <5> QED
          BY <1>1, <1>2, <5>1, SaidTake
      <4> QED
        BY <2>9, <4>1, <4>2, <4>3
    <3> QED
      BY <3>1, <3>2, StreamsStill, MatchStill
  <2> QED
    BY <2>1, <2>2, <2>3, <2>4, <2>5, <2>6, <2>7, <2>8, <2>9 DEF Receive, Service, Send, User
<1> QED
  BY <1>3, <1>4

(* The relay's whole invariant holds: besides names and meetings, the      *)
(* records of a console that are still to be handled are its own and the   *)
(* last it sent, in the order it sent them.                                *)
THEOREM MatchInvariance ==
  ASSUME "JOIN" \notin Extra
  PROVE  Spec => []MatchInv
<1>1. MatchInv /\ [Next]_vars => MatchInv'
  BY MatchInductive
<1> QED
  BY <1>1, NumberedInit, PTL DEF Spec

(* Every behaviour of the relay is one of VoMatch: whatever sits in which  *)
(* buffer, however connections are served, flushed and dropped, a console  *)
(* in a match gets START, each record its partner said, in order and once, *)
(* and PEER_LEFT behind them (vo_relay_server.py, service, handle, drop,   *)
(* flush).                                                                 *)
THEOREM ImplementsMatch ==
  ASSUME "JOIN" \notin Extra
  PROVE  Spec => Matches
<1>1. MatchInv /\ [Next]_vars => [Match!Next]_(Match!vars)
  BY MatchStep
<1> QED
  BY <1>1, MatchInit, MatchInvariance, PTL DEF Spec, Matches, Match!Spec

=============================================================================
