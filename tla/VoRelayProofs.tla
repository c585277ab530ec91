--------------------------- MODULE VoRelayProofs ---------------------------
(***************************************************************************)
(* Proofs about VoRelay, for every value of its constants.                 *)
(***************************************************************************)
EXTENDS VoRelay, SequenceTheorems, FiniteSetTheorems, WellFoundedInduction, TLAPS

-----------------------------------------------------------------------------
(* Sequences.                                                              *)

(* The first n elements of a sequence.                                     *)
LEMMA FirstPart ==
  ASSUME NEW S, NEW s \in Seq(S), NEW n \in 0 .. Len(s)
  PROVE  /\ SubSeq(s, 1, n) \in Seq(S)
         /\ Len(SubSeq(s, 1, n)) = n
         /\ \A i \in 1 .. n : SubSeq(s, 1, n)[i] = s[i]
<1>1. \A i \in 1 .. n : s[i] \in S
  OBVIOUS
<1>2. SubSeq(s, 1, n) \in Seq(S)
  BY <1>1, SubSeqProperties
<1>3. Len(SubSeq(s, 1, n)) = IF 1 <= n THEN n - 1 + 1 ELSE 0
  BY <1>1, SubSeqProperties
<1>4. \A i \in 1 .. n - 1 + 1 : SubSeq(s, 1, n)[i] = s[1 + i - 1]
  BY <1>1, SubSeqProperties
<1> QED
  BY <1>2, <1>3, <1>4

(* The elements after the first n.                                         *)
LEMMA LaterPart ==
  ASSUME NEW S, NEW s \in Seq(S), NEW n \in 0 .. Len(s)
  PROVE  /\ SubSeq(s, n + 1, Len(s)) \in Seq(S)
         /\ Len(SubSeq(s, n + 1, Len(s))) = Len(s) - n
         /\ \A i \in 1 .. Len(s) - n : SubSeq(s, n + 1, Len(s))[i] = s[i + n]
<1>1. \A i \in n + 1 .. Len(s) : s[i] \in S
  OBVIOUS
<1>2. SubSeq(s, n + 1, Len(s)) \in Seq(S)
  BY <1>1, SubSeqProperties
<1>3. Len(SubSeq(s, n + 1, Len(s))) =
        IF n + 1 <= Len(s) THEN Len(s) - (n + 1) + 1 ELSE 0
  BY <1>1, SubSeqProperties
<1>4. \A i \in 1 .. Len(s) - (n + 1) + 1 :
        SubSeq(s, n + 1, Len(s))[i] = s[n + 1 + i - 1]
  BY <1>1, SubSeqProperties
<1> QED
  BY <1>2, <1>3, <1>4

-----------------------------------------------------------------------------
(* Frames.                                                                 *)

(* What the relay makes itself is a frame for a console.                   *)
LEMMA RelayFrames ==
  /\ \A n \in Name, r \in {"host", "guest"} : Start(r, n) \in ToConsole
  /\ PeerLeft \in ToConsole /\ Pong \in ToConsole
<1>1. \A n \in Name, r \in {"host", "guest"} : Start(r, n) \in ToConsole
  BY DEF ToConsole, Start
<1>2. PeerLeft \in ToConsole /\ Pong \in ToConsole
  BY DEF ToConsole, Reply
<1> QED
  BY <1>1, <1>2

(* A record a console sent is one its partner can be sent.                 *)
LEMMA RecordFrame ==
  \A f \in FromConsole : f.kind = "INPUT" => f \in ToConsole
<1> SUFFICES ASSUME NEW f \in FromConsole, f.kind = "INPUT"
             PROVE  f \in [kind: {"INPUT"}, from: Conn, n: Nat]
  BY DEF ToConsole
<1> QED
  BY DEF FromConsole

LEMMA HelloFrame ==
  \A f \in FromConsole : f.kind = "HELLO" => f.name \in Name
  BY DEF FromConsole

LEMMA LobbyFrame ==
  ASSUME name \in [Conn -> Name \cup {None}], clients \subseteq Conn
  PROVE  Lobby \in ToConsole
<1>0. \A o \in Rows : name[o] \in Name
  BY DEF Rows
<1>1. {<<name[o], partner[o] # None>> : o \in Rows} \in SUBSET (Name \X BOOLEAN)
  <2>1. \A o \in Rows : <<name[o], partner[o] # None>> \in Name \X BOOLEAN
    <3>1. \A o \in Rows : (partner[o] # None) \in BOOLEAN
      OBVIOUS
    <3> QED
      BY <1>0, <3>1, Zenon
  <2> QED
    BY <2>1, Zenon
<1>2. Lobby \in [kind: {"LOBBY"}, rows: SUBSET (Name \X BOOLEAN)]
  BY <1>1, Zenon DEF Lobby
<1> QED
  BY <1>2 DEF ToConsole, Reply

(* One more frame at the end of one of many queues.                        *)
LEMMA AppendOne ==
  ASSUME NEW S, NEW q \in [Conn -> Seq(S)], NEW c \in Conn, NEW f \in S
  PROVE  [q EXCEPT ![c] = Append(@, f)] \in [Conn -> Seq(S)]
<1>1. Append(q[c], f) \in Seq(S)
  BY AppendProperties
<1> QED
  BY <1>1

-----------------------------------------------------------------------------
(* Types.                                                                  *)

LEMMA CountedNames ==
  ASSUME NEW f \in [Name -> Conn \cup {None}]
  PROVE  Listed(f) \in Nat
<1>1. IsFiniteSet({n \in Name : f[n] # None})
  BY FiniteAssumption, FS_Subset
<1> QED
  BY <1>1, FS_CardinalityType DEF Listed

(* The state drop() changes keeps its type.                                *)
LEMMA DropType ==
  ASSUME TypeOK, NEW c \in Conn, NEW out \in [Conn -> Seq(ToConsole)], Drop(c, out)
  PROVE  /\ clients' \subseteq clients
         /\ born' = born /\ name' = name
         /\ by_name' \in [Name -> Conn \cup {None}]
         /\ partner' \in [Conn -> Conn \cup {None}]
         /\ tx' \in [Conn -> Seq(ToConsole)]
         /\ curplayers' \in Nat
<1>1. CASE ~Here(c)
  BY <1>1 DEF Drop, TypeOK, server
<1>2. CASE Here(c)
  <2>1. clients' \subseteq clients /\ born' = born /\ name' = name
    BY <1>2 DEF Drop
  <2>2. by_name' \in [Name -> Conn \cup {None}]
    BY <1>2 DEF Drop, TypeOK
  <2>3. curplayers' \in Nat
    BY <1>2, <2>2, CountedNames DEF Drop
  <2>4. CASE partner[c] = None
    BY <1>2, <2>1, <2>2, <2>3, <2>4 DEF Drop, TypeOK
  <2>5. CASE partner[c] # None
    <3>1. partner[c] \in Conn
      BY <2>5 DEF TypeOK
    <3>2. /\ partner' = [partner EXCEPT ![partner[c]] = None]
          /\ tx' = [out EXCEPT ![partner[c]] = Append(@, PeerLeft)]
      BY <1>2, <2>5 DEF Drop
    <3>3. tx' \in [Conn -> Seq(ToConsole)]
      BY <3>1, <3>2, AppendOne, RelayFrames
    <3>4. partner' \in [Conn -> Conn \cup {None}]
      BY <3>2 DEF TypeOK
    <3> QED
      BY <2>1, <2>2, <2>3, <3>3, <3>4
  <2> QED
    BY <2>4, <2>5
<1> QED
  BY <1>1, <1>2

(* The client chosen is one of those idle.                                 *)
LEMMA OldestIdle ==
  ASSUME TypeOK, NEW names, NEW c, Idle(names, c) # {}
  PROVE  Oldest(Idle(names, c)) \in Idle(names, c)
<1> DEFINE I == Idle(names, c)
           B == {born[o] : o \in I}
<1>1. I \subseteq Conn /\ B \subseteq Nat /\ B # {}
  BY DEF Idle, TypeOK
<1>2. PICK b \in B : \A x \in B : <<x, b>> \notin OpToRel(<, Nat)
  BY <1>1, WFMin, NatLessThanWellFounded, Zenon
<1>3. \A x \in B : b <= x
  <2>1. \A x, y \in Nat : x < y => <<x, y>> \in OpToRel(<, Nat)
    BY Zenon DEF OpToRel
  <2>2. \A x \in B : ~(x < b)
    BY <1>1, <1>2, <2>1, Zenon
  <2>3. b \in Nat /\ \A x \in B : x \in Nat
    BY <1>1, Zenon
  <2> HIDE DEF B
  <2> QED
    BY <2>2, <2>3
<1>4. \E o \in I : \A q \in I : born[o] <= born[q]
  BY <1>3
<1> QED
  BY <1>4 DEF Oldest

(* The state try_pair() changes keeps its type.                            *)
LEMMA TryPairType ==
  ASSUME TypeOK, NEW c \in Conn, NEW names \in [Conn -> Name \cup {None}],
         names[c] \in Name, TryPair(c, names)
  PROVE  /\ partner' \in [Conn -> Conn \cup {None}]
         /\ tx' \in [Conn -> Seq(ToConsole)]
<1>1. CASE Idle(names, c) = {}
  <2>1. partner' = partner /\ tx' = tx
    BY <1>1 DEF TryPair
  <2> QED
    BY <2>1 DEF TypeOK
<1>2. CASE Idle(names, c) # {}
  <2> DEFINE host == Oldest(Idle(names, c))
  <2>1. host \in Conn /\ host # c /\ names[host] \in Name
    <3>1. host \in Idle(names, c)
      BY <1>2, OldestIdle
    <3> HIDE DEF host
    <3> QED
      BY <3>1 DEF Idle, TypeOK
  <2>2. /\ partner' = [partner EXCEPT ![host] = c, ![c] = host]
        /\ tx' = [tx EXCEPT ![host] = Append(@, Start("host", names[c])),
                            ![c]    = Append(@, Start("guest", names[host]))]
    BY <1>2 DEF TryPair
  <2>3. partner' \in [Conn -> Conn \cup {None}]
    BY <2>1, <2>2 DEF TypeOK
  <2>4. tx \in [Conn -> Seq(ToConsole)]
    BY DEF TypeOK
  <2>5. /\ Append(tx[host], Start("host", names[c])) \in Seq(ToConsole)
        /\ Append(tx[c], Start("guest", names[host])) \in Seq(ToConsole)
    <3>1. Start("host", names[c]) \in ToConsole /\ Start("guest", names[host]) \in ToConsole
      BY <2>1, RelayFrames
    <3> QED
      BY <2>1, <2>4, <3>1, AppendProperties
  <2>6. tx' \in [Conn -> Seq(ToConsole)]
    <3> HIDE DEF host
    <3> QED
      BY <2>1, <2>2, <2>4, <2>5
  <2> QED
    BY <2>3, <2>6
<1> QED
  BY <1>1, <1>2

(* A client is served one frame of those it has received.                  *)
LEMMA TakeType ==
  ASSUME TypeOK, NEW c \in Conn, NEW kind, Take(c, kind)
  PROVE  /\ at = c /\ rx[c] # <<>>
         /\ Head(rx[c]) \in FromConsole /\ Head(rx[c]).kind = kind
         /\ rx' = [rx EXCEPT ![c] = Tail(@)]
         /\ rx' \in [Conn -> Seq(FromConsole)]
         /\ UNCHANGED <<came, wire, shut, hello, told, asked, got>>
<1>1. at = c /\ rx[c] # <<>> /\ Head(rx[c]).kind = kind
  BY DEF Take
<1>2. rx \in [Conn -> Seq(FromConsole)]
  BY DEF TypeOK
<1>3. Head(rx[c]) \in FromConsole /\ Tail(rx[c]) \in Seq(FromConsole)
  BY <1>1, <1>2, HeadTailProperties
<1>4. rx' = [rx EXCEPT ![c] = Tail(@)]
  BY DEF Take
<1>5. UNCHANGED <<came, wire, shut, hello, told, asked, got>>
  BY DEF Take, console
<1> QED
  BY <1>1, <1>2, <1>3, <1>4, <1>5

(* What a console says is a frame at the end of its wire.                  *)
LEMMA SpeakType ==
  ASSUME TypeOK, NEW c \in Conn, NEW f \in FromConsole, Speak(c, f)
  PROVE  /\ c \in clients
         /\ wire' = [wire EXCEPT ![c] = Append(@, f)]
         /\ wire' \in [Conn -> Seq(FromConsole)]
         /\ UNCHANGED <<came, clients, born, name, by_name, partner, curplayers,
                        rx, tx, at, shut, got>>
<1>1. wire \in [Conn -> Seq(FromConsole)]
  BY DEF TypeOK
<1> QED
  BY <1>1, AppendOne DEF Speak, server

LEMMA TypeInit ==
  Init => TypeOK
<1>1. \A S : <<>> \in Seq(S)
  OBVIOUS
<1> QED
  BY <1>1 DEF Init, TypeOK

(* Each kind of step keeps the types: the loop outside the frame loops.    *)
LEMMA TypeLoop ==
  ASSUME TypeOK, NEW c \in Conn,
         Accept(c) \/ Sweep(c) \/ RecvEnd(c) \/ FlushFail(c) \/ ServiceDone(c)
  PROVE  TypeOK'
<1>1. CASE Accept(c)
  <2>0. came \in SUBSET Conn
    BY DEF TypeOK
  <2>1. IsFiniteSet(came) /\ Cardinality(came) \in Nat
    <3>1. IsFiniteSet(came)
      BY <2>0, FiniteAssumption, FS_Subset, Zenon
    <3> QED
      BY <3>1, FS_CardinalityType, Zenon
  <2>2. born' \in [Conn -> Nat]
    <3>1. born' = [born EXCEPT ![c] = Cardinality(came) + 1] \/ born' = born
      BY <1>1, Zenon DEF Accept
    <3>2. Cardinality(came) + 1 \in Nat /\ born \in [Conn -> Nat]
      <4>1. born \in [Conn -> Nat]
        BY Zenon DEF TypeOK
      <4> QED
        BY <2>1, <4>1
    <3>3. [born EXCEPT ![c] = Cardinality(came) + 1] \in [Conn -> Nat]
      BY <3>2, Zenon
    <3> QED
      BY <3>1, <3>2, <3>3, Zenon
  <2>3. came' \subseteq Conn /\ clients' \subseteq came'
    BY <1>1 DEF Accept, TypeOK
  <2> QED
    BY <1>1, <2>2, <2>3 DEF Accept, TypeOK, console
<1>2. CASE Sweep(c) \/ RecvEnd(c) \/ FlushFail(c)
  <2>1. /\ Drop(c, tx)
        /\ UNCHANGED <<came, rx, at, wire, shut, hello, told, asked, got>>
    BY <1>2 DEF Sweep, RecvEnd, FlushFail, console
  <2>2. tx \in [Conn -> Seq(ToConsole)]
    BY DEF TypeOK
  <2>3. /\ clients' \subseteq clients /\ born' = born /\ name' = name
        /\ by_name' \in [Name -> Conn \cup {None}]
        /\ partner' \in [Conn -> Conn \cup {None}]
        /\ tx' \in [Conn -> Seq(ToConsole)]
        /\ curplayers' \in Nat
    BY <2>1, <2>2, DropType
  <2> QED
    BY <2>1, <2>3 DEF TypeOK
<1>3. CASE ServiceDone(c)
  BY <1>3, NoneAssumption DEF ServiceDone, TypeOK, server, console
<1> QED
  BY <1>1, <1>2, <1>3

(* Taking frames off the socket, and putting them on it.                   *)
LEMMA TypeSocket ==
  ASSUME TypeOK, NEW c \in Conn, Recv(c) \/ Flush(c)
  PROVE  TypeOK'
<1>0. /\ wire \in [Conn -> Seq(FromConsole)] /\ rx \in [Conn -> Seq(FromConsole)]
      /\ tx \in [Conn -> Seq(ToConsole)] /\ got \in [Conn -> Seq(ToConsole)]
  BY DEF TypeOK
<1>1. CASE Recv(c)
  <2>1. PICK k \in 1 .. Len(wire[c]) :
          /\ rx'   = [rx EXCEPT ![c] = @ \o SubSeq(wire[c], 1, k)]
          /\ wire' = [wire EXCEPT ![c] = SubSeq(@, k + 1, Len(@))]
    BY <1>1 DEF Recv
  <2>2. wire[c] \in Seq(FromConsole) /\ rx[c] \in Seq(FromConsole)
        /\ k \in 0 .. Len(wire[c])
    BY <1>0
  <2>3. /\ SubSeq(wire[c], 1, k) \in Seq(FromConsole)
        /\ SubSeq(wire[c], k + 1, Len(wire[c])) \in Seq(FromConsole)
    BY <2>2, FirstPart, LaterPart
  <2>4. rx[c] \o SubSeq(wire[c], 1, k) \in Seq(FromConsole)
    BY <2>2, <2>3, ConcatProperties
  <2>5. rx' \in [Conn -> Seq(FromConsole)] /\ wire' \in [Conn -> Seq(FromConsole)]
    BY <1>0, <2>1, <2>3, <2>4
  <2> QED
    BY <1>1, <2>5 DEF Recv, TypeOK, server, console
<1>2. CASE Flush(c)
  <2>1. PICK k \in 0 .. Len(tx[c]) :
          LET out == [tx EXCEPT ![c] = SubSeq(@, k + 1, Len(@))]
          IN  /\ got' = [got EXCEPT ![c] = @ \o SubSeq(tx[c], 1, k)]
              /\ \/ Drop(c, out)
                 \/ tx' = out /\ UNCHANGED server
    BY <1>2 DEF Flush
  <2> DEFINE out == [tx EXCEPT ![c] = SubSeq(@, k + 1, Len(@))]
  <2>2. tx[c] \in Seq(ToConsole) /\ got[c] \in Seq(ToConsole)
    BY <1>0
  <2>3. /\ SubSeq(tx[c], 1, k) \in Seq(ToConsole)
        /\ SubSeq(tx[c], k + 1, Len(tx[c])) \in Seq(ToConsole)
    BY <2>2, FirstPart, LaterPart
  <2>4. got[c] \o SubSeq(tx[c], 1, k) \in Seq(ToConsole)
    BY <2>2, <2>3, ConcatProperties
  <2>5. out \in [Conn -> Seq(ToConsole)] /\ got' \in [Conn -> Seq(ToConsole)]
    BY <1>0, <2>1, <2>3, <2>4
  <2>6. Drop(c, out) \/ (tx' = out /\ UNCHANGED server)
    BY <2>1
  <2> HIDE DEF out
  <2>7. /\ clients' \subseteq clients /\ born' = born /\ name' = name
        /\ by_name' \in [Name -> Conn \cup {None}]
        /\ partner' \in [Conn -> Conn \cup {None}]
        /\ tx' \in [Conn -> Seq(ToConsole)]
        /\ curplayers' \in Nat
    <3>1. CASE Drop(c, out)
      BY <2>5, <3>1, DropType
    <3>2. CASE tx' = out /\ UNCHANGED server
      BY <2>5, <3>2 DEF TypeOK, server
    <3> QED
      BY <2>6, <3>1, <3>2
  <2>8. UNCHANGED <<came, rx, at, wire, shut, hello, told, asked>>
    BY <1>2 DEF Flush, console
  <2> QED
    BY <2>5, <2>7, <2>8 DEF TypeOK
<1> QED
  BY <1>1, <1>2

(* Handling a frame.                                                       *)
LEMMA TypeHandle ==
  ASSUME TypeOK, NEW c \in Conn,
         \/ BadLength(c) \/ Forward(c) \/ OnHello(c) \/ Refuse(c) \/ OnJoin(c)
         \/ SendLobby(c) \/ Ping(c) \/ Bye(c) \/ Unknown(c),
         OnJoin(c) => name[c] # None
  PROVE  TypeOK'
<1>0. /\ tx \in [Conn -> Seq(ToConsole)] /\ partner \in [Conn -> Conn \cup {None}]
      /\ name \in [Conn -> Name \cup {None}] /\ clients \subseteq Conn
      /\ by_name \in [Name -> Conn \cup {None}]
  BY DEF TypeOK
<1>1. PICK kind : Take(c, kind)
  BY DEF BadLength, Forward, OnHello, Refuse, OnJoin, SendLobby, Ping, Bye, Unknown
<1>2. /\ Head(rx[c]) \in FromConsole /\ Head(rx[c]).kind = kind
      /\ rx' \in [Conn -> Seq(FromConsole)]
      /\ UNCHANGED <<came, wire, shut, hello, told, asked, got>>
  BY <1>1, TakeType
<1>3. CASE BadLength(c) \/ Refuse(c) \/ Bye(c)
  <2>1. Drop(c, tx) /\ at' \in Conn \cup {None}
    BY <1>3 DEF BadLength, Refuse, Bye, TypeOK
  <2>2. /\ clients' \subseteq clients /\ born' = born /\ name' = name
        /\ by_name' \in [Name -> Conn \cup {None}]
        /\ partner' \in [Conn -> Conn \cup {None}]
        /\ tx' \in [Conn -> Seq(ToConsole)]
        /\ curplayers' \in Nat
    BY <1>0, <2>1, DropType
  <2> QED
    BY <1>2, <2>1, <2>2 DEF TypeOK
<1>4. CASE Forward(c)
  <2>1. Head(rx[c]) \in ToConsole
    BY <1>2, <1>4, RecordFrame DEF Forward, Take
  <2>2. tx' \in [Conn -> Seq(ToConsole)]
    <3>1. CASE partner[c] # None
      <4>1. partner[c] \in Conn
        BY <1>0, <3>1
      <4>2. tx' = [tx EXCEPT ![partner[c]] = Append(@, Head(rx[c]))]
        BY <1>4, <3>1 DEF Forward
      <4> QED
        BY <1>0, <2>1, <4>1, <4>2, AppendOne
    <3>2. CASE partner[c] = None
      BY <1>0, <1>4, <3>2 DEF Forward
    <3> QED
      BY <3>1, <3>2
  <2>3. UNCHANGED <<clients, born, name, by_name, partner, curplayers, at>>
    BY <1>4 DEF Forward, server
  <2> QED
    BY <1>2, <2>2, <2>3 DEF TypeOK
<1>5. CASE SendLobby(c) \/ Ping(c) \/ Unknown(c)
  <2>1. tx' = [tx EXCEPT ![c] = Append(@, Lobby)] \/ tx' = [tx EXCEPT ![c] = Append(@, Pong)]
        \/ tx' = tx
    BY <1>5 DEF SendLobby, Ping, Unknown
  <2>2. Lobby \in ToConsole /\ Pong \in ToConsole
    BY <1>0, LobbyFrame, RelayFrames
  <2>3. tx' \in [Conn -> Seq(ToConsole)]
    <3>1. /\ [tx EXCEPT ![c] = Append(@, Lobby)] \in [Conn -> Seq(ToConsole)]
          /\ [tx EXCEPT ![c] = Append(@, Pong)] \in [Conn -> Seq(ToConsole)]
      BY <1>0, <2>2, AppendOne
    <3> QED
      BY <1>0, <2>1, <3>1, Zenon
  <2>4. UNCHANGED <<clients, born, name, by_name, partner, curplayers, at>>
    BY <1>5 DEF SendLobby, Ping, Unknown, server
  <2> QED
    BY <1>2, <2>3, <2>4 DEF TypeOK
<1>6. CASE OnHello(c)
  <2>1. Head(rx[c]).name \in Name
    BY <1>2, <1>6, HelloFrame DEF OnHello, Take
  <2>2. PICK n \in Free(Head(rx[c]).name) :
          /\ name'    = [name EXCEPT ![c] = n]
          /\ by_name' = [by_name EXCEPT ![n] = c]
    BY <1>6 DEF OnHello
  <2>3. n \in Name
    BY <2>1, <2>2, NamesAssumption DEF Free
  <2>4. /\ name' \in [Conn -> Name \cup {None}]
        /\ by_name' \in [Name -> Conn \cup {None}]
        /\ name'[c] \in Name
    <3>1. name' \in [Conn -> Name \cup {None}] /\ name'[c] \in Name
      BY <1>0, <2>2, <2>3
    <3>2. by_name' \in [Name -> Conn \cup {None}]
      BY <1>0, <2>2, <2>3
    <3> QED
      BY <3>1, <3>2
  <2>5. curplayers' \in Nat
    BY <1>6, <2>4, CountedNames DEF OnHello
  <2>6. TryPair(c, name') /\ UNCHANGED <<clients, born, at>>
    BY <1>6 DEF OnHello
  <2>7. partner' \in [Conn -> Conn \cup {None}] /\ tx' \in [Conn -> Seq(ToConsole)]
    BY <2>4, <2>6, TryPairType
  <2> QED
    BY <1>2, <2>4, <2>5, <2>6, <2>7 DEF TypeOK
<1>7. CASE OnJoin(c)
  <2>1. TryPair(c, name) /\ UNCHANGED <<clients, born, name, by_name, curplayers, at>>
    BY <1>7 DEF OnJoin
  <2>2. name[c] \in Name
    BY <1>0, <1>7
  <2>3. partner' \in [Conn -> Conn \cup {None}] /\ tx' \in [Conn -> Seq(ToConsole)]
    BY <1>0, <2>1, <2>2, TryPairType
  <2> QED
    BY <1>2, <2>1, <2>3 DEF TypeOK
<1> QED
  BY <1>3, <1>4, <1>5, <1>6, <1>7

-----------------------------------------------------------------------------
(* Matches.                                                                *)

(* drop() keeps the other matches whole, and makes no partner of anybody.  *)
LEMMA DropMutual ==
  ASSUME TypeOK, Mutual, NEW c \in Conn, NEW out, Drop(c, out)
  PROVE  /\ Mutual'
         /\ clients \ {c} \subseteq clients' /\ name' = name
         /\ \A d \in Conn : partner[d] = None => partner'[d] = None
<1>1. CASE ~Here(c)
  BY <1>1 DEF Drop, server, Mutual, Here
<1>2. CASE Here(c)
  <2>1. clients' = clients \ {c} /\ name' = name
    BY <1>2 DEF Drop
  <2>2. CASE partner[c] = None
    <3>1. partner' = partner
      BY <1>2, <2>2 DEF Drop
    <3>2. \A d \in clients : partner[d] # c
      <4> SUFFICES ASSUME NEW d \in clients, partner[d] = c PROVE FALSE
        OBVIOUS
      <4>1. d # None /\ c # None
        BY NoneAssumption DEF TypeOK
      <4> QED
        BY <2>2, <4>1 DEF Mutual
    <3> QED
      BY <2>1, <3>1, <3>2 DEF Mutual
  <2>3. CASE partner[c] # None
    <3>1. partner' = [partner EXCEPT ![partner[c]] = None]
      BY <1>2, <2>3 DEF Drop
    <3>2. c \in clients /\ partner[partner[c]] = c
      BY <1>2, <2>3 DEF Mutual, Here
    <3>3. Mutual'
      BY <2>1, <3>1, <3>2 DEF Mutual, TypeOK
    <3> QED
      BY <2>1, <3>1, <3>3 DEF TypeOK
  <2> QED
    BY <2>2, <2>3
<1> QED
  BY <1>1, <1>2

(* try_pair() for an idle client keeps the other matches whole.            *)
LEMMA PairMutual ==
  ASSUME TypeOK, Mutual, NEW c \in clients, partner[c] = None,
         NEW names \in [Conn -> Name \cup {None}], names[c] # None,
         \A d \in Conn \ {c} : names[d] = name[d],
         TryPair(c, names), clients' = clients, name' = names
  PROVE  /\ Mutual'
         /\ \A d \in Conn \ clients : partner[d] = None => partner'[d] = None
<1>1. CASE Idle(names, c) = {}
  <2>1. partner' = partner
    BY <1>1 DEF TryPair
  <2> QED
    BY <2>1 DEF Mutual, TypeOK
<1>2. CASE Idle(names, c) # {}
  <2> DEFINE host == Oldest(Idle(names, c))
  <2>1. host \in Idle(names, c)
    BY <1>2, OldestIdle
  <2>2. partner' = [partner EXCEPT ![host] = c, ![c] = host]
    BY <1>2 DEF TryPair
  <2> HIDE DEF host
  <2>3. host \in clients \ {c} /\ names[host] # None /\ partner[host] = None
    BY <2>1 DEF Idle
  <2>4. partner'[host] = c /\ partner'[c] = host
        /\ \A d \in Conn \ {host, c} : partner'[d] = partner[d]
    BY <2>2, <2>3 DEF TypeOK
  <2>5. \A d \in clients : partner[d] # c /\ partner[d] # host
    <3> SUFFICES ASSUME NEW d \in clients, partner[d] \in {c, host}
                 PROVE  FALSE
      OBVIOUS
    <3>1. d # None /\ partner[d] # None
      BY <2>3, NoneAssumption DEF TypeOK
    <3>2. partner[partner[d]] = d
      BY <3>1 DEF Mutual
    <3> QED
      BY <2>3, <3>1, <3>2
  <2>6. \A d \in clients' : partner'[d] # None =>
          /\ partner'[d] \in clients' \ {d}
          /\ partner'[partner'[d]] = d
          /\ name'[d] # None
    <3> SUFFICES ASSUME NEW d \in clients, partner'[d] # None
                 PROVE  /\ partner'[d] \in clients \ {d}
                        /\ partner'[partner'[d]] = d
                        /\ name'[d] # None
      OBVIOUS
    <3>1. CASE d \in {host, c}
      BY <2>3, <2>4, <3>1
    <3>2. CASE d \notin {host, c}
      <4>1. partner'[d] = partner[d] /\ d \in Conn
        BY <2>4, <3>2 DEF TypeOK
      <4>2. partner[d] \in clients \ {d} /\ partner[partner[d]] = d /\ name[d] # None
        BY <4>1 DEF Mutual
      <4>3. partner[d] \in Conn \ {host, c}
        BY <2>5, <4>2 DEF TypeOK
      <4> QED
        BY <2>4, <3>2, <4>1, <4>2, <4>3
    <3> QED
      BY <3>1, <3>2
  <2> QED
    BY <2>3, <2>4, <2>6 DEF Mutual
<1> QED
  BY <1>1, <1>2

-----------------------------------------------------------------------------
(* Queues.                                                                 *)

LEMMA QueuesInit ==
  Init => Queues /\ Mutual
  BY DEF Init, Queues, HelloFirst, LastLast, NewIsSilent, OnlyServed, NoJoin, Unborn, Mutual

(* Steps that handle no frame and move none.                               *)
LEMMA QueuesStill ==
  ASSUME TypeOK, Queues,
         UNCHANGED <<rx, wire, hello, name>>, came \subseteq came',
         at' = at \/ (at \in Conn /\ rx[at] = <<>>),
         clients \subseteq clients' \/ at = None,
         \A d \in Conn \ came : partner[d] = None => partner'[d] = None
  PROVE  Queues'
<1>1. (HelloFirst /\ LastLast /\ NewIsSilent /\ NoJoin)'
  BY DEF Queues, HelloFirst, LastLast, NewIsSilent, NoJoin
<1>2. OnlyServed'
  BY NoneAssumption DEF Queues, OnlyServed
<1>3. Unborn'
  BY DEF Queues, Unborn
<1> QED
  BY <1>1, <1>2, <1>3 DEF Queues

(* A console says one frame more.                                          *)
LEMMA QueuesSpeak ==
  ASSUME TypeOK, Queues, NEW c \in Conn, NEW f \in FromConsole, Speak(c, f),
         hello' \in [Conn -> {"new", "said", "last"}],
         \A d \in Conn \ {c} : hello'[d] = hello[d],
         hello[c] # "last", f.kind # "JOIN",
         f.kind = "HELLO" => hello[c] = "new",
         f.kind \in Last => hello'[c] = "last",
         hello'[c] # "new"
  PROVE  Queues'
<1>1. /\ c \in clients
      /\ wire' = [wire EXCEPT ![c] = Append(@, f)]
      /\ UNCHANGED <<came, clients, name, partner, rx, at>>
  BY SpeakType
<1>2. wire[c] \in Seq(FromConsole) /\ wire \in [Conn -> Seq(FromConsole)]
      /\ clients \subseteq came
  BY DEF TypeOK
<1> DEFINE w == Append(wire[c], f)
<1>3. /\ Len(w) = Len(wire[c]) + 1 /\ w[Len(w)] = f
      /\ \A i \in 1 .. Len(wire[c]) : w[i] = wire[c][i]
      /\ DOMAIN w = 1 .. Len(wire[c]) + 1 /\ DOMAIN wire[c] = 1 .. Len(wire[c])
  BY <1>2, AppendProperties
<1>4. wire'[c] = w /\ \A d \in Conn \ {c} : wire'[d] = wire[d]
  BY <1>1, <1>2
<1> HIDE DEF w
<1>5. HelloFirst'
  <2>1. \A i \in DOMAIN w : w[i].kind = "HELLO" => i = 1 /\ name[c] = None /\ rx[c] = <<>>
    <3>1. CASE hello[c] = "new"
      BY <1>3, <3>1 DEF Queues, NewIsSilent
    <3>2. CASE hello[c] # "new"
      BY <1>3, <3>2 DEF Queues, HelloFirst
    <3> QED
      BY <3>1, <3>2
  <2> QED
    BY <1>1, <1>4, <2>1 DEF Queues, HelloFirst
<1>6. LastLast'
  <2>1. \A i \in DOMAIN w : w[i].kind \in Last => i = Len(w) /\ hello'[c] = "last"
    <3>1. \A i \in DOMAIN wire[c] : wire[c][i].kind \notin Last
      BY DEF Queues, LastLast
    <3>2. \A i \in DOMAIN w :
            (i \in DOMAIN wire[c] /\ w[i] = wire[c][i]) \/ (i = Len(w) /\ w[i] = f)
      <4>1. Len(wire[c]) \in Nat
        BY <1>2
      <4>2. \A i \in DOMAIN w : i \in 1 .. Len(wire[c]) \/ i = Len(w)
        BY <1>3, <4>1
      <4> QED
        BY <1>3, <4>2, Zenon
    <3> QED
      BY <3>1, <3>2
  <2>2. \A i \in DOMAIN rx[c] : rx[c][i].kind \notin Last
    BY DEF Queues, LastLast
  <2> QED
    BY <1>1, <1>4, <2>1, <2>2 DEF Queues, LastLast
<1>7. NoJoin'
  BY <1>1, <1>2, <1>3, <1>4 DEF Queues, NoJoin
<1>8. NewIsSilent' /\ OnlyServed' /\ Unborn'
  BY <1>1, <1>2, <1>4 DEF Queues, NewIsSilent, OnlyServed, Unborn
<1> QED
  BY <1>5, <1>6, <1>7, <1>8 DEF Queues

(* Frames are taken off a socket.                                          *)
LEMMA QueuesRecv ==
  ASSUME TypeOK, Queues, NEW c \in Conn, Recv(c)
  PROVE  Queues'
<1>0. /\ wire \in [Conn -> Seq(FromConsole)] /\ rx \in [Conn -> Seq(FromConsole)]
      /\ wire[c] \in Seq(FromConsole)
  BY DEF TypeOK
<1>1. at = None /\ c \in clients /\ at' = c
      /\ UNCHANGED <<came, clients, name, partner, hello>>
  BY DEF Recv, Here, server, console
<1>2. \A d \in Conn : rx[d] = <<>>
  BY <1>1, NoneAssumption DEF Queues, OnlyServed
<1>3. PICK k \in 1 .. Len(wire[c]) :
        /\ rx'   = [rx EXCEPT ![c] = @ \o SubSeq(wire[c], 1, k)]
        /\ wire' = [wire EXCEPT ![c] = SubSeq(@, k + 1, Len(@))]
  BY DEF Recv
<1> DEFINE r == SubSeq(wire[c], 1, k)
           w == SubSeq(wire[c], k + 1, Len(wire[c]))
<1>4. k \in 0 .. Len(wire[c])
  BY <1>0
<1>5. r \in Seq(FromConsole) /\ Len(r) = k /\ \A i \in 1 .. k : r[i] = wire[c][i]
  BY <1>0, <1>4, FirstPart, Zenon
<1>6. w \in Seq(FromConsole) /\ Len(w) = Len(wire[c]) - k
      /\ \A i \in 1 .. Len(wire[c]) - k : w[i] = wire[c][i + k]
  BY <1>0, <1>4, LaterPart, Zenon
<1>7. rx' = [rx EXCEPT ![c] = rx[c] \o r] /\ wire' = [wire EXCEPT ![c] = w]
  BY <1>3
<1> HIDE DEF r, w
<1>8. rx'[c] = r /\ \A d \in Conn \ {c} : rx'[d] = rx[d]
  <2>1. rx[c] \o r = r
    BY <1>2, <1>5, ConcatEmptySeq
  <2>2. DOMAIN rx = Conn
    BY <1>0
  <2> QED
    BY <1>7, <2>1, <2>2, Zenon
<1>9. wire'[c] = w /\ \A d \in Conn \ {c} : wire'[d] = wire[d]
  <2>1. DOMAIN wire = Conn
    BY <1>0
  <2> QED
    BY <1>7, <2>1, Zenon
<1>10. DOMAIN r = 1 .. k /\ DOMAIN w = 1 .. Len(wire[c]) - k
  BY <1>5, <1>6
<1>W. \A i \in 1 .. Len(wire[c]) :
        /\ wire[c][i].kind = "HELLO" => i = 1 /\ name[c] = None
        /\ wire[c][i].kind \in Last => i = Len(wire[c]) /\ hello[c] = "last"
        /\ wire[c][i].kind = "JOIN" => "JOIN" \in Extra
  <2>1. \A i \in DOMAIN wire[c] : wire[c][i].kind = "HELLO" => i = 1 /\ name[c] = None
    BY Zenon DEF Queues, HelloFirst
  <2>2. \A i \in DOMAIN wire[c] :
          wire[c][i].kind \in Last => i = Len(wire[c]) /\ hello[c] = "last"
    BY Zenon DEF Queues, LastLast
  <2>3. \A i \in DOMAIN wire[c] : wire[c][i].kind = "JOIN" => "JOIN" \in Extra
    BY Zenon DEF Queues, NoJoin
  <2>4. DOMAIN wire[c] = 1 .. Len(wire[c])
    BY <1>0
  <2> QED
    BY <2>1, <2>2, <2>3, <2>4, Zenon
<1>R. \A i \in DOMAIN r : i \in 1 .. k /\ i \in 1 .. Len(wire[c]) /\ r[i] = wire[c][i]
  BY <1>4, <1>5, <1>10
<1>V. \A i \in DOMAIN w : i \in 1 .. Len(w) /\ i + k \in 1 .. Len(wire[c]) /\ i + k # 1
                          /\ w[i] = wire[c][i + k]
  BY <1>4, <1>6, <1>10
<1>11. HelloFirst'
  <2>1. \A i \in DOMAIN r : r[i].kind = "HELLO" => i = 1 /\ name[c] = None
    BY <1>W, <1>R
  <2>2. \A i \in DOMAIN w : w[i].kind # "HELLO"
    BY <1>W, <1>V
  <2> QED
    BY <1>1, <1>8, <1>9, <2>1, <2>2 DEF Queues, HelloFirst
<1>12. LastLast'
  <2>1. \A i \in DOMAIN r : r[i].kind \in Last =>
          i = Len(wire[c]) /\ hello[c] = "last"
    BY <1>W, <1>R
  <2>2. \A i \in DOMAIN r : r[i].kind \in Last => i = Len(r) /\ Len(w) = 0
    <3> SUFFICES ASSUME NEW i \in DOMAIN r, r[i].kind \in Last
                 PROVE  i = Len(r) /\ Len(w) = 0
      OBVIOUS
    <3>1. i = Len(wire[c]) /\ i \in 1 .. k /\ k \in 0 .. Len(wire[c])
      BY <1>4, <1>R, <2>1
    <3> QED
      BY <1>5, <1>6, <3>1
  <2>3. Len(w) = 0 => w = <<>>
    BY <1>6
  <2>4. \A i \in DOMAIN w : w[i].kind \in Last => i = Len(w) /\ hello[c] = "last"
    <3> SUFFICES ASSUME NEW i \in DOMAIN w, w[i].kind \in Last
                 PROVE  i = Len(w) /\ hello[c] = "last"
      OBVIOUS
    <3>1. i + k = Len(wire[c]) /\ hello[c] = "last" /\ i \in 1 .. Len(w)
      BY <1>W, <1>V
    <3> QED
      BY <1>4, <1>6, <3>1
  <2> QED
    BY <1>1, <1>8, <1>9, <2>1, <2>2, <2>3, <2>4 DEF Queues, LastLast
<1>13. NoJoin'
  <2>1. /\ \A i \in DOMAIN r : r[i].kind = "JOIN" => "JOIN" \in Extra
        /\ \A i \in DOMAIN w : w[i].kind = "JOIN" => "JOIN" \in Extra
    <3>1. ASSUME NEW i \in DOMAIN r PROVE r[i].kind = "JOIN" => "JOIN" \in Extra
      BY <1>W, <1>R
    <3>2. ASSUME NEW i \in DOMAIN w PROVE w[i].kind = "JOIN" => "JOIN" \in Extra
      BY <1>W, <1>V
    <3> QED
      BY <3>1, <3>2
  <2> QED
    BY <1>8, <1>9, <2>1 DEF Queues, NoJoin
<1>14. NewIsSilent'
  <2>1. hello[c] # "new"
    BY <1>0 DEF Queues, NewIsSilent, Recv
  <2> QED
    BY <1>1, <1>8, <1>9, <2>1 DEF Queues, NewIsSilent
<1>15. OnlyServed' /\ Unborn'
  BY <1>1, <1>2, <1>8 DEF Queues, OnlyServed, Unborn
<1> QED
  BY <1>11, <1>12, <1>13, <1>14, <1>15 DEF Queues

(* A frame is handled.                                                     *)
LEMMA QueuesHandle ==
  ASSUME TypeOK, Queues, NEW c \in Conn, NEW kind, Take(c, kind),
         hello[c] # "new" => \A d \in Conn \ {c} : name'[d] = name[d],
         UNCHANGED born,
         at' = at \/ (at' = None /\ kind \in Last),
         \/ clients' = clients
         \/ kind \in Last /\ clients \ {c} \subseteq clients',
         \A d \in Conn \ clients : partner[d] = None => partner'[d] = None
  PROVE  Queues'
<1>1. /\ at = c /\ rx[c] # <<>> /\ Head(rx[c]).kind = kind
      /\ rx' = [rx EXCEPT ![c] = Tail(@)]
      /\ UNCHANGED <<came, wire, hello>>
  BY TakeType
<1>2. rx[c] \in Seq(FromConsole) /\ rx \in [Conn -> Seq(FromConsole)]
      /\ clients \subseteq came
  BY DEF TypeOK
<1>3. c \in clients /\ hello[c] # "new" /\ \A d \in Conn \ {c} : rx[d] = <<>>
  BY <1>1 DEF Queues, OnlyServed, NewIsSilent
<1> DEFINE r == Tail(rx[c])
<1>4. r \in Seq(FromConsole) /\ Len(r) = Len(rx[c]) - 1
      /\ \A i \in 1 .. Len(r) : r[i] = rx[c][i + 1]
  BY <1>1, <1>2, HeadTailProperties, Zenon
<1>5. rx' = [rx EXCEPT ![c] = r]
  BY <1>1
<1> HIDE DEF r
<1>6. rx'[c] = r /\ \A d \in Conn \ {c} : rx'[d] = <<>>
  BY <1>2, <1>3, <1>5
<1>7. \A i \in DOMAIN r : i \in 1 .. Len(r) /\ i + 1 \in DOMAIN rx[c] /\ i + 1 # 1
                          /\ r[i] = rx[c][i + 1]
  BY <1>2, <1>4
<1>8. HelloFirst'
  <2>1. \A i \in DOMAIN r : r[i].kind # "HELLO"
    BY <1>7 DEF Queues, HelloFirst
  <2>2. \A i \in DOMAIN wire[c] : wire[c][i].kind # "HELLO"
    BY <1>1 DEF Queues, HelloFirst
  <2> QED
    BY <1>1, <1>3, <1>6, <2>1, <2>2 DEF Queues, HelloFirst
<1>9. LastLast'
  <2>1. \A i \in DOMAIN r : r[i].kind \in Last =>
          i = Len(r) /\ wire[c] = <<>> /\ hello[c] = "last"
    <3> SUFFICES ASSUME NEW i \in DOMAIN r, r[i].kind \in Last
                 PROVE  i = Len(r) /\ wire[c] = <<>> /\ hello[c] = "last"
      OBVIOUS
    <3>1. i + 1 = Len(rx[c]) /\ wire[c] = <<>> /\ hello[c] = "last"
      BY <1>7 DEF Queues, LastLast
    <3>2. Len(rx[c]) \in Nat /\ i \in Nat
      BY <1>2, <1>7
    <3> QED
      BY <1>4, <3>1, <3>2
  <2> QED
    BY <1>1, <1>6, <2>1 DEF Queues, LastLast
<1>10. NoJoin'
  BY <1>1, <1>6, <1>7 DEF Queues, NoJoin
<1>11. NewIsSilent'
  BY <1>1, <1>3, <1>6 DEF Queues, NewIsSilent
<1>12. OnlyServed'
  <2>1. CASE kind \in Last
    <3>1. Len(rx[c]) \in Nat /\ rx[c][1].kind \in Last /\ 1 \in DOMAIN rx[c]
      BY <1>1, <1>2, <2>1
    <3>2. 1 = Len(rx[c])
      BY <3>1 DEF Queues, LastLast
    <3>3. r = <<>>
      BY <1>4, <3>2
    <3> QED
      BY <1>6, <3>3 DEF OnlyServed
  <2>2. CASE kind \notin Last
    BY <1>1, <1>3, <1>6, <2>2 DEF OnlyServed
  <2> QED
    BY <2>1, <2>2
<1>13. Unborn'
  BY <1>1, <1>2 DEF Queues, Unborn
<1> QED
  BY <1>8, <1>9, <1>10, <1>11, <1>12, <1>13 DEF Queues

(* Every step keeps the queues and the matches.                            *)
LEMMA StepLoop ==
  ASSUME IInv, NEW c \in Conn,
         Accept(c) \/ Sweep(c) \/ RecvEnd(c) \/ FlushFail(c) \/ Flush(c)
         \/ ServiceDone(c) \/ HangUp(c)
  PROVE  Queues' /\ Mutual'
<1>0. TypeOK /\ Queues /\ Mutual
  BY DEF IInv
<1>1. UNCHANGED <<rx, wire, hello>> /\ came \subseteq came'
  BY DEF Accept, Sweep, RecvEnd, FlushFail, Flush, ServiceDone, HangUp, console
<1>2. CASE Accept(c)
  <2>1. /\ c \notin came /\ at' = at /\ UNCHANGED <<name, partner>>
        /\ clients' = clients \/ clients' = clients \cup {c}
    BY <1>2 DEF Accept
  <2>2. partner[c] = None
    BY <1>0, <2>1 DEF Queues, Unborn
  <2>3. Queues'
    BY <1>0, <1>1, <2>1, QueuesStill
  <2>4. Mutual'
    BY <1>0, <2>1, <2>2 DEF Mutual
  <2> QED
    BY <2>3, <2>4
<1>3. CASE \E out : Drop(c, out) /\ at = None /\ at' = at /\ came' = came
  <2>1. /\ Mutual' /\ name' = name
        /\ \A d \in Conn : partner[d] = None => partner'[d] = None
    BY <1>0, <1>3, DropMutual
  <2>2. Queues'
    BY <1>0, <1>1, <1>3, <2>1, QueuesStill
  <2> QED
    BY <2>1, <2>2
<1>4. CASE ServiceDone(c) \/ HangUp(c) \/ (UNCHANGED server /\ at' = at)
  <2>1. /\ UNCHANGED <<clients, name, partner>>
        /\ at' = at \/ (at = c /\ rx[c] = <<>>)
    BY <1>4 DEF ServiceDone, HangUp, server
  <2>2. Mutual'
    BY <1>0, <2>1 DEF Mutual
  <2>3. Queues'
    BY <1>0, <1>1, <2>1, QueuesStill
  <2> QED
    BY <2>2, <2>3
<1>5. CASE Sweep(c) \/ RecvEnd(c) \/ FlushFail(c)
  BY <1>3, <1>5 DEF Sweep, RecvEnd, FlushFail
<1>6. CASE Flush(c)
  <2>1. at = None /\ UNCHANGED <<came, at>>
        /\ ((\E out : Drop(c, out)) \/ UNCHANGED server)
    BY <1>6 DEF Flush
  <2> QED
    BY <1>3, <1>4, <2>1
<1> QED
  BY <1>2, <1>4, <1>5, <1>6

LEMMA StepSpeak ==
  ASSUME IInv, "JOIN" \notin Extra, NEW c \in Conn,
         SayHello(c) \/ SayInput(c) \/ SayExtra(c)
  PROVE  TypeOK' /\ Queues' /\ Mutual'
<1>0. TypeOK /\ Queues /\ Mutual /\ hello \in [Conn -> {"new", "said", "last"}]
      /\ told \in [Conn -> Nat] /\ asked \in [Conn -> Nat]
  BY DEF IInv, TypeOK
<1>1. PICK f :
        /\ Speak(c, f) /\ f \in FromConsole
        /\ hello' \in [Conn -> {"new", "said", "last"}]
        /\ \A d \in Conn \ {c} : hello'[d] = hello[d]
        /\ hello[c] # "last" /\ f.kind # "JOIN"
        /\ f.kind = "HELLO" => hello[c] = "new"
        /\ f.kind \in Last => hello'[c] = "last"
        /\ hello'[c] # "new"
        /\ told' \in [Conn -> Nat] /\ asked' \in [Conn -> Nat]
  <2>1. CASE SayHello(c)
    <3> DEFINE f == [kind |-> "HELLO", name |-> Asks[c]]
    <3>1. f \in FromConsole /\ f.kind = "HELLO" /\ Speak(c, f)
      BY <2>1, NamesAssumption DEF FromConsole, SayHello
    <3>2. /\ hello' = [hello EXCEPT ![c] = "said"] /\ hello[c] = "new"
          /\ UNCHANGED <<told, asked>>
      BY <2>1 DEF SayHello
    <3>3. hello' \in [Conn -> {"new", "said", "last"}] /\ hello'[c] = "said"
          /\ \A d \in Conn \ {c} : hello'[d] = hello[d]
      BY <1>0, <3>2
    <3> HIDE DEF f
    <3> QED
      BY <1>0, <3>1, <3>2, <3>3 DEF Last
  <2>2. CASE SayInput(c)
    <3> DEFINE f == Record(c, told'[c])
    <3>1. /\ told' = [told EXCEPT ![c] = @ + 1]
          /\ hello[c] = "said" /\ UNCHANGED <<hello, asked>>
          /\ Speak(c, f)
      BY <2>2 DEF SayInput
    <3>2. told' \in [Conn -> Nat] /\ told'[c] \in Nat
      BY <1>0, <3>1
    <3>3. f \in FromConsole /\ f.kind = "INPUT"
      BY <3>2 DEF FromConsole, Record
    <3> HIDE DEF f
    <3> QED
      BY <1>0, <3>1, <3>2, <3>3 DEF Last
  <2>3. CASE SayExtra(c)
    <3>1. PICK k \in Extra :
            /\ hello[c] = IF k \in {"REFUSED", "BAD"} THEN "new" ELSE "said"
            /\ hello' = IF k \in {"REFUSED", "BAD", "BYE"}
                        THEN [hello EXCEPT ![c] = "last"] ELSE hello
            /\ Speak(c, [kind |-> k])
      BY <2>3 DEF SayExtra
    <3> DEFINE f == [kind |-> k]
    <3>2. k \in {"REFUSED", "BAD", "LIST", "PING", "BYE", "OTHER"}
      BY ExtraAssumption
    <3>3. f \in FromConsole /\ f.kind = k /\ Speak(c, f)
      BY <3>1, <3>2 DEF FromConsole
    <3>4. asked' \in [Conn -> Nat] /\ told' = told
      BY <1>0, <2>3 DEF SayExtra
    <3> HIDE DEF f
    <3>5. CASE k \in Last
      <4>1. hello' = [hello EXCEPT ![c] = "last"]
        BY <3>1, <3>5 DEF Last
      <4>2. hello' \in [Conn -> {"new", "said", "last"}] /\ hello'[c] = "last"
            /\ \A d \in Conn \ {c} : hello'[d] = hello[d]
        BY <1>0, <4>1
      <4>3. hello[c] # "last" /\ k # "JOIN" /\ k # "HELLO"
        BY <3>1, <3>2
      <4> QED
        BY <1>0, <3>3, <3>4, <4>2, <4>3
    <3>6. CASE k \notin Last
      <4>1. hello' = hello /\ hello[c] = "said" /\ k # "JOIN" /\ k # "HELLO"
        BY <3>1, <3>2, <3>6 DEF Last
      <4> QED
        BY <1>0, <3>3, <3>4, <3>6, <4>1
    <3> QED
      BY <3>5, <3>6
  <2> QED
    BY <2>1, <2>2, <2>3
<1>2. /\ wire' \in [Conn -> Seq(FromConsole)]
      /\ UNCHANGED <<came, clients, born, name, by_name, partner, curplayers,
                     rx, tx, at, shut, got>>
  BY <1>0, <1>1, SpeakType
<1>3. TypeOK'
  BY <1>0, <1>1, <1>2 DEF TypeOK
<1>4. Queues'
  BY <1>0, <1>1, QueuesSpeak
<1>5. Mutual'
  BY <1>0, <1>2 DEF Mutual
<1> QED
  BY <1>3, <1>4, <1>5

LEMMA StepHandle ==
  ASSUME IInv, NEW c \in Conn,
         \/ BadLength(c) \/ Forward(c) \/ OnHello(c) \/ Refuse(c)
         \/ SendLobby(c) \/ Ping(c) \/ Bye(c) \/ Unknown(c)
  PROVE  Queues' /\ Mutual'
<1>0. TypeOK /\ Queues /\ Mutual
  BY DEF IInv
<1>1. CASE BadLength(c) \/ Refuse(c) \/ Bye(c)
  <2>1. /\ Drop(c, tx) /\ (at' = at \/ at' = None)
        /\ \E kind \in Last : Take(c, kind)
    BY <1>1 DEF BadLength, Refuse, Bye, Last
  <2>2. /\ Mutual' /\ name' = name /\ clients \ {c} \subseteq clients'
        /\ \A d \in Conn : partner[d] = None => partner'[d] = None
    BY <1>0, <2>1, DropMutual
  <2>3. UNCHANGED born
    BY <2>1 DEF Drop, server
  <2>4. Queues'
    BY <1>0, <2>1, <2>2, <2>3, QueuesHandle
  <2> QED
    BY <2>2, <2>4
<1>2. CASE Forward(c) \/ SendLobby(c) \/ Ping(c) \/ Unknown(c)
  <2>1. UNCHANGED <<clients, born, name, partner, at>> /\ \E kind : Take(c, kind)
    BY <1>2 DEF Forward, SendLobby, Ping, Unknown, server
  <2>2. Mutual'
    BY <1>0, <2>1 DEF Mutual
  <2>3. Queues'
    BY <1>0, <2>1, QueuesHandle
  <2> QED
    BY <2>2, <2>3
<1>3. CASE OnHello(c)
  <2>1. Take(c, "HELLO") /\ TryPair(c, name') /\ UNCHANGED <<clients, born, at>>
    BY <1>3 DEF OnHello
  <2>2. Head(rx[c]) \in FromConsole /\ Head(rx[c]).kind = "HELLO" /\ rx[c] # <<>>
    BY <1>0, <2>1, TakeType
  <2>3. PICK n \in Free(Head(rx[c]).name) : name' = [name EXCEPT ![c] = n]
    BY <1>3 DEF OnHello
  <2>4. n \in Name
    BY <2>2, <2>3, HelloFrame, NamesAssumption DEF Free
  <2>5. /\ name' \in [Conn -> Name \cup {None}] /\ name'[c] # None
        /\ \A d \in Conn \ {c} : name'[d] = name[d]
    BY <1>0, <2>3, <2>4, NoneAssumption DEF TypeOK
  <2>6. c \in clients /\ name[c] = None
    <3>1. 1 \in DOMAIN rx[c] /\ rx[c][1].kind = "HELLO"
      BY <1>0, <2>2 DEF TypeOK
    <3> QED
      BY <1>0, <2>2, <3>1 DEF Queues, HelloFirst, OnlyServed
  <2>7. partner[c] = None
    BY <1>0, <2>6 DEF Mutual
  <2>8. Mutual' /\ \A d \in Conn \ clients : partner[d] = None => partner'[d] = None
    BY <1>0, <2>1, <2>5, <2>6, <2>7, PairMutual
  <2>9. Queues'
    BY <1>0, <2>1, <2>5, <2>8, QueuesHandle
  <2> QED
    BY <2>8, <2>9
<1> QED
  BY <1>1, <1>2, <1>3

-----------------------------------------------------------------------------
(* Theorems, for consoles that never send JOIN (none of the ROM's do).     *)

LEMMA Inductive ==
  ASSUME IInv, "JOIN" \notin Extra, [Next]_vars
  PROVE  IInv'
<1>0. TypeOK /\ Queues /\ Mutual
  BY DEF IInv
<1>1. CASE UNCHANGED vars
  <2>1. TypeOK'
    BY <1>0, <1>1 DEF vars, server, console, TypeOK
  <2>2. Queues'
    BY <1>0, <1>1 DEF vars, server, console, Queues, HelloFirst, LastLast, NewIsSilent,
                      OnlyServed, NoJoin, Unborn
  <2>3. Mutual'
    BY <1>0, <1>1 DEF vars, server, Mutual
  <2> QED
    BY <2>1, <2>2, <2>3 DEF IInv
<1>2. CASE Next
  <2>1. PICK c \in Conn :
          Accept(c) \/ Sweep(c) \/ Receive(c) \/ Service(c) \/ Send(c) \/ User(c)
    BY <1>2 DEF Next
  <2>2. ~OnJoin(c)
    <3> SUFFICES ASSUME OnJoin(c) PROVE FALSE
      OBVIOUS
    <3>1. rx[c] # <<>> /\ Head(rx[c]).kind = "JOIN"
      BY DEF OnJoin, Take
    <3>2. 1 \in DOMAIN rx[c] /\ rx[c][1].kind = "JOIN"
      BY <1>0, <3>1 DEF TypeOK
    <3> QED
      BY <1>0, <3>2 DEF Queues, NoJoin
  <2>3. CASE Accept(c) \/ Sweep(c) \/ RecvEnd(c) \/ FlushFail(c) \/ ServiceDone(c)
    BY <1>0, <2>3, TypeLoop, StepLoop DEF IInv
  <2>4. CASE Flush(c)
    BY <1>0, <2>4, TypeSocket, StepLoop DEF IInv
  <2>5. CASE Recv(c)
    <3>1. UNCHANGED <<clients, name, partner>>
      BY <2>5 DEF Recv, server
    <3>2. Mutual'
      BY <1>0, <3>1 DEF Mutual
    <3> QED
      BY <1>0, <2>5, <3>2, TypeSocket, QueuesRecv DEF IInv
  <2>6. CASE HangUp(c)
    <3>1. TypeOK'
      BY <1>0, <2>6 DEF HangUp, server, TypeOK
    <3> QED
      BY <2>6, <3>1, StepLoop DEF IInv
  <2>7. CASE SayHello(c) \/ SayInput(c) \/ SayExtra(c)
    BY <2>7, StepSpeak DEF IInv
  <2>8. CASE \/ BadLength(c) \/ Forward(c) \/ OnHello(c) \/ Refuse(c)
             \/ SendLobby(c) \/ Ping(c) \/ Bye(c) \/ Unknown(c)
    BY <1>0, <2>2, <2>8, TypeHandle, StepHandle DEF IInv
  <2> QED
    BY <2>1, <2>2, <2>3, <2>4, <2>5, <2>6, <2>7, <2>8 DEF Receive, Service, Send, User
<1> QED
  BY <1>1, <1>2

(* The inductive invariant holds: HELLO comes first, the end last, the     *)
(* frames left are those of a client being served, matches are whole.      *)
THEOREM RelayInvariance ==
  ASSUME "JOIN" \notin Extra
  PROVE  Spec => []IInv
<1>1. Init => IInv
  BY TypeInit, QueuesInit DEF IInv
<1>2. IInv /\ [Next]_vars => IInv'
  BY Inductive
<1> QED
  BY <1>1, <1>2, PTL DEF Spec

(* Every variable of the relay keeps its type.                             *)
THEOREM RelayTypes ==
  ASSUME "JOIN" \notin Extra
  PROVE  Spec => []TypeOK
<1>1. IInv => TypeOK
  BY DEF IInv
<1> QED
  BY <1>1, RelayInvariance, PTL

(* A client's partner (vo_relay_server.py, Client.partner) is always       *)
(* another client, named, and has this client for its partner.             *)
THEOREM MatchesHaveTwoEnds ==
  ASSUME "JOIN" \notin Extra
  PROVE  Spec => []Mutual
<1>1. IInv => Mutual
  BY DEF IInv
<1> QED
  BY <1>1, RelayInvariance, PTL


-----------------------------------------------------------------------------
(* Names.                                                                  *)

(* As many names are taken as there are clients with one.                  *)
LEMMA NamesCount ==
  ASSUME NEW table \in [Name -> Conn \cup {None}], NEW names \in [Conn -> Name \cup {None}],
         NEW here \in SUBSET Conn,
         \A n \in Name : table[n] # None <=> \E c \in here : names[c] = n,
         \A c \in here : names[c] # None => table[names[c]] = c
  PROVE  Listed(table) = Cardinality({c \in here : names[c] # None})
<1> DEFINE S == {c \in here : names[c] # None}
           T == {n \in Name : table[n] # None}
           f == [c \in S |-> names[c]]
<1>1. f \in [S -> T]
  <2>1. \A c \in S : names[c] \in Name /\ table[names[c]] # None
    OBVIOUS
  <2> QED
    BY <2>1
<1>2. \A c, d \in S : f[c] = f[d] => c = d
  OBVIOUS
<1>3. \A n \in T : \E c \in S : f[c] = n
  BY NoneAssumption
<1>4. f \in Bijection(S, T)
  <2> HIDE DEF S, T, f
  <2> QED
    BY <1>1, <1>2, <1>3 DEF Bijection, Injection, IsInjective, Surjection
<1>5. IsFiniteSet(S)
  BY FiniteAssumption, FS_Subset
<1>6. Cardinality(T) = Cardinality(S)
  <2> HIDE DEF S, T, f
  <2>1. ExistsBijection(S, T)
    BY <1>4 DEF ExistsBijection
  <2> QED
    BY <1>5, <2>1, FS_Bijection
<1> QED
  BY <1>6 DEF Listed

(* A name stands in the table for one client only.                         *)
LEMMA NamedOnce ==
  ASSUME TypeOK, NamesTell, NEW n \in Name, NEW c \in Conn, by_name[n] = c
  PROVE  c \in clients /\ name[c] = n
<1>1. by_name[n] # None
  BY NoneAssumption
<1>2. PICK d \in clients : name[d] = n
  BY <1>1 DEF NamesTell
<1>3. by_name[n] = d
  BY <1>2, NoneAssumption DEF NamesTell
<1> QED
  BY <1>2, <1>3

LEMMA DropNames ==
  ASSUME TypeOK, NamesTell, NEW c \in Conn, NEW out, Drop(c, out)
  PROVE  NamesTell'
<1>1. CASE ~Here(c)
  BY <1>1 DEF Drop, server, NamesTell
<1>2. CASE Here(c)
  <2>1. /\ clients' = clients \ {c} /\ name' = name /\ curplayers' = Listed(by_name')
        /\ by_name' = [n \in Name |-> IF n = name[c] /\ by_name[n] = c THEN None ELSE by_name[n]]
    BY <1>2 DEF Drop
  <2>2. \A n \in Name : by_name'[n] = IF by_name[n] = c THEN None ELSE by_name[n]
    BY <2>1, NamedOnce
  <2>3. \A n \in Name : by_name'[n] # None <=> \E d \in clients' : name'[d] = n
    <3> SUFFICES ASSUME NEW n \in Name
                 PROVE  by_name'[n] # None <=> \E d \in clients \ {c} : name[d] = n
      BY <2>1
    <3>1. ASSUME by_name'[n] # None PROVE \E d \in clients \ {c} : name[d] = n
      <4>1. by_name[n] # None /\ by_name[n] # c
        BY <2>2, <3>1
      <4>2. by_name[n] \in Conn
        BY <4>1 DEF TypeOK
      <4>3. by_name[n] \in clients /\ name[by_name[n]] = n
        BY <4>2, NamedOnce
      <4> QED
        BY <4>1, <4>3
    <3>2. ASSUME NEW d \in clients \ {c}, name[d] = n PROVE by_name'[n] # None
      <4>1. by_name[n] = d /\ d # None
        BY <3>2, NoneAssumption DEF NamesTell, TypeOK
      <4> QED
        BY <2>2, <3>2, <4>1
    <3> QED
      BY <3>1, <3>2
  <2>4. \A d \in clients' : name'[d] # None => by_name'[name'[d]] = d
    <3> SUFFICES ASSUME NEW d \in clients \ {c}, name[d] # None PROVE by_name'[name[d]] = d
      BY <2>1
    <3>1. name[d] \in Name /\ by_name[name[d]] = d
      BY DEF NamesTell, TypeOK
    <3> QED
      BY <2>2, <3>1
  <2>5. by_name' \in [Name -> Conn \cup {None}] /\ clients' \in SUBSET Conn
        /\ name' \in [Conn -> Name \cup {None}]
    BY <2>1 DEF TypeOK
  <2>6. curplayers' = Cardinality({d \in clients' : name'[d] # None})
    BY <2>1, <2>3, <2>4, <2>5, NamesCount
  <2> QED
    BY <2>3, <2>4, <2>6 DEF NamesTell
<1> QED
  BY <1>1, <1>2

LEMMA HelloNames ==
  ASSUME TypeOK, Queues, NamesTell, NEW c \in Conn, OnHello(c)
  PROVE  NamesTell'
<1>1. Take(c, "HELLO") /\ UNCHANGED clients /\ curplayers' = Listed(by_name')
  BY DEF OnHello
<1>2. Head(rx[c]) \in FromConsole /\ Head(rx[c]).kind = "HELLO" /\ rx[c] # <<>>
  BY <1>1, TakeType
<1>3. PICK n \in Free(Head(rx[c]).name) :
        name' = [name EXCEPT ![c] = n] /\ by_name' = [by_name EXCEPT ![n] = c]
  BY DEF OnHello
<1>4. n \in Name /\ by_name[n] = None
  BY <1>2, <1>3, HelloFrame, NamesAssumption DEF Free
<1>5. c \in clients /\ name[c] = None
  <2>1. 1 \in DOMAIN rx[c] /\ rx[c][1].kind = "HELLO"
    BY <1>2 DEF TypeOK
  <2> QED
    BY <1>2, <2>1 DEF Queues, HelloFirst, OnlyServed
<1>6. /\ name' \in [Conn -> Name \cup {None}] /\ by_name' \in [Name -> Conn \cup {None}]
      /\ name'[c] = n /\ \A d \in Conn \ {c} : name'[d] = name[d]
      /\ by_name'[n] = c /\ \A m \in Name \ {n} : by_name'[m] = by_name[m]
  BY <1>3, <1>4 DEF TypeOK
<1>7. \A m \in Name : by_name'[m] # None <=> \E d \in clients' : name'[d] = m
  <2> SUFFICES ASSUME NEW m \in Name
               PROVE  by_name'[m] # None <=> \E d \in clients : name'[d] = m
    BY <1>1
  <2>1. CASE m = n
    <3>1. by_name'[m] = c /\ c # None
      BY <1>6, <2>1, NoneAssumption
    <3> QED
      BY <1>5, <1>6, <2>1, <3>1
  <2>2. CASE m # n
    <3>1. by_name'[m] = by_name[m]
      BY <1>6, <2>2
    <3>2. \A d \in clients : name'[d] = m <=> name[d] = m
      BY <1>5, <1>6, <2>2, NoneAssumption DEF TypeOK
    <3> QED
      BY <3>1, <3>2 DEF NamesTell
  <2> QED
    BY <2>1, <2>2
<1>8. \A d \in clients' : name'[d] # None => by_name'[name'[d]] = d
  <2> SUFFICES ASSUME NEW d \in clients, name'[d] # None PROVE by_name'[name'[d]] = d
    BY <1>1
  <2>1. CASE d = c
    BY <1>6, <2>1
  <2>2. CASE d # c
    <3>1. name'[d] = name[d] /\ name[d] \in Name
      BY <1>6, <2>2 DEF TypeOK
    <3>2. by_name[name[d]] = d /\ d # None
      BY <3>1, NoneAssumption DEF NamesTell, TypeOK
    <3>3. name[d] # n
      BY <1>4, <3>2
    <3> QED
      BY <1>6, <3>1, <3>2, <3>3
  <2> QED
    BY <2>1, <2>2
<1>9. curplayers' = Cardinality({d \in clients' : name'[d] # None})
  <2>1. clients' \in SUBSET Conn
    BY <1>1 DEF TypeOK
  <2> QED
    BY <1>1, <1>6, <1>7, <1>8, <2>1, NamesCount
<1> QED
  BY <1>7, <1>8, <1>9 DEF NamesTell


-----------------------------------------------------------------------------
(* Meeting.                                                                *)

Started(s) == \E i \in DOMAIN s : s[i].kind = "START"

LEMMA StartedConcat ==
  ASSUME NEW S, NEW a \in Seq(S), NEW b \in Seq(S)
  PROVE  Started(a \o b) <=> Started(a) \/ Started(b)
<1>1. /\ DOMAIN a = 1 .. Len(a) /\ DOMAIN b = 1 .. Len(b)
      /\ DOMAIN (a \o b) = 1 .. Len(a) + Len(b) /\ Len(a) \in Nat /\ Len(b) \in Nat
  BY ConcatProperties
<1>2. \A i \in 1 .. Len(a) : (a \o b)[i] = a[i] /\ i \in 1 .. Len(a) + Len(b)
  BY <1>1, ConcatProperties
<1>3. \A i \in 1 .. Len(b) : (a \o b)[Len(a) + i] = b[i] /\ Len(a) + i \in 1 .. Len(a) + Len(b)
  BY <1>1, ConcatProperties
<1>4. Started(a) \/ Started(b) => Started(a \o b)
  BY <1>1, <1>2, <1>3 DEF Started
<1>5. ASSUME NEW i \in 1 .. Len(a) + Len(b), (a \o b)[i].kind = "START"
      PROVE  Started(a) \/ Started(b)
  <2>1. CASE i \in 1 .. Len(a)
    BY <1>1, <1>2, <1>5, <2>1 DEF Started
  <2>2. CASE i \notin 1 .. Len(a)
    <3>1. i - Len(a) \in 1 .. Len(b) /\ Len(a) + (i - Len(a)) = i
      BY <1>1, <2>2
    <3>2. b[i - Len(a)].kind = "START"
      BY <1>3, <1>5, <3>1
    <3> QED
      BY <1>1, <3>1, <3>2 DEF Started
  <2> QED
    BY <2>1, <2>2
<1> QED
  BY <1>1, <1>4, <1>5 DEF Started

LEMMA StartedAppend ==
  ASSUME NEW S, NEW a \in Seq(S), NEW f \in S
  PROVE  Started(Append(a, f)) <=> Started(a) \/ f.kind = "START"
<1>1. /\ DOMAIN a = 1 .. Len(a) /\ DOMAIN Append(a, f) = 1 .. Len(a) + 1 /\ Len(a) \in Nat
      /\ Append(a, f)[Len(a) + 1] = f /\ \A i \in 1 .. Len(a) : Append(a, f)[i] = a[i]
  BY AppendProperties
<1> QED
  BY <1>1 DEF Started

LEMMA StartedParts ==
  ASSUME NEW S, NEW a \in Seq(S), NEW k \in 0 .. Len(a)
  PROVE  /\ Started(a) <=> Started(SubSeq(a, 1, k)) \/ Started(SubSeq(a, k + 1, Len(a)))
         /\ SubSeq(a, 1, k) \in Seq(S) /\ SubSeq(a, k + 1, Len(a)) \in Seq(S)
<1>1. /\ SubSeq(a, 1, k) \in Seq(S) /\ Len(SubSeq(a, 1, k)) = k
      /\ \A i \in 1 .. k : SubSeq(a, 1, k)[i] = a[i]
  BY FirstPart
<1>2. /\ SubSeq(a, k + 1, Len(a)) \in Seq(S) /\ Len(SubSeq(a, k + 1, Len(a))) = Len(a) - k
      /\ \A i \in 1 .. Len(a) - k : SubSeq(a, k + 1, Len(a))[i] = a[k + i]
  BY LaterPart
<1> DEFINE l == SubSeq(a, 1, k)
           r == SubSeq(a, k + 1, Len(a))
<1>3. DOMAIN l = 1 .. k /\ DOMAIN r = 1 .. Len(a) - k /\ DOMAIN a = 1 .. Len(a) /\ Len(a) \in Nat
  BY <1>1, <1>2
<1>4. ASSUME NEW i \in 1 .. Len(a), a[i].kind = "START"
      PROVE  Started(l) \/ Started(r)
  <2>1. CASE i \in 1 .. k
    BY <1>1, <1>3, <1>4, <2>1 DEF Started
  <2>2. CASE i \notin 1 .. k
    <3>1. i - k \in 1 .. Len(a) - k /\ k + (i - k) = i
      BY <1>3, <2>2
    <3>2. r[i - k] = a[k + (i - k)]
      BY <1>2, <3>1, Zenon
    <3>3. r[i - k].kind = "START"
      BY <1>4, <3>1, <3>2, Zenon
    <3> QED
      BY <1>3, <3>1, <3>3, Zenon DEF Started
  <2> QED
    BY <2>1, <2>2
<1>5. Started(l) \/ Started(r) => Started(a)
  <2>1. \A i \in 1 .. k : i \in 1 .. Len(a)
    BY <1>3
  <2>2. \A i \in 1 .. Len(a) - k : k + i \in 1 .. Len(a)
    BY <1>3
  <2> QED
    BY <1>1, <1>2, <1>3, <2>1, <2>2 DEF Started
<1>6. Started(a) => Started(l) \/ Started(r)
  BY <1>3, <1>4 DEF Started
<1> QED
  BY <1>1, <1>2, <1>5, <1>6


(* A console was told of a match, and stays told.                          *)
Told(c)  == Started(got[c]) \/ Started(tx[c])
KeepTold == \A c \in Conn : Told(c) => Told(c)'

LEMMA MetIsTold == TypeOK => \A d \in Conn : Met(d) <=> Told(d)
<1> SUFFICES ASSUME TypeOK, NEW c \in Conn PROVE Met(c) <=> Told(c)
  OBVIOUS
<1>1. got[c] \in Seq(ToConsole) /\ tx[c] \in Seq(ToConsole)
  BY DEF TypeOK
<1>2. Started(got[c] \o tx[c]) <=> Told(c)
  BY <1>1, StartedConcat DEF Told
<1> QED
  BY <1>2 DEF Started, Met, Stream

(* One more frame in a buffer takes no START away.                         *)
LEMMA AppendKeeps ==
  ASSUME NEW q \in [Conn -> Seq(ToConsole)], NEW c \in Conn, NEW f \in ToConsole
  PROVE  \A d \in Conn : Started(q[d]) => Started([q EXCEPT ![c] = Append(@, f)][d])
<1> TAKE d \in Conn
<1>1. CASE d = c
  <2>1. q[c] \in Seq(ToConsole)
    OBVIOUS
  <2> QED
    BY <1>1, <2>1, StartedAppend
<1>2. CASE d # c
  BY <1>2
<1> QED
  BY <1>1, <1>2

LEMMA DropKeeps ==
  ASSUME TypeOK, NEW c \in Conn, NEW out \in [Conn -> Seq(ToConsole)], Drop(c, out)
  PROVE  \A d \in Conn : Started(out[d]) => Started(tx'[d])
<1>1. CASE tx' = out
  BY <1>1
<1>2. CASE partner[c] # None /\ tx' = [out EXCEPT ![partner[c]] = Append(@, PeerLeft)]
  <2>1. partner[c] \in Conn
    BY <1>2 DEF TypeOK
  <2> QED
    BY <1>2, <2>1, AppendKeeps, RelayFrames
<1> QED
  BY <1>1, <1>2 DEF Drop

(* A step that pairs nobody leaves at most those waiting that were.        *)
LEMMA MeetStill ==
  ASSUME TypeOK, TypeOK', PairedHaveMet, OneWaits, KeepTold,
         \A d \in clients' \ clients : name'[d] = None /\ partner'[d] = None,
         \A d \in clients' : name'[d] # None => name[d] # None,
         \A d \in clients' : partner'[d] # None => partner[d] # None
  PROVE  PairedHaveMet' /\ OneWaits'
<1>1. clients \subseteq Conn /\ clients' \subseteq Conn
  BY DEF TypeOK
<1>2. \A c \in Conn : Met(c) <=> Told(c)
  BY MetIsTold
<1>3. TypeOK' => (\A d \in Conn : Met(d) <=> Told(d))'
  BY MetIsTold, PTL
<1>4. \A c \in Conn : Met(c) => Met(c)'
  BY <1>2, <1>3 DEF KeepTold
<1>5. PairedHaveMet'
  BY <1>1, <1>4 DEF PairedHaveMet
<1>6. Waiting' \subseteq Waiting
  BY <1>1, <1>4 DEF Waiting
<1>7. OneWaits'
  BY <1>6 DEF OneWaits
<1> QED
  BY <1>5, <1>7

(* The step that pairs: whoever waited was idle, and now is in a match, or *)
(* is the only one.                                                        *)
LEMMA MeetPair ==
  ASSUME TypeOK, TypeOK', PairedHaveMet, OneWaits, NEW c \in clients,
         NEW names \in [Conn -> Name \cup {None}], names[c] \in Name,
         \A d \in Conn \ {c} : names[d] = name[d],
         TryPair(c, names), UNCHANGED <<clients, got>>, name' = names, partner[c] = None
  PROVE  PairedHaveMet' /\ OneWaits'
<1>1. clients \subseteq Conn
  BY DEF TypeOK
<1>2. \A d \in Conn : Met(d) <=> Told(d)
  BY MetIsTold
<1>3. TypeOK' => (\A d \in Conn : Met(d) <=> Told(d))'
  BY MetIsTold, PTL
<1>4. CASE Idle(names, c) = {}
  <2>1. partner' = partner /\ tx' = tx /\ got' = got
    BY <1>4 DEF TryPair
  <2>2. \A d \in Conn : Met(d)' <=> Met(d)
    BY <2>1 DEF Met, Stream
  <2>3. PairedHaveMet'
    BY <1>1, <2>1, <2>2 DEF PairedHaveMet
  <2>4. \A d \in Waiting' : d = c
    <3> SUFFICES ASSUME NEW d \in Waiting', d # c PROVE FALSE
      OBVIOUS
    <3>1. d \in clients /\ names[d] # None /\ ~Met(d)
      BY <1>1, <2>2 DEF Waiting
    <3>2. partner[d] = None
      BY <3>1 DEF PairedHaveMet
    <3>3. d \in Idle(names, c)
      BY <3>1, <3>2 DEF Idle
    <3> QED
      BY <1>4, <3>3
  <2> QED
    BY <2>3, <2>4 DEF OneWaits
<1>5. CASE Idle(names, c) # {}
  <2>h. PICK host \in Idle(names, c) : host = Oldest(Idle(names, c))
    BY <1>5, OldestIdle
  <2>1. host \in clients \ {c} /\ names[host] \in Name
    BY <1>1, <2>h DEF Idle
  <2>2. /\ partner' = [partner EXCEPT ![host] = c, ![c] = host]
        /\ tx' = [tx EXCEPT ![host] = Append(@, Start("host", names[c])),
                            ![c]    = Append(@, Start("guest", names[host]))]
    BY <1>5, <2>h DEF TryPair
  <2>3. /\ tx'[host] = Append(tx[host], Start("host", names[c]))
        /\ tx'[c] = Append(tx[c], Start("guest", names[host]))
        /\ \A d \in Conn \ {c, host} : tx'[d] = tx[d] /\ partner'[d] = partner[d]
    BY <1>1, <2>1, <2>2 DEF TypeOK
  <2>4. Start("host", names[c]) \in ToConsole /\ Start("guest", names[host]) \in ToConsole
    BY <2>1, RelayFrames
  <2>5. Started(tx'[host]) /\ Started(tx'[c])
    <3>1. tx[host] \in Seq(ToConsole) /\ tx[c] \in Seq(ToConsole)
      BY <1>1, <2>1 DEF TypeOK
    <3>2. Start("host", names[c]).kind = "START" /\ Start("guest", names[host]).kind = "START"
      BY DEF Start
    <3> QED
      BY <2>3, <2>4, <3>1, <3>2, StartedAppend
  <2>6. Met(c)' /\ Met(host)' /\ \A d \in Conn \ {c, host} : Told(d)' <=> Told(d)
    <3>1. Told(c)' /\ Told(host)' /\ \A d \in Conn \ {c, host} : Told(d)' <=> Told(d)
      BY <2>3, <2>5 DEF Told
    <3> QED
      BY <1>1, <1>3, <2>1, <3>1
  <2>7. \A d \in clients : Met(d) => Met(d)'
    BY <1>1, <1>2, <1>3, <2>6
  <2>8. PairedHaveMet'
    BY <1>1, <2>3, <2>6, <2>7 DEF PairedHaveMet
  <2>9. Waiting' \subseteq Waiting
    <3> SUFFICES ASSUME NEW d \in Waiting' PROVE d \in Waiting
      OBVIOUS
    <3>1. d \in clients /\ names[d] # None /\ ~Met(d)'
      BY DEF Waiting
    <3>2. d # c /\ d # host
      BY <2>6, <3>1
    <3> QED
      BY <1>1, <2>7, <3>1, <3>2 DEF Waiting
  <2> QED
    BY <2>8, <2>9 DEF OneWaits
<1> QED
  BY <1>4, <1>5


(* What a step does to the buffers: it puts frames at their ends, or moves *)
(* some to the console; so nobody is untold of a match.                    *)
LEMMA FlushKeeps ==
  ASSUME TypeOK, TypeOK', NEW c \in Conn, Flush(c)
  PROVE  KeepTold
<1>1. PICK k \in 0 .. Len(tx[c]) :
        LET out == [tx EXCEPT ![c] = SubSeq(@, k + 1, Len(@))]
        IN  /\ got' = [got EXCEPT ![c] = @ \o SubSeq(tx[c], 1, k)]
            /\ Drop(c, out) \/ tx' = out
  BY DEF Flush
<1> DEFINE out == [tx EXCEPT ![c] = SubSeq(@, k + 1, Len(@))]
<1>2. tx \in [Conn -> Seq(ToConsole)] /\ got \in [Conn -> Seq(ToConsole)]
  BY DEF TypeOK
<1>3. /\ Started(tx[c]) <=> Started(SubSeq(tx[c], 1, k)) \/ Started(SubSeq(tx[c], k + 1, Len(tx[c])))
      /\ SubSeq(tx[c], 1, k) \in Seq(ToConsole) /\ SubSeq(tx[c], k + 1, Len(tx[c])) \in Seq(ToConsole)
  <2>1. tx[c] \in Seq(ToConsole)
    BY <1>2
  <2> QED
    BY <2>1, StartedParts
<1>4. out \in [Conn -> Seq(ToConsole)]
  BY <1>2, <1>3
<1>5. out[c] = SubSeq(tx[c], k + 1, Len(tx[c])) /\ \A d \in Conn \ {c} : out[d] = tx[d]
  BY <1>2
<1>6. /\ got'[c] = got[c] \o SubSeq(tx[c], 1, k)
      /\ \A d \in Conn \ {c} : got'[d] = got[d]
  BY <1>1, <1>2
<1>7. Started(got'[c]) <=> Started(got[c]) \/ Started(SubSeq(tx[c], 1, k))
  <2>1. got[c] \in Seq(ToConsole)
    BY <1>2
  <2>2. Started(got[c] \o SubSeq(tx[c], 1, k)) <=> Started(got[c]) \/ Started(SubSeq(tx[c], 1, k))
    <3> DEFINE r == SubSeq(tx[c], 1, k)
    <3>1. r \in Seq(ToConsole)
      BY <1>3
    <3> HIDE DEF r
    <3>2. Started(got[c] \o r) <=> Started(got[c]) \/ Started(r)
      BY <2>1, <3>1, StartedConcat
    <3> QED
      BY <3>2 DEF r
  <2> QED
    BY <1>6, <2>2
<1>8. \A d \in Conn : Started(out[d]) => Started(tx'[d])
  <2> HIDE DEF out
  <2>1. CASE tx' = out
    BY <2>1
  <2>2. CASE Drop(c, out)
    BY <1>4, <2>2, DropKeeps
  <2>3. Drop(c, out) \/ tx' = out
    BY <1>1 DEF out
  <2> QED
    BY <2>1, <2>2, <2>3
<1> HIDE DEF out
<1> QED
  BY <1>3, <1>5, <1>6, <1>7, <1>8 DEF KeepTold, Told

LEMMA ToldKept ==
  ASSUME TypeOK, UNCHANGED got, \A d \in Conn : Started(tx[d]) => Started(tx'[d])
  PROVE  KeepTold
BY DEF KeepTold, Told

(* Steps that move neither a name nor a match.                             *)
LEMMA RelayStill ==
  ASSUME RelayInv, TypeOK', KeepTold, UNCHANGED <<clients, name, by_name, partner, curplayers>>
  PROVE  NamesTell' /\ PairedHaveMet' /\ OneWaits'
<1>1. TypeOK
  BY DEF RelayInv, IInv
<1>2. NamesTell'
  BY DEF RelayInv, NamesTell
<1>3. PairedHaveMet' /\ OneWaits'
  BY <1>1, MeetStill DEF RelayInv
<1> QED
  BY <1>2, <1>3

LEMMA RelayDrop ==
  ASSUME RelayInv, TypeOK', KeepTold, NEW c \in Conn, NEW out, Drop(c, out)
  PROVE  NamesTell' /\ PairedHaveMet' /\ OneWaits'
<1>1. TypeOK /\ Mutual /\ NamesTell
  BY DEF RelayInv, IInv
<1>2. NamesTell'
  BY <1>1, DropNames
<1>3. clients' \subseteq clients
  BY DEF Drop, server
<1>4. name' = name /\ \A d \in Conn : partner[d] = None => partner'[d] = None
  BY <1>1, DropMutual
<1>5. clients' \subseteq Conn
  BY DEF TypeOK
<1>6. PairedHaveMet' /\ OneWaits'
  BY <1>1, <1>3, <1>4, <1>5, MeetStill DEF RelayInv
<1> QED
  BY <1>2, <1>6

LEMMA RelayInductive ==
  ASSUME RelayInv, "JOIN" \notin Extra, [Next]_vars
  PROVE  RelayInv'
<1>1. IInv /\ TypeOK /\ Queues /\ Mutual /\ NamesTell /\ PairedHaveMet /\ OneWaits
  BY DEF RelayInv, IInv
<1>2. IInv' /\ TypeOK'
  <2>1. IInv'
    BY <1>1, Inductive
  <2> QED
    BY <2>1 DEF IInv
<1>3. SUFFICES NamesTell' /\ PairedHaveMet' /\ OneWaits'
  BY <1>2 DEF RelayInv
<1>4. CASE UNCHANGED vars
  <2>1. UNCHANGED <<clients, name, by_name, partner, curplayers, got, tx>>
    BY <1>4 DEF vars, server
  <2>2. KeepTold
    BY <1>1, <2>1, ToldKept
  <2> QED
    BY <1>2, <2>1, <2>2, RelayStill
<1>5. CASE Next
  <2>1. PICK c \in Conn :
          Accept(c) \/ Sweep(c) \/ Receive(c) \/ Service(c) \/ Send(c) \/ User(c)
    BY <1>5 DEF Next
  <2>2. ~OnJoin(c)
    <3> SUFFICES ASSUME OnJoin(c) PROVE FALSE
      OBVIOUS
    <3>1. rx[c] # <<>> /\ Head(rx[c]).kind = "JOIN"
      BY DEF OnJoin, Take
    <3>2. 1 \in DOMAIN rx[c] /\ rx[c][1].kind = "JOIN"
      BY <1>1, <3>1 DEF TypeOK
    <3> QED
      BY <1>1, <3>2 DEF Queues, NoJoin
  <2>3. tx \in [Conn -> Seq(ToConsole)]
    BY <1>1 DEF TypeOK
  <2>4. CASE Accept(c)
    <3>1. /\ c \notin came /\ UNCHANGED <<name, by_name, partner, curplayers, tx, got>>
          /\ clients' = clients \/ clients' = clients \cup {c}
      BY <2>4 DEF Accept
    <3>2. partner[c] = None /\ name[c] = None
      BY <1>1, <3>1 DEF Queues, Unborn, NewIsSilent
    <3>3. KeepTold
      BY <1>1, <3>1, ToldKept
    <3>4. PairedHaveMet' /\ OneWaits'
      <4>1. \A d \in clients' \ clients : name'[d] = None /\ partner'[d] = None
        BY <3>1, <3>2
      <4>2. \A d \in clients' : name'[d] # None => name[d] # None
        BY <3>1
      <4>3. \A d \in clients' : partner'[d] # None => partner[d] # None
        BY <3>1
      <4> QED
        BY <1>1, <1>2, <3>3, <4>1, <4>2, <4>3, MeetStill
    <3>5. {d \in clients' : name[d] # None} = {d \in clients : name[d] # None}
      BY <3>1, <3>2
    <3>6. NamesTell'
      BY <1>1, <3>1, <3>2, <3>5, NoneAssumption DEF NamesTell
    <3> QED
      BY <3>4, <3>6
  <2>5. CASE Sweep(c) \/ RecvEnd(c) \/ FlushFail(c) \/ BadLength(c) \/ Refuse(c) \/ Bye(c)
    <3>1. Drop(c, tx) /\ UNCHANGED got
      BY <2>5 DEF Sweep, RecvEnd, FlushFail, BadLength, Refuse, Bye, Take
    <3>2. KeepTold
      BY <1>1, <2>3, <3>1, DropKeeps, ToldKept
    <3> QED
      BY <1>2, <3>1, <3>2, RelayDrop
  <2>6. CASE Flush(c)
    <3>1. KeepTold
      BY <1>1, <1>2, <2>6, FlushKeeps
    <3>2. CASE \E out : Drop(c, out)
      BY <1>2, <3>1, <3>2, RelayDrop
    <3>3. CASE UNCHANGED server
      BY <1>2, <3>1, <3>3, RelayStill DEF server
    <3> QED
      BY <2>6, <3>2, <3>3 DEF Flush
  <2>7. CASE Forward(c) \/ SendLobby(c) \/ Ping(c)
    <3>1. UNCHANGED <<clients, name, by_name, partner, curplayers, got>>
      BY <2>7 DEF Forward, SendLobby, Ping, server, Take
    <3>2. CASE tx' = tx
      BY <1>1, <1>2, <3>1, <3>2, ToldKept, RelayStill
    <3>3. CASE \E d \in Conn, f \in ToConsole : tx' = [tx EXCEPT ![d] = Append(@, f)]
      <4>1. \A d \in Conn : Started(tx[d]) => Started(tx'[d])
        BY <2>3, <3>3, AppendKeeps
      <4>2. KeepTold
        BY <1>1, <3>1, <4>1, ToldKept
      <4> QED
        BY <1>2, <3>1, <4>2, RelayStill
    <3>4. CASE Forward(c)
      <4>1. Take(c, "INPUT")
        BY <3>4 DEF Forward
      <4>2. Head(rx[c]) \in FromConsole /\ Head(rx[c]).kind = "INPUT"
        BY <1>1, <4>1, TakeType
      <4>3. Head(rx[c]) \in ToConsole
        BY <4>2, RecordFrame
      <4>4. partner[c] # None => partner[c] \in Conn
        BY <1>1 DEF TypeOK
      <4> QED
        BY <3>2, <3>3, <3>4, <4>3, <4>4 DEF Forward
    <3>5. CASE SendLobby(c)
      <4>1. Lobby \in ToConsole
        BY <1>1, LobbyFrame DEF TypeOK
      <4> QED
        BY <3>3, <3>5, <4>1 DEF SendLobby
    <3>6. CASE Ping(c)
      BY <3>3, <3>6, RelayFrames DEF Ping
    <3> QED
      BY <2>7, <3>4, <3>5, <3>6
  <2>8. CASE OnHello(c)
    <3>1. Take(c, "HELLO") /\ TryPair(c, name') /\ UNCHANGED clients
      BY <2>8 DEF OnHello
    <3>2. Head(rx[c]) \in FromConsole /\ Head(rx[c]).kind = "HELLO" /\ rx[c] # <<>> /\ UNCHANGED got
      BY <1>1, <3>1, TakeType
    <3>3. PICK n \in Free(Head(rx[c]).name) : name' = [name EXCEPT ![c] = n]
      BY <2>8 DEF OnHello
    <3>4. n \in Name
      BY <3>2, <3>3, HelloFrame, NamesAssumption DEF Free
    <3>5. /\ name' \in [Conn -> Name \cup {None}] /\ name'[c] \in Name
          /\ \A d \in Conn \ {c} : name'[d] = name[d]
      BY <1>1, <3>3, <3>4 DEF TypeOK
    <3>6. c \in clients /\ name[c] = None
      <4>1. 1 \in DOMAIN rx[c] /\ rx[c][1].kind = "HELLO"
        BY <1>1, <3>2 DEF TypeOK
      <4> QED
        BY <1>1, <3>2, <4>1 DEF Queues, HelloFirst, OnlyServed
    <3>7. partner[c] = None
      BY <1>1, <3>6 DEF Mutual
    <3>8. PairedHaveMet' /\ OneWaits'
      BY <1>1, <1>2, <3>1, <3>2, <3>5, <3>6, <3>7, MeetPair
    <3> QED
      BY <1>1, <2>8, <3>8, HelloNames
  <2>9. CASE \/ Recv(c) \/ Unknown(c) \/ ServiceDone(c)
             \/ SayHello(c) \/ SayInput(c) \/ SayExtra(c) \/ HangUp(c)
    <3>1. UNCHANGED <<clients, name, by_name, partner, curplayers, got, tx>>
      BY <2>9 DEF Recv, Unknown, ServiceDone, SayHello, SayInput, SayExtra, HangUp, Speak, Take, server
    <3> QED
      BY <1>1, <1>2, <3>1, ToldKept, RelayStill
  <2> QED
    BY <2>1, <2>2, <2>4, <2>5, <2>6, <2>7, <2>8, <2>9 DEF Receive, Service, Send, User
<1> QED
  BY <1>4, <1>5

LEMMA RelayInitInv == Init => RelayInv
<1> SUFFICES ASSUME Init PROVE RelayInv
  OBVIOUS
<1>1. IInv
  BY TypeInit, QueuesInit DEF IInv
<1>2. NamesTell
  <2>1. {c \in clients : name[c] # None} = {}
    BY DEF Init
  <2>2. curplayers = Cardinality({c \in clients : name[c] # None})
    BY <2>1, FS_EmptySet DEF Init
  <2> QED
    BY <2>2 DEF Init, NamesTell
<1>3. PairedHaveMet /\ OneWaits
  BY DEF Init, PairedHaveMet, OneWaits, Waiting
<1> QED
  BY <1>1, <1>2, <1>3 DEF RelayInv

(* The larger invariant holds: besides the queues and the matches, the     *)
(* table of names is that of the clients, who is in a match was told so,   *)
(* and no two clients wait for their first match.                          *)
THEOREM NamesAndMeetings ==
  ASSUME "JOIN" \notin Extra
  PROVE  Spec => []RelayInv
<1>1. RelayInv /\ [Next]_vars => RelayInv'
  BY RelayInductive
<1> QED
  BY <1>1, RelayInitInv, PTL DEF Spec

(* by_name holds the names of the clients and no other, no two clients     *)
(* have one name, and the lobby publisher was last told how many there     *)
(* are, whoever came, left or was dropped (vo_relay_server.py).            *)
THEOREM NamesAreTold ==
  ASSUME "JOIN" \notin Extra
  PROVE  Spec => []NamesTell
<1>1. RelayInv => NamesTell
  BY DEF RelayInv
<1> QED
  BY <1>1, NamesAndMeetings, PTL

(* try_pair leaves nobody behind: of the clients that never had a match    *)
(* at most one is waiting.                                                 *)
THEOREM NobodyWaitsBeside ==
  ASSUME "JOIN" \notin Extra
  PROVE  Spec => []FirstTwoMeet
<1>1. RelayInv => FirstTwoMeet
  <2> SUFFICES ASSUME RelayInv PROVE Cardinality(Waiting) <= 1
    BY DEF FirstTwoMeet
  <2>1. CASE Waiting = {}
    BY <2>1, FS_EmptySet
  <2>2. CASE Waiting # {}
    <3>1. PICK c : c \in Waiting
      BY <2>2
    <3>2. Waiting = {c}
      BY <3>1 DEF RelayInv, OneWaits
    <3> QED
      BY <3>2, FS_Singleton
  <2> QED
    BY <2>1, <2>2
<1> QED
  BY <1>1, NamesAndMeetings, PTL

=============================================================================
