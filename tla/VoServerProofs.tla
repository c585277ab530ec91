---------------------------- MODULE VoServerProofs ----------------------------
(***************************************************************************)
(* Proofs about VoLobby, for any number of players, updates and failed     *)
(* POSTs; about VoCrcLog, for any tick modulus, distances and gaps that    *)
(* LogAssumption and ReachAssumption allow; and about the two parts of the *)
(* relay in one specification (MCVoServer).                                *)
(***************************************************************************)
EXTENDS MCVoServer, TLAPS, SequenceTheorems, FiniteSetTheorems, WellFoundedInduction

-----------------------------------------------------------------------------
(* The lobby publisher.                                                    *)

LEMMA LobbyInitInv == LobbyInit => LobbyInv
<1> SUFFICES ASSUME LobbyInit PROVE LobbyInv
  OBVIOUS
<1>1. [status |-> "online", curplayers |-> 0] \in Row
  BY LobbyAssumption DEF Row
<1>2. LobbyTypeOK
  <2>1. updates \in 0 .. MaxUpdates /\ failures \in 0 .. MaxFailures
    BY LobbyAssumption DEF LobbyInit
  <2>2. {body, last, row} \subseteq Row \cup {NoRow} /\ stray \subseteq Row
    BY DEF LobbyInit
  <2>3. {dirty, stop, overslept} \subseteq BOOLEAN
    BY DEF LobbyInit
  <2> QED
    BY <1>1, <2>1, <2>2, <2>3 DEF LobbyInit, LobbyTypeOK
<1>3. Snapshots /\ Tells /\ Sincere /\ Offline
  BY DEF LobbyInit, Snapshots, Tells, Sincere, Offline
<1> QED
  BY <1>2, <1>3 DEF LobbyInv

(* A row keeps being one when one of its fields is set.                    *)
LEMMA RowFields ==
  ASSUME NEW r \in Row
  PROVE  /\ \A n \in 0 .. MaxPlayers : [r EXCEPT !.curplayers = n] \in Row
         /\ [r EXCEPT !.status = "offline"] \in Row
         /\ [r EXCEPT !.status = "offline"].status = "offline"
BY DEF Row

(* The relay's thread.                                                     *)
LEMMA RelayThread ==
  ASSUME LobbyInv, (\E n \in 0 .. MaxPlayers : Update(n)) \/ Shutdown \/ ShutdownC \/ Close
  PROVE  LobbyInv'
<1> USE LobbyAssumption DEF LobbyInv
<1>1. ASSUME NEW n \in 0 .. MaxPlayers, Update(n) PROVE LobbyInv'
  <2>1. payload' \in Row
    BY <1>1, RowFields DEF Update, LobbyTypeOK
  <2>2. updates' \in 0 .. MaxUpdates
    BY <1>1 DEF Update, LobbyTypeOK
  <2>3. LobbyTypeOK'
    BY <1>1, <2>1, <2>2 DEF Update, LobbyTypeOK, Notified, shared, thread, relay
  <2>4. Snapshots' /\ Tells' /\ Sincere' /\ Offline'
    BY <1>1 DEF Update, LobbyTypeOK, Notified, relay, Snapshots, Tells, Sincere, Offline
  <2> QED
    BY <2>3, <2>4
<1>2. ASSUME Shutdown \/ ShutdownC PROVE LobbyInv'
  <2>1. payload' \in Row /\ payload'.status = "offline" /\ last' = payload'
    BY <1>2, RowFields DEF Shutdown, ShutdownC, LobbyTypeOK
  <2>2. LobbyTypeOK'
    BY <1>2, <2>1 DEF Shutdown, ShutdownC, LobbyTypeOK, Notified, thread
  <2>3. Snapshots' /\ Tells' /\ Sincere' /\ Offline'
    BY <1>2, <2>1 DEF Shutdown, ShutdownC, LobbyTypeOK, Notified, thread,
       Snapshots, Tells, Sincere, Offline
  <2> QED
    BY <2>2, <2>3
<1>3. ASSUME Close PROVE LobbyInv'
  <2>1. LobbyTypeOK'
    BY <1>3 DEF Close, SetStop, Notify, JoinReturns, LobbyTypeOK, Notified, shared, thread
  <2>2. Snapshots' /\ Tells' /\ Sincere' /\ Offline'
    BY <1>3 DEF Close, SetStop, Notify, JoinReturns, LobbyTypeOK, Notified, shared, thread,
       Snapshots, Tells, Sincere, Offline
  <2> QED
    BY <2>1, <2>2
<1> QED
  BY <1>1, <1>2, <1>3

(* The publisher's thread, up to its POST and behind it.                   *)
LEMMA PublisherThread ==
  ASSUME LobbyInv, Publisher \/ WaitTimesOut
  PROVE  LobbyInv'
<1> USE DEF LobbyInv
<1>1. CASE Look \/ PauseEnds
  BY <1>1 DEF Look, PauseEnds, shared, relay, LobbyTypeOK, Snapshots, Tells, Sincere, Offline
<1>2. CASE Enter \/ Resume
  <2>1. LobbyTypeOK'
    BY <1>2 DEF Enter, Resume, Take, relay, LobbyTypeOK
  <2>2. Snapshots' /\ Tells' /\ Sincere' /\ Offline'
    BY <1>2 DEF Enter, Resume, Take, relay, LobbyTypeOK, Snapshots, Tells, Sincere, Offline
  <2> QED
    BY <2>1, <2>2
<1>3. CASE EnterC
  <2>1. LobbyTypeOK'
    BY <1>3 DEF EnterC, Take, relay, LobbyTypeOK
  <2>2. Snapshots' /\ Tells' /\ Sincere' /\ Offline'
    BY <1>3 DEF EnterC, Take, relay, LobbyTypeOK, Snapshots, Tells, Sincere, Offline
  <2> QED
    BY <2>1, <2>2
<1>4. CASE WaitTimesOut
  BY <1>4 DEF WaitTimesOut, relay, LobbyTypeOK, Snapshots, Tells, Sincere, Offline
<1> QED
  BY <1>1, <1>2, <1>3, <1>4 DEF Publisher

(* A POST, the thread's or the relay's: handled, answered, given up on.    *)
LEMMA PostKeeps ==
  ASSUME LobbyInv, Post
  PROVE  LobbyInv'
<1> USE LobbyAssumption DEF LobbyInv
<1>1. CASE Handle
  <2>1. LobbyTypeOK'
    BY <1>1 DEF Handle, shared, LobbyTypeOK, Snapshots
  <2>2. Snapshots' /\ Tells' /\ Sincere' /\ Offline'
    BY <1>1 DEF Handle, shared, LobbyTypeOK, Snapshots, Tells, Sincere, Offline
  <2> QED
    BY <2>1, <2>2
<1>2. CASE Answered
  <2>1. LobbyTypeOK'
    BY <1>2 DEF Answered, Exit, shared, LobbyTypeOK, Snapshots
  <2>2. Snapshots' /\ Tells' /\ Sincere' /\ Offline'
    BY <1>2 DEF Answered, Exit, shared, LobbyTypeOK, Snapshots, Tells, Sincere, Offline
  <2> QED
    BY <2>1, <2>2
<1>3. CASE PostFails
  <2>1. failures' \in 0 .. MaxFailures /\ failures' # 0
    BY <1>3 DEF PostFails, LobbyTypeOK
  <2>2. LobbyTypeOK'
    BY <1>3, <2>1 DEF PostFails, AfterFailure, Exit, shared, LobbyTypeOK, Snapshots
  <2>3. Snapshots' /\ Tells' /\ Sincere' /\ Offline'
    BY <1>3, <2>1 DEF PostFails, AfterFailure, Exit, shared, LobbyTypeOK, Snapshots, Tells, Sincere, Offline
  <2> QED
    BY <2>2, <2>3
<1> QED
  BY <1>1, <1>2, <1>3 DEF Post

LEMMA LobbyInductive ==
  ASSUME LobbyInv, LobbyNext \/ UNCHANGED lobbyvars
  PROVE  LobbyInv'
<1>1. CASE UNCHANGED lobbyvars
  BY <1>1 DEF lobbyvars, shared, thread, relay, LobbyInv, LobbyTypeOK, Snapshots, Tells,
     Sincere, Offline
<1> QED
  BY <1>1, RelayThread, PublisherThread, PostKeeps DEF LobbyNext

(* The invariant of the publisher: what is not told is dirty or under way, *)
(* and what is told from the shutdown on is that the server is gone.       *)
THEOREM LobbyInvariance == LobbySpec => []LobbyInv
<1>1. LobbyInv /\ [LobbyNext]_lobbyvars => LobbyInv'
  BY LobbyInductive
<1> QED
  BY <1>1, LobbyInitInv, PTL DEF LobbySpec

(* A publisher that waits has told the Lobby everything: no update falls   *)
(* between its snapshot, its POST and its wait, in either port.            *)
THEOREM IdleIsTold == LobbySpec => []IdleMeansTold
<1>1. LobbyInv => IdleMeansTold
  BY DEF LobbyInv, Tells, Sincere, IdleMeansTold
<1> QED
  BY <1>1, LobbyInvariance, PTL

(* With every POST answered and a join that was long enough, the last that *)
(* the Lobby believes of a relay that has ended is "offline".              *)
THEOREM OfflineIsLast == LobbySpec => []LastWord
<1>1. LobbyInv => LastWord
  BY DEF LobbyInv, Offline, LastWord
<1> QED
  BY <1>1, LobbyInvariance, PTL

-----------------------------------------------------------------------------
(* The checksum log.                                                       *)

LEMMA Sides ==
  /\ Other("old") = "new" /\ Other("new") = "old"
  /\ \A s \in Side : Other(s) \in Side /\ Other(s) # s /\ Other(Other(s)) = s
  /\ \A s, t \in Side : t = s \/ t = Other(s)
<1>1. Other("old") = "new" /\ Other("new") = "old"
  BY DEF Other, Side
<1> QED
  BY <1>1 DEF Side

-----------------------------------------------------------------------------
(* Maps as sequences of entries.                                           *)

Once(m)   == \A i, j \in DOMAIN m : m[i].key = m[j].key => i = j
Rise(m)   == \A i, j \in DOMAIN m : i < j => m[i].key < m[j].key
Upper(m, key) == \A i \in DOMAIN m : m[i].key <= key

LEMMA MapType ==
  ASSUME NEW m \in Seq(Entry)
  PROVE  /\ Len(m) \in Nat /\ DOMAIN m = 1 .. Len(m)
         /\ \A i \in 1 .. Len(m) : m[i] \in Entry /\ m[i].key \in Nat /\ m[i].crc \in Crc
<1>1. Len(m) \in Nat /\ DOMAIN m = 1 .. Len(m) /\ \A i \in 1 .. Len(m) : m[i] \in Entry
  BY ElementOfSeq, LenProperties
<1>2. \A x \in Entry : x.key \in Nat /\ x.crc \in Crc
  BY DEF Entry
<1> QED
  BY <1>1, <1>2

LEMMA PutFacts ==
  ASSUME NEW m \in Seq(Entry), NEW e \in Entry
  PROVE  /\ Put(m, e) \in Seq(Entry)
         /\ Len(Put(m, e)) = (IF At(m, e.key) = {} THEN Len(m) + 1 ELSE Len(m))
         /\ \A i \in 1 .. Len(Put(m, e)) :
              Put(m, e)[i] = IF i <= Len(m) /\ m[i].key # e.key THEN m[i] ELSE e
<1>1. Len(m) \in Nat /\ DOMAIN m = 1 .. Len(m) /\ \A i \in 1 .. Len(m) : m[i] \in Entry
  BY ElementOfSeq, LenProperties
<1>2. CASE At(m, e.key) = {}
  <2>1. Put(m, e) = Append(m, e)
    BY <1>2 DEF Put
  <2>2. \A i \in 1 .. Len(m) : m[i].key # e.key
    BY <1>1, <1>2 DEF At
  <2> QED
    BY <1>1, <1>2, <2>1, <2>2
<1>3. CASE At(m, e.key) # {}
  <2> DEFINE w == [i \in 1 .. Len(m) |-> IF m[i].key = e.key THEN e ELSE m[i]]
  <2>1. Put(m, e) = w
    <3>1. Put(m, e) = [i \in DOMAIN m |-> IF i \in At(m, e.key) THEN e ELSE m[i]]
      BY <1>3 DEF Put
    <3>2. \A i \in DOMAIN m : i \in At(m, e.key) <=> m[i].key = e.key
      BY DEF At
    <3> QED
      BY <1>1, <3>1, <3>2
  <2>2. w \in [1 .. Len(m) -> Entry]
    BY <1>1
  <2>3. w \in Seq(Entry) /\ Len(w) = Len(m)
    BY <1>1, <2>2
  <2>4. \A i \in 1 .. Len(m) : w[i] = IF i <= Len(m) /\ m[i].key # e.key THEN m[i] ELSE e
    BY <1>1
  <2> HIDE DEF w
  <2> QED
    BY <1>3, <2>1, <2>3, <2>4
<1> QED
  BY <1>2, <1>3

(* What a put does to the keys and the entries.                            *)
LEMMA PutKeys ==
  ASSUME NEW m \in Seq(Entry), NEW e \in Entry
  PROVE  /\ Once(m) => Once(Put(m, e))
         /\ Rise(m) /\ Upper(m, e.key) => Rise(Put(m, e)) /\ Upper(Put(m, e), e.key)
         /\ Entries(Put(m, e)) = {x \in Entries(m) : x.key # e.key} \cup {e}
<1> DEFINE w == Put(m, e)
<1>1. Len(m) \in Nat /\ DOMAIN m = 1 .. Len(m) /\ \A i \in 1 .. Len(m) : m[i] \in Entry
  BY ElementOfSeq, LenProperties
<1>2. /\ w \in Seq(Entry)
      /\ Len(w) = (IF At(m, e.key) = {} THEN Len(m) + 1 ELSE Len(m))
      /\ \A i \in 1 .. Len(w) : w[i] = IF i <= Len(m) /\ m[i].key # e.key THEN m[i] ELSE e
  BY PutFacts
<1>3. DOMAIN w = 1 .. Len(w)
  BY <1>2, LenProperties
<1>4. e.key \in Nat /\ \A i \in 1 .. Len(m) : m[i].key \in Nat
  BY <1>1 DEF Entry
<1>5. At(m, e.key) = {i \in 1 .. Len(m) : m[i].key = e.key}
  BY <1>1 DEF At
<1> HIDE DEF w
<1>6. ASSUME Once(m) PROVE Once(w)
  BY <1>1, <1>2, <1>3, <1>4, <1>5, <1>6 DEF Once
<1>7. ASSUME Rise(m), Upper(m, e.key) PROVE Rise(w)
  <2> SUFFICES ASSUME NEW i \in 1 .. Len(w), NEW j \in 1 .. Len(w), i < j
               PROVE  w[i].key < w[j].key
    BY <1>3 DEF Rise
  <2>1. i \in 1 .. Len(m)
    BY <1>1, <1>2
  <2>2. \A k \in 1 .. Len(m) : m[k].key <= e.key
    BY <1>1, <1>7 DEF Upper
  <2>3. CASE j \in 1 .. Len(m)
    <3>1. m[i].key < m[j].key /\ m[j].key <= e.key
      BY <1>1, <1>7, <2>1, <2>2, <2>3 DEF Rise
    <3> QED
      BY <1>2, <1>4, <2>1, <2>3, <3>1
  <2>4. CASE j \notin 1 .. Len(m)
    <3>1. At(m, e.key) = {}
      BY <1>1, <1>2, <2>4
    <3>2. m[i].key # e.key /\ m[i].key <= e.key
      BY <1>5, <2>1, <2>2, <3>1
    <3>3. w[j] = e /\ w[i] = m[i]
      BY <1>1, <1>2, <2>1, <2>4, <3>2
    <3> QED
      BY <1>4, <2>1, <3>2, <3>3
  <2> QED
    BY <2>3, <2>4
<1>8. ASSUME Upper(m, e.key) PROVE Upper(w, e.key)
  BY <1>1, <1>2, <1>3, <1>4, <1>8 DEF Upper
<1>9. Entries(w) = {x \in Entries(m) : x.key # e.key} \cup {e}
  <2>1. \A i \in 1 .. Len(w) : w[i] \in {x \in Entries(m) : x.key # e.key} \cup {e}
    BY <1>1, <1>2 DEF Entries
  <2>2. \A i \in 1 .. Len(m) : m[i].key # e.key => i \in 1 .. Len(w) /\ w[i] = m[i]
    BY <1>1, <1>2
  <2>3. \E i \in 1 .. Len(w) : w[i] = e
    <3>1. CASE At(m, e.key) = {}
      BY <1>1, <1>2, <3>1
    <3>2. CASE At(m, e.key) # {}
      BY <1>1, <1>2, <1>5, <3>2
    <3> QED
      BY <3>1, <3>2
  <2> QED
    BY <1>1, <1>3, <2>1, <2>2, <2>3 DEF Entries
<1> QED
  BY <1>6, <1>7, <1>8, <1>9 DEF w

(* A piece of a map.                                                       *)
LEMMA PieceFacts ==
  ASSUME NEW m \in Seq(Entry), NEW a \in Nat \ {0}, NEW b \in Nat, b <= Len(m)
  PROVE  /\ SubSeq(m, a, b) \in Seq(Entry)
         /\ Len(SubSeq(m, a, b)) = (IF a <= b THEN b - a + 1 ELSE 0)
         /\ \A i \in 1 .. Len(SubSeq(m, a, b)) : SubSeq(m, a, b)[i] = m[a + i - 1]
         /\ Entries(SubSeq(m, a, b)) \subseteq Entries(m)
         /\ Once(m) => Once(SubSeq(m, a, b))
         /\ Rise(m) => Rise(SubSeq(m, a, b))
<1> DEFINE w == SubSeq(m, a, b)
<1>1. Len(m) \in Nat /\ DOMAIN m = 1 .. Len(m) /\ \A i \in 1 .. Len(m) : m[i] \in Entry
  BY ElementOfSeq, LenProperties
<1>2. \A i \in a .. b : m[i] \in Entry
  BY <1>1
<1>3. /\ w \in Seq(Entry) /\ Len(w) = (IF a <= b THEN b - a + 1 ELSE 0)
      /\ \A i \in 1 .. b - a + 1 : w[i] = m[a + i - 1]
  BY <1>2, SubSeqProperties
<1>4. DOMAIN w = 1 .. Len(w)
  BY <1>3, LenProperties
<1> HIDE DEF w
<1>5. \A i \in 1 .. Len(w) : w[i] = m[a + i - 1] /\ a + i - 1 \in 1 .. Len(m)
  BY <1>1, <1>3
<1>6. Entries(w) \subseteq Entries(m)
  BY <1>1, <1>4, <1>5 DEF Entries
<1>7. ASSUME Once(m) PROVE Once(w)
  <2> SUFFICES ASSUME NEW i \in 1 .. Len(w), NEW j \in 1 .. Len(w), w[i].key = w[j].key PROVE i = j
    BY <1>4 DEF Once
  <2>1. m[a + i - 1].key = m[a + j - 1].key
    BY <1>5
  <2>2. a + i - 1 = a + j - 1
    BY <1>1, <1>5, <1>7, <2>1 DEF Once
  <2> QED
    BY <1>3, <2>2
<1>8. ASSUME Rise(m) PROVE Rise(w)
  <2> SUFFICES ASSUME NEW i \in 1 .. Len(w), NEW j \in 1 .. Len(w), i < j
               PROVE  w[i].key < w[j].key
    BY <1>4 DEF Rise
  <2>1. a + i - 1 < a + j - 1
    BY <1>3
  <2>2. m[a + i - 1].key < m[a + j - 1].key
    BY <1>1, <1>5, <1>8, <2>1 DEF Rise
  <2> QED
    BY <1>5, <2>2
<1> QED
  BY <1>3, <1>5, <1>6, <1>7, <1>8 DEF w

(* Taking the one entry of a key out.                                      *)
LEMMA WithoutFacts ==
  ASSUME NEW m \in Seq(Entry), NEW key \in Nat, At(m, key) # {}, Once(m)
  PROVE  /\ Without(m, key) \in Seq(Entry) /\ Len(Without(m, key)) <= Len(m)
         /\ Entries(Without(m, key)) = {x \in Entries(m) : x.key # key}
         /\ Once(Without(m, key))
         /\ Rise(m) => Rise(Without(m, key))
         /\ Beyond(Without(m, key)) \subseteq Beyond(m)
<1> DEFINE i == CHOOSE j \in At(m, key) : TRUE
           u == SubSeq(m, 1, i - 1)
           v == SubSeq(m, i + 1, Len(m))
           w == u \o v
<1>1. Len(m) \in Nat /\ DOMAIN m = 1 .. Len(m) /\ \A j \in 1 .. Len(m) : m[j] \in Entry
  BY ElementOfSeq, LenProperties
<1>2. Without(m, key) = w
  BY DEF Without
<1>3. i \in 1 .. Len(m) /\ m[i].key = key
  <2>1. i \in At(m, key)
    OBVIOUS
  <2> QED
    BY <1>1, <2>1 DEF At
<1> HIDE DEF i
<1>4. \A j \in 1 .. Len(m) : m[j].key = key => j = i
  BY <1>1, <1>3 DEF Once
<1>5. u \in Seq(Entry) /\ Len(u) = i - 1 /\ \A j \in 1 .. i - 1 : u[j] = m[j]
  BY <1>1, <1>3, PieceFacts
<1>6. v \in Seq(Entry) /\ Len(v) = Len(m) - i /\ \A j \in 1 .. Len(m) - i : v[j] = m[i + j]
  <2>1. Len(m) <= Len(m) /\ i + 1 \in Nat \ {0}
    BY <1>1, <1>3
  <2>2. /\ v \in Seq(Entry) /\ Len(v) = (IF i + 1 <= Len(m) THEN Len(m) - (i + 1) + 1 ELSE 0)
        /\ \A j \in 1 .. Len(v) : v[j] = m[(i + 1) + j - 1]
    BY <1>1, <2>1, PieceFacts
  <2> HIDE DEF v
  <2>3. Len(v) = Len(m) - i
    <3>1. Len(v) = (IF i + 1 <= Len(m) THEN Len(m) - (i + 1) + 1 ELSE 0)
      BY <2>2
    <3>2. i \in Nat /\ i <= Len(m) /\ Len(m) \in Nat
      BY <1>1, <1>3
    <3> QED
      BY <3>1, <3>2
  <2>4. \A j \in 1 .. Len(m) - i : (i + 1) + j - 1 = i + j
    BY <1>1, <1>3
  <2>5. \A j \in 1 .. Len(m) - i : v[j] = m[i + j]
    BY <2>2, <2>3, <2>4
  <2> QED
    BY <2>2, <2>3, <2>5
<1> HIDE DEF u, v
<1>7. /\ w \in Seq(Entry) /\ Len(w) = Len(m) - 1
      /\ \A j \in 1 .. Len(m) - 1 : w[j] = IF j < i THEN m[j] ELSE m[j + 1]
  <2>1. /\ w \in Seq(Entry) /\ Len(w) = Len(u) + Len(v)
        /\ \A j \in 1 .. Len(u) + Len(v) : w[j] = IF j <= Len(u) THEN u[j] ELSE v[j - Len(u)]
    BY <1>5, <1>6, ConcatProperties
  <2>2. ASSUME NEW j \in 1 .. Len(m) - 1 PROVE w[j] = IF j < i THEN m[j] ELSE m[j + 1]
    <3>1. CASE j < i
      <4>1. j \in 1 .. i - 1 /\ j <= Len(u) /\ j \in 1 .. Len(u) + Len(v)
        BY <1>1, <1>3, <1>5, <1>6, <3>1
      <4> QED
        BY <1>5, <2>1, <3>1, <4>1
    <3>2. CASE ~(j < i)
      <4>1. /\ j - Len(u) \in 1 .. Len(m) - i /\ i + (j - Len(u)) = j + 1
            /\ ~(j <= Len(u)) /\ j \in 1 .. Len(u) + Len(v)
        BY <1>1, <1>3, <1>5, <1>6, <3>2
      <4>2. w[j] = v[j - Len(u)]
        BY <2>1, <4>1
      <4>3. v[j - Len(u)] = m[i + (j - Len(u))]
        BY <1>6, <4>1
      <4> QED
        BY <3>2, <4>1, <4>2, <4>3
    <3> QED
      BY <3>1, <3>2
  <2> QED
    BY <1>1, <1>3, <1>5, <1>6, <2>1, <2>2
<1> HIDE DEF w
<1>8. DOMAIN w = 1 .. Len(m) - 1
  BY <1>7, LenProperties
<1> DEFINE at(j) == IF j < i THEN j ELSE j + 1
<1>0. \A j \in 1 .. Len(m) - 1 : at(j) \in 1 .. Len(m) /\ at(j) # i /\ w[j] = m[at(j)]
  BY <1>1, <1>3, <1>7
<1>9. Once(w)
  <2> SUFFICES ASSUME NEW j \in 1 .. Len(m) - 1, NEW k \in 1 .. Len(m) - 1, w[j].key = w[k].key
               PROVE  j = k
    BY <1>8 DEF Once
  <2>1. at(j) = at(k)
    <3> HIDE DEF at
    <3> QED
      BY <1>0, <1>1 DEF Once
  <2> QED
    BY <1>1, <1>3, <2>1
<1>10. ASSUME Rise(m) PROVE Rise(w)
  <2> SUFFICES ASSUME NEW j \in 1 .. Len(m) - 1, NEW k \in 1 .. Len(m) - 1, j < k
               PROVE  w[j].key < w[k].key
    BY <1>8 DEF Rise
  <2>1. at(j) < at(k)
    BY <1>1, <1>3
  <2> HIDE DEF at
  <2> QED
    BY <1>0, <1>1, <1>10, <2>1 DEF Rise
<1>11. Entries(w) = {x \in Entries(m) : x.key # key}
  <2>1. \A j \in 1 .. Len(m) - 1 : w[j] \in {x \in Entries(m) : x.key # key}
    <3> SUFFICES ASSUME NEW j \in 1 .. Len(m) - 1
                 PROVE  \E k \in 1 .. Len(m) : w[j] = m[k] /\ k # i
      BY <1>1, <1>4 DEF Entries
    <3> HIDE DEF at
    <3> QED
      BY <1>0
  <2>0. \A k \in 1 .. Len(m) : m[k].key # key <=> k # i
    BY <1>3, <1>4
  <2>2. \A k \in 1 .. Len(m) : k # i => \E j \in 1 .. Len(m) - 1 : w[j] = m[k]
    <3> SUFFICES ASSUME NEW k \in 1 .. Len(m), k # i
                 PROVE  \E j \in 1 .. Len(m) - 1 : w[j] = m[k]
      OBVIOUS
    <3>1. CASE k < i
      BY <1>1, <1>3, <1>7, <3>1
    <3>2. CASE k > i
      <4>1. k - 1 \in 1 .. Len(m) - 1 /\ w[k - 1] = m[k]
        BY <1>1, <1>3, <1>7, <3>2
      <4> QED
        BY <4>1
    <3> QED
      BY <1>3, <3>1, <3>2
  <2>3. ASSUME NEW x \in Entries(m), x.key # key PROVE x \in Entries(w)
    <3>1. PICK k \in 1 .. Len(m) : x = m[k]
      BY <1>1 DEF Entries
    <3>2. k # i
      BY <2>0, <2>3, <3>1
    <3> QED
      BY <1>8, <2>2, <3>1, <3>2 DEF Entries
  <2>4. ASSUME NEW x \in Entries(w) PROVE x \in {y \in Entries(m) : y.key # key}
    BY <1>8, <2>1 DEF Entries
  <2> QED
    BY <2>3, <2>4
<1>12. Beyond(w) \subseteq Beyond(m)
  <2> SUFFICES ASSUME NEW j \in 1 .. Len(m) - 1, Keep < j
               PROVE  \E k \in 1 .. Len(m) : Keep < k /\ w[j] = m[k]
    BY <1>1, <1>8 DEF Beyond
  <2>1. Keep < at(j)
    BY LogAssumption
  <2> HIDE DEF at
  <2> QED
    BY <1>0, <2>1
<1> QED
  BY <1>1, <1>2, <1>7, <1>9, <1>10, <1>11, <1>12

LEMMA Smallest ==
  ASSUME NEW S, S \subseteq Nat, S # {}
  PROVE  \E n \in S : \A m \in S : n <= m
<1>1. PICK n \in S : \A m \in S : <<m, n>> \notin OpToRel(<, Nat)
  BY WFMin, NatLessThanWellFounded, Zenon
<1>2. \A x, y \in Nat : x < y => <<x, y>> \in OpToRel(<, Nat)
  BY Zenon DEF OpToRel
<1>3. \A m \in S : ~(m < n)
  BY <1>1, <1>2, Zenon
<1>4. n \in Nat /\ \A m \in S : m \in Nat
  BY Zenon
<1>5. \A m \in S : n <= m
  BY <1>3, <1>4
<1> QED
  BY <1>1, <1>5, Zenon

(* Rising keys are at least as far apart as their places.                  *)
LEMMA Spread ==
  ASSUME NEW m \in Seq(Entry), Rise(m), NEW i \in DOMAIN m, NEW j \in DOMAIN m, i <= j
  PROVE  m[j].key - m[i].key >= j - i
<1>1. Len(m) \in Nat /\ DOMAIN m = 1 .. Len(m)
  BY LenProperties
<1>2. \A k \in 1 .. Len(m) : m[k].key \in Nat
  BY MapType
<1> DEFINE bad == {k \in 1 .. Len(m) : i <= k /\ m[k].key - m[i].key < k - i}
<1>3. SUFFICES ASSUME bad # {} PROVE FALSE
  BY <1>1, <1>2
<1>4. PICK k \in bad : \A l \in bad : k <= l
  <2>1. bad \subseteq Nat
    BY <1>1
  <2> HIDE DEF bad
  <2> QED
    BY <1>3, <2>1, Smallest
<1>5. k \in 1 .. Len(m) /\ i <= k /\ m[k].key - m[i].key < k - i
  OBVIOUS
<1>6. k # i
  BY <1>1, <1>2, <1>5
<1>7. k - 1 \in 1 .. Len(m) /\ i <= k - 1 /\ k - 1 \notin bad
  BY <1>1, <1>4, <1>5, <1>6
<1>t. /\ m[k - 1].key \in Int /\ m[i].key \in Int /\ m[k].key \in Int
      /\ k \in Int /\ i \in Int
  BY <1>1, <1>2, <1>5, <1>7
<1>8. m[k - 1].key - m[i].key >= (k - 1) - i
  <2> DEFINE short(u) == i <= u /\ m[u].key - m[i].key < u - i
  <2>1. bad = {u \in 1 .. Len(m) : short(u)}
    OBVIOUS
  <2>2. ~short(k - 1)
    <3> HIDE DEF bad, short
    <3> QED
      BY <1>7, <2>1
  <2>3. ~(m[k - 1].key - m[i].key < (k - 1) - i)
    <3> HIDE DEF bad
    <3> QED
      BY <1>7, <2>2, Zenon
  <2>4. \A a, b, u, v \in Int : ~(a - b < (u - 1) - v) => a - b >= (u - 1) - v
    OBVIOUS
  <2> HIDE DEF bad
  <2> QED
    BY <1>t, <2>3, <2>4
<1>9. m[k - 1].key < m[k].key
  BY <1>1, <1>5, <1>7 DEF Rise
<1>10. m[k].key - m[i].key < k - i
  BY <1>5
<1> HIDE DEF bad
<1>11. ~(m[k].key - m[i].key < k - i)
  <2>1. \A a, b, x, u, v \in Int : a - b >= (u - 1) - v /\ a < x => ~(x - b < u - v)
    OBVIOUS
  <2> QED
    BY <1>t, <1>8, <1>9, <2>1
<1> QED
  BY <1>10, <1>11

(* What is less than Keep below the highest key stays.                     *)
LEMMA OldestOutFacts ==
  ASSUME NEW m \in Seq(Entry)
  PROVE  /\ OldestOut(m) \in Seq(Entry) /\ Len(OldestOut(m)) <= Len(m)
         /\ Len(OldestOut(m)) <= Keep
         /\ Entries(OldestOut(m)) \subseteq Entries(m)
         /\ Once(m) => Once(OldestOut(m))
         /\ Rise(m) => Rise(OldestOut(m))
         /\ \A key \in Nat, x \in Entries(m) :
              Rise(m) /\ Upper(m, key) /\ key < x.key + Keep => x \in Entries(OldestOut(m))
<1>1. Len(m) \in Nat /\ DOMAIN m = 1 .. Len(m)
  BY LenProperties
<1>2. Keep \in Nat
  BY LogAssumption
<1>3. CASE Len(m) <= Keep
  BY <1>1, <1>2, <1>3 DEF OldestOut
<1>4. CASE Len(m) > Keep
  <2> DEFINE a == Len(m) - Keep + 1
             w == SubSeq(m, a, Len(m))
  <2>1. OldestOut(m) = w
    BY <1>4 DEF OldestOut
  <2>2. a \in Nat \ {0} /\ Len(m) <= Len(m)
    BY <1>1, <1>2, <1>4
  <2>3. /\ w \in Seq(Entry)
        /\ Len(w) = (IF a <= Len(m) THEN Len(m) - a + 1 ELSE 0)
        /\ \A i \in 1 .. Len(w) : w[i] = m[a + i - 1]
        /\ Entries(w) \subseteq Entries(m)
        /\ Once(m) => Once(w)
        /\ Rise(m) => Rise(w)
    <3> HIDE DEF a
    <3> QED
      BY <1>1, <2>2, PieceFacts
  <2> HIDE DEF w
  <2>4. Len(w) = Keep
    <3>1. Len(w) = (IF a <= Len(m) THEN Len(m) - a + 1 ELSE 0)
      BY <2>3
    <3> QED
      BY <1>1, <1>2, <3>1
  <2>5. ASSUME NEW key \in Nat, NEW x \in Entries(m), Rise(m), Upper(m, key), key < x.key + Keep
        PROVE  x \in Entries(w)
    <3>1. PICK i \in 1 .. Len(m) : x = m[i]
      BY <1>1 DEF Entries
    <3>2. Len(m) \in 1 .. Len(m) /\ i <= Len(m)
      BY <1>1
    <3>3. m[Len(m)].key - m[i].key >= Len(m) - i
      BY <1>1, <2>5, <3>2, Spread
    <3>4. m[Len(m)].key <= key
      BY <1>1, <2>5, <3>2 DEF Upper
    <3>5. m[Len(m)].key \in Nat /\ m[i].key \in Nat
      BY <3>2, MapType
    <3>6. Len(m) - i < Keep
      BY <1>1, <1>2, <2>5, <3>1, <3>3, <3>4, <3>5
    <3>7. i - a + 1 \in 1 .. Len(w) /\ a + (i - a + 1) - 1 = i
      BY <1>1, <1>2, <2>4, <3>6
    <3>8. DOMAIN w = 1 .. Len(w)
      BY <2>3, LenProperties
    <3>9. w[i - a + 1] = m[i]
      <4> HIDE DEF a
      <4> QED
        BY <2>3, <3>7
    <3> HIDE DEF a
    <3> QED
      BY <3>1, <3>7, <3>8, <3>9 DEF Entries
  <2> QED
    BY <1>1, <1>2, <1>4, <2>1, <2>3, <2>4, <2>5
<1> QED
  BY <1>1, <1>2, <1>3, <1>4

-----------------------------------------------------------------------------
(* Laps.                                                                   *)

LEMMA Remainder ==
  ASSUME NEW q \in Nat, NEW r \in Nat, r < TickMod
  PROVE  (q * TickMod + r) % TickMod = r
<1>1. TickMod \in Nat \ {0}
  BY LogAssumption
<1> QED
  BY <1>1

(* The relay's lap of the next tick: one more when the byte wrapped.       *)
LEMMA LapCounts ==
  ASSUME NEW s \in Side, lap[s] \in Nat, lastTick[s] \in Nat, lastTick[s] < TickMod,
         NEW q \in Nat, NEW d \in 0 .. Gap
  PROVE  LET wire == (q * TickMod + lastTick[s] + d) % TickMod
         IN  /\ wire \in Nat /\ wire < TickMod
             /\ \/ wire = lastTick[s] + d /\ Lap(s, wire) = lap[s]
                \/ wire = lastTick[s] + d - TickMod /\ Lap(s, wire) = lap[s] + 1
<1> DEFINE w == lastTick[s]
           wire == (q * TickMod + w + d) % TickMod
<1>1. TickMod \in Nat \ {0} /\ d \in Nat /\ d <= Gap /\ Gap \in Nat /\ 2 * Gap < TickMod /\ w \in Nat
  BY LogAssumption
<1> HIDE DEF w
<1>2. CASE w + d < TickMod
  <2>1. wire = w + d
    <3>1. (q * TickMod + (w + d)) % TickMod = w + d
      BY <1>1, <1>2, Remainder
    <3>2. q * TickMod + (w + d) = q * TickMod + w + d
      BY <1>1
    <3> QED
      BY <3>1, <3>2
  <2>2. ~(wire < w)
    BY <1>1, <2>1
  <2> HIDE DEF wire
  <2>3. Lap(s, wire) = lap[s]
    BY <2>2 DEF Lap, w
  <2> QED
    BY <1>1, <1>2, <2>1, <2>3 DEF w, wire
<1>3. CASE ~(w + d < TickMod)
  <2>1. wire = w + d - TickMod
    <3>1. w + d - TickMod \in Nat /\ w + d - TickMod < TickMod
      BY <1>1, <1>3 DEF w
    <3>2. ((q + 1) * TickMod + (w + d - TickMod)) % TickMod = w + d - TickMod
      BY <3>1, Remainder
    <3>3. (q + 1) * TickMod + (w + d - TickMod) = q * TickMod + w + d
      BY <1>1
    <3> QED
      BY <3>2, <3>3
  <2> HIDE DEF wire
  <2>2. wire < w /\ 0 < d /\ 2 * d < TickMod /\ w # TickMod /\ wire + TickMod - w = d /\ wire \in Nat
        /\ wire < TickMod
    BY <1>1, <1>3, <2>1 DEF w
  <2>3. (wire + TickMod - w) % TickMod = d
    <3>1. d < TickMod
      BY <1>1
    <3>2. (0 * TickMod + d) % TickMod = d
      BY <1>1, <3>1, Remainder
    <3>3. 0 * TickMod + d = d
      BY <1>1
    <3> QED
      BY <2>2, <3>2, <3>3
  <2>4. Lap(s, wire) = lap[s] + 1
    BY <2>2, <2>3 DEF Lap, w
  <2> QED
    BY <2>1, <2>2, <2>4 DEF w, wire
<1> QED
  BY <1>2, <1>3

-----------------------------------------------------------------------------
(* Logging an entry.                                                       *)

LEMMA EntriesFinite ==
  ASSUME NEW m \in Seq(Entry), NEW T, T \subseteq Entries(m)
  PROVE  Cardinality(T) \in Nat /\ (T = {} <=> Cardinality(T) = 0)
<1>1. Len(m) \in Nat /\ DOMAIN m = 1 .. Len(m)
  BY MapType
<1>2. IsFiniteSet(1 .. Len(m))
  BY <1>1, FS_Interval
<1> DEFINE f == [i \in 1 .. Len(m) |-> m[i]]
<1>3. f \in Surjection(1 .. Len(m), Entries(m))
  BY <1>1 DEF Surjection, Entries
<1>4. IsFiniteSet(Entries(m))
  BY <1>2, <1>3, FS_Surjection
<1>5. IsFiniteSet(T)
  BY <1>4, FS_Subset
<1> QED
  BY <1>5, FS_CardinalityType, FS_EmptySet

LEMMA LoggedFacts ==
  ASSUME NEW l \in Log, NEW s \in Side, NEW e \in Entry, NEW mine \in Seq(Entry),
         Once(mine), Once(l.map[Other(s)])
  PROVE  LET L     == Logged(l, s, e, mine)
             o     == Other(s)
             other == Theirs(l, s, e.key)
         IN  /\ L \in Log
             /\ Once(L.map[s]) /\ Once(L.map[o])
             /\ Len(L.map[s]) <= Len(mine) /\ Len(L.map[o]) <= Len(l.map[o])
             /\ \/ /\ other = {}
                   /\ L.map[s] = OldestOut(mine) /\ L.map[o] = l.map[o] /\ L.bad = l.bad
                \/ /\ other # {}
                   /\ L.map[s] = mine /\ L.map[o] = Without(l.map[o], e.key)
                   /\ L.bad = l.bad + Cardinality({x \in other : x.crc # e.crc})
<1> DEFINE L     == Logged(l, s, e, mine)
           o     == Other(s)
           other == Theirs(l, s, e.key)
<1>1. o \in Side /\ o # s /\ \A t \in Side : t = s \/ t = o
  BY Sides
<1>2. l.map \in [Side -> Seq(Entry)] /\ l.ok \in Nat /\ l.bad \in Nat
  BY DEF Log
<1>3. l.map[o] \in Seq(Entry)
  BY <1>1, <1>2
<1>4. e.key \in Nat
  BY DEF Entry
<1>5. CASE other = {}
  <2>1. L = [l EXCEPT !.map[s] = OldestOut(mine)]
    BY <1>5 DEF Logged
  <2>2. OldestOut(mine) \in Seq(Entry) /\ Len(OldestOut(mine)) <= Len(mine) /\ Once(OldestOut(mine))
    BY OldestOutFacts
  <2>3. L = [map |-> [l.map EXCEPT ![s] = OldestOut(mine)], ok |-> l.ok, bad |-> l.bad]
    BY <1>2, <2>1 DEF Log
  <2>4. [l.map EXCEPT ![s] = OldestOut(mine)] \in [Side -> Seq(Entry)]
    BY <1>2, <2>2
  <2>5. L \in Log
    BY <1>2, <2>3, <2>4 DEF Log
  <2>6. L.map[s] = OldestOut(mine) /\ L.map[o] = l.map[o] /\ L.bad = l.bad
    BY <1>1, <1>2, <2>3
  <2>7. Len(l.map[o]) \in Nat
    BY <1>3, MapType
  <2> HIDE DEF L, o, other
  <2> QED
    BY <1>5, <2>2, <2>5, <2>6, <2>7 DEF L, o, other
<1>6. CASE other # {}
  <2> DEFINE good == {x \in other : x.crc = e.crc}
             ill  == {x \in other : x.crc # e.crc}
             rest == Without(l.map[o], e.key)
  <2>1. L = [map |-> [l.map EXCEPT ![s] = mine, ![o] = rest],
             ok |-> l.ok + Cardinality(good), bad |-> l.bad + Cardinality(ill)]
    BY <1>6 DEF Logged
  <2>2. other \subseteq Entries(l.map[o])
    BY DEF Theirs
  <2>3. Cardinality(good) \in Nat /\ Cardinality(ill) \in Nat
    <3>1. good \subseteq Entries(l.map[o]) /\ ill \subseteq Entries(l.map[o])
      BY <2>2
    <3> HIDE DEF good, ill
    <3> QED
      BY <1>3, <3>1, EntriesFinite
  <2>4. At(l.map[o], e.key) # {}
    BY <1>6 DEF Theirs, Entries, At
  <2>5. rest \in Seq(Entry) /\ Len(rest) <= Len(l.map[o]) /\ Once(rest)
    BY <1>3, <1>4, <2>4, WithoutFacts
  <2> HIDE DEF good, ill, rest, other, o, L
  <2>6. [l.map EXCEPT ![s] = mine, ![o] = rest] \in [Side -> Seq(Entry)]
    BY <1>2, <2>5
  <2>7. L \in Log
    <3>1. l.ok + Cardinality(good) \in Nat /\ l.bad + Cardinality(ill) \in Nat
      BY <1>2, <2>3
    <3> QED
      BY <2>1, <2>6, <3>1 DEF Log
  <2>8. L.map[s] = mine /\ L.map[o] = rest /\ L.bad = l.bad + Cardinality(ill)
    BY <1>1, <1>2, <2>1
  <2>9. Len(mine) \in Nat
    BY MapType
  <2> QED
    BY <1>6, <2>5, <2>7, <2>8, <2>9 DEF L, o, other, ill, rest
<1> QED
  BY <1>5, <1>6

(* A record of console s, ticks on: what Report does, variable by variable. *)
Reports(s, d, p, e) ==
  LET o    == Other(s)
      wire == p.tick % TickMod
  IN  /\ p = [match |-> play[s].match, tick |-> play[s].tick + d]
      /\ First <= p.tick /\ p.tick <= upto[s]
      /\ e = [key |-> Lap(s, wire) * TickMod + wire, crc |-> Sum(s, p)]
      /\ play' = [play EXCEPT ![s] = p]
      /\ upto'[s] = upto[s]
      /\ upto'[o] = IF p.match = play[o].match THEN p.tick + Lead ELSE upto[o]
      /\ lap' = [lap EXCEPT ![s] = Lap(s, wire)]
      /\ lastTick' = [lastTick EXCEPT ![s] = wire]
      /\ py' = Logged(py, s, e, Put(py.map[s], e))
      /\ c'  = Logged(c, s, e, PutSlot(c.map[s], e))
      /\ upto' \in [Side -> Nat] /\ again' \in 0 .. MaxAgain
      /\ mixed' = (mixed \/ (paired /\ p.match < match))
      /\ gave'  = gave \cup {x \in {s} : p = odd /\ paired /\ match = odd.match}
      /\ said'  = (said \/ \E x \in Theirs(py, s, e.key) :
                              x.crc = Sum(Other(s), odd) /\ e.crc = Sum(s, odd))
      /\ round' = IF Theirs(py, s, e.key) = {} THEN round
                  ELSE {x.crc : x \in Theirs(py, s, e.key)} \cup {e.crc}
      /\ UNCHANGED <<match, paired, odd>>

LEMMA LapType ==
  ASSUME NEW s \in Side, lap[s] \in Nat, NEW wire
  PROVE  Lap(s, wire) \in Nat
BY DEF Lap

LEMMA ReportFacts ==
  ASSUME LogTypeOK, NEW s \in Side, Report(s)
  PROVE  \E d \in 0 .. Gap, p \in [match: 1 .. MaxMatches, tick: Nat], e \in Entry : Reports(s, d, p, e)
<1>1. PICK d \in 0 .. Gap :
        LET p == [play[s] EXCEPT !.tick = @ + d]
        IN  /\ First <= p.tick /\ p.tick <= upto[s]
            /\ d = 0 => again < MaxAgain
            /\ again' = IF d = 0 THEN again + 1 ELSE again
            /\ play' = [play EXCEPT ![s] = p]
            /\ upto' = IF p.match = play[Other(s)].match
                       THEN [upto EXCEPT ![Other(s)] = p.tick + Lead] ELSE upto
            /\ LogCrc(s, p)
  BY DEF Report
<1> DEFINE q    == [play[s] EXCEPT !.tick = @ + d]
           p    == [match |-> play[s].match, tick |-> play[s].tick + d]
           wire == p.tick % TickMod
           e    == [key |-> Lap(s, wire) * TickMod + wire, crc |-> Sum(s, p)]
<1>2. /\ play \in [Side -> [match: 1 .. MaxMatches, tick: Nat]] /\ upto \in [Side -> Nat]
      /\ lap \in [Side -> Nat] /\ lastTick \in [Side -> 0 .. TickMod]
  BY DEF LogTypeOK
<1>3. d \in Nat /\ Gap \in Nat /\ TickMod \in Nat \ {0}
  BY LogAssumption
<1>4. q = p /\ p \in [match: 1 .. MaxMatches, tick: Nat]
  BY <1>2, <1>3
<1>5. wire \in Nat
  BY <1>3, <1>4
<1>6. Sum(s, p) \in Crc
  BY <1>4 DEF Sum, Crc
<1>7. Lap(s, wire) \in Nat
  BY <1>2, LapType
<1>8. e \in Entry
  BY <1>3, <1>5, <1>6, <1>7 DEF Entry
<1>9. Other(s) \in Side /\ Other(s) # s
  BY Sides
<1> HIDE DEF q
<1>10. /\ First <= p.tick /\ p.tick <= upto[s]
       /\ play' = [play EXCEPT ![s] = p]
       /\ upto' = IF p.match = play[Other(s)].match
                  THEN [upto EXCEPT ![Other(s)] = p.tick + Lead] ELSE upto
       /\ LogCrc(s, p)
  BY <1>1, <1>4 DEF q
<1>11. /\ upto'[s] = upto[s]
       /\ upto'[Other(s)] = IF p.match = play[Other(s)].match THEN p.tick + Lead ELSE upto[Other(s)]
  BY <1>2, <1>9, <1>10
<1>21. upto' \in [Side -> Nat]
  <2>1. p.tick + Lead \in Nat
    BY <1>4, LogAssumption
  <2> HIDE DEF p
  <2> QED
    BY <1>2, <1>10, <2>1
<1>22. again' \in 0 .. MaxAgain
  <2>1. (d = 0 => again < MaxAgain) /\ again' = IF d = 0 THEN again + 1 ELSE again
    BY <1>1
  <2>2. again \in 0 .. MaxAgain /\ MaxAgain \in Nat
    BY LogAssumption DEF LogTypeOK
  <2> QED
    BY <2>1, <2>2
<1>12. UNCHANGED <<match, paired, odd>>
  BY DEF Report
<1> HIDE DEF p
<1> DEFINE met == {x.crc : x \in Theirs(py, s, e.key)}
<1>13. /\ lap' = [lap EXCEPT ![s] = Lap(s, wire)]
       /\ lastTick' = [lastTick EXCEPT ![s] = wire]
       /\ py' = Logged(py, s, e, Put(py.map[s], e))
       /\ c'  = Logged(c, s, e, PutSlot(c.map[s], e))
       /\ mixed' = (mixed \/ (paired /\ p.match < match))
       /\ gave'  = gave \cup {x \in {s} : p = odd /\ paired /\ match = odd.match}
       /\ said'  = (said \/ \E x \in met : x = Sum(Other(s), odd) /\ e.crc = Sum(s, odd))
       /\ round' = IF met = {} THEN round ELSE met \cup {e.crc}
  BY <1>10 DEF LogCrc
<1> HIDE DEF e, wire
<1>14. met = {} <=> Theirs(py, s, e.key) = {}
  OBVIOUS
<1>15. (\E x \in met : x = Sum(Other(s), odd) /\ e.crc = Sum(s, odd))
       <=> \E x \in Theirs(py, s, e.key) : x.crc = Sum(Other(s), odd) /\ e.crc = Sum(s, odd)
  OBVIOUS
<1>16. round' = IF Theirs(py, s, e.key) = {} THEN round
                ELSE {x.crc : x \in Theirs(py, s, e.key)} \cup {e.crc}
  BY <1>13, <1>14
<1>17. said' = (said \/ \E x \in Theirs(py, s, e.key) :
                           x.crc = Sum(Other(s), odd) /\ e.crc = Sum(s, odd))
  BY <1>13, <1>15, Zenon
<1>18. p = [match |-> play[s].match, tick |-> play[s].tick + d]
  BY DEF p
<1>19. e = [key |-> Lap(s, p.tick % TickMod) * TickMod + (p.tick % TickMod), crc |-> Sum(s, p)]
  BY Zenon DEF e, wire
<1>20. Reports(s, d, p, e)
  BY <1>10, <1>11, <1>12, <1>13, <1>16, <1>17, <1>18, <1>19, <1>21, <1>22, Zenon DEF Reports, wire
<1> QED
  BY <1>4, <1>8, <1>20

(* The array of the C port.                                                *)
LEMMA PutSlotFacts ==
  ASSUME NEW m \in Seq(Entry), NEW e \in Entry, Len(m) <= Slots, Once(m)
  PROVE  PutSlot(m, e) \in Seq(Entry) /\ Len(PutSlot(m, e)) <= Slots /\ Once(PutSlot(m, e))
<1>1. Len(m) \in Nat /\ Slots \in Nat /\ Slots >= 1
  BY MapType, LogAssumption
<1>2. CASE At(m, e.key) # {}
  <2>1. PutSlot(m, e) = Put(m, e)
    BY <1>2 DEF PutSlot
  <2>2. Put(m, e) \in Seq(Entry) /\ Len(Put(m, e)) = Len(m)
    BY <1>2, PutFacts
  <2>3. Once(Put(m, e))
    BY PutKeys
  <2> QED
    BY <2>1, <2>2, <2>3
<1>3. CASE At(m, e.key) = {}
  <2> DEFINE k == IF Len(m) < Slots THEN Len(m) ELSE Slots - 1
             w == SubSeq(m, 1, k)
  <2>1. k \in Nat /\ k <= Len(m) /\ k + 1 <= Slots
    BY <1>1
  <2>2. PutSlot(m, e) = Append(w, e)
    BY <1>3 DEF PutSlot
  <2> HIDE DEF k
  <2>3. w \in Seq(Entry) /\ Len(w) = k /\ Entries(w) \subseteq Entries(m) /\ Once(w)
    BY <2>1, PieceFacts
  <2> HIDE DEF w
  <2>4. At(w, e.key) = {}
    BY <1>3, <2>3 DEF At, Entries
  <2>5. Append(w, e) = Put(w, e)
    BY <2>4 DEF Put
  <2>6. Append(w, e) \in Seq(Entry) /\ Len(Append(w, e)) = k + 1
    BY <2>3
  <2>7. Once(Append(w, e))
    BY <2>3, <2>5, PutKeys
  <2> QED
    BY <2>1, <2>2, <2>6, <2>7
<1> QED
  BY <1>2, <1>3

LEMMA BeyondFacts ==
  ASSUME NEW m \in Seq(Entry)
  PROVE  Beyond(m) \subseteq Entries(m) /\ (Len(m) <= Keep => Beyond(m) = {})
<1>1. Len(m) \in Nat /\ DOMAIN m = 1 .. Len(m) /\ Keep \in Nat
  BY MapType, LogAssumption
<1>2. Beyond(m) \subseteq Entries(m)
  BY DEF Beyond, Entries
<1>3. ASSUME Len(m) <= Keep PROVE {j \in DOMAIN m : Keep < j} = {}
  BY <1>1, <1>3
<1> QED
  BY <1>2, <1>3 DEF Beyond

(* Only an entry beyond the Keep oldest is ever left out for want of a slot. *)
LEMMA PutSlotKeeps ==
  ASSUME NEW m \in Seq(Entry), NEW e \in Entry, Len(m) <= Slots
  PROVE  LET w == PutSlot(m, e)
         IN  /\ Entries(w) \subseteq Entries(m) \cup {e} /\ e \in Entries(w)
             /\ \A x \in Entries(m) : x.key # e.key => x \in Entries(w) \/ x \in Beyond(m)
             /\ Beyond(w) \subseteq Beyond(m) \cup {e}
             /\ Rise(m) /\ Upper(m, e.key) => Rise(w) /\ Upper(w, e.key)
             /\ Len(m) <= Keep => w = Put(m, e)
<1>1. Len(m) \in Nat /\ DOMAIN m = 1 .. Len(m) /\ Slots \in Nat /\ Keep \in Nat \ {0} /\ Keep < Slots
  BY MapType, LogAssumption
<1>2. CASE At(m, e.key) # {}
  <2>1. PutSlot(m, e) = Put(m, e)
    BY <1>2 DEF PutSlot
  <2>2. /\ Put(m, e) \in Seq(Entry) /\ Len(Put(m, e)) = Len(m)
        /\ \A i \in 1 .. Len(m) : Put(m, e)[i] = IF m[i].key # e.key THEN m[i] ELSE e
    <3>1. /\ Put(m, e) \in Seq(Entry) /\ Len(Put(m, e)) = Len(m)
          /\ \A i \in 1 .. Len(Put(m, e)) :
               Put(m, e)[i] = IF i <= Len(m) /\ m[i].key # e.key THEN m[i] ELSE e
      BY <1>2, PutFacts
    <3>2. \A i \in 1 .. Len(m) : i <= Len(m)
      BY <1>1
    <3> QED
      BY <3>1, <3>2
  <2>3. DOMAIN Put(m, e) = 1 .. Len(m)
    BY <2>2, MapType
  <2>4. Beyond(Put(m, e)) \subseteq Beyond(m) \cup {e}
    BY <1>1, <2>2, <2>3 DEF Beyond
  <2> QED
    BY <2>1, <2>4, PutKeys
<1>3. CASE At(m, e.key) = {}
  <2> DEFINE k == IF Len(m) < Slots THEN Len(m) ELSE Slots - 1
             u == SubSeq(m, 1, k)
             w == Append(u, e)
  <2>1. k \in Nat /\ k <= Len(m) /\ k + 1 <= Slots /\ (k = Len(m) \/ Keep <= k)
    BY <1>1
  <2>0. \A i \in 1 .. k : i \in 1 .. Len(m)
    BY <1>1
  <2>2. PutSlot(m, e) = w
    BY <1>3 DEF PutSlot
  <2>3. Len(m) <= Keep => k = Len(m)
    BY <1>1
  <2>4. \A i \in 1 .. Len(m) : i \in 1 .. k \/ Keep < i
    BY <1>1, <2>1
  <2> HIDE DEF k
  <2>5. /\ u \in Seq(Entry) /\ Len(u) = k /\ Entries(u) \subseteq Entries(m)
        /\ \A i \in 1 .. k : u[i] = m[i]
        /\ Rise(m) => Rise(u)
    BY <2>1, PieceFacts
  <2>6. DOMAIN u = 1 .. k
    BY <2>5, MapType
  <2>7. k = Len(m) => u = m
    BY <1>1, <2>5, <2>6
  <2> HIDE DEF u
  <2>8. At(u, e.key) = {}
    BY <1>3, <2>5 DEF At, Entries
  <2>9. w = Put(u, e)
    BY <2>8 DEF Put
  <2>10. Entries(w) = {x \in Entries(u) : x.key # e.key} \cup {e}
    BY <2>5, <2>9, PutKeys
  <2>11. ASSUME NEW x \in Entries(m), x.key # e.key PROVE x \in Entries(w) \/ x \in Beyond(m)
    <3>1. PICK i \in 1 .. Len(m) : x = m[i]
      BY <1>1 DEF Entries
    <3>2. CASE i \in 1 .. k
      <4>1. x \in Entries(u)
        BY <2>5, <2>6, <3>1, <3>2 DEF Entries
      <4> QED
        BY <2>10, <2>11, <4>1
    <3>3. CASE Keep < i
      BY <1>1, <3>1, <3>3 DEF Beyond
    <3> QED
      BY <2>4, <3>1, <3>2, <3>3
  <2>12. Beyond(w) \subseteq Beyond(m) \cup {e}
    <3>1. /\ w \in Seq(Entry) /\ Len(w) = k + 1
          /\ \A i \in 1 .. k + 1 : w[i] = IF i <= k THEN u[i] ELSE e
      BY <2>1, <2>5
    <3>2. DOMAIN w = 1 .. k + 1
      BY <3>1, MapType
    <3> HIDE DEF w
    <3> SUFFICES ASSUME NEW i \in 1 .. k + 1, Keep < i PROVE w[i] \in Beyond(m) \cup {e}
      BY <3>2 DEF Beyond
    <3>3. CASE i <= k
      <4>1. i \in 1 .. k /\ i \in 1 .. Len(m)
        <5>1. i \in 1 .. k
          BY <2>1, <3>3
        <5> QED
          BY <2>0, <5>1
      <4>2. w[i] = m[i]
        BY <2>5, <3>1, <3>3, <4>1
      <4> QED
        BY <1>1, <4>1, <4>2 DEF Beyond
    <3>4. CASE ~(i <= k)
      BY <3>1, <3>4
    <3> QED
      BY <3>3, <3>4
  <2>13. ASSUME Rise(m), Upper(m, e.key) PROVE Rise(w) /\ Upper(w, e.key)
    <3>1. \A i \in 1 .. k : i \in 1 .. Len(m) /\ u[i] = m[i]
      BY <2>0, <2>5, Zenon
    <3>2. Upper(u, e.key)
      BY <1>1, <2>6, <2>13, <3>1 DEF Upper
    <3> QED
      BY <2>5, <2>9, <2>13, <3>2, PutKeys
  <2>14. Len(m) <= Keep => w = Put(m, e)
    BY <2>3, <2>7, <2>9
  <2> HIDE DEF w
  <2> QED
    BY <2>2, <2>5, <2>10, <2>11, <2>12, <2>13, <2>14
<1> QED
  BY <1>2, <1>3

(* The maps, with what their entries come to.                              *)
LEMMA MapTypes ==
  ASSUME LogTypeOK, KeysOnce, NEW s \in Side
  PROVE  /\ py \in Log /\ c \in Log
         /\ py.map[s] \in Seq(Entry) /\ c.map[s] \in Seq(Entry)
         /\ Once(py.map[s]) /\ Once(c.map[s]) /\ Len(c.map[s]) <= Slots
<1>1. py \in Log /\ c \in Log /\ Len(c.map[s]) <= Slots
  BY DEF LogTypeOK
<1>2. py.map[s] \in Seq(Entry) /\ c.map[s] \in Seq(Entry)
  BY <1>1 DEF Log
<1>3. Once(py.map[s]) /\ Once(c.map[s])
  BY DEF KeysOnce, Once
<1> QED
  BY <1>1, <1>2, <1>3

(* What the Python's maps are after a record.                              *)
LEMMA PyStep ==
  ASSUME LogTypeOK, KeysOnce, NEW s \in Side, NEW d, NEW p, NEW e \in Entry, Reports(s, d, p, e)
  PROVE  LET o    == Other(s)
             mine == Put(py.map[s], e)
             met  == Theirs(py, s, e.key)
         IN  /\ py' \in Log /\ Once(py'.map[s]) /\ Once(py'.map[o])
             /\ \/ /\ met = {}
                   /\ py'.map[s] = OldestOut(mine) /\ py'.map[o] = py.map[o] /\ py'.bad = py.bad
                \/ /\ met # {}
                   /\ py'.map[s] = mine /\ py'.map[o] = Without(py.map[o], e.key)
                   /\ py'.bad = py.bad + Cardinality({x \in met : x.crc # e.crc})
<1>1. Other(s) \in Side
  BY Sides
<1>2. py \in Log /\ py.map[s] \in Seq(Entry) /\ Once(py.map[s]) /\ Once(py.map[Other(s)])
  BY <1>1, MapTypes
<1>3. Put(py.map[s], e) \in Seq(Entry) /\ Once(Put(py.map[s], e))
  BY <1>2, PutFacts, PutKeys
<1> DEFINE mine == Put(py.map[s], e)
           L == Logged(py, s, e, mine)
<1>4. py' = L
  BY DEF Reports
<1> HIDE DEF mine
<1>5. /\ L \in Log /\ Once(L.map[s]) /\ Once(L.map[Other(s)])
      /\ \/ /\ Theirs(py, s, e.key) = {}
            /\ L.map[s] = OldestOut(mine) /\ L.map[Other(s)] = py.map[Other(s)] /\ L.bad = py.bad
         \/ /\ Theirs(py, s, e.key) # {}
            /\ L.map[s] = mine /\ L.map[Other(s)] = Without(py.map[Other(s)], e.key)
            /\ L.bad = py.bad + Cardinality({x \in Theirs(py, s, e.key) : x.crc # e.crc})
  <2> HIDE DEF L
  <2> QED
    BY <1>2, <1>3, LoggedFacts DEF L, mine
<1> HIDE DEF L
<1> QED
  BY <1>4, <1>5 DEF mine

LEMMA CStep ==
  ASSUME LogTypeOK, KeysOnce, NEW s \in Side, NEW d, NEW p, NEW e \in Entry, Reports(s, d, p, e)
  PROVE  /\ c' \in Log /\ Once(c'.map[s]) /\ Once(c'.map[Other(s)])
         /\ Len(c'.map[s]) <= Slots /\ Len(c'.map[Other(s)]) <= Slots
         /\ \/ /\ Theirs(c, s, e.key) = {}
               /\ c'.map[s] = OldestOut(PutSlot(c.map[s], e)) /\ c'.map[Other(s)] = c.map[Other(s)]
               /\ c'.bad = c.bad
            \/ /\ Theirs(c, s, e.key) # {}
               /\ c'.map[s] = PutSlot(c.map[s], e)
               /\ c'.map[Other(s)] = Without(c.map[Other(s)], e.key)
               /\ c'.bad = c.bad + Cardinality({x \in Theirs(c, s, e.key) : x.crc # e.crc})
<1> DEFINE o == Other(s)
           mine == PutSlot(c.map[s], e)
           L == Logged(c, s, e, mine)
<1>1. o \in Side
  BY Sides
<1>2. /\ c \in Log /\ c.map[s] \in Seq(Entry) /\ Len(c.map[s]) <= Slots /\ Once(c.map[s])
      /\ Once(c.map[o]) /\ Len(c.map[o]) <= Slots /\ c.map[o] \in Seq(Entry)
  BY <1>1, MapTypes
<1>3. mine \in Seq(Entry) /\ Len(mine) <= Slots /\ Once(mine)
  BY <1>2, PutSlotFacts
<1> HIDE DEF mine
<1>4. /\ L \in Log /\ Once(L.map[s]) /\ Once(L.map[o])
      /\ Len(L.map[s]) <= Len(mine) /\ Len(L.map[o]) <= Len(c.map[o])
      /\ \/ /\ Theirs(c, s, e.key) = {}
            /\ L.map[s] = OldestOut(mine) /\ L.map[o] = c.map[o] /\ L.bad = c.bad
         \/ /\ Theirs(c, s, e.key) # {}
            /\ L.map[s] = mine /\ L.map[o] = Without(c.map[o], e.key)
            /\ L.bad = c.bad + Cardinality({x \in Theirs(c, s, e.key) : x.crc # e.crc})
  <2> HIDE DEF o, L
  <2> QED
    BY <1>2, <1>3, LoggedFacts DEF o, L
<1> HIDE DEF L
<1>5. L.map[s] \in Seq(Entry) /\ L.map[o] \in Seq(Entry)
  BY <1>1, <1>4 DEF Log
<1>6. Len(L.map[s]) \in Nat /\ Len(L.map[o]) \in Nat /\ Len(mine) \in Nat /\ Len(c.map[o]) \in Nat
  BY <1>2, <1>3, <1>5, MapType
<1>7. Len(L.map[s]) <= Slots /\ Len(L.map[o]) <= Slots
  BY <1>2, <1>3, <1>4, <1>6, LogAssumption
<1>8. c' = L
  BY DEF Reports, L, mine
<1> QED
  BY <1>4, <1>7, <1>8 DEF mine

LEMMA ReportTypes ==
  ASSUME LogTypeOK, KeysOnce, NEW s \in Side, NEW d \in 0 .. Gap,
         NEW p \in [match: 1 .. MaxMatches, tick: Nat], NEW e \in Entry, Reports(s, d, p, e)
  PROVE  LogTypeOK' /\ KeysOnce'
<1>1. \A t \in Side : t = s \/ t = Other(s)
  BY Sides
<1>2. /\ py' \in Log /\ Once(py'.map[s]) /\ Once(py'.map[Other(s)])
      /\ c' \in Log /\ Once(c'.map[s]) /\ Once(c'.map[Other(s)])
      /\ Len(c'.map[s]) <= Slots /\ Len(c'.map[Other(s)]) <= Slots
  BY PyStep, CStep
<1>3. \A t \in Side : Once(py'.map[t]) /\ Once(c'.map[t]) /\ Len(c'.map[t]) <= Slots
  BY <1>1, <1>2
<1>4. KeysOnce'
  BY <1>3 DEF KeysOnce, Once
<1>5. play' \in [Side -> [match: 1 .. MaxMatches, tick: Nat]] /\ upto' \in [Side -> Nat]
  BY DEF Reports, LogTypeOK
<1>6. match' \in 1 .. MaxMatches /\ again' \in 0 .. MaxAgain
  BY DEF Reports, LogTypeOK
<1>7. {paired', mixed', said'} \subseteq BOOLEAN
  BY DEF Reports, LogTypeOK
<1>8. p.tick % TickMod \in 0 .. TickMod - 1
  BY LogAssumption
<1>9. lap' \in [Side -> Nat] /\ lastTick' \in [Side -> 0 .. TickMod]
  <2>1. Lap(s, p.tick % TickMod) \in Nat
    BY LapType DEF LogTypeOK
  <2>2. p.tick % TickMod \in 0 .. TickMod
    BY <1>8, LogAssumption
  <2> QED
    BY <2>1, <2>2 DEF Reports, LogTypeOK
<1>10. odd' \in [match: 1 .. MaxMatches, tick: OddTicks] /\ gave' \subseteq Side
  BY DEF Reports, LogTypeOK
<1>11. round' \subseteq Crc
  <2>1. e.crc \in Crc
    BY DEF Entry
  <2>2. \A x \in Theirs(py, s, e.key) : x.crc \in Crc
    <3>1. Other(s) \in Side
      BY Sides
    <3>2. py.map[Other(s)] \in Seq(Entry)
      BY <3>1, MapTypes
    <3> QED
      BY <3>2, MapType DEF Theirs, Entries
  <2>3. {x.crc : x \in Theirs(py, s, e.key)} \cup {e.crc} \subseteq Crc
    BY <2>1, <2>2
  <2>4. round' = round \/ round' = {x.crc : x \in Theirs(py, s, e.key)} \cup {e.crc}
    BY Zenon DEF Reports
  <2> QED
    BY <2>3, <2>4 DEF LogTypeOK
<1>12. LogTypeOK'
  BY <1>2, <1>3, <1>5, <1>6, <1>7, <1>9, <1>10, <1>11 DEF LogTypeOK
<1> QED
  BY <1>4, <1>12

-----------------------------------------------------------------------------
(* What a record does to each part of the invariant.                       *)

(* The side that reports: its lap fits its tick, or is too high; where it   *)
(* fits, it fitted before, and the key is the tick.                        *)
LEMMA LapStep ==
  ASSUME LogTypeOK, Playing, Counted, NEW s \in Side, NEW d \in 0 .. Gap,
         NEW p \in [match: 1 .. MaxMatches, tick: Nat], NEW e \in Entry, Reports(s, d, p, e)
  PROVE  /\ Placed(s)' /\ p.tick >= First
         /\ Straight(s)' => Straight(s) /\ e.key = p.tick
         /\ Straight(s) /\ (play[s].tick = First - 1 => lastTick[s] = TickMod) => Straight(s)'
<1>1. /\ TickMod \in Nat \ {0} /\ First \in 1 .. TickMod - 1 /\ First + Gap <= TickMod /\ Gap \in Nat
      /\ d \in Nat /\ d <= Gap
  BY LogAssumption, ReachAssumption
<1>2. /\ lap[s] \in Nat /\ lastTick[s] \in 0 .. TickMod /\ lap \in [Side -> Nat]
      /\ lastTick \in [Side -> 0 .. TickMod] /\ play[s].tick \in Nat /\ play \in [Side -> [match: 1 .. MaxMatches, tick: Nat]]
  BY DEF LogTypeOK
<1> DEFINE wire == p.tick % TickMod
           l    == Lap(s, wire)
<1>3. /\ p.tick = play[s].tick + d /\ p.tick >= First
      /\ lap'[s] = l /\ lastTick'[s] = wire /\ play'[s].tick = p.tick
      /\ e.key = l * TickMod + wire
  BY <1>2 DEF Reports
<1>4. l \in Nat
  BY <1>2, LapType
<1> HIDE DEF l, wire
<1>5. CASE Placed(s)
  <2>1. PICK q \in 0 .. lap[s] : play[s].tick = q * TickMod + lastTick[s]
    BY <1>5 DEF Placed
  <2>2. lastTick[s] \in Nat /\ lastTick[s] < TickMod /\ q \in Nat /\ q <= lap[s]
    BY <1>2, <1>5, <2>1 DEF Placed
  <2>3. p.tick = q * TickMod + lastTick[s] + d
    BY <1>3, <2>1
  <2>4. /\ wire \in Nat /\ wire < TickMod
        /\ \/ wire = lastTick[s] + d /\ l = lap[s]
           \/ wire = lastTick[s] + d - TickMod /\ l = lap[s] + 1
    BY <1>2, <2>2, <2>3, LapCounts DEF l, wire
  <2>5. PICK n \in Nat : /\ n - q = l - lap[s]
                         /\ p.tick = n * TickMod + wire
    <3>1. CASE wire = lastTick[s] + d /\ l = lap[s]
      <4>1. p.tick = q * TickMod + wire
        BY <1>1, <2>2, <2>3, <3>1
      <4> QED
        BY <1>2, <2>2, <3>1, <4>1
    <3>2. CASE wire = lastTick[s] + d - TickMod /\ l = lap[s] + 1
      <4>1. p.tick = (q + 1) * TickMod + wire
        BY <1>1, <1>2, <2>2, <2>3, <3>2
      <4>2. (q + 1) - q = l - lap[s] /\ q + 1 \in Nat
        BY <1>2, <2>2, <3>2
      <4> QED
        BY <4>1, <4>2
    <3> QED
      BY <2>4, <3>1, <3>2
  <2>6. n \in 0 .. l
    BY <1>2, <1>4, <2>2, <2>5
  <2>7. Placed(s)'
    <3>1. lastTick'[s] < TickMod /\ play'[s].tick = n * TickMod + lastTick'[s] /\ n \in 0 .. lap'[s]
      BY <1>3, <2>4, <2>5, <2>6
    <3> QED
      BY <3>1 DEF Placed
  <2>8. ASSUME l * TickMod <= p.tick PROVE n = l
    <3>1. l * TickMod <= n * TickMod + wire
      BY <2>5, <2>8
    <3>2. n < l => (n + 1) * TickMod <= l * TickMod
      BY <1>1, <1>4, <2>5
    <3> QED
      BY <1>1, <1>4, <2>4, <2>5, <2>6, <3>1, <3>2
  <2>9. ASSUME lap[s] * TickMod <= play[s].tick PROVE q = lap[s]
    <3>1. lap[s] * TickMod <= q * TickMod + lastTick[s]
      BY <2>1, <2>9
    <3>2. q < lap[s] => (q + 1) * TickMod <= lap[s] * TickMod
      BY <1>1, <1>2, <2>2
    <3>3. (q + 1) * TickMod = q * TickMod + TickMod /\ q * TickMod \in Nat
      BY <1>1, <2>2
    <3>4. ~(q < lap[s])
      <4> SUFFICES ASSUME q < lap[s] PROVE FALSE
        OBVIOUS
      <4>1. q * TickMod + TickMod <= lap[s] * TickMod
        BY <3>2, <3>3
      <4>2. lap[s] * TickMod \in Nat
        BY <1>1, <1>2
      <4> QED
        BY <1>1, <2>2, <3>1, <3>3, <4>1, <4>2
    <3>5. q \in Int /\ lap[s] \in Int /\ q <= lap[s]
      BY <1>2, <2>2
    <3> QED
      BY <3>4, <3>5
  <2>10. ASSUME Straight(s)' PROVE Straight(s) /\ e.key = p.tick
    <3>1. n = l
      BY <1>3, <2>8, <2>10 DEF Straight
    <3>2. q = lap[s]
      <4>1. n - q = l - lap[s]
        BY <2>5
      <4>2. q \in Int /\ lap[s] \in Int /\ l \in Int
        BY <1>2, <1>4, <2>2
      <4> QED
        BY <3>1, <4>1, <4>2
    <3>3. e.key = p.tick
      BY <1>3, <2>5, <3>1
    <3>4. lap[s] * TickMod <= play[s].tick
      BY <1>1, <1>2, <2>1, <2>2, <3>2
    <3> QED
      BY <3>3, <3>4 DEF Straight
  <2>11. ASSUME Straight(s) PROVE Straight(s)'
    <3>1. q = lap[s]
      BY <2>9, <2>11 DEF Straight
    <3>2. n = l
      BY <1>2, <1>4, <2>2, <2>5, <3>1
    <3>3. l * TickMod <= p.tick
      BY <1>1, <1>4, <2>4, <2>5, <3>2
    <3> QED
      BY <1>3, <3>3 DEF Straight
  <2> QED
    BY <1>3, <2>7, <2>10, <2>11
<1>6. CASE play[s].tick = First - 1
  <2>1. p.tick \in Nat /\ p.tick < TickMod
    BY <1>1, <1>3, <1>6
  <2>2. wire = p.tick
    <3>1. (0 * TickMod + p.tick) % TickMod = p.tick
      BY <2>1, Remainder
    <3>2. 0 * TickMod + p.tick = p.tick
      BY <1>1, <2>1
    <3> QED
      BY <3>1, <3>2 DEF wire
  <2>3. Placed(s)'
    <3>1. p.tick = 0 * TickMod + wire /\ 0 \in 0 .. l
      BY <1>1, <1>4, <2>1, <2>2
    <3>2. lastTick'[s] < TickMod /\ play'[s].tick = 0 * TickMod + lastTick'[s] /\ 0 \in 0 .. lap'[s]
      BY <1>3, <2>1, <2>2, <3>1
    <3> QED
      BY <3>2 DEF Placed
  <2>4. ASSUME Straight(s)' PROVE Straight(s) /\ e.key = p.tick
    <3>1. l * TickMod <= p.tick
      BY <1>3, <2>4 DEF Straight
    <3>2. l = 0
      <4>1. l >= 1 => l * TickMod >= TickMod
        BY <1>1, <1>4
      <4> QED
        BY <1>1, <1>4, <2>1, <3>1, <4>1
    <3>3. e.key = p.tick
      BY <1>1, <1>3, <2>1, <2>2, <3>2
    <3>4. lap[s] = 0
      BY <1>2, <3>2 DEF l, Lap
    <3>5. lap[s] * TickMod <= play[s].tick
      BY <1>1, <1>2, <3>4
    <3> QED
      BY <3>3, <3>5 DEF Straight
  <2>5. ASSUME Straight(s), lastTick[s] = TickMod PROVE Straight(s)'
    <3>1. lap[s] = 0
      BY <2>5 DEF Counted
    <3>2. l = 0
      BY <2>5, <3>1 DEF l, Lap
    <3>3. l * TickMod <= p.tick
      BY <1>1, <2>1, <3>2
    <3> QED
      BY <1>3, <3>3 DEF Straight
  <2> QED
    BY <1>3, <1>6, <2>3, <2>4, <2>5
<1> QED
  BY <1>5, <1>6 DEF Counted

(* The other side stays as it is.                                          *)
LEMMA OtherSide ==
  ASSUME LogTypeOK, NEW s \in Side, NEW d, NEW p, NEW e, Reports(s, d, p, e)
  PROVE  LET o == Other(s)
         IN  /\ play'[o] = play[o] /\ lap'[o] = lap[o] /\ lastTick'[o] = lastTick[o]
             /\ Placed(o)' <=> Placed(o)
             /\ Straight(o)' <=> Straight(o)
<1>1. Other(s) \in Side /\ Other(s) # s
  BY Sides
<1> DEFINE o == Other(s)
<1>2. play'[o] = play[o] /\ lap'[o] = lap[o] /\ lastTick'[o] = lastTick[o]
  BY <1>1 DEF Reports, LogTypeOK
<1> QED
  BY <1>2 DEF Placed, Straight

LEMMA CountedStep ==
  ASSUME LogTypeOK, Playing, Counted, NEW s \in Side, NEW d \in 0 .. Gap,
         NEW p \in [match: 1 .. MaxMatches, tick: Nat], NEW e \in Entry, Reports(s, d, p, e)
  PROVE  /\ Counted'
         /\ Straight("old")' => Straight("old") /\ e.key = p.tick
<1>1. \A t \in Side : t = s \/ t = Other(s)
  BY Sides
<1>2. match' = match /\ play'[s].tick = p.tick /\ lastTick'[s] \in 0 .. TickMod - 1
  <2>1. p.tick % TickMod \in 0 .. TickMod - 1
    BY LogAssumption
  <2>2. lastTick'[s] = p.tick % TickMod /\ play'[s].tick = p.tick /\ match' = match
    BY DEF Reports, LogTypeOK
  <2> QED
    BY <2>1, <2>2
<1>3. Counted'
  <2>1. \A t \in Side : Placed(t)' \/ play'[t].tick = First - 1
    BY <1>1, LapStep, OtherSide DEF Counted
  <2>2. \A t \in Side : lastTick'[t] = TickMod => lap'[t] = 0
    <3>1. lastTick'[s] # TickMod
      BY <1>2, LogAssumption
    <3> QED
      BY <1>1, <3>1, OtherSide DEF Counted
  <2>3. ASSUME NEW t \in Side, t = "new" \/ match' = 1
        PROVE  Straight(t)' /\ (play'[t].tick = First - 1 => lastTick'[t] = TickMod)
    <3>1. Straight(t) /\ (play[t].tick = First - 1 => lastTick[t] = TickMod)
      BY <1>2, <2>3 DEF Counted
    <3>2. CASE t = s
      <4>1. play'[s].tick # First - 1
        BY <1>2, LapStep, LogAssumption
      <4> QED
        BY <3>1, <3>2, <4>1, LapStep
    <3>3. CASE t = Other(s)
      BY <3>1, <3>3, OtherSide
    <3> QED
      BY <1>1, <3>2, <3>3
  <2> QED
    BY <2>1, <2>2, <2>3 DEF Counted
<1>4. ASSUME Straight("old")' PROVE Straight("old") /\ e.key = p.tick
  <2>1. CASE s = "old"
    BY <1>4, <2>1, LapStep
  <2>2. CASE s = "new"
    <3>1. Straight("new")'
      BY <1>3, <2>2 DEF Counted
    <3>2. e.key = p.tick
      BY <2>2, <3>1, LapStep
    <3>3. Straight("old")
      BY <1>4, <2>2, OtherSide, Sides
    <3> QED
      BY <3>2, <3>3
  <2> QED
    BY <2>1, <2>2 DEF Side
<1> QED
  BY <1>3, <1>4

LEMMA PlayingStep ==
  ASSUME LogTypeOK, Playing, NEW s \in Side, NEW d \in 0 .. Gap,
         NEW p \in [match: 1 .. MaxMatches, tick: Nat], NEW e \in Entry, Reports(s, d, p, e)
  PROVE  Playing'
<1> DEFINE o == Other(s)
<1>1. o \in Side /\ o # s /\ Other(o) = s /\ \A t \in Side : t = s \/ t = o
  BY Sides
<1>2. /\ play'[s] = p /\ play'[o] = play[o] /\ match' = match
      /\ p.match = play[s].match /\ p.tick = play[s].tick + d /\ p.tick >= First
      /\ upto'[s] = upto[s]
      /\ upto'[o] = IF p.match = play[o].match THEN p.tick + Lead ELSE upto[o]
  BY <1>1 DEF Reports, LogTypeOK
<1>3. /\ First \in Nat /\ Lead \in Nat /\ d \in Nat /\ upto[s] \in Nat /\ upto[o] \in Nat
      /\ play[s].tick \in Nat /\ play[o].tick \in Nat
  <2>1. play \in [Side -> [match: 1 .. MaxMatches, tick: Nat]] /\ upto \in [Side -> Nat]
    BY DEF LogTypeOK
  <2>2. First \in Nat /\ Lead \in Nat /\ d \in Nat
    BY LogAssumption
  <2>3. play[s] \in [match: 1 .. MaxMatches, tick: Nat] /\ play[o] \in [match: 1 .. MaxMatches, tick: Nat]
    BY <1>1, <2>1
  <2> QED
    BY <1>1, <2>1, <2>2, <2>3
<1> HIDE DEF o
<1>4. /\ play'["new"].match = match' /\ play'["old"].match <= match'
      /\ ~paired' => match' < MaxMatches
  BY <1>1, <1>2 DEF Playing, Side, Reports
<1>5. \A t \in Side : First - 1 <= play'[t].tick
  BY <1>1, <1>2, <1>3 DEF Playing
<1>6. play'[s].match = match' => upto'[s] <= Lead + (IF play'[o].match = match' THEN play'[o].tick ELSE First - 1)
  <2>1. play[s].match = match => upto[s] <= Lead + (IF play[o].match = match THEN play[o].tick ELSE First - 1)
    BY DEF Playing, o
  <2>2. play'[s].match = play[s].match
    BY <1>2
  <2> QED
    BY <1>2, <2>1, <2>2
<1>7. play'[o].match = match' => upto'[o] <= Lead + (IF play'[s].match = match' THEN play'[s].tick ELSE First - 1)
  <2> SUFFICES ASSUME play[o].match = match
               PROVE  upto'[o] <= Lead + (IF p.match = match THEN p.tick ELSE First - 1)
    BY <1>2
  <2>1. CASE p.match = match
    BY <1>2, <1>3, <2>1
  <2>2. CASE p.match # match
    <3>1. upto[o] <= Lead + (First - 1)
      BY <1>1, <1>2, <2>2 DEF Playing
    <3> QED
      BY <1>2, <2>2, <3>1
  <2> QED
    BY <2>1, <2>2
<1>8. \A t \in Side : play'[t].match = match' =>
        upto'[t] <= Lead + (IF play'[Other(t)].match = match' THEN play'[Other(t)].tick ELSE First - 1)
  BY <1>1, <1>6, <1>7 DEF o
<1> QED
  BY <1>4, <1>5, <1>8 DEF Playing

(* A record logged while the laps are right and nothing of the match       *)
(* before was: it is of this match, its key is its tick, the highest of    *)
(* its side.                                                               *)
LEMMA SoundStep ==
  ASSUME LogTypeOK, KeysOnce, Playing, Counted, Filed, NEW s \in Side, NEW d \in 0 .. Gap,
         NEW p \in [match: 1 .. MaxMatches, tick: Nat], NEW e \in Entry, Reports(s, d, p, e), Sound'
  PROVE  /\ Sound /\ p.match = match /\ e.key = p.tick /\ e.crc = Sum(s, p)
         /\ p = [match |-> match, tick |-> e.key]
         /\ Keyed(py.map[s], s) /\ Rising(py.map[s]) /\ Keyed(py.map[Other(s)], Other(s)) /\ Rising(py.map[Other(s)])
         /\ Upper(py.map[s], e.key)
<1>1. Straight("old") /\ e.key = p.tick
  BY CountedStep DEF Sound
<1>2. paired = TRUE /\ mixed = FALSE /\ ~(p.match < match)
  BY DEF Sound, Reports, LogTypeOK
<1>3. p.match = play[s].match /\ p.tick = play[s].tick + d /\ e.crc = Sum(s, p)
  BY DEF Reports
<1>4. Sound
  BY <1>1, <1>2 DEF Sound
<1>5. p.match = match
  <2>1. play[s].match \in Nat /\ match \in Nat
    BY DEF LogTypeOK
  <2>2. play[s].match <= match
    BY <2>1 DEF Playing, Side
  <2> QED
    BY <1>2, <1>3, <2>1, <2>2
<1>6. Other(s) \in Side
  BY Sides
<1>7. Keyed(py.map[s], s) /\ Rising(py.map[s]) /\ Keyed(py.map[Other(s)], Other(s)) /\ Rising(py.map[Other(s)])
  BY <1>4, <1>6 DEF Filed
<1>8. Upper(py.map[s], e.key)
  <2>1. py.map[s] \in Seq(Entry)
    BY MapTypes
  <2> SUFFICES ASSUME NEW i \in DOMAIN py.map[s] PROVE py.map[s][i].key <= e.key
    BY DEF Upper
  <2>2. py.map[s][i].key <= play[s].tick
    BY <1>7 DEF Keyed, Entries
  <2>3. py.map[s][i].key \in Nat
    BY <2>1, MapType
  <2>4. play[s].tick \in Nat /\ d \in Nat
    BY LogAssumption DEF LogTypeOK
  <2> QED
    BY <1>1, <1>3, <2>2, <2>3, <2>4
<1>9. p = [match |-> match, tick |-> e.key]
  BY <1>1, <1>5
<1> QED
  BY <1>1, <1>3, <1>4, <1>5, <1>7, <1>8, <1>9

LEMMA FiledStep ==
  ASSUME LogTypeOK, KeysOnce, Playing, Counted, Filed, NEW s \in Side, NEW d \in 0 .. Gap,
         NEW p \in [match: 1 .. MaxMatches, tick: Nat], NEW e \in Entry, Reports(s, d, p, e)
  PROVE  Filed'
<1> SUFFICES ASSUME Sound' PROVE \A t \in Side : Keyed(py.map[t], t)' /\ Rising(py.map[t])'
  BY DEF Filed
<1> DEFINE o == Other(s)
           mine == Put(py.map[s], e)
<1>1. o \in Side /\ o # s /\ \A t \in Side : t = s \/ t = o
  BY Sides
<1>2. /\ Sound /\ p.match = match /\ e.key = p.tick /\ e.crc = Sum(s, p)
      /\ p = [match |-> match, tick |-> e.key]
      /\ Keyed(py.map[s], s) /\ Rising(py.map[s]) /\ Keyed(py.map[o], o) /\ Rising(py.map[o]) /\ Upper(py.map[s], e.key)
  BY SoundStep
<1>3. py.map[s] \in Seq(Entry) /\ py.map[o] \in Seq(Entry) /\ Once(py.map[o]) /\ e.key \in Nat
  BY <1>1, MapTypes DEF Entry
<1>4. mine \in Seq(Entry) /\ Rise(mine) /\ Entries(mine) = {x \in Entries(py.map[s]) : x.key # e.key} \cup {e}
  BY <1>2, <1>3, PutFacts, PutKeys DEF Rising, Rise
<1>5. Rise(py.map[o])
  BY <1>2 DEF Rising, Rise
<1> HIDE DEF mine
<1>6. /\ Entries(py'.map[s]) \subseteq Entries(py.map[s]) \cup {e} /\ Rise(py'.map[s])
      /\ Entries(py'.map[o]) \subseteq Entries(py.map[o]) /\ Rise(py'.map[o])
  <2>1. CASE py'.map[s] = OldestOut(mine) /\ py'.map[o] = py.map[o]
    BY <1>4, <1>5, <2>1, OldestOutFacts
  <2>2. CASE /\ Theirs(py, s, e.key) # {}
             /\ py'.map[s] = mine /\ py'.map[o] = Without(py.map[o], e.key)
    <3>1. At(py.map[o], e.key) # {}
      BY <2>2 DEF Theirs, Entries, At
    <3>2. Rise(py'.map[o]) /\ Entries(py'.map[o]) \subseteq Entries(py.map[o])
      BY <1>3, <1>5, <2>2, <3>1, WithoutFacts
    <3> QED
      BY <1>4, <2>2, <3>2
  <2> QED
    BY <2>1, <2>2, PyStep DEF mine
<1>7. Rising(py.map[s])' /\ Rising(py.map[o])'
  BY <1>6 DEF Rising, Rise
<1>8. /\ play'[s] = p /\ play'[o] = play[o] /\ match' = match /\ odd' = odd /\ gave \subseteq gave'
      /\ (p = odd => s \in gave')
  <2>1. paired /\ match = p.match
    BY <1>2 DEF Sound
  <2> QED
    BY <1>1, <2>1 DEF Reports, LogTypeOK
<1>9. \A t, q : Sum(t, q)' = Sum(t, q)
  BY <1>8 DEF Sum
<1>10. Keyed(py.map[o], o)'
  BY <1>2, <1>6, <1>8, <1>9 DEF Keyed
<1>11. Keyed(py.map[s], s)'
  <2> SUFFICES ASSUME NEW x \in Entries(py'.map[s])
               PROVE  /\ p.match = match /\ x.key <= p.tick
                      /\ x.crc = Sum(s, [match |-> match, tick |-> x.key])
                      /\ [match |-> match, tick |-> x.key] = odd => s \in gave'
    BY <1>8, <1>9 DEF Keyed
  <2>1. CASE x = e
    BY <1>2, <1>3, <1>8, <2>1
  <2>2. CASE x \in Entries(py.map[s])
    <3>1. x.key <= e.key
      BY <1>2, <2>2 DEF Upper, Entries
    <3> QED
      BY <1>2, <1>8, <2>2, <3>1 DEF Keyed
  <2> QED
    BY <1>6, <2>1, <2>2
<1> QED
  BY <1>1, <1>7, <1>10, <1>11

LEMMA FirstMatchStep ==
  ASSUME LogTypeOK, KeysOnce, Playing, Counted, Filed, FirstMatch, NEW s \in Side, NEW d \in 0 .. Gap,
         NEW p \in [match: 1 .. MaxMatches, tick: Nat], NEW e \in Entry, Reports(s, d, p, e)
  PROVE  FirstMatch'
<1> SUFFICES ASSUME match' = 1
             PROVE  /\ ~mixed'
                    /\ \A x, y \in round' : x.tick = y.tick
                    /\ py'.bad > 0 => gave' = Side
  BY DEF FirstMatch
<1> DEFINE o == Other(s)
           met == Theirs(py, s, e.key)
<1>1. o \in Side /\ o # s /\ Side = {s, o}
  BY Sides DEF Side
<1>2. match = 1 /\ p.match = play[s].match /\ ~mixed /\ gave' \subseteq Side /\ gave \subseteq gave'
  BY DEF Reports, FirstMatch, LogTypeOK
<1>3. ~(p.match < match)
  <2>1. p.match \in 1 .. MaxMatches
    OBVIOUS
  <2>2. ~(p.match < 1)
    BY <2>1
  <2> QED
    BY <1>2, <2>2
<1>4. mixed' = FALSE
  BY <1>2, <1>3 DEF Reports, LogTypeOK
<1>5. Straight("old")'
  <2>1. Counted'
    BY CountedStep, Zenon
  <2> QED
    BY <2>1 DEF Counted, Side
<1>6. met # {} => Sound'
  BY <1>4, <1>5 DEF Sound, Reports, Theirs
<1>7. ASSUME met # {}
      PROVE  /\ \A x \in met : x.crc = Sum(o, p) /\ (p = odd => o \in gave)
             /\ e.crc = Sum(s, p) /\ (p = odd => s \in gave')
  <2>1. /\ Sound /\ p.match = match /\ e.crc = Sum(s, p)
        /\ p = [match |-> match, tick |-> e.key] /\ Keyed(py.map[o], o)
    BY <1>6, <1>7, SoundStep
  <2>2. \A x \in met : x \in Entries(py.map[o]) /\ x.key = e.key
    BY DEF Theirs
  <2>3. \A x \in met : x.crc = Sum(o, p) /\ (p = odd => o \in gave)
    BY <2>1, <2>2 DEF Keyed
  <2>4. paired
    BY <2>1, Zenon DEF Sound
  <2>5. p = odd => s \in gave'
    BY <2>1, <2>4 DEF Reports
  <2> QED
    BY <2>1, <2>3, <2>5
<1>8. \A x, y \in round' : x.tick = y.tick
  <2>1. CASE met = {}
    BY <1>2, <2>1 DEF Reports, FirstMatch
  <2>2. CASE met # {}
    <3>1. round' = {x.crc : x \in met} \cup {e.crc}
      BY <2>2 DEF Reports
    <3>2. Sum(s, p).tick = p.tick /\ Sum(o, p).tick = p.tick
      BY DEF Sum
    <3>3. \A x \in round' : x.tick = p.tick
      BY <1>7, <2>2, <3>1, <3>2
    <3> QED
      BY <3>3, Zenon
  <2> QED
    BY <2>1, <2>2
<1>9. ASSUME py'.bad > 0 PROVE gave' = Side
  <2>1. CASE py'.bad = py.bad
    BY <1>2, <1>9, <2>1 DEF FirstMatch
  <2>2. CASE met # {} /\ py'.bad = py.bad + Cardinality({x \in met : x.crc # e.crc})
    <3> DEFINE ill == {x \in met : x.crc # e.crc}
    <3>1. CASE ill = {}
      <4>1. Cardinality(ill) = 0
        BY <3>1, FS_EmptySet
      <4>2. py.bad \in Nat
        BY DEF LogTypeOK, Log
      <4>3. py'.bad = py.bad
        BY <2>2, <4>1, <4>2
      <4> QED
        BY <2>1, <4>3
    <3>2. CASE ill # {}
      <4>1. PICK x \in met : x.crc # e.crc
        BY <3>2
      <4>2. Sum(o, p) # Sum(s, p)
        BY <1>7, <2>2, <4>1
      <4>3. p = odd
        BY <4>2 DEF Sum
      <4>4. o \in gave /\ s \in gave'
        BY <1>7, <2>2, <4>1, <4>3
      <4> QED
        BY <1>1, <1>2, <4>4
    <3> QED
      BY <3>1, <3>2
  <2> QED
    BY <2>1, <2>2, PyStep
<1> QED
  BY <1>4, <1>8, <1>9

(* An entry that is not of the reported tick stays where it is, on the     *)
(* other side always, on the side that reports if it is within Keep of the *)
(* tick reported.                                                          *)
LEMMA Stays ==
  ASSUME LogTypeOK, KeysOnce, Playing, Counted, Filed, NEW s \in Side, NEW d \in 0 .. Gap,
         NEW p \in [match: 1 .. MaxMatches, tick: Nat], NEW e \in Entry, Reports(s, d, p, e), Sound'
  PROVE  /\ \A x \in Entries(py.map[Other(s)]) : x.key # e.key => x \in Entries(py'.map[Other(s)])
         /\ \A x \in Entries(Put(py.map[s], e)) : e.key < x.key + Keep => x \in Entries(py'.map[s])
<1> DEFINE o == Other(s)
           mine == Put(py.map[s], e)
<1>1. o \in Side
  BY Sides
<1>2. Rising(py.map[s]) /\ Upper(py.map[s], e.key)
  BY SoundStep
<1>3. py.map[s] \in Seq(Entry) /\ py.map[o] \in Seq(Entry) /\ Once(py.map[o]) /\ e.key \in Nat
  BY <1>1, MapTypes DEF Entry
<1>4. mine \in Seq(Entry) /\ Rise(mine) /\ Upper(mine, e.key)
  BY <1>2, <1>3, PutFacts, PutKeys DEF Rising, Rise
<1> HIDE DEF mine
<1>5. CASE py'.map[s] = OldestOut(mine) /\ py'.map[o] = py.map[o]
  BY <1>3, <1>4, <1>5, OldestOutFacts DEF mine
<1>6. CASE /\ Theirs(py, s, e.key) # {}
           /\ py'.map[s] = mine /\ py'.map[o] = Without(py.map[o], e.key)
  <2>1. At(py.map[o], e.key) # {}
    BY <1>6 DEF Theirs, Entries, At
  <2>2. Entries(py'.map[o]) = {x \in Entries(py.map[o]) : x.key # e.key}
    BY <1>3, <1>6, <2>1, WithoutFacts
  <2> QED
    BY <1>6, <2>2 DEF mine
<1> QED
  BY <1>5, <1>6, PyStep DEF mine

(* The disagreement, when a record was logged.                             *)
LEMMA AwaitedMatch ==
  ASSUME LogTypeOK, KeysOnce, Playing, Counted, Filed, Awaited, NEW s \in Side, NEW d \in 0 .. Gap,
         NEW p \in [match: 1 .. MaxMatches, tick: Nat], NEW e \in Entry, Reports(s, d, p, e),
         Sound', match = odd.match, gave' # {}, ~said'
  PROVE  \E t \in Side : /\ gave' = {t}
                         /\ Passed(Other(t))' \/ \E x \in Entries(py'.map[t]) : x.key = odd.tick
<1> DEFINE o == Other(s)
<1>1. o \in Side /\ o # s /\ Other(o) = s /\ \A t \in Side : t = s \/ t = o
  BY Sides
<1>2. /\ Sound /\ p.match = match /\ e.key = p.tick /\ e.crc = Sum(s, p)
      /\ p = [match |-> match, tick |-> e.key] /\ Keyed(py.map[o], o)
  BY SoundStep
<1>3. ~said /\ paired
  <2>1. said => said'
    BY DEF Reports
  <2> QED
    BY <1>2, <2>1 DEF Sound
<1>4. /\ py.map[s] \in Seq(Entry) /\ e.key \in Nat /\ odd.tick \in Nat
      /\ odd = [match |-> odd.match, tick |-> odd.tick]
  <2>1. py.map[s] \in Seq(Entry) /\ e.key \in Nat
    BY MapTypes DEF Entry
  <2>2. odd \in [match: 1 .. MaxMatches, tick: OddTicks]
    BY DEF LogTypeOK
  <2> QED
    BY <2>1, <2>2, LogAssumption
<1>5. /\ gave' = gave \cup {x \in {s} : p = odd /\ paired /\ match = odd.match}
      /\ play'[s] = p /\ play'[o] = play[o] /\ match' = match /\ odd' = odd
      /\ p.tick = play[s].tick + d /\ p.match = play[s].match /\ First <= p.tick /\ p.tick <= upto[s]
  BY <1>1 DEF Reports, LogTypeOK
<1>6. d \in Nat /\ play[s].tick \in Nat /\ play[o].tick \in Nat /\ Keep \in Nat \ {0} /\ Lead \in Nat
      /\ Lead <= Keep /\ First \in Nat /\ upto[s] \in Nat
  <2>1. play \in [Side -> [match: 1 .. MaxMatches, tick: Nat]] /\ upto \in [Side -> Nat]
    BY DEF LogTypeOK
  <2>2. d \in Nat /\ Keep \in Nat \ {0} /\ Lead \in Nat /\ Lead <= Keep /\ First \in Nat
    BY LogAssumption, ReachAssumption
  <2>3. play[s] \in [match: 1 .. MaxMatches, tick: Nat] /\ play[o] \in [match: 1 .. MaxMatches, tick: Nat]
    BY <1>1, <2>1
  <2> QED
    BY <1>1, <2>1, <2>2, <2>3
<1>7. Entries(Put(py.map[s], e)) = {x \in Entries(py.map[s]) : x.key # e.key} \cup {e}
  BY <1>4, PutKeys
<1>8. CASE p = odd
  <2>1. gave' = gave \cup {s}
    BY <1>3, <1>5, <1>8
  <2>2. Theirs(py, s, e.key) = {}
    <3> SUFFICES ASSUME NEW x \in Theirs(py, s, e.key) PROVE FALSE
      OBVIOUS
    <3>1. x \in Entries(py.map[o]) /\ x.key = e.key
      BY DEF Theirs
    <3>2. x.crc = Sum(o, p)
      BY <1>2, <3>1, Zenon DEF Keyed
    <3>3. said'
      BY <1>2, <1>8, <3>2, Zenon DEF Reports
    <3> QED
      BY <3>3
  <2>3. o \notin gave
    <3> SUFFICES ASSUME o \in gave PROVE FALSE
      OBVIOUS
    <3>1. PICK t \in Side : /\ gave = {t}
                            /\ Passed(Other(t)) \/ \E x \in Entries(py.map[t]) : x.key = odd.tick
      BY <1>2, <1>3 DEF Awaited
    <3>2. t = o
      BY <3>1
    <3>3. ~Passed(s)
      BY <1>5, <1>6, <1>8 DEF Passed
    <3>4. PICK x \in Entries(py.map[o]) : x.key = odd.tick
      BY <1>1, <3>1, <3>2, <3>3
    <3>5. x \in Theirs(py, s, e.key)
      BY <1>2, <1>3, <1>8, <3>4 DEF Theirs
    <3> QED
      BY <2>2, <3>5
  <2>4. gave' = {s}
    BY <1>1, <2>1, <2>3 DEF LogTypeOK
  <2>5. e \in Entries(py'.map[s])
    <3>1. e.key < e.key + Keep
      BY <1>4, <1>6
    <3> QED
      BY <1>7, <3>1, Stays
  <2>6. e.key = odd.tick
    BY <1>2, <1>8
  <2> QED
    BY <2>4, <2>5, <2>6
<1>9. CASE p # odd
  <2>1. gave' = gave
    BY <1>5, <1>9
  <2>2. e.key # odd.tick
    BY <1>2, <1>4, <1>9
  <2>3. PICK t \in Side : /\ gave = {t}
                          /\ Passed(Other(t)) \/ \E x \in Entries(py.map[t]) : x.key = odd.tick
    BY <1>2, <1>3, <2>1 DEF Awaited
  <2>4. Passed(o) => Passed(o)'
    BY <1>5 DEF Passed
  <2>5. Passed(s) => Passed(s)'
    BY <1>4, <1>5, <1>6 DEF Passed
  <2>6. CASE t = s /\ ~Passed(o)
    <3>1. PICK x \in Entries(py.map[s]) : x.key = odd.tick
      BY <2>3, <2>6
    <3>2. x \in Entries(Put(py.map[s], e))
      BY <1>7, <2>2, <3>1
    <3>3. First <= odd.tick
      BY <2>3 DEF Awaited
    <3>4. p.tick <= Lead + (IF play[o].match = match THEN play[o].tick ELSE First - 1)
      <4>1. upto[s] <= Lead + (IF play[o].match = match THEN play[o].tick ELSE First - 1)
        BY <1>2, <1>5 DEF Playing
      <4>2. p.tick <= upto[s] /\ p.tick \in Nat
        BY <1>5
      <4> QED
        BY <1>6, <4>1, <4>2
    <3>5. e.key < x.key + Keep
      <4>1. CASE play[o].match = match
        <5>1. ~(odd.tick < play[o].tick)
          BY <2>6, <4>1 DEF Passed
        <5>2. play[o].tick # odd.tick
          <6> SUFFICES ASSUME play[o].tick = odd.tick PROVE FALSE
            OBVIOUS
          <6>1. play[o] = odd
            <7>1. play[o] = [match |-> play[o].match, tick |-> play[o].tick]
              BY <1>1 DEF LogTypeOK
            <7> QED
              BY <1>4, <4>1, <7>1
          <6>2. o \in gave
            BY <1>1, <1>2, <3>3, <6>1 DEF Awaited
          <6> QED
            BY <1>1, <2>3, <2>6, <6>2
        <5>3. p.tick <= Lead + play[o].tick
          BY <3>4, <4>1
        <5>4. /\ e.key = p.tick /\ x.key = odd.tick
              /\ p.tick \in Int /\ play[o].tick \in Int /\ odd.tick \in Int
          BY <1>2, <1>4, <1>6, <3>1
        <5>5. play[o].tick < odd.tick
          BY <5>1, <5>2, <5>4
        <5> QED
          <6>1. /\ Lead \in Nat /\ Keep \in Nat /\ Lead <= Keep
                /\ p.tick <= Lead + play[o].tick
            BY <1>6, <5>3
          <6> QED
            BY <5>4, <5>5, <6>1
      <4>2. CASE play[o].match # match
        <5>1. p.tick <= Lead + (First - 1)
          BY <3>4, <4>2
        <5> QED
          BY <1>2, <1>4, <1>6, <3>1, <3>3, <5>1
      <4> QED
        BY <4>1, <4>2
    <3>6. x \in Entries(py'.map[s])
      BY <3>2, <3>5, Stays
    <3> QED
      BY <2>1, <2>3, <2>6, <3>1, <3>6
  <2>7. CASE t = s /\ Passed(o)
    BY <2>1, <2>3, <2>4, <2>7
  <2>8. CASE t = o /\ Passed(s)
    BY <1>1, <2>1, <2>3, <2>5, <2>8
  <2>9. CASE t = o /\ ~Passed(s)
    <3>1. PICK x \in Entries(py.map[o]) : x.key = odd.tick
      BY <1>1, <2>3, <2>9
    <3>2. x \in Entries(py'.map[o])
      BY <2>2, <3>1, Stays
    <3> QED
      BY <2>1, <2>3, <2>9, <3>1, <3>2
  <2> QED
    BY <1>1, <2>6, <2>7, <2>8, <2>9
<1> QED
  BY <1>8, <1>9

LEMMA AwaitedStep ==
  ASSUME LogTypeOK, KeysOnce, Playing, Counted, Filed, Awaited, NEW s \in Side, NEW d \in 0 .. Gap,
         NEW p \in [match: 1 .. MaxMatches, tick: Nat], NEW e \in Entry, Reports(s, d, p, e)
  PROVE  Awaited'
<1>1. \A t \in Side : t = s \/ t = Other(s)
  BY Sides
<1>2. /\ gave' = gave \cup {x \in {s} : p = odd /\ paired /\ match = odd.match}
      /\ match' = match /\ odd' = odd /\ First <= p.tick /\ (said => said') /\ (mixed => mixed')
  BY DEF Reports
<1>3. gave' # {} => odd'.match <= match' /\ First <= odd'.tick
  <2>1. CASE gave = {} /\ gave' # {}
    <3>1. p = odd /\ match = odd.match
      BY <1>2, <2>1
    <3>2. match \in Nat
      BY DEF LogTypeOK
    <3> QED
      BY <1>2, <3>1, <3>2
  <2> QED
    BY <1>2, <2>1 DEF Awaited
<1>4. ASSUME Sound', match' = odd'.match, NEW t \in Side, First <= odd'.tick, play'[t] = odd'
      PROVE  t \in gave'
  <2>1. Sound /\ paired
    BY <1>4, SoundStep DEF Sound
  <2>2. CASE t = s
    <3>1. play'[s] = p
      BY DEF Reports, LogTypeOK
    <3> QED
      BY <1>2, <1>4, <2>1, <2>2, <3>1
  <2>3. CASE t = Other(s)
    <3>1. play[t] = odd
      BY <1>2, <1>4, <2>3, OtherSide
    <3>2. t \in gave
      BY <1>2, <1>4, <2>1, <3>1 DEF Awaited
    <3> QED
      BY <1>2, <3>2
  <2> QED
    BY <1>1, <2>2, <2>3
<1>5. Sound' /\ match' = odd'.match /\ gave' # {} /\ ~said' =>
        \E t \in Side : /\ gave' = {t}
                        /\ Passed(Other(t))' \/ \E x \in Entries(py'.map[t]) : x.key = odd'.tick
  BY <1>2, AwaitedMatch
<1>6. ASSUME gave' = Side, ~mixed', Straight("old")' PROVE said'
  <2>1. Straight("old")
    BY <1>6, CountedStep
  <2>2. CASE gave = Side
    BY <1>2, <1>6, <2>1, <2>2 DEF Awaited
  <2>3. CASE gave # Side
    <3>1. paired /\ match = odd.match
      BY <1>2, <1>6, <2>3
    <3>2. Sound'
      BY <1>6, <3>1 DEF Sound, Reports
    <3>3. gave' # {} /\ ~(\E t \in Side : gave' = {t})
      BY <1>6 DEF Side
    <3> QED
      BY <1>2, <1>5, <3>1, <3>2, <3>3
  <2> QED
    BY <2>2, <2>3
<1> QED
  BY <1>3, <1>4, <1>5, <1>6 DEF Awaited

-----------------------------------------------------------------------------
(* The array of the C port, after a record.                                *)

LEMMA StoredStep ==
  ASSUME LogTypeOK, KeysOnce, Playing, Counted, Filed, Stored, NEW s \in Side, NEW d \in 0 .. Gap,
         NEW p \in [match: 1 .. MaxMatches, tick: Nat], NEW e \in Entry, Reports(s, d, p, e)
  PROVE  Stored'
<1> SUFFICES ASSUME Sound'
             PROVE  \A t \in Side :
                      /\ Keyed(c.map[t], t)' /\ Rising(c.map[t])'
                      /\ \A x \in Beyond(c'.map[t]) :
                           [match |-> match', tick |-> x.key] = odd' => Other(t) \in gave'
  BY DEF Stored
<1> DEFINE o == Other(s)
           mine == PutSlot(c.map[s], e)
<1>1. o \in Side /\ o # s /\ Other(o) = s /\ \A t \in Side : t = s \/ t = o
  BY Sides
<1>2. /\ Sound /\ p.match = match /\ e.key = p.tick /\ e.crc = Sum(s, p)
      /\ p = [match |-> match, tick |-> e.key]
  BY SoundStep
<1>3. /\ c.map[s] \in Seq(Entry) /\ c.map[o] \in Seq(Entry) /\ Once(c.map[o]) /\ e.key \in Nat
      /\ Once(c.map[s]) /\ Len(c.map[s]) <= Slots
  BY <1>1, MapTypes DEF Entry
<1>4. /\ Keyed(c.map[s], s) /\ Rise(c.map[s]) /\ Keyed(c.map[o], o) /\ Rise(c.map[o])
      /\ \A t \in Side : \A x \in Beyond(c.map[t]) :
           [match |-> match, tick |-> x.key] = odd => Other(t) \in gave
  BY <1>1, <1>2 DEF Stored, Rising, Rise
<1>5. Upper(c.map[s], e.key)
  <2> SUFFICES ASSUME NEW i \in DOMAIN c.map[s] PROVE c.map[s][i].key <= e.key
    BY DEF Upper
  <2>1. c.map[s][i].key <= play[s].tick
    BY <1>4 DEF Keyed, Entries
  <2>2. c.map[s][i].key \in Nat
    BY <1>3, MapType
  <2>3. play[s].tick \in Nat /\ d \in Nat /\ p.tick = play[s].tick + d
    BY LogAssumption DEF LogTypeOK, Reports
  <2> QED
    BY <1>2, <2>1, <2>2, <2>3
<1>6. /\ mine \in Seq(Entry) /\ Rise(mine) /\ Entries(mine) \subseteq Entries(c.map[s]) \cup {e}
      /\ Beyond(mine) \subseteq Beyond(c.map[s]) \cup {e}
  BY <1>3, <1>4, <1>5, PutSlotFacts, PutSlotKeeps
<1>7. /\ play'[s] = p /\ play'[o] = play[o] /\ match' = match /\ odd' = odd /\ gave \subseteq gave'
      /\ (p = odd => s \in gave')
  <2>1. paired /\ match = p.match
    BY <1>2 DEF Sound
  <2> QED
    BY <1>1, <2>1 DEF Reports, LogTypeOK
<1> HIDE DEF mine
<1>8. /\ Entries(c'.map[s]) \subseteq Entries(c.map[s]) \cup {e} /\ Rise(c'.map[s])
      /\ Entries(c'.map[o]) \subseteq Entries(c.map[o]) /\ Rise(c'.map[o])
      /\ Beyond(c'.map[o]) \subseteq Beyond(c.map[o])
      /\ \/ Beyond(c'.map[s]) = {}
         \/ Beyond(c'.map[s]) \subseteq Beyond(c.map[s]) \cup {e} /\ Theirs(c, s, e.key) # {}
  <2>1. CASE c'.map[s] = OldestOut(mine) /\ c'.map[o] = c.map[o]
    <3>1. /\ OldestOut(mine) \in Seq(Entry) /\ Len(OldestOut(mine)) <= Keep
          /\ Entries(OldestOut(mine)) \subseteq Entries(mine) /\ Rise(OldestOut(mine))
      BY <1>6, OldestOutFacts
    <3>2. Beyond(OldestOut(mine)) = {}
      BY <3>1, BeyondFacts
    <3> QED
      BY <1>4, <1>6, <2>1, <3>1, <3>2
  <2>2. CASE /\ Theirs(c, s, e.key) # {}
             /\ c'.map[s] = mine /\ c'.map[o] = Without(c.map[o], e.key)
    <3>1. At(c.map[o], e.key) # {}
      BY <2>2 DEF Theirs, Entries, At
    <3>2. /\ Rise(c'.map[o]) /\ Entries(c'.map[o]) \subseteq Entries(c.map[o])
          /\ Beyond(c'.map[o]) \subseteq Beyond(c.map[o])
      BY <1>3, <1>4, <2>2, <3>1, WithoutFacts
    <3> QED
      BY <1>6, <2>2, <3>2
  <2>3. \/ c'.map[s] = OldestOut(mine) /\ c'.map[o] = c.map[o]
        \/ /\ Theirs(c, s, e.key) # {}
           /\ c'.map[s] = mine /\ c'.map[o] = Without(c.map[o], e.key)
    BY CStep, Zenon DEF mine
  <2> QED
    BY <2>1, <2>2, <2>3
<1>9. Rising(c.map[s])' /\ Rising(c.map[o])'
  BY <1>8 DEF Rising, Rise
<1>10. \A t, q : Sum(t, q)' = Sum(t, q)
  BY <1>7 DEF Sum
<1>11. Keyed(c.map[o], o)'
  BY <1>4, <1>7, <1>8, <1>10 DEF Keyed
<1>12. Keyed(c.map[s], s)'
  <2> SUFFICES ASSUME NEW x \in Entries(c'.map[s])
               PROVE  /\ p.match = match /\ x.key <= p.tick
                      /\ x.crc = Sum(s, [match |-> match, tick |-> x.key])
                      /\ [match |-> match, tick |-> x.key] = odd => s \in gave'
    BY <1>7, <1>10 DEF Keyed
  <2>1. CASE x = e
    BY <1>2, <1>3, <1>7, <2>1
  <2>2. CASE x \in Entries(c.map[s])
    <3>1. x.key <= e.key
      BY <1>5, <2>2 DEF Upper, Entries
    <3> QED
      BY <1>2, <1>4, <1>7, <2>2, <3>1 DEF Keyed
  <2> QED
    BY <1>8, <2>1, <2>2
<1>13. ASSUME NEW x \in Beyond(c'.map[o]), [match |-> match, tick |-> x.key] = odd PROVE s \in gave'
  BY <1>1, <1>4, <1>7, <1>8, <1>13
<1>14. ASSUME NEW x \in Beyond(c'.map[s]), [match |-> match, tick |-> x.key] = odd PROVE o \in gave'
  <2>1. x \in Beyond(c.map[s]) \cup {e} /\ Theirs(c, s, e.key) # {}
    BY <1>8
  <2>2. CASE x = e
    <3>1. PICK y \in Entries(c.map[o]) : y.key = e.key
      BY <2>1 DEF Theirs
    <3> QED
      BY <1>4, <1>7, <1>14, <2>2, <3>1 DEF Keyed
  <2>3. CASE x \in Beyond(c.map[s])
    BY <1>4, <1>7, <1>14, <2>3
  <2> QED
    BY <2>1, <2>2, <2>3
<1> QED
  BY <1>1, <1>7, <1>9, <1>11, <1>12, <1>13, <1>14

(* A port counts a mismatch exactly when a checksum meets another one.     *)
Clash(l, s, e) == \E x \in Theirs(l, s, e.key) : x.crc # e.crc

LEMMA BadGrows ==
  ASSUME LogTypeOK, KeysOnce, NEW s \in Side, NEW d, NEW p, NEW e \in Entry, Reports(s, d, p, e)
  PROVE  /\ py.bad \in Nat /\ c.bad \in Nat /\ py'.bad \in Nat /\ c'.bad \in Nat
         /\ py'.bad >= py.bad /\ c'.bad >= c.bad
         /\ IF Clash(py, s, e) THEN py'.bad > 0 ELSE py'.bad = py.bad
         /\ IF Clash(c, s, e) THEN c'.bad > 0 ELSE c'.bad = c.bad
<1> DEFINE ill(l) == {x \in Theirs(l, s, e.key) : x.crc # e.crc}
<1>1. py.bad \in Nat /\ c.bad \in Nat
  BY DEF LogTypeOK, Log
<1>2. Other(s) \in Side
  BY Sides
<1>3. py.map[Other(s)] \in Seq(Entry) /\ c.map[Other(s)] \in Seq(Entry)
  BY <1>2, MapTypes
<1>4. ill(py) \subseteq Entries(py.map[Other(s)]) /\ ill(c) \subseteq Entries(c.map[Other(s)])
  BY DEF Theirs
<1>5. (ill(py) = {} <=> ~Clash(py, s, e)) /\ (ill(c) = {} <=> ~Clash(c, s, e))
  BY DEF Clash
<1>6. \/ Theirs(py, s, e.key) = {} /\ py'.bad = py.bad
      \/ py'.bad = py.bad + Cardinality(ill(py))
  BY PyStep
<1>7. \/ Theirs(c, s, e.key) = {} /\ c'.bad = c.bad
      \/ c'.bad = c.bad + Cardinality(ill(c))
  BY CStep
<1>8. Theirs(py, s, e.key) = {} => ill(py) = {}
  OBVIOUS
<1>9. Theirs(c, s, e.key) = {} => ill(c) = {}
  OBVIOUS
<1> HIDE DEF ill
<1>10. /\ Cardinality(ill(py)) \in Nat /\ (ill(py) = {} <=> Cardinality(ill(py)) = 0)
       /\ Cardinality(ill(c)) \in Nat /\ (ill(c) = {} <=> Cardinality(ill(c)) = 0)
  BY <1>3, <1>4, EntriesFinite
<1>11. py'.bad = py.bad + Cardinality(ill(py)) /\ c'.bad = c.bad + Cardinality(ill(c))
  BY <1>1, <1>6, <1>7, <1>8, <1>9, <1>10
<1> QED
  BY <1>1, <1>5, <1>10, <1>11

LEMMA ArrayStays ==
  ASSUME LogTypeOK, KeysOnce, Playing, Counted, Filed, Stored, NEW s \in Side, NEW d \in 0 .. Gap,
         NEW p \in [match: 1 .. MaxMatches, tick: Nat], NEW e \in Entry, Reports(s, d, p, e), Sound'
  PROVE  /\ \A x \in Entries(c.map[Other(s)]) : x.key # e.key => x \in Entries(c'.map[Other(s)])
         /\ \A x \in Entries(c.map[s]) :
              x.key # e.key /\ e.key < x.key + Keep => x \in Entries(c'.map[s]) \/ x \in Beyond(c.map[s])
         /\ e \in Entries(c'.map[s])
<1> DEFINE o == Other(s)
           mine == PutSlot(c.map[s], e)
<1>1. o \in Side
  BY Sides
<1>2. Sound /\ e.key = p.tick /\ Stored
  BY SoundStep
<1>3. /\ c.map[s] \in Seq(Entry) /\ c.map[o] \in Seq(Entry) /\ Once(c.map[o]) /\ e.key \in Nat
      /\ Once(c.map[s]) /\ Len(c.map[s]) <= Slots
  BY <1>1, MapTypes DEF Entry
<1>4. Keyed(c.map[s], s) /\ Rise(c.map[s])
  BY <1>2 DEF Stored, Rising, Rise
<1>5. Upper(c.map[s], e.key)
  <2> SUFFICES ASSUME NEW i \in DOMAIN c.map[s] PROVE c.map[s][i].key <= e.key
    BY DEF Upper
  <2>1. c.map[s][i].key <= play[s].tick
    BY <1>4 DEF Keyed, Entries
  <2>2. c.map[s][i].key \in Nat
    BY <1>3, MapType
  <2>3. play[s].tick \in Nat /\ d \in Nat /\ p.tick = play[s].tick + d
    BY LogAssumption DEF LogTypeOK, Reports
  <2> QED
    BY <1>2, <2>1, <2>2, <2>3
<1>6. /\ mine \in Seq(Entry) /\ Rise(mine) /\ Upper(mine, e.key) /\ e \in Entries(mine)
      /\ \A x \in Entries(c.map[s]) : x.key # e.key => x \in Entries(mine) \/ x \in Beyond(c.map[s])
  BY <1>3, <1>4, <1>5, PutSlotFacts, PutSlotKeeps
<1>7. e.key < e.key + Keep
  BY <1>3, LogAssumption
<1> HIDE DEF mine
<1>8. CASE c'.map[s] = OldestOut(mine) /\ c'.map[o] = c.map[o]
  <2>1. \A x \in Entries(mine) : e.key < x.key + Keep => x \in Entries(c'.map[s])
    BY <1>3, <1>6, <1>8, OldestOutFacts
  <2> QED
    BY <1>6, <1>7, <1>8, <2>1
<1>9. CASE /\ Theirs(c, s, e.key) # {}
           /\ c'.map[s] = mine /\ c'.map[o] = Without(c.map[o], e.key)
  <2>1. At(c.map[o], e.key) # {}
    BY <1>9 DEF Theirs, Entries, At
  <2>2. Entries(c'.map[o]) = {x \in Entries(c.map[o]) : x.key # e.key}
    BY <1>3, <1>9, <2>1, WithoutFacts
  <2> QED
    BY <1>6, <1>9, <2>2
<1> QED
  BY <1>8, <1>9, CStep DEF mine

(* The disagreement waits in the array as well.                            *)
LEMMA SettledMatch ==
  ASSUME LogTypeOK, KeysOnce, Playing, Counted, Filed, Awaited, Stored, Settled, NEW s \in Side, NEW d \in 0 .. Gap,
         NEW p \in [match: 1 .. MaxMatches, tick: Nat], NEW e \in Entry, Reports(s, d, p, e),
         Sound', match = odd.match, gave' # {}, c'.bad = 0
  PROVE  \E t \in Side : /\ gave' = {t}
                         /\ Passed(Other(t))' \/ \E x \in Entries(c'.map[t]) : x.key = odd.tick
<1> DEFINE o == Other(s)
<1>1. o \in Side /\ o # s /\ Other(o) = s /\ \A t \in Side : t = s \/ t = o
  BY Sides
<1>2. /\ Sound /\ p.match = match /\ e.key = p.tick /\ e.crc = Sum(s, p)
      /\ p = [match |-> match, tick |-> e.key] 
  BY SoundStep
<1>0. Keyed(c.map[o], o) /\ \A x \in Beyond(c.map[s]) : [match |-> match, tick |-> x.key] = odd => o \in gave
  BY <1>1, <1>2 DEF Stored
<1>3. c.bad = 0 /\ ~Clash(c, s, e) /\ paired
  <2>1. c.bad \in Nat /\ c'.bad >= c.bad /\ IF Clash(c, s, e) THEN c'.bad > 0 ELSE c'.bad = c.bad
    BY BadGrows
  <2>2. c.bad = 0
    BY <2>1
  <2>3. ~Clash(c, s, e)
    BY <2>1
  <2> QED
    BY <1>2, <2>2, <2>3 DEF Sound
<1>4. /\ c.map[s] \in Seq(Entry) /\ e.key \in Nat /\ odd.tick \in Nat
      /\ odd = [match |-> odd.match, tick |-> odd.tick]
  <2>1. c.map[s] \in Seq(Entry) /\ e.key \in Nat
    BY MapTypes DEF Entry
  <2>2. odd \in [match: 1 .. MaxMatches, tick: OddTicks]
    BY DEF LogTypeOK
  <2> QED
    BY <2>1, <2>2, LogAssumption
<1>5. /\ gave' = gave \cup {x \in {s} : p = odd /\ paired /\ match = odd.match}
      /\ play'[s] = p /\ play'[o] = play[o] /\ match' = match /\ odd' = odd
      /\ p.tick = play[s].tick + d /\ p.match = play[s].match /\ First <= p.tick /\ p.tick <= upto[s]
  BY <1>1 DEF Reports, LogTypeOK
<1>6. d \in Nat /\ play[s].tick \in Nat /\ play[o].tick \in Nat /\ Keep \in Nat \ {0} /\ Lead \in Nat
      /\ Lead <= Keep /\ First \in Nat /\ upto[s] \in Nat
  <2>1. play \in [Side -> [match: 1 .. MaxMatches, tick: Nat]] /\ upto \in [Side -> Nat]
    BY DEF LogTypeOK
  <2>2. d \in Nat /\ Keep \in Nat \ {0} /\ Lead \in Nat /\ Lead <= Keep /\ First \in Nat
    BY LogAssumption, ReachAssumption
  <2>3. play[s] \in [match: 1 .. MaxMatches, tick: Nat] /\ play[o] \in [match: 1 .. MaxMatches, tick: Nat]
    BY <1>1, <2>1
  <2> QED
    BY <1>1, <2>1, <2>2, <2>3
<1>8. CASE p = odd
  <2>1. gave' = gave \cup {s}
    BY <1>3, <1>5, <1>8
  <2>2. Theirs(c, s, e.key) = {}
    <3> SUFFICES ASSUME NEW x \in Theirs(c, s, e.key) PROVE FALSE
      OBVIOUS
    <3>1. x \in Entries(c.map[o]) /\ x.key = e.key
      BY DEF Theirs
    <3>2. x.crc = Sum(o, p)
      BY <1>0, <1>2, <3>1, Zenon DEF Keyed
    <3>3. Sum(o, p) # Sum(s, p)
      BY <1>1, <1>8 DEF Sum
    <3> QED
      BY <1>2, <1>3, <3>2, <3>3 DEF Clash
  <2>3. o \notin gave
    <3> SUFFICES ASSUME o \in gave PROVE FALSE
      OBVIOUS
    <3>1. PICK t \in Side : /\ gave = {t}
                            /\ Passed(Other(t)) \/ \E x \in Entries(c.map[t]) : x.key = odd.tick
      BY <1>2, <1>3 DEF Settled
    <3>2. t = o
      BY <3>1
    <3>3. ~Passed(s)
      BY <1>5, <1>6, <1>8 DEF Passed
    <3>4. PICK x \in Entries(c.map[o]) : x.key = odd.tick
      BY <1>1, <3>1, <3>2, <3>3
    <3>5. x \in Theirs(c, s, e.key)
      BY <1>2, <1>3, <1>8, <3>4 DEF Theirs
    <3> QED
      BY <2>2, <3>5
  <2>4. gave' = {s}
    BY <1>1, <2>1, <2>3 DEF LogTypeOK
  <2>5. e \in Entries(c'.map[s])
    BY ArrayStays
  <2>6. e.key = odd.tick
    BY <1>2, <1>8
  <2> QED
    BY <2>4, <2>5, <2>6
<1>9. CASE p # odd
  <2>1. gave' = gave
    BY <1>5, <1>9
  <2>2. e.key # odd.tick
    BY <1>2, <1>4, <1>9
  <2>3. PICK t \in Side : /\ gave = {t}
                          /\ Passed(Other(t)) \/ \E x \in Entries(c.map[t]) : x.key = odd.tick
    BY <1>2, <1>3, <2>1 DEF Settled
  <2>4. Passed(o) => Passed(o)'
    BY <1>5 DEF Passed
  <2>5. Passed(s) => Passed(s)'
    BY <1>4, <1>5, <1>6 DEF Passed
  <2>6. CASE t = s /\ ~Passed(o)
    <3>1. PICK x \in Entries(c.map[s]) : x.key = odd.tick
      BY <2>3, <2>6
    <3>2. x \notin Beyond(c.map[s])
      BY <1>0, <1>1, <1>4, <2>3, <2>6, <3>1
    <3>3. First <= odd.tick
      BY <2>3 DEF Awaited
    <3>4. p.tick <= Lead + (IF play[o].match = match THEN play[o].tick ELSE First - 1)
      <4>1. upto[s] <= Lead + (IF play[o].match = match THEN play[o].tick ELSE First - 1)
        BY <1>2, <1>5 DEF Playing
      <4>2. p.tick <= upto[s] /\ p.tick \in Nat
        BY <1>5
      <4> QED
        BY <1>6, <4>1, <4>2
    <3>5. e.key < x.key + Keep
      <4>1. CASE play[o].match = match
        <5>1. ~(odd.tick < play[o].tick)
          BY <2>6, <4>1 DEF Passed
        <5>2. play[o].tick # odd.tick
          <6> SUFFICES ASSUME play[o].tick = odd.tick PROVE FALSE
            OBVIOUS
          <6>1. play[o] = odd
            <7>1. play[o] = [match |-> play[o].match, tick |-> play[o].tick]
              BY <1>1 DEF LogTypeOK
            <7> QED
              BY <1>4, <4>1, <7>1
          <6>2. o \in gave
            BY <1>1, <1>2, <3>3, <6>1 DEF Awaited
          <6> QED
            BY <1>1, <2>3, <2>6, <6>2
        <5>3. p.tick <= Lead + play[o].tick
          BY <3>4, <4>1
        <5>4. /\ e.key = p.tick /\ x.key = odd.tick
              /\ p.tick \in Int /\ play[o].tick \in Int /\ odd.tick \in Int
          BY <1>2, <1>4, <1>6, <3>1
        <5>5. play[o].tick < odd.tick
          BY <5>1, <5>2, <5>4
        <5> QED
          <6>1. /\ Lead \in Nat /\ Keep \in Nat /\ Lead <= Keep
                /\ p.tick <= Lead + play[o].tick
            BY <1>6, <5>3
          <6> QED
            BY <5>4, <5>5, <6>1
      <4>2. CASE play[o].match # match
        <5>1. p.tick <= Lead + (First - 1)
          BY <3>4, <4>2
        <5> QED
          BY <1>2, <1>4, <1>6, <3>1, <3>3, <5>1
      <4> QED
        BY <4>1, <4>2
    <3>6. x \in Entries(c'.map[s])
      BY <2>2, <3>1, <3>2, <3>5, ArrayStays
    <3> QED
      BY <2>1, <2>3, <2>6, <3>1, <3>6
  <2>7. CASE t = s /\ Passed(o)
    BY <2>1, <2>3, <2>4, <2>7
  <2>8. CASE t = o /\ Passed(s)
    BY <1>1, <2>1, <2>3, <2>5, <2>8
  <2>9. CASE t = o /\ ~Passed(s)
    <3>1. PICK x \in Entries(c.map[o]) : x.key = odd.tick
      BY <1>1, <2>3, <2>9
    <3>2. x \in Entries(c'.map[o])
      BY <2>2, <3>1, ArrayStays
    <3> QED
      BY <2>1, <2>3, <2>9, <3>1, <3>2
  <2> QED
    BY <1>1, <2>6, <2>7, <2>8, <2>9
<1> QED
  BY <1>8, <1>9

LEMMA SettledStep ==
  ASSUME LogTypeOK, KeysOnce, Playing, Counted, Filed, Awaited, Stored, Settled,
         NEW s \in Side, NEW d \in 0 .. Gap,
         NEW p \in [match: 1 .. MaxMatches, tick: Nat], NEW e \in Entry, Reports(s, d, p, e)
  PROVE  Settled'
<1>1. /\ gave' = gave \cup {x \in {s} : p = odd /\ paired /\ match = odd.match}
      /\ match' = match /\ odd' = odd /\ (mixed => mixed') /\ paired' = paired
  BY DEF Reports
<1>2. /\ py.bad \in Nat /\ c.bad \in Nat /\ py'.bad \in Nat /\ c'.bad \in Nat
      /\ py'.bad >= py.bad /\ c'.bad >= c.bad
      /\ Clash(py, s, e) => py'.bad > 0
  BY BadGrows
<1>3. said' => py'.bad > 0
  <2>1. CASE said
    BY <1>2, <2>1 DEF Settled
  <2>2. CASE said' /\ ~said
    <3>1. \E x \in Theirs(py, s, e.key) : x.crc = Sum(Other(s), odd) /\ e.crc = Sum(s, odd)
      BY <2>2 DEF Reports
    <3>2. Sum(Other(s), odd) # Sum(s, odd)
      BY Sides DEF Sum
    <3>3. Clash(py, s, e)
      BY <3>1, <3>2 DEF Clash
    <3> QED
      BY <1>2, <3>3
  <2> QED
    BY <2>1, <2>2
<1>4. Sound' /\ match' = odd'.match /\ gave' # {} /\ c'.bad = 0 =>
        \E t \in Side : /\ gave' = {t}
                        /\ Passed(Other(t))' \/ \E x \in Entries(c'.map[t]) : x.key = odd'.tick
  BY <1>1, SettledMatch
<1>5. ASSUME gave' = Side, ~mixed', Straight("old")' PROVE c'.bad > 0
  <2>1. Straight("old")
    BY <1>5, CountedStep
  <2>2. CASE gave = Side
    <3>1. c.bad > 0
      BY <1>1, <1>5, <2>1, <2>2 DEF Settled
    <3> QED
      BY <1>2, <3>1
  <2>3. CASE gave # Side
    <3>1. paired /\ match = odd.match
      BY <1>1, <1>5, <2>3
    <3>2. Sound'
      BY <1>1, <1>5, <3>1 DEF Sound
    <3>3. gave' # {} /\ ~(\E t \in Side : gave' = {t})
      BY <1>5 DEF Side
    <3>4. c'.bad # 0
      BY <1>1, <1>4, <3>1, <3>2, <3>3
    <3> QED
      BY <1>2, <3>4
  <2> QED
    BY <2>2, <2>3
<1> QED
  BY <1>3, <1>4, <1>5 DEF Settled

(* While nothing right was heard of the one that stayed, nothing right is;  *)
(* a record of his gets a key that is not its tick.                        *)
Apart == paired /\ ~mixed /\ (Unheard \/ ~Straight("old"))

LEMMA ApartStep ==
  ASSUME LogTypeOK, KeysOnce, Playing, Counted, NEW s \in Side, NEW d \in 0 .. Gap,
         NEW p \in [match: 1 .. MaxMatches, tick: Nat], NEW e \in Entry, Reports(s, d, p, e), Apart'
  PROVE  /\ Apart /\ e.crc.tick = p.tick
         /\ s = "new" => e.key = p.tick /\ (Unheard' => Unheard)
         /\ s = "old" => e.key # p.tick /\ ~Unheard'
<1>1. /\ p.match = play[s].match /\ play'[s] = p /\ match' = match /\ paired' = paired
      /\ mixed' = (mixed \/ (paired /\ p.match < match))
      /\ e.key = Lap(s, p.tick % TickMod) * TickMod + (p.tick % TickMod) /\ e.crc = Sum(s, p)
      /\ lap'[s] = Lap(s, p.tick % TickMod)
  BY DEF Reports, LogTypeOK
<1>2. paired /\ ~mixed /\ ~(p.match < match) /\ e.crc.tick = p.tick
  <2>1. paired' /\ ~mixed'
    BY Zenon DEF Apart
  <2>2. e.crc.tick = p.tick
    BY <1>1 DEF Sum
  <2> QED
    BY <1>1, <2>1, <2>2, Zenon
<1>3. p.tick >= First /\ p.tick \in Nat /\ First \in Nat
  BY LapStep, LogAssumption
<1>4. CASE s = "new"
  <2>1. play'["old"] = play["old"] /\ (Straight("old")' <=> Straight("old"))
    BY <1>4, OtherSide, Sides
  <2>2. Unheard' <=> Unheard
    BY <1>1, <2>1 DEF Unheard
  <2>3. Straight("new")'
    <3>1. Counted'
      BY CountedStep, Zenon
    <3> QED
      BY <3>1 DEF Counted, Side
  <2>4. e.key = p.tick
    BY <1>4, <2>3, LapStep
  <2> QED
    BY <1>2, <1>4, <2>1, <2>2, <2>4 DEF Apart
<1>5. CASE s = "old"
  <2>1. ~Unheard'
    <3>1. ~(play'["old"].match < match')
      BY <1>1, <1>2, <1>5
    <3>2. play'["old"].tick # First - 1
      BY <1>1, <1>3, <1>5
    <3> QED
      BY <3>1, <3>2 DEF Unheard
  <2>2. ~Straight("old")'
    BY <2>1 DEF Apart
  <2>3. Unheard \/ ~Straight("old")
    <3>1. play["old"].tick # First - 1 => ~Straight("old")
      BY <1>5, <2>2, LapStep
    <3> QED
      BY <3>1 DEF Unheard
  <2>4. e.key # p.tick
    <3> SUFFICES ASSUME e.key = p.tick PROVE FALSE
      OBVIOUS
    <3>1. p.tick % TickMod \in Nat
      BY <1>3, LogAssumption
    <3>2. Lap(s, p.tick % TickMod) \in Nat
      BY LapType DEF LogTypeOK
    <3>3. Lap(s, p.tick % TickMod) * TickMod \in Nat
      BY <3>2, LogAssumption
    <3>4. Lap(s, p.tick % TickMod) * TickMod <= p.tick
      BY <1>1, <1>3, <3>1, <3>3
    <3> QED
      BY <1>1, <1>5, <2>2, <3>4 DEF Straight
  <2> QED
    BY <1>2, <1>5, <2>1, <2>3, <2>4 DEF Apart
<1> QED
  BY <1>4, <1>5 DEF Side

LEMMA AlikeStep ==
  ASSUME LogTypeOK, KeysOnce, Playing, Counted, Alike, NEW s \in Side, NEW d \in 0 .. Gap,
         NEW p \in [match: 1 .. MaxMatches, tick: Nat], NEW e \in Entry, Reports(s, d, p, e)
  PROVE  Alike'
<1> SUFFICES ASSUME Apart'
             PROVE  \/ py'.bad > 0 /\ c'.bad > 0 /\ ~Unheard'
                    \/ /\ py'.map = c'.map /\ \A t \in Side : Len(c'.map[t]) <= Keep
                       /\ Unheard' => c'.map["old"] = <<>>
                       /\ \A x \in Entries(c'.map["new"]) : x.crc.tick = x.key
                       /\ \A x \in Entries(c'.map["old"]) : x.crc.tick # x.key
  BY DEF Alike, Apart
<1> DEFINE o == Other(s)
<1>1. o \in Side /\ o # s /\ \A t \in Side : t = s \/ t = o
  BY Sides
<1>2. /\ Apart /\ e.crc.tick = p.tick
      /\ s = "new" => e.key = p.tick /\ (Unheard' => Unheard)
      /\ s = "old" => e.key # p.tick /\ ~Unheard'
  BY ApartStep
<1>3. /\ py.bad \in Nat /\ c.bad \in Nat /\ py'.bad \in Nat /\ c'.bad \in Nat
      /\ py'.bad >= py.bad /\ c'.bad >= c.bad
      /\ Clash(py, s, e) => py'.bad > 0
      /\ Clash(c, s, e) => c'.bad > 0
  BY BadGrows
<1>4. CASE py.bad > 0 /\ c.bad > 0 /\ ~Unheard
  <2>1. ~Unheard'
    BY <1>2, <1>4 DEF Side
  <2> QED
    BY <1>3, <1>4, <2>1
<1>5. CASE ~(py.bad > 0 /\ c.bad > 0 /\ ~Unheard)
  <2> DEFINE mine == Put(c.map[s], e)
  <2>1. /\ py.map = c.map /\ \A t \in Side : Len(c.map[t]) <= Keep
        /\ Unheard => c.map["old"] = <<>>
        /\ \A x \in Entries(c.map["new"]) : x.crc.tick = x.key
        /\ \A x \in Entries(c.map["old"]) : x.crc.tick # x.key
    BY <1>2, <1>5, Zenon DEF Alike, Apart
  <2>2. Theirs(py, s, e.key) = Theirs(c, s, e.key) /\ (Clash(py, s, e) <=> Clash(c, s, e))
    BY <2>1 DEF Theirs, Clash
  <2>3. /\ c.map[s] \in Seq(Entry) /\ Len(c.map[s]) <= Slots /\ Len(c.map[s]) <= Keep
        /\ PutSlot(c.map[s], e) = mine
    BY <2>1, MapTypes, PutSlotKeeps
  <2>4. CASE Theirs(c, s, e.key) # {}
    <3>1. PICK x \in Entries(c.map[o]) : x \in Theirs(c, s, e.key) /\ x.key = e.key
      BY <2>4 DEF Theirs
    <3>2. x.crc # e.crc
      BY <1>2, <2>1, <3>1, Sides DEF Side
    <3>3. Clash(c, s, e)
      BY <3>1, <3>2 DEF Clash
    <3>4. ~Unheard'
      <4> SUFFICES ASSUME Unheard' PROVE FALSE
        OBVIOUS
      <4>1. s = "new" /\ Unheard
        BY <1>2 DEF Side
      <4>2. c.map[o] = <<>>
        BY <2>1, <4>1, Sides
      <4> QED
        BY <3>1, <4>2 DEF Entries
    <3> QED
      BY <1>3, <2>2, <3>3, <3>4
  <2>5. CASE Theirs(c, s, e.key) = {}
    <3>1. /\ c'.map[s] = OldestOut(mine) /\ c'.map[o] = c.map[o]
          /\ py'.map[s] = OldestOut(mine) /\ py'.map[o] = c.map[o]
          /\ c' \in Log /\ py' \in Log
      <4>1. c'.map[s] = OldestOut(mine) /\ c'.map[o] = c.map[o] /\ c' \in Log
        BY <2>3, <2>5, CStep
      <4>2. py'.map[s] = OldestOut(Put(py.map[s], e)) /\ py'.map[o] = py.map[o] /\ py' \in Log
        BY <2>2, <2>5, PyStep
      <4> QED
        BY <2>1, <4>1, <4>2
    <3>2. /\ mine \in Seq(Entry) /\ Entries(mine) \subseteq Entries(c.map[s]) \cup {e}
      BY <2>3, PutFacts, PutKeys
    <3> HIDE DEF mine
    <3>3. /\ Len(OldestOut(mine)) <= Keep
          /\ Entries(OldestOut(mine)) \subseteq Entries(c.map[s]) \cup {e}
      BY <3>2, OldestOutFacts
    <3>4. py'.map = c'.map
      <4>1. py'.map \in [Side -> Seq(Entry)] /\ c'.map \in [Side -> Seq(Entry)]
        BY <3>1 DEF Log
      <4>2. \A t \in Side : py'.map[t] = c'.map[t]
        BY <1>1, <3>1
      <4> QED
        BY <4>1, <4>2
    <3>5. \A t \in Side : Len(c'.map[t]) <= Keep
      BY <1>1, <2>1, <3>1, <3>3
    <3>6. Unheard' => c'.map["old"] = <<>>
      <4> SUFFICES ASSUME Unheard' PROVE c'.map["old"] = <<>>
        OBVIOUS
      <4>1. s = "new" /\ Unheard
        BY <1>2 DEF Side
      <4> QED
        BY <2>1, <3>1, <4>1, Sides
    <3>7. CASE s = "new"
      <4>1. \A x \in Entries(c'.map["new"]) : x.crc.tick = x.key
        BY <1>2, <2>1, <3>1, <3>3, <3>7
      <4>2. \A x \in Entries(c'.map["old"]) : x.crc.tick # x.key
        BY <2>1, <3>1, <3>7, Sides
      <4> QED
        BY <3>4, <3>5, <3>6, <4>1, <4>2
    <3>8. CASE s = "old"
      <4>1. \A x \in Entries(c'.map["old"]) : x.crc.tick # x.key
        BY <1>2, <2>1, <3>1, <3>3, <3>8
      <4>2. \A x \in Entries(c'.map["new"]) : x.crc.tick = x.key
        BY <2>1, <3>1, <3>8, Sides
      <4> QED
        BY <3>4, <3>5, <3>6, <4>1, <4>2
    <3> QED
      BY <3>7, <3>8 DEF Side
  <2> QED
    BY <2>4, <2>5
<1> QED
  BY <1>4, <1>5

LEMMA VerdictStep ==
  ASSUME LogTypeOK, KeysOnce, Playing, Counted, Filed, Awaited, Stored, Settled, Alike, SameVerdict,
         NEW s \in Side, NEW d \in 0 .. Gap,
         NEW p \in [match: 1 .. MaxMatches, tick: Nat], NEW e \in Entry, Reports(s, d, p, e)
  PROVE  SameVerdict'
<1> SUFFICES ASSUME ~mixed' PROVE py'.bad > 0 <=> c'.bad > 0
  BY DEF SameVerdict
<1> DEFINE o == Other(s)
<1>1. /\ paired' = paired /\ ~mixed /\ (paired => ~(p.match < match))
      /\ gave' = gave \cup {x \in {s} : p = odd /\ paired /\ match = odd.match}
  BY DEF Reports
<1>2. /\ py.bad \in Nat /\ c.bad \in Nat /\ py'.bad \in Nat /\ c'.bad \in Nat
      /\ py'.bad >= py.bad /\ c'.bad >= c.bad
      /\ IF Clash(py, s, e) THEN py'.bad > 0 ELSE py'.bad = py.bad
      /\ IF Clash(c, s, e) THEN c'.bad > 0 ELSE c'.bad = c.bad
  BY BadGrows
<1>3. py.bad > 0 <=> c.bad > 0
  BY <1>1 DEF SameVerdict
<1>4. CASE py.bad > 0
  BY <1>2, <1>3, <1>4
<1>5. CASE (Clash(py, s, e) <=> Clash(c, s, e))
  BY <1>2, <1>3, <1>5
<1>6. CASE ~paired
  BY <1>2, <1>3, <1>6 DEF Clash, Theirs
<1>7. CASE paired /\ Straight("old")'
  <2>1. Sound'
    BY <1>1, <1>7 DEF Sound
  <2>2. /\ Sound /\ p.match = match /\ e.crc = Sum(s, p)
        /\ p = [match |-> match, tick |-> e.key] /\ Keyed(py.map[o], o)
    BY <2>1, SoundStep
  <2>3. o \in Side /\ Side = {s, o}
    BY Sides DEF Side
  <2>4. Keyed(c.map[o], o)
    BY <2>2, <2>3 DEF Stored
  <2>5. ASSUME NEW x \in Entries(py.map[o]) \cup Entries(c.map[o]), x.key = e.key, x.crc # e.crc
        PROVE  gave' = Side
    <3>1. x.crc = Sum(o, p) /\ (p = odd => o \in gave)
      BY <2>2, <2>4, <2>5 DEF Keyed
    <3>2. p = odd
      BY <2>2, <2>5, <3>1 DEF Sum
    <3>3. match = odd.match
      BY <2>2, <3>2
    <3>4. gave \subseteq Side /\ o \in gave
      BY <3>1, <3>2 DEF LogTypeOK
    <3> QED
      BY <1>1, <1>7, <2>3, <3>2, <3>3, <3>4
  <2>6. Clash(py, s, e) \/ Clash(c, s, e) => gave' = Side
    BY <2>5 DEF Clash, Theirs
  <2>7. Awaited' /\ Settled'
    BY AwaitedStep, SettledStep
  <2>8. gave' = Side => py'.bad > 0 /\ c'.bad > 0
    BY <1>7, <2>7 DEF Awaited, Settled
  <2>9. CASE Clash(py, s, e) \/ Clash(c, s, e)
    BY <2>6, <2>8, <2>9
  <2> QED
    BY <1>5, <2>9
<1>8. CASE paired /\ ~Straight("old")' /\ ~(py.bad > 0)
  <2>1. Apart'
    BY <1>1, <1>8 DEF Apart
  <2>2. Apart
    BY <2>1, ApartStep
  <2>3. py.map = c.map
    BY <1>8, <2>2, Zenon DEF Alike, Apart
  <2>4. Clash(py, s, e) <=> Clash(c, s, e)
    BY <2>3 DEF Clash, Theirs
  <2> QED
    BY <1>5, <2>4
<1> QED
  BY <1>4, <1>6, <1>7, <1>8

-----------------------------------------------------------------------------
(* The pairing.                                                            *)

LEMMA EmptyMap == <<>> \in Seq(Entry) /\ Len(<<>>) = 0 /\ Once(<<>>) /\ Rise(<<>>) /\ Entries(<<>>) = {}
BY DEF Once, Rise, Entries

LEMMA LogInitInv == LogInit => LogInv
<1> SUFFICES ASSUME LogInit PROVE LogInv
  OBVIOUS
<1>1. /\ TickMod \in Nat \ {0} /\ First \in 1 .. TickMod - 1 /\ Lead \in Nat /\ Slots \in Nat
      /\ MaxMatches \in Nat \ {0} /\ MaxAgain \in Nat
  BY LogAssumption
<1>2. Empty \in [Side -> Seq(Entry)] /\ \A s \in Side : Empty[s] = <<>>
  BY EmptyMap DEF Empty
<1>3. py \in Log /\ py.map = Empty /\ py.bad = 0 /\ c = py
  BY <1>2 DEF LogInit, Log
<1>4. LogTypeOK
  <2>1. play \in [Side -> [match: 1 .. MaxMatches, tick: Nat]] /\ upto \in [Side -> Nat]
    BY <1>1 DEF LogInit
  <2>2. match \in 1 .. MaxMatches /\ again \in 0 .. MaxAgain /\ {paired, mixed, said} \subseteq BOOLEAN
    <3>1. match \in 1 .. MaxMatches /\ again \in 0 .. MaxAgain
      BY <1>1 DEF LogInit
    <3>2. {paired, mixed, said} \subseteq BOOLEAN
      BY DEF LogInit
    <3> QED
      BY <3>1, <3>2
  <2>3. lap \in [Side -> Nat] /\ lastTick \in [Side -> 0 .. TickMod]
    BY <1>1 DEF LogInit
  <2>4. \A s \in Side : Len(c.map[s]) <= Slots
    BY <1>1, <1>2, <1>3, EmptyMap
  <2>5. odd \in [match: 1 .. MaxMatches, tick: OddTicks] /\ gave \subseteq Side /\ round \subseteq Crc
    BY DEF LogInit
  <2> QED
    BY <1>3, <2>1, <2>2, <2>3, <2>4, <2>5 DEF LogTypeOK
<1>5. KeysOnce
  BY <1>2, <1>3 DEF KeysOnce
<1>6. /\ \A s \in Side : play[s] = [match |-> 1, tick |-> First - 1] /\ upto[s] = First - 1 + Lead
                         /\ lap[s] = 0 /\ lastTick[s] = TickMod
      /\ match = 1 /\ paired = TRUE /\ gave = {} /\ mixed = FALSE /\ round = {}
  BY DEF LogInit
<1>7. Playing
  <2>1. \A s \in Side : First - 1 <= play[s].tick /\ upto[s] <= Lead + (First - 1)
    BY <1>1, <1>6
  <2>2. \A s \in Side : play[s].match = match /\ play[s].tick = First - 1 /\ Other(s) \in Side
    BY <1>6, Sides
  <2> QED
    BY <1>6, <2>1, <2>2 DEF Playing, Side
<1>8. Counted
  <2>1. \A s \in Side : lap[s] * TickMod <= play[s].tick
    BY <1>1, <1>6
  <2> QED
    BY <1>6, <2>1 DEF Counted, Straight
<1>9. Filed
  BY <1>2, <1>3, EmptyMap DEF Filed, Keyed, Rising, Rise
<1>10. Awaited
  <2>1. \A s \in Side : ~(First <= odd.tick /\ play[s] = odd)
    BY <1>1, <1>6
  <2> QED
    BY <1>6, <2>1 DEF Awaited, Side
<1>11. FirstMatch
  BY <1>3, <1>6 DEF FirstMatch
<1> QED
  BY <1>4, <1>5, <1>7, <1>8, <1>9, <1>10, <1>11 DEF LogInv

LEMMA LeaveInv ==
  ASSUME LogInv, Leave
  PROVE  LogInv'
<1>1. /\ paired' = FALSE /\ match < MaxMatches
      /\ UNCHANGED <<play, upto, again, match, lap, lastTick, py, c, odd, mixed, gave, said, round>>
  BY DEF Leave, consoles, ports, history
<1>2. LogTypeOK /\ KeysOnce /\ Playing /\ Counted /\ Filed /\ Awaited /\ FirstMatch
  BY DEF LogInv
<1>3. LogTypeOK'
  BY <1>1, <1>2 DEF LogTypeOK
<1>4. KeysOnce' /\ Playing' /\ Counted' /\ FirstMatch'
  BY <1>1, <1>2 DEF KeysOnce, Playing, Counted, FirstMatch, Placed, Straight
<1>5. Filed'
  BY <1>1 DEF Filed, Sound
<1>6. Awaited'
  BY <1>1, <1>2 DEF Awaited, Sound, Straight
<1> QED
  BY <1>3, <1>4, <1>5, <1>6 DEF LogInv

LEMMA MeetInv ==
  ASSUME LogInv, Meet
  PROVE  LogInv'
<1>1. /\ paired' = TRUE /\ match' = match + 1 /\ ~paired
      /\ play' = [play EXCEPT !["new"] = [match |-> match + 1, tick |-> First - 1]]
      /\ upto' = [upto EXCEPT !["new"] = First - 1 + Lead]
      /\ lap'  = [lap EXCEPT !["new"] = 0] /\ lastTick' = [lastTick EXCEPT !["new"] = TickMod]
      /\ py' = [py EXCEPT !.map = Empty] /\ c' = [c EXCEPT !.map = Empty]
      /\ UNCHANGED <<again, odd, mixed, gave, said, round>>
  BY DEF Meet, history
<1>2. LogTypeOK /\ KeysOnce /\ Playing /\ Counted /\ Filed /\ Awaited /\ FirstMatch
  BY DEF LogInv
<1>3. /\ TickMod \in Nat \ {0} /\ First \in 1 .. TickMod - 1 /\ Lead \in Nat /\ Slots \in Nat
      /\ MaxMatches \in Nat \ {0} /\ First - 1 \in Nat /\ First - 1 + Lead \in Nat
  BY LogAssumption
<1>4. Empty \in [Side -> Seq(Entry)] /\ \A s \in Side : Empty[s] = <<>>
  BY EmptyMap DEF Empty
<1>5. py' \in Log /\ c' \in Log /\ py'.map = Empty /\ c'.map = Empty
  BY <1>1, <1>2, <1>4 DEF LogTypeOK, Log
<1>6. match \in Nat /\ match >= 1 /\ match < MaxMatches /\ match + 1 \in 1 .. MaxMatches
  <2>1. match \in 1 .. MaxMatches
    BY <1>2 DEF LogTypeOK
  <2>2. match < MaxMatches
    BY <1>1, <1>2 DEF Playing
  <2> QED
    BY <1>3, <2>1, <2>2
<1>7. /\ play'["new"] = [match |-> match + 1, tick |-> First - 1] /\ play'["old"] = play["old"]
      /\ lap'["new"] = 0 /\ lap'["old"] = lap["old"]
      /\ lastTick'["new"] = TickMod /\ lastTick'["old"] = lastTick["old"]
      /\ upto'["new"] = First - 1 + Lead
  BY <1>1, <1>2 DEF LogTypeOK, Side
<1>8. play["old"].match <= match /\ play["old"].match \in Nat
  BY <1>2 DEF Playing, LogTypeOK, Side
<1>9. LogTypeOK'
  <2>1. play' \in [Side -> [match: 1 .. MaxMatches, tick: Nat]] /\ upto' \in [Side -> Nat]
    BY <1>1, <1>2, <1>3, <1>6 DEF LogTypeOK
  <2>2. match' \in 1 .. MaxMatches /\ again' \in 0 .. MaxAgain /\ {paired', mixed', said'} \subseteq BOOLEAN
    BY <1>1, <1>2, <1>6 DEF LogTypeOK
  <2>3. lap' \in [Side -> Nat] /\ lastTick' \in [Side -> 0 .. TickMod]
    <3>1. lap \in [Side -> Nat] /\ lastTick \in [Side -> 0 .. TickMod]
      BY <1>2 DEF LogTypeOK
    <3>2. 0 \in Nat /\ TickMod \in 0 .. TickMod
      BY <1>3
    <3> QED
      BY <1>1, <3>1, <3>2
  <2>4. \A s \in Side : Len(c'.map[s]) <= Slots
    BY <1>3, <1>4, <1>5, EmptyMap
  <2>5. odd' \in [match: 1 .. MaxMatches, tick: OddTicks] /\ gave' \subseteq Side /\ round' \subseteq Crc
    BY <1>1, <1>2 DEF LogTypeOK
  <2> QED
    BY <1>5, <2>1, <2>2, <2>3, <2>4, <2>5 DEF LogTypeOK
<1>10. KeysOnce'
  BY <1>4, <1>5 DEF KeysOnce
<1>11. Playing'
  <2>1. First - 1 <= play'["new"].tick /\ First - 1 <= play'["old"].tick
    BY <1>2, <1>3, <1>7 DEF Playing, Side
  <2>2. play'["old"].match # match'
    BY <1>1, <1>6, <1>7, <1>8
  <2>3. upto'["new"] <= Lead + (First - 1)
    BY <1>3, <1>7
  <2>4. play'["new"].match = match' /\ play'["old"].match <= match'
    BY <1>1, <1>6, <1>7, <1>8
  <2> QED
    BY <1>1, <2>1, <2>2, <2>3, <2>4, Sides DEF Playing, Side
<1>12. Straight("old")' <=> Straight("old")
  BY <1>7 DEF Straight
<1>13. Counted'
  <2>1. Placed("old")' <=> Placed("old")
    BY <1>7 DEF Placed
  <2>2. Straight("new")'
    <3>1. 0 * TickMod <= First - 1
      BY <1>3
    <3> QED
      BY <1>7, <3>1 DEF Straight
  <2>3. match' # 1
    BY <1>1, <1>6
  <2> QED
    BY <1>2, <1>7, <2>1, <2>2, <2>3 DEF Counted, Side
<1>14. Filed'
  BY <1>4, <1>5, EmptyMap DEF Filed, Keyed, Rising, Rise
<1>15. Awaited'
  <2>1. odd.match \in Nat /\ odd.tick \in Nat
    <3>1. odd \in [match: 1 .. MaxMatches, tick: OddTicks]
      BY <1>2 DEF LogTypeOK
    <3>2. odd.match \in 1 .. MaxMatches /\ odd.tick \in OddTicks
      BY <3>1
    <3>3. odd.tick \in Nat
      <4>1. OddTicks \subseteq Nat
        BY LogAssumption
      <4> QED
        BY <3>2, <4>1
    <3>4. odd.match \in Nat
      BY <1>3, <3>2
    <3> QED
      BY <3>3, <3>4
  <2>2. gave # {} => odd.match <= match' /\ First <= odd.tick /\ match' # odd.match
    BY <1>1, <1>2, <1>6, <2>1 DEF Awaited
  <2>3. ASSUME match' = odd.match, NEW s \in Side, First <= odd.tick, play'[s] = odd PROVE FALSE
    <3>1. CASE s = "new"
      BY <1>3, <1>7, <2>3, <3>1
    <3>2. CASE s = "old"
      BY <1>1, <1>6, <1>7, <1>8, <2>3, <3>2
    <3> QED
      BY <3>1, <3>2 DEF Side
  <2>4. gave = Side /\ ~mixed /\ Straight("old") => said
    BY <1>2 DEF Awaited
  <2> QED
    BY <1>1, <1>12, <2>2, <2>3, <2>4 DEF Awaited
<1>16. FirstMatch'
  BY <1>1, <1>6 DEF FirstMatch
<1> QED
  BY <1>9, <1>10, <1>11, <1>13, <1>14, <1>15, <1>16 DEF LogInv

LEMMA RestartInv ==
  ASSUME LogInv, Restart
  PROVE  LogInv'
<1>1. /\ play["old"].match < match
      /\ play' = [play EXCEPT !["old"] = [match |-> match, tick |-> First - 1]]
      /\ upto' = [upto EXCEPT !["old"] = (IF play["new"].tick < First THEN First - 1
                                          ELSE play["new"].tick) + Lead]
      /\ UNCHANGED <<again, match, paired, lap, lastTick, py, c, odd, mixed, gave, said, round>>
  BY DEF Restart, ports, history
<1>2. LogTypeOK /\ KeysOnce /\ Playing /\ Counted /\ Filed /\ Awaited /\ FirstMatch
  BY DEF LogInv
<1>3. /\ TickMod \in Nat \ {0} /\ First \in 1 .. TickMod - 1 /\ Lead \in Nat /\ First - 1 \in Nat
  BY LogAssumption
<1>4. /\ match \in Nat /\ play["old"].match \in Nat /\ play["old"].match >= 1
      /\ play["old"].tick \in Nat /\ play["new"].tick \in Nat /\ lap["old"] \in Nat
      /\ upto["new"] \in Nat /\ match \in 1 .. MaxMatches
  <2>1. /\ play \in [Side -> [match: 1 .. MaxMatches, tick: Nat]] /\ upto \in [Side -> Nat]
        /\ lap \in [Side -> Nat] /\ match \in 1 .. MaxMatches
    BY <1>2 DEF LogTypeOK
  <2>2. "old" \in Side /\ "new" \in Side
    BY DEF Side
  <2>3. /\ play["old"] \in [match: 1 .. MaxMatches, tick: Nat]
        /\ play["new"] \in [match: 1 .. MaxMatches, tick: Nat]
    BY <2>1, <2>2
  <2>4. match \in Nat /\ play["old"].match \in Nat /\ play["old"].match >= 1
    BY <2>1, <2>3
  <2> QED
    BY <2>1, <2>2, <2>3, <2>4
<1>5. /\ play'["old"] = [match |-> match, tick |-> First - 1] /\ play'["new"] = play["new"]
      /\ upto'["new"] = upto["new"]
      /\ upto'["old"] = (IF play["new"].tick < First THEN First - 1 ELSE play["new"].tick) + Lead
  BY <1>1, <1>2 DEF LogTypeOK, Side
<1>6. (IF play["new"].tick < First THEN First - 1 ELSE play["new"].tick) + Lead \in Nat
  BY <1>3, <1>4
<1>7. match # 1
  BY <1>1, <1>4
<1>8. LogTypeOK'
  <2>1. play' \in [Side -> [match: 1 .. MaxMatches, tick: Nat]]
    BY <1>1, <1>2, <1>3, <1>4 DEF LogTypeOK
  <2>2. upto' \in [Side -> Nat]
    BY <1>1, <1>2, <1>6 DEF LogTypeOK
  <2> QED
    BY <1>1, <1>2, <2>1, <2>2 DEF LogTypeOK
<1>9. KeysOnce' /\ FirstMatch'
  BY <1>1, <1>2 DEF KeysOnce, FirstMatch
<1>10. Playing'
  <2>1. play["new"].match = match /\ First - 1 <= play["new"].tick /\ upto["new"] <= Lead + (First - 1)
    BY <1>1, <1>2, <1>4, Sides DEF Playing, Side
  <2>2. upto'["old"] <= Lead + play["new"].tick
    BY <1>3, <1>4, <1>5, <2>1
  <2>3. First - 1 <= play'["old"].tick /\ play'["old"].match <= match
    BY <1>3, <1>4, <1>5
  <2>4. ~paired' => match' < MaxMatches
    BY <1>1, <1>2 DEF Playing
  <2> QED
    BY <1>1, <1>5, <2>1, <2>2, <2>3, <2>4, Sides DEF Playing, Side
<1>11. Straight("old")' => Straight("old")
  <2> SUFFICES ASSUME lap["old"] * TickMod <= First - 1
               PROVE  lap["old"] * TickMod <= play["old"].tick
    BY <1>1, <1>5 DEF Straight
  <2>1. lap["old"] >= 1 => lap["old"] * TickMod >= TickMod
    BY <1>3, <1>4
  <2>2. lap["old"] = 0
    BY <1>3, <1>4, <2>1
  <2> QED
    BY <1>3, <1>4, <2>2
<1>12. Counted'
  <2>1. (Placed("new")' <=> Placed("new")) /\ (Straight("new")' <=> Straight("new"))
    BY <1>1, <1>5 DEF Placed, Straight
  <2> QED
    BY <1>1, <1>2, <1>5, <1>7, <2>1 DEF Counted, Side
<1>13. Sound' => Sound
  BY <1>1, <1>11 DEF Sound
<1>14. \A t, q : Sum(t, q)' = Sum(t, q)
  BY <1>1 DEF Sum
<1>15. Filed'
  <2> SUFFICES ASSUME Sound' PROVE \A s \in Side : Keyed(py.map[s], s)' /\ Rising(py.map[s])'
    BY DEF Filed
  <2>1. \A s \in Side : Keyed(py.map[s], s) /\ Rising(py.map[s])
    BY <1>2, <1>13 DEF Filed
  <2>2. \A s \in Side : Rising(py.map[s])'
    BY <1>1, <2>1 DEF Rising
  <2>3. Entries(py.map["old"]) = {}
    <3>1. play["old"].match # match
      BY <1>1, <1>4
    <3>2. Keyed(py.map["old"], "old")
      BY <2>1 DEF Side
    <3> QED
      BY <3>1, <3>2 DEF Keyed
  <2>4. Keyed(py.map["new"], "new")'
    BY <1>1, <1>5, <1>14, <2>1 DEF Keyed, Side
  <2>5. Keyed(py.map["old"], "old")'
    BY <1>1, <2>3 DEF Keyed
  <2> QED
    BY <2>2, <2>4, <2>5 DEF Side
<1>16. Awaited'
  <2>1. gave # {} => odd.match <= match /\ First <= odd.tick
    BY <1>2 DEF Awaited
  <2>2. ASSUME Sound, match = odd.match, NEW s \in Side, First <= odd.tick, play'[s] = odd
        PROVE  s \in gave
    <3>1. CASE s = "new"
      BY <1>2, <1>5, <2>2, <3>1 DEF Awaited
    <3>2. CASE s = "old"
      <4>1. odd.tick = First - 1
        BY <1>5, <2>2, <3>2
      <4> QED
        BY <1>3, <2>2, <4>1
    <3> QED
      BY <3>1, <3>2 DEF Side
  <2>3. ASSUME Sound, match = odd.match, gave # {}, ~said
        PROVE  \E s \in Side : /\ gave = {s}
                               /\ Passed(Other(s))' \/ \E x \in Entries(py'.map[s]) : x.key = odd.tick
    <3>1. PICK s \in Side : /\ gave = {s}
                            /\ Passed(Other(s)) \/ \E x \in Entries(py.map[s]) : x.key = odd.tick
      BY <1>2, <2>3 DEF Awaited
    <3>2. ~Passed("old")
      BY <1>1, <1>4 DEF Passed
    <3>3. Passed("new") => Passed("new")'
      BY <1>1, <1>5 DEF Passed
    <3>4. Other(s) = "old" \/ Other(s) = "new"
      BY Sides DEF Side
    <3> QED
      BY <1>1, <3>1, <3>2, <3>3, <3>4
  <2>4. gave = Side /\ ~mixed /\ Straight("old") => said
    BY <1>2 DEF Awaited
  <2> QED
    BY <1>1, <1>11, <1>13, <2>1, <2>2, <2>3, <2>4 DEF Awaited
<1> QED
  BY <1>8, <1>9, <1>10, <1>12, <1>15, <1>16 DEF LogInv

LEMMA ArrayInitInv == LogInit => ArrayInv
<1> SUFFICES ASSUME LogInit PROVE ArrayInv
  OBVIOUS
<1>1. \A s \in Side : Empty[s] = <<>>
  BY DEF Empty
<1>2. /\ py.map = Empty /\ py.bad = 0 /\ c = py /\ mixed = FALSE /\ said = FALSE /\ gave = {}
  BY DEF LogInit
<1>3. Len(<<>>) <= Keep
  BY EmptyMap, LogAssumption
<1>4. Beyond(<<>>) = {}
  BY <1>3, EmptyMap, BeyondFacts
<1>5. Stored
  BY <1>1, <1>2, <1>4, EmptyMap DEF Stored, Keyed, Rising, Rise
<1>6. Settled
  BY <1>2 DEF Settled, Side
<1>7. Alike
  BY <1>1, <1>2, <1>3, EmptyMap DEF Alike, Side
<1>8. SameVerdict
  BY <1>2 DEF SameVerdict
<1> QED
  BY <1>5, <1>6, <1>7, <1>8 DEF ArrayInv

LEMMA ArrayMeet ==
  ASSUME LogInv, ArrayInv, Meet
  PROVE  ArrayInv'
<1>1. /\ paired' = TRUE /\ match' = match + 1 /\ ~paired
      /\ play'["old"] = play["old"] /\ lap'["old"] = lap["old"]
      /\ py' = [py EXCEPT !.map = Empty] /\ c' = [c EXCEPT !.map = Empty]
      /\ UNCHANGED <<odd, mixed, gave, said>>
  BY DEF Meet, history, LogInv, LogTypeOK, Side
<1>2. LogTypeOK /\ Playing /\ Awaited
  BY DEF LogInv
<1>3. \A s \in Side : Empty[s] = <<>>
  BY DEF Empty
<1>4. py'.map = Empty /\ c'.map = Empty /\ py'.bad = py.bad /\ c'.bad = c.bad
  BY <1>1, <1>2 DEF LogTypeOK, Log
<1>5. Len(<<>>) <= Keep /\ Beyond(<<>>) = {}
  <2>1. Len(<<>>) <= Keep
    BY EmptyMap, LogAssumption
  <2> QED
    BY <2>1, EmptyMap, BeyondFacts
<1>6. Straight("old")' <=> Straight("old")
  BY <1>1 DEF Straight
<1>7. Stored'
  BY <1>3, <1>4, <1>5, EmptyMap DEF Stored, Keyed, Rising, Rise
<1>8. Settled'
  <2>1. gave # {} => odd.match # match'
    <3>1. match \in Nat /\ odd.match \in Nat
      BY <1>2 DEF LogTypeOK
    <3>2. gave # {} => odd.match <= match
      BY <1>2 DEF Awaited
    <3> QED
      BY <1>1, <3>1, <3>2
  <2> QED
    BY <1>1, <1>4, <1>6, <2>1 DEF ArrayInv, Settled
<1>9. Alike'
  BY <1>3, <1>4, <1>5, EmptyMap DEF Alike, Side
<1>10. SameVerdict'
  BY <1>1, <1>4 DEF ArrayInv, SameVerdict
<1> QED
  BY <1>7, <1>8, <1>9, <1>10 DEF ArrayInv

LEMMA ArrayRestart ==
  ASSUME LogInv, ArrayInv, Restart
  PROVE  ArrayInv'
<1>1. /\ play["old"].match < match
      /\ play'["old"] = [match |-> match, tick |-> First - 1] /\ play'["new"] = play["new"]
      /\ UNCHANGED <<again, match, paired, lap, lastTick, py, c, odd, mixed, gave, said, round>>
  BY DEF Restart, ports, history, LogInv, LogTypeOK, Side
<1>2. LogTypeOK /\ Playing /\ Awaited /\ Stored /\ Settled /\ Alike /\ SameVerdict
  BY DEF LogInv, ArrayInv
<1>3. match \in Nat /\ play["old"].match \in Nat /\ play["old"].match # match
  <2>1. match \in Nat /\ play["old"].match \in Nat
    BY <1>2 DEF LogTypeOK, Side
  <2> QED
    BY <1>1, <2>1
<1>4. Straight("old")' => Straight("old")
  <2> SUFFICES ASSUME lap["old"] * TickMod <= First - 1
               PROVE  lap["old"] * TickMod <= play["old"].tick
    BY <1>1 DEF Straight
  <2>1. /\ TickMod \in Nat \ {0} /\ First \in 1 .. TickMod - 1 /\ lap["old"] \in Nat
        /\ play["old"].tick \in Nat
    BY <1>2, LogAssumption DEF LogTypeOK, Side
  <2>2. lap["old"] >= 1 => lap["old"] * TickMod >= TickMod
    BY <2>1
  <2>3. lap["old"] = 0
    BY <2>1, <2>2
  <2> QED
    BY <2>1, <2>3
<1>5. Sound' => Sound
  BY <1>1, <1>4 DEF Sound
<1>6. \A t, q : Sum(t, q)' = Sum(t, q)
  BY <1>1 DEF Sum
<1>7. Stored'
  <2> SUFFICES ASSUME Sound'
               PROVE  \A s \in Side :
                        /\ Keyed(c.map[s], s)' /\ Rising(c.map[s])'
                        /\ \A x \in Beyond(c'.map[s]) :
                             [match |-> match', tick |-> x.key] = odd' => Other(s) \in gave'
    BY DEF Stored
  <2>1. \A s \in Side : /\ Keyed(c.map[s], s) /\ Rising(c.map[s])
                        /\ \A x \in Beyond(c.map[s]) :
                             [match |-> match, tick |-> x.key] = odd => Other(s) \in gave
    BY <1>2, <1>5 DEF Stored
  <2>2. \A s \in Side : Rising(c.map[s])'
    BY <1>1, <2>1 DEF Rising
  <2>3. Entries(c.map["old"]) = {}
    BY <1>3, <2>1 DEF Keyed, Side
  <2>4. Keyed(c.map["new"], "new")'
    BY <1>1, <1>6, <2>1 DEF Keyed, Side
  <2>5. Keyed(c.map["old"], "old")'
    BY <1>1, <2>3 DEF Keyed
  <2> QED
    BY <1>1, <2>1, <2>2, <2>4, <2>5 DEF Side
<1>8. Settled'
  <2>1. ASSUME Sound, match = odd.match, gave # {}, c.bad = 0
        PROVE  \E s \in Side : /\ gave = {s}
                               /\ Passed(Other(s))' \/ \E x \in Entries(c'.map[s]) : x.key = odd.tick
    <3>1. PICK s \in Side : /\ gave = {s}
                            /\ Passed(Other(s)) \/ \E x \in Entries(c.map[s]) : x.key = odd.tick
      BY <1>2, <2>1 DEF Settled
    <3>2. ~Passed("old")
      BY <1>3 DEF Passed
    <3>3. Passed("new") => Passed("new")'
      BY <1>1 DEF Passed
    <3>4. Other(s) = "old" \/ Other(s) = "new"
      BY Sides DEF Side
    <3> QED
      BY <1>1, <3>1, <3>2, <3>3, <3>4
  <2> QED
    BY <1>1, <1>2, <1>4, <1>5, <2>1 DEF Settled
<1>9. Alike'
  <2> SUFFICES ASSUME paired, ~mixed
               PROVE  /\ py.map = c.map /\ \A s \in Side : Len(c.map[s]) <= Keep
                      /\ c.map["old"] = <<>>
                      /\ \A x \in Entries(c.map["new"]) : x.crc.tick = x.key
                      /\ \A x \in Entries(c.map["old"]) : x.crc.tick # x.key
    BY <1>1 DEF Alike
  <2>1. Unheard
    BY <1>1 DEF Unheard
  <2> QED
    BY <1>2, <2>1, Zenon DEF Alike
<1>10. SameVerdict'
  BY <1>1, <1>2 DEF SameVerdict
<1> QED
  BY <1>7, <1>8, <1>9, <1>10 DEF ArrayInv

LEMMA ArrayInductive ==
  ASSUME LogInv, ArrayInv, LogNext \/ UNCHANGED logvars
  PROVE  ArrayInv'
<1>1. /\ LogTypeOK /\ KeysOnce /\ Playing /\ Counted /\ Filed /\ Awaited
      /\ Stored /\ Settled /\ Alike /\ SameVerdict
  BY DEF LogInv, ArrayInv
<1>2. ASSUME NEW s \in Side, Report(s) PROVE ArrayInv'
  <2>1. PICK d \in 0 .. Gap, p \in [match: 1 .. MaxMatches, tick: Nat], e \in Entry : Reports(s, d, p, e)
    BY <1>1, <1>2, ReportFacts
  <2>2. Stored' /\ Settled'
    BY <1>1, <2>1, StoredStep, SettledStep
  <2>3. Alike' /\ SameVerdict'
    BY <1>1, <2>1, AlikeStep, VerdictStep
  <2> QED
    BY <2>2, <2>3 DEF ArrayInv
<1>3. CASE Leave \/ UNCHANGED logvars
  <2>1. /\ UNCHANGED <<play, match, lap, py, c, odd, mixed, gave, said>>
        /\ paired' = FALSE \/ paired' = paired
    BY <1>3 DEF Leave, logvars, consoles, ports, history
  <2>2. Stored'
    BY <1>1, <2>1 DEF Stored, Sound, Straight, Keyed, Rising, Sum
  <2>3. Settled'
    BY <1>1, <2>1 DEF Settled, Sound, Straight, Passed
  <2>4. Alike'
    BY <1>1, <2>1 DEF Alike, Unheard, Straight
  <2>5. SameVerdict'
    BY <1>1, <2>1 DEF SameVerdict
  <2> QED
    BY <2>2, <2>3, <2>4, <2>5 DEF ArrayInv
<1>4. CASE Meet \/ Restart
  BY <1>4, ArrayMeet, ArrayRestart
<1> QED
  BY <1>2, <1>3, <1>4 DEF LogNext

-----------------------------------------------------------------------------
(* The theorems.                                                           *)

LEMMA LogInductive ==
  ASSUME LogInv, LogNext \/ UNCHANGED logvars
  PROVE  LogInv'
<1>1. LogTypeOK /\ KeysOnce /\ Playing /\ Counted /\ Filed /\ Awaited /\ FirstMatch
  BY DEF LogInv
<1>2. ASSUME NEW s \in Side, Report(s) PROVE LogInv'
  <2>1. PICK d \in 0 .. Gap, p \in [match: 1 .. MaxMatches, tick: Nat], e \in Entry : Reports(s, d, p, e)
    BY <1>1, <1>2, ReportFacts
  <2>2. LogTypeOK' /\ KeysOnce'
    BY <1>1, <2>1, ReportTypes
  <2>3. Playing' /\ Counted'
    BY <1>1, <2>1, PlayingStep, CountedStep
  <2>4. Filed' /\ FirstMatch'
    BY <1>1, <2>1, FiledStep, FirstMatchStep
  <2>5. Awaited'
    BY <1>1, <2>1, AwaitedStep
  <2> QED
    BY <2>2, <2>3, <2>4, <2>5 DEF LogInv
<1>3. CASE UNCHANGED logvars
  <2>1. UNCHANGED <<play, upto, again, match, paired, lap, lastTick, py, c, odd, mixed, gave, said, round>>
    BY <1>3 DEF logvars, consoles, ports, history
  <2>2. LogTypeOK' /\ KeysOnce' /\ Playing' /\ Counted' /\ FirstMatch'
    BY <1>1, <2>1 DEF LogTypeOK, KeysOnce, Playing, Counted, FirstMatch, Placed, Straight
  <2>3. Filed'
    BY <1>1, <2>1 DEF Filed, Sound, Straight, Keyed, Rising, Sum
  <2>4. Awaited'
    BY <1>1, <2>1 DEF Awaited, Sound, Straight, Passed
  <2> QED
    BY <2>2, <2>3, <2>4 DEF LogInv
<1>4. CASE Leave \/ Meet \/ Restart
  BY <1>4, LeaveInv, MeetInv, RestartInv
<1> QED
  BY <1>2, <1>3, <1>4 DEF LogNext

(* The inductive invariant of the checksum log holds, in both ports.       *)
THEOREM LogInvariance == LogSpec => []LogInv
<1>1. LogInv /\ [LogNext]_logvars => LogInv'
  BY LogInductive
<1> QED
  BY <1>1, LogInitInv, PTL DEF LogSpec

(* log_crc (vo_relay_server.py): however the byte wraps and whatever ticks *)
(* are skipped or said again, in the first match only checksums of one     *)
(* tick are compared, and crc_bad counts nothing but the disagreement.     *)
THEOREM LapsMeet == LogSpec => []OneTick
<1>1. LogInv => OneTick
  <2> SUFFICES ASSUME LogInv, match = 1
               PROVE  Cardinality({x.tick : x \in round}) <= 1 /\ (py.bad > 0 => gave = Side)
    BY DEF OneTick
  <2>1. (\A x, y \in round : x.tick = y.tick) /\ (py.bad > 0 => gave = Side)
    BY DEF LogInv, FirstMatch
  <2> DEFINE T == {x.tick : x \in round}
  <2>2. CASE T = {}
    <3>1. Cardinality(T) = 0
      BY <2>2, FS_EmptySet
    <3> QED
      BY <2>1, <3>1
  <2>3. CASE T # {}
    <3>1. PICK t : t \in T
      BY <2>3
    <3>2. T = {t}
      BY <2>1, <3>1
    <3>3. Cardinality(T) = 1
      BY <3>2, FS_Singleton
    <3> QED
      BY <2>1, <3>3
  <2> QED
    BY <2>2, <2>3
<1> QED
  BY <1>1, LogInvariance, PTL

(* The trim of the map (log_crc keeps eight) never throws away a checksum   *)
(* whose partner may still come: a tick both consoles reported and         *)
(* disagreed on is logged as a mismatch.                                   *)
THEOREM NoDisagreementLost == LogSpec => []DisagreementSaid
<1>1. LogInv => DisagreementSaid
  <2> SUFFICES ASSUME LogInv, gave = Side, LapsRight, ~mixed PROVE said
    BY DEF DisagreementSaid
  <2>1. Straight("old")
    <3>1. /\ lap["old"] \in Nat /\ play["old"].tick \in Nat /\ TickMod \in Nat
          /\ lastTick["old"] = TickMod => lap["old"] = 0
      BY LogAssumption DEF LogInv, LogTypeOK, Counted, Side
    <3>2. CASE lap["old"] = 0
      BY <3>1, <3>2 DEF Straight
    <3>3. CASE lap["old"] # 0
      BY <3>1, <3>3 DEF LapsRight, Straight, Side
    <3> QED
      BY <3>2, <3>3
  <2> QED
    BY <2>1 DEF LogInv, Awaited
<1> QED
  BY <1>1, LogInvariance, PTL

(* log_crc (vo-relay.c): the array has room for fewer checksums than may   *)
(* wait at once, and gives up the newest; the C port still reports a       *)
(* mismatch whenever the Python does, and none where the Python has none.  *)
THEOREM PortsAgree == LogSpec => []SameVerdict
<1>1. LogInit => LogInv /\ ArrayInv
  BY LogInitInv, ArrayInitInv
<1>2. LogInv /\ ArrayInv /\ [LogNext]_logvars => (LogInv /\ ArrayInv)'
  BY LogInductive, ArrayInductive
<1>3. ArrayInv => SameVerdict
  BY DEF ArrayInv
<1> QED
  BY <1>1, <1>2, <1>3, PTL DEF LogSpec

(* Both parts of the relay in one specification: what LobbyInv, LogInv and *)
(* ArrayInv say holds whichever of the two a behaviour exercises.          *)
THEOREM ServerInvariance == MCSpec => []ServerInv
<1>1. MCInit => ServerInv
  BY LobbyInitInv, LogInitInv, ArrayInitInv DEF MCInit, ServerInv
<1>2. ServerInv /\ [MCNext]_MCvars => ServerInv'
  <2> SUFFICES ASSUME ServerInv, [MCNext]_MCvars PROVE ServerInv'
    OBVIOUS
  <2>1. LobbyInv /\ LogInv /\ ArrayInv
    BY DEF ServerInv
  <2>2. LobbyNext \/ UNCHANGED lobbyvars
    BY DEF MCNext, MCvars
  <2>3. LogNext \/ UNCHANGED logvars
    BY DEF MCNext, MCvars
  <2>4. LobbyInv'
    BY <2>1, <2>2, LobbyInductive
  <2>5. LogInv' /\ ArrayInv'
    BY <2>1, <2>3, LogInductive, ArrayInductive
  <2> QED
    BY <2>4, <2>5 DEF ServerInv
<1> QED
  BY <1>1, <1>2, PTL DEF MCSpec

=============================================================================
