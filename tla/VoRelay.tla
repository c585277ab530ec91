------------------------------- MODULE VoRelay -------------------------------
(***************************************************************************)
(* The relay (vo_relay_server.py): one thread around a selector.  It       *)
(* accepts connections, takes frames off them, pairs the consoles that say *)
(* HELLO, forwards what a console says to its partner, and tells a console *)
(* whose partner is gone.  Whatever it sends goes to a buffer first and is *)
(* flushed to the socket when the loop comes round to it.                  *)
(*                                                                         *)
(* The thread is in one client's frame loop (at) or back at the selector;  *)
(* each frame handled is a step, each flush is a step.  A partial frame is *)
(* a frame not yet received.  A connection is accepted once; a console     *)
(* that comes back is another connection.  The checksums in the records    *)
(* are not here: the relay only counts them.                               *)
(***************************************************************************)
EXTENDS Naturals, Sequences, FiniteSets

CONSTANTS
  Conn,          \* connections
  None,          \* no partner, no name, nobody
  Name,          \* names a console may have
  Asks,          \* the name each console asks for
  Variant,       \* what the name loop may make of a name
  Address,       \* the address each connection comes from
  MaxClients,    \* MAX_CLIENTS
  MaxPerAddress, \* MAX_CONNECTIONS_PER_IP
  MaxBacklog,    \* MAX_TX_BACKLOG, in frames
  LobbyRows,     \* 8: rows of a LOBBY frame
  Extra,         \* what consoles say besides HELLO and INPUT
  MaxTold,       \* bound: records a console sends
  MaxAsked       \* bound: other frames it sends

ASSUME NoneAssumption == None \notin Conn /\ None \notin Name
ASSUME FiniteAssumption == IsFiniteSet(Conn) /\ IsFiniteSet(Name)
ASSUME NamesAssumption == /\ Asks \in [Conn -> Name]
                          /\ Variant \in [Name -> SUBSET Name]
ASSUME LimitsAssumption ==
  /\ MaxClients \in Nat /\ MaxPerAddress \in Nat /\ MaxBacklog \in Nat
  /\ LobbyRows \in Nat /\ MaxTold \in Nat /\ MaxAsked \in Nat
ASSUME ExtraAssumption ==
  Extra \subseteq {"REFUSED", "BAD", "LIST", "JOIN", "PING", "BYE", "OTHER"}

VARIABLES
  came,        \* connections that ever reached accept()
  clients,     \* self.clients
  born,        \* when a client was accepted, as a rank
  name,        \* c.name
  by_name,     \* self.by_name
  partner,     \* c.partner
  rx,          \* c.rx: whole frames received and not yet handled
  tx,          \* c.tx: frames not yet taken by the socket
  at,          \* the client whose frame loop is running
  curplayers,  \* what the lobby publisher was last told
  wire,        \* frames a console sent and the relay has not received
  shut,        \* the console ended its connection
  hello,       \* what it has said of itself: "new", "said", "last"
  told, asked, \* how many records, and how many other frames, it sent
  got          \* history: the frames that reached the console

server  == <<clients, born, name, by_name, partner, curplayers>>
console == <<shut, hello, told, asked>>
vars    == <<came, server, rx, tx, at, wire, console, got>>

-----------------------------------------------------------------------------
(* Frames.                                                                 *)

Start(role, opp) == [kind |-> "START", role |-> role, opp |-> opp]
Record(c, n)     == [kind |-> "INPUT", from |-> c, n |-> n]
PeerLeft         == [kind |-> "PEER_LEFT"]
Pong             == [kind |-> "PONG"]

Init ==
  /\ came = {}           /\ clients = {}
  /\ born    = [c \in Conn |-> 0]
  /\ name    = [c \in Conn |-> None]
  /\ by_name = [n \in Name |-> None]
  /\ partner = [c \in Conn |-> None]
  /\ rx      = [c \in Conn |-> <<>>]
  /\ tx      = [c \in Conn |-> <<>>]
  /\ at = None           /\ curplayers = 0
  /\ wire    = [c \in Conn |-> <<>>]
  /\ shut    = [c \in Conn |-> FALSE]
  /\ hello   = [c \in Conn |-> "new"]
  /\ told    = [c \in Conn |-> 0]
  /\ asked   = [c \in Conn |-> 0]
  /\ got     = [c \in Conn |-> <<>>]

-----------------------------------------------------------------------------
(* The consoles, as far as the relay sees them.                            *)

Speak(c, f) ==
  /\ c \in clients /\ ~shut[c]
  /\ wire' = [wire EXCEPT ![c] = Append(@, f)]
  /\ UNCHANGED <<came, server, rx, tx, at, shut, got>>

(* HELLO comes first and once.                                             *)
SayHello(c) ==
  /\ hello[c] = "new"
  /\ hello' = [hello EXCEPT ![c] = "said"]
  /\ Speak(c, [kind |-> "HELLO", name |-> Asks[c]])
  /\ UNCHANGED <<told, asked>>

(* Records, from the START the console has read on; it goes on sending     *)
(* them until it learns that the match is over, and a while longer.        *)
SayInput(c) ==
  /\ hello[c] = "said" /\ told[c] < MaxTold
  /\ \E i \in DOMAIN got[c] : got[c][i].kind = "START"
  /\ told' = [told EXCEPT ![c] = @ + 1]
  /\ Speak(c, Record(c, told'[c]))
  /\ UNCHANGED <<hello, asked>>

(* The rest of the protocol.  A HELLO the relay refuses, a length that is  *)
(* none and BYE are the last a console says.                               *)
SayExtra(c) ==
  /\ asked[c] < MaxAsked
  /\ \E k \in Extra :
       /\ hello[c] = IF k \in {"REFUSED", "BAD"} THEN "new" ELSE "said"
       /\ hello' = IF k \in {"REFUSED", "BAD", "BYE"}
                   THEN [hello EXCEPT ![c] = "last"] ELSE hello
       /\ Speak(c, [kind |-> k])
  /\ asked' = [asked EXCEPT ![c] = @ + 1]
  /\ UNCHANGED told

HangUp(c) ==
  /\ c \in clients /\ ~shut[c]
  /\ shut' = [shut EXCEPT ![c] = TRUE]
  /\ UNCHANGED <<came, server, rx, tx, at, wire, hello, told, asked, got>>

-----------------------------------------------------------------------------
(* accept, drop, sweep.                                                    *)

Here(c)   == c \in clients
SameAs(c) == {d \in clients : Address[d] = Address[c]}

Accept(c) ==
  /\ at = None /\ c \notin came
  /\ came' = came \cup {c}
  /\ \/ /\ Cardinality(clients) < MaxClients
        /\ Cardinality(SameAs(c)) < MaxPerAddress
        /\ clients' = clients \cup {c}
        /\ born' = [born EXCEPT ![c] = Cardinality(came) + 1]
     \/ /\ \/ Cardinality(clients) >= MaxClients
           \/ Cardinality(SameAs(c)) >= MaxPerAddress
        /\ UNCHANGED <<clients, born>>
  /\ UNCHANGED <<name, by_name, partner, curplayers, rx, tx, at, wire, console, got>>

Listed(names) == Cardinality({n \in Name : names[n] # None})

(* Mutant: the partner is let go and not told.                              *)
DropQuietSlip(c, out) ==
  \/ ~Here(c) /\ tx' = out /\ UNCHANGED server
  \/ /\ Here(c)
     /\ clients' = clients \ {c}
     /\ by_name' = [n \in Name |-> IF by_name[n] = c THEN None ELSE by_name[n]]
     /\ partner' = [d \in Conn |-> IF d # c /\ d = partner[c] THEN None ELSE partner[d]]
     /\ tx' = out
     /\ curplayers' = Listed(by_name')
     /\ UNCHANGED <<born, name>>

(* Mutant: the partner is told and not let go.                              *)
DropHoldSlip(c, out) ==
  \/ ~Here(c) /\ tx' = out /\ UNCHANGED server
  \/ /\ Here(c)
     /\ clients' = clients \ {c}
     /\ by_name' = [n \in Name |-> IF by_name[n] = c THEN None ELSE by_name[n]]
     /\ tx' = IF partner[c] = None THEN out
              ELSE [out EXCEPT ![partner[c]] = Append(@, PeerLeft)]
     /\ curplayers' = Listed(by_name')
     /\ UNCHANGED <<born, name, partner>>

(* drop(c), with what is buffered so far in out.  The partner is let go    *)
(* and told; the client's own fields stay as they are.                     *)
Drop(c, out) ==
  \/ /\ ~Here(c)
     /\ tx' = out
     /\ UNCHANGED server
  \/ /\ Here(c)
     /\ clients' = clients \ {c}
     /\ by_name' = [n \in Name |-> IF n = name[c] /\ by_name[n] = c
                                   THEN None ELSE by_name[n]]
     /\ \/ /\ partner[c] = None
           /\ tx' = out
           /\ UNCHANGED partner
        \/ /\ partner[c] # None
           /\ partner' = [partner EXCEPT ![partner[c]] = None]
           /\ tx' = [out EXCEPT ![partner[c]] = Append(@, PeerLeft)]
     /\ curplayers' = Listed(by_name')
     /\ UNCHANGED <<born, name>>

(* A connection without a HELLO does not stay for ever.                    *)
Sweep(c) ==
  /\ at = None /\ Here(c) /\ name[c] = None
  /\ Drop(c, tx)
  /\ UNCHANGED <<came, rx, at, wire, console, got>>

-----------------------------------------------------------------------------
(* Pairing.                                                                *)

(* Mutant: only those that connected before c.                              *)
IdleOlderSlip(names, c) ==
  {o \in clients : names[o] # None /\ partner[o] = None /\ born[o] < born[c]}

Idle(names, c) == {o \in clients \ {c} : names[o] # None /\ partner[o] = None}

(* The oldest of the consoles in s.                                        *)
Oldest(s) == CHOOSE o \in s : \A q \in s : born[o] <= born[q]

(* try_pair(c), with the names as they now are.  Nobody asks whether c     *)
(* itself is idle.                                                         *)
TryPair(c, names) ==
  \/ /\ Idle(names, c) = {}
     /\ UNCHANGED <<partner, tx>>
  \/ /\ Idle(names, c) # {}
     /\ LET host == Oldest(Idle(names, c))
        IN  /\ partner' = [partner EXCEPT ![host] = c, ![c] = host]
            /\ tx' = [tx EXCEPT ![host] = Append(@, Start("host", names[c])),
                                ![c]    = Append(@, Start("guest", names[host]))]

-----------------------------------------------------------------------------
(* service(c): the frame loop, one frame a step.                           *)

Recv(c) ==
  /\ at = None /\ Here(c) /\ wire[c] # <<>>
  /\ \E k \in 1 .. Len(wire[c]) :
       /\ rx'   = [rx EXCEPT ![c] = @ \o SubSeq(wire[c], 1, k)]
       /\ wire' = [wire EXCEPT ![c] = SubSeq(@, k + 1, Len(@))]
  /\ at' = c
  /\ UNCHANGED <<came, server, tx, console, got>>

(* The end of the stream, or an error that loses what was still coming.    *)
RecvEnd(c) ==
  /\ at = None /\ Here(c) /\ shut[c]
  /\ Drop(c, tx)
  /\ UNCHANGED <<came, rx, at, wire, console, got>>

Take(c, kind) ==
  /\ at = c /\ rx[c] # <<>> /\ Head(rx[c]).kind = kind
  /\ rx' = [rx EXCEPT ![c] = Tail(@)]
  /\ UNCHANGED <<came, wire, console, got>>

(* A length that is none ends the connection and the loop.                 *)
BadLength(c) ==
  /\ Take(c, "BAD")
  /\ Drop(c, tx)
  /\ at' = None

Forward(c) ==
  /\ Take(c, "INPUT")
  /\ \/ /\ partner[c] # None
        /\ tx' = [tx EXCEPT ![partner[c]] = Append(@, Head(rx[c]))]
     \/ partner[c] = None /\ UNCHANGED tx
  /\ UNCHANGED <<server, at>>

(* Mutant: a name that is taken is taken over.                              *)
FreeSlip(n) == {n}

(* The loop that varies a name until it is free.                           *)
Free(n) == IF by_name[n] = None THEN {n} ELSE {v \in Variant[n] : by_name[v] = None}

(* Mutant: pairs before it has written the name down.                       *)
OnHelloEarlySlip(c) ==
  /\ Take(c, "HELLO")
  /\ \E n \in Free(Head(rx[c]).name) :
       /\ name'    = [name EXCEPT ![c] = n]
       /\ by_name' = [by_name EXCEPT ![n] = c]
  /\ curplayers' = Listed(by_name')
  /\ TryPair(c, name)
  /\ UNCHANGED <<clients, born, at>>

OnHello(c) ==
  /\ Take(c, "HELLO")
  /\ \E n \in Free(Head(rx[c]).name) :
       /\ name'    = [name EXCEPT ![c] = n]
       /\ by_name' = [by_name EXCEPT ![n] = c]
  /\ curplayers' = Listed(by_name')
  /\ TryPair(c, name')
  /\ UNCHANGED <<clients, born, at>>

(* A version, a television standard or a name it does not take.            *)
Refuse(c) ==
  /\ Take(c, "REFUSED")
  /\ Drop(c, tx)
  /\ UNCHANGED at

OnJoin(c) ==
  /\ Take(c, "JOIN")
  /\ TryPair(c, name)
  /\ UNCHANGED <<clients, born, name, by_name, curplayers, at>>

(* The first named clients and whether each is in a match.                 *)
Rows == {o \in clients :
           /\ name[o] # None
           /\ Cardinality({q \in clients : name[q] # None /\ born[q] < born[o]}) < LobbyRows}
Lobby == [kind |-> "LOBBY", rows |-> {<<name[o], partner[o] # None>> : o \in Rows}]

SendLobby(c) ==
  /\ Take(c, "LIST")
  /\ tx' = [tx EXCEPT ![c] = Append(@, Lobby)]
  /\ UNCHANGED <<server, at>>

Ping(c) ==
  /\ Take(c, "PING")
  /\ tx' = [tx EXCEPT ![c] = Append(@, Pong)]
  /\ UNCHANGED <<server, at>>

Bye(c) ==
  /\ Take(c, "BYE")
  /\ Drop(c, tx)
  /\ UNCHANGED at

Unknown(c) ==
  /\ Take(c, "OTHER")
  /\ UNCHANGED <<server, tx, at>>

ServiceDone(c) ==
  /\ at = c /\ rx[c] = <<>>
  /\ at' = None
  /\ UNCHANGED <<came, server, rx, tx, wire, console, got>>

-----------------------------------------------------------------------------
(* flush(c): the socket takes some of the buffer; a client that leaves too *)
(* much behind is dropped.                                                 *)

(* Mutant: forgets what the socket did not take.                            *)
FlushShortSlip(c) ==
  /\ at = None /\ Here(c) /\ tx[c] # <<>>
  /\ \E k \in 0 .. Len(tx[c]) :
       /\ got' = [got EXCEPT ![c] = @ \o SubSeq(tx[c], 1, k)]
       /\ tx'  = [tx EXCEPT ![c] = <<>>]
  /\ UNCHANGED <<came, server, rx, at, wire, console>>

Flush(c) ==
  /\ at = None /\ Here(c) /\ tx[c] # <<>>
  /\ \E k \in 0 .. Len(tx[c]) :
       LET out == [tx EXCEPT ![c] = SubSeq(@, k + 1, Len(@))]
       IN  /\ got' = [got EXCEPT ![c] = @ \o SubSeq(tx[c], 1, k)]
           /\ \/ /\ Len(tx[c]) - k > MaxBacklog
                 /\ Drop(c, out)
              \/ /\ Len(tx[c]) - k <= MaxBacklog
                 /\ tx' = out
                 /\ UNCHANGED server
  /\ UNCHANGED <<came, rx, at, wire, console>>

(* The console is gone and the socket says so.                             *)
FlushFail(c) ==
  /\ at = None /\ Here(c) /\ tx[c] # <<>> /\ shut[c]
  /\ Drop(c, tx)
  /\ UNCHANGED <<came, rx, at, wire, console, got>>

-----------------------------------------------------------------------------
Service(c) == \/ BadLength(c) \/ Forward(c) \/ OnHello(c) \/ Refuse(c) \/ OnJoin(c)
              \/ SendLobby(c) \/ Ping(c) \/ Bye(c) \/ Unknown(c) \/ ServiceDone(c)
Receive(c) == Recv(c) \/ RecvEnd(c)
Send(c)    == Flush(c) \/ FlushFail(c)
User(c)    == SayHello(c) \/ SayInput(c) \/ SayExtra(c) \/ HangUp(c)

Next == \E c \in Conn :
          \/ Accept(c) \/ Sweep(c) \/ Receive(c) \/ Service(c) \/ Send(c) \/ User(c)

Spec == Init /\ [][Next]_vars

(* The loop never stops inside a frame loop, the selector hands out every  *)
(* socket that is ready in every round, and a console that stays reads.    *)
Fairness == \A c \in Conn : /\ WF_vars(Service(c))
                            /\ SF_vars(Receive(c)) /\ SF_vars(Send(c))
FairSpec == Spec /\ Fairness

-----------------------------------------------------------------------------
(* Properties.                                                             *)

FromConsole == [kind: {"HELLO"}, name: Name]
                 \cup [kind: {"INPUT"}, from: Conn, n: Nat]
                 \cup [kind: {"REFUSED", "BAD", "LIST", "JOIN", "PING", "BYE", "OTHER"}]
Reply       == [kind: {"LOBBY"}, rows: SUBSET (Name \X BOOLEAN)] \cup {Pong}
ToConsole   == [kind: {"START"}, role: {"host", "guest"}, opp: Name]
                 \cup [kind: {"INPUT"}, from: Conn, n: Nat]
                 \cup {PeerLeft} \cup Reply

(* Every variable keeps its type; a client came and was born.              *)
TypeOK ==
  /\ came \subseteq Conn /\ clients \subseteq came
  /\ born    \in [Conn -> Nat]
  /\ name    \in [Conn -> Name \cup {None}]
  /\ by_name \in [Name -> Conn \cup {None}]
  /\ partner \in [Conn -> Conn \cup {None}]
  /\ rx      \in [Conn -> Seq(FromConsole)]
  /\ tx      \in [Conn -> Seq(ToConsole)]
  /\ at      \in Conn \cup {None}
  /\ curplayers \in Nat
  /\ wire    \in [Conn -> Seq(FromConsole)]
  /\ shut    \in [Conn -> BOOLEAN]
  /\ hello   \in [Conn -> {"new", "said", "last"}]
  /\ told    \in [Conn -> Nat]
  /\ asked   \in [Conn -> Nat]
  /\ got     \in [Conn -> Seq(ToConsole)]

(* A match has two ends: a client's partner is another client, named, and  *)
(* has this client for its partner.                                        *)
Mutual ==
  \A c \in clients : partner[c] # None =>
    /\ partner[c] \in clients \ {c}
    /\ partner[partner[c]] = c
    /\ name[c] # None

(* The inductive invariant behind Mutual, for consoles that never send     *)
(* JOIN: HELLO is the first a console says, and what ends its session the   *)
(* last; only the client being served has frames left; a connection that   *)
(* never came has no past; and nobody says JOIN who may not.               *)
Last == {"REFUSED", "BAD", "BYE"}
HelloFirst == \A c \in Conn :
  /\ \A i \in DOMAIN rx[c] : rx[c][i].kind = "HELLO" => i = 1 /\ name[c] = None
  /\ \A i \in DOMAIN wire[c] : wire[c][i].kind = "HELLO" =>
                                 i = 1 /\ name[c] = None /\ rx[c] = <<>>
LastLast == \A c \in Conn :
  /\ \A i \in DOMAIN rx[c] : rx[c][i].kind \in Last =>
                               i = Len(rx[c]) /\ wire[c] = <<>> /\ hello[c] = "last"
  /\ \A i \in DOMAIN wire[c] : wire[c][i].kind \in Last =>
                                 i = Len(wire[c]) /\ hello[c] = "last"
NewIsSilent == \A c \in Conn :
  hello[c] = "new" => name[c] = None /\ rx[c] = <<>> /\ wire[c] = <<>>
OnlyServed == \A c \in Conn : rx[c] # <<>> => c = at /\ c \in clients
NoJoin == \A c \in Conn :
  /\ \A i \in DOMAIN rx[c]   : rx[c][i].kind = "JOIN" => "JOIN" \in Extra
  /\ \A i \in DOMAIN wire[c] : wire[c][i].kind = "JOIN" => "JOIN" \in Extra
Unborn == \A c \in Conn \ came : hello[c] = "new" /\ partner[c] = None
Queues == HelloFirst /\ LastLast /\ NewIsSilent /\ OnlyServed /\ NoJoin /\ Unborn
IInv   == TypeOK /\ Queues /\ Mutual

(* Names are unique among the clients, the table of names is exactly those *)
(* clients, and their number is what the lobby was told.                   *)
NamesTell ==
  /\ \A n \in Name : by_name[n] # None <=> \E c \in clients : name[c] = n
  /\ \A c \in clients : name[c] # None => by_name[name[c]] = c
  /\ curplayers = Cardinality({c \in clients : name[c] # None})

(* Everything ever put in the buffer of a console, in order.               *)
Stream(c) == got[c] \o tx[c]
Met(c)    == \E i \in DOMAIN Stream(c) : Stream(c)[i].kind = "START"

(* The first two idle consoles become a match (try_pair): no two clients   *)
(* are both still waiting for their first.                                 *)
Waiting == {c \in clients : name[c] # None /\ ~Met(c)}
FirstTwoMeet == Cardinality(Waiting) <= 1

(* The inductive invariant behind the two: a client in a match was told so, *)
(* so one that still waits for its first is idle.                          *)
PairedHaveMet == \A c \in clients : partner[c] # None => Met(c)
OneWaits      == \A c, d \in Waiting : c = d
RelayInv      == IInv /\ NamesTell /\ PairedHaveMet /\ OneWaits

(* JOIN from a paired console must do nothing at all (server_diff.py).     *)
JoinKeepsMatch ==
  [][\A c \in Conn : OnJoin(c) /\ partner[c] # None => UNCHANGED <<partner, tx>>]_vars

(* A console whose partner hung up during its k-th match reads its k-th    *)
(* PEER_LEFT in the end, unless it goes too.                               *)
Count(s, kind) == Cardinality({i \in DOMAIN s : s[i].kind = kind})
ToldInTheEnd ==
  \A c \in Conn, k \in 1 .. Cardinality(Conn) - 1 :
    (/\ c \in clients /\ partner[c] # None /\ shut[partner[c]]
     /\ Count(Stream(c), "START") = k) ~>
      (c \notin clients \/ shut[c] \/ Count(got[c], "PEER_LEFT") >= k)

(* The relay implements VoMatch: whatever sits in which buffer, what it    *)
(* has for a console is what the console's match says it should have.      *)
Queue(c) == rx[c] \o wire[c]
said   == [c \in Conn |-> told[c] - Count(Queue(c), "INPUT")]
stream == [c \in Conn |-> Stream(c)]
pairs  == {{c, partner[c]} : c \in {d \in clients : partner[d] # None}}
Match  == INSTANCE VoMatch WITH gone <- came \ clients
Matches == Match!Spec

(* The inductive invariant behind it: the records of a console that are     *)
(* still to be handled are its own and the last it sent, in order.         *)
Later(s, i, kind) == Cardinality({j \in DOMAIN s : i < j /\ s[j].kind = kind})
Numbered == \A c \in Conn : \A i \in DOMAIN Queue(c) : Queue(c)[i].kind = "INPUT" =>
  Queue(c)[i] = Record(c, told[c] - Later(Queue(c), i, "INPUT"))
MatchInv == RelayInv /\ Numbered

=============================================================================
