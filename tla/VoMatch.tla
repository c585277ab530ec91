------------------------------- MODULE VoMatch -------------------------------
(***************************************************************************)
(* What the relay promises the consoles, with no buffers and no sockets.   *)
(* A console enters under a name nobody else has.  Two consoles that are   *)
(* in no match may be put into one: the host and the guest are each told   *)
(* of the other.  From then on what one says reaches the other, all of it, *)
(* in order and once; what a console says outside a match reaches nobody.  *)
(* The match ends when one of them leaves, and the other is told, after    *)
(* everything that was said before.                                        *)
(***************************************************************************)
EXTENDS Naturals, Sequences

CONSTANTS
  Conn,         \* connections
  Name,         \* players' names
  None,         \* no name, no partner
  Reply         \* answers the relay gives by itself

VARIABLES
  name,         \* the name a connection entered under
  gone,         \* connections that have left
  pairs,        \* the matches: sets of two connections
  said,         \* how many records each connection has said
  stream        \* everything the relay has for each connection, in order

vars == <<name, gone, pairs, said, stream>>

Start(role, opp) == [kind |-> "START", role |-> role, opp |-> opp]
Record(c, n)     == [kind |-> "INPUT", from |-> c, n |-> n]
PeerLeft         == [kind |-> "PEER_LEFT"]

Init ==
  /\ name   = [c \in Conn |-> None]
  /\ gone   = {}
  /\ pairs  = {}
  /\ said   = [c \in Conn |-> 0]
  /\ stream = [c \in Conn |-> <<>>]

Single(c) == /\ c \notin gone /\ name'[c] # None
             /\ \A p \in pairs : c \notin p

Meet(host, guest) ==
  /\ host # guest /\ Single(host) /\ Single(guest)
  /\ pairs'  = pairs \cup {{host, guest}}
  /\ stream' = [stream EXCEPT ![host]  = Append(@, Start("host", name'[guest])),
                              ![guest] = Append(@, Start("guest", name'[host]))]

Enter(c) ==
  /\ c \notin gone /\ name[c] = None
  /\ \E n \in Name :
       /\ \A d \in Conn \ gone : name[d] # n
       /\ name' = [name EXCEPT ![c] = n]
  /\ \/ UNCHANGED <<pairs, stream>>
     \/ \E d \in Conn : Meet(d, c)
  /\ UNCHANGED <<gone, said>>

Join(c) ==
  /\ UNCHANGED <<name, gone, said>>
  /\ \E d \in Conn : Meet(d, c)

Say(c) ==
  /\ c \notin gone
  /\ said' = [said EXCEPT ![c] = @ + 1]
  /\ \/ \E d \in Conn : /\ d # c /\ {c, d} \in pairs
                        /\ stream' = [stream EXCEPT ![d] = Append(@, Record(c, said'[c]))]
     \/ (\A p \in pairs : c \notin p) /\ UNCHANGED stream
  /\ UNCHANGED <<name, gone, pairs>>

Ask(c) ==
  /\ c \notin gone /\ UNCHANGED <<name, gone, pairs, said>>
  /\ stream' # stream
  /\ \E r \in Reply : stream' = [stream EXCEPT ![c] = Append(@, r)]

Leave(c) ==
  /\ c \notin gone
  /\ gone' = gone \cup {c}
  /\ \/ \E d \in Conn : /\ d # c /\ {c, d} \in pairs
                        /\ pairs'  = pairs \ {{c, d}}
                        /\ stream' = [stream EXCEPT ![d] = Append(@, PeerLeft)]
     \/ (\A p \in pairs : c \notin p) /\ UNCHANGED <<pairs, stream>>
  /\ UNCHANGED <<name, said>>

Next == \E c \in Conn : Enter(c) \/ Join(c) \/ Say(c) \/ Ask(c) \/ Leave(c)

Spec == Init /\ [][Next]_vars

=============================================================================
