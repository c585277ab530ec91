-------------------------------- MODULE VoLobby --------------------------------
(***************************************************************************)
(* The lobby publisher: the relay's main thread writes what it has to tell *)
(* (payload) and a thread of its own POSTs it to the FujiNet Lobby, which  *)
(* believes the last thing it was told for ever.  Both ports: the Python   *)
(* LobbyPublisher and its C rendering, lobby.c.                            *)
(*                                                                         *)
(* What a thread does under the lock is one step; it holds it over no call *)
(* that waits.  A POST is handed to the Lobby, handled, and answered; its  *)
(* poster may give up on it before or after the Lobby has handled it, and  *)
(* a request given up on may still be handled later.                       *)
(***************************************************************************)
EXTENDS Naturals

CONSTANTS
  MaxPlayers,   \* bound: names registered at once
  MaxUpdates,   \* bound: updates the relay makes
  MaxFailures,  \* bound: POSTs that fail
  Keepalive     \* whether 300 seconds may pass with nothing new to tell

ASSUME LobbyAssumption ==
  /\ MaxPlayers \in Nat /\ MaxUpdates \in Nat /\ MaxFailures \in Nat
  /\ Keepalive \in BOOLEAN

VARIABLES
  port,       \* the implementation: "py" or "c"
  payload,    \* self.payload, the two fields that change
  dirty,      \* self.dirty
  stop,       \* self.stop; l->stopping and l->stop_evt
  th, body,   \* where the publisher thread is, and what it POSTs
  main, last, \* where the relay's thread is, and what it POSTs at the end
  row,        \* what the Lobby believes
  stray,      \* requests given up on that the Lobby may yet handle
  updates, failures,
  overslept   \* join() gave up on a POST

shared == <<payload, dirty, stop>>
thread == <<th, body>>
relay  == <<main, last>>
lobbyvars == <<port, shared, thread, relay, row, stray, updates, failures, overslept>>

Row == [status: {"online", "offline"}, curplayers: 0 .. MaxPlayers]
NoRow == [status |-> "none", curplayers |-> 0]

LobbyInit ==
  /\ port \in {"py", "c"}
  /\ payload = [status |-> "online", curplayers |-> 0]
  /\ dirty = TRUE   /\ stop = FALSE
  /\ th = "top"     /\ body = NoRow
  /\ main = "loop"  /\ last = NoRow
  /\ row = NoRow    /\ stray = {}
  /\ updates = 0    /\ failures = 0   /\ overslept = FALSE

-----------------------------------------------------------------------------
(* The relay's thread.                                                     *)

(* What notify does to the thread: it ends a wait and nothing else.  The C *)
(* port paces itself on the same condition variable.                       *)
Notified == CASE th = "wait"                -> "woken"
              [] th = "pause" /\ port = "c" -> "top"
              [] OTHER                      -> th

Update(n) ==
  /\ main = "loop" /\ updates < MaxUpdates
  /\ payload' = [payload EXCEPT !.curplayers = n]
  /\ dirty' = TRUE
  /\ th' = Notified
  /\ updates' = updates + 1
  /\ UNCHANGED <<port, stop, body, relay, row, stray, failures, overslept>>

(* shutdown(), Python: the offline body is made under the lock, stop is    *)
(* set outside of it, and only then is the thread notified.                *)
Shutdown ==
  /\ port = "py" /\ main = "loop"
  /\ payload' = [payload EXCEPT !.status = "offline"]
  /\ last' = payload'
  /\ main' = "closing"
  /\ UNCHANGED <<port, dirty, stop, thread, row, stray, updates, failures, overslept>>

SetStop ==
  /\ main = "closing"
  /\ stop' = TRUE
  /\ main' = "notify"
  /\ UNCHANGED <<port, payload, dirty, thread, last, row, stray, updates, failures, overslept>>

Notify ==
  /\ main = "notify"
  /\ th' = Notified
  /\ main' = "join"
  /\ UNCHANGED <<port, shared, body, last, row, stray, updates, failures, overslept>>

(* lobby_shutdown(), C: all of that in one critical section.               *)
ShutdownC ==
  /\ port = "c" /\ main = "loop"
  /\ payload' = [payload EXCEPT !.status = "offline"]
  /\ last' = payload'
  /\ stop' = TRUE
  /\ th' = Notified
  /\ main' = "join"
  /\ UNCHANGED <<port, dirty, body, row, stray, updates, failures, overslept>>

(* Mutant: does not wait for the thread.                                   *)
JoinNotSlip ==
  /\ main = "join"
  /\ main' = "post"
  /\ UNCHANGED <<port, shared, thread, last, row, stray, updates, failures, overslept>>

(* Twelve seconds pass only over a POST or a wait of the thread.           *)
JoinReturns ==
  /\ main = "join"
  /\ \/ th = "ended" /\ UNCHANGED overslept
     \/ th = "wait" /\ UNCHANGED overslept
     \/ th \in {"post", "answered"} /\ overslept' = TRUE
  /\ main' = "post"
  /\ UNCHANGED <<port, shared, thread, last, row, stray, updates, failures>>

-----------------------------------------------------------------------------
(* The publisher thread.                                                   *)

Take == /\ dirty' = FALSE
        /\ body' = payload
        /\ th' = "post"

(* run(), Python: stop is looked at without the lock.                      *)
Look ==
  /\ port = "py" /\ th = "top"
  /\ th' = IF stop THEN "ended" ELSE "enter"
  /\ UNCHANGED <<port, shared, body, relay, row, stray, updates, failures, overslept>>

Enter ==
  /\ th = "enter"
  /\ \/ dirty /\ Take
     \/ ~dirty /\ th' = "wait" /\ UNCHANGED <<dirty, body>>
  /\ UNCHANGED <<port, payload, stop, relay, row, stray, updates, failures, overslept>>

(* A wait that ends is not followed by another look at anything.           *)
Resume ==
  /\ port = "py" /\ th = "woken"
  /\ Take
  /\ UNCHANGED <<port, payload, stop, relay, row, stray, updates, failures, overslept>>

(* lobby_worker(), C: the whole head of the loop is one critical section,  *)
(* entered again when a wait ends.                                         *)
EnterC ==
  /\ port = "c" /\ th \in {"top", "woken"}
  /\ \/ stop /\ dirty' = FALSE /\ th' = "ended" /\ UNCHANGED body
     \/ ~stop /\ dirty /\ Take
     \/ ~stop /\ ~dirty /\ th' = "wait" /\ UNCHANGED <<dirty, body>>
  /\ UNCHANGED <<port, payload, stop, relay, row, stray, updates, failures, overslept>>

(* Mutant: C, without the line that makes a keepalive of it.               *)
WaitIdlesSlip ==
  /\ Keepalive /\ th = "wait" /\ main # "gone"
  /\ th' = "woken"
  /\ UNCHANGED <<port, payload, dirty, stop, body, relay, row, stray, updates, failures, overslept>>

(* The keepalive.                                                          *)
WaitTimesOut ==
  /\ Keepalive /\ th = "wait" /\ main # "gone"
  /\ dirty' = (dirty \/ port = "c")
  /\ th' = "woken"
  /\ UNCHANGED <<port, payload, stop, body, relay, row, stray, updates, failures, overslept>>

(* At most one POST a second: the pause ends with the second or with stop. *)
PauseEnds ==
  /\ th = "pause" /\ main # "gone"
  /\ th' = "top"
  /\ UNCHANGED <<port, shared, body, relay, row, stray, updates, failures, overslept>>

-----------------------------------------------------------------------------
(* post(body): the thread's and, at the end, the relay's.                  *)

Handle ==
  /\ \/ th = "post" /\ row' = body /\ th' = "answered" /\ UNCHANGED <<main, stray>>
     \/ main = "post" /\ row' = last /\ main' = "answered" /\ UNCHANGED <<th, stray>>
     \/ \E b \in stray : row' = b /\ stray' = stray \ {b} /\ UNCHANGED <<th, main>>
  /\ UNCHANGED <<port, shared, body, last, updates, failures, overslept>>

(* The end of main() is the end of the thread; what it had sent is sent.   *)
Exit(b) ==
  /\ main' = "gone"
  /\ th' = "ended"
  /\ stray' \in {stray \cup b} \cup IF th = "post" THEN {stray \cup b \cup {body}} ELSE {}

(* Mutant: the flag is cleared once more when the answer is there.         *)
AnsweredClearsSlip ==
  /\ \/ th = "answered" /\ th' = "pause" /\ dirty' = FALSE /\ UNCHANGED <<main, stray>>
     \/ main = "answered" /\ Exit({}) /\ UNCHANGED dirty
  /\ UNCHANGED <<port, payload, stop, body, last, row, updates, failures, overslept>>

Answered ==
  /\ \/ th = "answered" /\ th' = "pause" /\ UNCHANGED <<main, stray>>
     \/ main = "answered" /\ Exit({})
  /\ UNCHANGED <<port, shared, body, last, row, updates, failures, overslept>>

(* Where a failed POST leaves the thread.  The Python catches an OSError:  *)
(* an answer cut in its body or garbled is an HTTPException, and ends      *)
(* run() while the relay goes on.  The C port goes on after any failure.   *)
AfterFailure == {"pause"} \cup IF port = "py" THEN {"ended"} ELSE {}

(* The Lobby never got it, has it yet to handle, or handled it and the     *)
(* answer was lost or spoilt.                                              *)
PostFails ==
  /\ failures < MaxFailures
  /\ failures' = failures + 1
  /\ \/ /\ th \in {"post", "answered"}
        /\ th' \in AfterFailure
        /\ stray' \in {stray} \cup IF th = "post" THEN {stray \cup {body}} ELSE {}
        /\ UNCHANGED main
     \/ /\ main \in {"post", "answered"}
        /\ \E b \in {{}} \cup IF main = "post" THEN {{last}} ELSE {} : Exit(b)
  /\ UNCHANGED <<port, shared, body, last, row, updates, overslept>>

-----------------------------------------------------------------------------
Publisher == Look \/ Enter \/ Resume \/ EnterC \/ PauseEnds
Close     == SetStop \/ Notify \/ JoinReturns
Post      == Handle \/ Answered \/ PostFails

LobbyNext == \/ \E n \in 0 .. MaxPlayers : Update(n)
             \/ Shutdown \/ ShutdownC \/ Close \/ Publisher \/ WaitTimesOut \/ Post

(* Both threads are scheduled, the clock goes on, and the Lobby answers or *)
(* the call gives up.                                                      *)
LobbyFairness == /\ WF_lobbyvars(Publisher) /\ WF_lobbyvars(WaitTimesOut) /\ WF_lobbyvars(Close)
                 /\ WF_lobbyvars(Handle) /\ WF_lobbyvars(Answered)
LobbySpec == LobbyInit /\ [][LobbyNext]_lobbyvars /\ LobbyFairness

-----------------------------------------------------------------------------
(* Properties.                                                             *)

(* Every variable keeps its type.                                          *)
LobbyTypeOK ==
  /\ port \in {"py", "c"} /\ payload \in Row /\ {body, last, row} \subseteq Row \cup {NoRow}
  /\ {dirty, stop, overslept} \subseteq BOOLEAN
  /\ th \in {"top", "enter", "wait", "woken", "post", "answered", "pause", "ended"}
  /\ main \in {"loop", "closing", "notify", "join", "post", "answered", "gone"}
  /\ stray \subseteq Row /\ updates \in 0 .. MaxUpdates /\ failures \in 0 .. MaxFailures

(* The inductive invariant behind the two properties that follow.  What is *)
(* POSTed is a row; what nobody has told the Lobby yet is marked dirty, or *)
(* on its way; from the shutdown on everything that is told is "offline",  *)
(* and when the relay's own POST is made no other is under way.            *)
Snapshots ==
  /\ th \in {"post", "answered"} => body \in Row
  /\ main # "loop" => last \in Row /\ payload.status = "offline" /\ last.status = "offline"
  /\ stop => main # "loop"
Tells ==
  failures = 0 /\ main = "loop" /\ ~dirty =>
    IF th = "post" THEN body = payload ELSE row = payload
Sincere ==
  /\ th = "wait" /\ main = "loop" => ~dirty
  /\ failures = 0 /\ main # "gone" => stray = {}
Offline ==
  failures = 0 /\ ~overslept /\ main \in {"post", "answered", "gone"} =>
    /\ th \in {"post", "answered"} => body.status = "offline"
    /\ \A b \in stray : b.status = "offline"
    /\ main # "post" => row.status = "offline"
LobbyInv == LobbyTypeOK /\ Snapshots /\ Tells /\ Sincere /\ Offline

(* No update is lost between the thread's snapshot, its POST and its wait: *)
(* a thread that waits has told the Lobby everything.                      *)
IdleMeansTold ==
  th = "wait" /\ failures = 0 /\ main = "loop" => row = payload

(* The Lobby never hears "online" after "offline": the join lets a POST    *)
(* that is under way finish before the last one is made.  It is no longer  *)
(* so once a POST was given up on, or took longer than the join.           *)
LastWord ==
  main = "gone" /\ failures = 0 /\ ~overslept => row.status = "offline"

(* While the relay runs, the Lobby hears of a new count in the end, with   *)
(* POSTs lost and POSTs handled late: the keepalive says it again.  In the *)
(* Python it is so as long as no answer has ended the publisher thread.    *)
Told(n)    == row.curplayers = n \/ payload.curplayers # n \/ main # "loop"
ThreadDied == port = "py" /\ main = "loop" /\ th = "ended"
CountArrives ==
  \A n \in 0 .. MaxPlayers :
    main = "loop" /\ payload.curplayers = n ~> Told(n) \/ ThreadDied
=============================================================================
