------------------------------ MODULE VoSession ------------------------------
(***************************************************************************)
(* The boot bank: from power-on to the hand-over (vosess.inc, voappk.inc)  *)
(* through the transactions of the cartridge mailbox (vocore.inc, and      *)
(* VOLNCH of vonet.inc).                                                   *)
(*                                                                         *)
(* A transaction is a request committed with a sequence number; it is      *)
(* answered when the cartridge echoes that number.  The cartridge has no   *)
(* reset line: its number, its path buffers, the open appkey and the       *)
(* socket survive whatever the console does.  At power-on the number, the  *)
(* buffers and an appkey left open may be another program's; a socket of   *)
(* its is left out, since the first OPEN replaces it and nothing uses a    *)
(* socket before.  The cartridge, the FujiNet behind it and the relay are  *)
(* external: they do what the mailbox equates (fujinet.inc) and the code   *)
(* that uses them say they do, or fail.                                    *)
(***************************************************************************)
EXTENDS Naturals, Sequences

CONSTANTS
  SeqMod,     \* 256: a sequence number is one byte
  VOD,        \* the delay this image was built for
  Delays,     \* the delays a relay may announce
  MaxBoots    \* bound: times the boot bank is entered

ASSUME SessionAssumption ==
  SeqMod \in Nat /\ SeqMod > 2 /\ VOD \in Delays /\ MaxBoots \in Nat \ {0}

VARIABLES
  step, key,   \* where the boot bank is, and the appkey it is at
  boot,        \* how often it was entered
  waiting,     \* it polls ACKSEQ
  fnseq,       \* FNSEQ, which is VOSEQ in a match
  asked,       \* history: the request it waits for
  ent,         \* VOENT at the hand-over: VOE_NET and VOE_ROLE
  own,         \* history: the answer it took last was to what it had asked
  ackseq, reg, \* ACKSEQ; the registers as the last commit left them
  busy,        \* the request the cartridge works on
  reply,       \* the reply window, with FNERR and FNRCMD
  alive,       \* the cartridge answers
  punctual,    \* it answers what it took, or says it timed out, before FNEWAIT
  path,        \* the path buffers
  open,        \* the appkey that is open; "stuck": another program's, or one
               \* the device could not close
  sock, known, \* the boot that opened the socket; the relay has its HELLO
  stream,      \* frames waiting in the socket
  start,       \* history: the last START the relay sent down this socket
  hasty        \* history: this boot began with a transaction unanswered

console == <<step, key, boot, waiting, fnseq, asked, ent, own>>
mailbox == <<ackseq, reg, busy, reply, alive, punctual>>
fujinet == <<open, sock, known>>
svars   == <<console, mailbox, path, fujinet, stream, start, hasty>>

Keys    == {"name", "url"}
NoReq  == [cmd |-> "none", key |-> "name", boot |-> 0]
Roles   == {"host", "guest"}
Body(type) == [type |-> type, role |-> "host", delay |-> VOD]
Starts  == [type : {"START"}, role : Roles, delay : Delays]

Request(cmd) == [cmd |-> cmd, key |-> key, boot |-> boot]

Quiet == {"cold", "match", "local", "left"}
Soft  == {"akopen", "akread", "akclose"}
Hard  == {"open", "hello", "wait", "read"}

-----------------------------------------------------------------------------
(* The number of a transaction: the cartridge's own plus one, never zero.  *)

(* Slips: a counter of the console's own; zero is not skipped; the sum is  *)
(* wider than the byte.                                                    *)
NextSeqWideSlip    == ackseq + 1
NextSeqCounterSlip == IF fnseq = SeqMod - 1 THEN 1 ELSE fnseq + 1
NextSeqZeroSlip    == (ackseq + 1) % SeqMod
NextSeq == IF (ackseq + 1) % SeqMod = 0 THEN 1 ELSE ackseq + 1

(* The single commit that launches it.                                     *)
Committed(cmd) ==
  /\ fnseq' = NextSeq
  /\ asked' = Request(cmd)
  /\ reg' = [seq |-> NextSeq, req |-> Request(cmd)]
  /\ waiting' = TRUE

Answer == reply.err
Acked  == waiting /\ ackseq = fnseq

(* The cartridge has, or will take, what was committed last.               *)
Pending == busy.req # NoReq \/ (reg.seq # 0 /\ reg.seq # ackseq)

-----------------------------------------------------------------------------
(* The boot bank.                                                          *)

(* VOBENT, FNCHK: no cartridge answered.                                   *)
Check ==
  /\ step = "cold"
  /\ \E there \in BOOLEAN : step' = IF there THEN "akopen" ELSE "local"
  /\ UNCHANGED <<key, boot, waiting, fnseq, asked, ent, own,
                 mailbox, path, fujinet, stream, start, hasty>>

(* CSAKGET selects and empties the buffer before it opens the key.  Slip:  *)
(* it only selects it.                                                     *)
EmptiedSlip(buffers) == buffers
Emptied(buffers) == IF step = "akopen" THEN [buffers EXCEPT ![key] = "empty"] ELSE buffers

Launch ==
  /\ step \in Soft \cup Hard /\ ~waiting
  /\ Committed(step)
  /\ path' = Emptied(path)
  /\ UNCHANGED <<step, key, boot, ent, own, ackseq, busy, reply, alive, punctual,
                 fujinet, stream, start, hasty>>

(* What follows the two appkeys, whatever became of them.                  *)
KeyDone ==
  /\ step' = IF key = "name" THEN "akopen" ELSE "open"
  /\ key' = "url"

Go(to) == step' = to /\ UNCHANGED key

Took == waiting' = FALSE /\ own' = (reply.of = asked)

(* An open that failed is not closed; anything past it is.  Slip: a failed *)
(* read is not closed either.                                              *)
ReadFailedSlip == KeyDone
ReadFailed == Go("akclose")

AppkeyAnswered ==
  /\ step \in Soft /\ Acked /\ Took
  /\ \/ step = "akopen" /\ Answer = "ok"  /\ Go("akread") /\ UNCHANGED path
     \/ step = "akopen" /\ Answer # "ok"  /\ KeyDone /\ UNCHANGED path
     \/ step = "akread" /\ Answer = "ok"  /\ Go("akclose")
                        /\ path' = [path EXCEPT ![key] = reply.body.type]
     \/ step = "akread" /\ Answer # "ok"  /\ ReadFailed /\ UNCHANGED path
     \/ step = "akclose" /\ KeyDone /\ UNCHANGED path
  /\ UNCHANGED <<boot, fnseq, asked, ent, mailbox, fujinet, stream, start, hasty>>

(* The socket, HELLO, and the wait for START: STATUS says how many bytes   *)
(* there are, and whether the socket is well.                              *)
SocketAnswered ==
  /\ step \in {"open", "hello", "wait"} /\ Acked /\ Took
  /\ Go(CASE Answer # "ok" -> "local"
          [] step = "open" /\ Answer = "ok" -> "hello"
          [] step = "hello" /\ Answer = "ok" -> "wait"
          [] step = "wait" /\ Answer = "ok" ->
               CASE reply.body.type = "enough" -> "read"
                 [] reply.body.type = "few"    -> "wait"
                 [] OTHER                      -> "local")
  /\ UNCHANGED <<boot, fnseq, asked, ent, mailbox, path, fujinet, stream, start, hasty>>

(* VOENT is inside the block VOSCLR skips, VOTMP is not.  Slip: the role   *)
(* waits in VOTMP.                                                         *)
RoleKeptSlip(frame) == "host"
RoleKept(frame) == frame.role

Accepted(frame) == frame.type = "START" /\ frame.delay = VOD

(* The fifteen bytes: role and delay, and the hand-over.                   *)
StartRead ==
  /\ step = "read" /\ Acked /\ Took
  /\ IF Answer = "ok" /\ Accepted(reply.body)
     THEN Go("match") /\ ent' = [net |-> TRUE, role |-> RoleKept(reply.body)]
     ELSE Go("local") /\ UNCHANGED ent
  /\ UNCHANGED <<boot, fnseq, asked, mailbox, path, fujinet, stream, start, hasty>>

(* FNEWAIT.  Soft in the appkeys; the end of the session anywhere else.    *)
(* Slip: the tail's loop polls without counting.                           *)
TimesOutSlip ==
  /\ waiting /\ ~Acked /\ (punctual /\ Pending => ~alive)
  /\ step \in Hard /\ Go("local")
  /\ waiting' = FALSE
  /\ UNCHANGED <<boot, fnseq, asked, ent, own, mailbox, path, fujinet, stream, start, hasty>>

TimesOut ==
  /\ waiting /\ ~Acked /\ (punctual /\ Pending => ~alive)
  /\ \/ step \in {"akopen", "akclose"} /\ KeyDone
     \/ step = "akread" /\ ReadFailed
     \/ step \in Hard /\ Go("local")
  /\ waiting' = FALSE
  /\ UNCHANGED <<boot, fnseq, asked, ent, own, mailbox, path, fujinet, stream, start, hasty>>

-----------------------------------------------------------------------------
(* The match, as far as the mailbox sees it, and the way back.             *)

MatchLaunch ==
  /\ step = "match" /\ ~waiting
  /\ \E cmd \in {"write", "status", "mread"} : Committed(cmd)
  /\ UNCHANGED <<step, key, boot, ent, own, ackseq, busy, reply, alive, punctual,
                 path, fujinet, stream, start, hasty>>

MatchAnswered ==
  /\ step = "match" /\ Acked /\ Took
  /\ UNCHANGED <<step, key, boot, fnseq, asked, ent, mailbox, path, fujinet, stream,
                 start, hasty>>

(* The gate gives up on the peer, whatever the network machine is at.      *)
MatchLeft ==
  /\ step = "match"
  /\ step' = "left" /\ waiting' = FALSE
  /\ UNCHANGED <<key, boot, fnseq, asked, ent, own, mailbox, path, fujinet, stream,
                 start, hasty>>

(* CSLEFT: the RESET switch, which may be held already.                    *)
LeftReset ==
  /\ step = "left" /\ boot < MaxBoots
  /\ step' = "cold" /\ key' = "name" /\ boot' = boot + 1
  /\ ent' = [net |-> FALSE, role |-> "host"] /\ fnseq' = 0
  /\ hasty' = Pending
  /\ UNCHANGED <<waiting, asked, own, mailbox, path, fujinet, stream, start>>

-----------------------------------------------------------------------------
(* The cartridge: a number that is not zero and not its own launches.      *)

Take ==
  /\ alive /\ busy.req = NoReq /\ Pending
  /\ busy' = reg
  /\ UNCHANGED <<console, ackseq, reg, reply, alive, punctual, path, fujinet, stream,
                 start, hasty>>

Reply(err, body) == reply' = [of |-> busy.req, err |-> err, body |-> body]
Fine(type)       == Reply("ok", Body(type))

(* What the device and the socket do with a request they can serve.        *)
Opens  == /\ open = "none" /\ open' = busy.req.key
          /\ Fine("none") /\ UNCHANGED <<sock, known, stream, start>>
Gets   == /\ open \in Keys /\ \E type \in {"empty", open} : Fine(type)
          /\ UNCHANGED <<fujinet, stream, start>>
Closes == /\ open' = "none"
          /\ Fine("none") /\ UNCHANGED <<sock, known, stream, start>>
Dials  == /\ sock' = busy.req.boot /\ known' = FALSE /\ stream' = <<>>
          /\ start' = Body("none") /\ Fine("none") /\ UNCHANGED open
Sends  == /\ sock # 0 /\ known' = (known \/ busy.req.cmd = "hello")
          /\ Fine("none") /\ UNCHANGED <<open, sock, stream, start>>
Counts == /\ sock # 0
          /\ \E type \in {"dead", IF stream = <<>> THEN "few" ELSE "enough"} : Fine(type)
          /\ UNCHANGED <<fujinet, stream, start>>
Gives  == /\ sock # 0 /\ stream # <<>>
          /\ Reply("ok", Head(stream)) /\ stream' = Tail(stream)
          /\ UNCHANGED <<fujinet, start>>

Served ==
  CASE busy.req.cmd = "akopen"              -> Opens
    [] busy.req.cmd = "akread"              -> Gets
    [] busy.req.cmd = "akclose"             -> Closes
    [] busy.req.cmd = "open"                -> Dials
    [] busy.req.cmd \in {"hello", "write"}  -> Sends
    [] busy.req.cmd \in {"wait", "status"}  -> Counts
    [] busy.req.cmd \in {"read", "mread"}   -> Gives

(* Or it fails; a close that does leaves the device with its key open.     *)
Fails ==
  /\ Reply("error", Body("none"))
  /\ open' = IF busy.req.cmd = "akclose" THEN "stuck" ELSE open
  /\ UNCHANGED <<sock, known, stream, start>>

(* ACKSEQ is published last, after the reply.                              *)
Serve ==
  /\ alive /\ busy.req # NoReq
  /\ ackseq' = busy.seq /\ busy' = [seq |-> 0, req |-> NoReq]
  /\ Served \/ Fails
  /\ UNCHANGED <<console, reg, alive, punctual, path, hasty>>

Die ==
  /\ alive /\ alive' = FALSE
  /\ UNCHANGED <<console, ackseq, reg, busy, reply, punctual, path, fujinet, stream,
                 start, hasty>>

(* The relay: nothing before START, and then the frames of a match.        *)
RelaySends ==
  /\ known /\ stream = <<>>
  /\ \/ start.type = "none" /\ \E f \in Starts : stream' = <<f>> /\ start' = f
     \/ start.type = "START" /\ stream' = <<Body("game")>> /\ UNCHANGED start
  /\ UNCHANGED <<console, mailbox, path, fujinet, hasty>>

-----------------------------------------------------------------------------
SessionInit ==
  /\ step = "cold" /\ key = "name" /\ boot = 1 /\ waiting = FALSE /\ fnseq = 0
  /\ asked = NoReq /\ own = TRUE
  /\ ent = [net |-> FALSE, role |-> "host"]
  /\ ackseq \in 0 .. SeqMod - 1 /\ reg = [seq |-> ackseq, req |-> NoReq]
  /\ busy = [seq |-> 0, req |-> NoReq]
  /\ reply = [of |-> NoReq, err |-> "ok", body |-> Body("none")]
  /\ alive = TRUE /\ punctual \in BOOLEAN
  /\ path \in [Keys -> {"empty", "old"}]
  /\ open \in {"none", "stuck"} /\ sock = 0 /\ known = FALSE /\ stream = <<>> /\ start = Body("none")
  /\ hasty = FALSE

BootStep == \/ Check \/ Launch \/ AppkeyAnswered \/ SocketAnswered \/ StartRead \/ TimesOut
           \/ MatchLaunch \/ MatchAnswered
SessionNext == BootStep \/ MatchLeft \/ LeftReset \/ Take \/ Serve \/ Die \/ RelaySends

(* The 6507 runs, and the cartridge works on what it was given.            *)
SessionFairness == WF_svars(BootStep) /\ WF_svars(Take) /\ WF_svars(Serve)
SessionSpec == SessionInit /\ [][SessionNext]_svars /\ SessionFairness

-----------------------------------------------------------------------------
(* Properties.                                                             *)

Requests == [cmd : {"none", "write", "status", "mread"} \cup Soft \cup Hard,
             key : Keys, boot : 0 .. MaxBoots]
Types    == {"none", "empty", "dead", "few", "enough", "START", "game"} \cup Keys
Bodies   == [type : Types, role : Roles, delay : Delays]

(* Every variable keeps its type, a sequence number its byte.              *)
SessionTypeOK ==
  /\ step \in Quiet \cup Soft \cup Hard /\ key \in Keys /\ boot \in 1 .. MaxBoots
  /\ {waiting, own, alive, punctual, known, hasty} \subseteq BOOLEAN
  /\ {fnseq, ackseq, reg.seq, busy.seq} \subseteq 0 .. SeqMod - 1
  /\ {asked, reg.req, busy.req} \subseteq Requests
  /\ ent \in [net : BOOLEAN, role : Roles]
  /\ reply \in [of : Requests, err : {"ok", "error"}, body : Bodies]
  /\ path \in [Keys -> {"old"} \cup Types] /\ open \in {"none", "stuck"} \cup Keys
  /\ sock \in 0 .. MaxBoots /\ stream \in Seq(Bodies) /\ start \in Bodies

(* "Dropped in silence" (vocore.inc): whatever number the cartridge was at *)
(* when the console started, it has what the console waits for, or has     *)
(* answered it.                                                            *)
NoSilentDrop == waiting => Acked \/ Pending

(* What the console takes for the answer to its request is the answer to   *)
(* it, across restarts, as long as the cartridge answers before the        *)
(* console gives up (FNBEG's reason for its nine seconds) and the last     *)
(* transaction of a match was answered before RESET was pressed.           *)
AnswerIsOwn == punctual /\ ~hasty => own

(* "A stale buffer is indistinguishable from a fresh one" (voappk.inc): the *)
(* URL the console dials and the name it gives are its own two appkeys,    *)
(* read in this boot, or empty; also after a hasty RESET.                  *)
KeysAreOwn ==
  punctual /\ step \in Hard \cup {"match"} => \A k \in Keys : path[k] \in {"empty", k}

(* "Or the next open finds the device busy and every appkey after it fails *)
(* too" (voappk.inc): when an appkey is opened, none is open, but for one  *)
(* another program left so, or one the device could not close, a failure   *)
(* the code shrugs off.                                                    *)
ClosedBehind == punctual /\ busy.req.cmd = "akopen" => open \in {"none", "stuck"}

(* A match is what the relay's START for this socket said it is: the role, *)
(* which has to survive the RAM clear, and a delay the rings can hold.     *)
MatchAsStarted ==
  step = "match" => /\ ent = [net |-> TRUE, role |-> start.role]
                    /\ start.type = "START" /\ start.delay = VOD

(* The inductive invariant.  Whatever the cartridge does: the number of a  *)
(* request it has not answered is the next after its own, and from the     *)
(* answered OPEN on it has no other request than the one waited for.       *)
MatchCmds == {"write", "status", "mread"}
Numbers ==
  /\ reg.seq \in {ackseq, NextSeq}
  /\ busy.req # NoReq => busy.seq = NextSeq /\ reg.seq = NextSeq
  /\ waiting => fnseq = reg.seq /\ reg.req = asked
  /\ reg.seq # ackseq => reg.req # NoReq
  /\ \A r \in {reg.req, busy.req} : r # NoReq => r.cmd # "none"
Asking ==
  /\ step = "cold" => key = "name"
  /\ waiting => \/ step \in Soft \cup Hard /\ asked = Request(step)
                \/ step = "match" /\ asked.cmd \in MatchCmds
Joined ==
  step \in {"hello", "wait", "read", "match"} =>
    /\ ~waiting => reg.seq = ackseq
    /\ busy.req # NoReq => busy.req = asked
Started ==
  /\ start.type \in {"none", "START"}
  /\ \A i \in DOMAIN stream : stream[i].type = "START" => stream[i] = start
  /\ reply.body.type = "START" => reply.body = start
  /\ MatchAsStarted

(* With a cartridge that is punctual: what it works on was asked in this   *)
(* boot and is waited for, but for the first request of a hasty one.       *)
First == hasty /\ waiting /\ step = "akopen" /\ key = "name"
Free  == \/ step \in {"left", "local"}
         \/ hasty /\ (step = "cold" \/ (step = "akopen" /\ key = "name"))
InStep ==
  punctual =>
    /\ alive /\ busy.req # NoReq =>
         busy.req = reg.req \/ (First /\ busy.req.cmd \in MatchCmds)
    /\ alive /\ ~waiting /\ ~Free => reg.seq = ackseq
    /\ alive /\ ~waiting /\ reg.seq # ackseq => reg.req.cmd \in MatchCmds
    /\ Acked /\ ~First => reply.of = asked
    /\ own \/ (hasty /\ step \notin {"match", "left"})

(* Of the appkeys, the one the boot bank is at may be open, from the answer *)
(* to its open to the answer to its close.                                 *)
OpenKey ==
  punctual /\ alive /\ open \in Keys =>
    /\ open = key
    /\ \/ step = "akopen" /\ Acked /\ Answer = "ok"
       \/ step = "akread"
       \/ step = "akclose" /\ ~Acked

(* A path buffer is emptied when its key is opened, and filled with what   *)
(* that key holds.                                                         *)
Fresh(k) == path[k] \in {"empty", k}
Paths ==
  punctual =>
    /\ step = "akopen" /\ waiting => path[key] = "empty"
    /\ step \in {"akread", "akclose"} => Fresh(key)
    /\ step = "akread" /\ Acked /\ Answer = "ok" => reply.body.type \in {"empty", key}
    /\ step \in Soft /\ key = "url" => Fresh("name")
    /\ step \in Hard \cup {"match"} => \A k \in Keys : Fresh(k)

SessionInv ==
  /\ SessionTypeOK /\ Numbers /\ Asking /\ Joined /\ Started
  /\ InStep /\ OpenKey /\ ClosedBehind /\ Paths

(* With a cartridge that dies at any moment, or drops what it was asked,   *)
(* the boot bank, once it has found one, gets to its wait for START; and   *)
(* from there, once a frame or the cartridge's death is there, to a match  *)
(* or to local play.                                                       *)
SessionGoesOn ==
  /\ step \in {"open", "hello"} \cup Soft ~> step \in {"wait", "match", "local"}
  /\ step = "wait" /\ (stream # <<>> \/ ~alive) ~> step \in {"match", "local"}
=============================================================================
