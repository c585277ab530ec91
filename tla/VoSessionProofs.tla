--------------------------- MODULE VoSessionProofs ---------------------------
(***************************************************************************)
(* Proofs about the boot bank (VoSession): with any numbering of the       *)
(* transactions, any delays and any number of boots.                       *)
(***************************************************************************)
EXTENDS VoSession, TLAPS

-----------------------------------------------------------------------------
(* The number of a transaction.                                            *)

(* The next number is in the byte, is not zero, and is not the one the     *)
(* cartridge answered last (vocore.inc: "never zero").                     *)
LEMMA Numbering ==
  ASSUME ackseq \in 0 .. SeqMod - 1
  PROVE  NextSeq \in 1 .. SeqMod - 1 /\ NextSeq # ackseq
<1>1. ackseq \in Nat /\ SeqMod \in Nat /\ SeqMod > 2 /\ ackseq < SeqMod
  BY SessionAssumption
<1>2. CASE ackseq + 1 = SeqMod
  <2>1. (ackseq + 1) % SeqMod = 0
    BY <1>1, <1>2
  <2> QED
    BY <1>1, <1>2, <2>1 DEF NextSeq
<1>3. CASE ackseq + 1 # SeqMod
  <2>1. (ackseq + 1) % SeqMod = ackseq + 1
    BY <1>1, <1>3
  <2> QED
    BY <1>1, <1>3, <2>1 DEF NextSeq
<1> QED
  BY <1>2, <1>3

(* A request waited for and not answered is one the cartridge has, or will *)
(* take.                                                                   *)
LEMMA AskedIsPending ==
  ASSUME SessionTypeOK, Numbers, waiting, ~Acked
  PROVE  Pending
<1>1. reg.seq = NextSeq
  BY DEF Numbers, Acked
<1>2. NextSeq # 0 /\ NextSeq # ackseq
  BY Numbering DEF SessionTypeOK
<1> QED
  BY <1>1, <1>2 DEF Pending

(* An answered request was the last one committed, and it is the only one. *)
LEMMA AnsweredIsLast ==
  ASSUME SessionTypeOK, Numbers
  PROVE  /\ Acked => reg.seq = ackseq
         /\ reg.seq = ackseq => busy.req = NoReq
<1>1. NextSeq # ackseq
  BY Numbering DEF SessionTypeOK
<1> QED
  BY <1>1 DEF Numbers, Acked

-----------------------------------------------------------------------------
(* Types.                                                                  *)

LEMMA RequestType ==
  ASSUME SessionTypeOK, NEW cmd \in {"none", "write", "status", "mread"} \cup Soft \cup Hard
  PROVE  Request(cmd) \in Requests
  BY DEF SessionTypeOK, Request, Requests

LEMMA BodyType ==
  ASSUME NEW type \in Types
  PROVE  Body(type) \in Bodies
  BY SessionAssumption DEF Body, Bodies, Roles

(* What the device and the socket did with the request that was served.    *)
LEMMA ServeCases ==
  ASSUME SessionTypeOK, Numbers, Serve
  PROVE  \/ busy.req.cmd = "akopen" /\ Opens
         \/ busy.req.cmd = "akread" /\ Gets
         \/ busy.req.cmd = "akclose" /\ Closes
         \/ busy.req.cmd = "open" /\ Dials
         \/ busy.req.cmd \in {"hello", "write"} /\ Sends
         \/ busy.req.cmd \in {"wait", "status"} /\ Counts
         \/ busy.req.cmd \in {"read", "mread"} /\ Gives
         \/ Fails
<1>1. busy.req.cmd \in {"write", "status", "mread"} \cup Soft \cup Hard
  BY DEF Serve, Numbers, SessionTypeOK, Requests
<1> QED
  BY <1>1 DEF Serve, Served, Soft, Hard

LEMMA TypeStep ==
  ASSUME SessionTypeOK, Numbers, SessionNext
  PROVE  SessionTypeOK'
<1>n. NextSeq \in 0 .. SeqMod - 1
  BY Numbering, SessionAssumption DEF SessionTypeOK
<1>1. (step \in Quiet \cup Soft \cup Hard /\ key \in Keys /\ boot \in 1 .. MaxBoots)'
  <2>1. step' \in Quiet \cup Soft \cup Hard /\ key' \in Keys
    BY DEF SessionTypeOK, SessionNext, BootStep, Check, Launch, AppkeyAnswered, SocketAnswered,
     StartRead, TimesOut, MatchLaunch, MatchAnswered, MatchLeft, LeftReset, Take, Serve, Die,
     RelaySends, console, Quiet, Soft, Hard, Keys, KeyDone, Go, ReadFailed
  <2>2. boot' = boot \/ (boot < MaxBoots /\ boot' = boot + 1)
    BY DEF SessionNext, BootStep, Check, Launch, AppkeyAnswered, SocketAnswered,
     StartRead, TimesOut, MatchLaunch, MatchAnswered, MatchLeft, LeftReset, Take, Serve, Die,
     RelaySends, console
  <2> QED
    BY <2>1, <2>2, SessionAssumption DEF SessionTypeOK
<1>2. ({waiting, own, alive, punctual, known, hasty} \subseteq BOOLEAN)'
  <2>1. waiting' \in BOOLEAN /\ own' \in BOOLEAN /\ alive' \in BOOLEAN /\ punctual' \in BOOLEAN
    BY DEF SessionTypeOK, SessionNext, BootStep, Check, Launch, AppkeyAnswered, SocketAnswered,
     StartRead, TimesOut, MatchLaunch, MatchAnswered, MatchLeft, LeftReset, Take, Serve, Die,
     RelaySends, console, mailbox, Took, Committed
  <2>2. hasty' \in BOOLEAN
    BY DEF SessionTypeOK, SessionNext, BootStep, Check, Launch, AppkeyAnswered, SocketAnswered,
     StartRead, TimesOut, MatchLaunch, MatchAnswered, MatchLeft, LeftReset, Take, Serve, Die,
     RelaySends, Pending
  <2>3. known' \in BOOLEAN
    <3>1. CASE Serve
      BY <3>1, ServeCases DEF SessionTypeOK, fujinet, Fails, Opens, Gets, Closes, Dials, Sends, Counts, Gives
    <3> QED
      BY <3>1 DEF SessionTypeOK, SessionNext, BootStep, Check, Launch, AppkeyAnswered, SocketAnswered,
     StartRead, TimesOut, MatchLaunch, MatchAnswered, MatchLeft, LeftReset, Take, Die,
     RelaySends, fujinet
  <2> QED
    BY <2>1, <2>2, <2>3
<1>3. ({fnseq, ackseq, reg.seq, busy.seq} \subseteq 0 .. SeqMod - 1)'
  <2>1. fnseq' \in {fnseq, NextSeq, 0} /\ ackseq' \in {ackseq, busy.seq}
    BY DEF SessionNext, BootStep, Check, Launch, AppkeyAnswered, SocketAnswered,
     StartRead, TimesOut, MatchLaunch, MatchAnswered, MatchLeft, LeftReset, Take, Serve, Die,
     RelaySends, console, mailbox, Committed
  <2>2. reg'.seq \in {reg.seq, NextSeq}
    BY DEF SessionNext, BootStep, Check, Launch, AppkeyAnswered, SocketAnswered,
     StartRead, TimesOut, MatchLaunch, MatchAnswered, MatchLeft, LeftReset, Take, Serve, Die,
     RelaySends, mailbox, Committed
  <2>3. busy'.seq \in {busy.seq, reg.seq, 0}
    BY DEF SessionNext, BootStep, Check, Launch, AppkeyAnswered, SocketAnswered,
     StartRead, TimesOut, MatchLaunch, MatchAnswered, MatchLeft, LeftReset, Take, Serve, Die,
     RelaySends, mailbox
  <2>4. 0 \in 0 .. SeqMod - 1
    BY SessionAssumption
  <2> QED
    BY <1>n, <2>1, <2>2, <2>3, <2>4 DEF SessionTypeOK
<1>4. ({asked, reg.req, busy.req} \subseteq Requests)'
  <2>1. NoReq \in Requests
    BY SessionAssumption DEF NoReq, Requests, Keys
  <2>2. \A cmd \in MatchCmds \cup Soft \cup Hard : Request(cmd) \in Requests
    BY RequestType DEF MatchCmds
  <2> QED
    BY <2>1, <2>2 DEF SessionTypeOK, SessionNext, BootStep, Check, Launch, AppkeyAnswered, SocketAnswered,
     StartRead, TimesOut, MatchLaunch, MatchAnswered, MatchLeft, LeftReset, Take, Serve, Die,
     RelaySends, console, mailbox, Committed, MatchCmds
<1>5. (ent \in [net : BOOLEAN, role : Roles])'
  <2>1. ASSUME NEW f \in Bodies PROVE [net |-> TRUE, role |-> RoleKept(f)] \in [net : BOOLEAN, role : Roles]
    BY <2>1 DEF Bodies, RoleKept
  <2>2. [net |-> FALSE, role |-> "host"] \in [net : BOOLEAN, role : Roles]
    BY DEF Roles
  <2>3. reply.body \in Bodies
    BY DEF SessionTypeOK
  <2> QED
    BY <2>1, <2>2, <2>3 DEF SessionTypeOK, SessionNext, BootStep, Check, Launch, AppkeyAnswered, SocketAnswered,
     StartRead, TimesOut, MatchLaunch, MatchAnswered, MatchLeft, LeftReset, Take, Serve, Die,
     RelaySends, console
<1>6. (reply \in [of : Requests, err : {"ok", "error"}, body : Bodies])'
  <2>1. ASSUME NEW err \in {"ok", "error"}, NEW body \in Bodies, Reply(err, body)
        PROVE  reply' \in [of : Requests, err : {"ok", "error"}, body : Bodies]
    BY <2>1 DEF Reply, SessionTypeOK
  <2>2. ASSUME NEW type \in Types, Fine(type)
        PROVE  reply' \in [of : Requests, err : {"ok", "error"}, body : Bodies]
    BY <2>1, <2>2, BodyType DEF Fine
  <2>3. Body("none") \in Bodies
    BY BodyType DEF Types
  <2>4. ASSUME Gives PROVE reply' \in [of : Requests, err : {"ok", "error"}, body : Bodies]
    <3>1. Head(stream) \in Bodies
      BY <2>4 DEF Gives, SessionTypeOK
    <3> QED
      BY <2>1, <2>4, <3>1 DEF Gives
  <2>5. ASSUME Counts PROVE reply' \in [of : Requests, err : {"ok", "error"}, body : Bodies]
    BY <2>2, <2>5 DEF Counts, Types
  <2>6. ASSUME Gets PROVE reply' \in [of : Requests, err : {"ok", "error"}, body : Bodies]
    BY <2>2, <2>6 DEF Gets, Types, SessionTypeOK
  <2>7. ASSUME Opens \/ Closes \/ Dials \/ Sends \/ Fails
        PROVE  reply' \in [of : Requests, err : {"ok", "error"}, body : Bodies]
    BY <2>1, <2>2, <2>3, <2>7 DEF Opens, Closes, Dials, Sends, Fails, Types
  <2>8. CASE Serve
    BY <2>4, <2>5, <2>6, <2>7, <2>8, ServeCases
  <2> QED
    BY <2>8 DEF SessionTypeOK, SessionNext, BootStep, Check, Launch, AppkeyAnswered, SocketAnswered,
     StartRead, TimesOut, MatchLaunch, MatchAnswered, MatchLeft, LeftReset, Take, Die,
     RelaySends, mailbox
<1>7. (path \in [Keys -> {"old"} \cup Types])'
  <2>1. \A k \in Keys, t \in Types : [path EXCEPT ![k] = t] \in [Keys -> {"old"} \cup Types]
    BY DEF SessionTypeOK
  <2>2. reply.body.type \in Types /\ key \in Keys /\ "empty" \in Types
    BY DEF SessionTypeOK, Bodies, Types
  <2> QED
    BY <2>1, <2>2 DEF SessionTypeOK, SessionNext, BootStep, Check, Launch, AppkeyAnswered, SocketAnswered,
     StartRead, TimesOut, MatchLaunch, MatchAnswered, MatchLeft, LeftReset, Take, Serve, Die,
     RelaySends, Emptied
<1>8. (open \in {"none", "stuck"} \cup Keys)'
  <2>1. busy.req.key \in Keys
    BY DEF SessionTypeOK, Requests
  <2>2. CASE Serve
    BY <2>1, <2>2, ServeCases DEF SessionTypeOK, fujinet, Fails, Opens, Gets, Closes, Dials, Sends, Counts, Gives
  <2> QED
    BY <2>2 DEF SessionTypeOK, SessionNext, BootStep, Check, Launch, AppkeyAnswered, SocketAnswered,
     StartRead, TimesOut, MatchLaunch, MatchAnswered, MatchLeft, LeftReset, Take, Die,
     RelaySends, fujinet
<1>9. (sock \in 0 .. MaxBoots)'
  <2>1. busy.req.boot \in 0 .. MaxBoots
    BY DEF SessionTypeOK, Requests
  <2>2. CASE Serve
    BY <2>1, <2>2, ServeCases DEF SessionTypeOK, fujinet, Fails, Opens, Gets, Closes, Dials, Sends, Counts, Gives
  <2> QED
    BY <2>2 DEF SessionTypeOK, SessionNext, BootStep, Check, Launch, AppkeyAnswered, SocketAnswered,
     StartRead, TimesOut, MatchLaunch, MatchAnswered, MatchLeft, LeftReset, Take, Die,
     RelaySends, fujinet
<1>10. (start \in Bodies /\ stream \in Seq(Bodies))'
  <2>1. Body("none") \in Bodies /\ Body("game") \in Bodies
    BY BodyType DEF Types
  <2>2. \A f \in Starts : f \in Bodies
    BY DEF Starts, Bodies, Types
  <2>3. stream # <<>> => Tail(stream) \in Seq(Bodies)
    BY DEF SessionTypeOK
  <2>4. <<>> \in Seq(Bodies) /\ \A b \in Bodies : <<b>> \in Seq(Bodies)
    OBVIOUS
  <2>5. start \in Bodies /\ stream \in Seq(Bodies)
    BY DEF SessionTypeOK
  <2>6. CASE RelaySends
    BY <2>1, <2>2, <2>4, <2>5, <2>6 DEF RelaySends
  <2>7. CASE Serve
    BY <2>1, <2>3, <2>4, <2>5, <2>7, ServeCases DEF Fails, Opens, Gets, Closes, Dials, Sends, Counts, Gives
  <2>8. CASE ~RelaySends /\ ~Serve
    BY <2>5, <2>8 DEF SessionNext, BootStep, Check, Launch, AppkeyAnswered, SocketAnswered,
     StartRead, TimesOut, MatchLaunch, MatchAnswered, MatchLeft, LeftReset, Take, Die
  <2> QED
    BY <2>6, <2>7, <2>8
<1> QED
  BY <1>1, <1>2, <1>3, <1>4, <1>5, <1>6, <1>7, <1>8, <1>9, <1>10 DEF SessionTypeOK

-----------------------------------------------------------------------------
(* The mailbox: numbers, and who asked.                                    *)

LEMMA NumbersStep ==
  ASSUME SessionTypeOK, Numbers, Asking, SessionNext
  PROVE  Numbers'
<1>n. NextSeq # ackseq
  BY Numbering DEF SessionTypeOK
<1>a. reg.seq = ackseq => busy.req = NoReq
  BY AnsweredIsLast
<1>1. ASSUME UNCHANGED mailbox, waiting' => UNCHANGED <<waiting, fnseq, asked>>
      PROVE  Numbers'
  BY <1>1 DEF mailbox, Numbers, NextSeq
<1>2. ASSUME NEW cmd \in MatchCmds \cup Soft \cup Hard, Committed(cmd),
             UNCHANGED <<ackseq, busy>>
      PROVE  Numbers'
  <2>1. NextSeq' = NextSeq /\ reg' = [seq |-> NextSeq, req |-> Request(cmd)] /\ fnseq' = NextSeq
        /\ asked' = Request(cmd)
    BY <1>2 DEF NextSeq, Committed
  <2>2. Request(cmd).cmd # "none" /\ Request(cmd) # NoReq
    BY DEF Request, NoReq, MatchCmds, Soft, Hard
  <2> QED
    BY <1>2, <2>1, <2>2 DEF Numbers
<1>3. CASE Take
  BY <1>3, <1>n DEF Take, Numbers, Pending, NextSeq, console
<1>4. CASE Serve
  <2>1. ackseq' = reg.seq /\ busy'.req = NoReq
    BY <1>4 DEF Serve, Numbers
  <2> QED
    BY <1>4, <2>1 DEF Serve, Numbers, console
<1>5. CASE Launch
  BY <1>2, <1>5 DEF Launch
<1>6. CASE MatchLaunch
  BY <1>2, <1>6 DEF MatchLaunch, MatchCmds
<1>7. CASE Die
  BY <1>7 DEF Die, Numbers, NextSeq, console
<1>8. CASE LeftReset
  <2>1. ~waiting
    BY <1>8 DEF LeftReset, Asking, Soft, Hard
  <2> QED
    BY <1>1, <1>8, <2>1 DEF LeftReset
<1>9. CASE Check \/ AppkeyAnswered \/ SocketAnswered \/ StartRead \/ TimesOut \/ MatchAnswered
           \/ MatchLeft \/ RelaySends
  <2>1. UNCHANGED mailbox /\ (waiting' => UNCHANGED <<waiting, fnseq, asked>>)
    BY <1>9 DEF Check, AppkeyAnswered, SocketAnswered, StartRead, TimesOut, MatchAnswered, MatchLeft,
       RelaySends, Took, console
  <2> QED
    BY <1>1, <2>1
<1> QED
  BY <1>3, <1>4, <1>5, <1>6, <1>7, <1>8, <1>9 DEF SessionNext, BootStep

LEMMA AskingStep ==
  ASSUME SessionTypeOK, Numbers, Asking, SessionNext
  PROVE  Asking'
<1>1. CASE Launch
  <2>1. asked' = Request(step) /\ Request(step)' = Request(step) /\ step' = step /\ key' = key
    BY <1>1 DEF Launch, Committed, Request
  <2> QED
    BY <1>1, <2>1 DEF Launch, Asking, Soft, Hard, Request
<1>2. CASE MatchLaunch
  BY <1>2 DEF MatchLaunch, Asking, Committed, Request, MatchCmds
<1>3. CASE Check \/ LeftReset \/ MatchLeft \/ TimesOut
  BY <1>3 DEF Check, LeftReset, MatchLeft, TimesOut, Asking, KeyDone, Go, ReadFailed, Soft, Hard
<1>4. CASE AppkeyAnswered \/ SocketAnswered \/ StartRead \/ MatchAnswered
  BY <1>4 DEF AppkeyAnswered, SocketAnswered, StartRead, MatchAnswered, Took, Asking, KeyDone, Go,
     ReadFailed, Soft, Hard
<1>5. CASE Take \/ Serve \/ Die \/ RelaySends
  BY <1>5 DEF Take, Serve, Die, RelaySends, console, Asking, Request
<1> QED
  BY <1>1, <1>2, <1>3, <1>4, <1>5 DEF SessionNext, BootStep

(* From the answered OPEN on, the cartridge works on nothing but what the  *)
(* console waits for: a console that gives up in between plays locally.    *)
LEMMA JoinedStep ==
  ASSUME SessionTypeOK, Numbers, Asking, Joined, SessionNext
  PROVE  Joined'
<1>a. Acked => reg.seq = ackseq /\ busy.req = NoReq
  BY AnsweredIsLast
<1>b. reg.seq = ackseq => busy.req = NoReq
  BY AnsweredIsLast
<1>1. CASE Launch \/ MatchLaunch
  BY <1>1, <1>b DEF Launch, MatchLaunch, Joined, Committed
<1>2. CASE Check \/ LeftReset \/ MatchLeft \/ TimesOut
  BY <1>2 DEF Check, LeftReset, MatchLeft, TimesOut, Joined, KeyDone, Go, ReadFailed
<1>3. CASE AppkeyAnswered \/ SocketAnswered \/ StartRead \/ MatchAnswered
  BY <1>3, <1>a DEF AppkeyAnswered, SocketAnswered, StartRead, MatchAnswered, mailbox, Joined
<1>4. CASE Take
  BY <1>4, <1>b DEF Take, Pending, Joined, Numbers, console
<1>5. CASE Serve
  BY <1>5 DEF Serve, Joined, Numbers, console
<1>6. CASE Die \/ RelaySends
  BY <1>6 DEF Die, RelaySends, Joined, console, mailbox
<1> QED
  BY <1>1, <1>2, <1>3, <1>4, <1>5, <1>6 DEF SessionNext, BootStep

-----------------------------------------------------------------------------
(* START, and the match it starts.                                         *)

(* Nothing but the last START of this socket is in the stream, in the      *)
(* answer, or behind a match: an answer that is late cannot bring another. *)
LEMMA StartedStep ==
  ASSUME SessionTypeOK, Numbers, Asking, Joined, Started, SessionNext
  PROVE  Started'
<1>a. reg.seq = ackseq => busy.req = NoReq
  BY AnsweredIsLast
<1>t. \A type \in Types : Body(type).type = type
  BY DEF Body
<1>1. ASSUME UNCHANGED <<start, stream, reply>>, step' # "match" \/ UNCHANGED <<step, ent>>
      PROVE  Started'
  BY <1>1 DEF Started, MatchAsStarted
<1>2. CASE StartRead
  <2>1. CASE Answer = "ok" /\ Accepted(reply.body)
    <3>1. reply.body = start /\ start.type = "START" /\ start.delay = VOD
      BY <2>1 DEF Accepted, Started
    <3>2. ent' = [net |-> TRUE, role |-> start.role] /\ UNCHANGED <<start, stream, reply>>
      BY <1>2, <2>1, <3>1 DEF StartRead, RoleKept, mailbox
    <3> QED
      BY <3>1, <3>2 DEF Started, MatchAsStarted
  <2>2. CASE ~(Answer = "ok" /\ Accepted(reply.body))
    BY <1>1, <1>2, <2>2 DEF StartRead, Go, mailbox
  <2> QED
    BY <2>1, <2>2
<1>3. CASE Launch \/ MatchLaunch \/ Check \/ LeftReset \/ MatchLeft \/ TimesOut \/ MatchAnswered
           \/ AppkeyAnswered \/ Take \/ Die
  BY <1>1, <1>3 DEF Launch, MatchLaunch, Check, LeftReset, MatchLeft, TimesOut, MatchAnswered,
     AppkeyAnswered, Take, Die, console, mailbox, KeyDone, Go, ReadFailed
<1>4. CASE SocketAnswered
  <2>1. step' # "match"
    BY <1>4 DEF SocketAnswered, Go
  <2> QED
    BY <1>1, <1>4, <2>1 DEF SocketAnswered, mailbox
<1>5. CASE Serve
  <2>0. UNCHANGED <<step, ent>>
    BY <1>5 DEF Serve, console
  <2>1. CASE busy.req.cmd = "open" /\ Dials
    <3>1. step # "match"
      BY <1>5, <2>1, <1>a DEF Joined, Asking, Serve, MatchCmds, Soft, Hard
    <3>2. start' = Body("none") /\ stream' = <<>> /\ reply'.body = Body("none")
      BY <2>1 DEF Dials, Fine, Reply
    <3> QED
      BY <2>0, <3>1, <3>2 DEF Started, MatchAsStarted, Body
  <2>2. CASE Gives
    <3>1. stream # <<>> /\ stream \in Seq(Bodies) /\ stream' = Tail(stream)
          /\ reply'.body = stream[1] /\ start' = start
      BY <2>2 DEF Gives, Reply, SessionTypeOK
    <3>2. 1 \in DOMAIN stream
      BY <3>1
    <3>3. \A i \in DOMAIN stream' : i + 1 \in DOMAIN stream /\ stream'[i] = stream[i + 1]
      BY <3>1
    <3> QED
      BY <2>0, <3>1, <3>2, <3>3 DEF Started, MatchAsStarted
  <2>3. CASE Opens \/ Gets \/ Closes \/ Sends \/ Counts \/ Fails
    <3>1. start' = start /\ stream' = stream
      BY <2>3 DEF Opens, Gets, Closes, Sends, Counts, Fails
    <3>2. reply'.body.type # "START"
      BY <2>3, <1>t DEF Opens, Gets, Closes, Sends, Counts, Fails, Fine, Reply, Keys, Types, Body
    <3> QED
      BY <2>0, <3>1, <3>2 DEF Started, MatchAsStarted
  <2> QED
    BY <1>5, <2>1, <2>2, <2>3, ServeCases
<1>6. CASE RelaySends
  <2>0. UNCHANGED <<step, ent, reply>> /\ stream = <<>>
    BY <1>6 DEF RelaySends, console, mailbox
  <2>1. ASSUME start.type = "none", NEW f \in Starts, stream' = <<f>>, start' = f
        PROVE  Started'
    <3>1. f.type = "START" /\ step # "match" /\ reply.body.type # "START"
      BY <2>1 DEF Starts, Started, MatchAsStarted
    <3> QED
      BY <2>0, <2>1, <3>1 DEF Started, MatchAsStarted
  <2>2. ASSUME stream' = <<Body("game")>>, start' = start
        PROVE  Started'
    BY <2>0, <2>2 DEF Started, MatchAsStarted, Body
  <2> QED
    BY <1>6, <2>1, <2>2 DEF RelaySends
<1> QED
  BY <1>2, <1>3, <1>4, <1>5, <1>6 DEF SessionNext, BootStep

-----------------------------------------------------------------------------
(* A cartridge that is punctual.                                           *)

(* Where the boot bank commits a request, the number is the last one       *)
(* answered, but for the first request of a hasty boot.                    *)
LEMMA InStepStep ==
  ASSUME SessionTypeOK, Numbers, Asking, InStep, SessionNext
  PROVE  InStep'
<1> SUFFICES ASSUME punctual'
             PROVE  InStep'
  BY DEF InStep
<1>p. punctual
  BY DEF SessionNext, BootStep, Check, Launch, AppkeyAnswered, SocketAnswered,
     StartRead, TimesOut, MatchLaunch, MatchAnswered, MatchLeft, LeftReset, Take, Serve, Die,
     RelaySends, mailbox
<1>n. NextSeq # ackseq /\ NextSeq # 0
  BY Numbering DEF SessionTypeOK
<1>a. (Acked => reg.seq = ackseq) /\ (reg.seq = ackseq => busy.req = NoReq)
  BY AnsweredIsLast
<1>1. CASE Launch
  <2>0. ~waiting /\ waiting' /\ reg' = [seq |-> NextSeq, req |-> Request(step)]
        /\ fnseq' = NextSeq /\ UNCHANGED <<step, key, own, ackseq, busy, reply, alive, hasty>>
    BY <1>1 DEF Launch, Committed
  <2>1. ~Acked'
    BY <2>0, <1>n DEF Acked
  <2>2. alive /\ busy.req # NoReq => First' /\ busy.req.cmd \in MatchCmds
    <3>1. SUFFICES ASSUME alive, busy.req # NoReq
                   PROVE  First' /\ busy.req.cmd \in MatchCmds
      OBVIOUS
    <3>2. busy.req = reg.req /\ reg.seq # ackseq
      BY <1>p, <1>a, <2>0, <3>1 DEF InStep, First
    <3>3. Free /\ reg.req.cmd \in MatchCmds
      BY <1>p, <2>0, <3>1, <3>2 DEF InStep
    <3> QED
      BY <1>1, <2>0, <3>2, <3>3 DEF Free, First, Launch, Soft, Hard
  <2> QED
    BY <1>p, <2>0, <2>1, <2>2 DEF InStep
<1>2. CASE MatchLaunch
  <2>0. ~waiting /\ waiting' /\ reg'.seq = NextSeq /\ step = "match"
        /\ fnseq' = NextSeq /\ UNCHANGED <<step, key, own, ackseq, busy, reply, alive, hasty>>
    BY <1>2 DEF MatchLaunch, Committed
  <2>1. ~Acked'
    BY <2>0, <1>n DEF Acked
  <2>2. alive => busy.req = NoReq
    BY <1>p, <1>a, <2>0 DEF InStep, Free
  <2> QED
    BY <1>p, <2>0, <2>1, <2>2 DEF InStep
<1>3. CASE Check
  <2>0. step = "cold" /\ key = "name" /\ step' \in {"akopen", "local"} /\ ~waiting
        /\ UNCHANGED <<key, waiting, fnseq, asked, own, ackseq, reg, busy, reply, alive, hasty>>
    BY <1>3 DEF Check, Asking, mailbox, Soft, Hard
  <2> QED
    BY <1>p, <2>0 DEF InStep, First, Free, Acked
<1>4. CASE TimesOut
  <2>0. ~alive /\ ~waiting' /\ UNCHANGED <<own, alive, hasty>>
    BY <1>4, <1>p, AskedIsPending DEF TimesOut, mailbox
  <2>1. step' \notin {"match", "left"} /\ step \notin {"match", "left"}
    BY <1>4 DEF TimesOut, KeyDone, Go, ReadFailed, Hard
  <2> QED
    BY <1>p, <2>0, <2>1 DEF InStep, Acked
<1>5. CASE MatchLeft
  <2>0. step = "match" /\ step' = "left" /\ ~waiting'
        /\ UNCHANGED <<key, own, ackseq, reg, busy, reply, alive, hasty>>
    BY <1>5 DEF MatchLeft, mailbox
  <2>1. own /\ (alive /\ busy.req # NoReq => busy.req = reg.req)
    BY <1>p, <2>0 DEF InStep, First
  <2>2. alive /\ reg.seq # ackseq => reg.req.cmd \in MatchCmds
    BY <1>p, <2>0 DEF InStep, Asking, Numbers, Soft, Hard
  <2> QED
    BY <1>p, <2>0, <2>1, <2>2 DEF InStep, Free, Acked
<1>6. CASE LeftReset
  <2>0. step = "left" /\ step' = "cold" /\ ~waiting /\ ~waiting' /\ hasty' = Pending
        /\ UNCHANGED <<own, ackseq, reg, busy, reply, alive>>
    BY <1>6 DEF LeftReset, mailbox, Asking, Soft, Hard
  <2>1. own /\ (alive /\ busy.req # NoReq => busy.req = reg.req)
    BY <1>p, <2>0 DEF InStep, First
  <2>2. ~Free' => reg.seq = ackseq
    BY <2>0, <1>n DEF Free, Pending, Numbers
  <2> QED
    BY <1>p, <2>0, <2>1, <2>2 DEF InStep, Acked
<1>7. CASE AppkeyAnswered \/ SocketAnswered \/ StartRead \/ MatchAnswered
  <2>0. Acked /\ ~waiting' /\ own' = (reply.of = asked)
        /\ UNCHANGED <<ackseq, reg, busy, reply, alive, hasty>>
    BY <1>7 DEF AppkeyAnswered, SocketAnswered, StartRead, MatchAnswered, Took, mailbox
  <2>1. step' \notin {"match", "left"} \/ step \in {"read", "match"}
    BY <1>7 DEF AppkeyAnswered, SocketAnswered, StartRead, MatchAnswered, KeyDone, Go, ReadFailed
  <2>2. own' \/ First
    BY <1>p, <2>0 DEF InStep
  <2>3. own' \/ (hasty /\ step' \notin {"match", "left"})
    BY <2>1, <2>2 DEF First
  <2> QED
    BY <1>p, <1>a, <2>0, <2>3 DEF InStep, Acked
<1>8. CASE Take
  <2>0. UNCHANGED <<step, key, waiting, fnseq, asked, own, ackseq, reg, reply, alive, hasty>>
        /\ busy' = reg
    BY <1>8 DEF Take, console
  <2> QED
    BY <1>p, <2>0 DEF InStep, First, Free, Acked
<1>9. CASE Serve
  <2>0. UNCHANGED <<step, key, waiting, fnseq, asked, own, reg, alive, hasty>>
        /\ busy'.req = NoReq /\ ackseq' = reg.seq /\ alive /\ busy.req # NoReq
    BY <1>9 DEF Serve, console, Numbers
  <2>1. reply'.of = busy.req
    <3>1. \A err, body : Reply(err, body) => reply'.of = busy.req
      BY DEF Reply
    <3> QED
      BY <1>9, <3>1, ServeCases DEF Opens, Gets, Closes, Sends, Counts, Fails, Dials, Gives, Fine
  <2>2. waiting /\ ~First => busy.req = asked
    BY <1>p, <2>0 DEF InStep, Numbers
  <2> QED
    BY <1>p, <2>0, <2>1, <2>2 DEF InStep, First, Acked
<1>10. CASE Die \/ RelaySends
  <2>0. UNCHANGED <<step, key, waiting, fnseq, asked, own, ackseq, reg, busy, reply, hasty>>
        /\ alive' \in {alive, FALSE}
    BY <1>10 DEF Die, RelaySends, console, mailbox
  <2> QED
    BY <1>p, <2>0 DEF InStep, First, Free, Acked
<1> QED
  BY <1>1, <1>2, <1>3, <1>4, <1>5, <1>6, <1>7, <1>8, <1>9, <1>10 DEF SessionNext, BootStep

(* What a punctual cartridge works on, or will take, in a boot that has    *)
(* its first answer, or if it is no request of a match: what is waited for.*)
LEMMA WorksOnAsked ==
  ASSUME SessionTypeOK, Numbers, InStep, punctual, alive, busy.req # NoReq
  PROVE  /\ busy.req = reg.req \/ (First /\ busy.req.cmd \in MatchCmds)
         /\ busy.req.cmd \notin MatchCmds => waiting /\ busy.req = asked
         /\ ~waiting => Free
<1>1. busy.req = reg.req \/ (First /\ busy.req.cmd \in MatchCmds)
  BY DEF InStep
<1>2. reg.seq # ackseq
  BY AnsweredIsLast
<1> QED
  BY <1>1, <1>2 DEF InStep, Numbers

LEMMA OpenKeyStep ==
  ASSUME SessionTypeOK, Numbers, Asking, InStep, OpenKey, SessionNext
  PROVE  OpenKey'
<1> SUFFICES ASSUME punctual', alive', open' \in Keys
             PROVE  OpenKey'
  BY DEF OpenKey
<1>p. punctual /\ alive
  BY DEF SessionNext, BootStep, Check, Launch, AppkeyAnswered, SocketAnswered,
     StartRead, TimesOut, MatchLaunch, MatchAnswered, MatchLeft, LeftReset, Take, Serve, Die,
     RelaySends, mailbox
<1>n. NextSeq # ackseq
  BY Numbering DEF SessionTypeOK
<1>a. (Acked => reg.seq = ackseq) /\ (reg.seq = ackseq => busy.req = NoReq)
  BY AnsweredIsLast
<1>1. CASE Launch \/ MatchLaunch
  <2>0. ~waiting /\ UNCHANGED <<step, key, open>> /\ fnseq' = NextSeq /\ ackseq' = ackseq
    BY <1>1 DEF Launch, MatchLaunch, Committed, fujinet
  <2> QED
    BY <1>p, <1>n, <2>0 DEF OpenKey, Acked
<1>2. CASE AppkeyAnswered
  <2>0. Acked /\ ~waiting' /\ open' = open
    BY <1>2 DEF AppkeyAnswered, Took, fujinet
  <2> QED
    BY <1>2, <1>p, <2>0 DEF OpenKey, AppkeyAnswered, Go, KeyDone, ReadFailed, Acked
<1>3. CASE TimesOut
  BY <1>3, <1>p, AskedIsPending DEF TimesOut
<1>4. CASE Check \/ SocketAnswered \/ StartRead \/ MatchAnswered \/ MatchLeft \/ LeftReset
  <2>1. open' = open /\ step \notin {"akopen", "akread", "akclose"}
    BY <1>4 DEF Check, SocketAnswered, StartRead, MatchAnswered, MatchLeft, LeftReset, fujinet
  <2> QED
    BY <1>p, <2>1 DEF OpenKey
<1>5. CASE Take \/ Die \/ RelaySends
  <2>0. UNCHANGED <<step, key, waiting, fnseq, ackseq, reply, open>>
    BY <1>5, <1>p DEF Take, Die, RelaySends, console, mailbox, fujinet
  <2> QED
    BY <1>p, <2>0 DEF OpenKey, Acked, Answer
<1>6. CASE Serve
  <2>0. UNCHANGED <<step, key, waiting, fnseq, asked>> /\ ackseq' = reg.seq /\ busy.req # NoReq
        /\ (waiting => fnseq = reg.seq)
    BY <1>6 DEF Serve, console, Numbers
  <2>1. ~Acked
    BY <2>0, <1>a
  <2>2. CASE busy.req.cmd = "akopen" /\ Opens
    <3>1. waiting /\ busy.req = asked
      BY <1>p, <2>0, <2>2, WorksOnAsked DEF MatchCmds
    <3>2. step = "akopen" /\ asked = Request(step)
      BY <2>2, <3>1 DEF Asking, Request, MatchCmds
    <3>3. open' = key /\ reply'.err = "ok" /\ Acked'
      BY <2>0, <2>2, <3>1, <3>2 DEF Opens, Fine, Reply, Request, Acked
    <3> QED
      BY <2>0, <3>2, <3>3 DEF OpenKey, Answer
  <2>3. CASE open' = open /\ ~(busy.req.cmd = "akclose")
    <3>1. open = key /\ step \in {"akread", "akclose"}
      BY <1>p, <2>1, <2>3 DEF OpenKey
    <3>2. step # "akclose"
      <4>1. SUFFICES ASSUME step = "akclose" PROVE FALSE
        OBVIOUS
      <4>2. waiting /\ busy.req = reg.req
        BY <1>p, <2>0, <4>1, WorksOnAsked DEF Free, First
      <4> QED
        BY <2>3, <4>1, <4>2 DEF Asking, Request, Numbers
    <3> QED
      BY <2>0, <2>3, <3>1, <3>2 DEF OpenKey
  <2>4. CASE busy.req.cmd = "akclose"
    BY <1>6, <2>4, ServeCases DEF Closes, Fails, Keys
  <2> QED
    BY <1>6, <2>2, <2>3, <2>4, ServeCases DEF Fails, Opens, Gets, Closes, Dials, Sends, Counts, Gives, fujinet
<1> QED
  BY <1>1, <1>2, <1>3, <1>4, <1>5, <1>6 DEF SessionNext, BootStep

LEMMA ClosedBehindStep ==
  ASSUME SessionTypeOK, Numbers, Asking, InStep, OpenKey, ClosedBehind, SessionNext
  PROVE  ClosedBehind'
<1>1. CASE Take
  <2>1. SUFFICES ASSUME punctual, reg.req.cmd = "akopen"
                 PROVE  open \in {"none", "stuck"}
    BY <1>1 DEF Take, ClosedBehind, fujinet
  <2>2. alive /\ reg.seq # ackseq
    BY <1>1 DEF Take, Pending
  <2>3. waiting /\ ~Acked /\ reg.req = asked
    BY <2>1, <2>2 DEF InStep, MatchCmds, Numbers, Acked
  <2>4. step = "akopen"
    BY <2>1, <2>3 DEF Asking, Request, MatchCmds
  <2> QED
    BY <2>1, <2>2, <2>3, <2>4 DEF OpenKey, SessionTypeOK
<1>2. CASE Serve
  BY <1>2 DEF Serve, ClosedBehind, NoReq
<1>3. CASE ~Take /\ ~Serve
  <2>1. UNCHANGED <<busy, open, punctual>>
    BY <1>3 DEF SessionNext, BootStep, Check, Launch, AppkeyAnswered, SocketAnswered,
     StartRead, TimesOut, MatchLaunch, MatchAnswered, MatchLeft, LeftReset, Die,
     RelaySends, mailbox, fujinet
  <2> QED
    BY <2>1 DEF ClosedBehind
<1> QED
  BY <1>1, <1>2, <1>3

(* A buffer is emptied for the key that is opened, and what fills it is    *)
(* the answer to the read of that key.                                     *)
LEMMA PathsStep ==
  ASSUME SessionTypeOK, Numbers, Asking, InStep, OpenKey, Paths, SessionNext
  PROVE  Paths'
<1> SUFFICES ASSUME punctual'
             PROVE  Paths'
  BY DEF Paths
<1>p. punctual
  BY DEF SessionNext, BootStep, Check, Launch, AppkeyAnswered, SocketAnswered,
     StartRead, TimesOut, MatchLaunch, MatchAnswered, MatchLeft, LeftReset, Take, Serve, Die,
     RelaySends, mailbox
<1>n. NextSeq # ackseq
  BY Numbering DEF SessionTypeOK
<1>k. Keys = {"name", "url"} /\ key \in Keys /\ DOMAIN path = Keys
  BY DEF Keys, SessionTypeOK
<1>1. CASE Launch
  <2>0. UNCHANGED <<step, key>> /\ ~Acked' /\ path' = Emptied(path)
    BY <1>1, <1>n DEF Launch, Committed, Acked
  <2>1. \A k \in Keys : Fresh(k) => Fresh(k)'
    BY <1>k, <2>0 DEF Fresh, Emptied
  <2>2. step = "akopen" => path'[key] = "empty"
    BY <1>k, <2>0 DEF Emptied
  <2> QED
    BY <1>p, <1>k, <2>0, <2>1, <2>2 DEF Paths
<1>2. CASE AppkeyAnswered
  <2>1. CASE step = "akread" /\ Answer = "ok"
    <3>1. step' = "akclose" /\ key' = key /\ path' = [path EXCEPT ![key] = reply.body.type]
          /\ Acked
      BY <1>2, <2>1 DEF AppkeyAnswered, Go
    <3>2. reply.body.type \in {"empty", key}
      BY <1>p, <2>1, <3>1 DEF Paths
    <3>3. Fresh(key)' /\ \A k \in Keys : Fresh(k) => Fresh(k)'
      BY <1>k, <3>1, <3>2 DEF Fresh
    <3> QED
      BY <1>p, <1>k, <2>1, <3>1, <3>3 DEF Paths, Soft, Hard
  <2>2. CASE ~(step = "akread" /\ Answer = "ok")
    <3>0. path' = path /\ ~waiting' /\ waiting
      BY <1>2, <2>2 DEF AppkeyAnswered, Took, Acked
    <3>1. \A k \in Keys : Fresh(k)' = Fresh(k)
      BY <3>0 DEF Fresh
    <3>2. Fresh(key)
      BY <1>2, <1>p, <3>0 DEF AppkeyAnswered, Paths, Fresh, Soft
    <3>3. \/ /\ step' = step \/ step' \in {"akread", "akclose"}
             /\ key' = key /\ step' # "akopen"
          \/ KeyDone
      BY <1>2, <2>2 DEF AppkeyAnswered, Go, ReadFailed
    <3>4. CASE KeyDone
      BY <1>2, <1>p, <1>k, <3>0, <3>1, <3>2, <3>4 DEF AppkeyAnswered, KeyDone, Paths, Acked, Soft, Hard
    <3>5. CASE step' \in {"akread", "akclose"} /\ key' = key /\ ~Acked'
      BY <1>2, <1>p, <1>k, <3>0, <3>1, <3>2, <3>5 DEF AppkeyAnswered, Paths, Soft, Hard
    <3> QED
      BY <1>2, <2>2, <3>0, <3>4, <3>5 DEF AppkeyAnswered, Go, ReadFailed, Acked
  <2> QED
    BY <2>1, <2>2
<1>3. CASE TimesOut
  <2>0. path' = path /\ ~waiting' /\ waiting
    BY <1>3 DEF TimesOut
  <2>1. \A k \in Keys : Fresh(k)' = Fresh(k)
    BY <2>0 DEF Fresh
  <2>2. CASE step \in Soft
    <3>1. Fresh(key)
      BY <2>2, <1>p, <2>0 DEF Paths, Fresh, Soft
    <3> QED
      BY <1>3, <1>p, <1>k, <2>0, <2>1, <2>2, <3>1 DEF TimesOut, Go, KeyDone, ReadFailed, Paths, Acked, Soft, Hard
  <2>3. CASE step \in Hard
    BY <1>3, <2>3 DEF TimesOut, Go, Paths, Soft, Hard
  <2> QED
    BY <1>3, <2>2, <2>3 DEF TimesOut, Soft
<1>4. CASE SocketAnswered \/ StartRead \/ MatchAnswered \/ MatchLaunch \/ MatchLeft \/ LeftReset
  <2>1. path' = path /\ step \in Hard \cup {"match", "left"} /\ step' \notin Soft
        /\ (step' \in Hard \cup {"match"} => step \in Hard \cup {"match"})
    BY <1>4 DEF SocketAnswered, StartRead, MatchAnswered, MatchLaunch, MatchLeft, LeftReset, Go, Soft, Hard
  <2>2. \A k \in Keys : Fresh(k)' = Fresh(k)
    BY <2>1 DEF Fresh
  <2> QED
    BY <1>p, <2>1, <2>2 DEF Paths, Soft
<1>5. CASE Check
  BY <1>5 DEF Check, Paths, Asking, Soft, Hard
<1>6. CASE Take \/ Die \/ RelaySends
  <2>0. UNCHANGED <<step, key, waiting, fnseq, ackseq, reply, path>>
    BY <1>6 DEF Take, Die, RelaySends, console, mailbox
  <2>1. \A k \in Keys : Fresh(k)' = Fresh(k)
    BY <2>0 DEF Fresh
  <2> QED
    BY <1>p, <1>k, <2>0, <2>1 DEF Paths, Acked, Answer
<1>7. CASE Serve
  <2>0. UNCHANGED <<step, key, waiting, fnseq, asked, path>> /\ alive /\ busy.req # NoReq
    BY <1>7 DEF Serve, console
  <2>1. \A k \in Keys : Fresh(k)' = Fresh(k)
    BY <2>0 DEF Fresh
  <2>2. ASSUME step = "akread", Acked', reply'.err = "ok"
        PROVE  reply'.body.type \in {"empty", key}
    <3>1. waiting /\ busy.req = reg.req
      BY <1>p, <2>0, <2>2, WorksOnAsked DEF Acked, First
    <3>2. busy.req.cmd = "akread"
      BY <2>2, <3>1 DEF Asking, Numbers, Request
    <3>3. Gets
      BY <1>7, <2>2, <3>2, ServeCases DEF Fails, Reply
    <3>4. open = key
      BY <1>p, <2>0, <3>3 DEF OpenKey, Gets
    <3> QED
      BY <3>3, <3>4 DEF Gets, Fine, Reply, Body
  <2> QED
    BY <1>p, <1>k, <2>0, <2>1, <2>2 DEF Paths, Answer
<1> QED
  BY <1>1, <1>2, <1>3, <1>4, <1>5, <1>6, <1>7 DEF SessionNext, BootStep

-----------------------------------------------------------------------------
(* The boot bank keeps its inductive invariant, whatever the cartridge, the *)
(* FujiNet and the relay do.                                               *)
THEOREM SessionInvariance == SessionSpec => []SessionInv
<1>1. SessionInit => SessionInv
  <2> SUFFICES ASSUME SessionInit
               PROVE  SessionInv
    OBVIOUS
  <2>1. NoReq \in Requests /\ Body("none") \in Bodies
    BY SessionAssumption, BodyType DEF NoReq, Requests, Keys, Types
  <2>2. SessionTypeOK
    <3>1. {fnseq, ackseq, reg.seq, busy.seq} \subseteq 0 .. SeqMod - 1 /\ boot \in 1 .. MaxBoots
          /\ sock \in 0 .. MaxBoots
      BY SessionAssumption DEF SessionInit
    <3>2. reply \in [of : Requests, err : {"ok", "error"}, body : Bodies]
      BY <2>1 DEF SessionInit
    <3>3. path \in [Keys -> {"old"} \cup Types]
      BY DEF SessionInit, Types
    <3>4. ent \in [net : BOOLEAN, role : Roles]
      BY DEF SessionInit, Roles
    <3>5. stream \in Seq(Bodies) /\ start \in Bodies /\ {asked, reg.req, busy.req} \subseteq Requests
      BY <2>1 DEF SessionInit
    <3>6. waiting \in BOOLEAN /\ own \in BOOLEAN /\ alive \in BOOLEAN /\ punctual \in BOOLEAN
          /\ known \in BOOLEAN /\ hasty \in BOOLEAN
      BY DEF SessionInit
    <3>7. step \in Quiet /\ key \in Keys /\ open \in {"none", "stuck"} \cup Keys
      BY DEF SessionInit, Quiet, Keys
    <3> QED
      BY <3>1, <3>2, <3>3, <3>4, <3>5, <3>6, <3>7 DEF SessionTypeOK
  <2>3. Numbers /\ Asking /\ Joined
    BY DEF SessionInit, Numbers, Asking, Joined
  <2>4. Started
    BY DEF SessionInit, Started, MatchAsStarted, Body
  <2>5. InStep
    BY DEF SessionInit, InStep, Acked
  <2>6. OpenKey /\ ClosedBehind /\ Paths
    BY DEF SessionInit, OpenKey, ClosedBehind, Paths, Keys, NoReq, Soft, Hard
  <2> QED
    BY <2>2, <2>3, <2>4, <2>5, <2>6 DEF SessionInv
<1>2. SessionInv /\ [SessionNext]_svars => SessionInv'
  <2> SUFFICES ASSUME SessionInv, [SessionNext]_svars
               PROVE  SessionInv'
    OBVIOUS
  <2>1. CASE SessionNext
    BY <2>1, TypeStep, NumbersStep, AskingStep, JoinedStep, StartedStep, InStepStep, OpenKeyStep,
       ClosedBehindStep, PathsStep DEF SessionInv
  <2>2. CASE UNCHANGED svars
    <3>1. UNCHANGED <<SessionTypeOK, Numbers, Asking, Joined, Started>>
      BY <2>2 DEF svars, console, mailbox, fujinet, SessionTypeOK, Numbers, Asking, Joined, Started,
         MatchAsStarted, NextSeq, Request
    <3>2. UNCHANGED <<InStep, OpenKey, ClosedBehind, Paths>>
      BY <2>2 DEF svars, console, mailbox, fujinet, InStep, OpenKey, ClosedBehind, Paths, Fresh,
         First, Free, Acked, Answer
    <3> QED
      BY <3>1, <3>2 DEF SessionInv
  <2> QED
    BY <2>1, <2>2
<1> QED
  BY <1>1, <1>2, PTL DEF SessionSpec

(* "Dropped in silence" (vocore.inc): whatever the console waits for, the  *)
(* cartridge has, will take, or has answered.                              *)
THEOREM NothingDropped == SessionSpec => []NoSilentDrop
<1>1. SessionInv => NoSilentDrop
  BY AskedIsPending DEF SessionInv, NoSilentDrop
<1> QED
  BY <1>1, SessionInvariance, PTL

(* FNBEG's nine seconds (vocore.inc): what the console takes for an answer *)
(* is the answer to what it asked, across restarts.                        *)
THEOREM AnswersAreOwn == SessionSpec => []AnswerIsOwn
<1>1. SessionInv => AnswerIsOwn
  BY DEF SessionInv, InStep, AnswerIsOwn
<1> QED
  BY <1>1, SessionInvariance, PTL

(* "A stale buffer is indistinguishable from a fresh one" (voappk.inc):    *)
(* what is dialled and sent was read in this boot, also after a hasty one. *)
THEOREM BuffersAreOwn == SessionSpec => []KeysAreOwn
<1>1. SessionInv => KeysAreOwn
  BY DEF SessionInv, Paths, Fresh, KeysAreOwn
<1> QED
  BY <1>1, SessionInvariance, PTL

(* "The next open finds the device busy" (voappk.inc) only where a close   *)
(* failed.                                                                 *)
THEOREM KeysAreClosed == SessionSpec => []ClosedBehind
<1>1. SessionInv => ClosedBehind
  BY DEF SessionInv
<1> QED
  BY <1>1, SessionInvariance, PTL

(* A match has the role and the delay of the START of its socket (CSREAD   *)
(* and CSGO in vosess.inc), whatever comes late or fails.                  *)
THEOREM MatchIsStarted == SessionSpec => []MatchAsStarted
<1>1. SessionInv => MatchAsStarted
  BY DEF SessionInv, Started
<1> QED
  BY <1>1, SessionInvariance, PTL
=============================================================================
