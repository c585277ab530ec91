# Video Olympics netplay: TLA+ specifications

Two Atari 2600 consoles play Video Olympics together. Each runs its own copy of
the game; what crosses the network is only the two players' inputs. The
program is right when two machines that share nothing but a slow byte stream
compute the same game, and these modules say what that means and check it.
Paths are relative to the repository's root.

## 1. Inventory

| Part | Source | State it keeps | Operations | Talks to |
|---|---|---|---|---|
| Gate and mixer | `src/voinput.inc`, `vogate.inc`, `vophi.inc`, `vostall.inc`, `vomix.inc` | `VOTICK`, phase, `VOE_RAN`, stall counter (high nibble of `VOERR`), the ring of its own input `VOLOC` | once a frame: continue a tick, begin one, stall, give up | reads what the network machine stored; runs the game |
| Capture and repair | `src/vocap.inc`, `vocrck.inc` | `VOE_RSY`, `VOCRCK`, `VOCRCV` | capture the player's input for tick + 2, press RESET when a repair is armed, sample the checksum | gate; network machine |
| Network machine | `src/vonet.inc` | `VONST`, `VORING`, `VORWAT`, `VORDN`, `VOSEQ` | WRITE, STATUS, READ, CONSUME, FAIL in bounded steps at the end of a frame | FujiNet mailbox |
| Boot bank | `src/vosess.inc`, `vostart.inc`, `voappk.inc` | the socket, role, seeds of the rings | OPEN, HELLO, wait for START, hand over, local play, peer-left screen | relay, through FujiNet |
| Mailbox | `src/fujinet.inc`, `vocore.inc`, `votail.asm` | sequence, acknowledge, reply window | launch, wait, read | FujiNet firmware (outside) |
| Relay (Python, canonical) | `server/vo_relay_server.py` | clients in order of arrival, names, partners, buffers | accept, HELLO, pair, forward, drop, sweep, flush | consoles; lobby |
| Checksum log of the relay | `log_crc` there | checksums by lap and tick | pair and compare | relay |
| Lobby publisher | `LobbyPublisher` there | payload, dirty flag | update, POST, shutdown | relay; FujiNet Lobby |
| Relay (C) | `server/c/src/vo-relay.c`, `lobby.c` | a table of slots, arrival order, names by slot | as the Python | as the Python |
| The game | not in the repository | 128 bytes of RAM | one frame of logic | gate |
| The patched frame | `tools/patches.py`, `src/vogate.inc`, `vokern.asm`, `vostart.inc` | the bank it is in, the simulation's cells | dispatch, audio, gate, logic or stall, kernel bank | gate |
| The build | `tools/patches.py`, `mkbanks.py`, `mktail.py`, `checkbanks.py`, `checkrom_filter.py`, `check_patch.py`, `build.sh` | source lines, listings, the image | patch, split, measure, assemble, filter, audit | assembler, p2bin, checkrom (outside) |
| Judges of the rig | `tools/ramdiff.py`, `playdiff.py`, `emu/play.lua` | two dumps of states | compare, judge a repair | the two consoles' output |

What is hard here. The simulation runs once a frame, the transport in whatever
is left of it, so every interleaving of the two is possible, and the transport
is not locked to the tick. Ticks are bytes that wrap. The rings are four and
eight slots. A console stalls, its peer stalls, either may vanish. A desync has
to be seen, and its repair has to land on the same tick of two machines that
have just disagreed. `PROJECT.json` lists these hazards with the line each one
bites at, and the properties that watch it.

What makes each part correct:

* gate and mixer: both consoles run every tick on the same pair of inputs;
  neither waits for the other for ever; their distance stays within the rings;
* network machine: a record never changes once sent; a slot the gate reads was
  written for that tick; the watermark never goes back;
* repair: armed only by a real difference, lands together, ends;
* end of a match: a console whose peer is gone comes back to the boot bank;
* relay: a match has two consoles that are each other's partner, each gets what
  the other sends, in order, from START to PEER_LEFT, and nothing else;
* checksum log: what it calls a mismatch is two records of one tick;
* lobby: the last thing the Lobby hears is the truth;
* boot bank and mailbox: no request is dropped in silence, no answer, buffer or
  appkey of the past is taken for one of this boot, a match is what START said;
* patched frame: the cells of the simulation change as stock's do, once a tick;
* build: what ships is the stock image with each declared patch whole and in
  place, and nothing is cut off;
* judges: a correct pair passes, and a broken one only once it was repaired.

## 2. Modules

| Module | What it is |
|---|---|
| `VoLockstep` | the core: two consoles, their gates, rings and network machines, and the two FIFO channels between them; properties |
| `VoOneGame` | the promise, abstractly: one script of inputs, two consoles that play it, neither far ahead |
| `VoLockstepInv` | the inductive invariant of `VoLockstep`: `IInv` for agreement, `RepairInv` for repair and progress |
| `VoLockstepProofs`, `VoRepairProofs` | theorems and proofs about `VoLockstep`, from the one and from the other |
| `MCVoLockstep` | symmetry and bounded properties for TLC |
| `VoRelay` | the Python relay: connections, names, matches, buffers; its inductive invariants `RelayInv`, `MatchInv` and properties |
| `VoMatch` | the relay's promise, abstractly: matches and one stream of frames for each console |
| `VoRelayProofs`, `VoMatchProofs` | theorems and proofs about `VoRelay`; about its refinement of `VoMatch` |
| `MCVoRelay` | instances of `VoRelay` for TLC |
| `VoLobby` | the lobby publisher's thread beside the relay's, both ports; its inductive invariant `LobbyInv` |
| `VoCrcLog` | the relay's checksum log, both ports fed the same records; its inductive invariant `LogInv` |
| `MCVoServer` | one instance of these two |
| `VoServerProofs` | theorems and proofs about `VoLobby`, `VoCrcLog` and `MCVoServer` |
| `VoSession` | the boot bank, its two appkeys and its socket, through the cartridge's mailbox; its inductive invariant `SessionInv` |
| `VoSessionProofs` | theorems and proofs about `VoSession` |
| `MCVoSession` | its instance |
| `VoBuild` | the build of the image and its gates; its inductive invariant `BuildInv` |
| `VoBuildProofs` | theorems and proofs about `VoBuild` and `MCVoTools` |
| `VoStock` | the 1977 game, as far as the patches quote it: the abstract specification of a frame |
| `VoFrame` | the patched frame on two consoles; shown to implement `VoStock`; its inductive invariant `FrameInv` |
| `VoFrameProofs` | theorems and proofs about `VoFrame` and the verdicts of `VoJudges` |
| `VoJudges` | the verdicts of ramdiff and playdiff, as operators |
| `MCVoTools` | one instance of `VoBuild` and of `VoFrame` |

The modules of the second half do not depend on the first: `VoLockstep` takes
relay, session and game as what they promise (FIFO channels, the hand-over's
seeds, a function of the inputs), `VoRelay` and `VoSession` show their side of
it, `VoFrame` shows that the patched game is such a function.

### VoLockstep

One action for each kind of frame and for each thing the network machine does:

| Action | Code |
|---|---|
| `MidTick` | a frame whose phase is not 0 (`VONET` to `VOPHI`) |
| `RunTick` | boundary; `Commit` if the last tick ran; gate open; mix; run |
| `Stall` | boundary; gate closed; one more stalled frame |
| `GiveUp` | the counter is already 15: `VOE_LEFT`, back to the boot bank |
| `Write` | `VOSWISS`: the record for tick + 2, a window of three captures and the checksum |
| `Poll` | `VOSSISS` to `VOSRACK`: whole records only, at most fifteen |
| `ConsumeInput`, `ConsumeLeft`, `ConsumeDone` | `VOSCONS`: one record a step, the newest first |
| `Fail` | `VOSFAIL` |
| `Upset` | a cell of one console's game changes from outside, as `make rig-repair` does |
| `Drop` | a connection ends; PEER_LEFT goes behind what was forwarded before |

`Commit` is the block of `voinput.inc` that must be one act: advance the tick,
sample the checksum, capture. The disjuncts of the boundary are the two
branches of `VOE_RAN`.

State. Ticks are integers here and bytes in the code; every index and every
comparison the code makes on a byte goes through `Byte`, `Signed`, `LocalSlot`
and `RemoteSlot`, so a wrap or a ring that is too small shows. A run starts at
tick -1 ($FF) with the watermark at -2 ($FE), as the boot bank seeds them, so
every run crosses the wrap of the byte in its first ticks. A capture is a
token: whose it is, its number among the captures of that console, and whether
RESET is pressed. So two captures of one tick would be two different tokens even if the
player had moved nothing, which is what a test with idle hands cannot see. The
game is the sequence of inputs since the last RESET and the disturbances since;
the checksum tells any two such states apart, so what the model says about
detection is about when checksums are compared, not about the collisions of
eight bits, nor about the cells the checksum does not cover.

`taken`, `log`, `sent` and `upsets` are history: no guard of the code reads them
(the timing bounds below do).

Taken as one step: the frame's work before the network machine and each
transaction with FujiNet. The first is one thread with the network machine and
cannot be interrupted by it. The second takes many frames, and they are there:
between `Write` and `Poll` any number of frames may pass. A `Fail` after `Write`
covers a WRITE answered with an error whose record went out; one that did not go
out is no step. A failed READ that swallowed its bytes is not modelled, it
would be lost data on a TCP stream.

### VoRelay

One thread around a selector. `at` is the client whose frame loop is running, or
`None` at the selector. One action for each thing the thread does:

| Action | Code |
|---|---|
| `Accept`, `Sweep` | `accept`, `sweep` |
| `Recv`, `RecvEnd` | `run`: `recv` brought frames, or the end |
| `OnHello`, `OnJoin`, `SendLobby`, `Forward`, `Ping`, `Bye`, `Unknown`, `Refuse`, `BadLength` | one turn of the loop in `service` and its branch of `handle`, with `try_pair`, `drop` and `lobby_update` inside |
| `ServiceDone` | `service` returns |
| `Flush`, `FlushFail` | `flush`: the socket takes some of the buffer; what is left may be too much; or it fails |

`SayHello`, `SayInput`, `SayExtra` and `HangUp` are the consoles. What they send
waits in `wire` until the relay receives it, so a console's record may still be
on its way when its match has ended. `got` is what the sockets took.

A frame is a record with its kind; a partial frame is one not yet received.
`MAX_TX_BACKLOG` counts frames instead of bytes. A connection is used once, and
the one that comes back is another. The name loop is a choice among the free
variants of a name, and there are always enough of them. The consoles keep to
the protocol in one respect: HELLO is first and once, and BYE, a HELLO that is
refused or a length that is none is the last thing they say. Past that the relay
does what `server/c/README.md` documents as its oddities.

`Matches` maps the relay to `VoMatch`: a console's stream is what its socket took
and what is in its buffer, the matches are the pairs of partners, and a record
is said when the relay handles it. So every buffer, every order of receiving and
flushing and every way to end a connection is shown to make the same streams:
START, the partner's records in order and once each, PEER_LEFT.

### VoLobby

`main` is where the relay's thread is in `update` or `shutdown`, `th` where the
publisher is in `run`. What a thread does under the lock is one step. The two
ports differ in three places and `port` chooses: Python looks at `stop` without
the lock and posts after any wait, whatever ended it; C does both under the lock
and looks again; and in C the pause of a second ends early at any notify. A POST
is handed over, handled, answered; it may be given up on before or after the
Lobby has handled it, and may be handled later (`stray`).

A POST can fail otherwise: an answer that is cut in its body or garbled. C logs it
and goes on. The Python's `post` catches `OSError` only, and these are
`HTTPException`s: `run` ends, and the relay goes on without a publisher
(`AfterFailure`). `CountArrives` promises nothing from there on and says so
(`ThreadDied`); see section 5.

Three things the runs showed. In Python the shutdown's notify can fall between
the look at `stop` and the wait; the join then waits its twelve seconds for a
sleeper, and the offline POST still comes last. The C port looks and waits under
one lock and has not got that gap. And `LastWord` needs that no POST failed and none took
longer than the join.

### VoCrcLog

The two sides of a match report the checksums of their ticks, in any order and
distance the lockstep allows (`Lead`, `Gap`), and say some again. Each side's
map is a sequence in order of insertion, once as Python keeps it and once as the
array of the C port. When one side leaves, another console takes its place; the
survivor keeps its connection with its `lap` and `last_tick`, which `try_pair`
does not clear, and may go on with the old match until it has read START.

A client that always reports second has every entry matched and never runs the
trim, so in C the array does fill and `vo-relay.c:526`, "unreachable", is reached:
the newest entry makes room. `SameVerdict` shows that this changes no verdict.
The Python map of that client just grows, to one entry a tick, until the next pairing.

`ReachAssumption` says two things of the constants. The first record of a match
comes before its ticks wrap (its tick is `VOD`, 2, of 256). And no console is more
records ahead of the other than the relay keeps checksums: lockstep lets it be two
ahead (`VOD`), the relay keeps eight. A bigger lead would push the checksum of a
disagreement out of the map before its partner comes.

### VoSession

A transaction is `Launch`, an answer and one of `AppkeyAnswered`,
`SocketAnswered`, `StartRead`; or `TimesOut`. The cartridge is external: it takes
what was committed when its number is not zero and not the last one answered,
serves it or fails, and publishes the number last; it may die. Nothing of it is
reset with the console; at power-on its number, its buffers and an appkey left open
may be another program's. `punctual` says that it answers, or gives up, before the
console does, which is the reason `vocore.inc:71` gives for its nine seconds;
without it an answer of the last request can be taken for this one's, and the
properties that need it say so. So does `hasty`: RESET pressed on the
"opponent has left" screen while the last transaction of the match is unanswered
makes the new boot use the same number again. (`vosess.inc:471-473` says that the
way back goes through the tail's stub, which deals with the sequence; the code
jumps to `VOBENT`, and nothing deals with it.)

### VoBuild, VoStock, VoFrame, VoJudges

`VoBuild` is `build.sh` from line 192: one action for a step that goes through
and one for a gate that fails. Its input is any combination of a disassembly
with other lines than the one the patches were written on, a patch table, a
region table, netcode in the holes and a tail. A bank has a hole wherever its own
bytes stop and the other bank's begin (`Holes`): it starts at the end label of the
region in front of it (`HoleAt`) and is guarded at the next byte that is the bank's
own (`HoleEnd`), as the three of `vogame.asm` and the two of `vokern.asm` are.
`ShipsThePatch` and its companions
say what the gates together let through. They hold for patches that lie inside a
region and have a byte of it behind them (`PatchesInside`), as all declared ones
do: a patch that straddles a region's edge, or sits at its end and grows, or a
gap in `REGIONS`, passes every gate.

`VoFrame` sends two consoles around their banks; any frame may find the gate
closed. `Game` maps the second one to `VoStock`, and `FollowsStock` is the claim
of `patches.py` that a split build plays exactly like stock: each frame that ran
is one frame of stock, and nothing else touches the cells. The dumps `play.lua`
prints of them go to `VoJudges`; the first console may be broken up to twice.

### Timing

Whether a tick can be lost depends on how long a WRITE/STATUS/READ cycle
takes, and nothing in the code bounds that. The model has two bounds for it:

* `CycleTicks`: a console writes at least once every so many ticks (`Timely`);
* `BurstTicks`: the records one READ brings reach at most so many ticks past
  what was known (`Smooth`).

The passing runs and the theorems about agreement need `BurstTicks <= Window`
(`SmoothArrivals`). It is not a guard of the code and the comments say it is not
needed; the run `burst` shows what happens without it. Nor does lockstep prevent
a gap wider than the window, as `vonet.inc:155-161` says: a console with records
in hand may run Delay + 1 ticks and more past its last WRITE, and a cycle longer
than Window ticks makes its next record skip some.

## 3. Runs

| Run | What it asks | Bounds |
|---|---|---|
| `core` | `LockstepInv`, `Agreement`, `RecordsImmutable`, `SkewBounded`, `NoHoleAtGate`, `NoMutualStall`, `WatermarkMonotone`, `OneGame` (refinement of `VoOneGame`) | Delay 2, Window 3, 10 ticks, so that both rings are overwritten; cycles and bursts of 3; two records in flight to one console until tick 2, one later |
| `repair` | `NoFalseAlarm`, `RepairedTogether`, `ArmedByDisturbance`, with one disturbance or with RESET pressed at any capture | Delay 1, Window 2, 5 ticks, 2 with presses |
| `leave` | `EndsAlone` under fairness, with the guest's connection ending at any moment | Delay 2, Window 3, 4 ticks, two frames a tick, a stall limit of 2, READs of 2 records, a record a tick, no symmetry |
| `pairing` | `MatchInv`, `Mutual`, `NamesTell`, `FirstTwoMeet`, `Matches` (refinement of `VoMatch`) | 3 connections, one record each or two of one, backlog of 2 frames; one console says one frame no ROM says |
| `told` | `ToldInTheEnd` under fairness | 3 connections, 2 at a time, backlog of 1 frame, no symmetry |
| `server` | `ServerInv`; the lobby publisher: `IdleMeansTold`, `LastWord`, `CountArrives`; the checksum log: `OneTick`, `DisagreementSaid`, `SameVerdict` | 3 updates, 2 failed POSTs; a tick byte of 6 values, 2 matches, 9 ticks, consoles a record ahead, gaps of 2, array of 4 |
| `session` | `SessionInv`, `NoSilentDrop`, `AnswerIsOwn`, `KeysAreOwn`, `ClosedBehind`, `MatchAsStarted`, and `SessionGoesOn` under fairness | 2 boots, numbers modulo 4 |
| `tools` | `ToolsInv`; the build: `EveryByteHome`, `ShipsThePatch`, `NothingLost`; the frame: `FollowsStock` (refinement of `VoStock`), `CorrectPairPasses`, `PassMeansRepaired`, `QuickRepairPasses` | an image of 8 bytes in 3 regions, or in the 7 of the real table's shape (the three in front, all of the game bank, are one) with its 3 and 2 holes, up to 2 patches; 6 ticks on two kinds of input, 1 stall, 2 breaks |
| `burst` | a comment refuted: "the hole never reaches the gate" | bursts of 4 ticks |
| `goodbye` | refuted: a clean leave is instant | |
| `press` | refuted: records from before the repair do not arm it again | |
| `join` | refuted: JOIN from a paired console does nothing | 3 connections |

Every run may stop, because its bounds run out or both consoles gave up:
deadlock is not checked. `server` and `tools` each hold two specifications that
share no variable; a behaviour, by `job`, exercises one of them.

Five bounds are constraints of a run and not of a specification. `PairTick`: two
records wait for one console only in the first ticks, where the rings are seeded;
a second lap with one at a time is enough to overwrite them. `OneTrouble` and
`PressTick`: a run has a disturbance or presses, not both, and ends early with
presses. `AskedEarly` and `FewCame`: one console says one frame the ROM does not,
while no more than two have come; with a third one waiting, JOIN does what `join`
shows. `SaidEarly`: a console says a second record only if the others say none,
while no more than two have come and none has left; they may still come, leave and
hang up around the two records on their way.

Delay and Window are the code's own where the rings matter, and 1 and 2 in the
run about repair, whose histories are longer: both satisfy the same
assumptions (`SizesAssumption`) and the theorems hold for all that do.
`FramesPerTick` is 1 but for `leave`: `MidTick` touches nothing the other actions
read. `StallLimit` is small, every value of it being one more frame that changes
nothing else.

In `leave` the bounds leave room for the whole story: the first record is stamped 2
and opens the ticks 0 to 2, so a survivor may stall before any record came, stall
and run by turns, read PEER_LEFT alone or in one READ with an older record (and
consume it first), have the full counter cleared by a tick it could still run, and
count again from nothing at a gate that stays closed; each of these was confirmed to
occur. Only a console that its peer's records carry past tick 4 leaves the model
by its bound. `LeaveSpec` lets the guest's connection end and not the host's, which
would be the same with the roles exchanged. Symmetry swaps the two consoles; only `Mix` tells the roles apart
and it does so by name, and no run with a liveness property uses it.

The relay's runs have three connections because a survivor's second match, a
queue-jumper and a second match over the first all need three, and two matches
side by side share nothing but the name table and the search for an idle
client. All consoles ask for one name, so that every name but the first is
varied.

A tick byte of six values wraps in the middle of a first match and again in the
second; four numbers of a mailbox wrap, and skip zero, within one boot; eight
bytes hold a line with a label and two instructions, the same text in three
places, a table with a banned byte and an edge everywhere. The tools' tables are
the ones a developer may get wrong: lines added, lost, joined or split, a patch
too short, too long or on several lines.

Fairness of `leave`. `Frame` is weakly fair: the video frame comes round
whatever else happens. `NetStep` is weakly fair: every frame ends with steps of
the network machine, and the machine moves on when FujiNet answers, whatever it
answers. A FujiNet that never answers again leaves the machine in its wait
state; then the frames alone fill the stall counter, and the fairness of
`NetStep` is not what ends the match.

Fairness of `told`. `Service` is weakly fair: nothing stops the thread inside a
frame loop. `Receive` and `Send` are strongly fair for each client: the selector
is level-triggered and hands out every ready socket in every round, and the loop
flushes every client at the end of each, but while another client is served
they are not enabled. Fairness of `Send` says also that the console's side of the
socket takes frames in the end, which is the console's part. Nothing is assumed
of the consoles: they may stop talking and never hang up.

Fairness of `server` (`LobbyFairness`). Both threads are scheduled, the clock
goes on (the keepalive comes), and the Lobby handles and answers what it is sent,
unless a POST fails, which it does at most `MaxFailures` times. No fairness is asked
of a thread that has ended.

Fairness of `session` (`SessionFairness`). The 6507 runs and counts its polls
down, and the cartridge takes and answers while it is alive. Nothing is assumed
of the relay or the other player, so the wait for START may last for ever, and
`SessionGoesOn` says only that a frame, or the cartridge's death, ends it. Neither
`MatchLeft`, nor the RESET switch, nor `Die` is fair.

## 4. Proofs

`VoLockstepProofs`, for every value of the constants the named assumptions
allow: any delay and window that fit the rings, any number of ticks, records in
flight, disturbances, any stall limit and batch.

* `TypeCorrect`: `Spec => []TypeOK`, with no timing assumption.
* Under `SmoothArrivals`: `Invariance` (`IInv`), and from it `ConsolesAgree`,
  `NoHole`, `RecordsNeverChange`, `ConsolesStayClose`, `WatermarkNeverBack` and
  `ImplementsOneGame`.

Agreement alone is not inductive: that two logs are equal says nothing of the
next tick. `IInv` follows a capture along its way, and has one conjunct for each
place it can be: `LocalHeld` (the local ring holds tick .. tick + Delay),
`RecordsTrue` (every window in flight is what its sender captured), `RingHeld`
(the remote ring holds every tick due and known), `LogTrue` (every tick ran on
the two captures that belong to it). The rest is arithmetic that keeps these
true: `Gated` and `NotAhead` bound the distance of the consoles, which keeps the
rings long enough and `Signed` exact; `InOrder` and `Contiguous` say that the
records of one READ lie within a window of the watermark, so that taking them
newest first leaves no hole behind. `Contiguous` is where `SmoothArrivals` is
needed. Each conjunct is preserved by a lemma per action that can disturb it.

`VoRelayProofs`, for any finite sets of connections and names, any addresses and
limits, and consoles that never send JOIN (`"JOIN" \notin Extra`, which is what
`join` shows to be needed): `RelayInvariance` (`IInv`), `RelayTypes` and
`MatchesHaveTwoEnds` (`Mutual`). That partners point at each other is not inductive
by itself, because `try_pair` does not ask whether the client is idle: it is
because HELLO is the first frame of a connection, and a client with no name has
no partner. `IInv` says so of the frames in flight (`HelloFirst`, `NewIsSilent`),
that a dropped client has no frames left to be handled (`LastLast`, `OnlyServed`),
and that a new connection has no past (`Unborn`).

From `RelayInv`, which adds what the names and the streams say: `NamesAndMeetings`,
`NamesAreTold` (`NamesTell`) and `NobodyWaitsBeside` (`FirstTwoMeet`). That at
most one newcomer waits is not inductive either: a client could be idle and not
have met, or be in a match and not have been told. `PairedHaveMet` excludes the
second and `OneWaits` says the first without counting.

`VoMatchProofs`, under the same assumption: `MatchInvariance` (`MatchInv`) and
`ImplementsMatch` (`Matches`). The mapping counts: what a console has said, for
`VoMatch`, is what it sent but for the records still in its socket or in the
relay's buffer. So the invariant it needs is about queues: the record at place i
is the one whose number is the last sent minus the records behind it (`Numbered`).
With it, the record the relay forwards is the next one `VoMatch` expects, and the
records a dropped console left unread stay unsaid. Each action is then an `Enter`,
`Say`, `Ask` or `Leave`, or a stutter: moving frames from the wire to a buffer or
from a buffer to the console leaves queue and stream as they are, whatever the
split.

`VoRepairProofs`, under `SmoothArrivals` again: `RepairInvariance` and
`LockstepInvariance`, and from them `NeverFalselyArmed` (`NoFalseAlarm`),
`ArmedByCause` (`ArmedByDisturbance`), `RepairedAlike` (`RepairedTogether`) and
`GatesNeverLock` (`NoMutualStall`). The game is a function of the inputs since the
last RESET, so the invariant has to tie three things to a log: the state a console is in, the
checksum it last sampled, and every checksum on its way (`StatesTrue`). Two
undisturbed states of the same tick are then states of one script and equal, so
neither a false alarm nor a repair that leaves them apart is possible.
`GatesNeverLock` needs that the newest record of a console is on its way or has
moved the peer's watermark (`Delivered`).

`VoServerProofs`, of the lobby publisher, for any number of updates, players and
failed POSTs:
`LobbyInvariance`, `IdleIsTold` (`IdleMeansTold`) and `OfflineIsLast` (`LastWord`).
The invariant says for every place the two threads can be at what nobody has told
the Lobby yet: it is marked dirty, or in the body that is being POSTed (`Tells`).

And of the checksum log, for any byte, array, gaps and leads that `LogAssumption` and
`ReachAssumption` allow: `LogInvariance`, `LapsMeet` (`OneTick`),
`NoDisagreementLost` (`DisagreementSaid`), `PortsAgree` (`SameVerdict`), and
`ServerInvariance` (`ServerInv`).
A lap is right when `lap * TickMod + lastTick` is the tick; what is inductive is
weaker, because a survivor keeps its lap into its next match: on that side the
count is right or too high for good (`Counted`), and only where it is right
are keys ticks (`Filed`). `Awaited` follows the first of two disagreeing checksums:
it is in the map until the other console has come past its tick, since the
trim takes the lowest keys and no console is `Keep` records ahead.
`SameVerdict` compares two maps that are trimmed differently, and neither contains
the other once a console has been in two matches. `ArrayInv` says how they differ:
the array is filed as the map is, and what it has at `Keep` keys or beyond was
compared already (`Stored`); a disagreement that waits in the map waits in the
array too (`Settled`); and while a survivor is unheard in its new match, or its
laps are too high, both ports hold the same entries of it, so that whoever meets
one is a mismatch to both (`Alike`).

`VoSessionProofs`, for any numbering, delays, number of boots, and a cartridge
that may die or drop what it was asked: `SessionInvariance` (`SessionInv`),
`NothingDropped`, `AnswersAreOwn`, `BuffersAreOwn`, `KeysAreClosed` and
`MatchIsStarted`, the five safety properties of `session`. `Numbers` holds whatever
the cartridge does; `InStep`, `OpenKey` and `Paths` need it to be punctual and
say, step by step, which request it has, which appkey is open and which buffer is
fresh, also after a hasty RESET, when only the first request can meet an answer of
the match before.

`VoFrameProofs`, for any players, ticks and stalls: `FrameInvariance`,
`PlaysAsStock` (`FollowsStock`, the refinement of `VoStock`), `JudgesPassThePair`
(`CorrectPairPasses`), `PassTellsOfRepair` (`PassMeansRepaired`) and
`QuickRepairIsPassed` (`QuickRepairPasses`). `FrameInv` says of every line a console
printed that it is stock's frame of the line before, and what the RAM holds in
between. A run of a console nobody broke is then the run stock prints, by induction
over its ticks (with the smallest counterexample, since it is a statement about a
recursive function). Of a pair that was broken, the same induction gives how far
apart it is: a nudge adds one to the score that a frame leaves alone and a RESET
clears, so at a tick two consoles differ exactly when a break before it was not
repaired before it. The score is counted modulo 3, which is why `JudgeAssumption`
allows two breaks; a third would bring the two together by itself. The ticks
playdiff calls bad are those, and its first episode is the one that begins at the
earliest of them and ends before the first gap: so the length it prints is the
repair's.

`VoBuildProofs`, for any disassembly, patches, regions, holes and tails:
`BuildInvariance`, `ToolsInvariance` (`ToolsInv`, with `FrameInv`), `BytesStayHome`
(`EveryByteHome`), `NothingIsLost` (`NothingLost`) and `PatchesShipWhole`
(`ShipsThePatch`). They assume of a disassembler that it prints the bytes it read,
and of the region table that it tiles the image and leaves no byte out, as that of
`mkbanks.py:39-67` does (`TreeAssumption`); how many regions there are, whose and
with which edges, and so how many holes, is open. `BuildInv` says what each gate
that was passed still says at the stages behind it (`Gates`), and that the patches
that are through are the only difference to the disassembly (`PutThrough`). The
rest follows in four steps:

* what flattening a sequence of lines does, by induction over its prefixes: where
  each line begins and which bytes of the image it is;
* with patches through that keep the number of bytes (`LikeForLike`), both sources
  are at the same address outside the slots of a patch, and behind it inside them
  (`Levels`); so the image is the old one with each patch over its own bytes
  (`BytesPut`);
* so a bucket whose edges are between lines and not amid a patch has exactly the
  bytes between its edges (`FiledRight`), the pieces of a bank, regions and netcode,
  follow one another without overlap because of that and the assembler's guards
  (`OneBehind`), and whichever row covers an address is the one that is kept
  (`RowsKept`). Without a patch this is `BytesStayHome`;
* with patches, nothing the build looks at keeps an edge from the middle of a patch,
  or a patch from another place with the same text. `NothingIsLost` and
  `PatchesShipWhole` are therefore about tables that are right on the author's own
  disassembly (`WellDeclared`): patches share no line, each keeps its length and
  stands where it is declared, edges are between lines, and where the image has a
  patch's old bytes once more it is either where a patch of that length belongs, as
  with the pairs of input sites that have the same text, or away from every declared
  range and every edge. Nothing is asked of the disassembly at hand. Then no patch
  lands amid an edge (`NeverCut`), and in an image that ships each has landed where
  it is declared (`Landed`): the audit finds a change in every declared range, so
  some patch lands in each; had one landed early, the one in its place would be from
  a later line and early as well, and so on past the last, and the other way round
  for late. Today's patched source then has the bytes of the author's (`SameBytes`).

Of the 664 pairs of a patch and a region table in the run, 230 are `WellDeclared`,
126 with one patch and 72 with two, and ship on other disassemblies than the
author's. Neither property holds of every other table: a longer patch in the middle of
equal bytes moves them to where they were, and `a a a` with the first `a` replaced is
audited the same with the second one replaced if both are in the range.

Model-checked only:

* of the build, `ShipsThePatch` and `NothingLost` of tables that are not
  `WellDeclared`, patches too short or too long among them: that the audit sees
  whatever went wrong then rests on bytes that differ, and the instance has bytes
  that tell its lines apart;
* liveness: `ToldInTheEnd`, `EndsAlone`, `CountArrives` and `SessionGoesOn`;
* what `burst`, `goodbye`, `press` and `join` refute.

## 5. Where the code and its comments part

Four runs refute a sentence of the comments or of a test (`PROJECT.json`,
`findings`). `join` needs a console that sends JOIN, which no ROM of this
repository does. None of the others needs anything but slow or bursty transport, or
two consoles at an unlucky distance.

Further places where a sentence of the repository is not what the code does, seen
in the modelling and without a run of their own:

* `server/vo_relay_server.py:503` says "the keepalive re-POST is what keeps the room
  honest", but `post` catches `OSError` only (552-556). An answer cut in its body
  (`http.client.IncompleteRead`) or garbled (`BadStatusLine`) is an `HTTPException`:
  it leaves `run` (538-546) and ends the publisher thread, and the relay goes on
  with no count and no keepalive POSTed any more. The model has the step, and
  `CountArrives` without its `ThreadDied` is false of it. The C port logs any such
  answer and goes on (`server/c/src/lobby.c:253-256`, `312-316`);
* `server/c/src/vo-relay.c:526` calls the full array unreachable and `:172` says
  that the Python keeps at most nine entries (see `VoCrcLog`);
* `src/vosess.inc:337-339` counts "an opponent who never turned up" among the ways
  to local play; the wait for START (181-212) has no such end;
* `src/vosess.inc:471-473`, the way back (see `VoSession`);
* `tools/patches.py:326`, `check_landings`, which makes a wrong landing address "a
  build error", is called by nothing;
* `tools/mktail.py:36` passes over anything that starts at `$1FFC`, vector or not;
* the stall counter counts frames and not ticks, so its limit is a time; the
  variation in START is never applied.

## 6. Not modelled, and the plan

Not modelled: text display (no state the rest reads); `dasm2as` (a syntax
conversion that `verify-org` checks byte for byte), `recon` and `zpmap` (reports
nothing reads), the Makefile's dependencies; the latency probe and its server (a
measuring instrument); `server_diff`, `vo_client_sim`, `test_lobby_pub` and the
rig's scripts (test drivers, read for what they claim); the HTTP client and JSON
of `lobby.c`; the table of slots of the C relay, which claims to follow the Python
frame for frame (it does not after a JOIN from a paired console: the old partner's
index then outlives the slot's owner, `vo-relay.c:1078-1082`); the wire bytes VOCAP
builds and VOMIX takes apart; the cells of the 1977 game but those a patch touches.

Taken apart and not composed: a console's boot bank with the relay (the old
socket of a console that is back in the boot bank still counts as an idle player,
and a survivor's late records go to its new partner); the network machine's
micro-steps with the mailbox.

That a desync is noticed in the end is no property here: checksums are compared
only when a record's tick is the console's own, and nothing makes the two line
up. Small things left out likewise: a READ that fails after it took bytes from the
socket, a second HELLO on one connection, frames behind a BYE, more clients of one
name than there are variants, a second SIGTERM during the shutdown.

What stays without a proof are the four liveness properties and the tables above;
every other property of the passing runs is a theorem. The next things worth
modelling are the two compositions named above, and a property of them that a desync
is noticed, which the code would first have to promise.
