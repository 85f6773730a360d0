# A TLA+ verification of Fuse

Fuse is a transport protocol on UDP.  This directory models it in TLA+: the bulk
transfer of `fuse/transfer.hpp`, from the bytes of a datagram and the ring bitmap
of one receive window to the sessions of a whole call; the socket-style SDK of
`fuse/sdk.h` and the HTTP helper on top of it; and the multiplexed transfer with
its SETUP handshake and worker pool.  TLC checks every module on small instances;
TLAPS proves the main safety properties of the receive window, of a lane, of the
ring between threads, of the worker pool, of path validation and of block sizing
for every value of their constants.

## The system and its parts

A bulk transfer splits a buffer or file over *lanes*.  Each lane has a sender
thread (`send_lane`) and a receiver thread (`recv_lane`), which share nothing
but datagrams; the lanes of one call share a stop flag and, on the receiving
side, the writer threads and the output.  Beside it are a socket-style SDK, a
multiplexed transfer over a worker pool, and the SETUP handshake.

| part | state | operations | what makes it hard | module |
|---|---|---|---|---|
| receive window (`receiver.cpp`) | base, ring of bits, gap timers | `on_receive`, `build_ack`, `collect_nacks` | ring positions are reused every lap; words are stitched | `ReceiverWindow` implements `AckWindow` |
| registry (`registry.cpp`) | slots by `seq % window` | `store`, `lookup`, `confirm`, `apply_ack` | slots are overwritten unseen; ACKs reordered | in `Lane` |
| lane data plane (`transfer.cpp`) | sender base, next, bytes acked; receiver window, final block | send, ACK, NACK, RTO, finish, linger | loss, duplication, reordering, two generals | `Lane` |
| receive pipeline (`transfer.cpp`) | rings, dispatch marks, verdicts | dispatch, take a batch, write, report, collect | three kinds of threads, partial failures | `RxPipeline` |
| SPSC ring (`spsc_ring.hpp`) | two counters, two cached copies | `writable`, `commit`, `readable`, `consume` | stale caches, index wrap | `SpscRing` implements `Fifo` |
| file sink (`transfer.cpp`) | `.part` file, trailer, chunk counters | `open`, `prepare`, `write`, `checkpoint`, `finish` | crashes and failed calls between any two steps | `FileSink` |
| lane sessions (`transfer.cpp`) | handshake, closes, stop flags, digest | start, retry, abort, cancel, end | lanes racing for one output; stale and lost closes | `LaneSession` |
| SDK data path (`sdk.cpp`) | registry, window, one message under reassembly, inbox, close flags | `fuse_send`, `fuse_recv`, `fuse_close`, the pump | callers and pump share one mutex and wait on each other; messages share one sequence space | `Sdk` |
| SDK connection setup (`sdk.cpp`) | ring of recent handshakes | `fuse_connect`, `fuse_accept` | HELLO is retried, HELLO-ACK is not | `SdkConnect` |
| send plan (`transfer.cpp`) | lanes, ranges still missing, parts of the answer, next block | shard, `missing`, `coarsen_ranges`, `encode_resume_answer`, cut, seal, resend | parts in any order, failed seals, byte-exact cuts | `SendPlan` |
| block size (`transfer.cpp`) | size, ceiling, clean counters | grow, fall back, probe again | five counters that must agree; a path that drops silently | `BlockSize` |
| congestion (`congestion.hpp`) | window, slow start, streak, backoff | `poll`, `on_loss`, `on_timeout`, `on_progress` | several losses and epochs between two polls | `Congestion` |
| path validation (`transfer.cpp`) | candidate, challenge, timer | `want_probe`, `validated` | one candidate slot, late answers, a peer that moves | `PathValidation` |
| reassembly (`reassembly.cpp`) | two rings | `on_block`, ordered and not | ring positions are reused | `Reassembly` |
| codecs (`control.cpp`, `block.cpp`, `wire.hpp`) | none | the `encode_`/`decode_` pairs, extensions, version mismatch | cut datagrams, counts, other versions | `Wire` |
| SETUP (`setup.cpp`) | initiator and responder | `on_datagram`, `on_timeout` | lost FINACKs, replays of an earlier handshake | `Setup` |
| multiplexed transfer (`mux_transfer.cpp`) | per-stream registry, backlog with marks, window | `try_send_one`, `dispatch_incoming`, `try_service_one`, `run` | any worker serves any stream; datagrams of earlier transfers | `Mux` |
| worker pool (`orchestrator.cpp`, `mux_transfer.cpp`) | workers, drain flags, ticker, main thread | `start`, `tick`, `stop`, `run_worker` | a worker leaves the pool while the pool is stopped | `WorkerPool` |
| HTTP (`http.cpp`) | connections, threads | `fuse_http_fetch`, `fuse_http_serve` | texts built and parsed by hand, fixed buffers | `Http` |

Correctness, in a sentence each: the window acknowledges exactly what it
accepted; what a sender believes delivered is on the receiver's disk; no block
is written twice or accepted unwritten; a ring is a queue; a resume trailer
claims only what a crash preserves, and the final path is whole; a call starts
on a prepared output, reports the true cause of its end, and returns; the blocks
of a session carry exactly the bytes the receiver lacks, each nonce sealing one
block; a failed size rests, and a run of timeouts halves the window once; a peer
that moved is found, and no stale address is adopted; a datagram decodes to what
was encoded or to nothing; SDK messages arrive whole and in order until a send
times out, and closing ends every call; a handshake completes only with its initiator; a
multiplexed call that says Ok moved every stream (but for one case on the receiver's
side, the run `mux_ok`), its worker pool gone before its results are read.

What is not modelled, and why, is the last section.

## Modules

How they fit together: `Lane` uses the *abstract* receive window, which
`ReceiverWindow` is shown to implement, and treats the writer threads as one
set; `RxPipeline` refines that part into threads over queues, which `SpscRing`
implements; `LaneSession` takes a lane's data as delivered in one step, which is
what `Lane` justifies; `FileSink` is the disk that `Lane` and `RxPipeline` write
to; `BlockSize`, `Congestion` and `SendPlan` say which block `Lane` sends next and
when it may, which `Lane` leaves open; `WorkerPool` has the threads whose tasks are
the steps of `Mux`; `Wire` has the bytes of the datagrams that are records elsewhere;
`Http` uses the SDK as a connection that carries one message each way.

**`AckWindow`, `ReceiverWindow`.**  `AckWindow` is the promise: a set of accepted
sequence numbers.  `ReceiverWindow` has the fields of `ReceiverStream`; one
action per public call (`Receive`, with one disjunct per early return,
`BuildAck`, `CollectNacks`) and a clock.  `RelativeBit` is `relative_word`, bit
by bit, with its stitching and trimming.

**`Lane`.**  The sender's loop is split at its natural steps (`SendBlock`,
`AckArrives`, `NackArrives`, `Rto`, `Finish`), the receiver's likewise
(`DataArrives`, `Collect`, `SendAck`, `SendNack`, `FinArrives`, `Leave`), plus the
writers (`Write`) and the network, which keeps, repeats or loses every datagram.
A block is its number and its LastBlock flag and counts as one unit of
`acked_bytes`.  The congestion and flow-control limits are any number of blocks
between `MinInFlight` and the window.

**`RxPipeline`.**  The reader's `Dispatch` and `Collect`, and per channel the
consumer's `TakeBatch`, `WriteRun`, `CommitBatch`, `ConsumeBatch`, in the order of
`drain_channel`.

**`SpscRing`, `Fifo`.**  Every load, store and slot access is a step; counters
wrap at `CounterMod`.

**`FileSink`.**  A page cache and a disk below `.part`, the trailer behind the
data, and every system call a step that may fail (`PrepareFails`, `PwritevFails` and
the second disjuncts), with a kill or a machine crash in between.  Versions of the source file with equal identity stand for an
edit that `file_identity` does not see.

**`LaneSession`.**  Per lane, the handshake (`SendStart`, `StartRefused`,
`ClaimOutput`, `PrepareOutput`, `StartLane`, `StartAgain`, `HandshakeReply`,
`HandshakeClose`), the exits of both loops with what each tells its peer and its
siblings, and the digest exchange.  Keys and protocol versions may agree or
differ; closes of an earlier transfer are in the network from the start.

**`Sdk`.**  One direction of a connection: threads in `fuse_send` (`SendStarts`,
`TakeTurn` for `send_busy`, `SendBlock`, then `SendOk`, `SendClosed` or
`SendTimesOut`), the pumps of both ends (`AckArrives`, `NackArrives`, `Rto`;
`DataArrives` with `HandleData` for `handle_data_locked`, `SendNack`,
`ByeArrives`), a thread in `fuse_recv`, and `fuse_close` at either end in its three
steps.  Each step is what one thread does under the connection's mutex.  A block
carries one unit, so that a mixed-up buffer shows.  Datagrams to an end whose
pump has stopped are dropped at once.

**`SdkConnect`.**  Calls of `fuse_connect` and the listener with its ring.

**`Setup`, `Mux`.**  `Setup` has both handshake machines as the multiplexed
transfer drives them; `Mux` extends it with the streams, from `build_streams` to
the results of both calls.  A datagram once sent may arrive at any time and any
number of times.  The network starts with datagrams of an earlier transfer on the
same ports, whose streams had sizes of their own: the handshake's DATA and FINACK,
StreamStarts, ACKs and NACKs.  As in the code, the receiver takes a stream's size from
the first StreamStart it gets, copies a block only if it lies in the buffer of that
size, and compares what it copied with that size in the end (`StartArrives`, `Copied`,
`ReceiverReturns`).  Data blocks of the earlier transfer are taken to be gone, since a
block names no session and the code has no way to tell them apart.

**`SendPlan`.**  A file of any size up to a bound is split over lanes (`Shard`,
`LaneBase`, `LaneBytes`); a partial copy misses any set of chunks; `Coarsened` merges
the closest ranges until few enough remain, `Part` cuts the answer into datagrams.
The sender takes an Ack and parts in any order (`StartAcked`, `PartArrives`), checks
the whole (`HoldTogether`, else `WholeLane`), and cuts blocks (`CutBlock`) of changing
sizes, with sealing that may fail, and seals stored ones again (`ResendBlock`).

**`BlockSize`.**  One iteration of `send_lane`'s loop after its ACKs (`Iterate`, with
`OnLoss` and `OnClean`), over the unconfirmed blocks with the sizes they were cut
with.  A NACK needs a block that arrived above a missing one, as in `collect_nacks`.

**`Congestion`.**  The controller as the loops drive it; a poll applies one decision
for each round trip that has passed.

**`PathValidation`.**  One end of a lane and a peer whose address changes; the same
code runs on both sides.

**`WorkerPool`.**  The worker threads, the ticker and the main thread; a critical
section is one step, a join waits for its thread.

**`Reassembly`.**  `on_block` as one action per case (`OnUnordered`, `OnEarly`,
`OnExpected`), every block at any time and any number of times.

**`Wire`.**  A message type is the widths of its fields, which of them counts the
items behind, and the checks of its decoder.  A message is encoded, cut short or
followed by other bytes, and given to every decoder of a peer of either version.

**`Http`.**  Texts are sequences of characters of which only CR, LF, the space and the
protocol version matter.  `StatusLine` is the `snprintf` into `status_line`.

Each module also holds the wrong variants of definitions that the mutation
runs put in their place: they show that every property would notice such a bug.
Its type invariant, where there is one, is part of the inductive invariant of the
proofs; the runs check the properties that say more.

## Runs

Three runs put machines that share nothing side by side, so that one search covers
them: a variable `inUse`, chosen at the start, names the machine that takes every
step, and the others rest in one initial state.  A behaviour of such a run is a
behaviour of one machine; its properties are those of the machines, and a liveness
property is stated for the machine in use, under that machine's fairness.

| run | instance | checks |
|---|---|---|
| `lane_parts` | receive window: ring of 2 words of 2 bits, all of it window, 11 sequence numbers (two laps), 4 clock ticks | `RingInWindow`, `GapTimers`, refinement of `AckWindow` (`ImplementsAckWindow`) |
| | SPSC ring: 4 slots, counters wrapping at 8, 2 values | `NoSlotShared`, refinement of `Fifo` (`ImplementsFifo`) |
| | receive pipeline: 4 blocks, window 3, a writer and the retransmission thread, rings of 2 and 1 | `WrittenOnce`, `MarksExact`, `ReportsFit`, `BlocksInUseReported` |
| | reassembly: 7 blocks, a ring of 3, ordered or not | `ReassemblyExact` |
| | send plan: files of up to 7 bytes, 1 to 3 lanes, any partial copy, 2 ranges in answers of 1 range each, blocks of 1 or 3 bytes, one failed seal | `EveryByteOnce`, `NonceSealsOneBlock` |
| | block size: sizes 1 to 4, clean stretches of 2 to 8, 2 blocks in flight | `FailedSizeRests` |
| | congestion: window up to 9, backoff up to 3, up to 3 round trips between polls | `OneHalvingPerRun` |
| | codecs: 11 message types, 2 versions, up to 2 items or extensions, every cut | `DecodedAsSent` |
| `lane` | lane: 4 blocks, window 3 (slots are reused), one writer-ring slot, one block per timeout | `RegistryHoldsUnacked`, `BelievedIsOnDisk`, `AckedOnce`, `OkMeansWritten` |
| | file sink: 3 blocks in 2 chunks, 4 source versions, 2 sessions, 2 failures | `TrailerHonest`, `PathWhole`, `OkIsThisFile` |
| `lane_completes` | lane: 3 blocks, window 2, fair | `LaneInUseCompletes` |
| | worker pool: 1 to 3 workers, 4 threads ever started | `SingleThreadedTail`, `PoolInUseStops` |
| | path validation: 3 addresses, 2 moves, 6 challenges | `AdoptedWasThere`, `PeerInUseIsFound` |
| | SPSC ring: 2 slots, counters wrapping at 4 | `RingInUseFlows` |
| `lane_session` | 2 lanes, keyed or not, alike or different peers, resumed or not | `OutputReadyFirst`, `PeerBlamedRightly`, `ResumedHasDigest`, `CallsReturn` |
| `told_sender` | the same, one claim | `ToldSenderStops`, which the code does not satisfy |
| `sdk` | 2 sending threads, a message of 2 blocks and an empty one, window 2, an inbox that one message fills, one end closes | `ArrivalsInOrder`, `OkHasArrivedUntilTimeout`, `NothingLeftAtClose`, `CloseReturns` |
| `sdk_ok` | the same, neither end closes, one claim | `OkHasArrived`, which the code does not satisfy |
| `sdk_connect` | 2 calls, one with another key, a ring that remembers both | `RetryIsAnswered`, which the code does not satisfy |
| `mux` | 2 streams, of 3 blocks and empty, window 2, one retry, 3 nonces; streams of 0, 1 or 4 blocks before | `AgreedWithInitiator`, `OkIsComplete`, `MarkedIsQueued`, `BaseResident` |
| `mux_ok` | the same, one claim | `ReceivedIsComplete`, which the code does not satisfy |
| `path_limit` | block sizes 1 to 4 on a path that carries 2 | `LostSizeLowersCeiling`, which the code does not satisfy |
| `http` | 2 clients, reasons up to 5 characters, a status line of 9 | `AnswerArrivesAsGiven`, which the code does not satisfy |

The bounds make the interesting cases happen: more blocks than ring positions,
so that every slot is reused; a window larger than the writer ring, so that it
fills; counters that wrap; more missing ranges than an answer may hold, and more
parts than one; room for two growth steps and two doublings of the clean stretch;
a late answer to each of several challenges; earlier streams that were empty, shorter
and longer; a second session with a trailer from
the first; two lanes, so that each exit of one meets each state of the other.  A transfer, a
session or a lane may end, so most runs do not check for deadlock; that they end
*well* is the liveness properties.  Windows are scaled down with everything else:
that of `mux` stands for a negotiated window of at least 4 (below that the bounds
of `std::clamp` in `try_send_one` cross, which is listed as a hazard).

Six runs document a disagreement.

`told_sender`: a comment in `recv_lane`
(`transfer.cpp:1017`) says that its early exits tell the sender "so it stops at
once rather than retransmitting into a closed port until its own timeout"; the
sender's handshake loop (`transfer.cpp:1547`) acts on no close but AuthFailed, so a
sender whose Ack was lost ignores the abort and times out.

`sdk_ok`: `sdk.h:26` says that a successful send means the message arrived.  After
a `fuse_send` that timed out, whose blocks stay in flight, a block of the next
message can arrive before the earlier message is whole and overwrite its
`asm_end_seq` (`sdk.cpp:375`): one message is lost although its `fuse_send` returns
`FUSE_OK`.  `sdk` shows that this promise, and that of whole messages in order,
hold until a `fuse_send` times out.

`sdk_connect`: a comment (`sdk.cpp:470`) says that a HELLO retry is answered again;
the code does nothing there, and `fuse_accept` drops the retry as a duplicate
(`sdk.cpp:711`), so that one lost HELLO-ACK makes the connect time out.

`mux_ok`: `mux_transfer.hpp:72` says that `receive_multiplexed` receives one
multiplexed transfer and blocks "until complete or failed".  The first StreamStart of a
stream sets its size, of whichever transfer it is (`mux_transfer.cpp:748`, `766`), and
the real one is then ignored.  If it is an earlier one that names no bytes, nothing
has to arrive for `written == shard_bytes` (`mux_transfer.cpp:931`): after the stall the
call returns Ok without the stream.  This is the only way: `OkIsComplete` says that
otherwise Ok means whole on the receiver's side too.  A leftover StreamStart that names
some bytes leads to Timeout or Incomplete, because the sender sends no DATA before its
own nonce was acknowledged; and the sender's Ok always means whole.

`path_limit`: a comment (`transfer.cpp:1663`) says that a loss right after a growth
step makes the previous size a ceiling, so that the size settles "on a path that
fragments or drops large datagrams".  Only a NACK lowers the ceiling
(`transfer.cpp:2002`).  When all blocks in flight have the size that is dropped,
nothing arrives that could show a gap, and the timeout (`transfer.cpp:1955`) resends
the stored blocks at that size: the lane stays there until it gives up.

`http`: `http.h:108` tells a handler to fill the response "to send it"; the status
line is formatted into 64 bytes (`http.cpp:282`), so that a longer reason phrase
loses its end and the line break, and the client takes the first header for a part
of the reason or finds no end of the headers.  With room for every reason the
property holds on the same instance.

`PeerBlamedRightly` is about receivers with a pre-shared key.  Without one, a
lane that has no session yet believes any abort (`transfer.cpp:1252`), a leftover
of an earlier transfer included, and `stop_all` then ends its siblings.

## Fairness

* `Lane`: both loops poll without blocking, so a step whose condition persists is
  taken (weak fairness): sending below the least limit, the timeout, the writers,
  ACKing what was heard.  Of the network only that a datagram sent again and
  again arrives at some time (strong fairness of arrivals), and that one of the
  eight parting ACKs does (`BurstSurvives`): if all are lost the sender can only
  time out, which no protocol of this shape avoids.
* `RxPipeline`: the threads keep running (`BlocksInUseReported`).
* `SpscRing`: both threads keep asking.
* `WorkerPool`: every thread gets its turn, a task ends (its socket reads have a
  timeout), and the deadline ends the main loop at the latest.
* `PathValidation`: the peer keeps talking, 50 ms pass, and a datagram sent again and
  again from or to where the peer is arrives at some time.
* `BlockSize` (only for `path_limit`, so that the violation is not a lane that merely
  stops): the loop runs, sends while it may, and a block the path carries arrives.
* `LaneSession`: loops poll their flags; the handshake and the digest exchange
  have absolute deadlines; the idle timeouts are sure to fire only when the
  other end of the lane is gone.  No datagram is sure to arrive.
* `Sdk`: threads keep running: a call that can go on, or whose wait is over,
  does, and so does `fuse_close`.  Nothing is assumed of the network, the pumps or
  the calls' own timeouts, so `CloseReturns` covers waits without a timeout.
* `SdkConnect`: the call keeps sending and the application keeps accepting; a
  datagram sent again and again arrives.
* `Setup`, `Mux`: safety only.

## Proofs

Eight modules hold the proofs.  Each theorem is about the specification the runs
check, for every value of its constants that satisfies the `ASSUME` of its module
(sizes are natural numbers, positive where the code divides by them; the counters of
the SPSC ring wrap at a multiple of its capacity; a hole in a file is no version of
it).  In every case the property itself is not inductive; the invariant named here is
what it takes, and TLC checked it on the run's instance before it was proved.

`RingLemmas` has the arithmetic of positions modulo the ring size, the least and
greatest member of a set of numbers, from which the other modules get induction, and
the pigeonhole principle.

`RingProofs` is about the rings of a lane.

* `ReceiverWindow`, for every ring, word and window size and any arriving sequence
  numbers: `RingInWindow` is inductive with the type invariant (`RingNeverAliases`),
  the stitched word is the ring read from the base on (`RelativeBitCorrect`) and hence
  the class implements `AckWindow` (`RingImplementsWindow`); `GapTimers` holds
  (`GapsAreTimed`), inductive relative to the ring invariant.
* `SpscRing`, for every capacity and counter width: `NoSlotShared`
  (`RingNoSlotShared`).  `CountersInOrder` states the order of the counters through
  wrapped distances: from the writer's copy of the head over the head and the reader's
  copy of the tail to the tail, at most one capacity in all, with what either thread
  may still touch inside it.  `CopyIsCurrent` adds that what the reader has copied out
  is still what the ring holds from the head on; with it the ring implements `Fifo`
  (`RingImplementsFifo`): `commit` is a put, `consume` a take, all else a stutter.
* `Reassembly`, for every stream, ring and window, ordered or not: `ReassemblyExact`
  (`ReassemblyIsExact`).  `ReasmInv` says which block each position of the rings stands
  for: a bit of the unordered ring is set exactly when the one block of the current lap
  that falls on it was delivered (`BitsExact`), and a buffered slot holds the one block
  ahead of the next expected (`SlotsExact`).  That a stream reported complete has
  delivered every block is the pigeonhole principle: as many different blocks as the
  stream has.

`TransferProofs` is about how blocks get across and onto the disk.

* `Lane`, for any number of blocks, window, ring and limits.  The invariant `LaneInv`
  adds: every copy of a block, in flight or with a writer, has the right LastBlock flag;
  the receiver's base is its first missing block; and, the heart of it, the ACKs in
  flight form a chain: what any ACK says, what the sender believes and what the receiver
  has are ordered by inclusion, so that applying an old ACK adds nothing and applying a
  newer one gives exactly what it says.  From it follow `RegistrySafe`,
  `AcknowledgedIsWritten`, `TimeoutCanResend`, `SuccessIsComplete` and, with a count over
  finite sets, `InFlightIsExact`.
* `FileSink`, for any file, chunks, versions, sessions and failures, and a crash at any
  step: `TrailersAreHonest`, `PathIsWhole`, `OkIsTheFileSent`.  `SinkInv` says of every
  trailer, cached or on the disk, that the blocks it claims are on the disk; of a
  session that writes, that all trailers it can meet name its own file; and of a
  chunk's counter, that it counts blocks this session wrote or a trailer claimed, so
  that it is full only when the chunk is.

`RxPipelineProofs` proves `WrittenOnce`, `MarksExact` and
`ReportsFit` (`BlocksWrittenOnce`, `MarksAreExact`, `ReportsAlwaysFit`) for any number
of writers, window, rings, batches and retransmissions.  `PipelineInv` follows a block
by the place it is in, a position of a ring that its writer has not reported or a
position of a ring of verdicts: no two places hold the same block, the block of a
place is in the window, not accepted and marked, and how often it was written
depends on the place alone.  The reader hands out only blocks without a mark, and a
block keeps its mark until its verdict is collected.

`PlanProofs` is about the plan of a transfer, and the pool of workers.

* `SendPlan`, for files, lanes, limits on the ranges and block sizes of any number and
  size: `EveryByteOnce` (`EveryByteTravelsOnce`) and `NonceSealsOneBlock`
  (`OneBlockPerNonce`).  `LanesShareOut` is about the arithmetic alone: the share of a
  lane is rounded up, so each byte is in exactly one lane.  `AskInv` says that a part
  that arrived is the receiver's and that the plan, once settled, is what it asked for.
  The loop of `coarsen_ranges` is a recursive function; `RoundsExist` shows by a least
  counterexample that it is defined, `RoundFacts` that each round keeps what was asked
  and, while there are too many ranges, leaves fewer.  Each range is in one part
  (`PartsFacts`), so the sender's sorted list is in order and inside the lane, and the
  answer is never thrown away.  `PlanInv` follows the cutting: the blocks cut are what
  the plan holds below the next offset, and a resend seals what the registry holds.
* `WorkerPool`, for any number of workers: `SingleThreadedTail`
  (`TailIsSingleThreaded`).  `EveryThreadHasAJoiner` says that a running worker is in
  the pool, or being joined by the ticker, or by `stop()`.

`ControlProofs` is about the control around the data path.

* `LaneSession`, for any finite number of lanes: `OutputIsReadyFirst`,
  `PeerIsBlamedRightly`, `ResumedNeedsDigest`.  `SessionInv` gives each effect its
  cause, which stays on record: a lane that receives, an answer in the network and a
  lane that sends come after the output was prepared; a success of a resumed call, and
  every message on the way to it, after the digest; a stop flag or a "peer aborted"
  after a lane that failed of its own or an abort in the network.
* `BlockSize`: `FailedSizeRests` (`SizeFailedSizeRests`).  `StretchHonest` ties the
  code's counter to the history: it never exceeds the clean stretch that has really
  passed since the last failure, and a ceiling above the one that failure set means
  that the stretch due has passed but for its last step.
* `PathValidation`: `AdoptedWasThere` (`PathAdoptedWasThere`).  `ChallengesKnown` says
  that every challenge and answer in flight carries a value that was drawn, and that an
  answer to the latest one comes from an address the peer has had since it was drawn.
* `Congestion`: `OneHalvingPerRun` (`RunHalvesOnce`).  `HalvingsCounted` says that in a
  run of timeouts the loss still to be accounted for and the halving made are at most
  one together.  One poll may account for any number of round trips, which the model
  folds with a recursive function; `RunFacts` shows by induction that only the first of
  them can find a loss.

`MuxProofs` is about the handshake and the multiplexed transfer, for any streams,
sizes, window, retries and nonces.

* `HandshakeAgreed`: `Handshake` says what the datagrams in the network tell of the two
  ends; a FINACK with a nonce of this handshake can only be the initiator's.
* `OkMeansComplete`, `MarkedStaysQueued`, `BaseStaysResident`: `MuxInv` relates each
  stream's registry, backlog and marks, the ACKs in the network and what the receiver
  has.  Its heart is `Linked`: no block that one ACK names as its base is in the
  selective part of any other, because the receiver's base only grows and is never a
  block it has.  So however ACKs are reordered, the sender's base is still resident.
  For the receiver's Ok, `Announced` says which StreamStart a stream was opened by: if
  this transfer's, the size is right; if an earlier one, no ACK can carry this nonce, so
  no block was ever sent and nothing is written, and `written` equals the size only if
  that is 0.

`SdkProofs` proves `Sdk`'s safety for any callers, messages, window and inbox, and any
interleaving of calls, pumps and closes: `MessagesStayInOrder`, `OkMessagesArrived` and
the action property `NothingLeftAtClose` (`CloseComesLast`).  `SdkInv` says of every
state before a `fuse_send` gives up: a message gets its turn only when every block of
the one before it was acknowledged, so the blocks that can be new to the receiver are
those of one message, the latest; any copy of such a block in flight or in the registry
is that block of that message; and the receiver's assembly holds exactly the ones it has
received of it.  After a `fuse_send` gives up none of this holds, which is what the run
`sdk_ok` shows.

Only model-checked:

* all liveness, whose proofs need fairness and `ENABLED`, and the claims the code does
  not satisfy;
* the codecs (`DecodedAsSent`): what recursive definitions compute for every input;
* `SdkConnect` and `Http`.

## Not modelled

* Cryptography (`session_crypto.cpp`) and digests: taken as ideal.  A datagram
  authenticates or it does not, a digest identifies its content.  A key schedule
  belongs to one thread, which uses a cipher before it asks for the next; the
  threads that hash a file share a counter and a flag and are joined before their
  results are read.
* UDP sockets and DTLS: system calls and wolfSSL, whose state is not in this
  repository.  Batching and segmentation offload do not change what is sent.
* Time: round-trip estimates, the length of timeouts and pacing.  The models let a
  timer fire whenever the code could let it, which covers every length.
* The memory sink (a copy into the caller's vector), argument checks, progress
  reports, statistics, and the accessors of the public API: they read state and
  change none that a property is about.
* `fuse_http_get_header` and the default reason phrases: pure lookups.
* The C scaffold (`connection.c`, `packet.c`, `varint.c`, `socket.c`, `crypto.c`): codecs,
  wrappers and a connection object that never leaves its first state; nothing in
  `proto/` uses them.
* In `Wire`, the buffer capacities of the encoders; SETUP messages are records.
* In `LaneSession`, a StreamStart whose size is out of range or disagrees with that of
  its siblings; in `Sdk`, a block that cannot be sealed (as all cryptography); in `Setup`,
  the peer's address, which every SetupData sets anew.
* A file system that drops dirty pages after a failed sync, a negotiated window below
  4, and DATA of an earlier multiplexed transfer: listed as hazards with the reason.
