# Verification of ipcf

ipcf carries IP packets over a slow, unreliable datagram link. It takes them from a tun
device, replaces the headers of known flows by a short id (`compact.c`), cuts the result into
slices that can be repaired one by one (`split.c`), and sends these as frames over UDP; the
peer does the reverse. This directory holds TLA+ models of it, the TLC runs that check them on
small instances, and proofs, checked by TLAPS, that hold for every value of the constants.

    tun -> xmit_compress -> upper_send, lower_fetch -> udp ~~~> udp -> lower_put, upper_recv -> recv_compress -> tun

## 1. The system

`test.c` runs five threads: `recv_tun` (reads packets, compacts them, calls `upper_send`),
`recv_split` (`lower_fetch`, sends on UDP), `recv_udp` (receives, `lower_put`), `recv_unsplit`
(`upper_recv`, `recv_compress`, writes to tun or sends an answer back with `upper_send`), and the
main loop, which once a second calls `timer_event` (compaction) and `proc_timer` (split). They
share the tables and lists below, each under a light lock; nothing is persisted.

| component | state | operations | hard because | correct when |
|---|---|---|---|---|
| split, sending (`split.c`) | per peer a session `sse`: packets not yet acknowledged, `is_waiting`, ack and idle deadlines, two retry counts, next sequence number | `upper_send`, `proc_ack_all`, `proc_ack_part`, `proc_timer` with `proc_sse_ack_timeout` | acknowledgements late, repeated or of an earlier message; retries of what arrived; timers against answers; freeing of idle sessions | the queue never stalls, is resolved in order, confirms only what arrived |
| split, receiving | per peer a session `rse`: expected number, bitmap and data of one message, `completed`, `nak` | `proc_data`, `proc_patch`, `proc_ack_req`, `proc_timer` | slices damaged or of another message with the same number; messages started over | only whole messages are submitted |
| split, lists | `lower_send_list`, `upper_recv_list` | `lower_fetch`, `upper_recv`, the handlers | several threads | nothing lost or reordered inside a list |
| compaction, sending (`compact.c`) | `sflow_hmap`, `sflow_rindex`, state per flow | `xmit_compress`, `recv_compress` (CTL_ACK), `timer_event` | three places that know of a flow; ids reused; acknowledgements of flows that are gone | the indexes agree, ids are not leaked |
| compaction, receiving | `rflow_hmap` | `recv_compress`, `timer_event` | a second clock, unaware of the sender's | packets get the headers of their own flow |
| id pool (`lib/idpool.c`) | ring of free ids, `empty` | `get_id`, `release_id` | full and empty ring have the same indices | each id once |
| light lock (`include/atomic.h`) | atomic count, semaphore | `_lock`, `_unlock` | preemption between the count and the semaphore | mutual exclusion, no lost wakeup |
| framing (`split.c`) | none | `en_frame`, `de_frame`, cutting of slices in `upper_send` | stuffing can exceed the MTU, frames lose their end | decode inverts encode; what is queued is a beginning |
| bitmap (`split.c`) | words | `set_bit`, `find_first_zero`, `test_all_bits_set` | word boundaries | the set they stand for |
| list, hash map, poll events (`lib/`) | pointers, buckets, an fd set | the usual | removal while walking, growing | the sequence or map they stand for |
| checksums (`lib/crc.c`, `lib/csum.c`) | tables | `crc8`, `crc16`, `crc32c`, `csum` | carries, one wrong entry, what a checksum covers | those of their definitions; damage is refused |
| random, tun, udp, helpers | - | - | I/O | - |

Components interact by calls (test.c's threads into compaction and split), by the two lists
between threads, by messages between the peers' sessions and between their flow tables, and by
time: each table forgets what is not used, on its own clock. `PROJECT.json` lists every hazard
of this kind at its line.

## 2. The modules

| module | models | role |
|---|---|---|
| `LinkService` | what split promises its caller | abstract specification |
| `Split` | `split.c`: the sessions of one pair of nodes, the link, the timers | core; implements `LinkService` |
| `MCSplit` | message sizes for TLC | instances |
| `SplitProofs` | - | inductive invariant and theorems on `Split`, any link |
| `SplitServiceProofs` | - | theorems on `Split` without delays: `LinkService`, order of reading |
| `Mutex` | what a lock promises | abstract specification |
| `LightLock` | `include/atomic.h`, step by step | implements `Mutex` |
| `IdFifo` | what the id pool promises: a queue of ids | abstract specification |
| `IdPool` | `lib/idpool.c`, the ring | implements `IdFifo` |
| `CompactFlow` | `compact.c`: flow tables of both ends over a channel with the behaviour of `LinkService` | uses `IdFifo` in place of the pool and is shown to use it rightly |
| `CompactFlowProofs` | - | theorems on `CompactFlow` |
| `SplitThreads` | `split.c`: the sending sessions, cut where a thread can be preempted | refines the grain of `Split` |
| `SplitThreadsProofs` | - | theorems on `SplitThreads` |
| `RseThreads` | the same for the receiving sessions | " |
| `RseThreadsProofs` | - | theorems on `RseThreads` |
| `FlowThreads` | `compact.c`: the sender's flows and `get_id`, `release_id`, cut likewise | refines the grain of `CompactFlow` |
| `FlowThreadsProofs` | - | theorems on `FlowThreads` |
| `FlowClock` | `compact.c`: deadlines as ints, the clock a long long | detail of `CompactFlow` |
| `CompactCodec`, `MCCodec` | `compact.c`: the compacted headers, written and read | detail of `CompactFlow` |
| `PktList` | `xmit_compress` and `recv_tun`: the list of packets between them | uses `ListOps` |
| `Framing` | `split.c`: `en_frame`, `de_frame` | detail of `Split` |
| `SendFit` | `split.c`: `fill_slices`, the loop of `upper_send`, `send_patch` | detail of `Split` |
| `Bitmap` | `split.c`: the bitmap of a receiving session | detail of `Split` |
| `Crc` | `lib/crc.c` and what `split.c` protects with it | detail of `Split` |
| `Csum` | `lib/csum.c` | algorithm |
| `ListOps`, `List` | `lib/list.c` on pointers; its use by callers | `List` implements `Deques` |
| `Deques` | what the lists promise: sequences | abstract specification |
| `LibraryProofs` | - | theorems on `LightLock`, `IdPool`, `List`, `Hmap`, `PollEvent` and `PktList` |
| `DataProofs` | - | theorems on `Csum`, `Framing`, `SendFit`, `Bitmap`, `FlowClock`, `CompactCodec` and `Crc` |
| `Hmap` | `lib/hmap.c`, `hmap.h` on pointers | data structure |
| `PollEvent` | `lib/poll-event.c` | component |
| `MCLibrary`, `MCThreads`, `MCData` | - | roots for TLC: each puts several modules that share no state side by side, and a behaviour follows one of them. `MCLibrary` and `MCData` extend their modules, so that the runs check the very definitions the theorems are about; `MCThreads` extends `SplitThreads` and instantiates the other two |

The layers are put together through the abstract specifications: `Split` implements
`LinkService`, and `CompactFlow`'s channel does to a packet what `LinkService` allows (submit the
oldest any number of times, then go on to the next, or drop it), in the order that `UpperInOrder`
shows of a link that does not duplicate frames; `IdPool` implements `IdFifo`, and `CompactFlow` is checked against the same `IdFifo`
(`UsesPool`). What a coarse module assumes of a detail is what the module of the detail shows:
`OneWordExact` (`Bitmap`) is the test for a complete message in `Split`, `FlipsRefused` (`Crc`)
that damage to a slice is seen, `FrameRestored` (`Framing`) that frames arrive as they were sent,
`TcpRestored` and `OthersRestored` (`CompactCodec`) that a template and a compacted packet make
the packet again.

### Split

One node sends (`sse`), its peer receives (`rse`). The program has such a pair per direction and
peer; pairs share only the two lists, which `Split` keeps per node.

| in `Split` | in the code |
|---|---|
| `sse`, `rse` | the entries of `sse[]`, `rse[]`; `live` is the pointer not being NULL |
| `ack_timeout`, `idle_timeout` | passes of the main loop until the deadline; `NoTimer` is the code's -1 |
| `msg` in `rse` and in a DATA frame | `msglen`, `d_csum`, `n_slices` of the announced message |
| `data`, `bitmap` | per slice whose content is stored; the set bits |
| `UpperSend` | `upper_send` with `create_sse`, `try_lower_send` |
| `ProcData`, `ProcPatch`, `ProcAckReq`, `ProcAckAll`, `ProcAckPart` under `LowerPut` | `lower_put` and the handler of the frame's type |
| `TimerQuiet`, `TimerAckReq`, `TimerResend`, `TimerDrop`, `ReceiverTimer` | the cases of `proc_timer` and `proc_sse_ack_timeout` |
| `LowerFetch`, `UpperRecv` | the functions of that name |
| `Tick`, `due` | `sleep(1)` in the main loop; the nodes whose pass is still to come |
| `Lose`, damage in `ProcPatch`, `link` | the UDP link: may lose and damage (`loses`), deliver twice (`repeats`), hold back beyond a period (`delays`); `Links` is the set of links a run considers |

Messages are numbers in order of acceptance, and a DATA frame carries the header only, which is
what `upper_send` queues. Each handler is one action, since it runs under its session's lock;
where the code leaves the lock too early (hazards at split.c:1266, 1321, 1206, 316, 1217) the
model is coarser than the code, and `SplitThreads` and `RseThreads` take it apart. The checksum
of a message is taken to be right exactly when all slices are its own.

A link without `delays` lets no frame outlive the period in which it was sent, which holds of one
that is quicker than a second. With it sequence numbers of eight bits cannot tell an old frame
from a new one once they wrap or a session is created anew, and an old ACKA confirms what never
arrived. `ImplementsService` is therefore stated without it, and so are the liveness properties;
the safety properties of `split_slow` are checked with it. `UpperInOrder` is stated without
`repeats` as well: a DATA and a PATCH frame delivered a second time, after the receiver has gone
on, make it submit the message before once more, out of order.

### SplitThreads, RseThreads, FlowThreads

Each thread has a `pc` and the local variables of the call it is in (`loc`; `udp` and `main`;
`tun`, `timer`, `ack`). A step ends wherever shared state is open to other threads; critical
sections that take no other lock are one step. The objects are numbered and carry a state, so
that a freed one is still there to be used by mistake: then `fault` is set and the process stops
(undefined behaviour has no successors worth exploring). Sessions and flows become idle at any
moment, as a thread may be preempted for any time; a flow also before it is in `sflow_rindex`
(`Elapse` has no other guard than that the flow is in the table). The invariants of these modules are about what
holds until a fault is met; `ThreadSafe` is the comment above `upper_send`, and is refuted. The
plain write `se->seq = (se->seq + 1) & 0xff` may use the value read before it or read it again
(`WriteSeq`). `try_lower_send` reads `is_waiting`, the list and its front in a step each
(`TestWaiting`, `TestEmpty`, `TakeFront`). Three history variables carry what the invariants speak of and change no
step: `by`, the thread that pushed a packet; `early`, that a flow was removed while `recv_tun` had it
built and not yet in the index; and `crossed`, that `get_id` and `release_id` met at the last id so
that one spoilt what the other did (section 3). The locks of `split_init` are
used as if initialised: `sse_lock` and `rse_lock` are static and zero, which works as a count,
and their semaphores are zero bytes, which is what `sem_init` writes on this platform.

### LightLock

`pc` is where a thread stands: outside, counted and about to wait or waiting (`wait`), inside
(`crit`), or past the subtraction and about to post (`post`). `Acquire` and `Release` are the
atomic instructions, `SemWait` and `SemPost` the calls.

### IdPool

One action per function. `held` is a history variable: the ids that callers have. A caller
releases only an id it holds, which `CompactFlow` shows of `compact.c` (`UsesPool`).

### CompactFlow

| in `CompactFlow` | in the code |
|---|---|
| `sflow[f]`, `sflow_rindex`, `free` | `sflow_hmap`, `sflow_rindex`, `idp` of the sending node |
| `rflow[i]` | the entry of `rflow_hmap` for id `i` of this sender |
| `XmitCompress` (`XmitNew`, `XmitPending`, `XmitEstablished`), `XmitUntouched` | `xmit_compress` by the flow's state |
| `RecvCompress` (`RecvIp`, `RecvReq`, `RecvCpkt`), `RecvAck` | `recv_compress` by the packet's type |
| `SenderTimer`, `ReceiverTimer` | the two loops of `timer_event` |
| `failed` | the `assert` at which the receiving process stopped |
| `delivered` | history: the flow of a packet, the flow whose headers it got |

`STATE_NEW` does not appear: it never outlasts the call that creates the flow. With no id free
`xmit_compress` drops the packet and changes nothing.

### CompactCodec, FlowClock, PktList

`CompactCodec` has one established flow of each kind (TCP, UDP, other) and one packet at a time:
`XmitFrame` is what `build_cpkt` writes for it, `RecvFrame` what the peer makes of it with the
template. Words are names of values, so that a field read in the place of another shows. TTL and
TOS come from the template, as in the code; a segment with both FIN and PSH keeps one of them,
and `recv_raw` drops the DF bit, so that `TcpRestored` and `OthersRestored` speak of what has a
code. `FlowClock` cuts a deadline to the width of an int where it is stored. `PktList` has the
nodes as `malloc` gives them, with the pointers they had; `TurnComplete` and `OthersSafe` leave
aside the turns in which a compacted fragment is linked twice.

### Framing, SendFit, Bitmap, Crc

`Framing` takes bytes to be one of break, escape, escaped and other values. `SendFit` keeps only
lengths and how many bytes need an escape. `Bitmap` has words of `W` bits; with `W` greater than
the number of slices it is the code's single word. `Crc` has the three tables entry by entry as they stand in crc.c, and keeps
bytes and registers as the sets of their bits.
In a frame the checksum field is u16 and `csum_save` u8 (lower_put), which does no harm as crc8
fills only eight bits. The text of ACKP frames is left out of `Crc`. `BurstRefused` leaves out
bursts that reach into the checksum, which protect nothing.

### Lists, Hmap, PollEvent, Csum

`ListOps` has each function of list.c with its assignments in order; `List` adds what callers
may do with them. `Hmap` has the struct, its arrays and `tmp` of `resize` as memory objects, and
the walk of `timer_event`; `Move` is one turn of `resize`'s loops, and `malloc` always finds an
array. In `PollEvent` the waiters are a set of descriptors, and the caller is
the loop of `framework_test/try.c`; `poll` may fail at any moment (`Fails`). `Csum` is parameterised by the base `B` of a word.

## 3. The runs

| run | question | result |
|---|---|---|
| `split_prompt` | does a session implement `LinkService` on a link that loses, damages, reorders and duplicates, and does the peer read in order (`UpperInOrder`) where nothing is duplicated? | holds |
| `split_slow` | what is left if frames may also be delayed for ever? `TypeOK`, `TimerGuardsQueue`, `Integrity`, `ReapedQueueEmpty` | hold |
| `split_live` | is every accepted message confirmed or dropped (`EveryMessageResolved`), and confirmed where nothing is lost (`EveryMessageConfirmed`)? | holds |
| `compact_flow` | right headers, agreeing indexes, right use of the pool: with loss and repetition within a period, and with any delay | holds |
| `compact_slow` | an end to waiting (`PendingSettles`), with any delay and no loss | holds |
| `library` | lock: `MutualExclusion`, `NoStrayPost`, `ImplementsMutex`; ids: `EachIdOnce`, `FreshOrExhausted`, `ImplementsFifo`; lists: `Ring`, `ImplementsDeques`; hash table: `TableComplete`, `WalkComplete`; poll: `DeadlineKept`; packet list: `PacketsSafe` | hold |
| `threads` | sending sessions: `NoCircularWait`, `QueuesSound`, `PacketsKept`, `NoSessionLost`; with receiving sessions and flows: `TablesSound` | hold |
| `data` | csum: `ZeroMeansRight`, `AtMostOneCarryLost`; framing: `DataRestored`; sizes: `CutSound`, `LoopEnds`; bitmap: `BitmapExact`; crc: `ChecksumsGuard`, `TablesDivide`; headers: `PacketsRestored`; clock: `ForgottenInTime` | hold |
| `split_submit_once` | "ensure submit only once" (split.c:645) | refuted |
| `compact_cpkt` | `assert(rflow)` (compact.c:736, 741, 746) | refuted |
| `thread_safe` | "thread safe" (split.c:1230) | refuted |
| `codec_urgent` | "do nothing(we have set)" of the code for URG (compact.c) | refuted |

Some of these properties join several of their module: `TableComplete` is `LookupComplete` and
`TableSound`, `DeadlineKept` `NotEarly` and `WakesInTime`, `PacketsSafe` `TurnComplete` and
`OthersSafe`, `TablesSound` is `TypeOK` of `SplitThreads`, `LiveInTable` of `RseThreads` and
`FlowTablesSound` of `FlowThreads` (`IndexLeads` at every step, `AllIndexed` and `IdsKept` until the
two have crossed), `QueuesSound` has `InOrder` (the order of the pushes), `DataRestored` `FrameRestored` and `CutGivesPrefix`, `CutSound` `SlicesFit`,
`QueuedIsPrefix`, `PatchLosesOne` and `NeverGivesUp`, `BitmapExact` `CompleteExact`,
and `AsksForMissing`, `ChecksumsGuard` `FlipsRefused`, `BurstRefused` and
`SentIsAccepted`, `PacketsRestored` `TcpRestored`, `OthersRestored` and `NotTakenForIp`,
`ForgottenInTime` `ForgetsIdleOnly` and `ForgetsEveryIdle`. Where a module has a `TypeOK` it is one
of them too.

In `library`, `threads` and `data` the initial state chooses one of the modules (`which`), and the
others stay in their initial states, so that the state space is the sum of theirs and not the
product. Deadlock is checked except in `data`, where each algorithm ends.

**Bounds.** `split_prompt`: three messages and three sequence numbers, so that the numbers wrap
(with fewer numbers than messages `LinkService` is not implemented, section 3, *Seen while
modelling*) and two messages wait behind the first; links that lose, with and without repeating;
three frames in flight, so that old ones overlap with those of the next message; messages of two slices and one, so that a partial answer
exists and slice 1 of the shorter one is out of its range; two unread messages at the peer, so
that they have an order. `split_slow`: two messages and two numbers, an idle time of one pass, so
that sessions are freed and start again at number 0 while frames of before are in flight.
`split_live`: three messages, so that two wait behind the one in progress. `NetCap` bounds the
frames in flight, `SendCap` and `UpperCap` the lists; they only delay the link and the readers,
which the code's threads may do for any time. `MAX_RETRY_TIMES` is small, as only its end matters.
`submits` counts to two, which is enough to tell once from more.
`compact_flow`: three flows for two ids, so that ids run out and are reused; two packets under
way, as many as one call sends. `library`: the five threads of the program; a ring of four ids,
so that every rotation with every order of release occurs; two lists and three elements; eight
nodes, so that the table grows twice, two of one hash value and three in a bucket; deadlines
before, at and after the longest wait. `threads`: two senders, so that two create and two number;
two packets and two sessions, as many as one race takes; three receiving sessions. The threads that
call `upper_send`, `recv_tun` and `recv_unsplit`, are alike there, so that `threads` is checked up to
their exchange (`SendersAlike`). Two flow keys, two ids and three flow objects: both ids can be in
use, `get_id` come for the last one and for none while one is on its way back, a third flow get an id
again, and a flow be removed before it is indexed; a fourth would do none of this anew. `data`: the
register goes over the tables with each of the 256 first bytes of a header, a slice and a message, so that
each entry of each table is used; the other constants are in `MCData` with their reasons: the sizes of
split.h for `SendFit` (its alternative of 950 bytes is left to the proof), all data of five bytes at an MTU of six
for `Framing`, eight slices over three words, up to three flipped bits in headers and two in
slices and messages (those of a slice shortened to 16 bytes), words of four bits for `Csum`
(which the proofs take to 16), clocks that stay within and that exceed an int.

**Fairness.** Weak fairness of the loops in `test.c` (the fetching thread, the reader, the timer
passes, time itself): each is an endless loop that nothing blocks for ever. The link disposes
of each frame, by delivering or losing it. `PatchArrives` is strongly fair: a link on which
slices are sent again and again lets some through. It is needed because `proc_ack_part` sets the
retry count back: on a link that delivers every ACKP and damages every PATCH, a message stays at
the head for ever, neither confirmed nor dropped. For the lock, `SemWait` is fair for the
waiters together, not for each: POSIX does not say whom a post wakes, so a single thread may
wait while others pass, and `Mutex` promises no more. In `CompactFlow` the receiving threads
and the timers are weakly fair. The loop of `upper_send` goes on (`Try`), for `LoopEnds`. For
`WakesInTime` time passes and `poll` returns when it is due; signals may interrupt it for ever.

**What the refuted properties show.**

* `split_submit_once`: a message is submitted twice when its acknowledgement is lost: the sender
  resends DATA, which clears `completed`.
* `compact_cpkt`: the two ends forget a flow independently, so that a compacted packet can arrive
  for a flow that is gone, without any loss or delay; the assertion stops the process.
* `thread_safe`: two threads in `upper_send` read the same `se->seq`, and two packets of one queue
  have one number.
* `codec_urgent`: a plain ACK has none of the flags that have a code, passes `assert(1)` with code
  0, which is URG, and the peer reads an urgent pointer from the data.

**Seen while modelling.** The models contain these too; they have no run of their own, and the
properties above are stated so that they hold beside them.

* An ACKR carries the number of the packet queued last (split.c:1074), while the receiver's
  session has the first: with two packets queued it is not answered, and DATA is sent again.
* Numbers repeat while a session lasts (split.c:1266). On a link that only loses, if every DATA
  frame of one round of numbers is lost, each message of it is given up, and the receiver is
  still at the message that had the number a round before: it answers an ACKR with its ACKA, and
  the sender takes the wrong message for confirmed. With 256 numbers that takes hundreds of losses
  in a row; `ServiceKept` needs `NeverWraps` because of it.
* A DATA frame delivered twice, and the PATCH frames that followed it, submit a message again
  after the next one (split.c:627).
* A late acknowledgement can establish a flow whose request was lost after its id was reused
  (compact.c:723): a channel that delays and also loses or repeats mixes up headers. `RightFlow` is
  checked and proved for the other channels.
* A request that is submitted twice, or whose id is reused before the peer's timer has forgotten
  the old flow, meets `assert(!rflow)` (compact.c:717).
* The other conjuncts of `ThreadSafe` fail as well: `proc_timer` frees a session that
  `upper_send` has looked up; an acknowledgement between the steps of `try_lower_send` leaves a
  queue that waits with no timer armed; the timer takes the front of a list that was emptied.
* `proc_timer` tests and frees a receiving session under `rse_lock` only (split.c:1217), while
  `proc_data` uses it; "anyway, se->lock is hold" (split.c:636) protects it from nobody then.
* `timer_event` frees a flow that `xmit_compress` has looked up (compact.c:671), and clears an
  entry of `sflow_rindex` between test and use (compact.c:723). A flow can be due before line 657 has
  entered it in `sflow_rindex`: after ten seconds of preemption behind the unlock of line 142, or at
  any pass of the timer once deadlines exceed an int. The timer then frees it, line 657 stores a
  pointer to freed memory, and a late CTL_ACK follows it (`early`).
* `get_id` compares the indices, takes the id and stores `empty` (idpool.c:33-38); `release_id`
  computes `is_full` and stores the same flag. At the last id they spoil each other's work
  (`crossed`): a release between comparison and flag leaves the ring marked as empty with an id in
  it; a release that ends between a comparison that was made on an empty ring and the taking of the id
  it brought leaves an empty ring not marked, and ids are given out twice; and a release before
  `get_id` has stored the flag takes the ring for full and drops its id.
* A compacted fragment is linked twice (compact.c:230, 303), and the loop of `recv_tun` returns to
  the node it has freed.
* A packet of another protocol with IP id 0 reaches "never happen" (compact.c:300) and is sent
  with what `malloc` left in its header; a packet sent untouched because it is not plain IPv4 is
  read as a compacted one by the peer (compact.c:701).
* From 24.8 days of uptime on deadlines are negative when stored and every pass of `timer_event`
  forgets every flow (compact.c:149).
* `send_patch` keeps -1 of `en_frame` in a u16 and queues a frame that is cut short, whose last
  slice is lost each time (split.c:952).
* The slice number `n_slices` is accepted (split.c:482); its bit makes `test_all_bits_set` false
  for as long as the session has that message.
* The single fold of `csum_finish` can lose a carry (csum.c:52); the checksum is then one too
  high, and still not 0 for a wrong header.
* The comment on `crc32Table` has Ethernet's polynomial, the table is that of CRC-32C.
* `poll_block` returns after INT_MAX milliseconds with no event when no deadline is nearer.

## 4. The proofs

All theorems hold for every value of the constants that satisfies the module's named assumption,
which says that sets are finite, distinct or not empty and sizes positive (`ConstantsAssumption` of
`Split`, `SplitThreads` and `CompactFlow`; `NumAssumption` and `NumsAssumption` of the other threads;
`ThreadsAssumption`, `NumIdsAssumption`, `NodesAssumption`, `HmapAssumption`, `HeapAssumption` and
`TimeAssumption` of the library; `BAssumption`, `NAssumption`, `WAssumption`, `WidthAssumption`, `FramingAssumption`,
`SizesAssumption`, `BodiesAssumption` and `TrialsAssumption` of the data). Three need the sizes of the code and name them:
`Width16` (words of 16 bits, the checksum) and `Slices32` or `Slices950` (the two choices of split.h, the
cutting of messages); `OneFlipRefused` supposes a link that flips one bit. Each proof goes by an inductive invariant, with one lemma per action.

*Split.* `IInv` is `SenderInv`, `ReceiverInv` and `LinkInv`. The timer and the queue: a packet
waits exactly when the queue is not empty and exactly when the ack timer is armed, and an armed
timer never has more passes left than the idle deadline. The second half is what makes
`ReapedQueueEmpty` true: when the idle deadline is reached the ack timer has expired as well, and
its handling in the same pass has pushed the deadline back. For `Integrity`: every frame on the
link and in the lists names only accepted messages, and what the receiver's session announces is
accepted; a submitted message has passed the checksum, so that all its slices are its own. This
uses nothing of the link or the timers. Theorems `TypeCorrect`, `TimerGuard`, `NothingReaped`,
`OnlyWhole`.

*Split as a service* (`SplitServiceProofs`). What the peers know of each other holds only if
sequence numbers name messages, so `ServiceKept` supposes that the link holds nothing back
(`"delays" \notin link`) and that no session wraps its numbers (`NeverWraps`; `ServiceKeptShort`
does without it where there are more numbers than messages). Number `s` then stands for message
`MsgOf(s)` of the sender's present session. `ServiceInv` says that the queue is numbered so; that
every frame under way belongs to the present session, that its data are of the head or of a message
that arrived, and that an ACKA names one that arrived (`FlightOk`); that the receiver's session is
about a message of the present session (`Current`), or is left over from one that was freed and
then ends in this period or with the next DATA frame (`Stale`). The last needs the deadlines of
both ends: the sender's session is never younger than the receiver's. It rests on `Calm`: when the
ack timer expires nothing of the last period is under way, so that what a retry sends finds no
answers to earlier frames. Each step then is one of `LinkService`'s or leaves its state alone
(`StepMaps`).

*Order of reading* (`ReadInOrder`). On a link that neither repeats nor delays the invariant is
different and needs nothing of the numbers: one frame is under way at most, and data are of the
head (`OneFrame`: each handler sends at most one frame, the timers send when nothing is under way,
`upper_send` only if the queue was empty); `Incomplete`: a session that all slices have reached and
that did not complete was refused by the checksum, so that a PATCH frame which completes it has
written a slice, and the checksum then makes the message that of the frame, the head; and what was
submitted is not above what is queued (`NotBefore`).

*SplitThreads.* The inductive invariant says what each thread has at each place it can be preempted
at. `Locals`: where it may be, that it has a session where it uses one, and where it has a packet.
`TimerHolds`: `sse_lock` is held across steps by `proc_timer` alone, which works on the session in
the table. `ReplacedOnce`: a session taken out of the table has one thread that will free it. `Hands`,
`Queues`, `Somewhere`: an allocated packet is in one thread's hands or in one live session's queue,
there once. `Order`: packets are numbered as they are taken into use, so that one thread's stand in a
queue with growing numbers, all less than that of the packet it has yet to push. `LocksOrdered`, `QueuesStaySound`, `NoPacketLeaks` and `NoSessionLeaks` follow, for any number
of threads in `upper_send`, packets, sessions and numbers. They hold although the code leaves its locks
too early because a step that would touch freed memory stops the process (`fault`).

*RseThreads.* The table holds the session that lives, if any; the thread of the handlers is the only
one that creates, so that the table it found empty stays so until it has; and what `proc_timer` is
about to free is in the table. `NoneLost` (`LiveInTable`) and `FreedOnce` follow.

*FlowThreads.* `Safe` holds whatever happens in the pool: flows in the table live, `timer_event` works
on one that the table no longer has, and `sflow_rindex` leads to flows that have the id, in the table or
removed early (`IndexLeads`). `PoolSound` holds until a crossing and follows an id through its places:
in the ring, from `get_id` to the flow that is built with it (`tun`), of a flow in the table, from the
flow that is removed to the ring (`InHand`). It is at exactly one of them (`IdsOnce`, `IdsSomewhere`),
where the place that `release_id` has counted and not yet written holds none (`Stored`), and the ring
has none once `get_id` has taken the last and not yet stored the flag (`LastTaken`, `Places`). `RingSound`
says of the flag and of what the two have computed how far they still agree with the indices, and the
same pigeonhole as in `IdPool` shows that `release_id` meets no full ring. A flow in the table that the
index does not lead to is the one being built (`Indexed`). Theorems `TablesAgreeThreads`
(`FlowTablesSound`), `IdsNotShared` and `FreedOnce`, from the sizes being positive alone: flows may be
due at any moment, ids run out and are given again. `FewNeverCross` says when there is no crossing:
while the flows that live are two fewer than the ids, each id outside the ring is of one of them, so
that `get_id` never comes for the last. The program has 256 ids. With `SplitThreadsProofs`'
`TypeCorrect` and `RseThreadsProofs`' `NoneLost` the three parts of `TablesSound` are proved.

*CompactFlow.* `TablesInv` (on any channel) is `TypeOK`, `TablesAgree`, that the pool has no id
twice, and that the peer keeps no clock for an id without flow: `TypeCorrect` and `IndexesAgree`.
`RefinesPool` shows each step to be one of the pool or to leave it alone. `RestoresOwnFlow` has two
invariants, for the two ways a channel can be good. Where nothing outlives a period (`QuickInv`),
the clocks that a packet under way has set have not run since: the flow of a request or compacted
packet still has its id, an acknowledged id is known at both nodes for the same flow, and the peer
of an established flow has that flow or nothing under the id (`PeersAgree`); for this both timers
go round once a period, and the sender's deadline is renewed by each packet that renews the
peer's. Where nothing is lost or repeated (`ReliableInv`) the requests under way tell what the peer
will know: once it has received all that is before a compacted packet, it knows that packet's
flow under the id, if any (`WillBe`). A channel that delays and also loses or repeats satisfies
neither, and `RightFlow` fails there (section 3).

*LightLock.* `IInv` says that `cnt` is the number of threads that wait or are inside, and that
there is one token: a thread inside or about to post has it, or the semaphore, and if anybody is
counted it exists. Theorems `Exclusive`, `NothingStray`, and `MutexSteps` (the safety part of
`ImplementsMutex`).

*IdPool.* `EachIdOnce` is inductive together with the types and the fact that the head of an
empty ring is the place behind its tail. The step that needs an argument is the release: a full
ring maps its places one to one to ids, hence onto all ids (pigeonhole), so nobody can hold the
id being released, and `release_id` never ignores one. Theorems `NoneLostOrDoubled`, `GivesFresh`; and
`RefinesFifo`: read from the head, the ring is the queue of `IdFifo` (`Fifo`), which the flag `empty`
makes well defined where both indices are the same.

*List.* `RingsKept`: each node in a list is the `next` of its `prev` and the other way round, and
both stay inside the list. The lemmas on `ListInsert` and `ListRemove` are about any set of nodes
whose pointers are inverse, so that nothing is needed of the nodes of other lists, nor of how
many there are. For `RefinesDeques` a ring is read as the sequence it holds (`Shows`: place by place
from the head, each element once). Each function of list.c adds or drops one place of it (`Added`,
`Dropped`), moves all of it, or leaves it alone, and the community modules' operators on sequences do
the same. What the walk computes is a recursive function: that it exists, and that it reaches each
place, is shown with the least element of a set of numbers (`LeastNat`, `SetInduction`,
`FunctionExists`), since the library's induction theorems are out of this prover's reach.

*Hmap.* `TableInv` says of the memory what is local to each node (`Chains`): the node is the first of
its bucket or the next of exactly one other, the next one is of the same bucket, and a position that
grows along the pointers shows that no chain is a circle. Putting a node in front, taking the first
or one behind another, and exchanging one keep this, whatever the hash function. `resize` moves one
node at a time: those that are left are in the old array where they were, the others in `tmp`
(`Moving`), and after as many turns as there are nodes none is left (`LoopsMoveAll`), so that swap and
destroy leave one array. A walk has ahead of it what it has not visited, as chains of its own that
begin at the iterator (`Ahead`); removing the node it is at disturbs none of them, and nothing in
them leads back to it. A lookup finds each node because the first one missed would have one before it
that was found, and it ends by the pigeonhole principle. Theorems `TableIsComplete`, `WalkIsComplete`.

*PktList.* What is left of a turn's packets hangs from the list in order, and is what is allocated
(`Left`); or the fragment that was linked twice leads to itself, and its node is freed (`Looped`).
`PacketsSentOnce`: outside that case each packet is sent once, in order, and none leaks.

*PollEvent.* `PollInv`: between turns `timeout_when` is the first of the deadlines that were
registered, and inside poll the time it was called with reaches that far or INT_MAX, for any number
of interruptions. `PollNotEarly` is the half of `DeadlineKept` that is about safety.

*Csum.* At 16 bits and for headers of any length the partial sum has room for: the sum equals
that of the words, `csum` is 0 for the headers that add up to all ones and no other
(`VerdictExact`), and what it computes is right or one too high (`CarryBounded`).

*Framing.* `FramesRestored`, for any data and MTU: what is on the link is a frame of the first `k`
bytes of the data, those that fit, with any noise before it (`Carried`). The reader takes the frame from its
first `BREAK` on: escaping leaves no other in it, so that it gets back what was written, and without
the last `BREAK` never a status of success.

*SendFit.* `CutInv`: after each cut of `send_patch`'s loop the message is still a beginning of what
was asked for and the number of slices is that of its length. `MessagesCutSoundly` is for slices of
32 bytes; for those of 950 (`BigSlicesCut`) `NeverGivesUp` is false, as one slice of escaped bytes is too
long for the link.

*Bitmap.* `BitsInv`: the words hold the bits of the slices that came and no other. `ListInv`: what
the loop of `send_ack` has listed when it goes on at `next_k`. `BitmapIsExact` holds for any word size and number
of slices, `OneWordIsSet` links it to the set that `Split` uses.

*FlowClock.* `ClockInv`: a deadline is at most the interval after the last use, and just that while
the clock has room in an int; cut to the width it only gets earlier. `TimerForgetsIdle`.

*CompactCodec.* `CodecInv`: what is on the link is the packet taken from the tun as built, and what
was restored is right for it, kind by kind. `CodecRestores` for any set of bodies.

*Crc.* Registers are a recursive function of the index, so lemmas go by induction over the index
with sets in place of predicates (`SetInduction`). The entries of a table at powers of two are each a
turn of the next (`ColumnsTurn`), and each of the 256 entries, as it stands in crc.c, is the exclusive
or of those at the powers of two its index is made of (`Crc8Adds`, `Crc16Adds`, `HighAdds`, `LowAdds`,
entry by entry). Eight turns are linear in the register too, and so a byte's step is eight
turns of the register xor the byte: `EightByte`, `TablesAreDivision`. A turn leaves nothing of nothing only;
damage in a run of as many bits as the checksum has, shifted down, stays within the register and is
not lost (`RunsTold`): `RunsRefused`, for parts of any length and content. The state invariant
`CrcInv` is small: what was sent is `Filled`, what arrived has its length, and what is accepted
passed the check. `SentAccepted` shows that sender and receiver cover the same bytes.
`OneFlipRefused` is `ChecksumsGuard` for a link that flips one bit or a run. For two and three
scattered bits the proof would need the order of the polynomials; `FlipsDecide` reduces it to the
positions of the bits, so that TLC's enumeration of these for one content of a length speaks for all
of that length.

*Only model-checked.* Liveness (`EveryMessageResolved`, `EveryMessageConfirmed`, `PendingSettles`,
`LoopEnds`, the other half of `DeadlineKept`, the fairness part of `ImplementsMutex`), which needs
reasoning about ENABLED that the prover does not have; `TablesSound` as the one formula that the run
checks (its three parts are proved, each in the module it is of); `ImplementsService` where numbers
wrap within a run but not between messages of one queue (`split_prompt` has as many numbers as
messages); and `FlipsRefused` for two and three scattered bits.

## 5. Not modelled, and the plan

Done: the core (`Split` with its service and proofs), the lock, the id pool, the flow life cycle,
the threads, the library's data structures and the formats.
Next, in this order:

1. `Pipeline`: `CompactFlow` over `LinkService` in both directions, in place of its channel.
2. Proofs: `FlipsRefused` beyond one bit, which needs the orders of the polynomials.

Left out for good: `tun.c` and the sockets of `udp.c` (I/O; the link is modelled from its use),
the arithmetic of `hash.c` (hash values are chosen by the model), `rand.c` (tests only), the packed
layout of headers, printing, and `split_cleanup`, `cleanup_idpool` and `recalc_csum16`, which
nothing calls.
