# A verification project for ChainSketch

ChainSketch finds heavy flows and heavy changes in packet traffic with a small
table of (flow, count) buckets.  This directory holds TLA+ modules translated
from its sources, the TLC configurations that model-check them on small
instances, and TLAPS proofs about them.  Paths such as `chainsketch.cpp:82` are
relative to the repository's `src/`.

## 1. The system

| Component | State it keeps | Operations | Modelled by |
|---|---|---|---|
| chain sketch (`chainsketch.cpp`) | depth x width buckets; the **globals** `loc`, `ii`, `bucket1` | Update, Query, Query2, Reset | `ChainSketch`, abstract `FlowTable` |
| heavy changer (`heavy_changer.hpp`) | two sketches, current and old | Update, Query, Reset (rotate) | `HeavyChanger` |
| heavy-changer driver (`main_changer.cpp`) | ground truth of two epochs, file number | per file: count, rotate, feed, report | `MainChanger`, abstract `ChangeMonitor` |
| heavy-hitter driver (`main_hitter.cpp`) | ground truth of a file | per file: count, feed, query | `MainHitter` |
| trace adaptor (`adaptor.cpp`) | a buffer of tuples and a cursor | load a pcap file, GetNext, Reset | `Adaptor` |
| packet ring (`OVS/ringbuffer_user.cpp`, `ringbuffer.h`) | six indices, two batch counts, the slots, in shared memory | write, read, read_complete, flush | `ShmRing`, abstract `BoundedFifo` |
| ring set-up (same file) | a named shared memory object, a semaphore | create, connect, close | `UserReader` |
| user reader (`OVS/user_reader.cpp`) | three rings, a cursor, a packet counter | poll round robin, feed the sketch, SIGALRM report, stop on TERM | `UserReader` |
| OVS chain sketch (`OVS/chainsketch.cpp`) | as above, without the globals | Update, Query, point queries, Reset | `OvsChainSketch` |
| MV-Sketch (`OVS/mvsketch.cpp`) | buckets of (flow, vote, total) | Update, Query, estimates, MergeAll | `MVSketch` |
| P4 pipeline (`P4/chainsketch.p4`) | three rows of register pairs, a recirculation header | first pass, second pass | `P4Pipeline` |
| P4 scripts, hashing, utilities | - | - | not modelled (section 8) |

How they meet: a driver owns an adaptor and one sketch (hitter) or a heavy
changer with two (changer); both sketches of a changer use the same hash seeds
and the same globals.  On a switch, OVS threads write packet tuples into shared
memory rings, and the user reader, a process of its own, polls them and feeds a
sketch; the two processes share nothing but the rings.  The P4 program is an
independent implementation.

What is hard in each:

* **Sketch**: one update can merge, swap, copy or forget buckets and absorb one
  in mid-walk, under two lotteries.  Flows end up in several buckets and in
  buckets that are no home of theirs.  The victim is kept in a global.
* **OVS sketch and MV-Sketch**: a zero byte at the front of a key means "unused",
  but real keys may begin with one; the point queries read other buckets than
  Query; merged MV-Sketches go on counting and are merged again.
* **Changer**: two tables and two ground truths rotate at different moments and
  must speak of the same two files.
* **Ring**: two processes without locks, four indices that are copies of one
  another and stale on purpose, batches that hide progress from the other side.
* **Reader and set-up**: uninitialised and unsynchronised reads, a stop message
  on one of three rings, a tail that is never published.
* **P4**: a packet decides in one pass and acts in a later one; others pass in
  between, and it may be dropped.

What makes them correct: a packet counts once for its own flow and takes only
from the flow it displaces; nothing of an earlier epoch comes back; a report
compares two consecutive epochs; tuples come out of a ring whole, once and in
order; and neither side of a ring waits for the other for ever.

## 2. Modules

**`FlowTable`** is what a sketch promises, as estimates per flow: a packet
either changes nothing or is added to its flow's estimate, possibly with more
that the flow inherits; at most one other flow loses, and no more than that
surplus.

**`ChainSketch`** has `counts` (the table), `loc`, `home` (the hash functions,
an arbitrary member of `HashFamily`) and `running`.  `Update` is one atomic
action, as the program is sequential, with a disjunct per way through the
function: `Hit` (lines 66-74), `Win` (84-134), `Lose` (the lottery of line 84)
and `NoVictim` (line 82 with `loc = -1`).  `Win` splits into the branches of
lines 88-132: `ReplaceMerge`, `ReplaceSwap`, `ReplaceRelocate` (a lottery of the
walk is won), `ReplaceExhaust` (the loop ends) and `ReplaceAlone` (one column).
Random numbers are choices: a lottery may go either way, except against an empty
bucket, where `po = 1` always wins, and on a victim with `count < val`, which is
always replaced.  The walk visits `Cell(b, 1)`, `Cell(b, 2)`, ...; the arriving
flow is absorbed only where the code compares keys, after a step (121-126), so
at `r > 1`.  `Scanned` keeps the old `loc` when all probes are saturated, as the
code does.  `recorded` is a ghost: packets not turned away since the last Reset.

**`OvsChainSketch`** is the table of the OVS build, a different program: the
victim is local, every packet counts one, a packet whose homes are all saturated
is dropped (`Drop`), and the guard of the walk (`OVS/chainsketch.cpp:107`)
compares a count with itself plus another one, so `ReplaceForget` is all that is
left of the walk.  `Query` and the three point queries are operators; they sum
over a home and the three buckets after it, and over what line 206 reads instead.
With fewer than four columns the four buckets overlap and a count is reported
several times, so the properties about reports speak of wider tables.

**`MVSketch`** is the majority-vote sketch: several sketches over one hash
family, `Update`, `Reset` and `MergeAll(t, arr)`, which makes `t` the summary of
the sketches of `arr`, itself possibly among them.  `seen[s]` is a ghost: the
packets that `s` stands for, the sum of those of the merged sketches.

**`HeavyChanger`** instantiates `ChainSketch` for the current table; `old` is a
second table.  `Reset` clears the older table and makes it the current one.
**`MainChanger`** is the driver: `Open` (count a file, rotate), `Feed`,
`FeedLast` (the tuple after the last one that `GetNext` returns because it tests
`cur > cnt`), `Report`.  **`ChangeMonitor`** extends `FlowTable` with the
estimates frozen at the end of the last epoch and a report of differences.

**`Adaptor`** is the trace reader: `Store` decides which packets of a file become
tuples, `GetNext` hands them out and then the one behind them.  **`MainHitter`**
composes it with `ChainSketch`: `Open` to `ReadDone` load a file, `Count` and
`Feed` are the two passes, `CountDone` makes the new sketch, whose `loc` is still
the global of the files before, and `FeedDone` queries and reports.  A file that
cannot be opened ends the program (`OpenFails`).

**`ShmRing`** has one variable per field of `RBMeta`, the slots, a program
counter per side and two ghosts.  Every access to memory the other side also
accesses is a step: the two loads of `readIndex` in write (`WCheck`, `WLoad`), its
store of `localReadIndex` (`WStore`), which may put back an older value than
`read_complete` has stored there meanwhile, the two loads of `writeIndex` in read,
both halves of each `memcpy`, the publishing stores, both stores of `read_complete`
and the load and store of `flush`.  The reader's store of `nextReadIndex` goes with
the copy before it: of the writer's functions only `flush` looks at it.  The
tuples are their sequence numbers, stored in two words so that a torn one shows.
`extra` fixes which function besides read and write the two programs call.

**`BoundedFifo`** is the bounded queue of tuples the ring implements.

**`UserReader`** is the packet path around the rings: per ring a datapath thread
that creates it by name in steps (`Unlink`, `Open`, `Zero`, `Post`), writes in
batches, may die anywhere (`Crash`) or close it, and create it again; and
`user_reader` with a `pc`: it connects to every name in order, then tests `t`,
polls (`Skip`, `Take`), counts and feeds.  A ring is a record of queues, what
`BoundedFifo` allows plus what the writer has not published and the reader has
not given back.  The error exits are there as well: a creator without memory or a
semaphore takes the name back and ends (`CreateFails`), a reader that cannot size
or map a ring (`ConnectFails`) removes its name, whoever owns it by then, and ends
(`ConnectExit`).  `Alarm` is the signal handler; it may come between any two steps
(the increment of `counter` is one x86 instruction, as calls surround it).

**`P4Pipeline`** has the register pairs (`bucket`, `data`), the packets between
their passes (`recirc`) and two ghosts that count packets.  `FirstPass` is the
branch of line 832 for a new packet: `Count` (a row hits), `Miss` (victim chosen,
recirculated) or `Drop`; `SecondPass` is the other branch.  A pass is one step,
because packets cross the stages in order.  The registers refine `FlowTable`
over source addresses, which are the keys; the locations come from 5-tuples.

`MC...` modules only give values to constants; `...Proofs` modules hold theorems
and `FiniteSums` the lemmas about sums they share.  `ShmRingProofs` extends the ring
and the programs around it, which is why the specification of `UserReader` has names
of its own (`ReaderSpec`, `ReaderNext`).
Definitions marked "Variant" are not part of a specification: each is a plausible
mistake in the definition next to it, used to confirm that a property notices.

## 3. Runs

| Run | Instance | Shows |
|---|---|---|
| `chain` | 2 rows x 4 columns, 4 flows, increments 1 and 2, cap 3, 8 packets per epoch | `NoPhantomFlow`, `FewFlowsExact`, `CrashOnlySaturated`, `LandsHome`, `NeverLowered`, `FreeNeighbourKeepsVictim`, refinement of `FlowTable` with stale victims, types |
| `changer` | 2 x 2, 3 flows, 3 files of up to 3 packets and the extra one, threshold a third | `NoGhostChange`, `SparseExact`, `ChangeExists`, refinement of `ChangeMonitor`, types |
| `hitter` | 3 x 1, 4 flows, 2 files of up to 4 packets and the extra one | `SparseReport`, `RecallDefined`, `ColumnMassExact`, types |
| `ovs` | 2 x 4, cap 4, 3 flows and the zero key, 9 packets per epoch | `OneBucketPerFlow`, `ReportsWithinStream`, `PointQueryAgrees`, refinement of `FlowTable` |
| `ovs_chain` | the same | violates `DisplacedFlowChained` (section 6) |
| `mv` | 2 sketches of 2 x 2, 5 packets each | `EstimatesBracket`, `MajorityReported` |
| `ring` | 6 slots, batch 3, 15 tuples, fair reader; alone, with read_complete or with flush | `PointerOrder`, `LagBounded`, `InOrder`, `NoStandoff`, refinement of `BoundedFifo`, `PublishedIsRead`, `FullDrains`, types |
| `ring_flush` | 8 slots, batch 2, with flush | violates `ReaderLag` (section 6) |
| `user_reader` | 2 rings, batch 2, one of them created twice and sending TERM | `ZeroDiscardsNothing`, `ReportOffByOne`, `ConnectsWhenAllExist`, `ServedWhenOthersQuiet` |
| `user_connect` | the same | violates `ConnectWaits` (section 6) |
| `p4` | 3 locations per row, 5 flows of 4 sources, 8 packets | `VictimOccupied`, `CountedOnce`, `FirstTwoMirror`, refinement of `FlowTable` |
| `p4_shadow` | the same | violates `AllMirror` (section 6) |

Why the bounds are enough.  Three hash families make flows share all homes, some,
or only one row; four columns let a walk of length two (`chainlength`) leave its
start and meet the arriving flow's own bucket on the way (at its end only one
already emptied).  Eight packets fill both homes of two flows, displace a third and move it twice.  A cap of three instead of
99999999 saturates all homes of a flow within the bound, so that a victim is taken
which an update of another flow chose; the cap enters only through `count < min`.
The changer's threshold of a third of at most six differences is 0, 1 or 2, and
three flows that changed by one are the case `ChangeExists` leaves out.
In `ring`, every index wraps at least twice and two batches just fill the ring,
the tightest case of `2 * B <= N`, in which a late publication would block both
sides; in `ring_flush` a batch is a quarter of it.  `RB_SIZE` and `RB_BATCH` are 2000 and 50, and the properties
depend on them only through `2 * B <= N`, which the proofs cover for all values.
Two rings are enough for the reader to leave one for another, and two creations
for it to hold an old one; `MaxRate` bounds the packets between two alarms, and
traffic is otherwise endless.  In the pipeline three packets fill the three rows
for a key, the others miss, and up to five are between their passes at once; the
hash families put rows 2 and 3 at locations that are, and are not, the number of
a row, which decides the row that is replaced.  In `ovs` the cap of 4 is reached, so
that packets are dropped, and nine packets fill both homes of all flows first; one
hash family makes them share all homes.  In `mv` five packets change the candidate
of a bucket twice, and arrays name a sketch that was itself merged, and the
target.  The hitter has one column, so that all flows collide in every row and
more flows than rows displace one another, and packets of every protocol that
`Accepted` tells apart, captured in full and not.  `MaxArrivals`, `MaxFiles`, `MaxPackets`, `MaxSeq`,
`MaxCreations` and `MaxRate` bound the runs, not the code.

Deadlock is not checked where the program ends: `chain` (the process
may die), `changer` and `hitter` (the list of files ends), `p4` (the packets end)
and `user_reader` (the reader stops on a TERM).

**Fairness.**  `ring` and `user_reader` assume weak fairness of the reader's
steps, since `user_reader.cpp:106` polls without blocking, and `user_reader`
that the timer fires.  The progress properties of `ring` speak of programs that
call neither read_complete nor flush, as those of the repository do.  Nothing is assumed of a writer or creator: it may stop
anywhere, even between the two halves of a tuple.

**Memory.**  The ring is sequentially consistent in the model.  The indices the
two sides share are `volatile int`, the copies are calls of `memcpy`, and the
rings are used on x86, which keeps stores in order and loads in order; the
store-load reordering it allows concerns no pair of accesses that either side
relies on.  The compiler barriers of `ringbuffer.h:20-21` are commented out.

## 4. Proofs

`ChainSketchProofs`, `MainChangerProofs`, `MainHitterProofs`,
`OvsChainSketchProofs`, `MVSketchProofs`, `ShmRingProofs` and `P4PipelineProofs`
prove, for every value of the constants that the assumptions admit, what follows.
`FiniteSums` is the library they share: sums over finite sets, how much a table
*holds* of a flow (`HeldTotal`: over all flows, the counts of the table), and
`MovesRecorded`, by which giving one bucket away and writing one other is a step
that `FlowTable` allows.  Sums over sets need them finite: the flows are finitely
many, as keys of 13 bytes are.

**Chain sketch**, from `TableAssumption` (positive sizes, finitely many flows with
the zero key among them, hash functions map into the columns).  `TypeCorrect`, `PhantomFree`,
`CrashNeedsSaturation`, `UpdateLandsHome`, `UpdateNeverLowers`; the inductive
invariant is `TypeOK /\ NoPhantomFlow /\ CrashOnlySaturated`: the phantom part
needs types for the counts to be comparable, and the crash part must say that
`loc` is still unset, which only holds because a dead process stops.  The lemmas
follow the code: what the scan returns (`ScannedInTable`, `NoLightest`), what a
step of the walk leaves (`WalkStep`, `WalkShape`), and what every branch of the
replacement comes down to (`ReplaceReplaces`): the victim's bucket goes to the
arriving flow with no less than it had, one other bucket receives the victim's
flow or keeps its own.  `ImplementsFlowTable` turns that into sums: each branch is
one of the `Moves` of `FiniteSums`, and so every update a `Record`.
`FreeNeighbourKeeps`: the walk stops at an empty neighbour, which takes all.

`FewFlows` needs to know where flows are.  Its invariant `Placed` says that as long
as packets of at most Depth flows were recorded, a bucket in use is a home of its
flow and the homes of that flow in the rows above are held by others (`AtHome`), and
that a recorded flow has a bucket with the whole of its count (`InTable`).  A packet
that finds no place would meet Depth other flows, one per row, all different
because each has one bucket, and its own flow makes one more than Depth.  Its lemmas
speak of a single update, so that both drivers use them.
`Mass` is the other invariant the hitter needs: in a table of one column a
replacement gives the victim's bucket away with its count, so that the counts add
up to what was recorded, and estimates to no more (`EstimatesWithin`).

**Heavy changer and driver**, from `ChangerAssumption` (as for one sketch) and
`DriverAssumption` (a threshold fraction of at most one).  `MainChangerProofs`
instantiates `ChainSketchProofs` for the current table and uses its lemmas.
`NoGhost` needs `KeysKnown`: the keys of the current table are those of flows of
this file, those of the old table of the file before, the zero key among them,
because every file hands out the tuple behind its last one; nothing is reported
between a rotation and the next report.  `ImplementsMonitor` adds
`FilesBounded`, so that the threshold is one the monitor may be asked for, and
that a flow in neither table has two estimates of 0.  `SparseReports` takes
`Placed` for the current table and relates each table to its ground truth
(`SparseInv`): while a sparse file is read, the truth of a flow is what was recorded
plus what `GetNext` has still to hand out, the tuple behind the last one included
(`CountsCurrent`); after the rotation the old table's estimates are the truth of
the file before (`CountsOld`).  With both the report is the set of true changes.
`ChangeFound`: if no flow changed by more than the threshold, fewer than 1 / thresh
changed flows are too few for the threshold to be what it was cut off from
(`ShareTooSmall`, a lemma of `FiniteSums`, which serves the hitter as well).

**Hitter**, from `HitterAssumption` (that of the sketch, packets belong to flows).
`MainHitterProofs` instantiates `ChainSketchProofs` for the table.  `ReadingInv`
says that the ground truth is the number of tuples of a flow among those handed
out (`Handed`), the zero tuple behind the last one included.  `SparseFiles`: in a
file of at most Depth flows every packet is recorded (`AllRecorded`, from `Placed`)
whatever `loc` was left behind by the files before, so that the estimates that
Query reports are the true counts.  `RecallIsDefined`: the zero tuple makes the
file's ground truth nonempty, and if no flow exceeds the threshold, fewer than
1 / thresh flows have too small a share of the packets for the threshold to be
what it was cut off from (`ShareTooSmall`).  `OneColumnExact` carries `Mass`
through every file: a new sketch starts from nothing, and a report names each flow
once, so that it adds up to no more than the table holds and that to no more than
the tuples counted.

**OVS sketch**, from `OvsAssumption`.  `OneBucket` needs `HomesOnly` (without
zero-key packets a flow is only ever in one of its homes: no merge, no swap, no walk),
`EmptyIsZero` (an unused bucket has the zero key) and `RowsAboveHeld` (of a flow in row i, the
homes in the rows before are in use), so that a packet finds no unused bucket
before the one its flow already has.  `ImplementsFlowTable` holds with
zero-key packets too.  `ReportsShareStream` and `PointQueriesAgree` unfold the sums
of sums in the queries: a flow has one bucket (`Single`), and a home with the three
buckets after it, four different ones in a table wider than three, contains that
bucket in its row only, so that Query reports it once (`SecondsIs`); the counts of
all buckets together are at most the packets (`Within`).  A point query finds the
same bucket, and adds a count only where a bucket `Flat(i)` has the flow's key.  **MV-Sketch**, from `MVAssumption`.  `Bracketing` and
`MajorityFound` rest on `Sound(e, n, b)`: the lead of bucket `e` is at most the
candidate's packets and at most `sum`, and unless the bucket saw a flow that begins
with a zero byte, twice a flow's packets are at most `sum` plus the lead for the
candidate, and `sum` minus the lead for any other flow.  `VotedSound` is the step
of Update, `MergedSound` that of MergeAll, for any number of sketches in the array
and with repetition.

**Ring**, from `2 * B <= N`.  `RingTypeCorrect`, `OrderCorrect`, `LagsBounded`,
`TuplesInOrder`, `NoStandoffEver`, `ImplementsFifo`.  The invariant is
`TypeOK /\ OrderInv /\ LagInv /\ DataInv`.  `OrderInv` says that the five
distances between consecutive indices of the diagram add up to the distance from
the first to the last, and what each side knows between a check and the step that
relies on it: `loaded`, the value `WLoad` found, is one from which the ring is not
full and which lies behind the published index (`OldOrder`), so that storing it over a newer one takes
room away and gives none, and `wpc = "copyLo" => ~Full(localReadIndex)`.  Without
these the order is not preserved.  `LagInv` ties each published index to the batch count,
`DataInv` says that the slots from the reader to the writer hold the next tuples.
For the refinement, `FlightInv` says that those slots, read off in order, are the
numbers `got + 1` to `written`.  What is true only if `flush_ringbuffer` is not
called says so in the property (`LagBounded`, `NoStandoff`).

**Reader and set-up**, from `ReaderAssumption`, in `ShmRingProofs`.  `InitialisationHarmless`: names
and mappings refer to creations already made, and a creation not yet made is
blank (`MadeInv`, `FreshInv`); so a reader that takes a tuple holds another object
than the one being initialised.  `ReportsExact`: the counter is ahead of the
tuples fed by one at most between counting and feeding, and behind by one at most
elsewhere (`ReportInv`), wherever the signals fall.

**Pipeline**, from `PipelineAssumption`.  `VictimsOccupied` and
`ShadowsOfFirstTwo` with the invariant `TypeOK /\ VictimOccupied /\
FirstTwoMirror`: a packet misses only where all three buckets are in use, and no
pass lowers a count.  `PacketsCountedOnce` and `ImplementsFlowTable`: a pass
credits one bucket, so the sum over the registers grows by one, and the flow that
is overwritten loses what the arriving one inherits.

## 5. Model-checked only

Liveness (`PublishedIsRead`, `FullDrains`, `ConnectsWhenAllExist`,
`ServedWhenOthersQuiet`): these rest on fairness, and so on when an action is
enabled, which the provers do not handle.  Every other property of a passing run is
the conclusion of a theorem.

## 6. Findings

`ring_flush`: the diagram of `ringbuffer.h:23-33` promises that the reader's
published index trails its own by at most a batch.  `flush_ringbuffer` loads
`nextReadIndex` and then stores `readIndex`, on the writer's side; if the reader
publishes in between, `readIndex` moves backwards.  No tuple is lost (`InOrder`
holds, and is proved, with flush), the writer merely sees less room.  A program
pair that used flush **and** read_complete together would also lose the order of
the indices; the model excludes that pair (`extra` is one of the two), and no
program of the repository uses either.

`user_connect`: "wait for signal to init the ring buffer"
(`OVS/ringbuffer_user.cpp:130`) comes after the `return` of line 128, so a reader
may hold a ring that its creator has not initialised.  `ZeroDiscardsNothing`
shows that no tuple is lost by it, because a new object is blank and a reader of
blank indices stores nothing.

`p4_shadow`: "the value is the same as the lower 32 bit of register
bucket_array_3" (`P4/chainsketch.p4:528`) fails after a replacement in row 3,
which counts in the shadow register at `mdata.loc_1` (580) instead of
`mdata.loc_3`.  The shadow is what a later miss reads to choose its victim, and
what a control plane would read.

`ovs_chain`: README.md:3 says that ChainSketch "utilizes the hash chain" and is
implemented on OVS, and README.md:14 calls `OVS/` "the implementation of chainsketch
on OVS".  The guard of that build's walk (`OVS/chainsketch.cpp:107`) asks a count to
exceed itself plus another one and never holds, so a displaced flow is forgotten
even when the next bucket of the chain is unused.  The trace-driven build keeps it:
`FreeNeighbourKeepsVictim` holds there, and is proved.

Observations that contradict no document:

* sketch: estimates may exceed the true count (an arriving flow inherits its
  victim's count); a flow may drift further than `chainlength` from home over
  several displacements; unused buckets make the all-zero key appear in `Query2`
  with count 0; `Query` keeps estimates equal to the threshold while the driver
  counts true flows only above it, so that a flow at the threshold costs precision;
* OVS sketch: without packets of the zero key a flow is in one bucket at most;
  packets are dropped where all homes are at the cap;
  with fewer than four columns `Query` counts cells twice; the point queries
  compare the key of `counts[i]`, i a row number (206), and then add the count of
  another bucket;
* changer: for two equal files `cnt` and `results.size()` are 0, and precision and
  recall are 0 / 0 (97-98); precision is so whenever nothing is reported;
* MV-Sketch: a candidate whose first byte is zero is replaced at every packet (52),
  and the up estimates of the flows it shares buckets with are then too low;
* reader: one that cannot size or map a ring removes its name (112, 119), which may
  by then be that of a newer ring, whose creator goes on without a name;
* reader: one that connected before its ring was created again keeps the old
  object for good; `idx` moves on only from an empty ring, so a busy ring can keep
  the reader; the first test of `t.flag` reads an uninitialised variable and may
  end the program; a TERM tuple is counted and fed like a packet, leaves the other
  rings unread, and is itself seen only when its batch is full; reports come after
  5 seconds and then every second (98, 60), where the comment of line 96 says 5;
* P4: the victim is not the lightest of three, because `min` is given the
  constants 2 and 3 (615, 626) and `minimal_loc` a location instead of a row (704,
  715); a replacement always succeeds, because `can_replace` is never computed
  (804-808 has no default action), and `num32` (769) is never written.

## 7. Plan

Done: every component with logic of its own is modelled, the sketches, the driver
of the changer and the ring are shown to implement their abstract specifications,
and these refinements, every invariant and every action property are proved.  What
is left: `UserReader` over `ShmRing` itself instead of the queues it implements.
The product of three rings is beyond what a run of minutes can explore; a proof
would compose the theorems of both.

## 8. Not modelled, and why

Parsing of pcap records and construction of keys (input decoding; `Adaptor` models
which packets are kept, and where the cursor goes); the adaptor of the OVS
directory, which is the same code as the one modelled and in no Makefile; the hash
functions (third party; homes are arbitrary); the control scripts of the switch
(calls into its control API); logging, timing and printed metrics; kernel-mode
rings (`connect_ringbuffer_kshm`, whose other end is not in the repository);
`SetBucket` and `GetTable` of either sketch (unused).  Counts are unbounded in the
models; in the code they are 32-bit, and saturate in the P4 registers.
