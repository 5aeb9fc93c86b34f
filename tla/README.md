# uPSU: an unbalanced private set union, modelled in TLA+

uPSU lets a *receiver* with a large set learn which items a *sender* with a
small set adds to it. It is Microsoft APSI turned around (APSI's roles are
swapped: here the sender asks and the receiver holds the database), completed by
a private equality test and an oblivious transfer. This directory holds TLA+
models of the parts whose correctness is hard to test, TLC configurations that
check them, and TLAPS proofs of the results that matter most. `PROJECT.json`
lists runs, mutants, the source lines of every definition, findings, hazards and
theorems in machine-readable form. Paths below are relative to `src/`.

    tlc -config UnionQuerySingle.cfg MCUnionQuery      # check one run
    tlapm UnionQueryProofs.tla                         # check one module's proofs

## 1. The system

### One query, end to end

1. `sender_cli` asks for the parameters (`Sender::RequestParams`), hashes its
   items into a cuckoo table, encrypts the table's columns and some of their
   powers (`Sender::create_query`) and sends them over ZeroMQ.
2. `receiver_cli` (`ZMQReceiverDispatcher::run` -> `Receiver::RunQuery`) answers
   how many *result parts* will follow, draws a random mask for each cell of the
   result, computes the missing powers on the thread pool
   (`PowersDag::parallel_apply`), and lets one pool task for each bin bundle
   cache evaluate its matching polynomial, add the mask and send the part.
3. Worker threads of the sender (`process_result_worker`) claim parts from an
   atomic counter, receive, decrypt and copy them into a matrix. A block equals
   the receiver's mask exactly if the item is in that bundle.
4. Both run `DDHPEQT` over a TCP stream (`NetIO`, port 59999): the receiver
   learns *where* the matrices agree, under a permutation only the sender knows.
5. The sender permutes its items the same way; the receiver obtains those at
   unmatched places by oblivious transfer (`ResponseOT`/`RunOT`) and writes
   `union.csv`. Depending on the flags in `common/apsu/log.h`, steps 5 and a
   cardinality-sum protocol on port 58888 are compiled in or out.

### Inventory

| Component | State | Operations | Interacts with | Hard about it | Correct when |
|---|---|---|---|---|---|
| Powers planning: `common/apsu/powers.cpp`, `util/utils.cpp`, `psu_params.cpp` | `nodes_` | `configure`, `create_powers_set`, `initialize` | run by sender and receiver alike | gaps in the powers, boundaries | accepted parameters configure; the DAG is closed and depth-optimal |
| `parallel_apply`: `common/apsu/powers.h` | atomic `node_states`, the ciphertexts | claim, check parents, multiply, mark | `ComputePowers`, thread pool | lock-free races, spinning | one owner per node, parents first, all done on return, returns |
| Polynomial evaluation: `receiver/apsu/bin_bundle.cpp` | `batched_coeffs` | `eval`, `eval_patstock` | the powers' NTT form and level | two algorithms chosen in three places | every coefficient once, at its power, operands in form |
| Receiver: `receiver/apsu/receiver.cpp` | `random_matrix`, `random_plain_list`, `ans` | `RunParams`, `RunQuery`, `ProcessBinBundleCache`, `RunOT`, `Cardsum_receiver` | dispatcher, database, channel, NetIO | fan-out, index arithmetic, padding | masks and parts belong together, matches are right |
| Sender: `sender/apsu/sender.cpp` | cuckoo table, `decrypt_randoms_matrix`, messages | `create_query`, `request_query`, `process_result_worker`, `ResponseOT` | channel, NetIO | racing workers, out-of-order parts, permutation | all parts placed once; the union is the difference |
| Equality test, NetIO: `thirdparty/include/Kunlun` | socket, stream | `Send`, `Receive`, connect, accept | both parties | untyped bytes, blocking | stays in step |
| Dispatcher, programs: `receiver/apsu/zmq`, `cli/` | the dispatch loop | `run`, `remote_query` | all of the above | waits on three channels, races on ports | fitting queries are answered; both programs end |
| `ReceiverDB`, `BinBundle`, `CuckooFilter`: `receiver/apsu` | bins, filters, caches, `hashed_items_`, lock | insert, overwrite, remove, strip, clear, save, load, `get_cache_at` | thread pool, query | partial failure, stale caches, eviction, checks outside the lock | contents = the set; caches fresh; a query uses what it announced |
| Thread pool: `common/apsu/util/thread_pool.h`, `thread_pool_mgr.cpp` | queue, workers, reference count | enqueue, resize, waits, destroy | everything | nested waits, shutdown, lost wake-ups, exceptions | every task runs once; the pool outlives its tasks; no deadlock |
| Channels: `common/apsu/network` | socket or stream, locks, counters | connect, bind, send, receive | both parties | concurrent senders, malformed messages, reconnects | typed messages arrive, answers at those who asked |
| Serialization: `*_operation.cpp`, `*_response.cpp`, `result_package.cpp` | - | save, load | channels | parts up to one that does not fit, foreign contexts | what is loaded is what was sent |
| Query: `receiver/apsu/query.cpp` | validity | constructor | database, powers | early returns | only well-formed queries run |
| Parameters: `common/apsu/psu_params.*` | - | `Load`, `load`, `save`, `initialize` | both parties | extreme numbers, derived quantities | both sides derive the same; bins exist |
| Item and label encoding: `util/db_encoding.cpp`, `util/label_encryptor.cpp` | - | bits to field elements and back, encryption of labels | database | bit boundaries | round trip |
| Interpolation: `common/apsu/util/interpolate.cpp` | - | roots, divided differences, Newton | `BinBundle` | padding, equal points | roots are the items, labels at their items |
| Block packing: `receiver.cpp`, `sender.cpp` | - | `vec_to_std_block` | equality test | shifts, odd numbers of elements | no two masks give one block |
| Permutation network: `common/apsu/permute` | switches, cache file | Benes routing, oblivious network | nobody calls it | recursion, chunks of threads | routes every permutation; shares add up |
| OPRF: `common/apsu/oprf` | key, factors | blind, process, extract | database, thread pool | exceptions under tasks | same hashes on both sides |
| FourQ, logging, examples, other third-party code | - | - | - | - | not modelled, see section 7 |

The hazards, each at its line with the properties that watch it, are listed in
`PROJECT.json` under `hazards`; those without a property say why.

## 2. The modules

| Module | Models | Uses |
|---|---|---|
| `PowersConfig` | the parameter checks, `create_powers_set`, `PowersDag::configure`, as operators | - |
| `PowersDag` | `parallel_apply` with the multiplication `ComputePowers` gives it, for a DAG given as a constant | - |
| `PowersDagThrows` | the same when a product throws, with the caller that waits, and leaves first | `PowersDag` |
| `PowersDagProofs` | proofs about both | `PowersDagThrows` |
| `PolyEval` | parameters -> configured DAG -> forms of the powers -> evaluation of one bundle | `PowersConfig` |
| `Params` | parameters from JSON to both parties, by saved databases and responses, and what they derive | `PowersConfig` |
| `UnionSpec` | the abstract promise: the receiver learns the difference, in one step, and nothing else | - |
| `UnionQuery` | one query, steps 1-5 above: both parties, pool tasks, workers, equality test, shuffle | `UnionSpec` as refinement |
| `UnionQueryProofs` | proofs about it: the parts are counted, then followed into the matrix and the answer | `UnionQuery` |
| `CreateQuery` | `create_query` step by step: cuckoo hashing, messages, powers, their order | - |
| `CreateQueryProofs` | proofs about the hashing and the messages | `CreateQuery` |
| `BlockPacking` | `vec_to_std_block` | - |
| `PeerSession` | the two programs' messages, sockets and waits, in every build | - |
| `NetIO` | the TCP stream of the equality test, byte by byte, with the `FILE` and the kernel | - |
| `SessionProofs` | proofs about what travels: the order of messages and of bytes, answers and their channels, buffers and their messages | `PeerSession`, `NetIO`; `ZmqChannel`, `StreamChannel`, `Wire` |
| `Wire` | saving and loading of all messages | - |
| `ZmqChannel` | the ZeroMQ channels of several programs | - |
| `StreamChannel` | the channel on C++ streams | - |
| `Query` | the checks of the `Query` constructor, as operators | `PowersConfig` |
| `Dispatcher` | `ZMQReceiverDispatcher::run` and the programs that talk to it | `Query` |
| `DbSpec` | the abstract database: a map that calls change in one step | - |
| `BinBundle` | the bundle's operations, as operators on values | - |
| `ReceiverDB` | calls on the database, its phases and worker tasks | `BinBundle`; `DbSpec` as refinement |
| `ReceiverDBProofs` | proofs about it: which items are in which bundles, whatever tasks throw | `ReceiverDB` |
| `ServedDbProofs` | proofs of what queries see, and of the refinement | `ReceiverDBProofs` |
| `DbLock` | concurrent calls: the reader-writer lock, and what is read without it | - |
| `CuckooFilterTable`, `CuckooFilter` | the packed table of tags; the filter in front of a bin | `CuckooFilterTable` |
| `ThreadPool` | the pool: queue, workers, waits, resizing, destruction | - |
| `ThreadPoolProofs` | proofs about it | `ThreadPool` |
| `ThreadPoolMgr` | calls that share the pool, nested calls, exceptions | - |
| `LocksProofs` | proofs about `DbLock`, `ThreadPoolMgr` and `OPRF` | `DbLock`, `ThreadPoolMgr`, `OPRF` |
| `ItemEncoding` | items and encrypted labels as field elements and back | - |
| `Interpolate` | the polynomials of a bin | - |
| `Benes`, `OSN` | the permutation network; the oblivious network on it | `Benes` |
| `OPRF` | both sides of the exchange, with the pool's tasks | - |

| Checking module | Extends or instantiates |
|---|---|
| `MCPowersDag` | `PowersDagThrows` with three workers; an ASSUME ties the constants to what `PowersConfig` configures |
| `MCParameters` | `PolyEval`, `Params` |
| `MCUnionQuery` | `UnionQuery` with small tables and location functions |
| `MCReceiverDB` | extends `ReceiverDB` (plain), instantiates it with labels and with calls that may fail |
| `MCNetwork` | `PeerSession`, `Dispatcher`, `ZmqChannel`, `StreamChannel`, `NetIO`, `Wire` |
| `MCThreadPool` | `ThreadPool` |
| `MCLocks` | extends `DbLock` and `ThreadPoolMgr`, instantiates `OPRF` |
| `MCData` | `OSN` with `Benes`, `CuckooFilter`, `CreateQuery`, `BlockPacking`, `ItemEncoding`, `Interpolate` |

Where one module leaves a part to another it says so: `UnionQuery` picks any
cuckoo table where `CreateQuery` builds one, and any database `ReceiverDB` may
hold; `ThreadPoolMgr` takes the pool from `ThreadPool`; `Dispatcher` takes
messages from `ZmqChannel` and `Wire`; `PeerSession` has the messages of `NetIO`
whole; `DbLock` has the changes of `ReceiverDB` as single steps.

How state and actions correspond to the code:

**PowersDag.** `node_states`, `powers` and each worker's `power_idx` are the
variables of the same names (powers are counted from 1). `pc` is the place in
`node_worker`: `Scan` is the `all_of`, `Claim` the first compare-and-exchange,
`CheckParents` the test of both parents with the hand-back, `Multiply` and
`StoreProduct` the callback (read the parents; later, move the product in),
`MarkComputed` the last compare-and-exchange. A ciphertext is the exponent it
holds. Loads of several atomics are one step, which is sound because `Computed`
is final - `ComputedIsFinal`, proved below.

**PowersDagThrows.** `GetFuture` is the caller's `f.get()`: at the first future that
rethrows it leaves `parallel_apply`. `node_states`, `target_powers_vec` and what the
callback captured were its locals, and nobody joins the workers first; so no worker has a
step of the code from then on, only `UseDestroyed`, after which anything may happen
(`caller` = "undefined"). The properties speak of the call as long as it stands
(`Standing`: the caller waits or has returned), and say that it leaves no worker behind
but after a product that threw. That a worker does use what is gone is one of the
deviations in section 4 (`LocalsOutliveWorkers`).

**Params.** A side's parameters are a record, and a buffer what `save` writes: structs and
the vector of powers by position, a table without the numbers that have the default. `Loaded`
reads the fields back one by one; what `initialize` derives is computed anew. A saved
database (`SaveDb`, `LoadDb`) and a response (`Save`, `LoadStream`) carry such a buffer, by
a program of this version or another.

**PolyEval.** A ciphertext is what SEAL checks of an operand (NTT or not, level
in the modulus chain), an evaluation the set of products it adds up. Therefore
`EvaluatesPolynomial` holds for every polynomial and every field at once.
`MultiplyPlainAccepts` and `SameForm` are SEAL's argument checks, external code.

**UnionQuery.** A cell is a pair (cache_idx, bundle_idx). `random_matrix` and
`decrypt_randoms_matrix` are flat, as in the code, and addressed by the code's
arithmetic; `random_plain_list` is the list of cells whose mask it holds, so a
wrong `pack_idx` shows as a mask of another cell. Field elements are abstracted
to blocks: a mask, noise, zero or all-one; random values are taken to differ.
Undefined behaviour is a choice: reading past `random_plain_list` gives noise or
a crash, writing past `shuffleMessages` goes elsewhere or crashes. `db` ranges
over the databases `ReceiverDB` can hold: every item once at each of its
locations, in any bundle there, no bundle empty. `CreateQuery` picks any table
cuckoo hashing may end with, and fails exactly if there is none (KukuTable may
also give up on a table that exists; that is the same step to "failed").

**PeerSession.** `requests`/`responses` are the ZeroMQ channel, `to_receiver`/
`to_sender` the byte stream on port 59999, `listener` who listens there. The
build is a variable that never changes, with the flags `APSU` and `CARDSUM`.
Opening the transfer's session on a port NetIO still listens on depends on the
platform and may succeed or throw.

**CreateQuery.** `in_hand` and `level` are KukuTable's loop: `Place` and `Kick`
are its rounds, the place taken at random. `leftover` decides, as in the code,
between an item that is there already (`SkipRepeated`) and the exception
(`InsertFails`). Field elements are numbers modulo a small prime, so that powers
are computed as the code does and compared with their definition. After the hashing,
`AssignMessages` makes room for the messages and `FillMessage` is one round of the loop
that puts each item's message, and its number for `itt`, where the item is.

**ReceiverDB.** A call goes through the code's phases: `hashed_items_`, tasks for
the bundle indices, the caches. A task keeps the keys of the entries it has still to do
(`todo`) and works through them one by one, in the order of the code,
so that it may throw in the middle while others go on, and outlive the call.
`outcome` is how the last call ended. The bundles are values of `BinBundle`; a
polynomial is the record of what it was computed from, which makes a stale cache
one that differs from its bin.

**DbLock.** Here threads call at once. `writer` and `readers` are `db_lock_`;
`counted` is what a query announced or a save wrote first, `served` what it
went on to use. A waiting writer does not keep readers out, as on the platforms
the programs are built for.

**ThreadPool, ThreadPoolMgr.** What happens under `queue_mutex` is one step;
condition variables are sets of waiters, and notifications wake as many as in
the code. In the manager's module a call is a *frame* - a caller, or a task that
makes a call itself (a stale cache) - with the manager's lifetime, its futures in
order, and an exception that leaves the remaining ones.

**ZmqChannel, StreamChannel, Wire, Dispatcher.** Messages are lists of parts with
routing ids; a buffer is what `save` writes. A faulty or foreign message is
dropped where the code drops it: `receive` returns null, and the stream has lost
what was read. `Dispatcher` keeps the loop's stop flag, the operation in hand and
what each program waits for.

**NetIO.** Every byte is its message and offset. `unsent` and `ahead` are the two
halves of the `FILE`'s buffer, `net` is what the kernel holds (at most
`Capacity`); `Write`, `Push`, `Fill` and `Take` cut messages at will. The scripts
of the two parties are the sequence of calls in `DDHPEQT`.

**OPRF.** The curve is a cyclic group with a cofactor, written additively. `live`
is whether the vector that tasks write to is still there.

**Benes, OSN.** `Route` is the code's recursive search; the vectors of levels and
columns are the code's. In `OSN` a block is a set of atoms and its exclusive or
the symmetric difference, so that no two blocks agree by chance; but those of two threads
agree where the code makes them agree. Every thread's generator has the same seed, so
that the transfers of two chunks are alike at equal places (`Place`) - for the silent
transfer, in chunks of one length, its random choices included. That each message belongs to
one switch does not hold, and is not needed for the shares. No program calls this code.

### Components that share a run

Components that do not act on each other at the level they are modelled at are
checked in one run: a behaviour is one of *one* of them, chosen by a variable of
the initial state (`level` in `MCNetwork`, `part` in `MCLocks`, `algorithm` in
`MCData`, `kind` in `MCReceiverDB`), and the variables of the others stay `"none"` -
or, of a module that is extended because proofs are about its properties, in an
initial state.
A property of such a run speaks of one of them, or says which it is about. Nothing
is composed that way; the compositions are in the modules themselves (`UnionQuery`,
`PeerSession`, `Dispatcher` with `Query` and `PowersConfig`, `ReceiverDB` with
`BinBundle`, `PolyEval` with `PowersConfig`, `OSN` with `Benes`).

## 3. The runs

| Run | Configuration of | Distinct states | Properties |
|---|---|---|---|
| `powers_dag` | `MCPowersDag` | 24,224 | `RightInFrame`, `HarmlessInFrame`, `FinalInFrame`, `ReturnsUnlessThrown` |
| `parameters` | `MCParameters` (`PolyEval`, `Params`) | 240,688 | `PolynomialEvaluated`, `AcceptedAreUsable`, `SidesAgree` |
| `union_any` | `MCUnionQuery` | 2,415,670 | `PackagesBalance`, `AllReceived`, `MatchesSound`, `CardinalityExact`, `MatrixWritten` |
| `union_single` | `MCUnionQuery` | 12,204 | `RefinesUnion`, `QueryAnswered` |
| `receiver_db` | `MCReceiverDB` | 124,440 | `BundlesRight`, `ServedLabelsAgree`, `HashedAreHeld`, `CallsEnd`, `ImplementsMap` |
| `network` | `MCNetwork` (six modules) | 27,034 | `StreamsInStep`, `QueriesAccepted`, `OwnAnswers`, `OnlyRefusedAreLost`, `BytesArrive`, `WireLoadedIsSent`, `QueriesAnswered`, `OperationsArrive`, `Finishes` |
| `thread_pool` | `MCThreadPool` | 137,544 | `NoWakeupLost`, `EnqueuedRun` |
| `locks` | `MCLocks` (`DbLock`, `ThreadPoolMgr`, `OPRF`) | 231,315 | `AsAnnounced`, `PoolOutlivesTasks`, `EveryCallReturns`, `HashesAgree` |
| `data` | `MCData` (six modules) | 241,542 | `PermutedShares`, `TagsKept`, `QueryRight`, `PackingInjective`, `LabelAtItsItem`, `RoundTrips` |
| `union_forget` | `MCUnionQuery` | - | `NothingForgotten`, finding 1 |
| `union_unwritten` | `MCNetwork` | - | `UnionWritten`, finding 2 |
| `poly_eval_low_1` | `PolyEval` | - | `NonZeroLowDegreeEvaluates`, finding 3 |

**powers_dag.** As long as the caller has not left, and also while products fail, each
power is computed once, by one worker, from finished parents (`HarmlessInFrame`), and is
right (`RightInFrame`); a computed node is never touched again (`FinalInFrame`). A call that
returns overlooked no failure, has all powers and leaves no worker behind; if no product
fails, it returns. With one that fails it may wait for ever, or leave under its workers:
the deviations of section 4.

**parameters.** Every parameter set the code accepts configures, and its DAG is
closed and as shallow as can be - compared with a reference, the powers that
circuits of each depth reach. Every coefficient of every matching polynomial is
used once, at its power, on operands in the form SEAL wants. A receiver started again
with its saved database, and a sender that loads the response, accept what a program of
their version accepted before, and all have the parameters of the document (`SidesAgree`);
every location has its bins inside one bundle.

**union_any.** What holds for *every* database, also where the findings and
deviations below apply: parts are claimed once and all received, workers write
apart from each other, no match is false. With as many caches at every bundle
index the matrices correspond (`MatrixWritten`) and the number of matches is the
size of the intersection (`CardinalityExact`). **union_single**: with one cache at
every bundle index the whole protocol is right; `UnionQuery` implements
`UnionSpec`, and a query is answered.

**receiver_db.** Used as they should be, plain and labelled databases implement the
map `DbSpec`, whatever the order of their tasks; the polynomials a query finds are
those of the bins. With callers that remove items that are not there, tasks throw
half way: every call ends, what `has_item` finds is still in a bundle, and no
bundle is empty or too full. `BundlesRight` and `ImplementsMap` are conjunctions, and a
mapping, of the definitions of `ReceiverDB` for the kind of database a behaviour has.

**network.** From the programs' session down to bytes; the definitions in
`MCNetwork` say what each property is about. Faults in the model: a sender that
gives up, tasks that throw, a refused connect, wrong parameters, messages of a
wrong version or type, foreign parts, channels that are closed and opened again,
cut and aborted streams, loads that fail half way.

**thread_pool, locks.** No task waits beside a sleeping worker; everything enqueued
runs before the pool is gone, under a limit and a number of threads that change;
the pool is there as long as a manager or a task is; a query uses the bundles it
announced, although the lock is taken twice; a request for hashes with an invalid
point unwinds without a task writing to what is gone.

**data.** All inputs of small sizes go through the algorithms: outputs of the
oblivious network are shares of the permuted values, with a cached route as well
(`PermutedShares`, about code that no program calls); no tag of the filter gets lost in kicks; the query holds each item once, at one of
its places, its message with it; encodings come back; blocks differ where masks do.

Every property of a passing run has a mutant in `PROJECT.json` - a bug someone
might write, defined next to the definition it changes - that TLC finds.

Deadlock is checked except where the system really stops: programs end, pools are
destroyed, a bounded number of calls has been made, an input has been worked
through, or (`powers_dag`) a failed product leaves the others spinning. What must
happen nevertheless is said by the liveness properties.

### Why these bounds

**powers_dag**: three workers over powers 1, 2, 3, 4, 8 - a source, a square, then a
square and a product that two workers may do side by side, and a gap. Two workers
can collide on a node while the third hands another back; two failures
(`MaxThrows`) may leave one worker spinning. **parameters**: `max_items_per_bin` up to
7 covers bundles with no, one and two high powers, with full, short and empty last
inner polynomials; `ps_low_degree` 1 is left to finding 3. **union_\***: two bundle
indices and two caches are the least at which `cache_idx`, `bundle_idx`, row and
column can be confused and at which caches can be uneven; two of the three items
collide at both locations, the third has only one, so all three together cannot be
hashed. Two workers suffice for parts out of order. The number of workers, of
bundles and of caches is arbitrary in the proofs.

**receiver_db**: two bundle indices, items of two elements of which some share one,
bins of three or four: bundles fill up, a second one is opened, and elements
conflict although items differ. `MaxBundles` cuts off insertions into databases
that failed removals have made grow; calls may follow one another without end.
**locks**: two threads and four calls on the database: a query or save, something
that changes the database between its two locks, and a call before and after; as
many stale bundles as threads is the case at which nested waits block.

**network**: session with up to three parts in all four builds; two programs at the
dispatcher, with parameters that differ in one respect at a time; a program that
closes one ZeroMQ channel and opens another; three threads that send into one
stream, of which four messages are read; a `FILE` buffer (3) and kernel room (2)
smaller than the messages and not dividing them, so that every cut occurs; one load
(`MaxLoads`) into each object, as the channels load (the theorem `Loaded` has any number).
**thread_pool**: two producers of
two tasks, up to two workers, a limit of two that may be lowered: full queues,
workers that leave while others wait, a pool that shrinks to nothing and grows.

**data**: two to five values, so that the two halves of the network differ in size,
and one place whose silent choices are 1 (`MaxOnes`), since choices act on their switch alone;
a filter of two buckets packed in three words, so that tags cross a word, with three
kicks, which fill the overflow entry; queries of four items with three places
between three of them, so that hashing succeeds after kicks and fails; powers 1, 3
and 6, which have one and two bits set, the lowest set or not; encodings with widths
that divide one another or do not; polynomials of up to three points over the field
of five elements.

### Fairness

`PowersDagThrows`: weak fairness of each worker's steps - each `node_worker` runs on
a thread of its own (`GetThreadCount()` tasks on a pool with as many threads) and
never blocks - and of the caller's. `UnionQuery`: weak fairness of each party and
each worker; pool tasks are not abandoned, and ZeroMQ delivers what was sent while
both run. `PeerSession`, `NetIO`: weak fairness of each program's steps; the kernel
moves what it holds. `ThreadPool`, `OPRF`, `DbLock`: weak fairness of each thread; a
lock that is free is given to somebody, and the calls are finitely many, so that
nobody is passed over for ever. `ReceiverDB`: weak fairness of a call that is under
way. `ZmqChannel`: the receiver takes what has arrived and answers it. `Dispatcher`:
**strong** fairness of taking an operation from each program: a ROUTER socket
takes from its peers in turn, so that none waits for ever while the loop receives.
That is the only strong fairness assumed.

## 4. Findings

1. `sender/apsu/sender.cpp:558`: with more than one cache the permutation exceeds
   the messages it is applied to; items are lost, which `tools/auto_test.py:37`
   asserts not to be.
2. `sender/apsu/sender.cpp:570`: in a build for the union the sender awaits a flag
   that is sent after the transfer it has yet to join.
3. `receiver/apsu/receiver.cpp:581`: `ps_low_degree = 1` is accepted, prepared for
   Paterson-Stockmeyer, and then evaluated without it, on operands SEAL rejects.
   `common/apsu/psu_params.h:92` promises Paterson-Stockmeyer for every non-zero
   value.

### Deviations

The runs above restrict what callers do, or ask less than one might, where the
code is known not to hold. Each restriction is a constant, and the modules define
what fails without it; TLC finds it violated with the constants named here and
otherwise those of the run.

| Property | Module, constants | The code |
|---|---|---|
| `NothingInIntersection` | `UnionQuery`, as `union_any` | `receiver/apsu/receiver.cpp:384`: with uneven numbers of caches `pack_idx` indexes a list that has no entries for padded cells; matches are missed and common items transferred |
| `SenderFinishes` | `PeerSession`, `Builds` = {APSU 0, CARDSUM 1} | `sender/apsu/sender.cpp:687`: in the build `log.h` defines neither program ends |
| `ApplyEnds` | `PowersDagThrows`, as `powers_dag` | `common/apsu/powers.h:258`: a product that throws leaves its node `Computing`, and the other workers look at it for ever |
| `LocalsOutliveWorkers` | `PowersDagThrows`, as `powers_dag` | `common/apsu/powers.h:276`: the first future that rethrows ends the call, whose locals other workers still use |
| `NothingThrown` | `ReceiverDB`, `RemoveAbsent` = TRUE | `receiver/apsu/receiver_db.cpp:962`: `remove` hands on items that are not in the database, and a worker throws, instead of ignoring them |
| `NothingThrown` | `ReceiverDB` with labels, `MixedBatches` = TRUE | `receiver_db.cpp:806`: what `std::remove_if` leaves behind is taken for the items to overwrite |
| `LabelOverwritten` | `ReceiverDB` with labels, `MaxBinSize` = 2 | `receiver_db.cpp:269`: overwriting an item whose bundle is followed by one with room inserts it a second time |
| `KnowsItems` | `ReceiverDB` with labels | `receiver_db.cpp:985`: `has_item` looks for another hash than a labelled insertion adds |
| `SavedLoads` | `ReceiverDB`, `MaxBinSize` = 1 | `receiver/apsu/bin_bundle.cpp:1343`: a matching polynomial has one coefficient more than items; the saved database is refused |
| `StrippedOfAll` | `DbLock`, `Ops` = {"insert", "strip"} | `receiver_db.cpp:852`: `stripped_` is looked at before the lock is taken |
| `KeyReturned` | `DbLock`, `Ops` = {"strip", "get_oprf_key"} | `receiver_db.cpp:747`: `get_oprf_key` takes no lock and may return what `strip` has left of the key |
| `ElementsFound` | `CuckooFilter`, as `data` | `bin_bundle.cpp:609`: the result of `add` is ignored; an element the filter refused is in the bin and not found |
| `StripReturns` | `ThreadPoolMgr`, as many stale bundles as threads | `receiver_db.cpp:727`: `strip` waits, on the pool's threads, for tasks in the same pool |
| `CapturesAlive` | `ThreadPoolMgr`, `Stale` = {}, `MayFail` = TRUE | `receiver.cpp:405`: the first future that throws ends the query while other tasks still use what they captured by reference |
| `ConnectedIsBound` | `ZmqChannel`, `BindMayFail` = TRUE | `common/apsu/network/zmq/zmq_channel.cpp:103`: a `bind` that throws leaves the channel "connected" |
| `NullReturned` | `ZmqChannel`, `SpecOperation` | `zmq_channel.cpp:316`: `receive_operation` dereferences the null pointer that stands for "nothing received" |
| `RunsUntilStopped` | `Dispatcher` | `receiver/apsu/zmq/receiver_dispatcher.cpp:115`: the dispatcher returns after its first query, though the program says it runs until stopped |
| `OthersUnchanged` | `ItemEncoding`, `AnySpec` | `common/apsu/util/db_encoding.cpp:172`: for elements with the highest bit set, bits behind those asked for are written |
| `EndReported` | `NetIO`, `MayAbort` = TRUE | `thirdparty/include/Kunlun/netio/stream_channel.hpp:211`: the end of the stream is never reported; the loop goes on for ever |
| `Finishes` | `NetIO`, `QueriesServed` = 2 | `receiver.cpp:187`: `random_matrix` is not cleared; the equality test of a second query of one `Receiver` waits for ever |

## 5. Proofs

Every theorem holds for all values of the constants that satisfy the named
assumption of its module (`DagAssumption`, `ThrowsAssumption`,
`UnionQueryAssumption`, `DbLockAssumption`, `PeerSessionAssumption`,
`ThreadPoolAssumption`, `ThreadPoolMgrAssumption`, `CreateQueryAssumption`,
`NetIOAssumption`, `BinBundleAssumption`, `ReceiverDBAssumption`, `ZmqChannelAssumption`,
`StreamChannelAssumption`, `WireAssumption`, `OPRFAssumption`). Most say no more than the types, and that numbers
of threads, tasks or bytes are not zero. The others: a
DAG's parents are target powers that add up to their node - `DagIsValid` of `PolyEval`
checks that `configure` builds only such DAGs; every item has a location, as KukuTable
has at least one hash function; an item's bundle index is one of the table; the parts of an item are not all among those
of the others at the same places (items are hashes, and this is the condition
under which a bundle tells its items apart at all), and there are finitely many items, as
they are 128-bit values, and finitely many exponents in a query; the order of the
group of points has no divisors, and the cofactor divides the points that items are given
(FourQ's order is a prime, and `HashToCurve` clears the cofactor). The runs evaluate all of them.

| Module | Theorem | Property of a run | Inductive invariant |
|---|---|---|---|
| `PowersDagProofs` | `TypeCorrect`, `Correct`, `Final` | (without products that throw) | `Inv` |
| | `Harmless`, `RightThrows`, `FinalThrows` | `HarmlessInFrame`, `RightInFrame`, `FinalInFrame` | `Inv`, `FuturesGot` |
| `UnionQueryProofs` | `Balanced`, `NothingLeft` | `PackagesBalance`, `AllReceived` | `IInv` |
| | `Written`, `Sound`, `Exact` | `MatrixWritten`, `MatchesSound`, `CardinalityExact` | `IInv`, `CInv`, `Tested` |
| | `Refines` | `RefinesUnion` | the same |
| `CreateQueryProofs` | `QueryMade` | `QueryRight` | `QInv` |
| `SessionProofs` | `InStep`, `Refused` | `StreamsInStep` | `PInv` |
| | `Arrive` | `BytesArrive` | `NInv` |
| | `Owned` | (of which `OwnAnswers` is the instance) | `ZInv` |
| | `Framed` | (of which `OnlyRefusedAreLost` is the instance) | `SInv` |
| | `Loaded` | (of which `WireLoadedIsSent` is the instance) | `WInv` |
| `LocksProofs` | `Announced` | `AsAnnounced` | `LInv` |
| | `PoolKept` | `PoolOutlivesTasks` | `KInv` |
| | `Agreed` | (of which `HashesAgree` is the instance) | `OInv` |
| `ThreadPoolProofs` | `Kept` | `NoWakeupLost` | `PInv` |
| `ReceiverDBProofs` | `HashedHeld` | `HashedAreHeld` | `Inv` |
| | `DatabaseRight`, `BundlesStayFit` | (a part of `BundlesRight`) | `Inv` |
| `ServedDbProofs` | `ServedRight` | (parts of `BundlesRight`) | `Inv`, `Counted` |
| | `DatabaseRefines` | (of which `ImplementsMap` is the instance) | the same, `Asked` |

Each proof has one lemma for each action, or for actions that do the same to the
invariant, and lemmas about the operators they need.

**PowersDagProofs.** `SingleOwner`, `ParentsFirst`, `PowersRight` and
`AllPowersOnReturn` are inductive together with `Loaded`, which speaks of the moments
between storing a product and marking its node: a source's ciphertext is right from
the start, the ciphertext of a node about to be marked is right, and only products
are stored. `Final` is an action property from the same invariant: a worker stores
only into a node it holds, and a held node is `Computing`. With products that throw,
every step until the caller leaves is one of `PowersDag`, or leaves it alone, so that these
results carry over for as long; afterwards there are no locals to speak of, and the theorems
claim nothing of the powers. That the call returns only when no worker has thrown, and leaves
workers behind only when one has (`Harmless`), needs `FuturesGot`: the futures the caller has
got are those of workers that returned, and it leaves with an exception only if there was one.

**UnionQueryProofs.** The balance begins before the workers start, so `Announced`
says that the response on its way announces what is to come; `Stages` relates how far
the parties are; `Claims` says that a worker's copy of the counter is not zero when it
tries to decrement it, and that nobody returns while parts are unclaimed.
Cardinalities by `FiniteSetTheorems`.

`CInv` says of every cell of the database whether its part is
pending - a task, in the channel or in a worker's hands, and one of these only - or
copied, and that its places in the matrix hold zero blocks before and the right
blocks afterwards. That no part is pending when the workers are done takes the count
of `IInv`. `Tested` keeps, as an existential, the shuffles the sender made, from which
`Sound` finds the item of a match and `Exact` a bijection between matches and common
items. `DrawPlainList`, which lists the cells in the order of the draw, is a recursive
function; what it returns follows by a least counterexample, since the library's
induction theorem takes an operator. `Refines` (one cache at every bundle index:
`MaxCaches` = 1 and `EqualCaches`) maps the steps of the exchange to stutters but the
one that ends it, which is `UnionSpec`'s.

**CreateQueryProofs.** The item in hand is not in the table, so it changes places with
another one and none is there twice (`Located`); with that `NothingDropped` is
inductive, and `QueryIsCuckoo` follows when nothing is in hand or left over. While
the messages are filled in, a place has none yet or that of its item (`Filled`).

**SessionProofs, the session.** The streams have no types: `InStreams` gives their contents for
every pair of places the programs can be at, `Asking` and `Serving` those of the
channel, with the parts not sent, on the way and not counted down adding up;
`Listening` says who listens and whether the sender is connected. `Refused`, of which
there is no run, states `RefusedInWindow`: a connect is refused only after the last part
was sent and before the receiver listens, the race the hazard at
`sender/apsu/sender.cpp:541` describes.

**SessionProofs, the stream.** The two scripts mirror each other, so that a byte's place in the
stream says what it is (`ByteAt`, `BytesOfStep`). What is ahead of a party, on its way
to it and not yet flushed by its peer follow one another in the stream and are what was
written and not taken (`Piped`); `PipeWrite`, `PipePush`, `PipeFill`, `PipeTake` and
`PipeCut` keep this for whoever acts. That nothing is ahead of a party that goes on to
send (`Switched`) is where the protocol comes in: its peer cannot have sent more by
then, because it waits itself (`ReceivedNInv`). `Arrive` assumes `QueriesServed` = 1, a
receiver's first query and the only one `receiver_cli` makes; the table of deviations
has what happens in a second one.

**SessionProofs, the ZeroMQ channels.** An operation carries the routing id of the channel that
has sent it, and a number. `OperationsSent` says that one on its way is new to the receiver and
there once, `TakenOnce` that what is pending was taken from the socket and is pending once, and
`AnswersOwn` that what is on its way to a channel is for it: as long as its response is to be
sent, nothing for the same operation is on the way, so that no package overtakes it. Closing a
channel loses what was on its way and makes a new routing id, which no answer has
(`ConnectionsKeep`). `Owned` leaves faulty and foreign messages, failing binds and the number
of channels open.

**SessionProofs, the C++ stream.** Nothing in a stream says where a message begins, and a load
takes one buffer, whatever it is. A message begins with a header, or is the body of a package
(`First`). `Framing`: any other body follows its header, or was left behind at the front by a
receive that refused the header. `Placed`: a message that was sent has its first buffer in the
stream, was handed out or refused, and one of these only. `Ordered`: what was handed out was
sent in this order, and before all that is in the stream. A thread has written nothing, the
header, whose body nobody else can get before, or all of its message. `TakeSInv` does the work
for all receives at once: one takes the front of the stream, one buffer or two, and refuses it or
hands it out.

**SessionProofs, saved and loaded.** Only a query is more than its fields, its ciphertexts being
saved in the order of a hash map. The parts are loaded up to the first that does not fit; as an
order of a finite map lists each exponent once (`Listed`, by the cardinality of an injection's
range), either all parts fit and make the same map (`PartsLoad`), or there is a ciphertext that
was not made for this context.

**LocksProofs, the database's lock.** `LInv`: a thread within a call holds the lock as the call takes it, a
writer excludes all readers (`Held`), and what a reader has counted is still the number
of bundles there are (`Reading`), which only a writer changes. The operations that
give the lock up, or take it only after a look at the database, are in the model with
these gaps.

**ThreadPoolProofs.** A wake-up could be lost to a worker that has to go. It is not:
only workers within the pool's size sleep (`ThreadsOK`), and if any sleep, as many others
are about to look at the queue as it has tasks (`Wakeups`). `Counted` (`in_flight` is the
tasks queued and in hand) and `InOnePlace` (a task is queued once, in one worker's hands
or run) say with `Stopping` that the pool is destroyed with nothing left.

**LocksProofs, the shared pool.** The reference count is the number of frames that have a manager,
and it could go wrong only if a frame began twice. `KInv` therefore follows the tasks: one
that is queued is queued once, those a frame has yet to enqueue are new (`Progress`), and
a stale bundle's task has no frame before a worker takes it (`Unbegun`). That a call sees
every failure needs, of `Progress`, that the futures it has got stay those of tasks that
returned. With stale bundles as many as threads the calls may wait for ever
(`StripReturns` above); the theorem says that nothing is destroyed under them meanwhile.

**LocksProofs, the hashes.** Two things come together. The tasks: each has come to an index that is
its first one and a number of steps further, so that the indices behind it are written, and
every index is behind some task once all are past the end (`Processed`, `IndexOfTask`);
while any task runs the request and the responses are there, as both go only when all
have ended. The group: a factor has an inverse, as the least remainder but 0 that its multiples leave
divides the order (`HasInverse`), and the key, the cofactor and the factor commute, so that
what comes back, unblinded, is the item's point times the key (`Unblinded`).

**ReceiverDBProofs.** A bundle is a table of bins, each a list of field elements, and says
nowhere which items it has: an item is there if each of its parts is in its bin. That an
insertion or a removal of one item leaves the others alone is therefore not obvious - a
removal erases one of several equal elements, an insertion may complete an item that was
never inserted. The invariant has what the code does not write down: the elements of a row
can be assigned to a set of tokens, items at a row, so that each bin has one element for each
token (`Laid`); by the assumption on parts no item without a token is then complete.
`OneRight` says this of a bundle, with its sizes, its cache that of its bins if it counts as
valid, and no bundle empty; `SetRight` of the bundles of an index, where without labels and with removals
of present items only (`Once`) no item is in two of them.

Then time. `hashed_items_` changes before the tasks run, so that in between the set and the
bundles differ. `PhasesRight` says what the phases of a call may contain and `TasksRight` that
a task has still to do what belongs to its bundle index and the phase; `HeldRight` says that an item of the set is at each of
its locations, or awaited there by a task or a phase to come (`Awaited`), unless it goes
(`Doomed`). `HashedHeld` also holds when calls fail: with batches as they should be only
removals throw, and `remove` takes its items out of the set before it touches a bundle. It is
proved for unlabeled databases, and for labeled ones without batches that mix new items with
known ones (`MixedBatches`); with such batches an item may be in the set and in no bundle, the
deviation above at `receiver_db.cpp:806`. The invariant speaks of assignments of elements to items, which TLC
cannot enumerate; TLC checks what follows from it, `BundlesRight` and `HashedAreHeld`.

**ServedDbProofs.** `Counted` follows caches and counts: while a call is served a cache that
counts as valid is that of its bins (`Plain`), between calls all are valid and fit into a file
(`Ready`); `item_count` is that of the set, or, once `strip` has emptied that, of what is
served (`Known`); no task throws; and a file holds what it lists (`FileServes`). Between calls
the caches `Serves` the set, each item in one bundle at each location. `SameCaches`, a
bijection between bundles with the same caches, carries this through strip, save and load,
which leaves the order of bundles open. For the refinement, `Asked` says that while a call is
served queries saw the database before it, and the set of items is that what the map will
make of it. The theorems assume `MaxBinSize > 1` (with 1 a saved database is refused,
`SavedLoads` above), no labels (with labels an item may be inserted twice,
`LabelOverwritten`, and `has_item` does not know it, `KnowsItems`) and that only items are removed
that are there (else tasks throw, `NothingThrown`): the deviations, and nothing else.
`DatabaseRefines` has the entries of a batch without labels written as the records of the map.

## 6. Checked, not proved

- Liveness under fairness, which is beyond the prover: all properties with `~>`.
- What `RECURSIVE` operators and `Bitwise` compute: `PermutedShares` (`Benes`, `OSN`) and
  `TagsKept` (`CuckooFilterTable`), and what the recursive definitions of `ItemEncoding`,
  `Interpolate`, `Params` and `PowersConfig` return, which would take induction over data
  (`PolynomialEvaluated`, `AcceptedAreUsable`, `LabelAtItsItem`, `RoundTrips`). They
  are checked for all inputs up to a bound.
- `RefinesUnion` for more than one cache: it does not hold (finding 1). `Exact` for uneven
  caches: it does not hold either (`NothingInIntersection` above).
- Labeled databases beyond `HashedHeld` and `BundlesStayFit`: that an item is in one bundle at
  each location, its label (`ServedLabelsAgree`) and the map. They hold for large enough bins only,
  which the run has.
- `PackingInjective` of `BlockPacking`: that powers of two are what they are takes induction.
- `QueriesAccepted` of `Dispatcher`: what a query contains is computed by the recursive
  definitions of `PowersConfig`.

## 7. Not modelled

- Cryptography: encryption, noise, the curve arithmetic of FourQ and of the equality
  test, Blake2, the oblivious transfer's inside, random numbers. Their results are
  modelled as ideal: different inputs give different hashes, equal blocks match.
- SEAL's argument checks and kuku's table are external, modelled from how the
  code uses them; spurious wake-ups and interrupted system calls are left out.
- `PowersDag::apply`, `apply_dfs`, `save` and `load`: not used by the protocol. `Benes`:
  `return_switches`, which has no caller.
- `process_result_part`, `RunResponse`, `dispatch_re`, `Cardsum_Send`: no caller
  in either program. `Cardsum_receiver` is modelled up to the accept in which it
  stays. The build for items longer than a block (`ARBITARY`).
- Key generation of the sender; argument, CSV and JSON syntax; the files a database
  is saved to, except for what is saved and loaded.
- Logging, timing, build files, the frontend examples, vendored code that no part of
  the protocol runs through.

## 8. What is left

All components of the inventory that decide about the protocol's results have a
model, and its core - powers, query, union, session, streams, database, locks and
pools, channels, OPRF - its main invariants as theorems. What would add most is labels: a
condition on bins and batches under which a labeled database overwrites in place, and
`DatabaseRefines` for it.
