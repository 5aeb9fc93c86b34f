----------------------------- MODULE UnionQuery -----------------------------
(***************************************************************************)
(* One query of the unbalanced union protocol, from the sender's cuckoo    *)
(* table to the inputs both parties bring to the oblivious transfer:       *)
(*                                                                         *)
(*   - Sender::create_query hashes the query into a table and sends it;    *)
(*   - Receiver::RunQuery announces how many result parts will follow,     *)
(*     draws a mask for every bin bundle cache and lets pool tasks         *)
(*     (ProcessBinBundleCache) evaluate, mask and send the parts;          *)
(*   - Sender::process_result_worker, on several threads, claims parts     *)
(*     with a compare-and-exchange on package_count, receives them in any  *)
(*     order and copies them into decrypt_randoms_matrix;                  *)
(*   - DDHPEQT::Send/Receive compare that matrix with the masks under a    *)
(*     permutation the sender picks, and the receiver collects the matches *)
(*     in ans; the sender shuffles its messages the same way.              *)
(*                                                                         *)
(* Field elements are abstracted to blocks.  The evaluation of a bundle's  *)
(* matching polynomial at a query item is zero exactly if the item is in   *)
(* that bin of the bundle, so the masked result is the mask itself for a   *)
(* match and an unrelated value (noise) otherwise.  Two random masks, or a *)
(* mask and noise, are taken to differ: they collide with negligible       *)
(* probability.                                                            *)
(***************************************************************************)
EXTENDS Integers, Sequences, FiniteSets

CONSTANTS
  BundleIdxCount,  \* bundle_idx_count
  ItemsPerBundle,  \* items_per_bundle
  Item,            \* what may be in either party's set
  Loc,             \* the table locations the hash functions give each item
  MaxCaches,       \* bound on the bin bundles at one bundle index
  EqualCaches,     \* TRUE: only databases with as many at every index, and some
  ThreadCount,     \* ThreadPoolMgr::GetThreadCount() at the sender
  Empty            \* an empty slot of the table, or ZeroBlock

ItemCnt == BundleIdxCount * ItemsPerBundle   \* item_cnt, also table_size
BundleIdx == 0..(BundleIdxCount - 1)
Slot == 0..(ItemsPerBundle - 1)              \* an item's place in a bundle
Column == 0..(ItemCnt - 1)                   \* a location in the table
Worker == 1..ThreadCount

ASSUME UnionQueryAssumption ==
  /\ BundleIdxCount \in Nat \ {0}
  /\ ItemsPerBundle \in Nat \ {0}
  /\ Loc \in [Item -> (SUBSET Column) \ {{}}]
  /\ MaxCaches \in Nat
  /\ EqualCaches \in BOOLEAN
  /\ ThreadCount \in Nat \ {0}
  /\ Empty \notin Item

VARIABLES
  db,             \* the bin bundle caches at each bundle index
  query,          \* the items of the sender's query
  \* the receiver
  rpc,
  random_matrix,      \* the masks it compares against, by flat position
  random_plain_list,  \* the masks it evaluates with: the cells they belong to
  tasks,              \* enqueued ProcessBinBundleCache calls not yet run
  ans,                \* the matches found, as (cache_idx, item_idx)
  \* the channel
  to_sender,
  \* the sender
  spc,
  table,                   \* the cuckoo table
  package_count,           \* atomic: the parts not yet claimed
  wpc,                     \* where each process_result_worker stands
  curr_package_count,      \* its copy of package_count
  result_part,             \* the part it received
  decrypt_randoms_matrix,
  permutation,
  shuffleMessages          \* the messages it brings to the transfer

receiverVars == <<rpc, random_matrix, random_plain_list, tasks, ans>>
workerVars == <<package_count, wpc, curr_package_count, result_part,
                decrypt_randoms_matrix>>
senderVars == <<spc, table, workerVars, permutation, shuffleMessages>>
vars == <<db, query, receiverVars, to_sender, senderVars>>

-----------------------------------------------------------------------------
(* The database and what is said about it.                                 *)

CacheCnt(b) == Len(db[b])                    \* cache_cnt_per_bundle

\* max_bin_bundle_conut_alpha
Alpha == CHOOSE n \in {CacheCnt(b) : b \in BundleIdx} :
           \A b \in BundleIdx : CacheCnt(b) <= n

Present(cell) == cell[1] < CacheCnt(cell[2])

\* A bin bundle cache is named by its cache_idx and bundle_idx.
Cells == {cell \in (0..(MaxCaches - 1)) \X BundleIdx : Present(cell)}

DbItems == UNION {db[cb[2]][cb[1] + 1][i] : cb \in Cells, i \in Slot}

(***************************************************************************)
(* The databases considered: every item stored once for each of its        *)
(* locations, in any of the bin bundles there, and no bundle empty, which  *)
(* is how ReceiverDB::insert_or_assign and remove leave them.              *)
(***************************************************************************)
Databases ==
  LET places(S) == {xl \in S \X Column : xl[2] \in Loc[xl[1]]}
      bundle(at, c, b) ==
        [i \in Slot |-> {x \in Item : <<x, b * ItemsPerBundle + i>> \in DOMAIN at
                                /\ at[<<x, b * ItemsPerBundle + i>>] = c}]
      used(at, b) == {at[xl] : xl \in {p \in DOMAIN at :
                                         p[2] \div ItemsPerBundle = b}}
      count(at, b) == Cardinality(used(at, b))
      layout(at) == [b \in BundleIdx |->
                       [n \in 1..count(at, b) |-> bundle(at, n - 1, b)]]
      compact(at) == \A b \in BundleIdx : used(at, b) = 0..(count(at, b) - 1)
      equal(at) == \A b \in BundleIdx : count(at, b) = count(at, 0) /\ count(at, 0) # 0
  IN  UNION {{layout(at) : at \in {f \in [places(S) -> 0..(MaxCaches - 1)] :
                                    compact(f) /\ (EqualCaches => equal(f))}} :
             S \in SUBSET Item}

-----------------------------------------------------------------------------
(* Blocks.                                                                 *)

ZeroBlock == <<"zero">>
AllOneBlock == <<"ones">>
Noise == <<"noise">>
Mask(cell, i) == <<"mask", cell, i>>

\* Mutant: as if there were one bundle index.
PositionOverlapping(cell, i) ==
  cell[1] * ItemsPerBundle + cell[2] * ItemsPerBundle + i

\* Position of slot i of cell <<cache_idx, bundle_idx>> in a flat matrix.
Position(cell, i) ==
  cell[1] * ItemsPerBundle * BundleIdxCount + cell[2] * ItemsPerBundle + i

MatrixSize == Alpha * ItemCnt

\* The cell that has position k.
CellAt(k) ==
  LET row == k \div ItemsPerBundle
  IN  <<row \div BundleIdxCount, row % BundleIdxCount>>

-----------------------------------------------------------------------------

Init ==
  /\ db \in Databases
  /\ query \in SUBSET Item
  /\ rpc = "idle"
  /\ random_matrix = <<>>
  /\ random_plain_list = <<>>
  /\ tasks = {}
  /\ ans = {}
  /\ to_sender = <<>>
  /\ spc = "start"
  /\ table = [l \in Column |-> Empty]
  /\ package_count = 0
  /\ wpc = [w \in Worker |-> "off"]
  /\ curr_package_count = [w \in Worker |-> 0]
  /\ result_part = [w \in Worker |-> <<>>]
  /\ decrypt_randoms_matrix = <<>>
  /\ permutation = <<>>
  /\ shuffleMessages = [l \in Column |-> Empty]

-----------------------------------------------------------------------------
(* The sender's query.                                                     *)

\* Mutant: a failed insertion is skipped like a repeated one.
CuckooTablesLossy ==
  {t \in [Column -> query \union {Empty}] :
     \A k, l \in Column :
       t[k] # Empty => k \in Loc[t[k]] /\ (t[k] = t[l] => k = l)}

\* What cuckoo hashing may leave in the table: every query item at one of its
\* locations, no two at the same.
CuckooTables ==
  {t \in [Column -> query \union {Empty}] :
     \A x \in query : \E l \in Loc[x] : \A k \in Column : t[k] = x <=> k = l}

\* create_query, and the request sent.
CreateQuery ==
  /\ spc = "start"
  /\ table' \in CuckooTables
  /\ spc' = "await"
  /\ UNCHANGED <<db, query, receiverVars, to_sender, workerVars, permutation,
                 shuffleMessages>>

\* create_query throws: "failed to insert item into cuckoo table".
CuckooFails ==
  /\ spc = "start"
  /\ CuckooTables = {}
  /\ spc' = "failed"
  /\ UNCHANGED <<db, query, receiverVars, to_sender, table, workerVars,
                 permutation, shuffleMessages>>

-----------------------------------------------------------------------------
(* The receiver.                                                           *)

\* The cells in the order of the loop that draws the masks.
LoopOrder ==
  [n \in 1..(Alpha * BundleIdxCount) |->
     <<(n - 1) \div BundleIdxCount, (n - 1) % BundleIdxCount>>]

\* Mutant: what the sender's matrix starts with.
ZeroPadding == ZeroBlock

\* What the receiver fills the rows of missing caches with.
Padding == AllOneBlock

\* random_matrix has a row of masks for each cell, or of padding where the
\* bundle index has fewer caches than others.
DrawMatrix ==
  [k \in 0..(MatrixSize - 1) |->
     IF Present(CellAt(k)) THEN Mask(CellAt(k), k % ItemsPerBundle) ELSE Padding]

\* random_plain_list has an entry only for the cells that are present.
DrawPlainList ==
  LET drawn[n \in 0..Len(LoopOrder)] ==
        IF n = 0 THEN <<>>
        ELSE IF Present(LoopOrder[n]) THEN Append(drawn[n - 1], LoopOrder[n])
        ELSE drawn[n - 1]
  IN  drawn[Len(LoopOrder)]

\* Mutant: one part too many.
OnePartTooMany == Cardinality(Cells) + 1

\* The result parts RunQuery announces.
PartCount == Cardinality(Cells)

\* RunQuery up to the fan-out: announce, draw the masks, enqueue the tasks.
RunQuery ==
  /\ rpc = "idle"
  /\ spc = "await"
  /\ to_sender' = Append(to_sender,
       [type |-> "response", package_count |-> PartCount,
        alpha_max_cache_count |-> Alpha])
  /\ random_matrix' = DrawMatrix
  /\ random_plain_list' = DrawPlainList
  /\ tasks' = Cells
  /\ rpc' = "fanout"
  /\ UNCHANGED <<db, query, ans, senderVars>>

\* Mutant: index and bundle index change places.
PackIdxSwapped(cell) == cell[1] + cell[2] * BundleIdxCount

PackIdx(cell) == cell[2] + cell[1] * BundleIdxCount

\* The masked result of one cell, evaluated with the mask of cell m.
ResultPart(cell, m) ==
  [type |-> "part", cache_idx |-> cell[1], bundle_idx |-> cell[2],
   blocks |-> [i \in Slot |->
     IF table[cell[2] * ItemsPerBundle + i] \in db[cell[2]][cell[1] + 1][i]
     THEN Mask(m, i) ELSE Noise]]

NoiseCell == <<-1, -1>>   \* what lies behind the end of random_plain_list

ProcessBinBundleCache(cell) ==
  /\ rpc = "fanout"
  /\ cell \in tasks
  /\ PackIdx(cell) < Len(random_plain_list)
  /\ to_sender' = Append(to_sender,
       ResultPart(cell, random_plain_list[PackIdx(cell) + 1]))
  /\ tasks' = tasks \ {cell}
  /\ UNCHANGED <<db, query, rpc, random_matrix, random_plain_list, ans,
                 senderVars>>

\* random_plain_list[pack_idx] past the end is undefined: the task evaluates
\* with whatever is there, or the process dies.
ProcessOutOfRange(cell) ==
  /\ rpc = "fanout"
  /\ cell \in tasks
  /\ PackIdx(cell) >= Len(random_plain_list)
  /\ \/ /\ to_sender' = Append(to_sender, ResultPart(cell, NoiseCell))
        /\ tasks' = tasks \ {cell}
        /\ rpc' = rpc
     \/ /\ rpc' = "crashed"
        /\ UNCHANGED <<to_sender, tasks>>
  /\ UNCHANGED <<db, query, random_matrix, random_plain_list, ans, senderVars>>

\* Every f.get() has returned.
TasksDone ==
  /\ rpc = "fanout"
  /\ tasks = {}
  /\ rpc' = "peqt"
  /\ UNCHANGED <<db, query, random_matrix, random_plain_list, tasks, ans,
                 to_sender, senderVars>>

-----------------------------------------------------------------------------
(* The sender collects the result parts.                                   *)

\* request_query on the response: size the matrix, launch the workers.
LaunchWorkers ==
  /\ spc = "await"
  /\ to_sender # <<>>
  /\ LET response == Head(to_sender)
     IN /\ package_count' = response.package_count
        /\ decrypt_randoms_matrix' =
             [k \in 0..(response.alpha_max_cache_count * ItemCnt - 1) |->
                ZeroBlock]
        /\ wpc' = [w \in Worker |->
                     IF w <= response.package_count THEN "load" ELSE "off"]
  /\ to_sender' = Tail(to_sender)
  /\ spc' = "collect"
  /\ UNCHANGED <<db, query, receiverVars, table, curr_package_count,
                 result_part, permutation, shuffleMessages>>

MoveTo(w, l) == wpc' = [wpc EXCEPT ![w] = l]

AllClaimed == package_count = 0

\* Read package_count; return if all packages have been claimed.
LoadCount(w) ==
  /\ wpc[w] = "load"
  /\ curr_package_count' = [curr_package_count EXCEPT ![w] = package_count]
  /\ MoveTo(w, IF AllClaimed THEN "returned" ELSE "claim")
  /\ UNCHANGED <<db, query, receiverVars, to_sender, spc, table, package_count,
                 result_part, decrypt_randoms_matrix, permutation,
                 shuffleMessages>>

\* Mutant: a store that does not compare.
ExchangeAlways(w) == TRUE

ExchangeSucceeds(w) == package_count = curr_package_count[w]

\* compare_exchange_strong: claim a package if the count has not moved.
ClaimPackage(w) ==
  /\ wpc[w] = "claim"
  /\ IF ExchangeSucceeds(w)
     THEN /\ package_count' = curr_package_count[w] - 1
          /\ MoveTo(w, "receive")
     ELSE /\ MoveTo(w, "load")
          /\ UNCHANGED package_count
  /\ UNCHANGED <<db, query, receiverVars, to_sender, spc, table,
                 curr_package_count, result_part, decrypt_randoms_matrix,
                 permutation, shuffleMessages>>

\* receive_result, repeated until there is a part.
ReceiveResult(w) ==
  /\ wpc[w] = "receive"
  /\ to_sender # <<>>
  /\ result_part' = [result_part EXCEPT ![w] = Head(to_sender)]
  /\ to_sender' = Tail(to_sender)
  /\ MoveTo(w, "copy")
  /\ UNCHANGED <<db, query, receiverVars, spc, table, package_count,
                 curr_package_count, decrypt_randoms_matrix, permutation,
                 shuffleMessages>>

\* Copy the decrypted blocks of one part into the matrix.
CopyResult(w) ==
  /\ wpc[w] = "copy"
  /\ LET part == result_part[w]
         start == Position(<<part.cache_idx, part.bundle_idx>>, 0)
     IN  decrypt_randoms_matrix' =
           [k \in DOMAIN decrypt_randoms_matrix |->
              IF k - start \in Slot THEN part.blocks[k - start]
              ELSE decrypt_randoms_matrix[k]]
  /\ result_part' = [result_part EXCEPT ![w] = <<>>]
  /\ MoveTo(w, "load")
  /\ UNCHANGED <<db, query, receiverVars, to_sender, spc, table, package_count,
                 curr_package_count, permutation, shuffleMessages>>

\* Mutant: only the first f.get() is called.
FirstReturned == wpc[1] \in {"off", "returned"}

WorkersReturned == \A w \in Worker : wpc[w] \in {"off", "returned"}

\* Every f.get() has returned.
WorkersDone ==
  /\ spc = "collect"
  /\ WorkersReturned
  /\ spc' = "peqt"
  /\ UNCHANGED <<db, query, receiverVars, to_sender, table, workerVars,
                 permutation, shuffleMessages>>

-----------------------------------------------------------------------------
(* The private equality test and what follows it.                          *)

Shuffles(n) == {f \in [0..(n - 1) -> 0..(n - 1)] :
                  \A i, j \in 0..(n - 1) : f[i] = f[j] => i = j}

\* permutation_map: rows and columns are shuffled apart from each other.
PermutationMap(row_map, column_map) ==
  [k \in 0..(MatrixSize - 1) |->
     row_map[k \div ItemCnt] * ItemCnt + column_map[k % ItemCnt]]

(***************************************************************************)
(* DDHPEQT::Send and Receive, run against each other.  The receiver gets   *)
(* the comparisons in permuted order and keeps the places of the equal     *)
(* ones.  std::random_shuffle leaves open which shuffle it makes.          *)
(***************************************************************************)
PrivateEqualityTest ==
  /\ spc = "peqt" /\ rpc = "peqt"
  /\ \E row_map \in Shuffles(Alpha), column_map \in Shuffles(ItemCnt) :
       LET map == PermutationMap(row_map, column_map)
           equal == {k \in DOMAIN map :
                       random_matrix[k] = decrypt_randoms_matrix[k]}
       IN /\ permutation' = map
          /\ ans' = ans \union {<<map[k] \div ItemCnt, map[k] % ItemCnt>> :
                                  k \in equal}
  /\ rpc' = "done"
  /\ spc' = "shuffle"
  /\ UNCHANGED <<db, query, random_matrix, random_plain_list, tasks, to_sender,
                 table, workerVars, shuffleMessages>>

ShuffleInRange ==
  \A i \in Column : i \in DOMAIN permutation /\ permutation[i] \in Column

Shuffled ==
  [l \in Column |-> table[CHOOSE i \in Column : permutation[i] = l]]

\* shuffleMessages[permutation[i]] = sendMessages[i] for each location i.
ShuffleMessages ==
  /\ spc = "shuffle"
  /\ ShuffleInRange
  /\ shuffleMessages' = Shuffled
  /\ spc' = "done"
  /\ UNCHANGED <<db, query, receiverVars, to_sender, table, workerVars,
                 permutation>>

\* Indexing past the end is undefined: the messages go elsewhere, or the
\* process dies.
ShuffleOutOfRange ==
  /\ spc = "shuffle"
  /\ ~ ShuffleInRange
  /\ spc' \in {"done", "crashed"}
  /\ UNCHANGED <<db, query, receiverVars, to_sender, table, workerVars,
                 permutation, shuffleMessages>>

-----------------------------------------------------------------------------

ReceiverStep ==
  \/ RunQuery
  \/ \E cell \in tasks : ProcessBinBundleCache(cell) \/ ProcessOutOfRange(cell)
  \/ TasksDone

WorkerStep(w) ==
  LoadCount(w) \/ ClaimPackage(w) \/ ReceiveResult(w) \/ CopyResult(w)

SenderStep ==
  \/ CreateQuery
  \/ CuckooFails
  \/ LaunchWorkers
  \/ WorkersDone
  \/ PrivateEqualityTest
  \/ ShuffleMessages
  \/ ShuffleOutOfRange

Stopped ==
  \/ spc \in {"done", "failed", "crashed"}
  \/ rpc = "crashed"

Next ==
  \/ ReceiverStep
  \/ SenderStep
  \/ \E w \in Worker : WorkerStep(w)
  \/ Stopped /\ UNCHANGED vars

Spec == Init /\ [][Next]_vars

(***************************************************************************)
(* The parties' threads keep running, and a part that was sent arrives.    *)
(***************************************************************************)
FairSpec ==
  /\ Spec
  /\ WF_vars(ReceiverStep)
  /\ WF_vars(SenderStep)
  /\ \A w \in Worker : WF_vars(WorkerStep(w))

-----------------------------------------------------------------------------
(* Properties.                                                             *)

Block == {ZeroBlock, AllOneBlock, Noise}
           \union {Mask(cell, i) : cell \in Cells \union {NoiseCell}, i \in Slot}

Part == [type : {"part"}, cache_idx : 0..(MaxCaches - 1),
         bundle_idx : BundleIdx, blocks : [Slot -> Block]]

Response == [type : {"response"}, package_count : Nat,
             alpha_max_cache_count : Nat]

TypeOK ==
  /\ rpc \in {"idle", "fanout", "peqt", "done", "crashed"}
  /\ tasks \subseteq Cells
  /\ ans \subseteq (0..(MaxCaches - 1)) \X Column
  /\ to_sender \in Seq(Part \union Response)
  /\ spc \in {"start", "await", "collect", "peqt", "shuffle", "done",
              "failed", "crashed"}
  /\ table \in [Column -> Item \union {Empty}]
  /\ package_count \in Nat
  /\ wpc \in [Worker -> {"off", "load", "claim", "receive", "copy",
                         "returned"}]
  /\ curr_package_count \in [Worker -> Nat]
  /\ result_part \in [Worker -> Part \union {<<>>}]
  /\ shuffleMessages \in [Column -> Item \union {Empty}]

(***************************************************************************)
(* While the workers collect, the parts still to be claimed and the parts  *)
(* claimed but not received are exactly the parts still to be sent and the *)
(* parts on the way: no worker waits for a part that never comes, and no   *)
(* part is left in the channel when the last worker returns.               *)
(***************************************************************************)
PackagesBalance ==
  spc = "collect" =>
    package_count + Cardinality({w \in Worker : wpc[w] = "receive"})
      = Cardinality(tasks) + Len(to_sender)

\* request_query has all the results.
Collected == spc \in {"peqt", "shuffle", "done"}

(***************************************************************************)
(* request_query goes on to the equality test only when no part is still   *)
(* to come, none is in the channel and no worker has one in hand: a worker *)
(* returns as soon as the count is zero, whatever the others still do, and *)
(* only all of them together have finished.                                *)
(***************************************************************************)
AllReceived ==
  Collected => /\ tasks = {}
               /\ to_sender = <<>>
               /\ \A w \in Worker : wpc[w] \in {"off", "returned"}

\* As many caches at every bundle index, and some: what pack_idx counts on.
SameCaches == db[0] # <<>> /\ \A b \in BundleIdx : Len(db[b]) = Len(db[0])

\* The item in the column of position k is in the cell that has position k.
Matches(k) ==
  LET cell == CellAt(k)
  IN  /\ Present(cell)
      /\ table[k % ItemCnt] \in db[cell[2]][cell[1] + 1][k % ItemsPerBundle]

(***************************************************************************)
(* When request_query goes on to the equality test, the blocks of every    *)
(* cache of the database are in its matrix, each at its own place, however *)
(* the workers raced for the parts and in whatever order they arrived: the *)
(* receiver's mask where the table's item is in the bin, and only there;   *)
(* the places of missing caches still hold zero blocks.  With uneven       *)
(* caches pack_idx leads to other masks, and this does not hold.           *)
(***************************************************************************)
MatrixComplete ==
  Collected /\ SameCaches =>
    \A k \in 0..(MatrixSize - 1) :
      LET cell == CellAt(k)
      IN /\ (decrypt_randoms_matrix[k] = ZeroBlock) <=> ~ Present(cell)
         /\ (decrypt_randoms_matrix[k] = Mask(cell, k % ItemsPerBundle))
              <=> Matches(k)

(***************************************************************************)
(* A place in the matrix is written by one part only: two workers never    *)
(* write to the same place, which would be a data race.                    *)
(***************************************************************************)
WrittenOnce ==
  [][spc = "collect" =>
       \A k \in DOMAIN decrypt_randoms_matrix :
         decrypt_randoms_matrix[k] # ZeroBlock =>
           decrypt_randoms_matrix'[k] = decrypt_randoms_matrix[k]]_vars

\* Every worker writes the places of its own parts, together they write all.
MatrixWritten == []MatrixComplete /\ WrittenOnce

\* The table location that a match at permuted column item_idx is about.
MatchedItem(hit) ==
  table[CHOOSE i \in Column : permutation[i] % ItemCnt = hit[2]]

(***************************************************************************)
(* What ans says is true: a match stands for an item of the query that is  *)
(* in the database.  So an item the receiver lacks is never withheld       *)
(* because of a false match with padding or with another item's mask.      *)
(***************************************************************************)
MatchesSound ==
  rpc = "done" => \A hit \in ans : MatchedItem(hit) \in DbItems

(***************************************************************************)
(* The cardinality RunQuery logs, ans.size(), is that of the intersection: *)
(* every common item is matched, and in one cache only, again if there are *)
(* as many caches everywhere.                                              *)
(***************************************************************************)
CardinalityExact ==
  rpc = "done" /\ SameCaches => Cardinality(ans) = Cardinality(query \intersect DbItems)

(***************************************************************************)
(* What the oblivious transfer of ResponseOT and RunOT hands over, given   *)
(* the inputs the parties have prepared: RunOT chooses the zero block at   *)
(* the columns in ans and the sender's message at all others, and drops    *)
(* the zero blocks before it writes union.csv.                             *)
(***************************************************************************)
Transferred ==
  {shuffleMessages[l] : l \in {m \in Column : \A hit \in ans : hit[2] # m}}
    \ {Empty}

BothDone == spc = "done" /\ rpc = "done"

(***************************************************************************)
(* check_ans: "ot get item in intersection", the part of the check about   *)
(* items the receiver already has.                                         *)
(***************************************************************************)
NothingInIntersection ==
  BothDone => Transferred \intersect DbItems = {}

(***************************************************************************)
(* check_ans: "ot forget item in query", the part of the check about items *)
(* the receiver lacks.                                                     *)
(***************************************************************************)
NothingForgotten == BothDone => query \ DbItems \subseteq Transferred

(***************************************************************************)
(* A query is answered: both parties get through the equality test, unless *)
(* the sender cannot even hash its items.                                  *)
(***************************************************************************)
QueryAnswered == <>(BothDone \/ spc = "failed")

(***************************************************************************)
(* Seen from outside, the whole exchange is the one step of UnionSpec: the *)
(* receiver learns nothing until it learns the difference, at once and for *)
(* good.                                                                   *)
(***************************************************************************)
Abstract == INSTANCE UnionSpec WITH
  have <- DbItems,
  wanted <- query,
  learned <- IF BothDone THEN Transferred ELSE {},
  status <- IF BothDone THEN "answered"
            ELSE IF spc = "failed" THEN "failed" ELSE "running"

RefinesUnion == Abstract!Spec

=============================================================================
