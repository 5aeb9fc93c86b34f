---------------------------- MODULE MCReceiverDB ----------------------------
(***************************************************************************)
(* Three databases, of which a behaviour has one: two that are used as     *)
(* their callers should, without labels (the constants are those of this   *)
(* one) and with labels, and one whose callers remove items that are not   *)
(* there, which makes tasks throw half way.                                *)
(*                                                                         *)
(* Three items of two parts each, over two bundle indices of two rows.     *)
(* All of them may be in row 0.  Without labels x and y begin with the     *)
(* same part, so that they conflict and a second bundle is opened.         *)
(***************************************************************************)
EXTENDS ReceiverDB

VARIABLE kind

MCvars == <<kind, vars>>

Items == {"x", "y", "z"}
SharedParts == [x |-> <<1, 2>>, y |-> <<1, 3>>, z |-> <<4, 5>>]
OwnParts == [x |-> <<1, 2>>, y |-> <<6, 3>>, z |-> <<4, 5>>]
Rows == [x |-> {0, 2}, y |-> {0, 1}, z |-> {0, 3}]

Batches(S, n) == UNION {[1 .. k -> S] : k \in 1 .. n}
Records(items, labels) == [item : items, label : labels]

PlainBatches == Batches(Records(Items, {"none"}), 2)
LabeledBatches == Batches(Records({"x", "y"}, {"l", "m"}), 2)
FailingBatches == Batches(Records({"x", "y"}, {"none"}), 1)
ItemBatches == Batches(Items, 1) \cup {<<"x", "y">>, <<"y", "z">>, <<"z", "x">>}
PairBatches == Batches({"x", "y"}, 1) \cup {<<"x", "y">>}

Labeled == INSTANCE ReceiverDB WITH
  NumBins <- 4, MaxBinSize <- 4, LabelSize <- 1, BundleIdxCount <- 2,
  Item <- Items, Parts <- OwnParts, Locations <- Rows,
  InsertBatches <- LabeledBatches, RemoveBatches <- ItemBatches,
  MixedBatches <- FALSE, RemoveAbsent <- FALSE, MaxBundles <- 9

Failing == INSTANCE ReceiverDB WITH
  NumBins <- 4, MaxBinSize <- 3, LabelSize <- 0, BundleIdxCount <- 2,
  Item <- Items, Parts <- SharedParts, Locations <- Rows,
  InsertBatches <- FailingBatches, RemoveBatches <- PairBatches,
  MixedBatches <- TRUE, RemoveAbsent <- TRUE, MaxBundles <- 1

ASSUME DatabaseAssumption ==
  /\ BinBundleAssumption /\ ReceiverDBAssumption
  /\ Labeled!BinBundleAssumption /\ Labeled!ReceiverDBAssumption
  /\ Failing!BinBundleAssumption /\ Failing!ReceiverDBAssumption

MCInit == kind \in {"plain", "labeled", "failing"} /\ Init

NextPlain == kind = "plain" /\ Next /\ UNCHANGED kind
NextLabeled == kind = "labeled" /\ Labeled!Next /\ UNCHANGED kind
NextFailing == kind = "failing" /\ Failing!Next /\ UNCHANGED kind

MCNext == NextPlain \/ NextLabeled \/ NextFailing

\* The pool runs the tasks of a call, and its thread goes on.
MCSpec ==
  /\ MCInit /\ [][MCNext]_MCvars
  /\ WF_MCvars(kind = "plain" /\ Progress /\ UNCHANGED kind)
  /\ WF_MCvars(kind = "labeled" /\ Labeled!Progress /\ UNCHANGED kind)
  /\ WF_MCvars(kind = "failing" /\ Failing!Progress /\ UNCHANGED kind)

-----------------------------------------------------------------------------
(* Properties; ReceiverDB says what each of them is about.  HashedAreHeld   *)
(* and CallsEnd are its own: without labels the databases are laid out     *)
(* alike, and the hashes of labeled items are others.                      *)

\* Used as they should be, the databases throw nothing.  Between calls the
\* caches that a query is evaluated on are those of the bins and each item is
\* in one bundle at each location; no bundle is empty or past its size,
\* whatever has failed, and what was saved can be loaded.  Without labels,
\* has_item knows the items.
BundlesRight ==
  /\ kind = "plain" =>
       /\ TypeOK /\ CachesFresh /\ OncePerLocation /\ KnowsItems
       /\ BundlesFit /\ SavedLoads /\ NothingThrown
  /\ kind = "labeled" =>
       /\ Labeled!TypeOK /\ Labeled!CachesFresh /\ Labeled!OncePerLocation
       /\ Labeled!BundlesFit /\ Labeled!SavedLoads /\ Labeled!NothingThrown
       /\ Labeled!HashedAreHeld
  /\ kind = "failing" => Failing!BundlesFit

\* get_label and the polynomials of a query give the same label.
ServedLabelsAgree == kind = "labeled" => Labeled!LabelsAgree

\* Used as it should be, the database implements the map DbSpec.
Map == INSTANCE DbSpec WITH
  InsertBatches <- PlainBatches \cup LabeledBatches, RemoveBatches <- ItemBatches,
  contents <- CASE kind = "plain" -> Seen [] kind = "labeled" -> Labeled!Seen [] OTHER -> {},
  stripped <- kind # "failing" /\ stripped,
  saved <- CASE kind = "plain" -> Saved [] kind = "labeled" -> Labeled!Saved [] OTHER -> {},
  request <- IF kind = "failing" THEN {} ELSE call.request

ImplementsMap == Map!Spec
=============================================================================
