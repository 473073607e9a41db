------------------------------ MODULE MCTrails ------------------------------
(***************************************************************************)
(* The reload thread and the trail store for the model checker, see        *)
(* README.md.  TrailReload takes the set a load returns as given, and      *)
(* TrailStoreFile follows the load itself: they share no state, so a       *)
(* behaviour runs one of them from its start and leaves the other one      *)
(* where it began.                                                         *)
(*                                                                         *)
(* The store is about a file of a few lines: duplicates, an address in two *)
(* spellings, wildcards that compile, that can be repaired and that cannot,*)
(* a comment and a malformed line, in tables small enough to grow.         *)
(***************************************************************************)
EXTENDS TrailReload, TrailStoreFile

CONSTANT Parts \* the parts to run, of "reload" and "store"

VARIABLE part

MCInit ==
  /\ part \in Parts
  /\ Init /\ StoreInit
  /\ part = "reload" => ctimeKept /\ csv.lines = CHOOSE c \in Contents : TRUE
  /\ part = "store" => file = NoFile

MCNext ==
  \/ part = "reload" /\ Next /\ UNCHANGED <<part, storeVars>>
  \/ part = "store" /\ StoreNext /\ UNCHANGED <<part, vars>>

MCSpec == MCInit /\ [][MCNext]_<<part, vars, storeVars>> /\ Fairness

-----------------------------------------------------------------------------

Row(trail, info) == [kind |-> "row", trail |-> trail, info |-> info, static |-> info = "static"]

Line(kind) == [kind |-> kind, trail |-> "", info |-> "", static |-> FALSE]

\* Two files of the same length: the second drops, adds and renames trails.
MCContents ==
  {<<Row("evil", "mal"), Row("six", "mal"), Line("skip"), Row("sixlong", "static"), Row("w*", "static"), Row("evil", "static")>>,
   <<Row("w(", "static"), Row("six", "static"), Row("evil", "mal"), Line("bad"), Row("w[", "static"), Row("ok", "mal")>>}

MCHashOf(key) ==
  CASE key = "evil" -> 0 [] key = "six" -> 1 [] key = "sixlong" -> 1 [] key = "w*" -> 3
    [] key = "w(" -> 2 [] key = "w[" -> 6 [] key = "ok" -> 7 [] OTHER -> 5

MCNativeOf(trail) == IF trail \in {"six", "sixlong"} THEN {"::6"} ELSE {}

MCShapeOf(trail) == IF trail = "ok" THEN {"ja3"} ELSE {}

MCWhitelistOf(version) == IF version = 1 THEN {} ELSE {"evil"}

MCEstimateOf(lines) == 0

MCWildcards == {"w*", "w(", "w["}

MCBuilds ==
  {[repair |-> FALSE, write |-> TRUE], [repair |-> TRUE, write |-> TRUE],
   [repair |-> TRUE, write |-> FALSE]}

=============================================================================
