----------------------------- MODULE TrailLoader -----------------------------
(***************************************************************************)
(* From the lines of TRAILS_FILE to the tables a worker looks trails up in *)
(* (sensor/src/trails/loader.rs, regexset.rs, and TrailDbBuilder and       *)
(* TrailDb of mod.rs).                                                     *)
(*                                                                         *)
(* A line is [kind, trail, info, static]: kind is "skip" for an empty line *)
(* or a comment, "bad" for one without three fields, else "row".  static   *)
(* says the reference names a static list.  Positions in the file count    *)
(* lines, and so do the batches it is read in.                             *)
(***************************************************************************)
EXTENDS TrailTable, Functions

CONSTANTS
  NativeOf(_),   \* NativeKey::of(): {} or the address a trail is the text of
  Wildcards,     \* is_wildcard_trail() with metacharacters
  Compiles,      \* of those, the ones can_compile_trail() accepts
  Repairable,    \* of the others, the ones repair_truncated() mends
  ShapeOf(_),    \* fingerprint_shape()
  MaxGroups,     \* the 100 groups of the alternation
  BatchLines,    \* a batch of BATCH_BYTES
  EstimateOf(_)  \* estimated_rows from the length of the file

-----------------------------------------------------------------------------
(* One cut of split_lines(): to the end of the line the p-th share of the  *)
(* n lines ends in, if that is past the last cut.                          *)
NextCut(acc, n, p, parts) ==
  LET target == (n * p) \div parts
  IN  IF target <= acc.start \/ acc.start >= n THEN acc
      ELSE [start |-> target + 1, cuts |-> Append(acc.cuts, <<acc.start, target + 1>>)]

Cuts(n, parts) ==
  LET cut[p \in 0 .. parts - 1] ==
        IF p = 0 THEN [start |-> 0, cuts |-> <<>>] ELSE NextCut(cut[p - 1], n, p, parts)
  IN  cut[parts - 1]

(* split_lines(): at most parts pieces, the last what the cuts leave.      *)
SplitLines(n, parts) ==
  LET most == Cuts(n, parts)
  IN  IF most.start < n THEN Append(most.cuts, <<most.start, n>>) ELSE most.cuts

EmptyShard ==
  [rows |-> <<>>, pairs |-> <<>>, wildcards |-> <<>>, loaded |-> 0, whitelisted |-> 0,
   malformed |-> 0]

(* Shard::intern(): the position of a pair in the shard's own list.        *)
Interned(pairs, pair) == IF pair \in Range(pairs) THEN pairs ELSE Append(pairs, pair)

PairAt(pairs, pair) == CHOOSE i \in DOMAIN pairs : pairs[i] = pair

InternAll(pairs, more) ==
  LET known[n \in 0 .. Len(more)] ==
        IF n = 0 THEN pairs ELSE Interned(known[n - 1], more[n])
  IN  known[Len(more)]

PairOf(line) == <<line.info, line.static>>

(* One line of parse_slice(), whitelisted trails left out.                 *)
ParseLine(shard, line, whitelist) ==
  LET pairs == Interned(shard.pairs, PairOf(line))
  IN  IF line.kind = "skip" THEN shard
      ELSE IF line.kind = "bad" THEN [shard EXCEPT !.malformed = @ + 1]
      ELSE IF line.trail \in whitelist THEN [shard EXCEPT !.whitelisted = @ + 1]
      ELSE [shard EXCEPT
             !.wildcards = IF line.static /\ line.trail \in Wildcards
                           THEN Append(@, line.trail) ELSE @,
             !.pairs = pairs,
             !.rows = Append(@, <<line.trail, PairAt(pairs, PairOf(line))>>),
             !.loaded = @ + 1]

(* The slice after line a up to line b.                                    *)
ParseSlice(lines, a, b, whitelist) ==
  LET shard[k \in 0 .. b - a] ==
        IF k = 0 THEN EmptyShard ELSE ParseLine(shard[k - 1], lines[a + k], whitelist)
  IN  shard[b - a]

-----------------------------------------------------------------------------
EmptyRegex == [patterns |-> <<>>, offers |-> <<>>]

Accepted(trail, repair) == trail \in Compiles \/ (repair /\ trail \in Repairable)

(* TrailRegexBuilder::offer(): in file order, until the groups are used up.*)
Offer(regex, trail, repair) ==
  IF Len(regex.patterns) >= MaxGroups THEN regex
  ELSE [offers |-> Append(regex.offers, trail),
        patterns |-> IF Accepted(trail, repair) THEN Append(regex.patterns, trail)
                     ELSE regex.patterns]

OfferAll(regex, trails, repair) ==
  LET built[n \in 0 .. Len(trails)] ==
        IF n = 0 THEN regex ELSE Offer(built[n - 1], trails[n], repair)
  IN  built[Len(trails)]

EmptyDb(rows) ==
  [pairs |-> <<>>, strings |-> NewTable(rows), native |-> NewTable(rows \div 8 + 1),
   regex |-> EmptyRegex, fingerprints |-> {}]

(* The tables per address family are one here.                             *)
InsertNative(t, trail, pair) ==
  IF NativeOf(trail) = {} THEN t ELSE Insert(t, CHOOSE a \in NativeOf(trail) : TRUE, pair)

(* insert_prepared(): the text, and the address it is the text of.         *)
InsertTrail(db, trail, pair) ==
  [db EXCEPT
    !.strings = Insert(@, trail, pair),
    !.fingerprints = @ \cup ShapeOf(trail),
    !.native = InsertNative(@, trail, pair)]

(* The rows of a shard in its order, number(j) the pair of the j-th.       *)
InsertAll(db, rows, number) ==
  LET into[n \in 0 .. Len(rows)] ==
        IF n = 0 THEN db ELSE InsertTrail(into[n - 1], rows[n][1], number[n])
  IN  into[Len(rows)]

(* Mutant of Drain: the shard's pair numbers are taken for the store's.    *)
DrainLocal(db, shard, repair) ==
  InsertAll([db EXCEPT !.pairs = InternAll(@, shard.pairs)], shard.rows,
            [j \in DOMAIN shard.rows |-> shard.rows[j][2]])

(* The serial pass over one shard: its pairs, its wildcards, its rows.     *)
Drain(db, shard, repair) ==
  LET pairs == InternAll(db.pairs, shard.pairs)
  IN  InsertAll([db EXCEPT !.pairs = pairs, !.regex = OfferAll(@, shard.wildcards, repair)],
                shard.rows,
                [j \in DOMAIN shard.rows |-> PairAt(pairs, shard.pairs[shard.rows[j][2]])])

(* One batch, the lines after the first done: its slices are parsed side   *)
(* by side, then drained in order.                                         *)
LoadBatch(db, lines, done, whitelist, repair, threads) ==
  LET bounds == SplitLines(Len(lines) - done, threads)
      after[i \in 0 .. Len(bounds)] ==
        IF i = 0 THEN db
        ELSE Drain(after[i - 1],
                   ParseSlice(lines, done + bounds[i][1], done + bounds[i][2], whitelist),
                   repair)
  IN  after[Len(bounds)]

(* TrailDb::get(), get_ip() and get_ip_port().                             *)
Lookup(db, key) == {db.pairs[i] : i \in Get(db.strings, key)}

LookupNative(db, address) == {db.pairs[i] : i \in Get(db.native, address)}

-----------------------------------------------------------------------------
(* What the first n lines of a file say: of a key what the last row says   *)
(* that names it and is not whitelisted, of the wildcards the first that   *)
(* can be compiled.                                                        *)
Kept(lines, n, whitelist) ==
  {i \in 1 .. n : lines[i].kind = "row" /\ lines[i].trail \notin whitelist}

LastOf(lines, named) == IF named = {} THEN {} ELSE {PairOf(lines[Max(named)])}

SaysOfText(lines, n, whitelist, key) ==
  LastOf(lines, {i \in Kept(lines, n, whitelist) : lines[i].trail = key})

SaysOfAddress(lines, n, whitelist, address) ==
  LastOf(lines, {i \in Kept(lines, n, whitelist) : address \in NativeOf(lines[i].trail)})

Usable(lines, n, whitelist, repair) ==
  {i \in Kept(lines, n, whitelist) :
     /\ lines[i].static /\ lines[i].trail \in Wildcards
     /\ Accepted(lines[i].trail, repair)}

(* Pattern number j is the j-th usable line of the file.                   *)
PatternsAre(patterns, lines, usable) ==
  /\ Len(patterns) = Min({Cardinality(usable), MaxGroups})
  /\ \A i \in usable :
       LET rank == Cardinality({j \in usable : j <= i})
       IN  rank <= MaxGroups => patterns[rank] = lines[i].trail

(* A set of tables that answers every question as the lines do.            *)
Answers(db, lines, n, whitelist, repair, keys, addresses) ==
  /\ \A k \in keys : Lookup(db, k) = SaysOfText(lines, n, whitelist, k)
  /\ \A a \in addresses : LookupNative(db, a) = SaysOfAddress(lines, n, whitelist, a)
  /\ PatternsAre(db.regex.patterns, lines, Usable(lines, n, whitelist, repair))
  /\ db.fingerprints = UNION {ShapeOf(lines[i].trail) : i \in Kept(lines, n, whitelist)}

=============================================================================
