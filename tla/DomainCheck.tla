---------------------------- MODULE DomainCheck ----------------------------
(***************************************************************************)
(* The verdict on one domain name (sensor/src/process.rs domain_hit and    *)
(* check_domain_inner): the cache of clean names, the whitelist walk of    *)
(* whitelist.rs, the trail walk over the parents of the name and the       *)
(* fallbacks after it, on the trail set the worker's view holds.           *)
(*                                                                         *)
(* A name is the sequence of its labels, in lower case; the code walks dot *)
(* offsets of the text.  A trail is its label, the info column; several of *)
(* its words decide something and are sets of labels here.  A trail set    *)
(* has exact entries and the names its wildcard expressions match, with    *)
(* the label of the candidate entry.  The caches of pure functions of the  *)
(* name or of constant tables (domain_whitelisted, user_agent,             *)
(* path_findings, post_findings, dga_findings) decide nothing and are left *)
(* out; domain_clean caches a verdict of the trail set, which changes.     *)
(***************************************************************************)
EXTENDS SieveCache

CONSTANTS
  TrailSets,     \* the trail sets published, in order
  Whitelist,     \* Whitelist.exact
  Impersonators, \* names homograph::impersonated() finds a brand for
  NsLike,        \* first labels ns_like_prefix matches
  Digits,        \* labels of digits
  Odd,           \* labels is_valid_dns_name() refuses
  MutedNames,    \* heuristics DISABLED_HEURISTICS names
  UseHeuristics  \* USE_HEURISTICS

Label == STRING

ASSUME DomainAssumption ==
  /\ UseHeuristics \in BOOLEAN
  /\ Len(TrailSets) \in Nat \ {0} /\ DOMAIN TrailSets = 1..Len(TrailSets)
  /\ \A i \in DOMAIN TrailSets : /\ DOMAIN TrailSets[i] = {"exact", "wild", "ips", "urls"}
                                 /\ DOMAIN TrailSets[i].exact \subseteq Seq(Label)
  /\ DOMAIN HashOf \subseteq Seq(Label)

VARIABLES
  view,    \* which of TrailSets st.trails shows
  clean,   \* st.domain_clean
  cleanAt, \* history: the trail set a name was last found clean in
  judged   \* history: the names checked by the last step and what was found

checkVars == <<view, clean, cleanAt, judged>>

Trails == TrailSets[view]

Names == DOMAIN HashOf

HeuristicEnabled(h) == h \notin MutedNames

-----------------------------------------------------------------------------
Parent(q, i) == SubSeq(q, i, Len(q))

(* check_domain_member_depth(): labels of the most specific entry that is  *)
(* the name or a parent of it, 0 if there is none.                         *)
WhitelistDepth(q) ==
  LET at == {i \in DOMAIN q : Parent(q, i) \in Whitelist}
  IN  IF at = {} THEN 0 ELSE Len(q) + 1 - Min(at)

Whitelisted(q) == WhitelistDepth(q) > 0

IsNumeric(q) == q # <<>> /\ \A i \in DOMAIN q : q[i] \in Digits

IsValid(q) == q # <<>> /\ \A i \in DOMAIN q : q[i] \notin Odd

NoHit == {}

(* A hit is the set of the one trail it reports: the entry, the label.     *)
HitOn(entry, info) == {[entry |-> entry, info |-> info]}

(* contains_domain_member(): the name or a parent of it is listed.         *)
Listed(trails, q) == \E i \in DOMAIN q : Parent(q, i) \in DOMAIN trails.exact

-----------------------------------------------------------------------------
(* A parent that is listed but is no indicator for this name: an ns-like   *)
(* host under a suspicious or sinkholed zone, the bare domain (or its www) *)
(* of a provider of dynamic names or free pages.                           *)
Skipped(q, i, info) ==
  \/ q[1] \in NsLike /\ info \in {"suspicious", "sinkhole"}
  \/ (i = 1 \/ q[1] = "www") /\ info \in {"dynamic", "freeweb"}

(* <name>.ip-adress.com stands for the name.                               *)
GatewayHit(trails, q) ==
  LET base == SubSeq(q, 1, Len(q) - 2)
  IN  IF /\ ~Whitelisted(q)
         /\ Len(q) > 2 /\ Parent(q, Len(q) - 1) = <<"ip-adress", "com">>
         /\ base \in DOMAIN trails.exact
      THEN HitOn(base, trails.exact[base])
      ELSE NoHit

(* Mutant of WalkHit: a listed name loses to any whitelisted parent.       *)
WalkHitVetoed(trails, q) ==
  LET at == {i \in DOMAIN q : /\ Parent(q, i) \in DOMAIN trails.exact
                              /\ ~Skipped(q, i, trails.exact[Parent(q, i)])}
      first == Min(at)
  IN  IF at # {} /\ ~Whitelisted(q)
      THEN HitOn(Parent(q, first), trails.exact[Parent(q, first)])
      ELSE NoHit

(* The parent walk: the first listed parent that is not skipped, if it is  *)
(* more specific than the closest whitelisted one.                         *)
WalkHit(trails, q) ==
  LET at == {i \in DOMAIN q : /\ Parent(q, i) \in DOMAIN trails.exact
                              /\ ~Skipped(q, i, trails.exact[Parent(q, i)])}
      first == Min(at)
  IN  IF at # {} /\ Len(q) + 1 - first > WhitelistDepth(q)
      THEN HitOn(Parent(q, first), trails.exact[Parent(q, first)])
      ELSE NoHit

HomographHit(q) ==
  IF /\ ~Whitelisted(q) /\ UseHeuristics /\ HeuristicEnabled("idn_homograph")
     /\ q \in Impersonators
  THEN HitOn(q, "homograph") ELSE NoHit

WildcardHit(trails, q) ==
  IF ~Whitelisted(q) /\ q \in DOMAIN trails.wild
  THEN HitOn(q, trails.wild[q]) ELSE NoHit

(* <address>.onion.<gateway> stands for <address>.onion.                   *)
OnionHit(trails, q) ==
  LET at == {i \in 2..(Len(q) - 1) : q[i] = "onion"}
      base == SubSeq(q, 1, Min(at))
  IN  IF ~Whitelisted(q) /\ at # {} /\ base \in DOMAIN trails.exact
      THEN HitOn(base, trails.exact[base]) ELSE NoHit

FirstOf(hits) ==
  LET found == {i \in DOMAIN hits : hits[i] # NoHit}
  IN  IF found = {} THEN NoHit ELSE hits[Min(found)]

(* The verdict of domain_hit() past the cache.  A CNAME target is matched  *)
(* against trails only.                                                    *)
Judgement(trails, q, alias) ==
  IF ~IsValid(q) THEN NoHit
  ELSE FirstOf(<<GatewayHit(trails, q), WalkHit(trails, q),
                 IF alias THEN NoHit ELSE HomographHit(q),
                 WildcardHit(trails, q), OnionHit(trails, q)>>)

(* What domain_hit() leaves once it has found a verdict that may be kept.  *)
Remembered(cache, q, mayKeep, found) ==
  [hit |-> found, fresh |-> found = NoHit /\ mayKeep,
   cache |-> IF found = NoHit /\ mayKeep THEN InsertIfSeenBefore(cache, q) ELSE cache]

(* Mutant of Checked: the clean verdict on a CNAME target is cached.       *)
CheckedCachingAliases(cache, q, alias) ==
  IF IsNumeric(q) THEN [cache |-> cache, hit |-> NoHit, fresh |-> FALSE]
  ELSE IF Hit(cache, q) THEN [cache |-> Touched(cache, q), hit |-> NoHit, fresh |-> FALSE]
  ELSE Remembered(cache, q, TRUE, Judgement(Trails, q, alias))

(* domain_hit(): the hit and the cache after it.  fresh: the name was      *)
(* found clean just now, and the doorkeeper was asked.                     *)
Checked(cache, q, alias) ==
  IF IsNumeric(q) THEN [cache |-> cache, hit |-> NoHit, fresh |-> FALSE]
  ELSE IF Hit(cache, q) THEN [cache |-> Touched(cache, q), hit |-> NoHit, fresh |-> FALSE]
  ELSE Remembered(cache, q, ~alias, Judgement(Trails, q, alias))

(* The trail events of a hit.                                              *)
DomainEvents(hit) == {[kind |-> "dns", trail |-> h.entry, info |-> h.info] : h \in hit}

(* check_domain_inner() on a name the client asked for, with the answer c  *)
(* of domain_hit().                                                        *)
CheckDomain(q, c) ==
  /\ clean' = c.cache
  /\ cleanAt' = IF c.fresh THEN [cleanAt EXCEPT ![q] = view] ELSE cleanAt
  /\ judged' = {[name |-> q, hit |-> c.hit]}

NoCheck == UNCHANGED <<clean, cleanAt>> /\ judged' = {}

-----------------------------------------------------------------------------
CheckInit ==
  /\ view = 1
  /\ clean = EmptyCache
  /\ cleanAt = [q \in Names |-> 0]
  /\ judged = {}

(* TrailView::refresh() between two batches of packets: the worker adopts  *)
(* the trail set published last.                                           *)
AdoptTrails ==
  /\ view < Len(TrailSets)
  /\ view' = view + 1
  /\ UNCHANGED <<clean, cleanAt>> /\ judged' = {}

-----------------------------------------------------------------------------
(* What the policy says of a name, without the walks: a listed name or     *)
(* parent counts unless it is skipped, and fires unless a whitelisted one  *)
(* is as specific; everything else needs a name with nothing whitelisted.  *)
Policy(trails, q) ==
  LET Counts(i) == /\ Parent(q, i) \in DOMAIN trails.exact
                   /\ ~Skipped(q, i, trails.exact[Parent(q, i)])
      Fires(i) == /\ Counts(i)
                  /\ \A j \in 1..i : Parent(q, j) \notin Whitelist
                  /\ \A j \in 1..(i - 1) : ~Counts(j)
      unlisted == \A j \in DOMAIN q : Parent(q, j) \notin Whitelist
  IN  \/ \E i \in DOMAIN q : Fires(i)
      \/ /\ unlisted
         /\ \/ q \in DOMAIN trails.wild
            \/ UseHeuristics /\ HeuristicEnabled("idn_homograph") /\ q \in Impersonators
            \/ \E b \in DOMAIN trails.exact :
                 \/ b # <<>> /\ q = b \o <<"ip-adress", "com">>
                 \/ /\ Last(b) = "onion" /\ Len(b) > 1 /\ Len(q) > Len(b)
                    /\ SubSeq(q, 1, Len(b)) = b
                    /\ \A i \in 2..(Len(b) - 1) : b[i] # "onion"

(* Longest match wins, through all the caching: what a check reports is    *)
(* what the policy says of the name in the trail set in use, or nothing    *)
(* where the name is remembered as clean, and then the policy did find it  *)
(* clean, with every heuristic applied, in the set it was last judged by.  *)
VerdictFollowsPolicy ==
  \A j \in judged :
    IsValid(j.name) /\ ~IsNumeric(j.name) =>
      \/ (j.hit # NoHit) <=> Policy(Trails, j.name)
      \/ /\ j.hit = NoHit /\ Hit(clean, j.name)
         /\ cleanAt[j.name] # 0
         /\ ~Policy(TrailSets[cleanAt[j.name]], j.name)

(* lru.rs:8-9, "Every user is a pure cache, so the policy decides only     *)
(* what gets recomputed, never a verdict": a name that the trail set in    *)
(* use lists is reported whenever it is checked.                           *)
CacheDecidesNoVerdict ==
  \A j \in judged :
    IsValid(j.name) /\ ~IsNumeric(j.name) => ((j.hit # NoHit) <=> Policy(Trails, j.name))

SameHash(a, b) == HashOf[a] = HashOf[b]

\* Held(clean) is the abstract cache's state.
Bounded == INSTANCE BoundedCache WITH
             Keys <- Names, Bound <- Capacity, Same <- SameHash, held <- Held(clean)

(* The SIEVE cache of clean names (lru.rs), with its hand, its slab and    *)
(* its doorkeeper, implements a bounded cache: it never holds more than    *)
(* its capacity or two names of one hash, and a check adds one name and    *)
(* drops at most one other.                                                *)
CleanCacheBounded == Bounded!Spec

=============================================================================
