--------------------------- MODULE TrailStoreFile ---------------------------
(***************************************************************************)
(* The compiled trail store next to TRAILS_FILE (sensor/src/trails/store.rs*)
(* and its use by load_trails() in loader.rs).                             *)
(*                                                                         *)
(* Sensors boot, load, crash and boot again while somebody rewrites the    *)
(* CSV, edits the whitelist and damages or removes the store.  A hash is   *)
(* what it is the hash of: the header's content hash is the lines read,    *)
(* its whitelist hash the version of the whitelist files.                  *)
(***************************************************************************)
EXTENDS TrailLoader

CONSTANTS
  Sensors,         \* processes sharing one TRAILS_FILE
  Contents,        \* what the CSV may hold: sequences of lines
  WhitelistOf(_),  \* the trails a version of the whitelist files exempts
  Versions,        \* versions of the whitelist files
  Builds,          \* [repair, write]: how a sensor is built and set up (-T never writes)
  Inodes, MaxClock, MaxEdits, MaxBoots,
  Threads,         \* parse threads
  MaxCanaries,     \* STR_CANARIES
  LiveEdits        \* may the whitelist be edited while a sensor runs?

Lines == UNION {Range(c) : c \in Contents}

Trails == {l.trail : l \in Lines}

Addresses == UNION {NativeOf(t) : t \in Trails}

(* MinSlots is 16 and MaxGroups 100 in the code; a trail is the text of at *)
(* most one address.                                                       *)
ASSUME StoreAssumption ==
  /\ HashRange \in Nat \ {0} /\ MinSlots \in Nat \ {0, 1} /\ MaxGroups \in Nat
  /\ BatchLines \in Nat \ {0} /\ Threads \in Nat \ {0} /\ MaxCanaries \in Nat \ {0}
  /\ \A k \in Trails \cup Addresses : HashOf(k) \in 0 .. HashRange - 1
  /\ \A t \in Trails : \A a, b \in NativeOf(t) : a = b
  /\ Contents \subseteq Seq(Lines)
  /\ \A l \in Lines : l.kind \in {"skip", "bad", "row"} /\ l.static \in BOOLEAN
  /\ \A c \in Contents : EstimateOf(Len(c)) \in Nat

VARIABLES clock, ctimeKept, csv, whitelist, prebuilt, sensor, edits, boots

storeVars == <<clock, ctimeKept, csv, whitelist, prebuilt, sensor, edits, boots>>

Absent == [there |-> FALSE]

NoIdentity == <<0, 0>>

Idle(wl, build) ==
  [pc |-> "idle", wl |-> wl, build |-> build, hash |-> 0, meta |-> <<>>, fd |-> <<>>,
   identity |-> NoIdentity, got |-> <<>>, db |-> EmptyDb(0), from |-> <<>>,
   seen |-> {}, torn |-> FALSE, serving |-> FALSE]

Down == [pc |-> "down"]

StoreInit ==
  /\ clock = 1 /\ ctimeKept \in BOOLEAN /\ edits = 0 /\ boots = 0
  /\ \E c \in Contents : csv = [lines |-> c, mtime |-> 1, ino |-> Min(Inodes), ctime |-> 1]
  /\ whitelist = Min(Versions)
  /\ prebuilt = Absent
  /\ sensor = [s \in Sensors |-> Down]

-----------------------------------------------------------------------------
(* ContentHash, hash_file(): two contents have one hash only if they are   *)
(* the same.                                                               *)
ContentHash(lines) == lines

(* trail_load_options(), whitelist_hash(): of the files as they are now.   *)
WhitelistHash == whitelist

(* inode_parts() and settled_identity(): the identity of a file whose      *)
(* change time no later write can share.                                   *)
InodeParts(meta) == <<meta.ino, meta.ctime>>

(* Mutant of SettledIdentity: a file written this second is settled too.   *)
SettledIdentityAtOnce(meta) == InodeParts(meta)

SettledIdentity(meta) ==
  IF clock >= meta.ctime + 2 THEN InodeParts(meta) ELSE NoIdentity

(* Mutant of UntouchedSinceBuilt: any filesystem's change time is trusted. *)
UntouchedOnAny(header, meta) == header.identity = InodeParts(meta)

UntouchedSinceBuilt(header, meta) ==
  /\ InodeParts(meta) # NoIdentity
  /\ header.identity = InodeParts(meta)
  /\ ctimeKept

(* Mutant of CheckIdentity: the whitelist is not part of the identity.     *)
CheckIdentityBlind(header, s, meta) ==
  /\ header.repair = s.build.repair
  /\ header.len = meta.len /\ header.mtime = meta.mtime

(* check_identity(): version, layout and REPAIR_TRUNCATED_TRAILS (repair), *)
(* the whitelist files, and the size and mtime of the CSV.                 *)
CheckIdentity(header, s, meta) ==
  /\ header.repair = s.build.repair
  /\ header.whitelist = s.hash
  /\ header.len = meta.len /\ header.mtime = meta.mtime

(* read_header() and assemble(): the checksums of header and tail, the     *)
(* sections inside the file, and tables that are safe to probe.            *)
Readable(file) ==
  /\ file.there
  /\ file.damage \notin {"checksum", "truncated"}
  /\ ValidTable(file.db.strings, file.count, Len(file.db.pairs))
  /\ \A c \in file.canaries : Get(file.db.strings, c[1]) = {c[2]}

(* The tables as they are mapped; the regex is compiled again from the     *)
(* trails that were offered to the first one.                              *)
Assemble(file, repair) ==
  [file.db EXCEPT !.regex = OfferAll(EmptyRegex, @.offers, repair)]

(* sample(): every step-th occupied slot, at most MaxCanaries of them.     *)
Sampled(slots) ==
  LET step == Max({Cardinality(Occupied(slots)) \div MaxCanaries, 1})
      rank(i) == Cardinality({j \in Occupied(slots) : j < i})
  IN  {i \in Occupied(slots) : rank(i) % step = 0 /\ rank(i) \div step < MaxCanaries}

Canaries(db) ==
  {<<db.strings.slots[i].key, db.strings.slots[i].val>> : i \in Sampled(db.strings.slots)}

StoreFile(s) ==
  [there |-> TRUE, damage |-> "none", repair |-> s.build.repair, whitelist |-> s.hash,
   len |-> s.meta.len, mtime |-> s.meta.mtime, identity |-> s.identity, hash |-> ContentHash(s.got),
   db |-> s.db, count |-> s.db.strings.len, canaries |-> Canaries(s.db), torn |-> s.torn]

(* The load is over: its descriptor is closed.                             *)
Serve(s, db, from, torn) ==
  sensor' = [sensor EXCEPT ![s] = [Idle(@.wl, @.build) EXCEPT
               !.serving = TRUE, !.db = db, !.from = from, !.torn = torn,
               !.seen = sensor[s].seen]]

-----------------------------------------------------------------------------
(* main(): the whitelist is loaded once.                                   *)
Start(s, build) ==
  /\ sensor[s].pc = "down" /\ boots < MaxBoots
  /\ boots' = boots + 1
  /\ sensor' = [sensor EXCEPT ![s] = Idle(whitelist, build)]
  /\ UNCHANGED <<clock, ctimeKept, csv, whitelist, prebuilt, edits>>

(* trail_load_options() hashes the whitelist files; load_trails() opens    *)
(* the CSV, asks for its metadata and takes its identity.                  *)
Open(s) ==
  LET meta == [len |-> Len(csv.lines), mtime |-> csv.mtime, ino |-> csv.ino, ctime |-> csv.ctime]
  IN  /\ sensor[s].pc = "idle"
      /\ sensor' = [sensor EXCEPT ![s] = [Idle(@.wl, @.build) EXCEPT
                      !.pc = "opened", !.hash = WhitelistHash, !.meta = meta, !.fd = csv.lines,
                      !.identity = SettledIdentity(meta), !.seen = {csv.lines}]]
      /\ UNCHANGED <<clock, ctimeKept, csv, whitelist, prebuilt, edits, boots>>

(* try_load(): a store that is not proved to be of this CSV is not used.   *)
TryStore(s) ==
  LET me == sensor[s]
      proved == /\ Readable(prebuilt) /\ CheckIdentity(prebuilt, me, me.meta)
                /\ UntouchedSinceBuilt(prebuilt, me.meta) \/ prebuilt.hash = ContentHash(csv.lines)
  IN  /\ me.pc = "opened"
      /\ \/ proved /\ Serve(s, Assemble(prebuilt, me.build.repair), prebuilt.hash, prebuilt.torn)
         \/ ~proved /\ sensor' = [sensor EXCEPT ![s].pc = "reading",
                                    ![s].db = EmptyDb(EstimateOf(me.meta.len))]
      /\ UNCHANGED <<clock, ctimeKept, csv, whitelist, prebuilt, edits, boots>>

(* One batch of load_trails(), through the descriptor opened before; at    *)
(* the end of the file the tables are finished.                            *)
Read(s) ==
  LET me == sensor[s]
      batch == SubSeq(me.fd, Len(me.got) + 1, Min({Len(me.got) + BatchLines, Len(me.fd)}))
      got == me.got \o batch
      db == LoadBatch(me.db, got, Len(me.got), WhitelistOf(me.wl), me.build.repair, Threads)
  IN  /\ me.pc = "reading"
      /\ \/ /\ Len(got) < Len(me.fd)
            /\ sensor' = [sensor EXCEPT ![s].got = got, ![s].db = db]
         \/ /\ Len(got) >= Len(me.fd) /\ me.build.write
            /\ sensor' = [sensor EXCEPT ![s].got = got, ![s].db = db, ![s].pc = "parsed"]
         \/ /\ Len(got) >= Len(me.fd) /\ ~me.build.write
            /\ Serve(s, db, got, me.torn)
      /\ UNCHANGED <<clock, ctimeKept, csv, whitelist, prebuilt, edits, boots>>

(* write(): the temporary file is complete and synced before it takes the  *)
(* store's name, or the write fails and what was parsed is served.         *)
WriteFails(s) ==
  /\ sensor[s].pc = "parsed"
  /\ Serve(s, sensor[s].db, sensor[s].got, sensor[s].torn)
  /\ UNCHANGED <<clock, ctimeKept, csv, whitelist, prebuilt, edits, boots>>

Rename(s) ==
  /\ sensor[s].pc = "parsed"
  /\ prebuilt' = StoreFile(sensor[s])
  /\ sensor' = [sensor EXCEPT ![s].pc = "written"]
  /\ UNCHANGED <<clock, ctimeKept, csv, whitelist, edits, boots>>

(* reopen(): what is at the path now, if it is this store, else the parsed *)
(* tables.                                                                 *)
Reopen(s) ==
  LET me == sensor[s]
      ours == /\ Readable(prebuilt) /\ CheckIdentity(prebuilt, me, me.meta) /\ prebuilt.hash = ContentHash(me.got)
              /\ prebuilt.db.strings.len = me.db.strings.len
  IN  /\ me.pc = "written"
      /\ \/ ours /\ Serve(s, Assemble(prebuilt, me.build.repair), prebuilt.hash, me.torn)
         \/ ~ours /\ Serve(s, me.db, me.got, me.torn)
      /\ UNCHANGED <<clock, ctimeKept, csv, whitelist, prebuilt, edits, boots>>

(* A crash loses the process and its temporary file, never the store.      *)
Crash(s) ==
  /\ sensor[s].pc # "down" /\ boots < MaxBoots
  /\ sensor' = [sensor EXCEPT ![s] = Down]
  /\ UNCHANGED <<clock, ctimeKept, csv, whitelist, prebuilt, edits, boots>>

-----------------------------------------------------------------------------
Tick ==
  /\ clock < MaxClock
  /\ clock' = clock + 1
  /\ UNCHANGED <<ctimeKept, csv, whitelist, prebuilt, sensor, edits, boots>>

(* The change time of a write; without a kept one, whatever is reported.   *)
ChangeTimes == IF ctimeKept THEN {clock} ELSE {clock, csv.ctime}

Running(s) == sensor[s].pc # "down"

(* Somebody writes over the CSV, with or without its mtime: an open        *)
(* descriptor reads the new lines.                                         *)
Overwrite ==
  \E c \in Contents \ {csv.lines}, m \in {csv.mtime, clock}, t \in ChangeTimes :
    /\ edits < MaxEdits /\ edits' = edits + 1
    /\ csv' = [csv EXCEPT !.lines = c, !.mtime = m, !.ctime = t]
    /\ sensor' = [s \in Sensors |->
         IF ~Running(s) \/ sensor[s].pc = "idle" THEN sensor[s]
         ELSE IF sensor[s].meta.ino # csv.ino THEN [sensor[s] EXCEPT !.seen = @ \cup {c}]
         ELSE [sensor[s] EXCEPT !.seen = @ \cup {c}, !.fd = c,
                 !.torn = @ \/ (sensor[s].pc = "reading" /\ sensor[s].got # <<>>)]]
    /\ UNCHANGED <<clock, ctimeKept, whitelist, prebuilt, boots>>

(* Somebody renames a new file over it: an open descriptor keeps the old   *)
(* one.  The number of an inode nobody holds may come back.                *)
Replace ==
  \E c \in Contents, m \in {csv.mtime, clock}, t \in ChangeTimes,
     i \in Inodes \ ({csv.ino} \cup {sensor[s].meta.ino : s \in {r \in Sensors : Running(r) /\ sensor[r].pc # "idle"}}) :
    /\ edits < MaxEdits /\ edits' = edits + 1
    /\ csv' = [lines |-> c, mtime |-> m, ctime |-> t, ino |-> i]
    /\ sensor' = [s \in Sensors |->
         IF ~Running(s) \/ sensor[s].pc = "idle" THEN sensor[s]
         ELSE [sensor[s] EXCEPT !.seen = @ \cup {c}]]
    /\ UNCHANGED <<clock, ctimeKept, whitelist, prebuilt, boots>>

EditWhitelist ==
  /\ LiveEdits \/ \A s \in Sensors : ~Running(s)
  /\ edits < MaxEdits /\ edits' = edits + 1
  /\ whitelist' \in Versions \ {whitelist}
  /\ UNCHANGED <<clock, ctimeKept, csv, prebuilt, sensor, boots>>

(* A store that rots: its slots read as zeros (no key, the first pair), a  *)
(* checksummed part is wrong, or its end is lost.  RemoveStore is an       *)
(* operator's rm.                                                          *)
ZeroSlot == [key |-> "", val |-> 1]

DamageStore(kind) ==
  /\ prebuilt.there /\ prebuilt.damage = "none"
  /\ edits < MaxEdits /\ edits' = edits + 1
  /\ prebuilt' = [prebuilt EXCEPT !.damage = kind,
        !.db.strings.slots = IF kind = "zeroed" THEN [i \in DOMAIN @ |-> ZeroSlot] ELSE @]
  /\ UNCHANGED <<clock, ctimeKept, csv, whitelist, sensor, boots>>

RemoveStore ==
  /\ prebuilt.there
  /\ edits < MaxEdits /\ edits' = edits + 1
  /\ prebuilt' = Absent
  /\ UNCHANGED <<clock, ctimeKept, csv, whitelist, sensor, boots>>

StoreNext ==
  \/ \E s \in Sensors :
       \/ \E b \in Builds : Start(s, b)
       \/ Open(s) \/ TryStore(s) \/ Read(s)
       \/ WriteFails(s) \/ Rename(s) \/ Reopen(s)
       \/ Crash(s)
  \/ Tick \/ Overwrite \/ Replace \/ EditWhitelist \/ RemoveStore
  \/ \E kind \in {"checksum", "truncated", "zeroed"} : DamageStore(kind)

StoreSpec == StoreInit /\ [][StoreNext]_storeVars

-----------------------------------------------------------------------------
(* What a sensor serves answers every lookup as its whitelist and one      *)
(* content of the CSV say, and the CSV has held that content since the     *)
(* load began: a store is used only when it was built from exactly this    *)
(* CSV, with exactly this whitelist, by this build.  (The exception is a   *)
(* CSV overwritten in place between two reads of it: a mixture, which it   *)
(* may never have held.)                                                   *)
ServedIsCsv ==
  \A s \in Sensors :
    Running(s) /\ sensor[s].serving =>
      /\ Answers(sensor[s].db, sensor[s].from, Len(sensor[s].from),
                 WhitelistOf(sensor[s].wl), sensor[s].build.repair, Trails, Addresses)
      /\ sensor[s].from \in sensor[s].seen \/ sensor[s].torn

(* A store that can be read is what its header says it is; and as long as  *)
(* the CSV has the identity recorded there, it has the content recorded    *)
(* there, so skipping the hash of 100 MB skips nothing.                    *)
StoreHonest ==
  Readable(prebuilt) =>
    /\ Answers(prebuilt.db, prebuilt.hash, Len(prebuilt.hash),
               WhitelistOf(prebuilt.whitelist), prebuilt.repair, Trails, Addresses)
    /\ ctimeKept /\ prebuilt.identity = InodeParts(csv) => csv.lines = prebuilt.hash

=============================================================================
