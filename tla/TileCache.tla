------------------------------ MODULE TileCache ------------------------------
(***************************************************************************)
(* The byte-bounded cache of tiles that worker threads share.  The code    *)
(* has it twice, with the same protocol: OperationTileCache                *)
(* (viprs-runtime, cache.rs), which execute_tile asks before it runs a     *)
(* node and fills after, and the source wrapper TileCache (sources/        *)
(* tile_cache.rs), whose read_region is all of it.                         *)
(*                                                                         *)
(* The map and total_bytes are behind a RwLock that is never held while a  *)
(* tile is made.  A hit touches its entry outside the lock, with a stamp   *)
(* of an atomic clock: by then the entry may be evicted, or its key may    *)
(* hold another one.  A miss takes its stamp before it waits for the       *)
(* write lock.  The eviction loop holds the lock but reads the stamps of   *)
(* the entries one by one, while other threads touch them.                 *)
(***************************************************************************)
EXTENDS Naturals, FiniteSets, FiniteSetsExt

CONSTANTS
    Threads,     \* the callers
    Keys,        \* (operation, region): what a tile is cached under
    Bytes,       \* the length of the tile of a key
    MaxBytes,    \* NonZeroUsize
    MaxStamps,   \* bound: no call starts once the clock is here
    None

ASSUME TileCacheAssumption ==
    /\ IsFiniteSet(Threads) /\ IsFiniteSet(Keys)
    /\ Bytes \in [Keys -> Nat]
    /\ MaxBytes \in Nat \ {0}
    /\ MaxStamps \in Nat
    /\ None \notin Threads

VARIABLES
    tiles,         \* CacheState.tiles: a function on the keys that have an entry
    total_bytes,   \* CacheState.total_bytes
    access_clock,  \* SharedCache.access_clock
    writer,        \* the thread that evicts under the write lock, or None
    seen,          \* the entries whose stamp this round of its loop has read
    call           \* what each thread is doing

cacheVars == <<tiles, total_bytes, access_clock, writer, seen, call>>

\* An entry, named by the stamp it was inserted with.  since and until are
\* history: until is the clock when the last use of the entry ended, since the
\* clock when it began (the first of them, where uses overlapped).
Entry == [born : Nat, last_used : Nat, since : Nat, until : Nat]

Places == {"idle", "hit", "touch", "miss", "made", "insert", "evict"}
Idle == [at |-> "idle"]
Calls ==
    {Idle} \cup [at : Places \ {"idle"}, key : Keys, began : Nat, entry : Nat, stamp : Nat]

CacheTypeOK ==
    /\ DOMAIN tiles \subseteq Keys
    /\ \A k \in DOMAIN tiles : tiles[k] \in Entry
    /\ total_bytes \in Nat
    /\ access_clock \in Nat
    /\ writer \in Threads \cup {None}
    /\ DOMAIN seen \subseteq DOMAIN tiles
    /\ \A k \in DOMAIN seen : seen[k] \in [stamp : Nat, since : Nat]
    /\ call \in [Threads -> Calls]

NoTiles == [k \in {} |-> None]

CacheInit ==
    /\ tiles = NoTiles
    /\ total_bytes = 0
    /\ access_clock = 0
    /\ writer = None
    /\ seen = NoTiles
    /\ call = [t \in Threads |-> Idle]

At(t, place) == call[t].at = place

Goto(t, place) == call' = [call EXCEPT ![t].at = place]

Return(t) == call' = [call EXCEPT ![t] = Idle]

LockFree == writer = None

Without(f, k) == [j \in DOMAIN f \ {k} |-> f[j]]

\* Fault: a hit does not store its stamp
TouchedInVain(entry, c) ==
    [entry EXCEPT !.since = IF c.began < entry.until THEN @ ELSE c.began,
                  !.until = access_clock]

\* entry.touch(stamp) by a use that began at c.began; the stamp is stored, so
\* a slow use can put back an older one.
Touched(entry, c) ==
    [born |-> entry.born,
     last_used |-> c.stamp,
     since |-> IF c.began >= entry.since /\ c.began < entry.until
               THEN entry.since ELSE c.began,
     until |-> access_clock]

-----------------------------------------------------------------------------
(* A call: look up, then touch, or make the tile and insert it.            *)

\* get: the entry is cloned under the read lock.
Lookup(t, k) ==
    /\ At(t, "idle")
    /\ LockFree
    /\ access_clock < MaxStamps
    /\ call' = [call EXCEPT ![t] =
                  [at |-> IF k \in DOMAIN tiles THEN "hit" ELSE "miss",
                   key |-> k, began |-> access_clock, stamp |-> 0,
                   entry |-> IF k \in DOMAIN tiles THEN tiles[k].born ELSE 0]]
    /\ UNCHANGED <<tiles, total_bytes, access_clock, writer, seen>>

\* The tile is made outside the lock, by every thread that missed it.
Make(t) ==
    /\ At(t, "miss")
    /\ Goto(t, "made")
    /\ UNCHANGED <<tiles, total_bytes, access_clock, writer, seen>>

\* The operation or the inner source failed: nothing is cached.
MakeFails(t) ==
    /\ At(t, "miss")
    /\ Return(t)
    /\ UNCHANGED <<tiles, total_bytes, access_clock, writer, seen>>

\* next_stamp
TakeStamp(t) ==
    /\ call[t].at \in {"hit", "made"}
    /\ access_clock' = access_clock + 1
    /\ call' = [call EXCEPT ![t].at = IF At(t, "hit") THEN "touch" ELSE "insert",
                            ![t].stamp = access_clock + 1]
    /\ UNCHANGED <<tiles, total_bytes, writer, seen>>

\* The touch of a hit needs no lock; that of an evicted entry changes nothing
\* that anybody reads.
Touch(t) ==
    LET c == call[t]
    IN  /\ At(t, "touch")
        /\ tiles' = IF c.key \in DOMAIN tiles /\ tiles[c.key].born = c.entry
                    THEN [tiles EXCEPT ![c.key] = Touched(@, c)]
                    ELSE tiles
        /\ Return(t)
        /\ UNCHANGED <<total_bytes, access_clock, writer, seen>>

\* Another thread was faster: its tile stays.
InsertExisting(t) ==
    LET c == call[t]
    IN  /\ At(t, "insert")
        /\ LockFree
        /\ c.key \in DOMAIN tiles
        /\ tiles' = [tiles EXCEPT ![c.key] = Touched(@, c)]
        /\ Return(t)
        /\ UNCHANGED <<total_bytes, access_clock, writer, seen>>

\* Fault: no second look under the write lock
InsertAgain(t) ==
    LET c == call[t]
    IN  /\ At(t, "insert")
        /\ LockFree
        /\ tiles' = [k \in DOMAIN tiles \cup {c.key} |->
                       IF k = c.key
                       THEN [born |-> c.stamp, last_used |-> c.stamp,
                             since |-> c.began, until |-> access_clock]
                       ELSE tiles[k]]
        /\ total_bytes' = total_bytes + Bytes[c.key]
        /\ writer' = t
        /\ Goto(t, "evict")
        /\ UNCHANGED <<access_clock, seen>>

\* The new entry goes in and its bytes are counted, whatever the budget.
InsertNew(t) ==
    LET c == call[t]
    IN  /\ At(t, "insert")
        /\ LockFree
        /\ c.key \notin DOMAIN tiles
        /\ tiles' = [k \in DOMAIN tiles \cup {c.key} |->
                       IF k = c.key
                       THEN [born |-> c.stamp, last_used |-> c.stamp,
                             since |-> c.began, until |-> access_clock]
                       ELSE tiles[k]]
        /\ total_bytes' = total_bytes + Bytes[c.key]
        /\ writer' = t
        /\ Goto(t, "evict")
        /\ UNCHANGED <<access_clock, seen>>

OverBudget == total_bytes > MaxBytes

\* min_by_key reads the stamps one by one, in the order of the hash map.
ReadStamp(k) ==
    /\ writer # None
    /\ OverBudget
    /\ k \in DOMAIN tiles \ DOMAIN seen
    /\ seen' = [j \in DOMAIN seen \cup {k} |->
                  IF j = k THEN [stamp |-> tiles[k].last_used, since |-> tiles[k].since]
                  ELSE seen[j]]
    /\ UNCHANGED <<tiles, total_bytes, access_clock, writer, call>>

\* The entry with the smallest stamp that was read goes, the new one included.
EvictOldest(k) ==
    /\ writer # None
    /\ OverBudget
    /\ k \in DOMAIN tiles
    /\ DOMAIN seen = DOMAIN tiles
    /\ \A j \in DOMAIN tiles : seen[k].stamp <= seen[j].stamp
    /\ tiles' = Without(tiles, k)
    /\ total_bytes' = IF total_bytes >= Bytes[k] THEN total_bytes - Bytes[k] ELSE 0
    /\ seen' = NoTiles
    /\ UNCHANGED <<access_clock, writer, call>>

\* The loop ends: the tiles fit, or there are none left.
Unlock(t) ==
    /\ writer = t
    /\ ~OverBudget \/ DOMAIN tiles = {}
    /\ writer' = None
    /\ Return(t)
    /\ UNCHANGED <<tiles, total_bytes, access_clock, seen>>

\* Fault: the tiles go, their bytes stay counted
ClearTiles ==
    /\ LockFree
    /\ tiles' = NoTiles
    /\ UNCHANGED <<total_bytes, access_clock, writer, seen, call>>

\* clear, between runs or in the middle of one (OperationTileCache has it,
\* the source wrapper has not).
Clear ==
    /\ LockFree
    /\ tiles' = NoTiles
    /\ total_bytes' = 0
    /\ UNCHANGED <<access_clock, writer, seen, call>>

CallStep(t) ==
    \/ Make(t) \/ MakeFails(t) \/ TakeStamp(t) \/ Touch(t)
    \/ InsertExisting(t) \/ InsertNew(t) \/ Unlock(t)

EvictStep == \E k \in Keys : ReadStamp(k) \/ EvictOldest(k)

CacheNext ==
    \/ \E t \in Threads : CallStep(t) \/ \E k \in Keys : Lookup(t, k)
    \/ EvictStep
    \/ Clear

CacheSpec == CacheInit /\ [][CacheNext]_cacheVars

-----------------------------------------------------------------------------
(* What the cache promises.                                                *)

\* The bytes counted are those of the tiles held, and a lookup never finds
\* more of them than the budget.  (The while loop of insert; were the count
\* too high, the loop would end up evicting every tile that comes in.)
BytesAccounted ==
    /\ total_bytes = MapThenSumSet(LAMBDA k : Bytes[k], DOMAIN tiles)
    /\ LockFree => ~OverBudget

Evicts(k) == writer # None /\ k \in DOMAIN tiles \ DOMAIN tiles'

\* No tile goes while another one stays whose every use had ended before the
\* last uses of the first began.  (The stamps of insert and get are taken and
\* stored outside the lock, out of order, and read one by one by the eviction;
\* all that is given up is the order of uses that overlap.)
EvictsLeastRecent ==
    [][\A k, j \in Keys :
          Evicts(k) /\ j \in DOMAIN tiles' => tiles[j].until > seen[k].since]_cacheVars

\* Threads that miss the same key make its tile each; the entry that came
\* first stays the one every later caller shares, until it leaves the map.
\* (The check of insert for an existing entry.)
FirstTileStays ==
    [][\A k \in DOMAIN tiles \cap DOMAIN tiles' : tiles'[k].born = tiles[k].born]_cacheVars

=============================================================================
