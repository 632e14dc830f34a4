------------------------------- MODULE Bcache -------------------------------
(***************************************************************************)
(* The write-back block cache of the file systems (lib/bcache/bcache.c)    *)
(* over a block device whose reads and writes may fail.  The cache takes   *)
(* no lock, so its callers run one call at a time, and a call is one step. *)
(*                                                                         *)
(* Two errors end the model, as they end the program.  When no block can   *)
(* be allocated find_or_fill_block() runs into DEBUG_ASSERT(block).  When  *)
(* bio_read() fails it links the block into the free list while it is      *)
(* still linked into the LRU list, and from then on a walk of the LRU list *)
(* leaves it through the free list's head and never comes to its end.      *)
(***************************************************************************)
EXTENDS Integers, SequencesExt

CONSTANTS
    BlockNum,       \* the blocks of the device
    Data,           \* the values of a block
    Zero,           \* the block of zeros
    count,          \* the number of blocks the cache holds
    MaxPinned,      \* how many blocks the callers hold at a time
    MaxRef,         \* bound: how often they hold one of them
    NULL

ASSUME BcacheAssumption ==
    /\ Zero \in Data
    /\ count \in Nat /\ MaxPinned \in 0 .. count - 1 /\ MaxRef \in Nat
    /\ NULL \notin BlockNum

Slot == 1 .. count

VARIABLES
    disk,       \* the contents of the device
    blocks,     \* cache->blocks: blocknum, ref_count, is_dirty, data (*ptr)
    lru_list,   \* the slots in use, least recently used first
    free_list,  \* the other slots
    mode,       \* running, none (destroyed), asserted, corrupt
    result,     \* what the last call returned
    held        \* history: per block the pointers bcache_get_block() gave out
                \* (slots), as often as they have not been put back

cache == <<blocks, lru_list, free_list>>

vars == <<disk, blocks, lru_list, free_list, mode, result, held>>

TypeOK ==
    /\ disk \in [BlockNum -> Data]
    /\ blocks \in [Slot -> [blocknum : BlockNum \union {NULL}, ref_count : 0 .. MaxRef,
                            is_dirty : BOOLEAN, data : Data]]
    /\ lru_list \in Seq(Slot) /\ free_list \in Seq(Slot)
    /\ mode \in {"running", "none", "asserted", "corrupt"}
    /\ result \in Data \union {"ok", "error", "flushed", "destroyed"}
    /\ held \in [BlockNum -> Seq(Slot)]

\* bcache_create(): list_add_head() leaves the last block first; blocknum and
\* the data are not initialised, and nothing reads them.
NewBlocks == [s \in Slot |-> [blocknum |-> NULL, ref_count |-> 0,
                              is_dirty |-> FALSE, data |-> Zero]]

NewFreeList == [i \in Slot |-> count + 1 - i]

Init ==
    /\ disk \in [BlockNum -> Data]
    /\ blocks = NewBlocks /\ lru_list = << >> /\ free_list = NewFreeList
    /\ mode = "running" /\ result = "ok"
    /\ held = [n \in BlockNum |-> << >>]

-----------------------------------------------------------------------------
\* A call works on a record of what it changes: the disk, the blocks, the two
\* lists.  An operator that can fail returns the set of its outcomes, with the
\* slot it found or NULL.
Now == [disk |-> disk, blocks |-> blocks, lru |-> lru_list, free |-> free_list]

\* list_delete() and list_add_tail() of the entry at position i of the LRU list.
Touched(k, i) == [k EXCEPT !.lru = Append(RemoveAt(@, i), @[i])]

\* find_block()'s walk: the position of block n in the LRU list, or 0.
Position(k, n) == SelectInSeq(k.lru, LAMBDA s : k.blocks[s].blocknum = n)

\* A successful flush_block() of slot s; a failed one changes nothing.
Flushed(k, s) ==
    [k EXCEPT !.disk[k.blocks[s].blocknum] = k.blocks[s].data,
              !.blocks[s].is_dirty = FALSE]

\* Mutant: the first block of the LRU list is taken even if it is in use.
Victim_pinned(k) == SelectInSeq(k.lru, LAMBDA s : TRUE)

\* The first block of the LRU list that nobody holds, or 0.
Victim(k) == SelectInSeq(k.lru, LAMBDA s : k.blocks[s].ref_count = 0)

\* Mutant: a dirty block is reused without writing it back.
Evicted_unwritten(k, i) == {[k |-> Touched(k, i), slot |-> k.lru[i]]}

\* The victim at position i is written back, if it is dirty, and reused.
Evicted(k, i) ==
    LET s == k.lru[i]
    IN  IF k.blocks[s].is_dirty
        THEN {[k |-> Touched(Flushed(k, s), i), slot |-> s], [k |-> k, slot |-> NULL]}
        ELSE {[k |-> Touched(k, i), slot |-> s]}

alloc_block(k) ==
    IF k.free # << >>
    THEN LET s == Head(k.free)
         IN  {[k |-> [k EXCEPT !.blocks[s].ref_count = 0, !.lru = Append(@, s),
                               !.free = Tail(@)],
               slot |-> s]}
    ELSE IF Victim(k) = 0 THEN {[k |-> k, slot |-> NULL]} ELSE Evicted(k, Victim(k))

\* What becomes of the block allocated (or not) for n: filled from the device,
\* or, on an error, put on the free list as well.
Filled(a, n) ==
    LET s == a.slot
        bound == [a.k EXCEPT !.blocks[s].blocknum = n]
    IN  IF s = NULL
        THEN {[k |-> a.k, slot |-> NULL, mode |-> "asserted"]}
        ELSE {[k |-> [bound EXCEPT !.blocks[s].data = a.k.disk[n]],
               slot |-> s, mode |-> "running"],
              [k |-> [bound EXCEPT !.free = Append(@, s)],
               slot |-> NULL, mode |-> "corrupt"]}

find_or_fill_block(k, n) ==
    IF Position(k, n) # 0
    THEN {[k |-> Touched(k, Position(k, n)), slot |-> k.lru[Position(k, n)],
           mode |-> "running"]}
    ELSE UNION {Filled(a, n) : a \in alloc_block(k)}

-----------------------------------------------------------------------------
\* The call leaves the state k.
Becomes(k) ==
    /\ disk' = k.disk /\ blocks' = k.blocks
    /\ lru_list' = k.lru /\ free_list' = k.free

bcache_read_block(n) ==
    /\ mode = "running"
    /\ \E f \in find_or_fill_block(Now, n) :
         /\ Becomes(f.k)
         /\ mode' = f.mode
         /\ result' = IF f.slot = NULL THEN "error" ELSE f.k.blocks[f.slot].data
    /\ UNCHANGED held

Pinned == {n \in BlockNum : held[n] # << >>}

\* bcache_get_block(); the callers keep within MaxPinned and MaxRef.
bcache_get_block(n) ==
    /\ mode = "running"
    /\ Cardinality(Pinned \union {n}) <= MaxPinned /\ Len(held[n]) < MaxRef
    /\ \E f \in find_or_fill_block(Now, n) :
         \/ /\ f.slot # NULL
            /\ Becomes([f.k EXCEPT !.blocks[f.slot].ref_count = @ + 1])
            /\ held' = [held EXCEPT ![n] = Append(@, f.slot)]
            /\ mode' = f.mode /\ result' = "ok"
         \/ /\ f.slot = NULL
            /\ Becomes(f.k)
            /\ mode' = f.mode /\ result' = "error"
            /\ UNCHANGED held

\* bcache_put_block() of a block the caller got; find_block() moves it to the
\* tail of the LRU list.
bcache_put_block(n) ==
    /\ mode = "running" /\ n \in Pinned /\ Position(Now, n) # 0
    /\ LET i == Position(Now, n)
       IN  Becomes([Touched(Now, i) EXCEPT !.blocks[lru_list[i]].ref_count = @ - 1])
    /\ held' = [held EXCEPT ![n] = Tail(@)]
    /\ result' = "ok"
    /\ UNCHANGED mode

\* A caller writes through its pointer and calls bcache_mark_block_dirty().
Modify(n, d) ==
    /\ mode = "running" /\ n \in Pinned
    /\ LET k == [Now EXCEPT !.blocks[Head(held[n])].data = d]
           i == Position(k, n)
       IN  IF i = 0
           THEN Becomes(k) /\ result' = "error"
           ELSE /\ Becomes([Touched(k, i) EXCEPT !.blocks[lru_list[i]].is_dirty = TRUE])
                /\ result' = "ok"
    /\ UNCHANGED <<mode, held>>

\* Mutant: bcache_zero_block() allocates without looking for the block first.
FoundOrAllocated_always_new(n) == alloc_block(Now)

\* The block bcache_zero_block() works on: it need not be read.
FoundOrAllocated(n) ==
    LET i == Position(Now, n)
    IN  IF i # 0 THEN {[k |-> Touched(Now, i), slot |-> lru_list[i]]} ELSE alloc_block(Now)

bcache_zero_block(n) ==
    /\ mode = "running"
    /\ \E a \in FoundOrAllocated(n) :
         \/ /\ a.slot # NULL
            /\ Becomes([a.k EXCEPT !.blocks[a.slot] =
                          [@ EXCEPT !.blocknum = n, !.data = Zero, !.is_dirty = TRUE]])
            /\ result' = "ok"
         \/ a.slot = NULL /\ Becomes(a.k) /\ result' = "error"
    /\ UNCHANGED <<mode, held>>

\* bcache_flush(): the dirty blocks are written in LRU order, up to the first
\* that cannot be; done is how many are.
bcache_flush ==
    /\ mode = "running"
    /\ LET dirty == SelectSeq(lru_list, LAMBDA s : blocks[s].is_dirty)
       IN  \E done \in 0 .. Len(dirty) :
             /\ Becomes(FoldLeft(Flushed, Now, SubSeq(dirty, 1, done)))
             /\ result' = IF done = Len(dirty) THEN "flushed" ELSE "error"
    /\ UNCHANGED <<mode, held>>

\* bcache_destroy(), which asserts that nobody holds a block.
bcache_destroy ==
    /\ mode = "running" /\ \A s \in Slot : blocks[s].ref_count = 0
    /\ Becomes([disk |-> disk, blocks |-> NewBlocks, lru |-> << >>, free |-> NewFreeList])
    /\ mode' = "none" /\ result' = "destroyed"
    /\ UNCHANGED held

\* The device is mounted again.
bcache_create ==
    /\ mode = "none"
    /\ mode' = "running" /\ result' = "ok"
    /\ UNCHANGED <<disk, cache, held>>

Next ==
    \/ \E n \in BlockNum :
         \/ bcache_read_block(n) \/ bcache_get_block(n) \/ bcache_put_block(n)
         \/ \E d \in Data : Modify(n, d)
         \/ bcache_zero_block(n)
    \/ bcache_flush \/ bcache_destroy \/ bcache_create

Spec == Init /\ [][Next]_vars

-----------------------------------------------------------------------------
InUse == ToSet(lru_list) \ ToSet(free_list)

\* What a client would be told block n contains.
Current(n) ==
    IF \E s \in InUse : blocks[s].blocknum = n
    THEN blocks[CHOOSE s \in InUse : blocks[s].blocknum = n].data
    ELSE disk[n]

Stored == INSTANCE BlockStore WITH
    current <- [n \in BlockNum |-> Current(n)], durable <- disk

\* The cache is transparent: however blocks are evicted, whichever writes
\* fail, a read returns the last value written, no write is lost, and a
\* bcache_flush() that returns 0 has left every value on the device.  Only
\* bcache_destroy() of a dirty cache loses data, as its warning says.
ImplementsBlockStore == Stored!Spec

\* The pointers bcache_get_block() gave out stay good until they are put back:
\* the block is still in the cache under its number, in the same memory, with
\* one reference per pointer ("keep it from being freed", bcache.c:249).
PinnedStayPut ==
    \A n \in Pinned : \A i \in DOMAIN held[n] :
        LET s == held[n][i]
        IN  /\ s \in InUse /\ blocks[s].blocknum = n
            /\ blocks[s].ref_count = Len(held[n])

\* No block of the device is cached twice, and every cache block is on exactly
\* one list, exactly once: find_block()'s walk finds the one current copy, and
\* a walk of either list ends.  (Until a failed bio_read(), see above.)
OneCopyOneList ==
    mode # "corrupt" =>
        /\ \A s, t \in InUse : blocks[s].blocknum = blocks[t].blocknum => s = t
        /\ Len(lru_list) + Len(free_list) = count
        /\ ToSet(lru_list) \union ToSet(free_list) = Slot
=============================================================================
