# TLA+ models of the ESP32-S3 Ada stack

This directory specifies parts of the bare-metal Ada stack for the ESP32-S3:
TLA+ modules translated from the Ada source, TLC configurations that check them
on small instances, and TLAPS proofs of what holds for every instance.
`PROJECT.json` maps each definition to its source lines and lists the runs, the
mutants that show each property can fail, the hazards and the theorems.

Paths below are relative to `src/libs/esp32s3_hal/src/` unless they say
otherwise.

## 1. Inventory

| Part | State it keeps | Operations | What is hard about it | What makes it correct |
|---|---|---|---|---|
| W25Q flash and adapter (`ext4/esp32s3-block_dev-w25q_source`, `devices/esp32s3-w25q`) | the medium; a block buffer in RAM | sector read and write, run write, erase | bits only clear; a rewrite erases eight sectors; BUSY time-outs; power cuts between commands | only the block being written is ever at risk |
| Wear levelling (`ext4/esp32s3-block_dev-wl`) | move count, access count, sequence; two configuration blocks | attach, mount, format, read, write (with a move every so often) | a crash or a device error at each step of move and configuration; modular mapping | always mountable; looks like a plain disk; one erase per move |
| Block cache (`ext4/esp32s3-ext4-block_cache`) | tagged, stamped, dirty entries | read, write, partly write, flush, drop | eviction order, failing loads and stores | reads return the last write; nothing dirty is lost |
| Journal and mount (`ext4/esp32s3-ext4-journal`, `-fs`, `-superblock`) | log, journal superblock, RECOVER flag, counts | open with replay, commit, close | crash at every write, caching beside direct writes, capacity limits | a commit is atomic, also through recovery |
| ext4 files (`-writer`, `-bitmap`, `-inode`, `-map`) | block bitmap and counts, inodes with direct, single and double indirect blocks | create, write, append, truncate, unlink | borders of the map's regions; a full volume half-way; old bytes in freed and kept blocks | no block in two places; the bitmap exact; a file reads as it was written |
| ext4 names (`-writer`, `-dir`, `-inode`, `-path`) | directory blocks, link counts, inode bitmap and counts | create, mkdir, symlink, link, unlink, rmdir, rename | roll-back of half-made inodes; inodes read before the directory grew; a directory moved below itself | a tree of names with exact link counts; nothing stray |
| FAT16, Text_IO, SD cards | tables and buffers | files, text, sectors | sequential | chains without crossings |
| Wi-Fi OS layer (`src/libs/esp32s3_wifi/src/esp32s3-wifi-rtos`) | pools of mutexes, semaphores, queues, timers; worker mailboxes; the map of tasks to semaphores | lock, take, give, send (also from an interrupt), receive, arm, spawn | interrupts masked on one core only; polling; callbacks outside the lock; fixed pools | queues lose nothing; owners exclude; a disarmed timer does not fire; a created function runs once |
| Wi-Fi IP, DHCP, supplicant | one TCP connection, lease, handshake keys | connect, send, poll | lost and repeated frames | keys installed once; a stream in order |
| W5500 sockets, DHCP | socket registers, lease | open, send, receive, renew | command hand-shakes, lease times | no use of an expired lease |
| Network applications, TLS | sessions | FTP, Modbus, DNS, HTTP, handshakes | time-outs and retries | one answer for one request |
| Peripheral engines, GDMA, ownership, shared interrupts | who holds a host, port or channel; tenants | acquire, release, transfer, dispatch | release by the wrong holder, interrupt against task | one owner; no interrupt left pending |
| Serial loader | SLIP frames, flash sequence numbers | sync, write, verify | retries | every block once |
| Tasking kernel, boot, heap | ready queues, free lists | dispatch, allocate | two cores | adapted or proved elsewhere |

How they interact: Text_IO calls the file system, which calls the writer, which
edits blocks in the cache; Commit hands the dirty blocks to the journal, which
writes past the cache to the `Block_Dev` device; that device is the
wear-levelling filter, whose sector operations go to the flash adapter, which
issues SPI commands. All of that runs in the calling task, under the file
system's lock, so the actors are the task, the power supply and the chip. The
Wi-Fi and peripheral parts are where tasks and interrupt handlers meet.

`PROJECT.json` lists every component with its status, and the hazards at their
lines.

## 2. Modules

Component modules on the left, what they are composed of and what they
implement on the right; `<|` reads "implements".

    WearLevel    -- W25QSource            <| LogicalDisk
    CachedDevice -- BlockCache
    Journal      -- BlockCache            <| AtomicStore
    FileBlocks                            <| FileContents
    NameSpace                             <| NameTree
    OsQueue                               <| FifoQueue
    OsTimers
    DriverTasks  -- OsTasks, OsSync

    MCWearLevel, MCCachedDevice, MCJournal, MCFileBlocks, MCNameSpace,
    MCOsQueue, MCOsTimers, MCOsTasks, MCDriverTasks: instances for TLC

    WearLevelProofs, CachedDeviceProofs, JournalProofs, FileBlocksProofs,
    NameSpaceProofs, OsQueueProofs, OsTimersProofs, DriverTasksProofs:
    theorems and proofs about the module that each is named for

**W25QSource.** `flash` is the medium, block by block and sector by sector; `job`
is the command sequence that `Do_Write` or `Do_Erase` has begun, with the block
buffer `Src.Buf`. `DoWrite` makes the code's choice between nothing, programming
in place and read-modify-write; each erase and each program is a step
(`FlashCommand`), so that `Interrupt` can end any of them in a power cut or a
BUSY time-out. An interrupted command leaves the cells it was changing as they
were, changed, or in no defined state (`Torn`). The pages of one sector are one
step: torn halves of a sector are what `Torn` stands for. A block read into the
buffer is rewritten sector by sector.

**WearLevel.** `moveSteps`, `accessCount`, `sequence`, `mounted` are the fields of
`Volume`; `pc` is the place in `Do_Write`, `Do_Move`, `Persist` or `Format`; `off`
is the loop variable of `Do_Move`. `Boot` is Attach and Mount. The contents of a
configuration sector are a record (`Records`), told from everything else by
`Parse`, which stands for magic, version, geometry and CRC. `formatted` is a
history variable: the properties speak of volumes whose Format completed.
`PowerCut` loses the RAM; `DeviceError` unwinds the operation and keeps what had
been assigned, as the exception does. `FaultPhases` says in which phases the
chip may time out.

**LogicalDisk** is what the filter promises: an array of sectors in which a write
changes its own sector, and a cut or an error spoils at most the block being
written. `WearLevel!Disk` maps the volume to it through the mapping in memory, or,
when the power is off, through the one the next Mount would find.

**BlockCache** has the cache's state and operations without a specification of its
own: entries in slot order (`cache`), their order of use (`recent`, for the
clock stamps), the device (`disk`). **CachedDevice** drives it with any order of
calls and with failing loads and stores. `recent` is kept only when something can
be evicted, since otherwise it decides nothing.

**Journal** is Open, Replay, Transaction_Commit and Close over the same
BlockCache. Every write to the device is a step, direct writes (`Put`) and
flushes of the cache alike. Replay's reads and writes go through the cache one by
one (`plan`), because what they leave in its slots, and in which order, decides
what the later flush does first. Block contents are typed records: superblock,
journal superblock, descriptor, commit block, data, torn. `Edit` stands for any
file operation: it changes a cached block, and the free counts only together with
the bitmap, as `Alloc_Block` and `Free_Block` do; `Look` for one that reads. Either can push
a block out of the cache, and an edited one then goes home before its commit; a
power cut in that write tears it (`Spilled`). `DeviceError` is a write of
`Transaction_Commit` (`NextWrite`) that raises, in the phases `ErrorPhases`: the log
and the device stay as they are, what is in memory too, and the caller may go on.
**AtomicStore** is its
specification: edits become durable together in one step.

**FileBlocks** is the writer's view of regular files: `vol` has the block bitmap,
`Free_Blocks`, the contents of the blocks and the tripwire `Phantom_Frees`;
`inode` the table with each file's size, `i_blocks` and block map. The operations
are `Create_File`, `Write_File`, `Append`, `Truncate` and `Unlink`, each with all its
allocation, freeing and zeroing, and each whole, since `FS_Mutex` is held
throughout. Loops over blocks are recursive functions. A block holds `PPB` words; a
word is a pointer or a piece of data, lengths are counted in words, and what is
written to file f is the word -f, so that a word read in the wrong place is seen
to be another file's, stale, or junk (`Junk`: a freed block's contents are
forgotten, as nothing may rely on them). Lengths come from `Sizes`, within what a
map reaches; `MaxFull` bounds how often a write meets a full volume, and `full` and
`sparse` remember that one did and which files have been extended with holes.
The inode bitmap is the flag `live`. Callers hold the number of a file that
exists. **FileContents** is what they are promised: a file is a sequence of words.

**NameSpace** is the writer's view of directories: `Create_File`, `Mkdir`,
`Make_Symlink`, `Link`, `Unlink`, `Rmdir` and `Rename`, with every roll-back. `vol` has
both bitmaps and their counts; an inode's record has its link count and, of a
directory, the blocks and the entries in them. Names are all of one length, so a
directory block is a row of `EPB` slots, of which "." and ".." take two; a path is
the directory that it resolves to (`Resolved`) and a last name, never "." or "..".
An operation that is refused with an exception before it has changed anything is
no step. Files are empty here, their blocks being FileBlocks' subject; the volume
begins without `lost+found`. Link counts are a U16 that wraps (`LinkUp`, `LinkDown`, modulo
`MaxLinks + 1`), and `Rename` walks up at most `MaxSteps` directories and then goes on
unchecked (`WalkUp`), as in the code, which checks neither limit. `KeptToLimits` says of
a run that its callers never come to them: no file is given a name more than the
count can hold, and no directory is moved, on a walk that ends before the root.
**NameTree** is the tree of names that callers see.

**OsQueue** is one queue of `wifi-rtos`: `store`, `head`, `tail`, `cnt` are the
ring, `call` the C call each caller has made and its result, `buf` the item in
the caller's memory, `pc` its place in `Q_Push` or `Q_Pop`, one step for each
assignment. `masked` is the interrupt mask of core 0: who holds it has the core.
`QueueSendFromIsr` is the handler, which runs to its end between any two steps of
tasks that leave interrupts enabled. An item is one value; its bytes are copied
in one step, as a task that is stopped in the middle is stopped for everybody.
**FifoQueue** is what the callers are promised: each call takes effect at one
moment, in the order of the queue, and is refused only for a full or empty one.
The contents of the ring are those of `OsQueue!Contents`, which changes when `Cnt`
does.

**OsTimers**: `T` is `Timer_Mgr.T`, with each deadline as the time left until it; `pc`
is the place of `Timer_Task`, `age` how old the `Now` is that it compares with. The
function and argument of a timer are one value, present or not. A callback may
take time, block, and call every timer service. `GetsIn` says who else may: a task
on the other core, one of a higher priority, or any task while `Timer_Task` sleeps
or its callback blocks.

**OsTasks**: the worker tasks with `Worker_Tid` and `Mailboxes`, and `Spawn` step by
step in the tasks that create others. `handle` is the memory at the address each
creator passed.

**OsSync**: the recursive mutexes (`Rec_Mutex`: held, owner, depth), `Wait_Lock` being
an entry that opens when the mutex is free, and `Thread_Semphr_Get` in its three
calls (find, create, add), between which other tasks run. `threads` is
`Thread_Map`, `nSem` the count of the semaphore pool; `Semphr_Create` is its one call
of the allocator. `holds` and `given` are histories. The driver, which is not in
the repository, is assumed to give back only mutexes that it holds and to end no
function with one: `Unlock` does not check. **DriverTasks** composes OsSync with
OsTasks: the callers are the functions while workers run them, and creators while
they are not in `Spawn`.

## 3. Runs

| Run | Shows | Bounds and why they are enough |
|---|---|---|
| `wear_level` | With cuts anywhere and errors outside configuration writes: a slot always parses (`AlwaysMountable`), the record Mount picks never goes back (`DurableAdvances`), the mapping in memory and on the medium agree (`MemoryMatchesMedium`), a move erases once (`MoveErasesOnce`), and the volume implements `LogicalDisk` | 3 data blocks and 2 sectors: two logical blocks and a hole, so a move changes one and keeps one; 6 moves take the hole round the region twice (3 places) and through every residue modulo L and D; sequence parity is seen three times each |
| `wear_level_fault` | The same with time-outs allowed in configuration writes breaks `AlwaysMountable`: Persist counts its sequence number before the write succeeds, and the next one erases the only valid slot | 3 moves |
| `block_cache` | Reads return the last write, a block has one slot, what is clean is stored, the blocks used last stay, under failing loads and stores | 3 entries, 4 blocks: each miss evicts, and the order of use matters among three |
| `journal` | A commit is atomic with power cuts at every write except recovery's own flush, and with device errors while the log is written; no stale cached copy is ever dirty; the mount refines `AtomicStore` | 2 blocks and the superblock: write-sets of 2 and 3; logs of 4 and 5 blocks, so a commit does not fit, fits exactly (and wraps) or leaves one block; 2 commits, so the log holds an older transaction; 2 faults, so a recovery is followed by work and another cut, and an error by a second attempt and a cut; a cache of 2 slots: of two blocks to edit, the journal superblock and the log it evicts clean blocks between commits and edited ones in a recovery, but no edited one before its commit, which is the caller's duty (`fs.ads:113`) |
| `journal_recovery_cut` | With cuts allowed in recovery's flush a committed transaction is lost | as above, with a cache that has room for all |
| `os_queue` | The ring is a FIFO queue for two tasks and an interrupt handler (`ImplementsFifo`), its indices agree whenever the handler may look (`IndicesAgree`), and no waiting task is forgotten (`NobodyWaitsInVain`) | 3 places, so that indices wrap in one direction only and a modulus of two hides nothing; 2 items; both tasks send and receive, waiting or not |
| `os_timers` | A timer never has two slots, no stopped timer's callback begins, every due timer fires, the timer task always sleeps again | 3 timers for 2 slots: full tables, slots given up and taken again; spans 0, 1 and 2 against a poll of 2 ms, so periods shorter than the poll and immediate ones; callbacks of up to a millisecond |
| `os_tasks` | A function given to `task_create` runs once (`RunsOnce`), on the task whose handle the creator got (`KnowsItself`), and does run when the creation succeeded (`CreatedRuns`); meanwhile mutexes exclude (`LocksExclude`) and a task's semaphore is its own and stays the same (`OneSemaphoreEach`) | 2 workers, 3 functions: the pool runs out; 2 creators race for the mailboxes; a worker and a creator use one mutex, locked up to twice, and a map with room for one task and a pool for two semaphores, so that the map is full for one of them. Two callers and one mutex keep the product of the two machines small; the proofs hold for any number |
| `file_blocks` | No block is in two places (`OneOwner`), the bitmap and its count are exact and no free meets a free block (`BitmapExact`), `i_blocks` counts what a file has (`BlocksCounted`), and files read as sequences of words (`ImplementsFileContents`) | 1 direct pointer and 2 words per block; one file of 0, 3, 7, 9 or 11 words (nothing, inside the single indirect block, inside the first child of the double, its border, and the second child, mid-block), the other of 0 or 2; 10 blocks, so that both do not fit at their longest; one full volume |
| `name_space` | Link counts are those of the entries (`LinksAgree`), directories form a tree below the root (`TreeShaped`), bitmaps and counts agree and nothing is left over (`NothingStray`), and the volume is a tree of names (`ImplementsNameTree`) | 2 names, 4 inodes beside the root, 4 blocks of 3 entries: a directory grows for its second name, three lie in a row, and inodes or blocks run out at every allocation; names are symmetric. `MaxLinks` is the true 65,535 and never reached; `MaxSteps` is 5 in place of 4096, as many as there are inodes, so that every walk comes to the root |
| `os_tasks_handle` | The function starts before its handle is stored | as above |
| `journal_device_error` | A device error after the barrier and a second commit: the log that recovery believes is written over | errors in the checkpoint, as above otherwise |

Deadlock is checked everywhere. `MaxMoves`, `MaxAccess`, `MaxSeq` and `MaxCuts` are the
bounds in guards; each only keeps the environment from beginning more work.
`MaxFull` and `Sizes` bound FileBlocks, `MaxDepth` how often a mutex is locked again. `MaxScan` bounds the time that the callbacks of one scan take together, and
`MaxLate` how far back a deadline is remembered: a periodic timer that is later
still makes up for fewer periods than it would.

Fairness is assumed in the three runs of the Wi-Fi layer, where liveness is
checked; the storage runs have none, for there a task that stops is a power cut
that lasts.

* `os_queue`: strong fairness of each task's steps. Another task that masks
  interrupts disables them, again and again; the kernel dispatches tasks of one
  priority in the order of their readiness, every task that waits sleeps for a
  millisecond, and none runs for ever. Nothing is assumed of callers: nobody need
  call, and the interrupt handler need not stop. So a sender may starve when
  others take each free place, and the property allows it.
* `os_timers`: weak fairness of the clock and of `Timer_Task`, including that a
  callback returns. Nothing is assumed of the tasks that arm and disarm.
* `os_tasks`: weak fairness of the workers and of `Spawn`. Functions need not return,
  and nothing is assumed of the services: a function may wait for a mutex for ever,
  which `CreatedRuns` (that it begins) allows.

Symmetry is used over block and data values that no definition orders (the cache's
slots are ordered, its block names are not). Block numbers of Journal are not
symmetric and are left alone.

The violation runs are findings about the code; `PROJECT.json` quotes the lines
they contradict. Ten more findings have no run of their own: a write-set limit below the number of
dirty blocks is not noticed (`CommitIsAtomic` fails with `MaxWS = 2`, which stands for
256); an edited block is evicted before its commit when others are edited, or only read, in
its place, though the write-set would fit the cache (`CommitIsAtomic` fails with
`NFs = 3`, `LogLens = {5}` and `CacheBlocks = 2`); queues treat finite time-outs as
zero; the RECOVER flag stays set on the device after a recovery until the next
commit; an Append that meets a full volume leaves pointer blocks that are never
freed (hence the premise `full = 0` in `BitmapExact`); the comments of Unlink and
Truncate deny the double indirect maps that the code frees; Truncate extends a
file beyond what can be freed (which `ReachAssumption` excludes); the 65,536th name of a file
wraps its link count to zero, so that the next Unlink frees an inode still named
(`LinksAgree` fails with `MaxLinks = 4`, `EPB = 4` and `MaxDirBlocks = 1`); Rename moves a
directory below itself when the place is more than 4096 directories deep (`TreeShaped`
fails with `MaxSteps = 1`); and Rmdir frees a directory that is named by its own ".",
whose entry in the parent stays (which `NamesAssumption` excludes).

## 4. Proofs

All for every value of the constants; each paragraph names the invariant and why
the property needs it. A proof module begins with the few facts of arithmetic that it
takes from nobody: on `%` (`DivMod`, `ModOnce`), on least elements (`LeastOne`), induction
over an interval in the form of a set that contains 0 and each successor (`UpTo`), and
the existence of a function that is defined by recursion on a number (`Iterates`).

**WearLevel** (`WearLevelProofs`): every number of blocks and
sectors, every update rate and both bounds.

* *The mapping.* `PhysBlockValue` writes `Phys_Block` without the mixture of
  moduli: block lb lies K places after the hole's successor, K = (lb - t) mod L.
  From it follow `HoleNeverMapped`, `MappingInjective`, `StepMovesOneBlock` (one move
  changes one block's place, from the move's source to its destination) and
  `EveryBlockVisitsEveryPlace` (the reason for the whole scheme).
* *`TypeCorrect`*: `Spec => []TypeOK`, one lemma for each operation of the adapter.
* *`AlwaysMountableThm`*: the property is not inductive, for it does not say which
  of the two slots may be overwritten. `ConfigInv` does, in three parts:
  `SlotParity` (a record lies in the slot of its sequence number's parity),
  `JobTarget` (where the command in progress goes in each phase) and `SafeRecord`
  (which record is whole at each step: that of `sequence` when no configuration
  write is in progress, that of `sequence - 1` while one is).
* *`MoveErasesOnceThm`*, from `HoleBlank`: while a move copies, the part of the hole
  it has not reached is erased.
* *`MemoryMatchesMediumThm`, `DurableAdvancesThm`, `VolumeImplementsDisk`*, from
  `FullInv`, which adds `DiskInv` to those: `ConfigWrites` and `FormatSteps` (what a
  configuration write is writing), `MapsAgree` (the move count in each record, and
  that the other record is older), `CopyRight` (what of the source is in the hole
  already; after the copy, all of it), `WriteRight` (the adapter's buffer is the
  block with the one sector changed) and `OffUnmounted`. `DurableNow` and
  `DurableAfter` draw from it which of two records Mount would load before and
  after any command, finished or interrupted. In the step simulation a write takes
  effect at the program command, or at the erase that leaves the new block in the
  buffer alone; moves are stutters because a command never goes to a block that
  shows (`JobElsewhere`) and because source and hole are equal when the counter
  advances.

`AlwaysMountableThm` and the last three assume that the chip does not time out in
the phase "config"; the run `wear_level_fault` shows why that is needed.

**CachedDevice** (`CachedDeviceProofs`): every number of slots and blocks, with any
failing loads and stores. `OneSlotPerBlockThm`, `ReadsLastWriteThm`, `CleanIsStoredThm`
and `RecentStayThm`. The invariant adds `RecentOK` (while blocks can be evicted, the
order of use lists the cached blocks, each once), `EntriesRight` (slot by slot,
what it holds is the last write, and is stored when clean) and `AwayRight` (what is
not cached is stored). A full cache and one block more need the pigeonhole
principle: there is a victim, and it is not among the blocks used last.

**Journal** (`JournalProofs`): every number of file-system blocks, every log length
and every set of contents, any number of power cuts and of device errors.

* *The assumptions*, each of which the code needs. `LogErrorsOnly`: of a commit's writes
  only those into the log may fail (`journal_device_error` shows what a later one does).
  `TypeCorrect` and `DirectBlocksStayClean` take this one only, and hold for a cache of any
  size, whatever it evicts. `CommitsAreAtomic` and `ImplementsStore` take three more.
  `SetHoldsAll`: the cache has fewer slots than the write-set (32 by default against
  256; the finding on `Max_WS` is what happens otherwise). `RecoveryWhole`: no power cut
  during the flush of a recovery (`journal_recovery_cut`). `WriteSetFits`, of the run:
  no access between two commits, nor one of a commit, pushes an edited block home, which
  is what `fs.ads:113` leaves to the caller and nothing enforces. It says nothing of clean
  blocks, which are evicted and read again at any time, nor of a recovery, whose blocks
  may go home in any order before its flush, and be torn there.
* *The invariant* `IInv` speaks of the cache as its readers find it: `Seen`, the
  contents of each block, and `Dirty`, the blocks that the next flush writes.
  `Basics` types them, says that a clean block is as on the device, which blocks may be
  dirty in which phase (`DirtyRight`), and that no header in the log is newer than
  the journal superblock's number. `FlagsRight` says where the log may be believed
  (it points at a transaction and RECOVER is set): from the barrier to the clearing
  of the flag, and when the power went in between; then it is whole (`LogWhole`):
  descriptor, data and commit block of one number, one block of data for each tag.
  `LogSoFar` and `TargetsRight` say how much of it a commit has written, and of which
  blocks; `ReplayRight` what the replay has still to put into the cache, and
  `FlushRight` that the reset of the journal superblock is not lost before it is home.
* *`CommitsAreAtomic`, `ImplementsStore`*: `Found` gives for each block what the next
  mount would find, in the log when it is believed, on the device otherwise;
  `Committed` says that between the barrier and the reset this is what the callers
  see. One lemma for each action then says what it does to `Durable` and `Working`:
  nothing (the cache's steps, the writes into the log, the checkpoint, the replay),
  all of it at once (`CommitPointShows`), or one block at a time (`CloseFlushShows`).
  A torn write changes nothing that a mount would read: in the log it precedes the
  barrier, and in the checkpoint, or when a recovery evicts a block, the log is still
  believed (`PowerCutShows`, `ReplayFound`).

**FileBlocks** (`FileBlocksProofs`): every number of direct pointers and of words in a
block, every volume, every number of files, every set of lengths that a map reaches
(`ReachAssumption`) and any number of full volumes. `TypeOKHolds`, `OneOwnerHolds`,
`BitmapExactHolds`, `BlocksCountedHolds`, `ContentsRefined`, all from `InvariantHolds`.

* *Spots.* A spot is a number for a place in a file's tree of blocks: data blocks have
  their number in the file, the two indirect blocks and the children of the double one
  have negative numbers. `At(v, m, p)` is the block that map m leads to at spot p. With it
  the three regions of a map are one function, and what an operation does is said
  spot by spot.
* *The invariant.* `OneOwner` is not inductive: a pointer that a cut leaves behind in a
  block that stays, or a word of a new block that is not zero, is in nobody's way until
  the file grows over it. `InOrder` therefore says of each file that its map is a `Tree`
  (what it leads to is in use, and no block is at two spots), that nothing is at the
  spots of data from the end on (`Ends`), and that every word from the end on reads as
  zero (`ZeroBeyond`); `Apart` that two files have no block in common. While no write has
  met a full volume (`full = 0`) `AllOwned` holds too: the bitmap is the union of what the
  files own, no pointer block is left for a region that the file no longer reaches
  (`Trim`), and files that were never extended have no holes and the right `i_blocks`
  (`NoHoles`). After a full volume only the first part holds, for Append leaves pointer
  blocks behind: no two files share them, but no map needs them.
* *One file at a time.* An operation works on one map. `Kept` is what it owes to the
  rest: the blocks that the map does not lead to stay in use, keep their words, and stay
  outside the map. From it and `Apart` follows that no other file sees a change
  (`OthersRead`). `CutsTo` says what Truncate has done after each region, and
  that the regions compose; `Grown` and `Planted` what each allocation of Append adds;
  `Filled` what Write_Small has after each block. An allocation that fails half-way ends in
  `Kept` and `InOrder` like one that does not.
* *Loops.* The recursive functions of the model run over blocks, children and
  chunks. That such a function exists is `SomeRun`; what each of its steps preserves
  holds at its end by `RunEnds`.
* *Counts.* `OneOwner` and `BlocksCounted` speak of cardinalities. `OneEach` is a bijection
  between the places that hold pointers and the blocks, `SpotsInUse` counts the
  spots of a file without holes: as many as the arithmetic of `I_Blocks` says.
* *`ContentsRefined`*: `CreateShown`, `DeleteShown`, `SetShown`, `ExtendShown` and `ResizeShown`, one
  for each operation, from what the operation does to the words at each position. An
  extension shows zeros because of `ZeroBeyond`, which Truncate owes to `ZeroTail` and
  Append to the zeroing of the blocks it takes.

**NameSpace** (`NameSpaceProofs`): every number of blocks, inodes, entries in a block
and names. `TypeCorrect`, `LinkCountsAgree`, `TreeStaysWhole`, `NothingIsStray`,
`ImplementsTree`.

* *The assumptions.* All five are of the runs in which `KeptToLimits` holds: with the
  65,536th name of a file its count wraps, and with a move on a walk of more than 4096 steps
  a directory may come below itself (see the findings). `NamesAssumption`: no last name
  is "." or "..", which Writer would take for Rmdir and Rename. `LimitsAssumption`: a
  directory has no more entries than a count can hold, as twelve blocks of at most 64 KiB
  (`superblock.adb:27-30`) have room for 65,532; the count of a directory therefore never
  wraps, and of a file only by `Link`.
* *The invariant.* The three properties need each other and one thing more, the
  layout of directories: `Formed` (a slot after "." and ".." holds a name or
  nothing, and there is a slot list for each block; what is free is blank). `Tree`
  says that names are not repeated within a directory, that a directory is named
  once, by the one that its ".." leads to, and that every set with the root
  and with the entries of its directories has all that is in use (`Reached`);
  `Linked` and `Exact` are the equalities of counts. Without the tree `Rmdir` could
  give back a directory that is named a second time; without the layout a name added
  might overwrite another. The tree and the counts are spoken of as sets (inodes in
  use, directories, entries, parents), which the table `Shows`: each operation is one
  step on the sets (`TreeMove`, `LinksMove`) and one on the slots.
* *Recursion.* `Rename` refuses a directory's move below itself by walking up from
  its new parent; a move within the limits is one whose walk comes to the root, from
  where it goes no further, so that what it visits is closed under "..". That paths
  resolve to the directories of the tree (`ResolvedIs`), also when a subtree hangs
  elsewhere, follows from counting: a set of inodes that only grows stands still after
  as many steps as there are inodes (`Saturates`). These and the freeing of a
  directory's blocks one by one are inductions over a number.
* *`ImplementsTree`*: `Spec /\ KeptToLimits => ImplementsNameTree`. The tree of
  names is a function of two maps, the kinds of the inodes and the nodes that each
  inode names (`NamedTreeIs`), and one lemma for each operation says what it does to
  the entries and kinds: nothing at all when it fails, at whatever point, and
  otherwise one entry in, one out, or both (`Makes`, `AddsName`, `Removes`,
  `Moves`). That a node goes with its last name is the agreement of link counts with
  entries (`NamesCounted`). That the tree may move a directory is that the place it
  goes to has a way up that avoids it (`Apart`): the walk of `Rename` is one, and a
  directory renamed in its place needs none, for no directory is above itself
  (`NoLoop`), so the walk that the code leaves out there would never refuse.

**OsQueue** (`OsQueueProofs`): every number of tasks, every set of items, every
length of at least one.

* *The invariant.* That the ring implements a queue is not inductive, for between
  the assignments of `Q_Push` and `Q_Pop` the indices and the count disagree. `IInv`
  adds to the types: `MaskHeld` (a task is inside exactly while it masks
  interrupts, so one is at most), `ArgsKept` (what it was called with is in its
  buffer), `TestHolds` (what the test of `Cnt` found stays so until `Cnt` changes)
  and `RingInv` (where `Tail` is, and which place holds the item, at each place in
  the code).
* *`QueueTypeCorrect`* and *`IndicesAgreeThm`* follow from it.
* *`QueueImplementsFifo`*: the step simulation of FifoQueue under the mapping
  `Contents`, including the handler's. Its lemmas on rings (`RingOfIsSeq`,
  `RingOfGrows`, `RingOfShrinks`) say what a write behind the items, one more item
  and a moved start do to the sequence that is read.

**OsTimers** (`OsTimersProofs`): every number of timers, slots and callers.
`OneSlotPerTimerThm` needs besides the types that a free slot is not armed
(`FreeUnarmed`). `NoStaleCallbackThm` assumes `NobodyPreempts`: every caller runs on
the timer task's core with at most its priority. That is the discipline that
`rtos.adb` relies on, not one it enforces.

**OsTasks and DriverTasks** (`DriverTasksProofs`): every number of
workers, creators, functions, callers, mutexes and semaphores. For `RunsOnce` and
`KnowsItself` the invariant says that workers hold the numbers up to `N_Worker`, one
each (`WorkersNumbered`), that `Worker_Tid` is right from the moment a worker waits
(`TidsRight`), that a function is in one mailbox (`OneBoxEach`) and with one creator
until then (`OneCreatorEach`), that handles are mailboxes (`HandlesRight`), and that
what runs came from them. `LocksExcludeThm` comes from `MutexInv`, which ties
owner and depth to the history of locks; `OneSemaphoreThm` from `SemInv`: an entry
of the map holds what the task was given, a new semaphore is nobody else's, and
while the map has room a task without an entry was given none.
`DriverTasksThm` carries the theorems about OsTasks over to the composition.

*Model-checked only*: what Journal does when a cut or an error strikes where the
assumptions exclude it; and every liveness property (`NobodyWaitsInVain`,
`DueFires`, `TimerTaskSleeps`, `CreatedRuns`), which is out of the prover's reach
together with ENABLED. The library's induction theorems cannot be used, as they take
a predicate for a parameter; instead a set of the numbers that satisfy it is
defined and shown to be all of them (`UpTo`). No module uses a RECURSIVE operator.

## 5. What is left out, and why

* `Do_Write_Run` of the adapter is not reached under wear levelling, which passes no
  run operations on. `Do_Read` of both layers has no state. Addresses out of range
  are refused before anything changes.
* `Sequence` and `Move_Steps` are 64-bit counters that no device lives to wrap, and the
  free counts of a volume are bounded by its size; they are natural numbers in the
  models. Link counts, which a caller can wrap, are not: see NameSpace.
* The journal: revoke records (read, but never written by this driver), escaping
  of data that looks like a header, UUIDs and 64-bit tags are contents no property
  tells apart; the half commit used by tests is left out. The superblock's
  fields that matter lie in its first sector; the second holds the checksum, and
  volumes with `metadata_csum` are not modelled. Device errors in
  Open, Replay and Close, the lock and volumes without a journal are not modelled either.
* The Wi-Fi layer: null handles, the diagnostic counter of interrupts, the exception
  handler, the sizes of items (`Queue_Create` refuses a ring larger than its
  store), `Queue_Send_To_Front`, which the adapter serves with `Queue_Send`, spans
  beyond 32 bits of milliseconds, and callers on core 1, which
  `rtos.adb:302-304` excludes.
* A freshly formatted log holds arbitrary old blocks; the model starts with blocks
  that are no headers. Format begins the sequence at 1 again, and a reformatted
  journal may hold old commit blocks of a later number; such a block alone has
  no tags and can replay nothing.
* FileBlocks and NameSpace: extent-mapped and checksummed volumes, which the writer
  refuses to change; several block groups (the search over groups is a loop around
  what is modelled); device errors inside an operation. `Read_File`
  takes the `Inode.Info` of an earlier `Stat`, which Text_IO and the FTP server keep
  over many reads (`text_io.adb:226`, `ftp_server.adb:503`): one that another task
  truncates or removes meanwhile is read from freed blocks. The models read with the
  inode as it is.
* The counts of semaphores (`Semphr_Take` against `Semphr_Give`), event groups, the
  creation of mutexes and queues from their pools, and the order in which the
  entry of `Rec_Mutex` lets tasks in.
* FAT16, Text_IO, SD cards, the network and TLS parts, peripherals, loader and
  kernel: see the notes in `PROJECT.json`. Most are register protocols of chips
  outside the repository, parsing, or cryptographic arithmetic.
* The C files of the repository. They are vendored or generated: nine tenths are the
  two copies of the Xtensa opcode tables (`xtensa-modules.c`), the rest mainly
  headers of the tool chain's configuration and GNAT's `raise-gcc.c`. They hold none of the
  program's own logic, which is in Ada, so no definition maps to them.

## 6. What could follow

In this order:

1. **FsMutex**: `Scoped_Lock` with nested owners (`fs.adb:29-87`), and `Open`, which
   takes no lock.
2. **Journal** when writes fail in Open and Close.
3. **Semaphores and pools** of the Wi-Fi layer: counts and deadlines of
   `Semphr_Take`, `Queue_Create` on a full pool.
4. **Sessions and SharedL2**: ownership of hosts and DMA channels, the shared
   interrupt dispatcher.
5. **DHCP lease**, **WPA2 handshake**, **serial loader**: protocols with loss and
   retransmission, each against an abstract exchange.
6. FAT16 cluster chains.
