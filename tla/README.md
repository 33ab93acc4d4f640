# A formal model of libdft64 (ECT)

libdft64 is a dynamic taint analysis library for Intel Pin.  Every byte of a
program's memory and registers has a *tag*, the set of input bytes that
influenced it; analysis calls inserted before each instruction keep the tags up
to date.  This fork adds the *SSA* tag backend: a tag is a pointer to a
reference-counted cell holding a BDD, and the BDDs are computed by the Sylvan
package on Lace worker threads, one worker per application thread.

This directory holds TLA+ models of the parts in which the library's own logic
is hard to test, TLC configurations for small instances of them, and proofs
checked by TLAPS.  `PROJECT.json` maps each definition to the lines it models.
Paths below are relative to `src/` in the repository root (so `src/tagmap.cpp`
is `src/src/tagmap.cpp` here).

## Components

| Component | State | Operations | Hard behaviour | Correct when |
|---|---|---|---|---|
| SSA cells, `src/ssa_tag_gc.{h,cpp}` | blocks of cells, ring `free_ssa`, `gc_lock`, per-thread cache `ssa_tls` | `ssa_tag_alloc`, `ssa_tag_combine`, `ssa_gc`, `add_ssa_blk`, members of `ssa_tag`, `ssa_thread_start/fini` | ring shared without a lock, counts with plain `++`, 64-bit wrap of the counters, a cache whose operands may be reclaimed | a live cell is never handed out; the tags behave like sets |
| Lace workers, `sylvan/src/lace.{h,cpp}`, `sylvan_common.c` | mailboxes `ssa_p`, `spawn_exit_lock`, `lace_newframe`, `lace_bar`, `gc` | spawn and end of a worker, mailbox loop, NEWFRAME/TOGETHER, barrier, `sylvan_gc`, `lace_stop` | workers come and go while barriers count them; the lock passes from a thread to its worker | answers reach their request; collections run alone and end |
| Roots, `sylvan_refs.c`, `sylvan_mtbdd.c` and their callers | table of protected pointers, node marks | `sylvan_protect/unprotect`, `mtbdd_gc_mark_protected` | application threads change the roots while a worker marks | no collection frees the BDD of a live tag |
| Instruction handlers, `src/ins_*.cpp`, `src/libdft_core.cpp` | shadow registers `vcpu.gpr`, shadow memory | `ins_inspect` and the analysis functions | partial registers, widths, overlap, string instructions, conditional exchange | no dependency is lost |
| Lace deque, `sylvan/src/lace.h` | `ts` (tail and split), `allstolen`, `movesplit`, the owner's copies, the entries | `SPAWN`, `SYNC`, `lace_steal`, `lace_shrink_shared`, `lace_leapfrog` | the owner moves the split by plain stores against thieves' compare-and-swap; owners run other tasks while they wait | every task is run once and joined with its result; all tasks end |
| Node table and cache, `sylvan/src/sylvan_table.c`, `sylvan_cache.c`, `sylvan_common.c` | hash and data buckets, regions, probe limit; cache entries with status words | `llmsset_lookup`, `llmsset_rehash`, `cache_get`, `cache_put`, `sylvan_gc_go` | lock-free insertion, entries read word by word, parallel rehash after the table has grown | one bucket per node, one owner per bucket, results belong to their operands |
| Diagrams, `sylvan/src/sylvan_bdd.c`, `sylvan_mtbdd.c` | - (functions on diagrams) | `sylvan_and`, `sylvan_ite`, `sylvan_exists`, `sylvan_relnext`, ..., `mtbdd_apply`, `mtbdd_abstract`, enumeration, sets, maps | complement marks, skipped levels, variable sets that run ahead of the diagram | each operation computes what it says of the function a diagram stands for |
| Shadow memory, `src/tagmap.cpp` | two-level directory of tag pages | `tagmap_setb/getb/clrn/getn` | pages allocated on first use by several threads, without a lock | equals a flat map |
| Angora BDD tags, `src/bdd_tag.cpp` | tree of segments, labels | `insert`, `combine`, `find` | labels must keep their meaning when a segment is split | equals sets of offsets |
| System calls, `src/libdft_api.cpp`, `src/syscall_desc.cpp` | saved arguments per thread, the table `syscall_desc` | `sysenter_save`, `sysexit_save`, 31 callbacks | failed calls, lengths behind pointers, one row per call | exactly what the kernel writes is cleared |
| Taint sources, `src/syscall_hook.cpp`, `tools/mytool.cpp` | tracked descriptors, `stdin_read_off` | callbacks of open, openat, dup, read, pread64, readv, mmap, munmap, close | failed calls, signedness of results, offsets over several calls and threads | exactly the bytes read are tainted, with their offsets |
| Tag traits, EWAH, SSA without reclamation | - | - | stateless or third party, or covered by the above | - |

How they interact: `trace_inspect` has `ins_inspect` insert analysis calls for
each instruction; these call `tag_combine` and copy tags, i.e. they use the SSA
cells.  `ssa_tag_alloc` and `ssa_tag_combine` post a task in the mailbox of the
thread's worker and spin until it is answered.  A worker that finds Sylvan's
node table full starts a collection in which all workers take part and which
reads the protected pointers: the words inside the cells and the mailboxes.  The
marking and the rehashing of a collection are trees of tasks on the Lace deques;
outside of collections a worker executes the tasks it spawns itself.  System
call hooks allocate tags for input bytes and write them to shadow memory.

## Modules

| Module | Models |
|---|---|
| `TagStore` | abstract specification: a tag backend is a store of sets, each request changes one byte |
| `SsaPool` | the cells, ring, collector, cache and threads of the SSA backend |
| `SsaPool_proofs` | theorems about `SsaPool`, for any number of threads |
| `SsaCells_proofs` | theorems about the cells of `SsaPool`, for one thread; the refinement of `TagStore` |
| `Lace` | life of workers, mailboxes, frames, barriers, start and end of a collection |
| `Lace_proofs` | theorems about `Lace`: lock, mailboxes, end of the program |
| `LaceFrames_proofs` | theorems about `Lace`: frames and barriers |
| `Roots` | protected pointers against marking and sweeping |
| `Roots_proofs` | theorems about `Roots` |
| `X86` | reference: which bytes the result of an instruction depends on |
| `Propagate` | the handlers as flows of tags, and `ins_inspect` |
| `Propagate_proofs` | theorems about `Propagate` |
| `Deque` | SPAWN, SYNC and stealing on the deques of the workers of a frame |
| `NodeTable`, `OpCache` | unique table and operation cache of Sylvan, one step per shared word |
| `Tables` | workers that use both, and the collection that grows and rehashes the table |
| `Tables_proofs` | theorems about `Tables` |
| `Bdd`, `Mtbdd` | Sylvan's operations as operators on diagrams |
| `Diagrams` | a client that applies them one after the other, beside the function they stand for |
| `BddTag` | the labels of `src/bdd_tag.cpp` |
| `SyscallDesc` | the rows and callbacks of `src/syscall_desc.cpp`, `sysenter_save`, `sysexit_save` |
| `Kernel`, `SystemCalls` | reference: the memory each system call writes; a thread that makes a call |
| `Algorithms` | `SystemCalls`, `BddTag` and `Diagrams` side by side |
| `TagMap` | the directory of tag pages |
| `Input` | the taint sources on top of `TagMap`, and the part of the kernel they follow |
| `Input_proofs` | theorems about `TagMap` and `Input` |
| `MC...` | instances for TLC: bounds on the number of requests, symmetry |

Operators named `Mut...`, or whose comment begins with "Mutant", state plausible
bugs of the definition that follows them; they are used only to show that a property can fail.

### SsaPool

The variables are the words of the code: `ref_count` and `bdd` of every cell,
`_q`, `_h`, `_t` and `gc_lock` of the ring (`q`, `hd`, `tl`), `nblk` blocks, the
pointer in every variable of type `ssa_tag`, and per thread a program counter,
the locals of the functions, and the pending steps of `ssa_tag` members.  One
action is one access to a shared word: `ref_count++` is `LoadCount` followed by
`StoreCount`, popping a cell is `ReadHead`, `TestTail`, `PopCell` (the
compare-and-swap), and marking it used is a later step.  The scan of `ssa_gc`
takes one step per cell.  A request of the application is one shadow operation:
taint a byte, load, copy, combine, clear, start and end of a thread.  The 64-bit
counters are taken modulo `Word`.  A BDD is the set it denotes; `Union` stands
for the task the worker executes.  The application itself is free of data
races: two threads access the same byte only to read it, so a lost update in the
model is the library's and not the program's.  Cells come zeroed or filled with
0xff as in `add_ssa_blk`.  `MCSsaPool` adds a history variable, `raced`, which the
step that commits one of the library's own races sets; nothing reads it but
`RacesOnly`.

`SSA_BLK` must be at least 3: with a threshold of `SSA_BLK / 2` a block of two
cells would let a collection leave the ring empty and add no block.  The code
uses a much larger block.

### Lace

A worker is a stack of steps, `st[w]`; a call of `lace_yield` pushes the steps
of the frame.  `app[t]` is what an application thread executes in
`ssa_thread_start`, in a request, or in `ssa_thread_fini`.  An operation in a
worker ends, yields, or finds the table full, in any order.  The polling turns
of the loops that change nothing are left out.  A collection has one round of
`TOGETHER` in the model, which stands for the two of the code (the regions of the
workers, `sylvan_table.c:382`, and their references, `sylvan_mtbdd.c:262`): the
code passes three barriers more than the model's six, of the same pattern.  `HELPER_THREAD_NUM` is 0, so
there are no helper threads; external tasks are asserted not to occur in the
code; what workers do with tasks inside a frame is the module `Deque`.  The
mailbox array is taken to be zeroed when a worker starts.

### Roots

`prot` is the table of pointers, `used` the cells in use.  Filling a cell is
three steps (`Fill`, `Protect`, `ClearRes`: `bdd = t->res`, `sylvan_protect`,
`t->res = 0`), each interleaved with the walk of a collecting worker over the
table, of which `ahead` is what the iterator has not reached.  The table's
probing and resizing and the workers' own reference stacks are left out.

### X86 and Propagate

The tag of a byte is a set of input bytes.  Initially every byte of the machine
depends on an input byte of its own, as after loading registers from a fully
tainted buffer; so any confusion of two sources is visible.  An instruction acts
on `dep`, what the values really depend on, by `Execute` (module `X86`, from the
architecture: partial registers, zero extension of 32-bit results, carries,
overlapping copies) and on `tag` by `ins_inspect`, which chooses a handler as
the switch of the code does.  A handler's loop is written as a *flow*, the
function from each byte it writes to the bytes it reads; sequential calls are
composed with `Then`.  Where the code does something odd the handler does it
too: registers of class xmm always mean 16 bytes, `stosd` and `stosq` without
rep set two tags, `rep stosq` sets four per element, a scalar multiplication
falls through to the code of mov, 64-bit operands of cmpxchg are compared by
their low halves.

`Faithful` is the set of instructions whose handlers lose nothing.  `Lossy`
lists the groups in which some instruction loses a dependency:

* a 4 or 8 byte store from an xmm register overwrites the tags of the bytes that
  follow it (`MovqStore`);
* `mulsd`, `mulpd`, `divsd` lose the destination's tags (missing `break`);
  `subsd x, x` clears the upper half, which the instruction keeps;
* string stores: `stosd`, `stosq` without rep, `rep stosq`, and all but `stosb`
  downwards (the first address is width - 1 too high);
* `cmpxchg` of 8 bytes (values truncated) and of 1 byte (not handled);
* sign extensions from words and longer repeat the source's tags instead of its
  last byte's;
* one-operand `mul`, `div`: the upper half of the result does not get the tags
  of rax;
* overlapping copies with the destination above the source;
* by design of byte-wise propagation: carries (`add`, `inc`, `xadd`, `lea`),
  `bsf`, and the ignored `bswap`.

`LossyAssumption` in `MCPropagate`, evaluated by TLC, says that each of these
groups does lose something.  Flags and addresses as sources are not followed,
neither by the handlers nor by the reference.  `pusha` and `popa` do not exist
in 64-bit mode and mmx registers are left out.  One thread is enough: handlers
write the shadow registers of their own thread, and accesses to shared memory
are those of the application.

### Deque

A worker is a stack of activations: a task, with the SPAWN or SYNC it is in, or
a steal, which runs a task on top of whatever the thief waited for.  One step is
one access to a word that other workers access: the pair `ts` read as a whole,
its half `split` stored by the owner, the compare-and-swap of a thief,
`allstolen`, `movesplit`, an entry's `thief`.  The owner's private copies change
with the public word they mirror.  A task is named by its path from the root and
its result is its name; a `setting` says which workers take part and how many
tasks a task of each depth may spawn at most.  Stores take effect at once: the
code has a fence between lowering `split` and reading `tail` again, the only
place where the order of a store and a later load matters.  In `lace_leapfrog`
every steal may go to any worker; the code tries the thief 31 times out of 32.

### NodeTable, OpCache, Tables

A lookup probes hash buckets from its hash on, claims a data bucket from the
worker's region (or the next free one), writes it, and publishes it by a
compare-and-swap; each is a step.  A hash line has `LINE` buckets and a region
`REGION` data buckets.  `RehashBucket` raises the probe limit by a test and a
separate store, as the code does.  A cache entry is a status word (lock, tag)
and its words, read and written one at a time; a get compares the status before
and after.  In `Tables` a worker looks in the cache, creates the node, stores
the result; when the table is full it collects: the cache is cleared, buckets
that are not referenced are dropped, the table grows if it can, and all workers
rehash together.  The operations are any map from keys to nodes.

### Bdd, Mtbdd, Diagrams

A diagram is a pair of a complement mark and a node, and a node is a tree of
them, which is what hash-consing makes equal.  The recursive operators follow
the code's terminal cases, normal forms and the order in which it walks the sets
of variables, since those are where the cofactors go wrong; cache accesses are
left out (`Tables` has them).  Where `rand()` decides, the operator yields the
set of possible results.  `mtbdd_apply`, `mtbdd_uapply` and `mtbdd_abstract` take
the operation as a parameter, as in the code; `mtbdd_plus` and its siblings are
the instances that the header names.  Numbers are fractions of small integers, a
double is one with denominator 1.

`Diagrams` starts from a constant and applies operations to `dd`, and their
mathematical meaning to `fun`.  Its assumptions, evaluated by TLC, record where
the code does not compute what its comment says:

* `sylvan_closure` is the closure only of reflexive relations
  (`ClosureAssumption`); the comment at `sylvan_bdd.c:1787` has no such condition;
* `sylvan_and_project` returns true for some pairs without a common assignment,
  when an operand is constant or the variables are used up (`ProjectAssumption`);
* `mtbdd_union_cube` loses assignments when the diagram skips the variable at
  hand (`UnionCubeAssumption`);
* the product over variables that do not occur raises only the numerator of a
  fraction (`PowerAssumption`);
* `mtbdd_less` and `mtbdd_greater` depend on the shape of the diagrams where both
  are undefined (`StrictAssumption`).

Further, without an assumption of their own: `sylvan_relprev` calls
`sylvan_relnext` when a variable outside of `vars` is on top of both operands
(`sylvan_bdd.c:1744`); `mtbdd_enum_all_*` do not ask the filter at full depth;
the flag of the comparison functions that ends a failed comparison early also
lets the calls it cut short put a false result into the cache
(`sylvan_mtbdd.c:1831-1905`), which a model without the cache does not see.

### BddTag

Labels index an array of tree nodes.  `denotes` remembers which offsets each
label was returned for, and `find` must return them whatever was inserted since.
Splitting a segment of zeros does not link the rest of the segment, so its
labels are unreachable from the root but stay right; the split of a segment of
ones never happens (the driver inserts single offsets in the same way as
`tag_alloc`).  Offsets from `MAX_LB` on are dropped, and after the last label the
code divides by zero; both are outside of the bounds.

### SyscallDesc, Kernel, SystemCalls

Every row of the table and every callback of the file is an operator from a call
(number, arguments, lengths behind pointers, result) to the ranges it clears.
`Kernel` says, after the manual pages, what Linux writes.  `OutputClean` and
`RestKept` compare them for each call, with success, failure, and absent
pointers.  The calls that deviate are listed, and assumptions that TLC evaluates
say that each listed call does:

* `Stale`: memory is written whose tags survive, for instance `getrandom`,
  `statx`, `preadv` and `epoll_pwait` (no callback although comments at 873, 927
  and 959 name some of them), `readlink`, `recvfrom` with its address, `poll`;
* `Over`: tags are lost in memory that a successful call does not write, for
  instance pointers that are inputs (`connect`, `bind`, `sendto`), a buffer
  cleared by its capacity instead of the result, `signalfd` with the callback of
  `epoll_wait`;
* all calls without a callback, when they fail: `ret` is unsigned at
  `src/libdft_api.cpp:201`, so the test for failure never succeeds.

`quotactl` compares the command without its shift, and `semctl` and
`io_getevents` look at an argument that was never saved.

### TagMap, Input

An address is split into the index of a table, of a page and an offset as in
`src/tagmap.h`.  `todo[t]` are the tags that a callback of thread t has still to
write; each write tests the table, installs one, tests the page, installs one,
writes: five steps between which other threads run.  `lost` is set when an
installation overwrites another, the race the code does not exclude; then tags
are gone, and `FlatMap` claims nothing more.

`Input` has two threads that open, duplicate, read, map and close an input file,
another file and standard input under either set of callbacks.  `mem` is what a
byte really holds.  `odd` is set by the calls after which the tags or the tracked
descriptors are known to be wrong; until one of them occurs they must be exact.
For mytool (`MyOdd`): duplicates are not followed; the offset of readv restarts
with every call; mmap ignores the file offset, rounds a whole number of pages up
by one, tags a mapping that reaches beyond the end of the file over its whole
rounded length, and believes in descriptor -1 after a failed openat; only
`MAP_FAILED` stops its callback, so that a mmap of a tracked descriptor which
fails with another error runs on and puts labels on low addresses (`TagFrom`; for
an untracked one the end of the range wraps too and nothing is cleared,
`ClearFrom`); a mapping with `MAP_GROWSDOWN` clears the bytes below it;
`stdin_read_off` counts reads only.

For `hook_file_syscall` (`FileOdd`): a failed read or pread64
passes the unsigned test and taints or clears a wrapped range; a short read
taints more than was read; mmap taints at the requested address and up to the
requested length, and without `PROT_READ` it returns early, so that a mapping of
the input has no tags; a mmap that fails with an error other than `MAP_FAILED`'s
counts as a success when it asks for `PROT_READ`, and so does such a munmap; dup2
onto a tracked descriptor leaves it tracked; readv has no callback; descriptor 0
counts as input whatever it is.  Failures are `EPERM`, whose result is
`MAP_FAILED`, and `EOTHER`, any other error number less than a page.  The buffers of two threads, and the place for mappings,
do not overlap (`LayoutAssumption`).

## Runs

| Run | Shows |
|---|---|
| `pool_one_thread` | one thread, 3 cells per block, up to 3 blocks, 8 requests: `TypeOK`; no cell in the ring is referenced or registered, none occurs twice (`RingSound`); the BDD of a live cell is registered exactly once (`LiveProtected`); counts equal references when nothing is going on, as `ssa_lastcheck` demands at the end (`LastCheck`); a cache hit returns the union of its operands (`CacheCoherent`); blocks are added only while cells are really in use (`BlocksBounded`); the BDD under a live tag never changes (`ValueStable`); the whole implements `TagStore` (`StoreSpec`); every request ends (`Completes`) |
| `pool_two_threads` | two threads: `ssa_gc` is exclusive (`GcMutex`), combine never follows NULL (`OperandsLive`), and the ring, the registrations and the counts stay sound in every interleaving in which none of four races occurs (`RacesOnly`): a collection on a ring already refilled, a scan over a cell popped and not marked, a pop with the head back at its old place, a lost update of a count |
| `pool_two_used` | counterexample with two threads, see Findings |
| `lace_safe` | three threads, three workers, two collections: at most one holder of `spawn_exit_lock` (`LockOwner`), nobody executes an operation during a collection (`GcAlone`), no copy from an absent frame (`CopySafe`), the barrier's words count the workers in it (`BarrierCount`), an answer belongs to the last request (`MailboxAnswer`), `lace_stop` frees nothing still used (`StopSafe`), the number of workers is constant during a frame (`FrameStable`) |
| `lace_live` | a thread that ends is acknowledged (`QuitAcked`), requests are answered unless a worker stalls (`AnsweredOrStalled`), collections end (`GcEnds`) |
| `lace_frame` | counterexample: a worker waits for ever for a frame |
| `roots_one` | one thread: no live BDD is freed (`LiveKept`), the table holds exactly the roots (`RootsExact`) |
| `propagate` | any two instructions of `Faithful` on four general and two vector registers and 33 bytes of memory lose nothing (`NoUnderTaint`) |
| `deque` | two workers with tasks that spawn tasks or with six tasks of one depth, three workers with two tasks: each task is executed once and its SYNC returns its result (`TasksExact`), "tail = split = head (pre-pop)" holds where the comment in `lace_leapfrog` assumes it (`LeapPops`), everybody leaves the frame (`Ends`) |
| `sylvan_tables` | two workers, three nodes with colliding hashes, a table that is full at once and doubles: a node is never stored twice in reach of a lookup (`UniqueNodes`), a cached result is the node of its key (`ResultsTrue`), no data bucket is given to two (`OwnBuckets`) |
| `input` | two threads, three system calls in all: `FlatMap`; the tracked descriptors are those of the input file (`FdsExact`); the tag of every byte is the offset it came from (`TagsExact`) |
| `algorithms` | every system call of the table: what is written loses its tags (`OutputClean`), the rest keeps them (`RestKept`); every sequence of insertions and combinations of four offsets: a label keeps its meaning (`LabelsKept`); sequences of operations on diagrams over three variables, states and transitions of two bits, numbers over two variables, sets and maps: the diagram is that of the function, and reduced (`DiagramExact`, `NumbersExact`), and counting, picking, enumerating and comparing answer for the function (`Answers`) |

### Bounds

* `MaxOps` bounds the requests.  Filling a ring of 3 cells, dropping
  references, a second collection, a third block and a wrap of the ring fit in 8
  requests of one thread; the races of two threads need 4 to 7.
* `Word` = 16 or 32 makes the wrap of the counters happen at the same places as 2^64:
  only below zero and at the value 0xff..ff of an unused cell.
* `MaxId` bounds the workers ever spawned, so ends and restarts of threads are
  covered; `MaxFull` bounds how often the table fills up, twice in order to have
  one collection after another.
* `roots_one` has no bound on time: three nodes for two cells let every node be
  freed and used again.
* In `propagate`, what a handler does to tags does not depend on the tags, and
  every byte starts with one of its own, so one step shows every flow and the
  second shows what a step leaves in shadow bytes the program has not (the
  scratch register, the upper part of general registers).  The start addresses 1
  and 4 give disjoint, overlapping and identical operands.
* `deque`: six tasks are the fewest with which two thieves' steals can pass the
  lowered split (`raise` in `Shrink`), three levels the fewest in which a waiting
  owner runs a stolen task that spawns.  `DQ` is never reached: the code exits
  when a deque overflows, see below.
* `sylvan_tables`: hashes that collide, lines of two buckets and a table of four
  make probing past a line, a full table, growth and a raised limit happen with
  three operations; a further collection in the grown table as well.
* `input`: three calls are open, read, and a call in between by the other thread.
* `algorithms`: `MaxNum`, `MaxDen` bound the values of the numbers and `MaxTrans`
  the transitions of an operand; within them sequences of operations have any
  length.
* Deadlock checking is off where the bounds let the system stop, in `deque` and
  `lace` also because all workers leave, in `sylvan_tables` because the program
  exits when the table stays full.

### Fairness

Weak fairness on the steps of each thread and each worker, i.e. the scheduler
of the operating system runs all of them.  None on what the application
requests, on a table being full, or on threads ending.  For `Ends` each worker's
steps are weakly fair: a worker spins in user space and is only ever preempted.  `Completes` is claimed
for one thread only: with two, a collection on a ring already refilled wraps
`empty_count` and adds a block each time, so the number of blocks has no bound
and the bound of the model would stop it.

## Proofs

`SsaPool_proofs` proves for any set of threads, any block size from 3 and any
number of blocks:

* `TypeCorrect`: `Spec => []TypeOK`, in particular that ring indices, scan
  positions and counters stay in range;
* `GcExclusive`: `Spec => []GcMutex`;
* `NoNullOperand`: `Spec => []OperandsLive`.

The inductive invariant is `TypeOK /\ OperandsLive /\ GcMutex`: types alone do
not survive a step, because the pending steps of an assignment dereference its
source (`OperandsLive` says the source is not NULL until they are done), and the
scan of `ssa_gc` uses `temp_t` and `it`, whose range is known only for the one
thread that holds the lock.  There is one lemma per group of actions.

`SsaCells_proofs` proves for one thread, any block size from 3, any number of
blocks, any finite set of tags and any input:

* `RingIsFree`: `Spec => []RingSound`;
* `TagsProtected`: `Spec => []LiveProtected`;
* `CountsExact`: `Spec => []LastCheck`;
* `CacheAnswers`: `Spec => []CacheCoherent`;
* `BlocksNeeded`: `Spec => []BlocksBounded`;
* `ValuesKept`: `Spec => ValueStable`;
* `StoreImplemented`: `Spec => StoreSpec`, the refinement of `TagStore`.

None of the first six is inductive: between the steps of an assignment a count differs
from the number of pointers.  The invariant `CellInv` says by how much.  `Pending`
is the shape of what is still to be done: a pointer that has been counted is
copied next, one that has been discounted is overwritten next, the temporary is
moved or cleared last.  From it `Counts` reads off that a count is the number of
pointers, plus one between `++` and the copy or while a cell is being filled, less
one between `--` and the overwriting.  `Cells` says which cells are registered and
hold a set, `Ring` that the ring, and the slot or cell a thread has just taken,
hold free cells, `Scan` that a collection has put exactly the free cells it has
met into the slots behind the tail, `Answer` what the worker computed, `CacheInv`
that the cache holds the union of its keys or is about to.  There is one lemma per
action and part.  `CountAssumption` (the tags are finitely many and fewer than the
values of a `uint64_t`, less three) keeps a count from reaching the mark of an
unused cell.  With two threads `RingSound` and `LastCheck` fail, as the findings
say.

For the refinement `StoreInv` is added.  Its part `Delivery` says of the steps
still to be done which one stores: there is at most one that sets a byte or a
register of the application, it sets the one the request names (`Straight`), and
the set it will store, read through the temporary if it goes that way, is the set
the request asks for (`Stored = Wanted`).  The other part, `CacheFull`, says that
a cache with a key has a value, so that a hit stores something.  Every step then
is a step of the store (`Asks`, the one that stores, the end of the request) or
keeps all sets (`Stutters`); that a step frees or reuses a cell does not change a
set is what `CellInv` gives.

`Roots_proofs` proves for any threads, cells and nodes:

* `TableExact`: `Spec => []RootsExact`;
* `OneThreadKept`: with one thread, `Spec => []LiveKept`.

The invariant adds what the walk has achieved: cells being filled are distinct
(`Apart`), the table is what it should be (`Registered`), a single-threaded
application waits while its worker collects (`GcWaits`), and during marking each
root is marked, under the iterator, or ahead of it (`Marking`).  `GcWaits` is
what fails with two threads.

`Lace_proofs` proves for any number of threads, workers and requests:

* `LockExclusive`: `Spec => []LockOwner`;
* `MailboxExact`: `Spec => []MailboxAnswer`;
* `StopHarmless`: `Spec => []StopSafe`.

A worker of `Lace` is a stack of steps, so what it holds depends on what lies
below the top.  The invariant says it once, as a relation `Under` between steps:
the call graph of the code.  A stack is ordered by it (`Ordered`), so that the top
step tells which steps cannot lie below.  `LockInv` ties the word to
its holders, `StackOf` says which steps come together (what has been locked is
still to be unlocked), `MailOf` in which steps a mailbox is open and answered,
`OwnerOf` and `ThreadOf` that a thread and its worker name each other, `StopInv`
what is left when `lace_stop` may run.

`LaceFrames_proofs` proves on top of it, also for any number of threads, workers
and requests:

* `CopyWhileSet`: `Spec => []CopySafe`;
* `CollectsAlone`: `Spec => []GcAlone`;
* `BarrierExact`: `Spec => []BarrierCount`;
* `FrameKeepsWorkers`: `Spec => FrameStable`.

No one of the four can be proved without the others: the barrier waits for all
because no worker starts or ends meanwhile, nobody starts or ends because all are
in the frame, and they stay there because the barrier waits.  The invariant is
`IInv /\ PhaseInv /\ AliveInv /\ BarInv`.  `PhaseInv` says that no worker is in a
frame (`Calm`), or that one worker holds the lock and collects and `g` of the six
barriers of the model's collection have been flipped (`Busy(c, g)`): the stack of the
collecting worker is one of those that occur between barriers `g` and `g + 1`
(`Lead`, with what is left of the collection after them, `LA(g, b)`), and that of
any other worker one that occurs there in `lace_yield` (`Join`, `FA(g, b)`), empty,
or, before the first barrier only, not yet in the frame (`Out`).  The stack `b`
below, what the worker was doing before, is arbitrary as long as it holds steps
outside of frames only.  A flip takes all workers at once from `g` to `g + 1`; that
it finds all of them waiting is the last part of `BarInv`, which follows from
`BarrierCount` and from `AliveInv`, that `lace_n_workers_alive` counts the workers
that have started and not ended: while a worker holds the lock, these are those
with a stack (`AllCounted`).

`Tables_proofs` proves for any number of workers, any sizes of cache line, region
and table, and any hash function:

* `NodesUnique`: `Spec => []UniqueNodes`;
* `BucketsOwned`: `Spec => []OwnBuckets`;
* `RegionOwned`: a claimed bucket lies in the region of the worker that claimed it
  and of no other;
* `ResultsKept`: between collections a referenced result is a node that a lookup
  of its contents finds;
* `ContentsStable`: no step changes the contents of a referenced node.

The central part of the invariant is `Seats`: each node sits at the first place
of its probe sequence that holds its contents, with all earlier places occupied.
`Passed` is the promise of a lookup under way: what it has passed is occupied by
other contents, and never will be anything else, since places are only filled.
`Claims` and `InUse` say who owns which data bucket.  `Collecting` carries both
through the rehash, where the hash array is empty at first and nodes are put back
one by one while the probe limit grows; `Results` ties the referenced results to
them.  `ResultsTrue`, that a result is the node of its key, is not an invariant
of the code for every length of execution: the 16-bit counter of a cache line may
wrap within one `cache_get`.  It is model-checked within the bounds.

`Propagate_proofs` proves for any set of registers, any memory and operands:

* `HandlersFaithful`: for each instruction of `Faithful` the flow of tags that
  the selected handler performs covers the flow of data of `X86`;
* `TaintKept`: `Spec => []NoUnderTaint`, when the program consists of such
  instructions.

The invariant is `NoUnderTaint` and the domains of the two maps.  The work is in
`HandlersFaithful`, one lemma per form of handler: exchanges go through scratch
tags, so the lemma on them says what the scratch tags hold in between, and a copy
from memory to memory is exact as long as its operands do not overlap upwards,
which is what `Faithful` asks of it.

`Input_proofs` proves for any number of threads, descriptors and addresses:

* `ShadowIsArray`: `Spec => []FlatMap`;
* `DescriptorsExact`: `Spec => []FdsExact`;
* `OffsetsExact`: `Spec => []TagsExact`.

For the first, pointers are null or valid and no two are equal (`Pointers`), and a
thread in the middle of `tag_dir_setb_save_mem` holds the pointers the directory
holds (`Cursor`), as long as none was overwritten; that an address is determined by
its table, page and offset is arithmetic (`PartsUnique`).  For the second, a
descriptor is tracked exactly if it is open on the input (`Known`), or a call
between its kernel step and its callback has altered it; `Between` is what such a
call has yet to record.  Two calls that are there at once name disjoint
descriptors, otherwise they count as odd.

For the third, the tag of every byte is right or a thread still owes it (`Owes`):
the kernel has written the byte and the callback has not run, or the byte is in
the list of tags the thread is writing.  `TagInv` adds that what is to be written
is right and lies in the thread's own place, its buffer or the mappings, and that
at most one thread changes mappings.  `ReadBytes` and `MapBytes` say what the
kernel put into memory until the callback has run; `MapClean` says that the
addresses of a mapping had no tags before.  `DataInv` holds whatever the callbacks
do.  That the callback judges rightly whether the descriptor is tracked is `FdInv`,
the invariant of the second theorem with descriptor 0 of mytool included.  The
proof attempt showed that `MyOdd` had missed the mapping beyond the end of the
file: it takes a file shorter than a page, which the run does not have.

The assumptions are the named `ASSUME`s of the modules, which TLC evaluates on its
instances.  Those the later proofs added are facts of the code: sizes are
positive, table sizes are powers of two times the first one (`SizesAssumption`,
`sylvan_set_sizes`), workers are numbered from 0 (`WorkersAssumption`,
`lace_n_workers_id`), every key has a slot of the cache (`OpsAssumption`), pages
and tables are not empty (`MapAssumption`), addresses and descriptors are natural
numbers and 0 is a descriptor (`InputAssumption`), calls in progress have buffers
of their own and the lengths of files and requests are below the range of
`size_t` (`LayoutAssumption`).

Only model-checked: liveness, `Deque`, `ResultsTrue`, and
`OutputClean` and `RestKept` of `SystemCalls`.  TLAPS does not handle liveness
under fairness.  `Bdd`, `Mtbdd`, `Diagrams`, `BddTag` and so `Algorithms` are built from
RECURSIVE operators and need induction over diagrams, which is out of its reach
too.

## Findings

1. `src/ssa_tag_gc.cpp:172`: a popped cell is not marked until three lines
   later, so a collection in between queues it again (`pool_two_used`).
2. `sylvan/src/sylvan_common.c:262`: a worker that meets the end of a collection
   waits for a frame nobody sets, until some other collection starts
   (`lace_frame`).

Remarks without a run of their own:

* `src/ssa_tag_gc.cpp:165`: after winning `gc_lock` a thread does not test the
  ring again and may collect on a ring another thread has just refilled;
  `empty_count` then wraps.  The comment at line 72, that the queue is empty when
  a collection begins, holds with one thread only.
* `src/ssa_tag_gc.cpp:172, 280`: the compare-and-swap of `_h` also succeeds when
  the head has gone round since it was read and nothing is left to pop.
* These two, the window of finding 1 and the lost update below are the races of
  `RacesOnly` (`Refilled`, `HeadAgain`, `Requeued`, `LostCount`).  Each is needed:
  with any one of them taken out of `Race` TLC finds the pool damaged.
* `src/ssa_tag_gc.h:36`: counts are changed by a plain `++`; two threads that
  only read the same tainted byte lose an update.  `LastCheck` fails with two
  threads.
* `src/ssa_tag_gc.cpp:286`: with two application threads a root moves from the
  mailbox to a cell behind the back of a marking worker, and its BDD is freed.
  `LiveKept` fails in `Roots` with two threads, where `GcWaits` does not hold.
* `src/ins_xchg_op.cpp:9`: the values of a 64-bit cmpxchg are compared as 32-bit
  values; the instruction is in `Lossy`.
* The comment at `src/ssa_tag_gc.cpp:50` speaks of a threshold of 75 %, the
  constant in `src/ssa_tag.h:40` is one half.
* `lace_stop` polls a plain variable in an empty loop, which an optimising
  compiler may remove, so the model lets it go on without waiting for the workers
  (`StopSafe` holds nevertheless).
* `mtbdd_gc_mark_protected` (`sylvan_mtbdd.c:171`) spawns one task per protected
  pointer: more live cells than `LACE_DQ_SIZE` end the program in
  `lace_abort_stack_overflow`.
* `llmsset_lookup` that fails after it has claimed a data bucket keeps the bucket
  until the next collection; `cache_put6` marks its entries with another bit than
  the one `cache_get` tests (no caller).

## Not modelled

* List decision diagrams (`sylvan_ldd.c`): libdft never calls them.  Sylvan's
  serialisation, file and dot output, parallel enumeration, custom leaves; the
  probing and resizing of its reference tables; the EWAH library, SHA-2.
* DROP of a Lace task and `lace_make_all_shared` (no caller), external tasks,
  store buffers.
* `libdft_die` and detaching, `syscall_set_pre`, `syscall_clr_*` and the other
  functions that change rows of the table.
* Pin is external: threads start and end, analysis calls run before their
  instruction.
* Printing, profiling, logging and the variant without reclamation (`SSA_NOGC`),
  which uses the same mailbox.

## Plan

Done: `TagStore`, `SsaPool`, `SsaPool_proofs`; `Lace`; `Roots`, `Roots_proofs`;
`X86`, `Propagate`; `TagMap`, `Input`; `SyscallDesc`, `Kernel`, `SystemCalls`;
`BddTag`; `Bdd`, `Mtbdd`, `Diagrams`; `NodeTable`, `OpCache`, `Tables`; `Deque`.

Proved: `SsaPool_proofs`, `SsaCells_proofs`, `Roots_proofs`, `Tables_proofs`,
`Lace_proofs`, `LaceFrames_proofs`, `Propagate_proofs`, `Input_proofs`.

Next proofs, in this order: `OutputClean` and `RestKept`, row by row; `TasksExact`
of `Deque`.
