# Formal models of *learning with sakura*

The repository is a set of systems-programming exercises: a job-control shell,
a heap allocator with its driver, a cache simulator, four steps of a teaching
kernel, a breakpoint tracer and a small echo server. Each of them is a real
program with state; this directory models them in TLA+, checks the models with
TLC and proves the main invariants with TLAPS.

## Inventory

Paths are below `src/`; SH, ML, CL and UC stand for
`kernel/csapp_lab/shell_lab/shlab-handout`, `.../malloc_lab/malloclab-handout`,
`.../cache_lab/cachelab-handout` and `kernel/thu_ucore`.

| Component | State | Operations | Interacts with | Hard behaviour |
|---|---|---|---|---|
| SH/tsh.c, the shell | `jobs[MAXJOBS]`, `nextjid`, signal mask | eval, do_bgfg, waitfg; SIGCHLD, SIGINT, SIGTSTP handlers | children (signals, waitpid), keyboard | handlers interrupt main and each other; SIGCHLD coalesces; test-then-suspend |
| ML/mm.c + memlib.c, the allocator | heap words with boundary tags, 16 segregated lists, `mem_brk` | mm_init, mm_malloc, mm_free, mm_realloc, mem_sbrk | mdriver | splitting, coalescing, realloc at the end of the heap |
| ML/mdriver.c, fcyc.c, the driver | range list, trace, K-best samples | add_range, remove_range, eval_mm_valid, add_sample | mm.c | overlap test, convergence test |
| CL/csim.c, cache simulator | lines with valid, tag, stamp; hit, miss, eviction counts | update, update_stamp, parse_trace | trace files | LRU by ageing stamps |
| UC/lab1, trap and debug info | tick counter, trap frame switch, stab table | trap_dispatch, stab_binsearch, print_stackframe | hardware | user/kernel switch, binary search with gaps |
| UC/lab2, physical memory | page frames, free list, `nr_free` | default_init_memmap/alloc/free, page_init | lab3, lab4 | block merging |
| UC/lab2, page tables | entries, reference counts, the processor's TLB | page_insert, page_remove, tlb_invalidate, self-tests | lab3 | counts of shared frames, stale entries |
| UC/lab3, virtual memory | vma list and cache, FIFO queue of pages | find_vma, insert_vma_struct, do_pgfault, fifo swap | lab2, swap device | swap in and out, stale cache |
| UC/lab4, processes | proc list, hash list, `last_pid`, `next_safe` | get_pid, do_fork, proc_run, cpu_idle | lab2 | unique pids with cached range |
| debugger/debugger.cpp | breakpoint table, tracee text | insert_brakepoints, trace | ptrace, tracee | overlapping 8-byte pokes, single-step re-arm |
| ctf/googlectf_echo/echo_srv.cc | per-client buffers, fd sets | accept, read, write in a select loop | clients | erase while iterating, partial lines |
| data_lab: bits.c, tests.c, btest.c, fshow.c, ishow.c | of btest: options, argument values, loop counters, alarm, score | thirteen puzzles, get_num_val, gen_vals, test_function, run_tests | SIGALRM | corner words; early ends; the alarm that is never cancelled |
| attack_lab, bomb_lab, arch_lab, IOT and others | none | constant functions, documents, binaries | | |

What makes each part correct:

- the shell: the list is what the kernel's children are, through every
  interleaving; every child is reaped; keyboard signals reach the foreground
  job; waitfg returns; one foreground job at most.
- the allocator: payloads are disjoint and keep their data; tags tile the heap;
  the lists hold the free blocks; free neighbours are merged; the heap grows only
  if no free block fits that the search can reach.
- the driver: it accepts exactly disjoint, aligned payloads inside the heap.
- the cache simulator: its counters are those of LRU.
- lab1: which region the search returns, for every address; that a name, a file
  and a line found for an address are its own.
- lab2: the free list is the pages nobody holds, merged to maximal blocks; a
  page's count is the number of its mappings, and no cached entry outlives its
  page.
- lab3: find_vma with its cache is the search without it; the queue holds each
  resident page once; a program sees plain memory, whatever is swapped out.
- lab4: pids are unique; a fork that fails, at whatever step, leaves nothing
  behind.
- the tracer: every trap is taken for what it is, and calls go unseen only where
  eight-byte pokes wipe out a neighbour's breakpoint.
- the echo server: a client gets back only what it sent, in order, and what was
  put into its write buffer is written in the end, unless the server ends first.
- datalab: a puzzle agrees with its reference on every word; a test is passed
  exactly if no combination of its values shows a wrong answer.

Parts interact in five ways: the kernel interrupts the shell with signals and
answers waitpid; mdriver calls the allocator and the allocator calls memlib;
lab3 and lab4 take pages from the manager of lab2 with interrupts off, and the
processor walks and caches the page table lab3 changes; the tracer and the echo
server react to what ptrace and select report; and an alarm interrupts btest.
Inside one part, the shell and btest share their state with signal handlers; the
others are sequential programs whose difficulty is the long sequence of calls,
or the order in which the world outside answers.

## Modules

| Module | Models | Extends, instances |
|---|---|---|
| `Jobs` | the job list of tsh.c: clearjob, initjobs, maxjid, addjob, deletejob, fgpid, getjobpid, getjobjid | |
| `Tsh` | main, eval, do_bgfg, waitfg, the three handlers, the children | `Jobs` |
| `Proc` | do_fork and get_pid of lab4 | |
| `PageAlloc` | what a page manager promises (abstract) | |
| `Pmm` | default_pmm.c of lab2 | instance of `PageAlloc` |
| `LRU` | least recently used replacement (abstract) | |
| `Csim` | csim.c | instance of `LRU` |
| `Loops` | a loop of the C code as a function of its turns | |
| `Mm` | mm.c over memlib.c, under the validity check of mdriver.c | `Loops` |
| `FlatMemory` | what virtual memory promises a program (abstract) | |
| `Vmm` | areas and page faults of vmm.c, the FIFO queue of swap_fifo.c, page tables and reference counts of pmm.c, the accesses of the processor | instance of `FlatMemory` |
| `VmmTests` | the self-tests of pmm.c, vmm.c and swap_fifo.c as one script | `Vmm` |
| `EchoServer` | the select loop of echo_srv.cc and its peers | |
| `Bits` | the puzzles of bits.c on words of `W` bits | |
| `BitTests` | tests.c, decl.c, show_float of fshow.c, get_num_val of btest.c | `Bits` |
| `Btest` | btest.c: options, test values, loops, alarm, score | `BitTests` |
| `Kdebug` | the search of lab1's debug information | `Loops` |
| `Tracer` | breakpoints and the trace loop of debugger.cpp | |
| `MCTsh`, `MCProc`, `MCPmm`, `MCMm`, `MCVmm`, `MCEcho` | small instances for TLC | the module they are named for, `MCVmm` `VmmTests` |
| `MCTools` | the small programs side by side in one run | `Proc`, `Csim`, `Btest`, `Kdebug`, `Tracer` |
| `TshProofs`, `PmmProofs`, `CsimProofs`, `MmProofs`, `VmmProofs`, `EchoProofs` | theorems | the module they are named for |
| `ProcessProofs` | theorems about processes and the tracing of one | `Proc`, `Tracer`, `Kdebug` |
| `NatLemmas` | lemmas the proofs share | `Loops` |

A definition whose comment starts with *wrong:* is a mutant of the one below it,
a bug one could have written there; TLC finds the property it is paired with in
`PROJECT.json` violated when it replaces that definition.

### Tsh, the shell

`jobs`, `nextjid` are the globals; `pc`, `cmd`, `fpid`, `slot`, `mask` are where
main is and the locals it carries across a point where a signal may come;
`active` is the stack of handlers and `h` the place and the locals of each;
`pending`, `child`, `unreported`, `csig` are the kernel's: pending signals of
the shell, the state of each process, stops not yet reported by waitpid, and
keyboard signals forwarded to a child.

Code that runs with all signals blocked is one step (`EvalAddJob`); everything
else is cut at the points where a handler may come in. main and each handler
advance only when they are on top of the stack. A handler may interrupt main and
a handler of another signal, as the handlers are installed with an empty mask;
its own signal is blocked while it runs. SIGCHLD does not queue. A child ends by
itself, stops itself (`ChildStopsItself`, mystop.c), dies by a signal that is not
the shell's (`ChildKilledOtherwise`, myint.c or any other process), or takes what
the shell forwards; that another process continues a stopped child is left out. A
child is one process; the driver program mysplit, whose job is a group of two, is
outside.
Between fork and setpgid/execve a child has neither a group of its own nor a
program, and a signal sent to the group of its pid reaches nobody. The keyboard
signals go to the shell alone, as the test driver sends them. When the shell
ends or crashes its memory is gone and the children stay.

### Proc, process creation

`proc_list`, `hash_list`, `nr_process`, `last_pid` and `next_safe` are the
kernel's; `stage` is where do_fork is, `le` get_pid's position in the list; `procs`
and `stacks` count the process structures and the kernel stacks allocated, `ret` is
what do_fork returns. The three allocations of do_fork are steps that may fail,
each failure goes to the label the code names, and the labels give back in steps of
their own (`bad_fork_cleanup_kstack`, `bad_fork_cleanup_proc`). copy_mm of lab4
does nothing and returns 0, so that the first label is never reached; with
`CopyMmFails` it is. get_pid is a step per turn of its loop
(`ScanTaken`, `ScanOther`, `ScanEnd`) with the restart at the head when the
candidate passed `next_safe`. It runs with interrupts off, and kernel threads
are not preempted, so that do_fork's first test of nr_process still holds when
it links the process. do_exit of lab4 panics; its header comment (proc.c:28-57)
announces how a finished process is reclaimed. `Reclaim` is that step, external,
and `Reclaims` says whether it is taken: without it pids never run out. proc.c:114
and 115 do not compile as written (`proc-cr3`, `flag`) and are read as the
assignments they stand for.

### Pmm, the page manager

`free_list` holds block heads in list order, `property` and `PG_property` are
the fields of the page frames, `nr_free` the counter. `allocated` is what callers
hold until they call free_pages; a caller may give back part of what it got, as
default_check does. `default_free_pages` is a step per turn of its merging loop
(`MergeUp`, `MergeDown`, `MergeSkip`), then `FreeLink`, which has the assertion
of line 183. `result` is the last request and its answer. The ranges of the
memory map are assumed not to touch; with ranges that touch init_memmap links
neighbours it never merges, and the assertion can fail. The self-tests basic_check
and default_check are not scripts of the model; what default_check asserts at line
288 is `LowestFits`, which the run `pmm_lowest` finds violated.

### Csim, the cache simulator

`S` and `B` are 2^s and 2^b, with s at least 1. The mask of line 63 is made by a
shift C leaves undefined (a 32-bit value by 64 - s); the processor takes the count
modulo 32, which gives the low s bits, and that is what the model has. A turn of
parse_trace's loop is an action: a load or a store, a modify (two references), an
instruction fetch. The format ` %c %xu,%d` reads `L 10,1` up to the address only, as
`u` matches nothing; the rest of the line is read by a turn of its own (`SizeField`)
that references nothing and ages every line. A hit is decided by the tag alone, as
in the code; an empty line has tag -1.

### Mm, the allocator

The heap is one array of words in which tags, list links and the callers' data
lie as in the code; sizes and addresses count words of four bytes, so that sizes
are even and the low bit is the allocated bit. The lists count from the size in
words; the two lists of the code for sizes below four bytes are always empty. What is
left of a size after the halving is the same number in both, and insert_node
compares it, as bytes, with the sizes of the list's blocks (`InWords`).
A C function that writes the heap is an operator from heap to heap. The driver
is eval_mm_valid: it calls, checks the range (`AddRange`, with the overlap test
as it is written), compares the data after a realloc, fills the payload with a
mark of its own, and starts the next trace over the words of the last one.
`GrowsIntoGap` says whether traces make the one realloc that breaks the heap
(`ShortGap`); with it TRUE the run `mm_gap` finds the overlap, with it FALSE the
run `mm` shows that nothing else does.

### Vmm, virtual memory

`mm` is check_mm_struct with its sorted list of areas, `mmap_cache` and
`map_count`; `pg` is what pmm.c keeps (frame and entries of the page table,
reference counts, free frames) and the TLB of the processor; `data` and `disk`
are the contents of frames and swap slots; `pra_list` is the global queue, its
head first. `fault` and `pc` are do_pgfault's locals and where it waits for a
frame: it allocates twice, a page table (`GetPte`) and a page (`MapNewPage`,
`SwapIn`), and each time pages may be swapped out first (`SwapOut`). An access of
the processor goes through the TLB (`AccessHits`) or faults (`AccessFaults`).

The model runs in two modes. In mode *script* it runs the kernel's self-tests
check_pgdir, check_boot_pgdir, check_vma_struct, check_pgfault and check_swap with
_fifo_check_swap, one after the other in one boot; their assertions set `failed`,
and `SelfTestsPass` also refuses a script that stops before its end (the property
says ENABLED). 1024-byte constants and the hundred areas are scaled down. Left out
are check_alloc_page, whose default_check this page manager fails, and
pmm.c:522-529, which is about a mapping of the kernel that the model has not. In
mode *free* anybody calls anything, as far as the callers of the source do: the page
table layer directly only while no mm exists, page_remove only with swapping off
(lab 3 has no swap_remove that could take the page off the queue), mm_create only
while no other mm exists, as it empties the one global queue. Areas are whole pages:
with areas that share a page do_pgfault could meet a present page (vmm.c:311) and
read a slot that does not exist. check_boot_pgdir drops the table with its entries
in place and without an invalidation (pmm.c:544-547), so that `TlbCoherent` speaks
of times at which a table is there and free runs drop an empty table only. In the
script the two stale entries survive, and check_pgfault uses their addresses: it
passes only if the processor has replaced them by then (`ReplaceTlb`). That is an
assumption about the processor and not something the code ensures; without the step
`SelfTestsPass` is violated.

get_pte (an empty stub in this lab), the swapping loop of alloc_page, swap_in,
pgdir_alloc_page, swap_init and the processor have no body here; they are
modelled as external, from how the code calls them and what the self-tests
expect of them.

### EchoServer, the echo server

`slots` and `size` are the vector: objects past `size` are destroyed but still in
memory. `it` and `end` are the iterators of the pass over the clients, `end` taken
before any client is erased (echo_srv.cc:196). erase moves the objects behind down;
`++it` then passes over the one that moved into the erased place, and a later turn
of the pass visits a destroyed object (`overrun`): reading it is undefined, and the
model lets it act with the descriptor left in memory and empty buffers, or crash.
That descriptor is the last client's, or one this pass has closed; reading from a
closed one ends the server, as does a read from a connection the peer has reset
(`ReadFails`). A write that returns 0 is in the code and in the model
(`WriteNothing`); the sockets of Linux never do it. One action is one system call of
the server or one step of a peer. A text is a sequence of tokens. The greeting waits
in the write buffer until the first whole line has come, as only then the direction
changes; one line end is looked for per read. A write to a peer that hung up is lost
once and then ends the server, as SIGPIPE is not ignored.

### Bits, BitTests and Btest, the datalab

A word is a natural number below 2^W; the operators of C are defined on words, with
Sar the arithmetic shift of int. Floats have `EXP_BITS` exponent and `FRAC_BITS`
fraction bits, so that the puzzles and their references are compared on a whole
format. `BitTests!Float` is the processor's float arithmetic and external.

`Btest` is the harness: the options one by one, run_tests (`SkipTest`,
`BeginTest`, `EndTests`), the loops of test_function (`TestCase` with `Advance`,
a counter per argument), and the alarm (`Timeout`). rand() is external (`Draws`);
pow(TEST_RANGE, 0.333) is the largest root not above it. The alarm is set for
each test and never cancelled: when it comes between two tests siglongjmp jumps
to a dead frame, and pc is "undefined" from there. `Faults` gives one wrong
answer to a puzzle, so that tests fail as well as pass.

### Kdebug and Tracer

`Turn` is a turn of the loop of stab_binsearch and `Narrowed` the loop, which takes
at most 2(r - l) + 3 turns; `debuginfo_eip` makes its four calls.
`SearchExact` says what the search answers for every address: the region its header
promises, and, where the code departs from the header (below), which other one.
`InfoExact` says what debuginfo_eip promises, away from the addresses at which
the search departs. `Sorted` and `Layout` say what the
code takes for granted of the table it is linked with; `MCTools` assumes them of
every table it generates, so that TLC evaluates them there. The checks of the
string table and the length of a name are left out.

`Tracer` keeps of a byte only whether it is the breakpoint's. A word of ptrace
covers `WORD` bytes (8 in the code); `Peek` and `Poke` are whole words, so that
functions closer than a word save and wipe out each other's breakpoint. The
tracee goes anywhere in its text. Positions of a PIE, threads, signals other than
the trap and the end of the tracee are outside.

## Runs

| Run | Instance | What it shows |
|---|---|---|
| `tsh_safety` | 2 children, 2 slots, both keyboard signals, bg and fg | job list and kernel stay in step: no ghost job, no lost child and no crash, one slot per pid, ST means stopped |
| `tsh_fg` | 2 children, 2 slots, fg | *violation*: fg on a job that has just ended leaves a slot marked FG, behind which two jobs are in the foreground |
| `tsh_live` | 2 children, 1 slot, ctrl-c | children are reaped, listed or not; ctrl-c takes effect |
| `tsh_waitfg` | 1 child, bg and fg | *violation*: the wakeup lost between waitfg's test and sigsuspend |
| `proc_ret` | the kernel of lab 4 as it stands | *violation*: do_fork returns an error for a fork that succeeded |
| `pmm` | 7 frames in 2 ranges, requests 1..3 | free list = free pages, full merging, exact nr_free, no panic, refinement of `PageAlloc` |
| `pmm_lowest` | 5 frames in 1 range | *violation*: a request gets a block that is not the lowest one that fits |
| `mm` | 40 words, blocks of 4, 6 and 16, 3 live, 8 requests | data intact; tags, lists and merging consistent; growth only if needed |
| `mm_gap` | the same with `ShortGap` | *violation*: realloc over an allocated neighbour |
| `vmm` | free: 3 frames, 4 areas over 3 pages, 6 faults; script: 5 frames, 5 pages | cached search, counts, queue, TLB, self-tests, refinement of `FlatMemory` |
| `echo` | 3 peers, one with 2 tokens, buffer of 2, socket of 1 | nothing lost, own tokens in order, one socket per client, answers in the buffer delivered |
| `tools` | pids 1..5, 4 processes and idle; 2 sets of 3 lines, 5 addresses, 5 trace lines; words of 8 bits; tables of 4 stabs and of 2 files; 3 functions in 6 bytes, words of 3 | unique pids, hash and list agree, accounts of do_fork, get_pid ends; unique tags, refinement of `LRU`; puzzles, harness, stab search, tracer |

Why the bounds are enough. Two children are what SIGCHLD coalescing, nested
handlers and two jobs need; with one slot for two children the list overflows.
`JidBound`, 2 or 3, stops new commands, not signals or children. One pid more
than processes makes get_pid search to the last gap and wrap; `CopyMmFails` and
`Reclaims` are TRUE in `tools`, for the cleanup labels and for gaps among the pids,
and FALSE in `proc_ret`, which is the kernel as it is. Seven frames hold
every arrangement of a block with two free neighbours and a third one apart, and
the second range ends the memory. Three ways and five addresses, four of them in
one set, make hits, fills and evictions compete; five lines are enough to fill
the set, evict and return. Forty words with three live blocks and eight requests
reach all four cases of coalesce, both ends of place, growth from the epilogue,
from a free last block and by moving, exhaustion, and a second trace over old
words; the bound counts the requests of all traces together. The blocks of 16 words
are beyond what the search of four lists reaches, as requests of 2^16 bytes are in
the code.

Three frames, one of them the page table's, leave two for three pages, so that every
page is swapped out and in again in every order; `MaxFaults` 6 is two more than it
takes to fill memory and bring back what was swapped out. `MapPages` and `MaxHeld`,
two each, are what page_insert needs to map one frame twice and to map a page from
one frame to another; more pages or frames repeat this. Frames are symmetric. The
four areas touch, overlap and differ in rights, so that insertion meets its
assertions. A greeting and two tokens do not fit a socket of one, so that every
answer is written in pieces; a buffer of two takes two lines in one read. With three
clients two can be erased in one pass, which then comes back to a socket it has
closed. Eight bits hold every corner of the puzzles with a float format of four
exponent bits, and all words are tried; `conditional`'s second and third argument
take six corners. Four stabs of two types at four values are every order, tie and
gap the search tells apart, and every range of the table and every address is
searched; tables of two files add lines, parameters and included files. Three
functions in six bytes with words of three lie on, before, behind and clear of each
other. `MCTools` puts these small programs side by side because each alone asks one
question; a behaviour is of one of them.

`CHECK_DEADLOCK FALSE` is set where the program really stops: the shell exits or
crashes, the trace of the cache simulator ends, the driver reaches its last
request, the kernel halts or its script ends, the echo server stops, the small
programs end.

Fairness is assumed in three modules only. `Tsh!FairSpec`: strong fairness for the
steps of main and of each handler (a flow interrupted again and again still advances
when it is on top), for the delivery of each signal (main blocks SIGCHLD now and
then, and the kernel delivers when it is open), weak fairness for a child taking a
signal sent to it. The user need not type and a child need not end. `Proc!ProcFairSpec`:
weak fairness for get_pid, which the processor runs with interrupts off (in the run,
`MCTools!MCSpec`). `EchoServer!FairSpec`: weak fairness for the server as a whole,
one running process, and for each peer's receiving (a peer that stays and never
reads would fill its socket for good); peers need not connect, send or hang up.

## Proofs

Assumptions are those on the constants (`JobsAssumption`, `TshAssumption`,
`ProcAssumption`, `PmmAssumption`, `CsimAssumption`, `VmmAssumption`,
`AreasAssumption`, `AlignedAssumption`, `EchoAssumption`, `MmAssumption`; `Sizes` is
the hypothesis of the theorem on `Tracer`); the theorems hold for every number of
slots, pids, processes, frames, pages, ranges, sets, ways, trace lines, heap words
and requests.
`TshAssumption` has the pids finite, as the kernel's are, `VmmAssumption` the
frames, and 0, which fresh frames and slots hold, among the values of a page.

- `TshProofs`: `TypeCorrect`, `OneSlotPerPidCorrect`, `NoGhostJobCorrect`. The
  inductive invariant `ListInv` adds to the properties that an active handler is on
  the stack, that SIGCHLD is blocked and its handler idle while a fork is under way,
  and that the forked child is not listed before addjob. That is why the handler
  cannot reap between fork and addjob. `StoppedJobIsStoppedCorrect`: what a handler
  has in hand is still as waitpid reported it, because main, which alone forks and
  continues, does not run before the handler returns (`Reported`), and the window in
  which do_bgfg has continued a job it has not yet marked is named
  (`StoppedButOne`). `NoLostChildCorrect` adds that every child alive is listed or
  being forked (`AllListed`): if addjob found no slot, the slots would hold a pid
  each, all different and none of them the new child's (`FullList`). That at most
  one job is in the foreground is no theorem: the run `tsh_fg` refutes it.
- `ProcessProofs`, of `Proc`: `UniquePidsCorrect`, `FreshPidCorrect`,
  `HashMatchesListCorrect`, `ForkAccountsCorrect`. `SafeRange` says that no listed
  pid above `last_pid` is below `next_safe` among those already seen; it survives
  from one call to the next because a fork adds only `last_pid` and an exit only
  removes. The hash needs the fresh pid, and that no bucket holds a pid twice, or
  removing one would leave the other; the accounts need the room do_fork saw still
  to be there when it links the process.
- `PmmProofs`: `ListIsFreePagesCorrect`, `FullyMergedCorrect`,
  `NrFreeExactCorrect`, `NoPanicCorrect` and the refinement `PageAllocCorrect`.
  The invariant speaks of the set of heads, not of their order: listed blocks
  are apart, the block being freed is apart from every head already passed, and
  touches only heads still to come. One pass is enough because a block that
  grew by a merge ends where its neighbour ended, and that neighbour was apart
  from all the others.
- `CsimProofs`: `TypeOKCorrect`, `TagsDistinctCorrect`, `StampsDistinctCorrect` and
  the refinement `LRUSpecCorrect`. Between two turns every valid line has aged at
  least once, so that the line just used, with stamp 0, is younger than all
  others. As no two stamps of a set are equal, the number of younger lines is a
  place in the order of use, and any list of the valid lines by growing stamp is
  that order (`ListExists`, `ByAgeOfList`). A reference moves line k to the front of
  such a list: from place m when it hit, from nowhere when it was free, from the
  last place when it was evicted (`LoadedInUse`, `LoadedFree`); the sequence
  lemmas say the same of `Recent` in `LRU`. The second reference of a modify
  finds the block where the first put it, and ageing keeps every order.
- `VmmProofs`: `FindVmaIsSearchCorrect`, for every sequence of calls that inserts
  areas with integer bounds, page aligned or not. Areas stay sorted and disjoint
  although insert_vma_struct compares a new one with its two neighbours only, and
  the cached area stays one of the list; so at most one area holds an address,
  and the cache cannot change an answer.
  `RefsAreMappingsCorrect`, `QueueIsResidentCorrect`, `SwapInOnlyOfSlotCorrect` and
  `TlbCoherentCorrect` are about free runs, as a script may be any list of calls.
  Their invariant `PageInv` has three parts. `Counted` and `InUse`: a frame that
  is neither free nor the table counts its mappings, a free one has none, and
  none is lost; page_insert and page_remove are followed once for each way their
  old mapping can lie (`InsertCounted`, `RemoveCounted`), so that mapping a page
  over itself is a case and not an exception. `MappedByFault` and `FaultOpen`:
  while there is an mm every mapping was made by do_pgfault and has the rights of
  an area that covers the whole page, two pages never share a frame, and the page
  of the fault is not there; a fault the area permits can only be about such a
  page because areas are page aligned. `QueueInv` and `SlotsOwn`: queue and page
  table list the same frames, and an entry that is not present names its own
  page's slot. From them `FlatSpecCorrect`, the refinement of `FlatMemory`: a write
  reaches one page only, as no other has its frame; swapping out moves a page's
  content from its frame to its slot, swapping in moves it back into a frame that
  was free, and neither is seen.
- `EchoProofs`: `OneSocketPerClientCorrect`, `NothingLostCorrect`,
  `OwnTokensInOrderCorrect`, for any number of peers, any buffer and any room. The
  invariant has to say what the destroyed objects behind the clients name
  (`Destroyed`): the socket of the last client, or one this pass has closed, and
  the latter only once the pass is behind the last client. So an erase out there
  erases exactly the last client, whose socket it closes. `Exact` is `NothingLost`
  for the loop as a whole, `InOrder` extends `OwnTokensInOrder` to what waits in
  the buffers; they rest on lemmas on moving a piece of text from one part to the
  next and on leaving one out.
- `MmProofs`: `MmNeverRejected`, `MmDataIntact`, `MmHeapConsistent`,
  `MmGrowsOnlyIfFull`, the four properties of the run `mm`, for every size of
  the heap and of its chunks, every number of lists and blocks, every request
  and every `BigBlock`. Their only hypothesis is `GrowsIntoGap = FALSE`: with
  the realloc of `ShortGap` the first one is false, as the run `mm_gap` shows.
  The code knows its heap only by following words, so the invariant `MmInv` says
  that there are a set of blocks B, their lengths s and a set F of free blocks
  which the words agree with. `Shape`: the blocks tile the heap from the first
  to the epilogue, and header and footer of each say its length and whether it
  is free. `Linked`: a list's links lead through free blocks of its size only,
  and lead back; each block has a rank that falls along the links, so that a
  walk ends although nothing in the words says so. `Sound` adds that no two free
  blocks are neighbours, `Serves` that the allocated blocks are those the driver
  holds, large enough and filled as it filled them. Each C function has one
  lemma that says what it makes of (B, s, F) and which payloads it keeps
  (`Becomes`): insert_node and delete_node change the links of one list
  (`OnlyIn`), coalesce merges at most three blocks (`Merged`), place divides one
  (`Divided`), realloc either absorbs a free neighbour or copies into a new
  block before it frees the old one (`Reallocs`). Walks are loops of `Iterate`:
  that a search ends at the first block that satisfies it needs only the ranks.
  `MmGrowsOnlyIfFull` follows as an empty search of a list means that no block
  of it is large enough.
- `ProcessProofs`, of `Tracer`: `TraceExactCorrect`. A breakpoint saved of its
  word just the breakpoints inserted before it (`SavedIsEarlier`); writing it
  back loses none but later ones, and those are shadowed.
- `ProcessProofs`, of `Kdebug`: `SearchExactCorrect` and `InfoExactCorrect`, the
  two halves of `StabsExact` for every table, range and address. Their
  hypotheses are `Sorted` and `Layout`. `Bracket` says that every stab left of l
  begins below the address the search has reached, every stab right of r above the
  one asked for, that a stab begins at each address between the two, and that the
  region found so far ends where a stab begins. A turn keeps it. `TurnsLeft` falls
  with every turn: a turn that neither raises l nor lowers r is an exact match, and
  the next turn is none of its kind.
- `NatLemmas` has the facts they share: least elements, Min and Max, and that
  `Iterate` goes on from turn to turn (`IterateDef`, by a least counterexample, as
  the library's recursion theorem takes an operator).

Only model-checked:

- liveness (`tsh_live`, `GetPidTerminates`, the delivery of answers): fairness and
  ENABLED are out of the prover's reach;
- `SelfTestsPass` and the page properties of `Vmm` while a self-test runs: a
  self-test is one concrete list of calls, which TLC executes;
- `PuzzlesRight`, and type and verdict of the harness (`TypeOK` and `TestExact` of
  `Btest`): the words of `Bits` take their operators from `Bitwise`, which is
  recursive and which the prover cannot load;
- `StabsExact` as the run states it, about generated tables next to `Btest`; what
  it says of a table is proved of every table by the two theorems above.

## Disagreements between the source and what it says

Five are the subject of a violation run, quoted in `PROJECT.json`: the slot that fg
leaves marked FG (tsh.c:363 against the header's rule at 35), waitfg's lost wakeup
(tsh.c:377), what do_fork returns (proc.c:339 against 310 and 390-393), the order of
the free list (default_pmm.c:189 against 87-88 and 288), and the realloc over a
neighbour (mm.c:376 against mdriver.c:407). Met while modelling and not given a run:

- tsh: jobs also change state in ways the header's diagram (tsh.c:27-34) does not
  have, BG to ST when a background job stops itself or is stopped by another
  process, and FG to BG when bg is typed for a foreground job that a slot marked
  FG hides; a ctrl-c that comes before the child's setpgid is lost (tsh.c:197 against
  435-436); eval ignores addjob's failure, and a handler then dereferences NULL
  (tsh.c:414); after 1 to 4 were started and 2 and 3 ended, the second of two
  new jobs gets jid 1 again when the list has four slots (tsh.c:513).
- lab2: default_alloc_pages lists the remainder of a split without PG_property,
  which default_check asserts of every listed block (default_pmm.c:139-144 against
  256); the check runs at boot, before any page is handed out, and passes there.
- lab2 and lab3: check_boot_pgdir leaves two entries in the TLB that check_pgfault
  then relies on to be gone (pmm.c:544-547).
- lab1: where stabs of the type begin at addr, addr + 1 and so on, stab_binsearch may
  answer with a later one of them, where its comment promises the one that holds
  addr (kdebug.c:77-85 against 49-50); where all stabs of the type lie above addr it
  answers with the region before the first of them, whose left end is no matching
  stab, and not with a left end above the right one (kdebug.c:88-108 against 49-52).
  `SearchExact` says exactly when, and what it answers.
  The line is that of `stabs[rline]`, the last stab of the line's
  region, whatever its type (kdebug.c:182); an address before the first function
  of its file is searched among the file's lines, whose values are offsets.
- cache simulator: the mask of the set index is an undefined shift, and with s = 0
  it would keep every bit (csim.c:63).
- allocator: insert_node compares the halved size, so that lists are not ordered
  by size as its comment says (mm.c:122); add_range accepts a payload that
  strictly contains an older one (mdriver.c:409).
- datalab: floatPower2 returns 0 for denormal powers, and x + 127 overflows for
  the largest ints (bits.c:354 against 345-346; `PowerGap`, which
  `PuzzlesRight` shows to be all); btest's get_num_val tests the value behind
  its pointer, so that an integer argument given twice is refused; the alarm is
  not cancelled (btest.c:357-364); the exhaustive case of gen_vals admits one
  value more than its array has (btest.c:198), which no range of decl.c meets.
- echo server: the loop erases from the vector it iterates over
  (echo_srv.cc:204).

## Not modelled

What is left of the repository, with reasons, is in `PROJECT.json`. In short:

- malloclab's timing (fcyc.c, clock.c, ftimer.c): results are cycle counts; its
  only state is a sorted insertion.
- cachelab's transposes: loops over fixed sizes whose difficulty is the layout
  of arrays in memory.
- lab1's trap_dispatch and the mode switch: they rewrite the frame the processor
  returns through, by assembly that is not in the repository. The context switch
  of lab4 (proc_run, copy_thread) for the same reason: it moves registers, and
  only one child process ever exists.
- lab2's segment descriptors, boot_map_segment and start-up run once, before
  anything else; printing of the page directory keeps no state.
- launcher and exploit of the echo exercise, driver scripts, attack_lab,
  bomb_lab, arch_lab, IOT: no state of their own, binaries, or documents.
- mdriver's eval_mm_util, eval_mm_speed and the libc evaluation: the same calls
  without the checks.

What could be added: an instance of `Jobs` alone with four slots for the repeated
jid.
