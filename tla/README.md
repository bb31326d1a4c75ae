# LightNightOS: a verification project in TLA+

The repository is a collection of study notes; the one program in it with a
life of its own is the kernel `src/OS/OS`, a 64-bit toy operating system
("LightNightOS") that boots from a disk image under QEMU, takes memory from
the BIOS map, and runs a shell on a text console. It also has a cooperative
scheduler, compiled in but with its calls in `kernel_init` commented out, and
the beginnings of a file system that the Makefile does not link. This
directory models the parts of that kernel that have state worth reasoning
about, checks the models with TLC, and proves the central results with TLAPS.

Paths below are relative to `src/OS/OS/src/`.

## 1. Inventory

| part | code | state | operations | what is hard |
|---|---|---|---|---|
| memory map, page initialisation | `boot/boot.asm` (read_e820), `kernel/memory.c` 28-147, 346-390 | the E820 buffer, its copy, the `struct Page` array, heap bounds | read_e820, init_memory_map, init_page | maps in any order, partial pages, entries that end the copy |
| page list | `kernel/memory.c` 149-188 | free_pages_list, total_free_pages, ref_count | alloc_page, free_page | double listing, loss, unsigned underflow |
| heap | `kernel/memory.c` 190-344 | block headers in memory, malloc_head | malloc, free | splits and merges in place, holes between pages |
| scheduler | `kernel/scheduler.c`, `kernel/context_switch.asm` | g_procs, g_current, g_next_pid, stacks | process_create, scheduler_start, process_yield, process_exit, process_wrapper | slot reuse, exit on a freed stack, failed idle, fairness, stack pointer |
| console | `kernel/console.c` | VGA text, tty buffers and cursors, history ring, view state, screen_backup | print_char, clear_screen, vt_switch, cursor moves, history view, scrolling | ring arithmetic, a view that outlives a switch, deferred wrap |
| shell | `kernel/shell.c` (`lib.h`) | cmd_buffer, cmd_pos, cursor_pos, cmd_history, history_current, saved_cmd | shell_process_input, history_show, parse_arguments, execute_command | buffer, length, cursor and screen kept apart |
| keyboard | `kernel/keyboard.c` | none of its own; the controller's queue | keyboard_init, keyboard_handler_c (IRQ 1) | runs between any two instructions of start-up; a byte left unread silences the line |
| interrupts | `kernel/interrupt.c`, `interrupts.c`, `isr.asm`, `timer.c` | IDT (two of them), PIC masks, tick | gates, exception screen, timer, acknowledgement | the second `lidt` drops the first table |
| start-up | `kernel/kernel.c`, `kmain64.asm` | how far it has got | kernel_init | interrupts are on before shell_init ends |
| files | `kernel/fs/fs.c` | inode table, descriptor table | fs_create_file, fs_create_dir, fs_open, fs_close, fs_write, fs_read | descriptor 0, storage fixed by the first write, files opened before they exist; not linked |
| block cache | `kernel/fs/block.c` | 64 entries, 16 blocks of storage | block_read, block_write, block_clear, block_free, flush | counts only go up; memcpy's direction; not linked |
| inode cache | `kernel/fs/inode.c` | 256 entries | inode_read, inode_write, inode_delete, inode_add_block, inode_remove_block | counts only go up; entries reused with another's data; not linked |
| directories | `kernel/fs/dir.c` | none | log or allocate | - |
| boot loader | `boot/mbr.asm`, `boot.asm` | page tables, GDT | mode switches, disk reads | straight-line machine set-up |

How they interact. `kernel_init` runs the start-up calls in order. `init_page`
feeds the page list, `malloc` takes pages from it and never gives one back
(`free_page` has no caller). `process_create` takes a stack from `malloc`, and
`process_exit` frees the stack it stands on. After `sti` the keyboard
interrupt is the only thing that runs: its handler calls
`shell_process_input`, which prints through the console; Up and Down go to the
shell's history, F1 to F4 to `vt_switch`. Nothing preempts kernel code except
that handler and the timer's counter (the gates are interrupt gates, so
handlers do not nest; `scheduler_tick` returns at once).

What makes each part correct:

- *pages*: a page is on the list exactly when nobody has it, and once;
- *initialisation*: the list holds the whole pages of RAM and no others, in
  the order and within the bounds the heap relies on, and mapped;
- *heap*: blocks never overlap; an owner keeps its block; what is handed out
  is memory; free neighbours are merged; no request fails or takes a page
  while a block fits; calls return;
- *scheduler*: the table and the processor agree; stacks and pids are
  unshared; idle runs only alone; yields take turns; a READY process runs; a
  process may return from its entry function;
- *console*: the screen is the active terminal (or the history view, with
  the terminal in the backup); terminals are independent; the view shows the
  lines that left the screen;
- *shell*: buffer, length, cursor and screen describe one line, which is the
  line an editor would hold;
- *start-up and interrupts*: whatever can be raised while interrupts are on has
  a gate and is acknowledged; an exception is shown; no key gets stuck in the
  keyboard controller; what is typed once the shell is set up is its line;
- *files*: a descriptor names one slot, with the file it was opened on, until it
  is closed; what is read is what was last written;
- *caches*: a block or an inode is in one entry; what is cached stays, and a
  call for one leaves the others alone; an inode's count of blocks fits its
  blocks.

`PROJECT.json` lists the hazards behind these at their lines.

## 2. Modules

| module | models | kind |
|---|---|---|
| `Pages` | alloc_page, free_page over the list init_page leaves | component |
| `Heap` (EXTENDS Pages) | malloc, free, an action per loop iteration | component, composes Pages |
| `AbstractHeap` | an allocator of disjoint regions | abstract specification |
| `PageInit` | read_e820, init_memory_map, init_page | component |
| `Scheduler` | scheduler.c and the switch | component |
| `AbstractScheduler` | pids, who is alive, who runs | abstract specification |
| `Console` | console.c | component |
| `Shell` | shell.c's line editor, history and parsing | component |
| `Startup` | kernel_init with the interrupts that cut in: interrupt.c, interrupts.c, keyboard.c, timer.c, shell_init | component, composes those |
| `FileSystem` | fs.c: inodes and descriptors | component |
| `BlockCache` | block.c | component |
| `InodeCache` | inode.c | component |
| `AbstractEditor` | a line, a cursor, a past and a draft | abstract specification |
| `Library` (EXTENDS Pages, FileSystem, BlockCache, InodeCache) | what the kernel has and does not call, side by side | composition |
| `MCx` | constants for TLC | instances |
| `Numbers` | facts about integers: remainders, quotients, multiples, the least of a set | lemmas |
| `HeapProofs`, `PageInitProofs`, `SchedulerProofs`, `ConsoleProofs`, `ShellProofs`, `StartupProofs`, `LibraryProofs` | theorems | proofs |

Operators whose comment says *faulty* are plausible mistakes in the code;
`PROJECT.json` pairs each with the property that catches it, and no
specification uses them.

### Pages

`free_pages_list` is the linked list as a sequence, `ref_count` the field of
`struct Page`. A page is named by its virtual address, so NULL is never one.
`AllocPage(p)` pops p; `FreePage(p)` is the unsigned decrement (`Dropped`, mod
`RefModulus`) with the test for 0 after it. `PagesNext` lets callers free only
pages they hold; that a further free would wrap the count is in `Dropped`, and
the code has no caller that does so.

### Heap

`hdr` maps each address with a reachable header to that header; a merged
header leaves its domain. A call of malloc is `MallocStart` (or `MallocFirst`,
which takes the first page), a `MallocSkip` for each block that does not fit,
then `MallocTake`, `MallocGrow` or `MallocFail`. A call of free is `Free`, then
`Merge`/`MergeSkip` per iteration and `MergeDone`. `pc`, `current`, `prev` and
`req` are the loops' locals. The steps of a call never interleave with another
call (no handler allocates), hence `pc = "idle"` in the guards of the first
ones; they are steps so that properties see every state inside the loops.
`live` is a ghost: what each owner asked for. `HeapEnd` is the end of the last
page, the least value init_page can give it (the `PageInit` run shows that the
real bound is at least that over a sorted map). The two statistics counters
are left out; a request that is refused at once changes nothing and is not a
step.

### PageInit

The BIOS map is the initial state and each of the three functions a step:
`InitMemoryMap` copies up to the first later entry that is empty or of type
over 4, `InitPage` counts the whole pages of the RAM regions, puts the
`struct Page` array at the start of the first region it fits in, chains the
pages and computes the heap's bounds. Without room for the array it returns
early. `ReadE820` is the buffer the kernel finds: the entries, and in the one
behind the last the 1 that read_e820 has put there before its last call.

`PagesAreRam` is stated over that buffer, not over the kernel's copy of it. What
it asks beyond containment in RAM (no page reaches into a region of another
type, none is chained twice) it asks of maps whose regions do not overlap, in
whatever order: init_page takes each region by itself, so where the BIOS lists
overlapping ones both do happen. A page of RAM may be missing only where the
copy has ended before it.

### Scheduler

A process is a record of state, pid, stack, whether it is idle, whether its
context was saved by a switch, and `sunk`: how many words its stack pointer is
below where its code believes it to be. `context_switch_asm` saves rsp at its
return address and resumes with a jump that leaves that word on the stack, so
each resume of a saved context sinks it by one (counted up to `StackWords`).
Because nothing preempts, one call into the scheduler is one action. malloc is
what `Heap` promises: a stack nobody owns, or a failure at any time. A failed
`process_create` changes nothing and is no step. `ReturnAstray` is an entry
function that returns with `sunk > 0`: what it jumps to is arbitrary, so the
machine is `"lost"` and nothing more is said. With `sunk = 0` a return reaches
`process_wrapper` and is one of the exits.

### Console

`vga` is the visible text, `tty_buf` the terminals' copies, `lately` a ghost
(the last lines saved, in order). `PrintChar` is the whole of
`print_char_color` with leaving the history view, the wrap, the write, the
tab, the scroll and `clear_screen`'s or the scroll's saving of lines. The wrap
is deferred: a character printed with the cursor past the last column goes to
the next row, and on the last row to one cell past the buffer, which the model
places as the linked kernel does: in the next terminal's first cell, or past
`tty_buf` in the cursor variables that the scroll overwrites at once. Which
variables lie behind `tty_buf`, so that for the last terminal nothing else is
hit, is the linker's choice and taken as it is. Moving the cursor off the top or
bottom row opens or moves the history view; the view's prompt is a row of
`PromptCell`s, which come back as they are when that row has itself been saved.

Each call is one step. That is exact once shell_init is through, since all
printing is then done by the keyboard's handler; before that the handler can
cut into shell_init's prints, between `sti` and their end, and print or switch
terminals there, which is not modelled.

### Shell

One action per key that `shell_process_input` handles, and `SwitchTerminal` for
F1 to F4. `screen` is the console as far as the shell uses it: what the cells
show, the cursor's position, and `full`, which is the console's deferred wrap
(the cursor is still after the last column of a row that a print has filled).
The operators on it are console.c's: `Printed`, `Left` and `Right` move over the
margins as if the rows were one; `Fed` is a line feed, which puts the cursor
below its row and *clears nothing*, and then n rows of output; `Output` scrolls
when it comes to the last row; `Cleared` is clear_screen. Cells above the prompt
are `Earlier`: what they show is not told apart.

`Enter` is history_add, parse_arguments (which cuts `cmd_buffer` in place with
NULs), the command's output and the reset: a line of blanks gets a line feed and
no prompt, any other line may be `clear`, or print 1 to `OutputRows` rows and the
prompt. `EnterNothing` prints the line feed and the prompt over whatever is there.

The screen is followed up to its last cell. A character printed there is what
finding 4 is about, and a terminal switch puts another text under the line: from
then on nothing is said of the screen (`Lost`) until `clear` empties it. The
buffer, the length and the history go on as before.

`base`, a ghost, is where the line began. `ScreenShowsLine` says that a line that
is seen as it is (`LineSeen`: behind its prompt, nothing after it, the cursor
where the next key will act) stays so with every key. One key is excepted besides
leaving the followed screen: Up or Down with the cursor inside the line.
`history_show` then steps back by the whole length of the line from wherever the
cursor is, and paints over the prompt or the row above. Of what comes after it
the property promises nothing until a line is seen as it is again, for an Enter
does not mend it by itself: with "abcdefgh", Home, Down (an empty draft) and Enter
the prompt is printed on the old line's row, and the screen reads `> abcdefgh`
beside an empty line. `clear` mends it, and so does a prompt on rows that are clear.

Behaviour the model follows and no document mentions: Up starts at the oldest
entry; `history_current` is not reset by Enter, so the next Up goes on from
there; the draft kept when recall begins is read from a buffer that
`parse_arguments` may have cut, so for an empty line it can be the first word
of the last command (`Leftovers` in `AbstractEditor`).

### Startup

`step` is the call kernel_init is at: the calls that share state with a handler
are steps, those that do not (timer_init, init_memory) go with the next one.
shell_init's assignments to the variables the handler uses are the set
`unset`, taken in any order, because none of them is volatile and the compiler
may store them as it likes; an interrupt may come between any two.

The machine around the code is external and as the code uses it. `pic` is the
pair of interrupt controllers (base vector, mask, requests, in service): a
request is made by an edge, initialising it forgets the requests and makes no
new one for a line that is high, and what is in service shuts out its own and
lesser lines. `queue` is the keyboard controller, which raises its line when a
byte reaches its output. `idtr` names the table loaded last and `Gates` the
vectors each table has; a vector without a gate resets the machine (what
follows, a general protection fault and a double fault, has no gate either).

The handler reads one byte per step, so that keys can come between two, and
acknowledges in a step of its own. A tick, the keys and an exception may come
at any time. `typed` (the letters given to the shell) and `caught` (one was
given before shell_init was through) are ghosts: for a key in that window the
code promises nothing, and the model shows why, for it can be kept, lost, or
leave the buffer and the length apart.

### FileSystem

An inode has an id, a size, its data and `room`, what was asked of malloc for
them; a file's data is one value of `Data`, repeated, since fs_read and
fs_write always begin at byte 0. A write past `room` sets `overrun`, for what
it damages is the heap's (the model then says nothing more about the inodes).
`held` and `written` are ghosts: the descriptors callers have, and what each
inode was last given. Every call is allowed with any descriptor, also ones
that are closed or 0: 0 matches the first slot not in use and wraps its count.

### BlockCache and InodeCache

An action per function; the loops that look for an entry are `FirstOf` and
`FirstEntry` over the set they look for. lib.h's memcpy takes the source
first, block.c passes the destination first, so each copy of block.c is
modelled in the direction it really has: `BlockReadHit` puts the caller's
buffer into the entry, `BlockReadMiss` also writes the entry to storage,
`BlockWrite` leaves the entry's data alone, the flush fills entries from
storage. Blocks past the 16 that are stored lie over other memory: what is
read from there is anything. `inode_read` of an inode that is not cached gives
an entry with the data it had, and the caches' static entries start as zeros.
`BlockNums`, what callers add to an inode and remove from it, has the free mark
0xFFFFFFFF (`NONE`) too, which inode.c does not refuse: adding it leaves a free
place free and raises the count, removing it lowers the count.

No property takes a side on the direction of the copies: `BlocksKept` is about
entries, counts and that a call for one block leaves the others' entries, data
and storage alone. `InodesKept` says the same of inodes, and that the count of
blocks is the number of direct blocks in use in the entries of `made`, a ghost:
those whose data stems from inode_create, by however many writes, copies and
reuses of the entry, and was not changed by a call for the free mark. In the
others, static entries and those, the code's count is wrong: see the notes
after the findings.

## 3. Runs

| run | instance | shows |
|---|---|---|
| `heap` | two adjoining pages of 256 bytes, requests 0, 33, 72, 104, 105 (295k states) | TypeOK, NoOverlap, OwnersKeepBlocks, LiveInRam, Coalesced, SearchComplete, AllFreedIsOneBlock, CallsReturn, Heap implements AbstractHeap |
| `heap_hole` | two pages with a hole | **violated**: LiveInRam |
| `page_init` | all maps of up to 3 of 21 regions over eight pages, and maps of 5, longer than the buffer (31k) | InitTypeOK, PagesAreRam, PoolAscending, HeapCoversPages, ArrayApart |
| `page_mapped` | 2 GB at 1:2^15 beside 1 GB mapped | **violated**: PagesMapped |
| `scheduler` | 3 slots, 4 stacks, 5 pids (38k) | SchedTypeOK, OneRunning, StacksOwned, PidsDistinct, IdleAlone, NearerTurn, ReadyRuns, refinement |
| `scheduler_return` | the same | **violated**: EntryReturnsToWrapper |
| `console` | two terminals of 2x2 cells, ring of 2 lines (732k) | ConsoleTypeOK, ScreenIsTerminal, TtysIsolated, ViewShowsHistory |
| `console_print` | the same | **violated**: PrintedIsShown |
| `shell` | lines of 3, history of 2, 2 words, a screen of 2 rows of 3 cells, 1 row of output (1.03M) | ShellTypeOK, LineEnds, ScreenShowsLine, refinement of AbstractEditor |
| `startup` | three keys, a controller of two bytes (56k) | StartupTypeOK, InterruptsServed, LineIsTyped, KeysTaken |
| `startup_exception` | the same | **violated**: ExceptionsShown |
| `library` | five pages; 3 inodes, 2 slots, 3 descriptors; 3 blocks, 2 entries; 3 inodes, 2 entries, 2 direct blocks, the numbers 0, 1 and the free mark (727k) | LibraryTypeOK, ListedOnce, DescriptorsOwned, ReadsBack, BlocksKept, InodesKept |

`library` has the four parts that nothing in the kernel calls. They share no
state, so each behaviour picks one by its first step; one run does for all.

Bounds, and why they are enough:

- *Heap.* 256 bytes is about the smallest page for which the limits of malloc
  (a header and 128 bytes off the page) leave room for requests. The sizes are
  one that is rounded up, one that leaves a rest too small to split, the
  largest and the first refused; two pages give every case of the list (first,
  middle, last block, block before a page boundary) and exhaust the pool.
- *Pages.* `RefModulus` 4 stands for 2^32: counts are 0 or 1, and the wrap is
  where it should be.
- *PageInit.* Three regions and eight pages of four bytes give regions that
  begin and end at, just off and far off boundaries, adjoin, overlap, come
  out of order and stop the copy; five regions are more than the buffer of
  three (`E820_MAX_ENTRIES`) that init_memory_map reads. `page_mapped` keeps the proportions of the
  machine in the Makefile (`-m 2G`; 1 GB mapped by boot.asm).
- *Scheduler.* Three slots are the fewest in which round robin can pass one
  over; four stacks let the table fill before the heap; `MaxPid` bounds the
  processes callers create (idle may get one more) and lets every slot be reused.
- *Console.* 2x2 cells have a first and a last row and column. `ColModulus`
  (256 in the code) bounds the tab. A letter is printed only when no
  terminal has it (`Nowhere`), so that it can be followed.
- *Shell.* Four bytes of buffer have a line that is empty, has an inside and
  is full; `MAX_ARGS` 3 lets a line have more words than are cut; a blank is
  typed into a line with fewer than `MaxBlanks`. Rows of three cells (`Width`)
  leave one for the line beside the prompt, so that a line wraps and its first
  row is filled exactly; two rows (`Rows`) have a first, where stepping back too
  far stops, and a last, where output scrolls (`OutputRows` 1, every time the
  line is there) and the screen's end is near. `BannerRows` 0 begins in the corner.
- *Startup.* Three keys can come one each before, during and after any step;
  a controller of two bytes has a byte waiting behind the output and drops a
  third. `MAX_CMD_LEN` has room for all of them (the full line is Shell's).
- *Library.* `MaxFd` 3 over two slots has every slot reused and a table that is
  full; three inodes are the root, the one of "test.txt" and the one of
  "mydir"; writes of one and two bytes are shorter and longer than a first
  one. `FdRefs`, `BlockRefs` and `InodeRefs` (all 3) stand for 2^32: the wraps
  are reached, and the properties that hold until then say so. Two entries for
  three blocks or inodes make the caches full; two direct blocks fill up, and
  `BlockNums` has two blocks and the free mark.

Deadlock is checked except in `page_init` (start-up ends), the scheduler
(idle only halts, and a lost machine stops) and `startup` (the panic screen
and a reset are for good).

Fairness. `Heap` has `WF(Step)`: a call, once made, runs on, since nothing
preempts it for good. `Scheduler` has `WF(ProcessYield)`: the functions written
for it in `kernel.c` call `process_yield` in their loops. Creation is bounded
by `MaxPid`: without end to it `process_exit`, which picks the lowest slot,
could pass others over, which is why `ReadyRuns` says no more than it does.
`Startup` has weak fairness for a handler's steps and the timer's interrupt,
which nothing delays, and strong fairness for the start-up's own steps and the
keyboard's interrupt: a tick may come in between, but ticks are 10 ms apart,
which leaves time for both. There is none for keys, ticks or exceptions.

## 4. Proofs

All for every value of the constants under the ASSUMEs of the modules (sizes
are natural numbers, pages are aligned to 8, the page is larger than a header
and malloc's reserve, the end of a string is no letter, the prompt is
shorter than a row of the screen and a line takes two rows at most). Every safety invariant,
every action property and every refinement that a passing run checks is among
them. TLC found each formula to hold first.

| theorem | assumes | says |
|---|---|---|
| `PagesSafe` | the pool's pages are distinct | PagesSpec => [](PageTypeOK /\ ListedOnce) |
| `HeapSafe` | the pool ascends | Spec => []TypeOK, NoOverlap, OwnersKeepBlocks, Coalesced, SearchComplete (one by one: `HeapTyped`, `HeapKeepsOwners`, `HeapCoalesces`, `HeapSearches`) |
| `HeapTiles` | it ascends without holes | Spec => []LiveInRam, AllFreedIsOneBlock (`HeapReturnsToOneBlock`) |
| `HeapImplements` | the pool ascends | Heap implements AbstractHeap |
| `SchedulerSafe` | - | Spec => []SchedTypeOK, OneRunning, StacksOwned, PidsDistinct, IdleAlone (`SchedulerTyped`, `SchedulerAgrees`, `SchedulerNames`, `SchedulerIdles`) |
| `SchedulerTurns` | - | every switch by process_yield brings each READY slot nearer its turn |
| `SchedulerImplements` | - | Scheduler implements AbstractScheduler |
| `InitTyped`, `ListIsRam` | maps are sequences of regions | Spec => []InitTypeOK, PagesAreRam (of the map the BIOS reported) |
| `ListAscends`, `ListAdjoins` | the same | Spec => []PoolAscending, PoolAdjoins |
| `HeapBounds`, `ArrayKeepsApart` | the same | Spec => []HeapCoversPages, ArrayApart |
| `ConsoleTyped`, `ScreenFollowsTerminal` | - | Spec => []ConsoleTypeOK, ScreenIsTerminal |
| `TerminalsIsolated`, `HistoryShown` | - | Spec => TtysIsolated, ViewShowsHistory |
| `ShellTyped`, `LineAlwaysEnds` | `ShellAssumption` | Spec => []ShellTypeOK, LineEnds |
| `LineShown` | the same: the longest line, with the prompt and its NUL, is at most a cell longer than two rows | Spec => ScreenShowsLine |
| `ShellImplements` | the same | Shell implements AbstractEditor |
| `StartupServes`, `StartupKeepsLine`, `StartupTyped` | the line has room for the keys | Spec => []InterruptsServed, LineIsTyped, StartupTypeOK |
| `FilesSafe`, `FilesReadBack` | counts can be 2 | FilesSpec => []DescriptorsOwned, ReadsBack |
| `BlocksSafe` | counts can be 1 | BlocksSpec => BlocksKept |
| `InodesSafe` | counts go past the direct blocks; any block number, the free mark too | InodesSpec => InodesKept |
| `LibrarySafe` | the pool's pages are distinct | LibrarySpec => []LibraryTypeOK and the properties of its four parts |

`Ascending` and `Contiguous`, which the heap's theorems assume of the pool, are
what `PageInit` is about: `ListAscends` proves the first over every sorted map,
`ListAdjoins` the second where one region of it has all the whole pages; the
run `heap_hole` shows that `HeapTiles` needs it. That a map is sorted is left to
the BIOS, as in the code: each of those properties names it as its condition,
but for `ListIsRam`, which asks only that
regions do not overlap, in any order, and of containment in RAM not even that.

*Pages.* PageTypeOK and ListedOnce are inductive together.

*Heap.* `IInv` adds to the checked invariants what makes them inductive: the
list is sorted by address and `next` is the nearest successor (`ListOrder`);
the page list is a suffix of the pool and blocks lie in the pages before it
(`PageList`); block sizes (`Sizes`); what the loops have established behind
their cursors (`Cursors`: nothing passed over fits; `Behind`: nothing passed
over can be merged); and, without holes, that blocks follow one another
(`Tiling`). There is a lemma for each action. `Sizes` is why `free` refuses
none of its own blocks: a block that is in use is no larger than a page.
For the refinement, the block a search ends with is apart from every owned
one (`AllApart`).

*PageInit.* `PageInitAssumption` says that maps are sequences of regions with
natural numbers for address, length and type (in the code, unsigned fields),
that a page and the buffer are not empty and that a descriptor has a size.
`InitInv` says of each stage what has been computed: `MapsRead` that the copy is
what `KeptLength` takes of the buffer, `Untouched` that nothing else has been
set, `SetUp` what the list, the array's address and the heap's bounds are. What
is hard is what the list then *is*, since `Chained` flattens the regions' pages
with a recursive function, and the library's induction theorems cannot be
used. An induction of its own takes their place: a set of counter-examples
has a least element (`LeastNatural`), and the recursion's one step refutes it. It
gives the members of the list (those of the regions' pages, `PageIn`) and that
the list is spaced by a page if the regions are sorted (`ChainedSpaced`) and has no
page twice if no two regions share one (`ChainedDistinct`).
`HeapCoversPages` and `ArrayApart` follow from these, and `PoolAdjoins` too: the
page after a listed one lies in the region, is listed, and there is no place for
it but the next.

*Scheduler.* `Sound` states the invariant of a table, so that it can be said
of the intermediate tables inside an action too (a cleared slot before idle is
created). `IInv` adds that idle is in the table only once the scheduler has
started. `SchedulerTurns` needs that the slot chosen is the nearest READY one
(`FirstAfterFacts`, by well-founded induction on the distance).

*Console.* `ConsoleInv` adds to the types and ScreenIsTerminal that the ring
holds the lines saved last in their order, up to the next place to be written
(`Ring`), and that the view is never further back than there are lines
(`InView`). `SavedRing` shows that saving any number of lines, wrapping as often
as it may, keeps `Ring`: of the lines that go to one index the last stays
(`LastHit`, from `ModApart`: two places with one index are a ring's size apart).
`RowOfView` then reads a row of the view back through the ring to the line saved.

*Shell.* `ShellInv` is the invariant: `LineOK` (the buffer, its last NUL and,
for a line that is not empty, that its first NUL is where the length says),
`HistoryOK` (the ring), `ScreenOK` (there is room to go to the end of the line
before the screen's last cell, the cursor is after a full row only at the end of
the line, and a line begins at a row's start or after a prompt) and `Leftover`,
which only the refinement needs: beside an empty line the buffer holds nothing or
a first part of the last command, as parse_arguments left it, which is what the
abstract editor lets a draft be. `Kept` is ScreenShowsLine's step, proved beside
the invariant. For an edit or a recall from the end of the line it comes from what
each operator of the console does to the cells (`PrintedFact`, `LeftFact`,
`RightFact`, `RedrawnFact`, `ReplacedFact`). For Enter it is that rows of output
end below the line: one from inside its first row gets to the second with the
line feed and below it with a row of output, since a line takes two rows at most
(`FedFact`, `FedShows`); a line of blanks needs no more than to be blank, and for
an empty one the next row is clear already. Then the prompt is printed on clear
rows (`PromptShows`), also where the screen has scrolled (`OutputFact`).

Each action changes the buffer by a few operators
(`Opened`, `Closed`, `Inserted`, ...), and lemmas about them say what each
does to the string and where it ends; where StrEnd is a minimum the proofs use
`EndsAt`, which says the same without one. For the refinement the line of the
editor is cut out of the buffer by `Line`, and each action is shown to take it
where the editor's action does.

*Startup.* `IInv` adds `Staged` (the second table is loaded and the controller
set up before interrupts can be on, which is why every request finds its
gate), `Counted` (what was typed and what is still in the controller are no
more than the keys pressed, so that the line never fills) and `Early` (before
shell_init is through, a letter has been noted in `caught` or there is none).
The proof is in two halves, devices and line, with a lemma for each action
that disturbs one.

*Files.* `DescriptorsOwned` is inductive with the types and `Numbered`:
descriptors held are between 1 and next_fd, so that a new one is nobody's and
a close of 0 can only hit a slot nobody holds. `ReadsBack` needs `WrittenInv`
besides: an inode's size, data and room are those of what was last written.

*Caches.* `OneEntryEach` is inductive with the types: until a count wraps, a
search for an entry to fill never takes one that carries a block, and every call
but the flush replaces one entry that carries its own block or none
(`EntryReplaced`), which is `BlockStep`. For the inodes `OneInodeEach` says the same
of ids and counts. The block count goes with the set of direct blocks in use,
which gains or loses one element (`AddCounts`, `RemoveCounts`); a call for the
free mark is where it does not, and takes the entry out of `made`.

*Library.* `LibraryInv` joins the four invariants. A step of one part leaves the
variables of the others alone, and each invariant's step lemma covers that
stutter, so that nothing is proved twice.

Model-checked only: the liveness properties CallsReturn, ReadyRuns and KeysTaken
(liveness under fairness and ENABLED are out of the prover's reach). What the
runs that expect a violation refute has no theorem, for it is false. The proofs
about Shell use of parse_arguments' cuts only that they put NULs into the buffer
and leave the rest alone; which words it finds is not stated by a property.

## 5. Findings

1. **Merging across a hole** (`kernel/memory.c:328`). free merges list
   neighbours without comparing addresses. Where the map has a hole between
   pages, the merged block spans it and malloc hands out bytes that are not
   memory.
2. **Pages that are not mapped** (`kernel/memory.c:85`). The list holds every
   page of RAM, boot.asm maps 1 GB, the Makefile gives the machine 2 GB.
   alloc_page clears the page it returns through the mapping.
3. **A resumed process cannot return** (`kernel/context_switch.asm:24`). Each
   resume leaves rsp one word low, so an entry function that yields and then
   returns does not get back to process_wrapper.
4. **The character that wraps on the last row is lost**
   (`kernel/console.c:292`) and lands in the next terminal's buffer.
5. **Exceptions are not shown** (`kernel/interrupt.c:86`). interrupt_init loads
   a table of its own over the one with the exceptions' gates, so from then on
   an exception resets the machine; isr_handler's screen is never seen.

Met while modelling fs/, which is not linked, and modelled as it is:

- block.c passes memcpy's arguments in the C library's order, and lib.h's
  memcpy takes the source first (`kernel/fs/block.c:36`): block_read fills the
  cache from its caller's buffer, block_write overwrites its caller's buffer, and
  the flush fills the cache from storage. The comments say "Read block" (line 29),
  "Write block" (67) and "Flush cache to disk" (149). The model copies the way the
  code does and no property takes that for what is wanted.
- No count in either cache is ever lowered (`block.c:37`, `inode.c:66`), so a
  cache that is full stays full until blocks are freed or a count wraps.
- A static entry of the inode cache says its twelve blocks are all block 0 and
  counts none (`inode.c:11`), so its first inode_add_block fails and
  inode_remove_block of block 0 wraps the count.
- inode.c takes the free mark 0xFFFFFFFF for a block number like any other
  (`inode.c:138`, `inode.c:157`): inode_remove_block of it finds a free place and
  lowers the count, to 2^32 - 1 for an inode without blocks. block_allocate is
  written to return it when no block is free.
- A second, longer write goes past the file's storage (`fs.c:261`).
- Closing descriptor 0 makes a free slot unusable (`fs.c:240`).

## 6. Not modelled

- *Keyboard*: the path while the shell is inactive (letters are echoed, arrows
  move the cursor) changes only the screen and cannot run after shell_init.
  What F1 to F4 leave on the screen under a line being typed needs Shell and
  Console composed: Shell has the key, and follows the screen again after `clear`.
- *Console*: colours, the CRT cursor, `vprintk`'s formatting, and the keyboard's
  handler inside shell_init's prints.
- *Shell*: of what the three commands print, all but how many rows it takes; what
  a line looks like once it has come to the screen's last cell; `shell_stop` (never
  called).
- *Memory map*: what lies in low memory besides the `struct Page` array (the boot
  loader's structures, the kernel's image), and read_e820 running over what follows
  its buffer.
- *Scheduler*: `scheduler_tick` (returns at once), the getters. That
  process_exit stands on the stack it has freed while malloc writes headers
  needs Heap and Scheduler composed, down to the frames on a stack.
- *Interrupts*: the panic screen's layout; the tick count, which nothing reads.
- *Files*: fields nothing reads (type, permissions, links, a descriptor's mode
  and offset, the superblock), the two block functions of fs.c that have no
  caller, and an fs_init that failed. *dir.c* keeps no state.
- *Boot loader* beyond read_e820: straight-line set-up.
- *OS-1, OS-2, hello_world*: programs that print and halt. The rest of the
  repository is notes, reports and data.

## 7. Plan

Order of the whole project, most important first; the first seven are done.

1. `Pages`, `Heap`, `AbstractHeap`, with proofs.
2. `Scheduler`, `AbstractScheduler`, with proofs.
3. `PageInit`, with proofs.
4. `Console`, with proofs.
5. `Shell`, `AbstractEditor`, with proofs.
6. `Startup`, with proofs: the handlers between any two steps of start-up.
7. `FileSystem`, `BlockCache`, `InodeCache`, with proofs.
8. `Kernel`: Heap and Scheduler composed, for process_exit on a freed stack.
9. `Terminal`: Keyboard, Shell and Console composed, for the line under a
   terminal switch, at the screen's last cell and in the history view, and for
   keys inside shell_init's prints.

Theorems worth proving next: the composed invariant of Kernel (no header is
written into a stack in use), and `Contiguous` for pools of several regions that
adjoin at page boundaries.
