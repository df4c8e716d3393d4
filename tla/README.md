# A verification project for SNU_projects

The repository collects system programs of several courses. The largest
concurrent one is **eOS** (`MiniOS/eOS_student`),
a small real-time kernel that runs as a Linux process. The rest are a shell
(`shlab`), a memory allocator (`malloclab`), RISC-V processors and a cache
simulator (`CPU-cache`), data structures (`data-structure`) and a debugger
(`snudebugger`).

How to run: `tlc -config <cfg> <module>` for the runs listed below, `tlapm
<module>` for the modules whose name ends in `Proofs`. PROJECT.json lists runs,
the source lines of every definition, hazards and theorems. Definitions marked
*Mutant* are plausible mistakes; no specification uses them, they exist to show
that each property can fail.

## Inventory

| part | state | operations | hard behaviour |
|---|---|---|---|
| eOS scheduler `core/scheduler.c` | ready group byte, 8-byte ready table | set, unset, highest | byte tables, group and table must agree |
| eOS tasks `core/task.c` | ready queues, current task, task states | create, schedule, sleep, wake up | context switch in the middle of calls |
| eOS timer `core/timer.c` | alarm queue sorted by expiry and priority | set alarm, tick | handlers switch tasks while the queue is being walked |
| eOS semaphores `core/sync.c` | count, wait queue | acquire (at once, timed, blocking), release | stale wait nodes and alarms, stolen tokens |
| eOS condition variables `core/sync.c` | wait queue | wait, notify | stubs: nothing waits |
| eOS message queues `core/comm.c` | ring buffer, two semaphores | send, receive | copying is not atomic |
| eOS HAL `hal/linux` | interrupt flag, pending bits, contexts | save, restore, deliver | interrupts in kernel code |
| shell `shlab/shlab/tsh.c` | job table, process groups | eval, bg/fg, signal handlers | handlers race the main loop and each other |
| allocator `malloclab/mm.c` | heap of tagged blocks, segregated free lists | malloc, free, realloc | coalescing, headers and lists must agree |
| caches `CPU-cache/WonhoLee_Lab4` | two levels, queues, memory controller | access, fill, evict, write back, back-invalidate | ordering of queues, inclusion, lost dirty data |
| processors `CPU-cache/WonhoLee_Lab1..3` | pipeline registers, register file, predictor | one clock | hazards, forwarding, flushing |
| deque, BST, red-black tree, B-tree, hash table, heap, graph `data-structure` | the structure | insert, remove, find | rebalancing, tombstones, resizing |
| debugger `snudebugger/snudbg` | breakpoints and the saved bytes | break, continue, step, write | patched text and program counter must agree |

What makes each correct, in a sentence: the kernel loses no task, token or
message and runs the most urgent task; the shell's job table agrees with the
processes; the allocator hands out disjoint blocks and merges free ones; a cache
hierarchy returns what was written last and keeps inclusion; a pipeline computes
what the instruction set says; a container behaves as the map, set or sequence
it implements; the debugger leaves the program's text as it found it.

## Modules

| module | models |
|---|---|
| `ReadyBitmap` | scheduler.c over sets of bits: operators, no state |
| `PrioritySet` | abstract: a set of priorities with minimum |
| `BitmapScheduler` | the bitmap as a state machine, implements `PrioritySet` |
| `ReadyBytes` | the bytes and literal tables, implements `BitmapScheduler` |
| `Eos` | tasks, ready queues, alarms, semaphores; uses `ReadyBitmap` |
| `Fifo` | abstract: bounded FIFO queues |
| `EosApp` | message queues and tasks with fixed programs over `Eos`, implements `Fifo` |
| `Tsh` | the shell's job table, signal handlers and children |
| `Allocator` | abstract: disjoint areas that keep their contents |
| `Malloc`, `MallocProofs` | mm.c over a heap of words, implements `Allocator`; its theorems |
| `TagStore` | cache_base.cc: tags, dirty bits and LRU lists; operators, no state |
| `MemoryHierarchy` | the cache simulator: trace, caches, queues, memory; uses `TagStore` |
| `TracedProgram` | abstract: a program by itself |
| `Debugger` | snudbg and the process it traces, implements `TracedProgram` |
| `Deque` | abstract: a sequence with two ends |
| `ArrayDeque`, `ListDeque` | deque.hpp, both classes, implement `Deque` |
| `Dictionary` | abstract: a map |
| `HashTable` | hash_table.hpp, implements `Dictionary` |
| `Containers` | `ReadyBytes`, the deques, the hash table and `GraphAlgorithms` side by side, with what each promises |
| `PriorityQueue` | abstract: a bag with minimum |
| `FibonacciHeap` | fheap.hpp, implements `PriorityQueue` |
| `OrderedSet` | abstract: a set whose insertions and removals answer |
| `BST`, `RBTree`, `BTree` | the three search trees, implement `OrderedSet` |
| `GraphAlgorithms` | Dijkstra, Prim and topological sort, compared with definitions of their results |
| `Rv32` | what an instruction computes; operators, no state |
| `Machine` | abstract: one instruction after the other; uses `Rv32` |
| `SingleCycle`, `Pipeline` | Lab1; Lab2 and Lab3; implement `Machine` |
| `MC*` | constants for TLC, and the choice between several models in one run |
| `EosProofs`, `EosRunsProofs`, `TshProofs`, `DebuggerProofs`, `StructureProofs`, `MemoryHierarchyProofs`, `ProcessorProofs` | theorems |

### The kernel (`Eos`)

One processor runs `cur`. An action is what the processor does between two
points where a task may be switched: a kernel call up to its return or up to
`eos_schedule`'s switch; a tick that interrupts a task's own code; or the rest of
a call, resumed when its task is switched to. Every action contains the whole
call, the final `eos_schedule` included: `WakeUp` is
`_os_wakeup_sleeping_task`, `Suspend` and `SleepFor` end in `Schedule`, and
`Schedule` requeues a task that is still RUNNING before it runs the head of the
most urgent queue. `pc[t]` is the saved context of `t`: in user code, in the
second loop of `eos_trigger_counter` (a tick whose handler switched away),
or behind the switch in `eos_acquire_semaphore`, with or without a timeout.

The circular lists are sequences. A node of the ready queue is its task; an
alarm keeps its two unsigned fields, the timeout and the key
`64 * timeout + priority`, modulo `Wrap`; a wait node remembers which kind of
call queued it, because only blocking calls free their node.

`fault` names what stops the system: a tick with no alarm set reads through a
NULL pointer (timer.c:44); a woken task that finds no token frees a node that
was freed already (sync.c:69) or that is still linked. After a fault nothing
happens, hence `CHECK_DEADLOCK FALSE` in the runs that reach one.

What is left out: `counter->tick` (never read), `eos_suspend_task` as a call of
its own, task creation after start-up, and ticks that hit kernel code (see
*Plan*). `-1` as a timeout of a plain acquire changes nothing and has no action.

### Applications (`EosApp`)

A task's program is a cycle of sends, receives and sleeps. Sending has the stages
*acquire*, *copy*, *advance* and *release*, and a tick may come between any two
of them. `Contents` maps the ring buffer to the abstract queue: a message counts as
sent when its sender has copied it into the ring, and as received when its
receiver has copied it out.

### The shell (`Tsh`)

One thread: `main` is where the read/eval loop is, and `stack` holds the signal
handlers that run on top of it, the innermost first. An action is what happens
between two points where a signal makes a difference: `fork` and `addjob` are
apart (SIGCHLD is blocked between them, a child may end there), and so are
the lookup, the change of state and the SIGCONT of `do_bgfg`. `Blocked` is the
signal mask: a handler blocks its own signal, `eval` blocks SIGCHLD, and
`sigchld_handler` blocks everything after `waitpid`. A standing signal is one
member of `pending`, however often it was sent. `proc` is what the kernel knows of
each child: `stopping` and `zombie` are states that `waitpid` has not reported.
`refused` are the children `addjob` had no slot for; if one stops, the handler
writes through a NULL pointer, which is the `fault` of this model
(`CrashNeedsRefusal`: nothing else leads there).

Left out: parsing, job IDs (a command names its job by its slot), listing, and
the children of children.

### The allocator (`Malloc`)

The unit is a double word, the alignment; a word is an integer whoever wrote
it, so that a tag written into somebody's data, or data read as a tag, would
show. Headers, footers and links are where the macros put them. The operators
have the functions' names and return the changed heap; where the C function
goes on after a PUT with a macro that reads the tag back, so does the
operator (`Tag` finds the footer through the new header). A search follows the
links through a list (`Chain`). The owner fills what it gets, and the
refinement of `Allocator` says that these data are there until it frees them,
wherever `realloc` has moved them. Words have 4 bytes, as in the 32-bit build
the macros assume.

### The caches (`TagStore`, `MemoryHierarchy`)

A cycle of the simulator processes the queues of every component in a fixed
order, from memory up. `at` is the place in that order; a step processes one
request of the queue at hand, and queues with nothing ready are passed over. Between
cycles the core issues the next request of the trace, which is any. What matters
of a line's contents is whether memory has them: `unsaved` is a history variable
with the lines stored to since. Main memory comes with the repository as
an archive; its queues are modelled from the calls and marked external.
`Handle` is what one component does with one request. The simulator's three
counters of things in flight are compared with what is in the queues: `Spots`
are the places of the requests of some types in some queues, and `FromL1` the queues
that hold what a level 1 cache has written back.

### The debugger (`Debugger`)

The tracee is part of the model: its memory holds instructions by name, `Goes` says
where control may go after one, and an int3 stops it one byte further. After a
stop the tracer first runs `handle_break_post`, then it is at the prompt. `TracedProgram` sees the memory with every trap replaced by the
byte saved for it, and `rip` moved back behind a trap. The user of the model is
careful: no second breakpoint at an address, no write over one. So is the program
(`FlowAssumption`): control comes to the byte behind a breakpoint only from the
instruction at the breakpoint, because `handle_break_post` takes any stop there
for the breakpoint's.

### The data structures

Each structure is a machine whose actions are the public operations with every
argument, and whose answers are compared with those of the abstract machine.
`ArrayDeque` has the ring, `front`, `back` and `capacity`; `ListDeque` the
sentinel and the links; `HashTable` the slots with their tombstones, both kinds of
probing and enlarging; `FibonacciHeap` the circular root list and the children, and the
length that `consolidate` gives its array of roots; the trees nodes with children. Recursive C++ functions are recursive operators
(TLC only). Callers' duties are guards: nothing is removed from an empty
`ListDeque` (deque.hpp:233 would delete the sentinel), `RBTree` and `BTree` remove keys
they hold, and `BTree` inserts keys it does not hold. In `HashTable`, `get` passes
tombstones, but `put` and `remove` stop at them (hash_table.hpp:97, 119): of a key
that the table holds behind one, `put` stores a second copy and `remove` says that it
is absent. The actions do so; the constant `Careful` names the operations that callers
keep from such keys (`Met`), both where the table is compared with a `Dictionary` and
none in `hash_again`.

`GraphAlgorithms` has the adjacency lists and, during a call, the variables of Dijkstra,
Prim or the topological sort; a step is a turn of the `while` loop. What a call
returns is compared with a definition that shares nothing with the code: walks of at
most n - 1 edges, all sets of n - 1 edges, descendants in the graph.

### The processors (`Rv32`, `SingleCycle`, `Pipeline`)

A step is a clock: the falling edge writes the register file and the data memory, the
rising edge the program counter and the pipeline registers. Operators named like
wires are what the wires carry at the rising edge. `predicting` tells Lab3, which
fetches along predicted branches and resolves them in MEM, from Lab2, which
resolves them in EX. The predictor's direction is any, so that what holds
does so with gshare, too; the branch target buffer is the code's, because only
the comparison of addresses tells later whether a branch was followed. An instruction
is a record that has every field, as the wires do: `rs2` of an `addi` holds bits
of its immediate, which the hazard unit compares all the same, and `bit30` is the bit
by which ALU control tells `sub` from `add`, whatever it means in the instruction.

The mapping to `Machine`: an instruction is executed when it leaves MEM; `pc` is
the address of the oldest instruction that has not left it, and the registers are those behind
the write back under way.

## Runs

| run | question | bounds |
|---|---|---|
| `eos_kernel` | what holds of tasks, queues, tokens and sleeps, with timed waits and without? | 3 tasks and idle, 2 of equal priority; both queue types; sleeps 0..2; at most 2 tokens; with timed waits in two of the tasks, the third only yields and queues have at most 2 nodes |
| `eos_timed_sleep` | *violation*: does `eos_sleep` wait that long? | 2 tasks with timed waits |
| `eos_apps` | does user/work.c run for ever, and are its queues FIFO? are they for one sender and one receiver with every timeout? | the constants of work.c, ticks while idle; 2 slots, 2 messages, timeouts -1..2, ticks anywhere |
| `tsh_jobs` | does the job table agree with the children, and does the wait for the foreground job end? | 2 slots, failing forks, nested handlers; 3 processes with one key at a time, or one slot held by a background job and two keys at once |
| `tsh_foreground` | *violation*: does `fgpid` find the foreground job? | 2 processes, 2 slots |
| `malloc` | are tags and lists right, and areas kept? | 3 owners, payloads of 1, 3 and 6 units, chunks of 6, a heap of 12 units |
| `caches` | inclusion, lost stores, accounts, end of the simulation | 3 conflicting lines, 2 ways (1 in L1 of two levels), 3 configurations, 1 or 2 requests at a time |
| `debugger` | does the program run as if by itself? | a loop of 3 instructions, 4 places, 2 breakpoints, words of 2 bytes, 4 writes |
| `structures` | do the structures implement their abstract types? | see below |
| `btree_again` | *violation*: does `insert` take every absent key? | B = 2, keys 1..5 |
| `hash_again` | *violation*: does the table remove, and not store twice, the keys it holds? | 64 slots, keys 0 and 64 |
| `processors` | do the processors execute their programs? | all programs of 3 instructions from a pool of 16, 4 words, 2 data cells, 2 BTB entries |

*Kernel.* `MaxCount` bounds the tokens: the code has no bound, and a count above the
number of tasks only repeats what a smaller one allows. `MaxWaiters` and `MaxLeft`
bound queues, which stale nodes make grow without limit. `Overrun = FALSE` says that
the alarms of one tick are handled before the next tick (the timer ticks
once a second); with `Overrun = TRUE` an expired alarm can be decremented past 0.
Of the theorems only `AlarmsAlwaysOnTime` assumes it. `Interruptible` names the tasks a tick may
interrupt: all of them, except in the application of work.c, where the work of a tick is
finished, and the idle task runs, when the next one comes. The variable `timed` of
`MCEosModes` is chosen at the start: three properties (`OnePlaceUntimed`,
`NoLostWakeUpUntimed`, `SleepUntimed`) hold only without timed waits, the others in
both.

*Shell.* `MaxJobs = 2` with three processes is the smallest table that overflows while
two jobs live. `MCTsh` lets the user press one key at a time when every slot is free
at the start, and `KeysAtOnce = 2` keys before the first is handled when a background
job, `Daemon`, holds a slot throughout and the other two processes share what is left
(`crowded`). A key while another is being handled makes handlers nest; two of them
and a SIGCHLD nest as deep as the masks allow. The three invariants are proved for any
number of processes, slots and keys. `PromptComesBack` speaks of waits that begin with
SIGCHLD unblocked: a failed fork leaves it blocked (tsh.c:177-194), no child is reaped
any more, and the next foreground job never ends for the shell.

*Allocator.* `Chunk`, `Large` and `NumLists` are scaled down with the requests. With
these numbers every branch of `place`, `coalesce` and `mm_realloc` is taken: in
place, with the block behind, with the one in front, with both, with the one in
front while the one behind stays free, in a new block, and NULL. `LiveView`
compares states by the words a call may read; what is left in other words changes
nothing.

*Caches.* Three lines in one set of two ways evict each other in every cache, dirty,
clean and from below; L1 has one way, so that a dirty line leaves it for an L2 that
still has it. `MaxLru` bounds the LRU lists, which back-invalidation makes grow.
Inclusion and the saving of stores are stated for one request at a time.

*Structures.* `which` chooses the structure at the start. The ring starts with 2
cells and takes 4 items, so that it doubles while wrapped; the hash table starts
with 4 slots and doubles once, with two values and the keys 0, 3 and 11, of which the last two
collide in the last slot in either size, with 4 slots and with 8, and probe on to the first; heaps of up to 6 items of 3
keys reach trees of degree 2; red-black trees have up to
7 keys, so that a removal may have to repair several levels. The B-tree (B = 2) starts empty or with nine keys on three levels, so
that both splitting a root and refilling an inner node are within few operations.
The graphs have 4 vertices: every undirected one with weights 1 and 2, and every
directed one over six edges, with a cycle among them, that are absent, weigh 0 or are
doubled with weights 3 and 1. So a vertex is queued again before it is settled, ties occur,
and parts of a graph cannot be reached.

*Processors.* In a loop of four instructions every instruction comes behind every other at
every distance, and two branches share a BTB entry. Instructions depend on
each other through three registers, one of them x0; branches go forward, backward, and
to the next instruction.

Fairness. `Tsh`, and so `MCTsh`: the shell is scheduled, so a loop that is interrupted again and
again still goes on (`SF(Loop)`), SIGCHLD is delivered and its handler runs, and so
do the handlers of the keys, each by itself, because another key may always
interrupt it; nothing is assumed of children and users. `MCEosApps`: the processor
never stops, `WF(W!Processor)`, and the timer goes on ticking, `WF(W!Timer)`; which task
runs is decided by the scheduler and is not assumed fair. `MemoryHierarchy`: `run_sim`
is a loop that does not stop between two statements, `WF(Cycle)`; the trace may
end or not. `MCProcessors`: the clock ticks, `WF(Next)`.

What `tsh_foreground` shows: `fg` looks up a job, the job ends and the SIGCHLD
handler clears its slot, and `fg` writes FG into the empty slot. From then on
`fgpid` finds that slot first and returns 0, so the next foreground job gets its
prompt back at once and neither ctrl-c nor ctrl-z reaches it.

What `eos_timed_sleep` shows: a timed acquire that gives up leaves its wait
node linked. The next release of that semaphore wakes the task whatever it is
doing, in the trace an `eos_sleep` that still has its alarm set.

What `btree_again` shows: a leaf looks at slot `n`, behind its last key, when it decides
whether a key is there already (btree.hpp:135). Splitting and borrowing leave old
keys in such slots, so that inserting 1..5, removing 1 and 3, and inserting 1 and 3
again does nothing the last time. `Again = FALSE` keeps the run `structures` from
inserting a key a second time.

What `hash_again` shows: 0 and 64 have the same home among 64 slots. After `put` 0,
`put` 64 and `remove` 0, the slot of 0 is a tombstone in front of 64: `remove` 64 fails
(hash_table.hpp:119), although `get` finds it, and `put` 64 then stores it again
(hash_table.hpp:97). Two findings share this run, one for each step of the trace.

Observed while modelling:

- Two senders on one queue overwrite each other's slot when a tick falls inside
  `eos_send_message` (`ImplementsFifo` fails with a second sender in `MCEosApps`); a
  tick with no alarm set stops the system; a sleep of 2^26 ticks overflows the alarm
  key.
- With four requests in flight the caches lose a store; with line 0, whose
  address means "no victim", they do with one. The last write-backs are in no
  list of the things in flight (cache.cc:212), so the simulation may end before they
  reach memory.
- A jalr of Lab2 and Lab3 is subtracted when bit 10 of its offset is set, that is for
  1024..2047 and -1024..-1: it has the `alu_op` of R-types (control.v:34-35), for which
  `alu_control` takes bit 30 of the instruction for that of `sub` (alu_control.v:39, 66).
  A jalr of Lab1 that overwrites its base jumps to a wrong target
  (simple_cpu.v:201). `JalrAssumption` keeps each out of the programs of its lab; with
  either, `ProcessorsImplementMachine` fails. `lbu` and `lhu` have zero-extended offsets.
- Reset does not clear the pipeline registers, so the first instruction runs once
  per clock of reset. Every program of the repository starts with a nop, or with an
  `addi x1,x0,0`, and so do those of the run.

## Proofs

Every theorem holds for all values of the constants that satisfy the named
assumptions of its module, which TLC evaluates in every run. Where a theorem needs
more, it says so in an `ASSUME`.

`EosProofs` is about `Eos` and `EosApp` with any constants; `EosRunsProofs` carries its
theorems over to the systems that are run.

**Bitmap.** `EosProofs` begins with what set, unset and highest do; `EosRunsProofs` proves
that `BitmapScheduler` implements `PrioritySet`, for any set of priorities in use, and
`StructureProofs` that the bytes, masks and lookup tables of `ReadyBytes` implement
`BitmapScheduler` (`BytesImplementBitmap`): a byte is the sum of its bits, and the entry
of a byte is its lowest bit.

**Kernel.** `EosProofs` proves, for every set of tasks, priorities, periods, semaphores,
timeouts and word width, with ticks overrunning or not: types (`TypeCorrect`), the
bitmap describes the ready queues (`BitmapAlwaysMatchesQueues`), a most urgent
task runs (`HighestAlwaysRuns`), and the idle task is available
(`IdleAlwaysAvailable`). None of these is inductive alone. `IInv` joins them and
adds that each task is in the queue of its own priority: without it the task
that `eos_schedule` takes from the queue the bitmap names might have another
priority, and `HighestRuns` would not follow. Its core is `ScheduleStep`: from
any consistent queues with the idle task running or queued, `eos_schedule`
re-establishes everything, for a state the caller has already half changed. Each
action reduces to it or leaves the kernel alone.

`WaitersAlwaysInOrder` says that priority wait queues are sorted: an insertion puts a
node behind the last one at least as urgent, and only heads are removed.
`AlarmsAlwaysOnTime` says the same of alarms, and that none which has expired is still
queued when its tick is over. Its invariant ties the two fields of an alarm together:
the key is 64 times the ticks left plus a priority (`Keyed`), so sorting by key sorts by time
and a tick, which takes 64 off every key, keeps the order. It assumes `SleepsFit`, that
no key overflows the word (2^26 ticks do), and `~Overrun`.

`NoTaskEverLost` needs `Kept`: a ready task is in the queue of its priority,
and a waiting one has an alarm, or a node which a release will reach, for whatever
timed waits leave behind. It assumes `SleepsFit` and `SleepsEnd`: a task that calls
`eos_sleep(0)` has a period, else it sleeps without an alarm. Without timed waits
more holds (`Tidy`): queues have no duplicates, a waiting task has one node or one alarm
and a ready one none, and the saved context says which. From it follow
`EachTaskInOnePlace` and `SleepsLast`. `NoWakeUpLost` counts tokens against woken tasks
that have not tried yet, and so needs finitely many tasks.

**Message queues.** The second part of `EosProofs` is about `EosApp`: tasks with arbitrary
programs. A step of it rests, takes a token, copies a message, advances an index or gives a
token back (`Rests`, `Takes`, `Copies`, `Advances`, `Gives`), and is a kernel step that the first
part covers (`AppIsKernel`). Counting the tasks in each stage gives
`SlotsAlwaysConserved`, for any number of senders and receivers; it uses that
no two queues share a semaphore. `QueuesImplementFifo` is the refinement of `Fifo` and assumes
`OnePair`, one sender and one receiver for each queue: with two senders it is false (see the
hazards). Its invariant `RingOK` says that `rear` is `front` plus the slots in use; a receiver
which has copied a message and not advanced `front` yet still counts there, and no
longer in what the queue holds (`Lag`). `PairSlotsConserved` and `PairImplementsFifo` say the
same in `MCEosApps`, of the application beside work.c.

**Applications that never stop.** A tick while no alarm is set reads through a NULL pointer,
and a woken task without a token frees its wait node a second time. `AppNeverStops` says
that neither happens in an application that is `Cooperative`: it has more tasks than
queues, one sender and one receiver for each queue, no time limits, sleeps that end,
ticks only while the idle task runs, and no task at its priority. The reason for the
first is a count: with no alarm set every task waits on a semaphore (`NoAlarmAllBlocked`)
that has no token (`BlockedHaveNone`), and since a queue's slots are conserved, its sender and
its receiver cannot both wait (`BlockedSlots`); so no two tasks wait for one queue, but there
are fewer queues than tasks (`NotAllBlocked`). With as many queues as tasks it is false: two
tasks that each receive from the other first wait for ever, and the next tick finds no
alarm. The second is `TokensDue`: nobody else takes the token of a woken task, because
nobody else takes from its side of the queue (`OnlyWaiter`). `WorkNeverFaults` and
`WorkSlotsConserved` apply this to user/work.c, with its three tasks and two queues, in the
model that is run; `WorkCooperates` is where its constants meet the conditions. The proofs
are about `WP`, the instance of `EosProofs` with these constants, and the run checks `W`, the
instance of `EosApp`: `SameApplication` says that the two are the same.

**Shell.** `TshProofs` proves that the job table agrees with the children (`TableIsRight`),
that stopped jobs are listed (`StopsAreShown`), and that the handler follows a NULL
pointer only after `addjob` has refused a child (`CrashIsRefusal`), for every number of
processes and of jobs. The invariant has a part for each reason why: while a SIGCHLD
handler has a child in its hands nothing interrupts it (`HandlerAlone`); between
`fork` and `addjob` no handler reaps (`ForkProtected`); a child with news has a
signal pending or a handler that will still ask (`NewsDue`); and a stop that was
reported is in the table, or about to be, unless `bg` or `fg` has just marked the
job (`StopsListed`).

**Debugger.** `BreakpointsStayArmed`: each entry of the table has its trap in
memory, each trap its entry, and no two entries have one address, for every
program, table size, word size and set of places. The step that needs the
invariant is the stop at a breakpoint, where the entries behind the one that fired
move down by one. `ProgramRunsAsItself` is the refinement of `TracedProgram`:
with the traps replaced by the saved bytes and `rip` moved back
behind a trap, the tracee executes the program. Its invariant adds that memory holds
the program's bytes and the user's (`BytesOK`), and where `rip` may be at a stop
(`StopOK`); `FlowAssumption` is what makes a stop one byte behind a breakpoint mean that the
breakpoint fired.

**Caches.** `MemoryHierarchyProofs` proves that the LRU lists hold the valid ways
(`ListsWays`) and that the counters which end the simulation agree with
the queues (`AllAccountedFor`). The first needs that a line is in the set of
its address; the second is an argument about moving requests: each handler takes one
request out of one queue and puts it, or what it turns into, in another
(`Numbers`, `Balanced`). `L2AlwaysIncludesL1` and `NoStoreLost` are proved for
one request at a time (the second also for one level of cache with any number of them).
The reason for the first is the order of arrival: between an eviction
from L1 and the arrival of its write-back, L2 has the line, since the only request that
could evict it there arrives later (`Clear`, `InTime`); that uses both the order
of the queues in a cycle and the latencies, which are the same for a write-back and the
request behind it. `DataCarried` says for every line stored to where its data
are. Both theorems assume that no access is to line 0 (`NoLineZero`); the code takes its address
for "no victim", and both properties fail with it.

**Allocator.** `MallocProofs` proves, for any limit of the heap, chunk, number of lists,
requests and users, that the blocks tile the heap (`HeapTiled`), that no two
free ones are neighbours (`NoFreeNeighbours`), that each is in the list of its size, once
and linked both ways (`FreeBlocksListed`), and that the allocator keeps its promise
(`AllocatorImplemented`). No assumption is added to those of `Malloc`; in
particular the heap may refuse to grow at any call. The invariant `WellOwned` says
that some set of blocks is `Whole` and has owners (`Owners`), each with a block of
its own that is large enough and none in use without an owner: nothing leaks
(`BlocksAreOwned`). The set is quantified, because `Blocks`, a recursive function that
follows the headers, is awkward to reason about between calls; that it is the
same set is `BlocksAre`. `Whole` joins `Tiled`, `Listed` and `Joined`, but inside a
call they hold one at a time: `Relisted` is the heap while blocks are
taken off lists and put on lists (tags unchanged), `Sealed` the heap when a new
tag has made one block of several that are in no list. So the order in
the code, off the lists first and then the new tag, is what the proof of `coalesce`
needs: `delete` computes the list from the size the header still has. Each library call then
has one statement about the heap before and after (`MallocTakes`, `FreeGoes`,
`ReallocMoves`), with `Kept` for what the other owners see.

**Processors.** `ProcessorProofs` proves that all three processors implement `Machine`
(`ProcessorsAreMachines`), for every program of the instructions modelled, however long, every
word size, register file and memory, every size of the branch target buffer, and whatever
the predictor says. It assumes `JalrAssumption`: the jalrs that each lab sends to a wrong
target (see above) are not in its program. An instruction counts as executed
when it leaves MEM, so the invariant `PipeOK` is about what reaches MEM.
`Results` says that the instruction there was computed from the registers as they are when
its turn comes, although two older ones had not written theirs: that is what forwarding
does (`Forwards`), given that no load stands right before an instruction that uses it, nor
a jump of Lab2, whose return address is never forwarded (`Operands`); the stall and
the flush see to that. `InLine` says that behind every instruction is the one that was
predicted. A comparison of addresses then suffices to notice a wrong prediction
(`NextIsRight`), because a prediction is always one of the two ways of a branch (`Guesses`), and
it is because the buffer holds no target of a branch but its own (`Targets`).

**Containers.** `StructureProofs` proves that `ArrayDeque` implements `Deque`
(`ArrayImplementsSequence`) for every initial capacity from 2 on (the code has 64) and
any items, however often the ring doubles.
The inductive invariant `RingOK` says that `back` is the cell behind the last item and
that one cell at least is free: without the free cell a full ring would look
empty, and without the place of `back` the copying in `resize` could not be
shown to keep the order. For `ListDeque` (`ListImplementsSequence`) the invariant `LInv` says that
some list of the live nodes, the sentinel first, is what `next` goes along and `prev` goes
back along; what `operator[]` finds by following links is shown to be that list
(`WalkIs`). Read backwards such a list is one for the links swapped (`Mirrored`), so
the operations at the back are those at the front. `DequesImplementSequences` is both.

`HashTable` implements `Dictionary` (`TableImplementsMap`) for all keys and values and
any number of them: with linear probing for any initial size, with quadratic probing when
that size is a power of two, as the 64 of the code is (`TableOf64ImplementsMap`). The inductive
invariant `HashInv` says that the probe path of every stored key leads to its slot past
slots that are used or removed and do not hold it, that no key is stored twice, and that the table
is at most half full. The last part makes every search end, if the path visits all
slots (`Visits`). A quadratic path does, on a power of two: two turns of it
can only meet in one slot if a power of two divides a product in which one factor is odd and
the other too small (`OddFree`).
A table that is enlarged holds the same map (`Enlarging`). As in the run, callers are
careful: neither `put` nor `remove` is called for a key behind a tombstone (`Met`). The
code does not check this, and without it the theorems are false (`hash_again`).

**Graphs.** `GraphAlgorithmsAreRight`, also in `StructureProofs`, says that Dijkstra, Prim
and the topological sort return what `AnswersRight` defines: for any number of vertices, any list
of edges without negative weights, loops and parallel edges included, and any source. It
assumes that an edge weighs less than `inf` (a walk that does not is taken for none, by the
definition as by the algorithm) and that `None` is no sequence. What holds between turns:

- `DijkstraOK`: what is settled is no farther than any entry of the queue; a vertex that was
  reached has an entry of its distance; edges out of settled vertices are relaxed; and
  the parents have a rank (`Ranked`), so that following them ends in the source,
  edges of weight 0 notwithstanding. Stale entries only have to be no nearer than their vertex.
- `PrimOK`: the answer connects the settled vertices and is part of some lightest spanning tree
  (`Grown`). The entry taken out is a lightest edge out of them (`TakesLightest`),
  because every such edge has an entry that weighs no more; `Exchange` puts it into a lightest tree for the edge
  by which that tree leaves what it connects to the new vertex. That `Weight` is a sum
  over a set is `WeightOfMore`: it does not depend on the order in which it is computed.
- `KahnOK`: an indegree counts the edges from vertices that are not in the order, and is
  zero exactly for those in the order or the queue. What is left at the end is behind a cycle:
  otherwise the vertex of it with the fewest predecessors (`BehindBehind`) would have gone in.

A loop over neighbours is unrolled by `Turns`, which makes the function of the states after each
turn, and `EveryTurn`. The proof showed that `Search` had the answer by a CASE two of whose
guards overlap (Dijkstra at its source), where TLA+ leaves open what TLC takes first: it
is an IF now, as are such cases of `BST` and `RBTree`.

Only model-checked: the heap and the trees, and liveness.

Liveness under fairness is beyond this prover, and so is induction over data. Where an
argument is about the k-th element of something, it is by the least or greatest
counterexample (`LeastIndex`, `GreatestIndex`), also that the recursive functions of
`Malloc` exist (`ChainIs`, `BlocksAre`). `BST`, `RBTree`, `BTree` and
`FibonacciHeap` declare recursive operators, which the prover does not take.

## Not modelled

- eOS: condition variables (their wait and wake-up are empty), ticks inside
  kernel code, task creation after start-up, the empty functions (destroy, resume,
  change of priority), formatting, assembly.
- Caches: reading of parameters and traces, statistics.
- Processors: lui and auipc, the branches blt, bge, bltu and bgeu, the ALU operations other than add and sub, accesses
  to bytes and halfwords, the tables of gshare, performance counters, reset. Lab3's
  Makefile names a perceptron predictor that is not there.
- Data structures: set-up, unit tests, vendored code; destructors and printing;
  floating-point weights of graphs.
- Debugger: commands that only show something, registers other than `rip`, parsing,
  the reader of memory maps.
- Shell: parsing, job IDs, the test programs' own work.

## Plan

1. `EosPreempt`: kernel statements as steps and a tick between any two of them
   where interrupts are enabled; where ticks only hit user code it implements `Eos`.
2. `EosCondition`: condition variables with their empty wait and wake-up.
