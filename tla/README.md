# A TLA+ model of KluxOS

KluxOS is a small 32-bit x86 kernel in C. This directory holds TLA+ modules that
model its core, TLC configurations that check them on small instances, and
proofs, checked by TLAPS, that hold for every value of the constants.

Paths below are relative to `src/KluxOS/src/`. A line such as `process.c:101`
is the line that a definition, a property or a remark is about;
`PROJECT.json` has the full map from definitions to lines.

## 1. The system

| part | files | state | operations | talks to |
|---|---|---|---|---|
| processes, scheduler | `kernel/process.c` | `process_list`, `current_process`, `next_pid`, `tick_count`, state and link of each process | `process_init/create/terminate/switch/schedule`, `scheduler_tick` | timer interrupt (calls it), system calls (exit), heap |
| keyboard | `drivers/keyboard.c` | ring buffer with three indices, modifier flags, mode, layout | handler, `keyboard_init/read/getchar/set_mode/set_layout` | interrupt line 1, terminal (echo) |
| terminal | `drivers/terminal.c` | cursor, 80 x 25 cells, hardware cursor | `putchar` with control characters, scroll, clear, move, `terminal_gets` | everybody prints through it, from interrupt context too |
| timer | `kernel/timer/pit.c`, `kernel/init/main.c` | tick count, uptime, callback | `pit_init`, `pit_handler`, `sleep_ms`, `get_uptime_ms`, `timer_callback` | interrupt line 0 |
| interrupts | `kernel/interrupt/idt.c`, `kernel/interrupt.c`, `kernel/interrupt/pic.c`, `kernel/asm/interrupt.s` | gates, handler table, two mask bytes | `idt_init`, `pic_*`, `register_interrupt_handler`, `irq_handler` | the 8259 controllers; every driver registers here |
| frames and paging | `kernel/mm/memory.c`, `memory_ext.c` | frame bitmap, page tables | `alloc_frame`, `free_frame`, `get_page`, `init_paging` | heap (tables), paging unit |
| kernel heap | `kernel/mm/memory.c` | `heap_end` | `kmalloc` in four forms, `krealloc`, `kfree` | every allocation |
| system calls, descriptors | `kernel/syscall.c` | `fd_table` | `open`, `close`, `read`, `write`, `exit` | file tree, `krealloc`, processes |
| file tree | `kernel/fs.c` | nodes: children, parent, contents, length, mask, callbacks | create, link, unlink, symbolic link, resolve | descriptors |
| audit log | `security/audit.c` | level, array of events, count, next id | `audit_init/log/set_level/find_events/view_logs` | called by security code |
| keys and ciphers | `security/crypto.c` | key array, count, next id | generate, destroy, contexts, encrypt, decrypt, hash | heap |
| firewall | `security/firewall.c` | rule table, count, switch | add, check, init, enable, disable | `security.c` adds rules, `network_init` restarts it |
| security levels | `security/security.c` | level and four switches | `security_init`, `security_set_level`, `security_add_firewall_rule`, encrypt, decrypt | audit log, firewall, AES, keys |
| access control | `security/acl.c` | per resource an array of entries and its length | add, remove, check, protect | heap, file tree |
| shell | `shell/shell.c` | directory, exit code, last command | read a line, split it, eleven commands | terminal, process list, file tree |
| network | `kernel/net/network.c`, `drivers/network/rtl8139.c` | a device pointer nobody sets | init, send, receive | firewall, PCI |
| AES, wifi, PCI | `security/aes.c`, `drivers/network/wifi.c`, `kernel/pci*.c` | round keys; a state that stays DOWN; none | | |

**Concurrency.** There is one processor and one thread of kernel code. The
interrupt handlers (timer and keyboard) run between any two of its instructions
and to completion, with interrupts off. The `cli` and `sti` of `process.c` are
empty stubs, and nothing else guards shared data. The Makefile passes no
optimisation flag, so each C assignment to a static is a store and
`x--` is a load and a store.

**What is hard to test here** is therefore: a handler between two stores of the
thread; counters of 32 bits that wrap; tables at their limit; pointers that
outlive what they point to (the heap never reuses memory, which hides them);
two copies of one fact (bitmap and descriptors, cursor and hardware cursor, mask
register and its shadow, line buffer and screen) that may disagree; and things
that must happen (a reader served, a process scheduled, an interrupt
acknowledged). `PROJECT.json` lists these under `hazards`, each at its line.

## 2. Modules

| module | models | proofs |
|---|---|---|
| `Process` | process table and scheduler, interleaved with the timer | `ShellProofs` |
| `ProcessTable` | what the process table promises: the abstract specification that `Process` implements | |
| `Keyboard` | handler, ring and readers, at the granularity of memory accesses | `KeyboardProofs` |
| `Terminal` | cursor, screen and line editor, call by call | `ConsoleProofs` |
| `Console` | `Terminal` composed with the handlers that print: `terminal_putchar` access by access | `ConsoleProofs` |
| `Shell` | the shell, composed with `Process` | `ShellProofs` |
| `Timer` | ticks, uptime and sleeping | `TimerProofs` |
| `Interrupts` | gates, controllers, dispatch and the boot order | `InterruptsProofs` |
| `Frames` | frame bitmap and page tables | `MemoryProofs` |
| `Heap` | the bump allocator and `krealloc` | `MemoryProofs` |
| `Files` | descriptors over the file tree | `FilesProofs` |
| `Audit` | the audit log | `SecurityProofs` |
| `Firewall` | the packet filter | `SecurityProofs` |
| `Security` | security levels and `network_init`, composing `Audit` and `Firewall` | `SecurityProofs` |
| `Acl` | access lists in the memory of `Heap` | `MemoryProofs` |
| `KeyStore` | keys, contexts and ciphers | `SecurityProofs` |

Each composition, and each module that is part of none, has an `MC...` module
that names the values given to its constants, and a `.cfg`; `Process` has one of
its own too. Variables and actions keep the names of the code. Some conventions:

- A C function that no handler can disturb is one action. One whose stores a
  handler can separate is split at those stores, with `pc` as its program
  counter (`CreateFill`/`CreatePublish`, `TerminateBegin` ... `TerminateFinish`,
  `InitStart`/`InitEnd`/`InitCount`, `DecrementLoad`/`DecrementStore`,
  `UptimeLow`/`UptimeHigh`).
- Variables marked *history* or *ghost* are not in the code; properties compare
  the code's state with them and no guard reads them. `accidents` names the
  events after which a property of the code no longer holds. Such a property
  reads "unless ...", so that it says exactly which events break the promise
  and that nothing else does.
- Definitions that begin with "A fault in ..." are wrong variants of the
  definition below them. No specification uses them; they document which bug
  each property would notice.

### Process
`next`, `state` and `process_list` are the linked list; `Listed` is the set of
processes that are linked. A tick is an action of its own that may fall between
any two thread steps; it increments `tick_count` modulo `TickMod` and on a
multiple of the time slice starts the search of `process_schedule`, one
iteration per step (`ScanOn`, `ScanBack`, `ScanFound`). While the handler runs
the thread does not. `Killable` says which processes may be terminated,
`ThreadSwitch` whether the thread calls `process_switch` itself. A null
`current_process` that is followed stops the kernel (`irq = "fault"`).

### Keyboard
A character is an abstract value: the key, and for keys in the four key maps
the layout and the case. `KeyIrq` is the whole of `keyboard_handler`. `queue` is
the history of accepted characters not yet read, the specification of the ring.
Three accidents: `raced` (a key between the load and the store of
`buffer_count--`), `early` (a key between the last two resets of
`keyboard_init`) and `unseen` (a modifier released in raw mode).

### Terminal
The screen is a record: row, column, cells, hardware cursor, and whether a store
has left the screen memory. Operations are functions on it, as in the code where
`terminal_putchar` calls `terminal_newline`, which calls `terminal_scroll`.
Unsigned arithmetic on columns and rows keeps its width (`Modulus`). The line
editor reads keys from the constant `Keyboard`.

### Console
The thread's `terminal_putchar` is a list of steps (`todo`), one per access to
the cursor, the screen memory or a port; `Work` gives the steps of a character
and a step may put others in front (`Column` at the end of a line, `Row` at the
end of the screen). The cursor is an ordinary variable, so between two uses the
compiler may have kept it in a register or load it again: `Columns` and `Rows`
are the two values a use may see. `timer_callback` strikes between any two
steps, moves the cursor to the status line and prints, a character per step;
nothing interrupts it. `Echo` is the keyboard's, in one step. The CRT controller is external:
a register selected through one port and written through the other.
`terminal_set_cursor_position` is declared and called by `main.c` and defined
nowhere; it is taken for `terminal_move_cursor`. `calm` and `hit` are history: no
handler has printed since the call began, and a key was echoed into a call.

### Shell
A line is a sequence of chunks (blanks, quotes, slashes, other text), because the
parser tells no more apart. `shell_parse_args` applies the body of its loop,
`ParseStep`, to one position of the line after the other and cuts it in place. A user *means* a list of words and types each
plainly or in quotes; `typed` remembers what was meant. Commands return the
status of their handler; what they print is left out. `ps` walks the list of
`Process` one row per step, while the timer ticks and the scheduler switches.
`root` is the tree's root as the kernel may find it: missing (`kernel_main`
never calls `fs_init`), with callbacks of its owner, or with those of
`fs_create_node`, which never return. The owner's `finddir` may take paths with
slashes, so that `cd ..` has something to cut; it is assumed to find the
directories on the way to one it finds, and no code removes one. `RawFiles` are
the files it finds that have kept the `open` of `fs_create_node`: `cat` on one of
them never returns (`fs.c:58`, 129-133). The other callbacks that `cat` calls are
their owner's and return.

### Timer
Tick counter, deadline and the two halves of `uptime_ms` keep their width. The
device divides each tick into `Parts`, one `TimePasses` for each but the last, so
that a call of the thread begins and ends at any moment within a tick; `Now` is
the time in these parts, and `begun` the time at which `sleep_ms` was called.

### Interrupts
The controllers are hardware and are modelled from how `pic.c` programs them:
requests, masks, in-service bits, fixed priority, the second controller behind
line 2, and the non-specific end of interrupt, which clears the most urgent bit
in service. There are two dispatchers in the repository with the same name:
`idt.c` calls the handler and then acknowledges, `interrupt.c` acknowledges
first. Both are behaviours of the model. Which drivers open which lines is a
constant, because in the repository none does (see section 4).

### Frames
A descriptor has two words and is laid over one-word page table entries, so the
word with `used` and `kernel_page` of descriptor *d* is entry *d + 1*; the model
has one array of words and this overlap. `map_page` is given the address of the
descriptor, so that all descriptors of a table share one mapping.

### Heap
Addresses and sizes are of 32 bits: modulo `AddrModulus`, which the page size
divides. `kfree` changes nothing in either of its versions (one is empty, the
other searches a list nobody adds to).

### Files
`children`, `next` and `parent` are the fields of the nodes: the children of a
directory are the nodes that a walk from `children[d]` along `next` meets
(`Visited`, `Listed`). `fs_add_node` asks nothing of the node it is given, here
as in the code. One that is linked elsewhere takes its old neighbours along into
the new list, and one that is in this list already, or whose neighbours are,
closes it to a ring; then a walk does not end (`Endless`), and a call that walks
leaves the kernel `stuck`. `relinked` remembers that a node with a parent has
been added.

`contents` is the block, `length` the length field, and `ideal` the history of
what the file should hold. Nodes start with callbacks replaced by their owner,
because those of `fs_create_node` call themselves without end: `fs_read` calls
`node->read`, which is `fs_read`. A file created by `O_CREAT` keeps them, so
opening it leaves the kernel `stuck`.

### Acl
An entry is a number in one unit of memory; the array of a resource is what
memory holds at `acl`. The loops of `acl.c` that copy entries upwards one by one
are `memcpy` of `Heap`. Other owners allocate, reallocate and overwrite their
blocks between the calls, and the address space wraps. `grants` is the history
of the entries added and not removed.

### Firewall, Security
`security.c` declares `firewall_add_rule(int, int)` and `audit_log(message,
severity, user)` itself, at odds with their definitions. The port number becomes
the address of a rule, so the rule that is copied is whatever memory holds
there: any member of `Rules`. The message becomes the type of the event and the
severity its level. `acl.c` defines a second `security_init`, which only prints;
the model has the one of `security.c`.

### Audit, KeyStore
Events and keys are records; messages, timestamps and layouts are left out.
Key material is computed as the code computes it, modulo the size of a byte. The
exclusive or of two bytes is a constant operator `XorByte`, of which the model only
assumes that applying it twice with the same byte gives the first one back; the
run gives it the bitwise operator, and TLC checks the assumption.

## 3. Runs

| run | instance | shows |
|---|---|---|
| `process_races` | 4 pids, all killable, thread switches | `ListExact`: the handler finds every live process and no dead one, in the middle of a creation or termination too. `CurrentSound`: current process and scan are live, and null only after the kernel's own end. `TableSpec`: the code implements `ProcessTable`. `HandlerReturns`: the search ends whenever the current process is linked or some linked process is READY |
| `shell` | 4 pids, slice of 2, counter modulo 5, lines of two words, `argv` of three | `SplitExact`: a command gets the words the user meant. `DirResolves`: where `cd` goes `ls` can list, from paths with and without slashes; without a root `cd` only goes to "/", where `ls` fails. `CommandsReturn`: every command ends under ticks, unless it runs into a callback that calls itself, and `ps` prints one row per process. `RoundRobin`: meanwhile every READY process gets the CPU |
| `keyboard` | ring of 2, shift and a letter | the ring against its queue (`NoPhantom`, `NothingForgotten`, `ReadsInOrder`), the shift flag against the keys held down, and `ReaderServed` |
| `console` | 2 x 2 screen, status text over the line's end, line buffers of 1, 3, 5 | `StoresContained`: wherever `timer_callback` strikes, no store leaves the screen. `CursorFollows`: an undisturbed call repairs the hardware cursor. `EditorSound`: the line buffer is bounded and is what the screen shows |
| `security` | 2 slots, ids modulo 4, table of 2 rules | the log is the latest accepted events with consecutive ids; both queries are compared with a definition by sets for all arguments (`QueriesExact`); `Settled`: what a rule has decided no later rule changes; `ChangesTraced`: which changes of level leave no record, and that no others do |
| `acl` | lists of up to 3 in 16 addresses | `BlocksDisjoint`; `ListKept`: memory holds exactly the entries added and not removed, through failed allocations; `RemovalRevokes`: a removed user keeps no permission that no other entry gives |
| `frames` | 5 frames of which 1 reserved, 2 tables of 2 | frames have one holder and the bitmap is exact, but for three accidents |
| `interrupts` | timer, keyboard and clock, drivers open and close lines, both dispatchers | the keyboard's second acknowledgement never ends another line's service; ticks are counted once by one of the two handlers that claim vector 32; every request on an open line is taken, and a key starts the shell |
| `interrupts_masked` | the kernel as it is | violated: see section 4 |
| `timer` | counter modulo 8, 18 ticks of two parts, four frequencies | exact seconds across two wraps; `NeverATickShort`: `sleep_ms` may be short by what had gone of the first tick, never by a whole one, except at named wraps; `get_uptime_ms` is right except at one |
| `files` | one file that is linked, unlinked and linked twice, one created by `open`, four paths, two descriptors, counts of 1 and 3, sizes modulo 4 | `LinksExact`: lists and parents agree until a node is added that is still linked; files keep what was written and reads return it, except after four accidents; `OpenOutcomes`: what becomes of an open that creates or truncates |
| `keystore` | 2 slots, 4 keys, bytes of 2 bits | the store lists what it took, through a second `crypto_init`; round trip of both ciphers |

**Types.** Every `TypeOK` is proved as part of an inductive invariant of
section 5. Where a run checks one it is
the first conjunct of another invariant (`EditorSound`, `MaskShadow`,
`SecondsExact`, `LinksExact`, `StoreExact`).

**Bounds.** They are the smallest at which the cases of interest happen: a ring
of two fills, wraps and, after one lost count, is overrun by the third
character; four pids give a list with a first, a middle and a last member to
unlink while the current process is another; a 2 x 2 screen wraps, scrolls and
has both corners, and a status text of two characters that starts in its last
column wraps as the real one does (70 + 11 > 80); counters wrap at least once (`TickMod`, `Modulus`,
`IdModulus`, `AddrModulus`); tables are filled. The slice does not divide the
counter, as 2^32 is not a multiple of every slice. `MaxBacklog`,
`MaxWords`, `MaxEvents`, `MaxBlocks`, `MaxTables`, `MaxRaise`, `MaxTotal`, `MaxLength` and
`MaxIssued` only bound the length of behaviours. Limits that the code has
(`BufferSize`, `MaxLogs`, `MAX_FD`, ...) are parameters, and the proofs hold for
all of them.

**Fairness.** `Process`: the timer keeps ticking and a handler that has started
runs on; nothing is assumed of the thread. `Shell`: the
same, and the thread carries on with a command it has begun; this is strong
fairness of `Command`, because the handler takes the processor away again and
again and between two ticks there is time for the thread. Nobody has to type.
`Keyboard`: a thread that is inside
`keyboard_init` or a reader keeps running, and the timer interrupt keeps ending
its `hlt`; no key need ever be pressed. `Interrupts`: the processor takes
interrupts and runs handlers, `kernel_main` goes on, and a driver that opens a
line does so some day; devices owe nothing. All the rest is weak fairness. The
other modules state safety only.

**Deadlock** is checked except where the system may stop: after a null process
pointer (`process_races`), a callback without end or a store outside a file
(`files`), and where bounds are used up (`interrupts`, `timer`, `acl`).

## 4. What the checks say about the code

One run is expected to fail. `kernel_main` prints "press any key to start the
shell" (`main.c:126`) and waits for the keyboard interrupt. `pic_init` has
masked all sixteen lines (`pic.c:36-37`) and no code calls `pic_clear_mask`, so
no interrupt is ever delivered: `KeyStartsShell` is violated. With the lines
open (`interrupts`) the corresponding `KeyReachesKernel` holds.

The "unless" parts of the properties are the other results. In short:

- *Processes.* A tick between the test `process.c:101` and the store in line
  102 can leave a process RUNNING that is not current; it is never scheduled
  again. If the current process is unlinked and no linked process is READY, the
  search loop (140-149) does not end. Terminating the kernel process and all
  others leaves `current_process` null, which 121 and 134 follow. `OneRunning`
  does not hold if `process_switch` is called outside the handler.
- *Keyboard.* A key between load and store of `buffer_count--` loses a count: a
  character stays in the ring unseen, and later characters may overwrite unread
  ones. Raw mode bypasses the modifiers. Two shift keys share a flag.
- *Console.* The status line is printed over whatever the thread is doing and
  leaves the cursor in row 1: the next character of the thread goes there. That
  no store leaves the screen depends on where the status line ends, behind
  column 0 of row 1 (see section 5); a key echoed into a call can end anywhere,
  and then `++terminal_column == VGA_WIDTH` can step over the width and later
  characters are stored behind the screen (`terminal.c:156`, `keyboard.c:211`).
- *Shell.* `cd a` stores the relative path, so `cd ..` from there stays. The
  property `DirResolves` rests on a tree that does not lose directories and on a
  `finddir` that finds the ones on the way. Text
  glued to a closing quote is dropped. With 64 words the terminating NULL is
  stored behind `argv[63]` (`shell.c:174`) and the last word runs on to the end
  of the line. A path looked up through the callbacks of `fs_create_node` never
  returns, and neither does `cat` on a file that has kept its `open`. `kernel_main` calls neither `shell_init` nor `fs_init`, so the shell
  starts in the directory "" and finds nothing.
- *Acl.* A removal needs memory: without it `acl_remove_entry` fails and the
  entry stays in force. A resource without a list refuses root too
  (`acl.c:82`), and the lists that `acl_protect_*` make are never looked at.
- *Security.* A change to level 0, or below audit level INFO, leaves no record.
  `network_init` empties the rule table that `security_init` has filled. Rules
  that a level adds to a full table are lost without notice.
- *Frames.* When frames run out, `first_free_frame` answers 0, a reserved frame
  (`memory.c:75`). `free_frame` frees the frame that was mapped last in its
  table. A new table clears the `used` bit of the descriptor before it. The scan
  ignores the last partial word of the bitmap.
- *Heap.* No call fails: `HEAP_SIZE` is not looked at. `krealloc` copies at most
  256 bytes.
- *Timer.* `sleep_ms` counts interrupts, the first of which may come at once: it
  may return up to one tick early, and returns at once when its deadline wraps. The uptime is
  torn when its low word overflows between the two loads.
- *Interrupts.* The first `pic_clear_mask` also opens what the firmware had
  open, because the shadow was read before everything was masked. The scheduler
  takes vector 32 from the timer driver, whose ticks then stop.
- *Files.* Truncating a file through one descriptor makes `length - offset` of
  another wrap (`syscall.c:118`), and a read then goes beyond the block.
  `offset + count` may wrap (172). Growing a file of more than 256 bytes loses
  data in `krealloc`. `open` creates and truncates before it notices that no
  descriptor is free, and one that creates a file never returns a descriptor:
  with one free it runs into the file's own `open` (`syscall.c:295`, `fs.c:129`).
  `fs_add_node` takes a node that is still linked and leaves it in two lists, or
  a list that is a ring.
- *KeyStore.* Keys beyond the sixteenth are handed out but not stored; key
  material repeats every 256 ids, and a CAESAR key whose id is a multiple of
  256 changes nothing.

Some facts were met while reading and are carried by no property: vector 0x80
is registered but has no gate (`syscall.c:39`); `terminal_getchar` is a
placeholder that never returns a key (`terminal.c:354`), so `terminal_gets` does
not return; `terminal_printf` prints the words of its conversions, not values,
so `ps` and `uptime` show none; bookkeeping bits of a frame descriptor are protection bits of
the next page; `keyboard_wait_keypress` is declared and called, but defined
nowhere; `interrupt.c` and `idt.c` define the same symbols.

## 5. Proofs

Safety of the core is proved for every value of the constants, from the
assumptions stated with them (`ProcessAssumption`, `KeyboardAssumption`, ...),
which say that sizes are positive naturals, that given sets have the right
elements, and what of the code's numbers the arguments need (a page divides the
address space, sizes are of 32 bits, a counter is wider than its table). Each proof finds an inductive invariant `IInv`, shows `Init =>
IInv` and one step per action, and derives the property.

| theorem | inductive invariant |
|---|---|
| `ShellProofs`: `ListExactAlways`, `TypeCorrect`, `CurrentSoundAlways` | The three are one invariant with `PidsInOrder` (identifiers below `next_pid` are the used ones, which orders the list), `ThreadInv` (what the thread relies on at each program point: the walk of `process_terminate` is above its target, a process is freed only when it is not current) and `HandlerInv` (the scan stands on a linked process or on the current one). Without the last two a tick in the middle of an unlink destroys the list invariant. |
| `ImplementsTable` | From the same invariant: every step is a `Create`, `Dispatch`, `Release` or `Exit` of `ProcessTable` or leaves it unchanged. |
| `OneRunningAlways` | Assumes that nothing is killable and that only the timer switches; without this it is false. |
| `ShellTableAlways`, `RowsExactAlways`, `DirResolvesAlways` (of `Shell`) | Every step of the shell is one of `Process` or leaves the table alone (`TableStep`), so that the invariant above carries over. `PsInv`: while `ps` walks, no creation or termination is under way (`ThreadIdle`) and the rows printed are the processes above the walk's pointer, which a tick cannot change. `UpKeeps`: `cd ..` stays, goes to the root or to a directory above; it rests on the assumption about `finddir`. |
| `SplitExactAlways` | The layout of a line (`Layout`): where each word, its quotes and its text are, which every line of `Lines` has (`LayoutExtends`, by the words). `Reading` describes the parser after `i` characters: as many arguments as words have begun, zeros exactly behind the texts and words passed, the quote that is open. `ReadStep` is one turn, with a case for each kind of character (`TurnOpen`, `TurnStart`, `TurnText`, `TurnClose`, `TurnBlank`); `TextLeft` reads the words off the cut line. |
| `KeyboardProofs`: `TypeCorrect`, `NoPhantomAlways`, `NothingForgottenAlways`, `ReadsInOrderAlways`, `ShiftSoundAlways` | `NoPhantom` is inductive with the types because it also bounds the register that holds the count during `buffer_count--`. `RingHolds` gives the order: `buffer_end` is the start plus the backlog, modulo the size, and the newest characters lie behind it. It is stated from the end because only that is true once a lost count has let the backlog outgrow the ring. |
| `ConsoleProofs`: `ContainedAlways`, `CursorShownAlways` (of `Terminal`) | The screen record stays in `Good`; one lemma per operation, following the calls between them, with `Box` for the column one past the end inside `terminal_putchar`. |
| `StoresContainedAlways` | `ConInv`: the cursor and the registers may be off the screen only where the next steps of the call bring them back (`Shape` says which lists of steps occur, `ColumnFits` and `RowFits` what holds at each), and `StatusFits` follows `timer_callback` through its text. The argument: whenever it strikes, it ends in row 1 behind column 0, so that a test of the interrupted call against 0 or against the size is not outdated. It needs the assumption `W < StatusCol + StatusLen < 2 * W`, which 80, 70 and 11 to 19 satisfy. |
| `CursorFollowsAlways` | `CalmInv`: while no handler has printed, every list of steps ends in `terminal_move_cursor` (`Ends`), and between its port writes the byte written so far is that of the cursor (`PlacedSoFar`); nothing is said of the position that earlier calls left in the controller, so it may be any. |
| `EditorSoundAlways` | `LineOnScreen` is inductive given `Good`: `PutcharShows` and `BackspaceShows` say what a call does to the cells *before the cursor, counted backwards*, which is the same with and without a line end or a scroll. Needs that printable characters are not control characters. |
| `SecurityProofs`: `LatestAlways`, `IdsContiguousAlways` | Both with the types; `StoreShape` says what shifting does to a full log. Stated for the composition `SecSpec`, in which `security_init` restarts the log with up to two events; their ids wrap like all others. |
| `SettledAlways`, `ChangesTracedAlways` | `FwType`; `FirstKept`: the first rule that covers a packet is the same in every extension of the table. |
| `QueriesExactAlways` | `Numbered`: until the counter wraps the ids since `audit_init` are 1, 2, 3, ..., so they grow along the log, and as many ids are shown as slots are read. `LoopRuns`: a loop has a state after every turn; `FirstAppended` and `FirstCollected`: what the two loops keep. |
| `MemoryProofs`: `HeldOnceAlways`, `BitmapExactAlways` | `ReservedKept`, or a free frame could be a reserved one; `UsedExact`, or an allocation could overwrite a holder. |
| `BlocksDisjointAlways`, `NeverReusedAlways` (of `Heap`), `AclBlocksAlways`, `AclNeverReusedAlways` (of the composition) | Every block ends at or below `heap_end`. |
| `ListKeptAlways`, `RemovalRevokesAlways` | `ListInv`: the array lies below the end of what was handed out, apart from every block of another owner, and holds `grants`. `Top` is that end, `AddrModulus` when the heap has wrapped exactly to address 0, the one state after a wrap in which the list is still claimed: there `kmalloc` answers NULL and no array is written. A new array is above the old one, so that the upward copy does not overtake itself (`MemcpyBefore`). |
| `InterruptsProofs`: `InServiceOnlyRunningAlways` | `ServiceByPhase`: which bits are in service at each phase of the dispatcher; `OneHandler`: interrupts are off while one runs; `KeyboardOnly`: only line 1 has a handler that acknowledges. The double acknowledgement is harmless because no handler is interrupted by another. |
| `MaskShadowAlways`, `TicksCountedAlways` | `ChipsAgree`, for each controller on its own. `TicksByPhase`: ticks counted, plus one while a timer interrupt has been taken and its handler not yet called, are the ticks taken; `ClockOwned`: vector 32 always has one of the two clocks once its gate is present. |
| `TimerProofs`: `SecondsExactAlways`, `NeverATickShortAlways`, `UptimeReadAlways` | `Clock` ties the wrapped counter and the uptime to the history of interrupts, `WholeSeconds` the callback's last tick to the last full second, `CallUnderWay` the locals of a sleeping or reading thread to what they were computed from. `Covered`: *w* interrupts take more than *w* - 1 ticks of time, wherever in a tick the call began. |
| `StoreExactAlways`, `RoundTripAlways` (of `KeyStore`) | `StoreInv`: the first `key_count` slots hold the entered keys, no key twice, so that moving the last key into a freed slot neither loses nor doubles one. `KeysFit`: what `crypto_generate_key` makes of a length, which no later call changes, because a destroyed key stays readable. |
| `FilesProofs`: `LinksExactAlways` | `TreeInv`: until a linked node is added again, there are sequences of nodes, one for each directory, in which no node occurs twice (`Tree`), which the pointers spell out (`Strung`) and outside which every `next` is null (`Loose`). `AddKeeps` and `RemoveKeeps` give the new sequences, `Walks` that a walk along the pointers runs through a sequence and ends, and `ShortLists` that it is shorter than the number of nodes. Without `Loose` a removed node would drag its old neighbours along. |
| `DataKeptAlways`, `ReadExactAlways`, `OpenOutcomesAlways` | `FileInv`: the block is at least as long as the file (`Roomy`), its beginning is what the file should hold (`Same`) until `krealloc` has cut it or a write has wrapped (`Whole`), and, while there was no accident, every offset is within the file, so that `offset + count` and `length - offset` do not wrap. `OverlayShape`, `GrownShape` and `WriteShape` say what a write makes of a block, with and without `krealloc`. `Unusable`, with it, says that no descriptor of a running kernel is for the created file; `OpenEnds` what an open leaves, and `QuietSteps` that no other step changes a file's name or shortens one. |

What a loop computes for every input is proved in five places (`memcpy`, the
first covering rule, the queries of the log, the walk along a list of children,
and the shell's parser), by induction through least
elements: a set of naturals that is not empty has a least one (`Least`, from the
library's well-foundedness of the naturals), so a set with 0 and closed under
successor has them all (`Reaches`).

Only model-checked: all liveness properties (`RoundRobin`, `HandlerReturns`,
`CommandsReturn`, `ReaderServed`, `OpenLinesServed`, `KeyReachesKernel`), because
fairness and `ENABLED` are outside the proof system. All other properties of the
passing runs are proved.
`OneRunning`, `NeverReused`, `Contained` and `CursorShown` are proved and no run
repeats them.

## 6. Not modelled

- CPU exceptions (`isr_handler`), the assembly start-up code, the loading of
  segment and paging registers, page faults.
- Colours, number formatting, banners, logging; what the shell's commands print.
- Two interrupt handlers inside each other, which the hardware set-up excludes.
- Sending and receiving packets and the RTL8139 driver: `current_device` is never
  set, so both calls return -1, and the vendor id is read byte by byte and never
  matches.
- Wifi: nothing moves its state from DOWN or sets a driver, so that every call
  returns an error.
- AES: a pure function on 16-byte blocks. Reading it shows that the terms of
  `inv_mix_columns` cancel (`aes.c:157-160`), so that decryption does not invert
  encryption, and that a CBC decryption in place overwrites the block it needs
  next (`aes.c:351-357`). Its arithmetic is out of TLC's reach, and a reduced
  field would be another program. The hash of `crypto.c` likewise.
- PCI and PCIe enumeration, port I/O without state; the older
  `drivers/terminal/terminal.c`.

## 7. Plan

Done, in this order: `Process` with `ProcessTable`, `Keyboard`, `Terminal`,
`Interrupts`, `Audit`, `Heap`, `Frames`, `Timer`, `Files`, `KeyStore`; then the
compositions `Acl` over `Heap`, `Security` over `Audit` and `Firewall`, `Shell`
over `Process`, and `Console` over `Terminal`. Left:

1. A composition of `Interrupts` and `Process`: the scheduler as the handler of
   vector 32, with the acknowledgement inside the handler.
2. An abstract byte-file specification that `Files` implements while
   `accidents` is empty, in place of `ideal`.
