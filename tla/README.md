# Verification of badge-elfloader

TLA+ models of the process runner, the ABI contexts and the optional kernel of
badge-elfloader, the component that loads ELF programs and libraries on a
FreeRTOS badge and runs them as processes. The models follow the code under
`src/`; `PROJECT.json` maps every definition to the lines it stands for.

## The system

| Component | State it keeps | Operations | Correct when |
|---|---|---|---|
| ABI contexts (`abi.cpp`, `abi.hpp`) | `contextMap`, `nextPID`; per context the lists `actual` and `mapped`, `exitPC`, `exitSP`; the number of a thread | `newContext`, `getContext`, `setContext`, `deleteContext`, `map`, `unmap`, `unmapIdx` | every block belongs to one context and is freed once; what is promised is inside its block and nobody else's; `map` gives what was asked |
| Runner (`runner.cpp`, `runner.S`) | the registry of libraries, the locals of each `startFD`, the `Params` of each task | `badgert_start*`, `badgert_register*`, `badgert_unregister`, `startFD`, `startPreloaded`, `taskCode`, `_badgert_jump_to_app` | a context lives as long as someone uses it and no longer; handles are closed once; what is linked is complete; starts return |
| Linkage (`progloader.cpp`) | files, programs and symbols of one program | `loadExecutable`, `loadLibrary`, `link`, `garbageCollect` | part of the runner's properties; memory of a load that fails is freed once |
| Process calls (`libc.cpp`, `system.cpp`) | none of their own | `_exit`, `abort`, `__mem_map`, `__mem_unmap`, `yield`, `delay_ms` | they work on the context of the calling process |
| Kernel (`trap.S`, `kernel.cpp`, `abicall.S`) | `mscratch` of the core; per process two register files, `is_super` | trap entry and return, the system calls, `setCtx`, `setDefaultCtx`, `panic` | a trap lands in the context of the process that trapped, each task goes on with its own registers, nothing a process does in user mode makes the kernel panic |
| ABI table (`abi.cpp`, `abiwrapper.S`) | `cache`, `abiTable` | `exportSymbols`, `initCache`, `getAbiTable`, the call wrappers | a program is linked only to wrappers, and each calls the function whose name it has |
| Kernel boot (`kernel.cpp` `init`) | the interrupt vector table, `defaultTrapHandler`, `interruptVectorTable` | `init`, `readJAL`, `writeJAL` | traps reach the copy of `customTrap`, no handler of the firmware is lost |
| Display (`abi/display.cpp`) | `displays`, `lastID` | `display_add`, `display_remove`, `display_write`, `display_write_partial` | an ID names one display for good, drawing stays inside it and runs code that is there |
| GPIO and I2C (`abi/gpio.cpp`) | the command link of each thread and interface, `host_cmd` | `i2c_host_*`; the pin functions forward to the driver | links are not lost and refer to memory that is there; success means the whole transaction |

Interaction. A host thread of the firmware calls `startFD`, which makes a
context, maps the program and its libraries into it, and gives both to a new
FreeRTOS task. From then on only the task touches them: it binds the context to
its thread, jumps to the program, serves the program's ABI calls as plain calls
(or, with the kernel, through traps), and deletes the context when the program
ends. Hosts and tasks run concurrently and share `contextMap`, `nextPID`, the
heap and the registry, none of them under a lock.

With the kernel, a program does not call ABI functions: it is linked to wrappers
that trap with a number, and the trap handler calls the entry of that number in
`abiTable`. Display and I2C are called through either way.

What is hard here: steps of two hosts or of a host and tasks in an unexpected
order; any step of a load failing with some of the work done; contexts held by
reference while others are deleted; two lists kept in step by index over long
sequences of calls; unsigned lengths that wrap; one hardware register shared by
all processes; functions, buffers and tables that one side keeps pointers to while
the other goes away or grows. The hazards are listed, each at its line, in `PROJECT.json`.

## Modules

**ContextMemory** is the abstract memory: contexts own sets of blocks, a block
has one owner, deleting a context frees what it owns.

**AbiContext** models `abi.cpp` in full, without the code nobody calls. A
`size_t` is a number modulo `SizeMod`, ranges and lists are those of the code,
and `RoundedLength`, `RequestLength` and `PromisedBase` are the arithmetic of
`map` line by line, wrapping where it wraps. The allocator is external: it
answers with any free, word-aligned range of the heap, or with nothing.
`MemRange::size` of a block is the length asked for, as `allocator()` sets it.
Each call is one step, so the model is that of calls that do not overlap;
overlapping calls of `newContext` are split in Runner, where they matter.

**Runner** models the variant without the kernel. Each host is a small program
(`load[h].pc`): `ReadPID`/`InsertContext` are the load and store of `nextPID++`,
`LoadFile`/`LoadFails` the loading of one file, `FindLibrary` the choice and
opening of the next library, `Link`, `CreateTask`/`TaskFails`,
`DeleteAfterFailure`, `CloseFiles` the rest of `startFD`. Each task is another
(`tasks[t].pc`): `Collect`, `SetContext`, `JumpToApp`, the process itself
(`AppMaps`, `AppUnmaps`, `AppEnds`), `EndContext`, `EndTask`. The contexts are
an instance of ContextMemory, which AbiContext is proved to implement. The ELF
parser, files and `xTaskCreate` are external and may fail at every call. Two
things the C++ memory model leaves undefined are given the outcomes the build
produces: `nextPID++` is a load and a store, and a use of a deleted context can
only abort (`Dangling`, a guard of `Halt`). That `unordered_map` may be damaged
by concurrent inserts is not modelled.

**Kernel** models user mode. `pc[p]` is where the task of process `p` is:
before `setCtx` (`start`), about to request user mode (`jump`), in the process
(`user`), in an ABI function (`abi`), in `vPortYield` or `vTaskDelay` inside one
(`yield`), in `trapHandler` (`fault`), back in `runUserCode` (`back`), after
`setDefaultCtx` (`free`). Registers are reduced to whose they are and where they
were taken, which is enough to say whether a restore gives a task its own. Traps
run with interrupts off and are one step, except where the code turns them on:
in the ABI function and in `trapHandler`. Where a handler reads `mscratch` again
the model reads it again, and where it keeps a local the model has `local` or
`kept`. `is_super` of a new `kctx` is what the stack held. A task that has been
given registers of another is `lost`; what follows is not modelled.
`SYS_USERENTER` from machine mode is not modelled: nothing in the repository
issues it. The compile-time variants `DUAL_M_MODE`, `FORWARD_NON_ECALL_*` and
`PRESERVE_*` are off, as in `kernel_include.S`. Hosts and other tasks of the
firmware (`Switch(None)`) may interrupt a process at any point where interrupts
are on; whether processes may interrupt each other there is `AnySwitch`.

**VectorTable** models `kernel::init`. The table is a row of `jal` instructions,
kept as their fields; `ReadJAL` and `WriteJAL` are `readJAL` and `writeJAL` with
the sign bit and the bits the field layout drops. `KernelInit` does the steps of
`init` in their order, which decides what `defaultTrapHandler` and
`interruptVectorTable` hold. Interrupts are off, so it is one step;
`KernelInitFails` is a `malloc` that fails, whose null is copied to. Where the
copies land is external: any address of `Copies`, in reach of a jump or not.

**UserCalls** extends it to the whole way of an ABI call: `Boot`; per host
`Export` (the test of the cache), `Fill` (one of the six
`exportSymbolsUnwrapped`), `Wrap` (one round of the loop in `initCache`, in any
order, with or without memory for the wrapper) and `Copy`; per process
`TakeTable`, `Call` and `End`. A symbol is absent, null, a bare function or a
wrapper with its number. `Outcomes` says what a call by name comes to: a wrapper
traps (to the firmware, if the patched jump goes elsewhere), `SYS_ABICALL`
compares the number with `u_abi_size` and takes the entry from a table that may
have moved since. `Halts` covers what cannot go on, among it a function that
needs `abi::getContext()`, which nothing sets with the kernel. The call itself,
one step here, is module Kernel's.

**Display** models the registry against the life of processes. A display keeps
a function of the process that added it; drawing is a step into that function
and, later, one out of it. A write function may draw in turn, so `drawing[u]` is
the stack of those a user is in; displays are added and removed meanwhile, also
from inside one. `Sums` gives an overflowing `x + w` every value a build may
compute. A process ends at any moment (`EndProcess`), returned, exited or
faulted, and nothing in the code removes its displays: the history variable
`mine` keeps what it left behind. `DrawRunsLiveCode` says that this, and a draw
that began before the removal, are the only ways to run the function of a
process that is gone.

**I2CHost** models the I2C host: a command link per thread and interface, made
by whichever call comes first, and `Request`, `Stop` and `Transact`
(`i2c_host_write_to`, `i2c_host_read_from`) with every failure of the driver:
no memory for a link, a command that is not queued, a bus that does not answer.
The addresses are the bytes of the code. `write_byte` queues its byte by value,
`write_bytes` and `read_bytes` refer to the caller's buffer until stop;
`read_byte`, which refers to a byte of the caller, is like the latter. Processes
unmap their buffer and end at any moment: `pending` tells which transactions
were begun and not stopped, also by a process that is gone (its thread-local
`host_cmd` goes with it, its links stay in the heap), and `careless` which
processes unmapped the buffer in one. `NoLinkLeak` and `BuffersOutliveLinks` name
these cases, so that nothing else may lose a link or unmap under it. The history
variables `asked` and `bus` keep what the calls that returned true asked for and
what a successful stop put on the bus; `Heard` is what a device makes of it by
the I2C standard. Calls work on the link of their own thread, so each is one
step.

`MC*` modules give the constants values and symmetry. Operators whose comment
starts with `Mutant:` are plausible mistakes in one definition; they are not
part of any specification, and each property is known to notice one of them.

## Runs

| Run | Shows | Bounds |
|---|---|---|
| `abi_context` | `OwnedOnce`, `PromisesBacked`, `PromisesDisjoint`, `MapHonoursRequest` over every order of new, map, unmap, delete; the lists implement ContextMemory | two contexts, three mappings each, five words of heap in eight addresses (a word is one address, so every placement is tried); length 0, 1 and one that wraps; alignment 0, a rejected one and one above the word |
| `abi_context_wrap` | violation: a length near the top of `size_t` is "mapped" with length 0 | |
| `runner` | contexts live exactly as long as their users; `_exit` finds its own frame; `StartReturns`, `ProcessReleased` | one host, three starts, three blocks, two libraries that need each other: a start overlaps two processes; 267,272 states |
| `runner_two_hosts` | `LinkedComplete`, `HandlesClosed`, `MemoryOwnedOnce`, `StartAdvances` with two starts interleaved and every failure but that of an export | two hosts, two starts, two libraries that need each other and the program |
| `runner_shared` | violation: two hosts get the same context number | |
| `runner_export` | violation: memory freed by a failed export is freed again with the context | |
| `kernel` | traps land in the right context, tasks go on with their own registers, frames survive, the active context exists, no panic from user mode | three processes at once |
| `kernel_sliced` | violation: two processes switched anywhere run with each other's registers | |
| `user_calls` | `SymbolsWrapped`, `TableStaysPut`, `CallReachesNamed`, `VectorsKeepHandlers` from boot to calls | one host, two processes, four names in two groups with an alias, a copy of the handler above, below and out of reach |
| `user_calls_two_hosts` | violation: a second host links a program with bare functions | |
| `display` | `IdsNotReused`, `DrawRunsLiveCode`, `DrawStaysInside` | two processes and the firmware, two displays, three write functions at once, in one user or in several; a 4-bit `int`; areas at each edge, negative, too large, overflowing |
| `i2c_host` | `NoLinkLeak`, `BuffersOutliveLinks`, `SuccessIsWhole`, with processes that unmap and end at any moment | two threads, one interface, a 7-bit, a 10-bit and a refused device, two bytes for `write_byte` of which one begins like a 10-bit address; three commands in all links before a transfer adds its own, so that a START with a 10-bit address fits, given as such or byte by byte, and a transfer after it |

The bounds are chosen so that every action happens and the objects that can be
confused exist at least twice: two contexts, two mappings of a context below a
third (an index error in the middle of a list needs three entries), a process
that ends while another runs and a third starts. In AbiContext the address space
is small enough for rounding to wrap, and blocks with and without padding differ
in size so that an entry out of step shows. More processes or hosts add
only copies of the same interactions. A second I2C interface is another link of
the same kind: nothing but the bus lock, which is external, is shared. Links are
thread-local, so a second thread adds nothing to what one puts on the bus, and
the bound on commands is one for all links: it is there so that no link is taken
for another's when a thread stops or ends. In
Display two IDs are enough for one to be removed and another given out; sizes
one apart tell an off-by-one in the check.

Two hosts can be handed the same context (`runner_shared`) and unwrapped symbols
(`user_calls_two_hosts`), after which little can be promised. `runner` and
`user_calls` therefore have one host, which is how the firmware is meant to use
the component, and the properties that hold in spite of the races, those about
files and handles, the progress of a start and the owner of a block (two starts
with one number share one context, and its blocks have it as their owner), are
checked with two. A failed export breaks the last (`runner_export`).

Kernel has two regimes. FreeRTOS in ESP-IDF shares the processor between tasks
of equal priority and may switch them wherever interrupts are on; `mscratch` is
not part of what it saves. With that (`AnySwitch`), processes run with each
other's registers (`kernel_sliced`). With `AnySwitch` off a process is given the
processor only when no other is between `setCtx` and `setDefaultCtx`, or when
that other is in `yield` or a delay, where the code saves and restores the
context itself; the firmware's own tasks still interrupt anywhere. `kernel` and
the proofs show that this discipline is enough, so that the missing piece is
exactly the switches in between.

Deadlock is checked except in `user_calls`, where the system stops when every
process has ended or a call halted the firmware.

Fairness (`runner` only): a host inside `startFD` and a task outside its
program are not delayed forever. Tasks have priority 0 and share time with the
idle task, hosts do a finite amount of work per call, and no step waits for
another thread, so weak fairness of each thread's own steps is what the
scheduler gives. Nothing is assumed about when hosts call the library or what
processes do: a process may run forever, and `ProcessReleased` starts when it
has ended. `StartReturns` then depends on the catalogue of tried libraries
(`libs`): each pass of the loop tries a new name, which `StartAdvances` states
without fairness: what is left of a start decreases with each of its steps.

## Proofs

All theorems hold for every value of the constants that satisfies the module's
assumption.

**AbiContextProofs** assumes `SizesAssumption`: a word and the accepted
alignments divide the number of `size_t` values (they are powers of two), and
the heap is inside the address space and does not contain address 0. The
inductive invariant is

    IInv == TypeOK /\ BlocksApart /\ OwnedOnce /\ PromisesBacked

`BlocksApart`, a fact about the allocator, is what makes `OwnedOnce` inductive:
a new block differs from every block in use, so it is in no list yet.
`PromisesBacked` needs the arithmetic (`PromiseLemma`): a length whose rounding
wraps becomes 0, a multiple of the alignment; rounded length and padding together
exceed the address space never and equal it at most, and then the request wraps
to 0, which gets no block. So the promise stays inside the block whatever is
asked. `PromisesDisjoint` follows
from the three others. `HonoursAlways` proves `MapHonoursRequest`, that what `map`
returns is as long and as aligned as asked: rounding up and aligning a base are
exact where they do not wrap (`RoundedUpLemma`, `AlignedBaseLemma`). `Refinement` proves `Spec => MemorySpec`: a context's
abstract set of blocks is the range of its `actual` list, injective by
`OwnedOnce`, so removing one entry removes one block.

**KernelProofs** assumes that tasks are switched only outside processes and in
`yield` and the delays (`~AnySwitch`), for any number of processes at once. The
inductive invariant adds to the checked properties that only one task is
between `setCtx` and `setDefaultCtx` outside `yield` and the delays (`Alone`),
that the active context is its (`OwnActive`) or that of a task in between
(`ActiveInside`), and what handlers keep in locals (`OwnLocals`). `Alone` is what
fails with time slicing. From it follow the theorems on types, own contexts, own
registers, the machine frame, the active context and panics.

**RunnerProofs** proves every safety property and the action property of Runner,
each under the weakest condition it has.

- *Any number of hosts.* Types: numbers stay in bounds because of the starts so
  far, those whose `nextPID++` is not finished are not counted in it yet
  (`NumbersGiven`; two hosts that write the same value back only make it
  smaller). `HandlesClosed` and `LinkedComplete` rest on `CallInv`, what the
  locals of one call say of each other: until the loading is over `fds` has all
  handles but that of the library at hand; `libs` has every file loaded, each
  loaded once, and the name at hand, which is not loaded yet. No other thread touches
  them. From it follows `StartAdvances`, for any finite set of names.
- *One host* (`OneHost`, in the theorems' statements). `UseInv` says that the
  number read is still the next and above that of every context (`FreshNumber`),
  that users find their context (`ContextOutlivesUsers`), that a context has a
  user (`NoOrphanContext`) and only one (`OneUser`), and that a process runs with
  the number of its task (`OwnNumber`). None of these is inductive without the
  others: a delete is harmless because there is one user, and there is one user
  because the context was new. `FreshNumber` is what a second host breaks
  (`runner_shared`).
- *Exports that do not fail* (`~ExportMayFail`), any number of hosts.
  `RefinesMemory`: whatever the runner does to contexts, it does by the
  operations of ContextMemory, which AbiContext implements; so `MemoryOwnedOnce`.

**UserCallsProofs** assumes `VectorAssumption` (the firmware's table consists of
jumps that reach their handlers) and `ExportsAssumption` (tables of functions by
name). `JalRoundTrip` proves that `readJAL` undoes `writeJAL` for every even
offset of 21 bits with its sign; from it `VectorsKeepHandlers` follows for every
table. `TypeOK` holds for any number of hosts: the table only grows, so a
wrapper's number stays below its length. The others assume one host (`OneHost`,
in the theorems' statements), and rest on an invariant that follows this host
through `initCache`: before it everything is absent, while it fills there are
only functions, each that of the last group so far; while it wraps, a name is
either still to do and a function or done and a wrapper or null; after it all is
wrapped and nobody fills again, because there is at least one name (`Names # {}`).

**DisplayProofs** proves all four properties, for any users, sizes, areas and
width of `int`. The inductive part is `DisplaysOwed`: a display in the registry
is on the list of what its process has to remove, also once the process has
ended, because only `display_remove` takes it off and it takes it out of the
registry too. The bounds check needs that a sum which does not overflow is the only
value of `Sums` in range.

**I2CHostProofs** proves types, `NoLinkLeak`, `BuffersOutliveLinks` and
`SuccessIsWhole`, for any number of threads, devices and commands of a link. A
thread with a link has `pending` set, so one that unmaps its buffer then is
`careless`, and for the others a link that refers to the buffer has it mapped.
`SuccessIsWhole` rests on `AskedInv`: at every moment the commands of a link say
what the calls that returned true asked for (`Says`), as long as that makes a
transaction. To say the same is to be heard alike and to end alike, in START or
in a byte that begins a 10-bit address, because that decides what the next
byte is heard as. Every kind of command has a lemma that `Says` still holds once
it is appended (`PlainSays`, `NarrowAddressHeard`, `WideAddressHeard`), by
`LastPart`, which gives what the last command adds; `AddressHeard` is the
arithmetic of the address bytes, for every address of 10 bits.

**FlattenLemmas** proves of the community modules' `FlattenSeq`, in which `Heard`
is written, that it grows at its end when its argument does. Its definition is
recursive and the library's induction theorems cannot be used with the installed
provers; the one function that its equations describe is found from the first
place where they could fail, by the well-foundedness of `<`.

Only model-checked: the liveness properties `StartReturns` and `ProcessReleased`,
which are out of the prover's reach (`StartAdvances` is the part of the first
that is not), and the counterexamples of the violation runs. For these, what the
theorems assume is exactly what the runs take away: one host, exports that do not
fail, no time slicing inside processes, lengths that can be rounded.

## Findings

Listed in `PROJECT.json` with the lines; each has a run that exhibits it: the
wrapping length, the context number two hosts share, the double free after a
failed export, the kernel context that time slicing mixes up, and the symbol
cache a second host sees half filled.

Seen by reading, without a property:

- `MemMapped::actual` (`abi.hpp:77`) goes stale at the first unmap that is not of
  the last mapping (`abi.cpp:216`). Nothing reads it.
- A library buffer that is unregistered while another thread starts a program
  is still read by that start (`runner.cpp:389`).
- The exit callback of `startFD` (`runner.hpp:39`) is stored and destroyed,
  nothing calls it; `runUserCode` returns -1 whatever the process returned.
- Nothing in the repository calls `kernel::init`. With the kernel nothing calls
  `setContext`, so `_exit`, `__mem_map` and `__mem_unmap` stop the firmware
  (`Halts` in UserCalls).
- A copy of `customTrap` further than 1 MB from the vector table, as between
  flash or internal RAM and an external heap, is not reached: `writeJAL` drops
  the upper bits without a check. `user_calls` includes it, and
  `CallReachesNamed` excludes it by `Reachable`.
- Two calls of `display_add` that overlap can return one ID, and race on the map.
  A display that its process leaves behind is drawn to with a function that is
  gone; so is one removed while a draw to it goes on, if its process ends then.
- `x + w` that overflows passes the check of `display.cpp:45`.
- `io_set_mode` sets an output pin to input (`gpio.cpp:150`).
- `i2c_host_write_to` returns 0 or 1, not the "number of acknowledged data
  bytes or -1" of `gpio.cpp:315`. `i2c_host_write_addr` and the byte functions
  return true before anything was on the bus, not "successful and acknowledged".
- A 10-bit read sends the read bit at once, without the write phase and repeated
  START of the standard.
- An `i2c_host_write_addr` that fails in between leaves half an address in the
  link; an `i2c_host_init` that fails on an installed driver has changed the pins;
  a thread that ends without stop loses its link.
- `__printf_chk` is exported as `printf`, which has one parameter less.

## Not modelled

ELF parsing and relocation (an external library), memory protection settings,
the search path (stored, never read), formatted output, the exported C and math
functions (no state here; their tables are instances of `Exports`), the pin
functions (one driver call each), `interrupt.S` (copied by `init`, never
installed), traps before the first `setDefaultCtx` (only a fault of the firmware
itself), overlapping calls of the display registry and concurrent inserts into
`contextMap` (undefined behaviour of the containers).

## Plan

1. Done: ContextMemory, AbiContext, Kernel, VectorTable, UserCalls, Display,
   I2CHost and Runner with runs and proofs; every invariant and action property
   of a passing run is a theorem.
2. Kernel with some kind of time slicing: which of its properties survive
   `AnySwitch` (`ExitFindsMachineFrame` may) and which do not.
3. UserCalls with two hosts: what remains of `CallReachesNamed` when symbols may
   be bare functions, and `TableStaysPut` without `OneHost`.
